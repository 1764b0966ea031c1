-------------------------------- MODULE Glob --------------------------------
(***************************************************************************)
(* glob() and globfree() of ConsoleApplication1/Glob.cpp: the entries that *)
(* FindFirstFile and FindNextFile name are filtered into a buffer, and the *)
(* buffer is turned into the path vector of a glob_t.                      *)
(*                                                                         *)
(* A pattern is what glob() finds out about it, and a name what the flags  *)
(* tell apart: is it a directory, is it "." or "..", does it begin with a  *)
(* dot?  The buffer is one block, whose contents are the paths.            *)
(***************************************************************************)
EXTENDS Integers, Sequences, SequencesExt

CONSTANTS
  Directories,   \* bound: the directories, sequences of names
  Flags,         \* bound: the sets of flags
  Limits         \* bound: the gl_matchc that a caller sets

Names == [dir : BOOLEAN, dots : BOOLEAN, hidden : BOOLEAN]
(* A leaf that begins with a wildcard has one, and "." and ".." have none. *)
Patterns ==
  {p \in [magic : BOOLEAN, magic0 : BOOLEAN, dots : BOOLEAN, file_part : BOOLEAN, tilde : BOOLEAN] :
     (p.magic0 => p.magic) /\ (p.dots => ~p.magic)}

VARIABLES
  pc,      \* "none", "entry", "next", "build", "nomatch", "done", "freed"
  args,    \* the pattern, the flags and the limit
  rest,    \* the names that FindNextFile has still to name
  found,   \* the paths in the buffer
  block,   \* the buffer: "NULL", "live" or "freed"
  glob,    \* the glob_t: gl_pathc, gl_pathv, gl_matchc, and the paths
  result,  \* what glob() returns
  handle,  \* is hFind open?
  failed   \* has realloc() failed, and where?

vars == << pc, args, rest, found, block, glob, result, handle, failed >>

NoGlob == [pathc |-> 0, pathv |-> "NULL", matchc |-> 0, paths |-> << >>]

Init ==
  /\ pc = "none"
  /\ args = [pattern |-> "none", flags |-> {}, names |-> << >>]
  /\ rest = << >> /\ found = << >> /\ block = "NULL" /\ glob = NoGlob
  /\ result = "GLOB_SUCCESS" /\ handle = FALSE /\ failed = "no"

(* A path: the entry's number, 0 for the pattern itself; is it intact? *)
Path(entry, intact) == [entry |-> entry, intact |-> intact]

Has(flag) == flag \in args.flags

(* maxMatches: without GLOB_LIMIT it is 0. *)
maxMatches == IF Has("LIMIT") THEN args.limit ELSE 0
bNoMagic == Has("NOMAGIC") /\ ~args.pattern.magic

-----------------------------------------------------------------------------
(* Up to FindFirstFileA.  The tilde is expanded before the search.  If     *)
(* nothing is found, gl_matchc is still the caller's when the end compares *)
(* it with the limit.                                                      *)
Call(p, flags, limit, names) ==
  /\ pc = "none"
  /\ p.tilde => "TILDE" \in flags
  /\ args' = [pattern |-> p, flags |-> flags, names |-> names, limit |-> limit]
  /\ glob' = [NoGlob EXCEPT !.matchc = limit]
  /\ IF names # << >>
     THEN pc' = "entry" /\ rest' = names /\ handle' = TRUE /\ result' = "GLOB_SUCCESS"
     ELSE /\ UNCHANGED << rest, handle >>
          /\ IF p.magic /\ p.file_part
             THEN pc' = "done" /\ result' = IF limit = (IF "LIMIT" \in flags THEN limit ELSE 0)
                                            THEN "GLOB_NOSPACE" ELSE "GLOB_SUCCESS"
             ELSE pc' = "nomatch" /\ result' = "GLOB_NOMATCH"
  /\ UNCHANGED << found, block, failed >>

(* The tests that "continue" past an entry. *)
Skipped(name) ==
  \/ args.pattern.magic0 /\ ~Has("PERIOD") /\ name.hidden
  \/ name.dir /\ args.pattern.magic0 /\ Has("NODOTSDIRS") /\ name.dots
  \/ ~name.dir /\ Has("ONLYDIR")

(* "continue" goes to the test of the do-while loop. *)
Skip ==
  /\ pc = "entry" /\ Skipped(Head(rest))
  /\ pc' = "next"
  /\ UNCHANGED << args, rest, found, block, glob, result, handle, failed >>

(* The path is copied into the buffer, which grows if it is too small.  A  *)
(* pattern without a directory has file_part = NULL, and the length given  *)
(* to lstrcpynA is then the low half of a pointer: if that is negative     *)
(* nothing is copied and the name is appended to what the block held.      *)
Take ==
  /\ pc = "entry" /\ ~Skipped(Head(rest))
  /\ \E intact \in {TRUE, args.pattern.file_part} :
       found' = Append(found, Path(Len(args.names) - Len(rest) + 1, intact))
  /\ block' = "live"
  /\ pc' = "next"
  /\ UNCHANGED << args, rest, glob, result, handle, failed >>

(* realloc() fails: the buffer is freed, the loop is left. *)
TakeFails ==
  /\ pc = "entry" /\ ~Skipped(Head(rest))
  /\ result' = "GLOB_NOSPACE" /\ failed' = "entry" /\ block' = "NULL" /\ handle' = FALSE
  /\ pc' = IF found = << >> THEN "nomatch" ELSE "done"
  /\ UNCHANGED << args, rest, found, glob >>

(* Mutant: the limit is tested as an upper bound. *)
LoopsOnBelow == Tail(rest) # << >> /\ Len(found) < maxMatches

(* FindNextFileA(hFind, &find_data) && cMatches != maxMatches *)
LoopsOn == Tail(rest) # << >> /\ Len(found) # maxMatches

NextEntry ==
  /\ pc = "next"
  /\ IF LoopsOn THEN pc' = "entry" /\ rest' = Tail(rest) /\ UNCHANGED handle
     ELSE pc' = "build" /\ handle' = FALSE /\ UNCHANGED rest
  /\ UNCHANGED << args, found, block, glob, result, failed >>

-----------------------------------------------------------------------------
(* The pointers are put before the paths: with GLOB_NOSORT from the last   *)
(* to the first, else in the order of the search.                          *)
Ordered == IF Has("NOSORT") THEN Reverse(found) ELSE found

Build ==
  /\ pc = "build"
  /\ block' = "live"
  /\ glob' = [pathc |-> Len(found), matchc |-> Len(found), pathv |-> "block", paths |-> Ordered]
  /\ IF found = << >> THEN pc' = "nomatch" /\ result' = "GLOB_NOMATCH"
     ELSE /\ pc' = "done"
          /\ result' = IF Len(found) = maxMatches THEN "GLOB_NOSPACE" ELSE "GLOB_SUCCESS"
  /\ UNCHANGED << args, rest, found, handle, failed >>

(* The buffer is freed, and "buffer" still points to it. *)
BuildFails ==
  /\ pc = "build"
  /\ block' = IF block = "live" THEN "freed" ELSE block
  /\ failed' = "build"
  /\ IF found = << >> THEN pc' = "nomatch" /\ result' = "GLOB_NOMATCH"
     ELSE pc' = "done" /\ result' = "GLOB_NOSPACE"
  /\ UNCHANGED << args, rest, found, glob, handle >>

-----------------------------------------------------------------------------
(* GLOB_NOMATCH: GLOB_NOCHECK and GLOB_NOMAGIC return the pattern itself.  *)
ReturnsPattern ==
  /\ ~(Has("TILDE_CHECK") /\ args.pattern.tilde)
  /\ bNoMagic \/ Has("NOCHECK")

NoMatch ==
  /\ pc = "nomatch" /\ ~ReturnsPattern
  /\ result' = "GLOB_NOMATCH" /\ pc' = "done"
  /\ UNCHANGED << args, rest, found, block, glob, handle, failed >>

NoCheck ==
  /\ pc = "nomatch" /\ ReturnsPattern
  /\ block' = IF block = "freed" THEN "used" ELSE "live"
  /\ glob' = [pathc |-> 1, matchc |-> 1, pathv |-> "block", paths |-> << Path(0, TRUE) >>]
  /\ result' = "GLOB_SUCCESS" /\ pc' = "done"
  /\ UNCHANGED << args, rest, found, handle, failed >>

(* realloc() fails: gl_pathv, if Build set it, is left as it was. *)
NoCheckFails ==
  /\ pc = "nomatch" /\ ReturnsPattern
  /\ block' = IF block = "NULL" THEN "NULL" ELSE IF block = "live" THEN "freed" ELSE "used"
  /\ failed' = "nocheck"
  /\ result' = "GLOB_NOSPACE" /\ pc' = "done"
  /\ UNCHANGED << args, rest, found, glob, handle >>

globfree ==
  /\ pc = "done"
  /\ block' = IF glob.pathv = "NULL" THEN block
              ELSE IF block = "live" THEN "NULL" ELSE "used"
  /\ glob' = [glob EXCEPT !.pathc = 0, !.pathv = "NULL"]
  /\ pc' = "freed"
  /\ UNCHANGED << args, rest, found, result, handle, failed >>

Next ==
  \/ /\ pc = "none"
     /\ \E p \in Patterns, flags \in Flags, limit \in Limits, names \in Directories :
          Call(p, flags, limit, names)
  \/ Skip \/ Take \/ TakeFails \/ NextEntry \/ Build \/ BuildFails
  \/ NoMatch \/ NoCheck \/ NoCheckFails \/ globfree

Spec == Init /\ [][Next]_vars

-----------------------------------------------------------------------------
Accepted == {Path(n, TRUE) : n \in {i \in 1..Len(args.names) : ~Skipped(args.names[i])}}

(* The paths are the accepted ones, in the order of the search. *)
InOrder(paths) ==
  /\ {paths[i] : i \in 1..Len(paths)} = Accepted
  /\ \A i, j \in 1..Len(paths) : i < j => paths[i].entry < paths[j].entry

(* Without GLOB_LIMIT glob() returns every entry that passes its tests, in *)
(* the order of the search, or backwards with GLOB_NOSORT, if the pattern  *)
(* names a directory and the first entry passes: otherwise the number of   *)
(* matches is 0 after that entry, as the limit is, and the loop ends.      *)
FindsAll ==
  /\ pc = "done" /\ failed = "no" /\ ~Has("LIMIT")
  /\ args.pattern.file_part /\ args.names # << >> /\ ~Skipped(args.names[1])
  => /\ result = "GLOB_SUCCESS"
     /\ InOrder(IF Has("NOSORT") THEN Reverse(glob.paths) ELSE glob.paths)

(* As Glob.h says: GLOB_NOMATCH means that no entry passes the tests, and  *)
(* only GLOB_LIMIT limits a search.  It does not hold: a search that skips *)
(* its first entry stops there.                                            *)
NoMatchMeansNone ==
  /\ pc = "done" /\ failed = "no" /\ ~Has("LIMIT")
  /\ args.names # << >> /\ result = "GLOB_NOMATCH"
  => Accepted = {}

(* With GLOB_LIMIT no more paths are returned than the caller asked for,   *)
(* and a result of GLOB_NOSPACE says that there are as many, even if no    *)
(* entry was left over.                                                    *)
LimitKept ==
  pc = "done" /\ Has("LIMIT") /\ args.limit > 0 /\ args.names # << >> =>
    /\ Len(found) <= args.limit
    /\ failed = "no" /\ found # << >> =>
         (result = "GLOB_NOSPACE") = (Len(found) = args.limit)

(* The search is closed when the loop is left.  globfree() leaves nothing  *)
(* behind and nothing is freed twice, unless a realloc() failed after the  *)
(* last entry: "buffer" and gl_pathv are not reset then.                   *)
FreedOnce ==
  /\ handle = (pc \in {"entry", "next"})
  /\ failed \in {"no", "entry"} =>
       /\ block \in {"NULL", "live"}
       /\ glob.pathv = "block" => block = "live"
       /\ pc = "freed" => block = "NULL"
=============================================================================
