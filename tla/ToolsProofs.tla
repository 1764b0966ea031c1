---------------------------- MODULE ToolsProofs -----------------------------
(***************************************************************************)
(* Proofs about ConsoleApplication1: what the calls on the event log find, *)
(* what its parts release and what its listings return, for every number   *)
(* of records, calls, rows, message libraries and processes.               *)
(***************************************************************************)
EXTENDS MCTools, TLAPS

-----------------------------------------------------------------------------
(* WMIManager *)

Services == {"locator", "cimv2_service", "default_service"}
InRow == {"field", "user_next", "user_obj", "row"}
InQuery == InRow \cup {"next"}

(* What the objects of a query are referenced for. *)
Held(o) ==
  \/ o = "enumerator" /\ w_pc \in InQuery
  \/ o = "obj" /\ w_pc \in InRow
  \/ o = "user_enum" /\ w_pc \in {"user_next", "user_obj"}
  \/ o = "user_obj" /\ w_pc = "user_obj"

WmiTyped ==
  /\ w_refs \in [W!Objects -> 0..1]
  /\ w_wql \in BOOLEAN
  /\ w_method = "GetLogs" => w_leaked \subseteq {"error"}

(* The services that the constructor has connected: none if the locator    *)
(* was not made, and none either, though the pointers stay, if a           *)
(* ConnectServer failed.                                                   *)
WmiServices ==
  /\ w_pc = "none" => w_wql = FALSE /\ w_failures = {} /\ w_leaked = {} /\ \A o \in Services : w_refs[o] = 0
  /\ w_pc = "cimv2" => /\ w_wql = FALSE /\ w_failures = {} /\ w_refs["locator"] = 1
                       /\ w_refs["cimv2_service"] = 0 /\ w_refs["default_service"] = 0
  /\ w_pc = "default" => /\ w_wql = FALSE /\ w_refs["default_service"] = 0
                         /\ w_refs["locator"] = w_refs["cimv2_service"]
                         /\ w_refs["locator"] = 0 <=> "ConnectServer" \in w_failures
  /\ w_pc \in InQuery \cup {"query", "end"} =>
       /\ \A o \in Services : w_refs[o] = w_refs["locator"]
       /\ w_wql = FALSE => w_refs["locator"] = 0 /\ "ConnectServer" \notin w_failures
       /\ w_wql = TRUE => (w_refs["locator"] = 0 <=> "ConnectServer" \in w_failures)
  /\ w_pc \in InQuery => w_wql = TRUE /\ w_refs["locator"] = 1
  /\ w_pc = "done" => \A o \in Services : w_refs[o] = 0

(* The objects of a query live as long as the loops that use them. *)
WmiObjects ==
  w_pc # "undefined" =>
    \A o \in W!Objects \ Services : w_refs[o] = IF Held(o) THEN 1 ELSE 0

WmiInv == WmiTyped /\ WmiServices /\ WmiObjects /\ W!DefinedUnlessFailed

LEMMA WmiInitially ==
  ASSUME W!Init
  PROVE  WmiInv
  <1> USE DEF W!Init
  <1>1. WmiTyped
    <2>1. w_refs \in [W!Objects -> 0..1]
      OBVIOUS
    <2> QED
      BY <2>1 DEF WmiTyped
  <1>2. WmiServices
    BY DEF WmiServices, Services, InQuery, InRow, W!Objects
  <1>3. WmiObjects
    BY DEF WmiObjects, Held, InQuery, InRow
  <1>4. W!DefinedUnlessFailed
    BY DEF W!DefinedUnlessFailed
  <1> QED
    BY <1>1, <1>2, <1>3, <1>4 DEF WmiInv

LEMMA WmiStep ==
  ASSUME WmiInv, W!Next
  PROVE  WmiInv'
  <1> USE DEF WmiInv
  <1>1. CASE W!Start
    <2> USE <1>1 DEF W!Start, W!Acquire, W!Fails, W!Methods, WmiServices, WmiObjects, InQuery, InRow
    <2>1. WmiTyped'
      BY DEF WmiTyped, Services, Held, W!Objects
    <2>2. WmiServices'
      BY DEF WmiTyped, Services, W!Objects
    <2>3. WmiObjects'
      BY DEF WmiTyped, Held, W!Objects, Services
    <2>4. W!DefinedUnlessFailed'
      BY DEF WmiTyped, Services, W!DefinedUnlessFailed
    <2> QED
      BY <2>1, <2>2, <2>3, <2>4
  <1>2. CASE W!ConnectCimv2
    <2> USE <1>2 DEF W!ConnectCimv2, W!Acquire, W!Release, W!Fails, WmiServices, WmiObjects, InQuery, InRow
    <2>1. WmiTyped'
      BY DEF WmiTyped, Services, Held, W!Objects
    <2>2. WmiServices'
      BY DEF WmiTyped, Services, W!Objects
    <2>3. WmiObjects'
      BY DEF WmiTyped, Held, W!Objects, Services
    <2>4. W!DefinedUnlessFailed'
      BY DEF WmiTyped, Services, W!DefinedUnlessFailed
    <2> QED
      BY <2>1, <2>2, <2>3, <2>4
  <1>3. CASE W!ConnectDefault
    <2> USE <1>3 DEF W!ConnectDefault, W!Acquire, W!Release, W!Fails, W!Undefined,
                     WmiServices, WmiObjects, InQuery, InRow
    <2>1. WmiTyped'
      <3>1. /\ w_refs["default_service"] = 0
            /\ w_refs["locator"] # 0 => w_refs["cimv2_service"] = 1 /\ w_refs["locator"] = 1
        BY DEF WmiTyped, Services, Held, W!Objects
      <3>2. w_refs' \in [W!Objects -> 0..1]
        BY <3>1 DEF WmiTyped, W!Objects
      <3>3. w_wql' \in BOOLEAN
        BY DEF WmiTyped
      <3>4. w_method' = "GetLogs" => w_leaked' \subseteq {"error"}
        BY DEF WmiTyped
      <3> QED
        BY <3>2, <3>3, <3>4 DEF WmiTyped
    <2>2. WmiServices'
      BY DEF WmiTyped, Services, W!Objects
    <2>3. WmiObjects'
      BY DEF WmiTyped, Held, W!Objects, Services
    <2>4. W!DefinedUnlessFailed'
      BY DEF WmiTyped, Services, W!DefinedUnlessFailed
    <2> QED
      BY <2>1, <2>2, <2>3, <2>4
  <1>4. CASE W!GetQueryEnumerator
    <2> USE <1>4 DEF W!GetQueryEnumerator, W!Query, W!Acquire, W!Fails, W!Undefined,
                     WmiServices, WmiObjects, InQuery, InRow
    <2>1. WmiTyped'
      BY DEF WmiTyped, Services, Held, W!Objects
    <2>2. WmiServices'
      BY DEF WmiTyped, Services, W!Objects
    <2>3. WmiObjects'
      BY DEF WmiTyped, Held, W!Objects, Services
    <2>4. W!DefinedUnlessFailed'
      BY DEF WmiTyped, Services, W!DefinedUnlessFailed
    <2> QED
      BY <2>1, <2>2, <2>3, <2>4
  <1>5. CASE W!NextRow
    <2> USE <1>5 DEF W!NextRow, W!Acquire, W!Release, W!Fails, WmiServices, WmiObjects, InQuery, InRow
    <2>1. WmiTyped'
      BY DEF WmiTyped, Services, Held, W!Objects
    <2>2. WmiServices'
      BY DEF WmiTyped, Services, W!Objects
    <2>3. WmiObjects'
      BY DEF WmiTyped, Held, W!Objects, Services
    <2>4. W!DefinedUnlessFailed'
      BY DEF WmiTyped, Services, W!DefinedUnlessFailed
    <2> QED
      BY <2>1, <2>2, <2>3, <2>4
  <1>6. CASE W!GetField
    <2> USE <1>6 DEF W!GetField, W!Drop, WmiServices, WmiObjects, InQuery, InRow
    <2>1. WmiTyped'
      BY DEF WmiTyped, Services, Held, W!Objects
    <2>2. WmiServices'
      BY DEF WmiTyped, Services, W!Objects
    <2>3. WmiObjects'
      BY DEF WmiTyped, Held, W!Objects, Services
    <2>4. W!DefinedUnlessFailed'
      BY DEF WmiTyped, Services, W!DefinedUnlessFailed
    <2> QED
      BY <2>1, <2>2, <2>3, <2>4
  <1>7. CASE W!UserQuery
    <2> DEFINE Same == /\ w_method' = w_method /\ w_wql' = w_wql
    <2>1. /\ w_wql = TRUE /\ (\A o \in Services : w_refs[o] = 1) /\ "ConnectServer" \notin w_failures
          /\ w_refs["user_enum"] = 0 /\ w_refs["user_obj"] = 0
          /\ w_refs["enumerator"] = 1 /\ w_refs["obj"] = 1
      BY <1>7 DEF W!UserQuery, WmiTyped, WmiServices, WmiObjects, Held, Services, W!Objects,
                 InQuery, InRow
    <2>2. w_method = "GetUserData" /\ w_refs \in [W!Objects -> 0..1]
      BY <1>7 DEF W!UserQuery, WmiTyped
    <2>3. w_refs["cimv2_service"] # 0
      BY <2>1 DEF Services
    <2>4. \/ /\ Same /\ w_pc' = "user_next" /\ w_failures' = w_failures
             /\ w_refs' = [w_refs EXCEPT !["user_enum"] = w_refs["user_enum"] + 1]
          \/ /\ Same /\ w_pc' = "row" /\ w_failures' = w_failures \cup {"ExecQuery"} /\ w_refs' = w_refs
          \/ /\ Same /\ w_pc' = "undefined" /\ w_refs' = w_refs
             /\ (w_failures' = w_failures \cup {"GetErrorInfo"} \/ w_failures' = w_failures \cup {"SID"})
      BY <1>7, <2>1, <2>3, Zenon DEF W!UserQuery, W!Query, W!Acquire, W!Undefined, W!Fails
    <2>5. CASE w_pc' = "user_next"
      <3>1. /\ Same /\ w_failures' = w_failures
            /\ w_refs' = [w_refs EXCEPT !["user_enum"] = 1]
        BY <2>5, <2>1, <2>4 DEF W!Objects
      <3>2. w_refs' \in [W!Objects -> 0..1]
        BY <3>1, <2>1, <2>2 DEF W!Objects
      <3>3. WmiTyped'
        BY <3>1, <3>2, <2>1, <2>2 DEF WmiTyped
      <3>4. WmiServices'
        BY <3>1, <2>1, <2>2, <2>5 DEF WmiServices, Services, W!Objects, InQuery, InRow
      <3>5. WmiObjects'
        BY <3>1, <2>1, <2>2, <2>5 DEF WmiObjects, Held, W!Objects, Services, InQuery, InRow
      <3>6. W!DefinedUnlessFailed'
        BY <3>1, <2>5 DEF W!DefinedUnlessFailed
      <3> QED
        BY <3>3, <3>4, <3>5, <3>6
    <2>6. CASE w_pc' = "row"
      <3>1. /\ Same /\ w_failures' = w_failures \cup {"ExecQuery"} /\ w_refs' = w_refs
        BY <2>6, <2>1, <2>4 DEF W!Objects
      <3>2. w_refs' \in [W!Objects -> 0..1]
        BY <3>1, <2>1, <2>2 DEF W!Objects
      <3>3. WmiTyped'
        BY <3>1, <3>2, <2>1, <2>2 DEF WmiTyped
      <3>4. WmiServices'
        BY <3>1, <2>1, <2>2, <2>6 DEF WmiServices, Services, W!Objects, InQuery, InRow
      <3>5. WmiObjects'
        BY <3>1, <2>1, <2>2, <2>6 DEF WmiObjects, Held, W!Objects, Services, InQuery, InRow
      <3>6. W!DefinedUnlessFailed'
        BY <3>1, <2>6 DEF W!DefinedUnlessFailed
      <3> QED
        BY <3>3, <3>4, <3>5, <3>6
    <2>7. CASE w_pc' = "undefined"
      <3>1. /\ Same /\ w_refs' = w_refs
            /\ (w_failures' = w_failures \cup {"GetErrorInfo"} \/ w_failures' = w_failures \cup {"SID"})
        BY <2>7, <2>1, <2>4 DEF W!Objects
      <3>2. w_refs' \in [W!Objects -> 0..1]
        BY <3>1, <2>1, <2>2 DEF W!Objects
      <3>3. WmiTyped'
        BY <3>1, <3>2, <2>1, <2>2 DEF WmiTyped
      <3>4. WmiServices'
        BY <3>1, <2>1, <2>2, <2>7 DEF WmiServices, Services, W!Objects, InQuery, InRow
      <3>5. WmiObjects'
        BY <3>1, <2>1, <2>2, <2>7 DEF WmiObjects, Held, W!Objects, Services, InQuery, InRow
      <3>6. W!DefinedUnlessFailed'
        BY <3>1, <2>7 DEF W!DefinedUnlessFailed
      <3> QED
        BY <3>3, <3>4, <3>5, <3>6
    <2> QED
      BY <2>4, <2>5, <2>6, <2>7
  <1>8. CASE W!UserRow
    <2> DEFINE Same == w_method' = w_method /\ w_wql' = w_wql
               Kept == w_method = "GetLogs" => w_leaked' = w_leaked
    <2>1. /\ w_wql = TRUE /\ (\A o \in Services : w_refs[o] = 1) /\ "ConnectServer" \notin w_failures
          /\ w_refs["user_enum"] = 1 /\ w_refs["user_obj"] = 0
          /\ w_refs["enumerator"] = 1 /\ w_refs["obj"] = 1
      BY <1>8 DEF W!UserRow, WmiTyped, WmiServices, WmiObjects, Held, Services, W!Objects,
                 InQuery, InRow
    <2>2. w_refs \in [W!Objects -> 0..1]
      BY DEF WmiTyped
    <2>3. Kept
      BY <1>8 DEF W!UserRow, W!Drop, W!Undefined
    <2>4. \/ /\ Same /\ w_pc' = "user_obj" /\ w_failures' = w_failures
             /\ w_refs' = [w_refs EXCEPT !["user_obj"] = w_refs["user_obj"] + 1]
          \/ /\ Same /\ w_pc' = "row" /\ w_failures' = w_failures
             /\ w_refs' = [o \in W!Objects |-> IF o \in {"user_enum"} THEN w_refs[o] - 1 ELSE w_refs[o]]
          \/ /\ Same /\ w_pc' = "undefined" /\ w_refs' = w_refs
             /\ w_failures' = w_failures \cup {"user_Next"}
      BY <1>8, Zenon DEF W!UserRow, W!Acquire, W!Release, W!Undefined, W!Fails
    <2>5. CASE w_pc' = "user_obj"
      <3>1. /\ Same /\ w_failures' = w_failures
            /\ w_refs' = [w_refs EXCEPT !["user_obj"] = 1]
        BY <2>5, <2>1, <2>4 DEF W!Objects
      <3>2. w_refs' \in [W!Objects -> 0..1]
        BY <3>1, <2>1, <2>2 DEF W!Objects
      <3>3. WmiTyped'
        BY <3>1, <3>2, <2>1, <2>3 DEF WmiTyped
      <3>4. WmiServices'
        BY <3>1, <2>1, <2>2, <2>5 DEF WmiServices, Services, W!Objects, InQuery, InRow
      <3>5. WmiObjects'
        BY <3>1, <2>1, <2>2, <2>5 DEF WmiObjects, Held, W!Objects, Services, InQuery, InRow
      <3>6. W!DefinedUnlessFailed'
        BY <3>1, <2>5 DEF W!DefinedUnlessFailed
      <3> QED
        BY <3>3, <3>4, <3>5, <3>6
    <2>6. CASE w_pc' = "row"
      <3>1. /\ Same /\ w_failures' = w_failures
            /\ w_refs' = [o \in W!Objects |-> IF o \in {"user_enum"} THEN w_refs[o] - 1 ELSE w_refs[o]]
        BY <2>6, <2>1, <2>4 DEF W!Objects
      <3>2. w_refs' \in [W!Objects -> 0..1]
        BY <3>1, <2>1, <2>2 DEF W!Objects
      <3>3. WmiTyped'
        BY <3>1, <3>2, <2>1, <2>3 DEF WmiTyped
      <3>4. WmiServices'
        BY <3>1, <2>1, <2>2, <2>6 DEF WmiServices, Services, W!Objects, InQuery, InRow
      <3>5. WmiObjects'
        BY <3>1, <2>1, <2>2, <2>6 DEF WmiObjects, Held, W!Objects, Services, InQuery, InRow
      <3>6. W!DefinedUnlessFailed'
        BY <3>1, <2>6 DEF W!DefinedUnlessFailed
      <3> QED
        BY <3>3, <3>4, <3>5, <3>6
    <2>7. CASE w_pc' = "undefined"
      <3>1. /\ Same /\ w_refs' = w_refs /\ w_failures' = w_failures \cup {"user_Next"}
        BY <2>7, <2>1, <2>4 DEF W!Objects
      <3>2. w_refs' \in [W!Objects -> 0..1]
        BY <3>1, <2>1, <2>2 DEF W!Objects
      <3>3. WmiTyped'
        BY <3>1, <3>2, <2>1, <2>3 DEF WmiTyped
      <3>4. WmiServices'
        BY <3>1, <2>1, <2>2, <2>7 DEF WmiServices, Services, W!Objects, InQuery, InRow
      <3>5. WmiObjects'
        BY <3>1, <2>1, <2>2, <2>7 DEF WmiObjects, Held, W!Objects, Services, InQuery, InRow
      <3>6. W!DefinedUnlessFailed'
        BY <3>1, <2>7 DEF W!DefinedUnlessFailed
      <3> QED
        BY <3>3, <3>4, <3>5, <3>6
    <2> QED
      BY <2>4, <2>5, <2>6, <2>7
  <1>9. CASE W!UserRowEnds
    <2> USE <1>9 DEF W!UserRowEnds, W!Release, WmiServices, WmiObjects, InQuery, InRow
    <2>1. WmiTyped'
      BY DEF WmiTyped, Services, Held, W!Objects
    <2>2. WmiServices'
      BY DEF WmiTyped, Services, W!Objects
    <2>3. WmiObjects'
      BY DEF WmiTyped, Held, W!Objects, Services
    <2>4. W!DefinedUnlessFailed'
      BY DEF WmiTyped, Services, W!DefinedUnlessFailed
    <2> QED
      BY <2>1, <2>2, <2>3, <2>4
  <1>10. CASE W!RowEnds
    <2> USE <1>10 DEF W!RowEnds, W!Drop, W!Release, WmiServices, WmiObjects, InQuery, InRow
    <2>1. WmiTyped'
      BY DEF WmiTyped, Services, Held, W!Objects
    <2>2. WmiServices'
      BY DEF WmiTyped, Services, W!Objects
    <2>3. WmiObjects'
      BY DEF WmiTyped, Held, W!Objects, Services
    <2>4. W!DefinedUnlessFailed'
      BY DEF WmiTyped, Services, W!DefinedUnlessFailed
    <2> QED
      BY <2>1, <2>2, <2>3, <2>4
  <1>11. CASE W!Destroy
    <2> USE <1>11 DEF W!Destroy, W!Undefined,
                     WmiServices, WmiObjects, InQuery, InRow
    <2>1. WmiTyped'
      BY DEF WmiTyped, Services, Held, W!Objects
    <2>2. WmiServices'
      BY DEF WmiTyped, Services, W!Objects
    <2>3. WmiObjects'
      BY DEF WmiTyped, Held, W!Objects, Services
    <2>4. W!DefinedUnlessFailed'
      BY DEF WmiTyped, Services, W!DefinedUnlessFailed
    <2> QED
      BY <2>1, <2>2, <2>3, <2>4
  <1> QED
    BY <1>1, <1>2, <1>3, <1>4, <1>5, <1>6, <1>7, <1>8, <1>9, <1>10, <1>11 DEF W!Next

LEMMA WmiReleases ==
  ASSUME WmiInv
  PROVE  W!AllReleased
  BY DEF WmiInv, WmiTyped, WmiServices, WmiObjects, Held, Services, InQuery, InRow, W!Objects,
         W!AllReleased

-----------------------------------------------------------------------------
(* glob() and globfree() *)

(* While glob() searches, no path vector has been set and no realloc() has *)
(* failed; when the search is over, gl_pathv tells whether the block lives *)
(* unless a later realloc() failed.                                        *)
GlobBlock ==
  /\ g_pc = "none" => g_block = "NULL"
  /\ g_pc \in {"none", "entry", "next", "build"} =>
       g_failed = "no" /\ g_glob.pathv = "NULL" /\ g_block \in {"NULL", "live"}
  /\ g_failed \in {"no", "entry"} /\ g_pc \in {"nomatch", "done"} =>
       (g_glob.pathv = "block" <=> g_block = "live")
  /\ g_glob.pathv \in {"NULL", "block"}

GlobRecord ==
  \E c, v, m, p : g_glob = [pathc |-> c, pathv |-> v, matchc |-> m, paths |-> p]

(* The part of FreedOnce that is not about the search. *)
GlobFreed ==
  g_failed \in {"no", "entry"} =>
    /\ g_block \in {"NULL", "live"}
    /\ g_glob.pathv = "block" => g_block = "live"
    /\ g_pc = "freed" => g_block = "NULL"

GlobInv == GlobBlock /\ GlobRecord /\ G!FreedOnce

LEMMA GlobInitially ==
  ASSUME G!Init
  PROVE  GlobInv
  <1> USE DEF G!Init, G!NoGlob
  <1>1. GlobBlock
    BY DEF GlobBlock
  <1>2. GlobRecord
    BY DEF GlobRecord
  <1>3. g_handle = (g_pc \in {"entry", "next"})
    <2>1. (g_pc \in {"entry", "next"}) = FALSE
      OBVIOUS
    <2> QED
      BY <2>1
  <1>4. G!FreedOnce
    BY <1>3 DEF G!FreedOnce
  <1> QED
    BY <1>1, <1>2, <1>4 DEF GlobInv

LEMMA GlobStep ==
  ASSUME GlobInv, G!Next
  PROVE  GlobInv'
  <1> USE DEF GlobInv
  <1>1. ASSUME NEW p \in G!Patterns, NEW flags \in Flags, NEW limit \in Limits,
               NEW names \in Directories, G!Call(p, flags, limit, names)
        PROVE  GlobInv'
    <2>1. /\ g_pc = "none" /\ g_glob' = [pathc |-> 0, pathv |-> "NULL", matchc |-> limit, paths |-> << >>]
          /\ UNCHANGED << g_found, g_block, g_failed >>
      BY <1>1 DEF G!Call, G!NoGlob
    <2>2. \/ g_pc' = "entry" /\ g_handle' = TRUE
          \/ g_pc' \in {"done", "nomatch"} /\ g_handle' = g_handle
      BY <1>1 DEF G!Call
    <2>3. GlobBlock'
      BY <2>1, <2>2 DEF GlobBlock
    <2>4. GlobRecord'
      BY <2>1 DEF GlobRecord
    <2>5. g_handle' = (g_pc' \in {"entry", "next"})
      <3>1. (g_pc \in {"entry", "next"}) = FALSE
        BY <2>1
      <3>2. g_handle = FALSE
        BY <3>1 DEF G!FreedOnce
      <3> QED
        <4>1. CASE g_pc' = "entry"
          <5>1. (g_pc' \in {"entry", "next"}) = TRUE
            BY <4>1
          <5>2. g_handle' = TRUE
            BY <2>2, <4>1
          <5> QED
            BY <5>1, <5>2
        <4>2. CASE g_pc' \in {"done", "nomatch"}
          <5>1. (g_pc' \in {"entry", "next"}) = FALSE
            BY <4>2
          <5>2. g_handle' = FALSE
            BY <2>2, <4>2, <3>2
          <5> QED
            BY <5>1, <5>2
        <4> QED
          BY <2>2, <4>1, <4>2
    <2>6. GlobFreed'
      BY <2>1, <2>2 DEF GlobFreed, GlobBlock
    <2>7. G!FreedOnce'
      BY <2>5, <2>6 DEF G!FreedOnce, GlobFreed
    <2> QED
      BY <2>3, <2>4, <2>7
  <1>2. CASE G!Skip
    <2> USE <1>2 DEF G!Skip
    <2>1. GlobBlock'
      BY DEF GlobBlock, GlobRecord, G!FreedOnce
    <2>2. GlobRecord'
      BY DEF GlobRecord
    <2>3. G!FreedOnce'
      BY DEF GlobBlock, GlobRecord, G!FreedOnce
    <2> QED
      BY <2>1, <2>2, <2>3
  <1>3. CASE G!Take
    <2> USE <1>3 DEF G!Take
    <2>1. GlobBlock'
      BY DEF GlobBlock, GlobRecord, G!FreedOnce
    <2>2. GlobRecord'
      BY DEF GlobRecord
    <2>3. G!FreedOnce'
      BY DEF GlobBlock, GlobRecord, G!FreedOnce
    <2> QED
      BY <2>1, <2>2, <2>3
  <1>4. CASE G!TakeFails
    <2> USE <1>4 DEF G!TakeFails
    <2>1. GlobBlock'
      BY DEF GlobBlock, GlobRecord, G!FreedOnce
    <2>2. GlobRecord'
      BY DEF GlobRecord
    <2>3. GlobFreed'
      BY DEF GlobFreed, GlobBlock
    <2>4. g_handle = TRUE
      <3>1. (g_pc \in {"entry", "next"}) = TRUE
        OBVIOUS
      <3> QED
        BY <3>1 DEF G!FreedOnce
    <2>5. g_handle' = (g_pc' \in {"entry", "next"})
      <3>1. (g_pc' \in {"entry", "next"}) = FALSE
        OBVIOUS
      <3>2. g_handle' = FALSE
        OBVIOUS
      <3> QED
        BY <3>1, <3>2
    <2>6. G!FreedOnce'
      BY <2>3, <2>5 DEF G!FreedOnce, GlobFreed
    <2> QED
      BY <2>1, <2>2, <2>6
  <1>5. CASE G!NextEntry
    <2> USE <1>5 DEF G!NextEntry
    <2>1. GlobBlock'
      BY DEF GlobBlock, GlobRecord, G!FreedOnce
    <2>2. GlobRecord'
      BY DEF GlobRecord
    <2>3. GlobFreed'
      BY DEF GlobFreed, GlobBlock
    <2>4. g_handle = TRUE
      <3>1. (g_pc \in {"entry", "next"}) = TRUE
        OBVIOUS
      <3> QED
        BY <3>1 DEF G!FreedOnce
    <2>5. g_handle' = (g_pc' \in {"entry", "next"})
      <3>1. CASE G!LoopsOn
        <4>1. (g_pc' \in {"entry", "next"}) = TRUE
          BY <3>1
        <4>2. g_handle' = TRUE
          BY <3>1, <2>4
        <4> QED
          BY <4>1, <4>2
      <3>2. CASE ~G!LoopsOn
        <4>1. (g_pc' \in {"entry", "next"}) = FALSE
          BY <3>2
        <4>2. g_handle' = FALSE
          BY <3>2
        <4> QED
          BY <4>1, <4>2
      <3> QED
        BY <3>1, <3>2
    <2>6. G!FreedOnce'
      BY <2>3, <2>5 DEF G!FreedOnce, GlobFreed
    <2> QED
      BY <2>1, <2>2, <2>6
  <1>6. CASE G!Build
    <2> USE <1>6 DEF G!Build
    <2>1. GlobBlock'
      BY DEF GlobBlock, GlobRecord, G!FreedOnce
    <2>2. GlobRecord'
      BY DEF GlobRecord
    <2>3. G!FreedOnce'
      BY DEF GlobBlock, GlobRecord, G!FreedOnce
    <2> QED
      BY <2>1, <2>2, <2>3
  <1>7. CASE G!BuildFails
    <2> USE <1>7 DEF G!BuildFails
    <2>1. GlobBlock'
      BY DEF GlobBlock, GlobRecord, G!FreedOnce
    <2>2. GlobRecord'
      BY DEF GlobRecord
    <2>3. G!FreedOnce'
      BY DEF GlobBlock, GlobRecord, G!FreedOnce
    <2> QED
      BY <2>1, <2>2, <2>3
  <1>8. CASE G!NoMatch
    <2> USE <1>8 DEF G!NoMatch
    <2>1. GlobBlock'
      BY DEF GlobBlock, GlobRecord, G!FreedOnce
    <2>2. GlobRecord'
      BY DEF GlobRecord
    <2>3. G!FreedOnce'
      BY DEF GlobBlock, GlobRecord, G!FreedOnce
    <2> QED
      BY <2>1, <2>2, <2>3
  <1>9. CASE G!NoCheck
    <2> USE <1>9 DEF G!NoCheck
    <2>1. GlobBlock'
      BY DEF GlobBlock, GlobRecord, G!FreedOnce
    <2>2. GlobRecord'
      BY DEF GlobRecord
    <2>3. G!FreedOnce'
      BY DEF GlobBlock, GlobRecord, G!FreedOnce
    <2> QED
      BY <2>1, <2>2, <2>3
  <1>10. CASE G!NoCheckFails
    <2> USE <1>10 DEF G!NoCheckFails
    <2>1. GlobBlock'
      BY DEF GlobBlock, GlobRecord, G!FreedOnce
    <2>2. GlobRecord'
      BY DEF GlobRecord
    <2>3. G!FreedOnce'
      BY DEF GlobBlock, GlobRecord, G!FreedOnce
    <2> QED
      BY <2>1, <2>2, <2>3
  <1>11. CASE G!globfree
    <2> USE <1>11 DEF G!globfree
    <2>1. GlobBlock'
      BY DEF GlobBlock, GlobRecord, G!FreedOnce
    <2>2. GlobRecord'
      BY DEF GlobRecord
    <2>3. G!FreedOnce'
      BY DEF GlobBlock, GlobRecord, G!FreedOnce
    <2> QED
      BY <2>1, <2>2, <2>3
  <1> QED
    BY <1>1, <1>2, <1>3, <1>4, <1>5, <1>6, <1>7, <1>8, <1>9, <1>10, <1>11 DEF G!Next

-----------------------------------------------------------------------------
(* The message libraries of EventLogManager *)

LibrariesInv ==
  /\ l_dll_cache \subseteq Files /\ l_names \subseteq Files
  /\ l_loads \in [Files -> Int]
  /\ L!LibrariesFreedOnce

LEMMA LibrariesInitially ==
  ASSUME L!Init
  PROVE  LibrariesInv
  BY DEF L!Init, LibrariesInv, L!LibrariesFreedOnce

LEMMA LibrariesStep ==
  ASSUME LibrariesInv, L!Next
  PROVE  LibrariesInv'
  <1> USE DEF LibrariesInv, L!LibrariesFreedOnce
  <1>1. ASSUME NEW log, L!Open(log)
        PROVE  LibrariesInv'
    BY <1>1 DEF L!Open
  <1>2. ASSUME NEW dcom, L!Logged(dcom)
        PROVE  LibrariesInv'
    BY <1>2 DEF L!Logged
  <1>3. CASE L!GetLogEntries
    BY <1>3 DEF L!GetLogEntries
  <1>4. CASE L!Close
    BY <1>4 DEF L!Close
  <1>5. CASE L!VisitFile
    <2>1. PICK f \in l_names :
            /\ l_pc = "files" /\ l_pc' = l_pc /\ l_dll_cache' = l_dll_cache \cup {f}
            /\ l_loads' = IF f \in l_dll_cache THEN l_loads ELSE [l_loads EXCEPT ![f] = l_loads[f] + 1]
            /\ l_names' = l_names \ {f}
      BY <1>5, Zenon DEF L!VisitFile
    <2>2. l_loads' \in [Files -> Int]
      BY <2>1
    <2>3. ASSUME NEW g \in Files
          PROVE  l_loads'[g] = IF g \in l_dll_cache' /\ l_pc' # "closed" THEN 1 ELSE 0
      BY <2>1
    <2> QED
      BY <2>1, <2>2, <2>3
  <1>6. CASE L!FromDcom
    BY <1>6 DEF L!FromDcom
  <1>7. CASE L!EntryFound
    BY <1>7 DEF L!EntryFound, L!Return
  <1>8. CASE L!ReadEventLog \/ L!ReadEof \/ L!ReadFails \/ L!ReadOn \/ L!OtherSource \/ L!ExpandFails
    <2>1. l_dll_cache' = l_dll_cache /\ l_names' = l_names /\ l_loads' = l_loads
      BY <1>8 DEF L!ReadEventLog, L!ReadEof, L!ReadFails, L!ReadOn, L!OtherSource, L!ExpandFails
    <2>2. l_pc # "closed" /\ l_pc' # "closed"
      BY <1>8 DEF L!ReadEventLog, L!ReadEof, L!ReadFails, L!ReadOn, L!OtherSource, L!ExpandFails,
                 L!Return
    <2> QED
      BY <2>1, <2>2
  <1> QED
    BY <1>1, <1>2, <1>3, <1>4, <1>5, <1>6, <1>7, <1>8 DEF L!Next, L!Reads

-----------------------------------------------------------------------------
(* GetLogEntries *)

(* b holds consecutive record numbers, the last of which is p. *)
BufferOf(b, p) ==
  /\ b \in Seq(Nat) /\ p \in Nat /\ Len(b) <= p
  /\ \A j \in 1..Len(b) : b[j] = p - Len(b) + j

LEMMA BufferTaken ==
  ASSUME NEW b, NEW p, BufferOf(b, p), b # << >>
  PROVE  /\ Head(b) = p - Len(b) + 1 /\ Head(b) \in 1..p
         /\ BufferOf(Tail(b), p) /\ Len(Tail(b)) = Len(b) - 1
  <1> USE DEF BufferOf
  <1>1. Len(b) \in Nat /\ Len(b) >= 1 /\ Head(b) = b[1]
    OBVIOUS
  <1>2. Tail(b) \in Seq(Nat) /\ Len(Tail(b)) = Len(b) - 1 /\ \A j \in 1..Len(Tail(b)) : Tail(b)[j] = b[j + 1]
    OBVIOUS
  <1>3. b[1] = p - Len(b) + 1
    BY <1>1
  <1>4. ASSUME NEW j \in 1..Len(Tail(b))
        PROVE  Tail(b)[j] = p - Len(Tail(b)) + j
    <2>1. j + 1 \in 1..Len(b)
      BY <1>1, <1>2
    <2>2. b[j + 1] = p - Len(b) + (j + 1)
      BY <2>1
    <2> QED
      BY <1>1, <1>2, <2>2
  <1> QED
    BY <1>1, <1>2, <1>3, <1>4

LEMMA BufferRead ==
  ASSUME NEW first \in Nat, NEW last \in Nat, 1 <= first, first <= last,
         NEW b, b = [j \in 1..(last - first + 1) |-> first + j - 1]
  PROVE  BufferOf(b, last) /\ Len(b) = last - first + 1
  <1>1. last - first + 1 \in Nat /\ last - first + 1 <= last
    OBVIOUS
  <1>2. \A j \in 1..(last - first + 1) : first + j - 1 \in Nat
    OBVIOUS
  <1>3. b \in Seq(Nat) /\ Len(b) = last - first + 1
    BY <1>1, <1>2
  <1>4. ASSUME NEW j \in 1..Len(b)
        PROVE  b[j] = last - Len(b) + j
    BY <1>1, <1>3
  <1> QED
    BY <1>1, <1>3, <1>4 DEF BufferOf

LEMMA BufferEmpty ==
  ASSUME NEW p \in Nat
  PROVE  BufferOf(<< >>, p) /\ Len(<< >>) = 0
  BY DEF BufferOf

LogTyped ==
  /\ l_records \in Seq(BOOLEAN) /\ l_results \in Seq(Nat)
  /\ l_position <= Len(l_records) /\ l_last_record_read \in Nat
  /\ l_seek \in BOOLEAN /\ l_failed \in BOOLEAN
  /\ l_pc = "none" => l_position = 0 /\ l_results = << >>

(* The buffer ends with the record that the handle is at; it is used up    *)
(* before the next read.                                                   *)
LogBuffer ==
  /\ BufferOf(l_buffer, l_position)
  /\ l_pc \notin {"record", "files"} => l_buffer = << >>
  /\ l_pc = "files" => l_buffer # << >> /\ l_records[Head(l_buffer)] = TRUE
  /\ l_seek = TRUE => l_last_record_read >= 1

(* The number of the next record to look at. *)
NextRecord(b, p) == p - Len(b) + 1

(* No record of a log up to the n-th is from DCOM. *)
NoneUpTo(log, n) == \A k \in 1..Len(log) : log[k] = TRUE => k > n

(* The first call reads in sequence and has looked at all records up to    *)
(* last_record_read.                                                       *)
FirstCall ==
  l_results = << >> =>
    /\ l_seek = FALSE
    /\ l_last_record_read = l_position - Len(l_buffer)
    /\ l_pc \in {"none", "idle"} => l_last_record_read = 0
    /\ l_failed = FALSE => NoneUpTo(l_records, l_last_record_read)

(* What the first call has returned. *)
FirstResult ==
  Len(l_results) = 1 /\ l_failed = FALSE =>
    /\ l_results[1] = 0 /\ l_pc = "idle" => NoneUpTo(l_records, l_position)
    /\ l_results[1] > 0 =>
         /\ l_results[1] \in 1..Len(l_records) /\ l_records[l_results[1]] = TRUE
         /\ NoneUpTo(l_records, l_results[1] - 1)

(* The second call seeks the record before the one that was found, until   *)
(* it has both.                                                            *)
SecondCall ==
  Len(l_results) = 1 /\ l_failed = FALSE /\ l_results[1] > 1 =>
    /\ l_last_record_read = l_results[1] - 1
    /\ l_pc \in {"read", "record", "files"} => l_seek = TRUE
    /\ l_buffer # << >> =>
         NextRecord(l_buffer, l_position) \in {l_results[1] - 1, l_results[1]}

SecondResult ==
  l_pc = "idle" /\ Len(l_results) = 2 /\ l_failed = FALSE /\ l_results[1] > 1 =>
    l_results[2] = l_results[1]

SearchInv == LogTyped /\ LogBuffer /\ FirstCall /\ FirstResult /\ SecondCall /\ SecondResult

LEMMA SearchInitially ==
  ASSUME L!Init
  PROVE  SearchInv
  <1> USE DEF L!Init
  <1>1. LogTyped
    <2>1. << >> \in Seq(BOOLEAN) /\ << >> \in Seq(Nat) /\ Len(<< >>) = 0
      OBVIOUS
    <2>2. l_seek \in BOOLEAN /\ l_failed \in BOOLEAN
      BY Zenon
    <2>3. l_position <= Len(l_records) /\ l_last_record_read \in Nat
      BY <2>1
    <2> QED
      BY <2>1, <2>2, <2>3 DEF LogTyped
  <1>2. LogBuffer
    BY BufferEmpty DEF LogBuffer
  <1>3. FirstCall
    <2>1. Len(<< >>) = 0 /\ 0 - 0 = 0 /\ 1..0 = {}
      OBVIOUS
    <2> QED
      BY <2>1 DEF FirstCall, NoneUpTo
  <1>4. FirstResult /\ SecondCall /\ SecondResult
    BY DEF FirstResult, SecondCall, SecondResult
  <1> QED
    BY <1>1, <1>2, <1>3, <1>4 DEF SearchInv

LEMMA SearchMeans ==
  ASSUME SearchInv
  PROVE  L!CallsFindFirst
  <1> USE DEF SearchInv, LogTyped
  <1>1. ASSUME l_pc = "idle", Len(l_results) = 1, ~l_failed, l_results[1] = 0
        PROVE  \A n \in L!Matches : n > l_position
    BY <1>1 DEF FirstResult, NoneUpTo, L!Matches
  <1>2. ASSUME l_pc = "idle", Len(l_results) = 1, ~l_failed, l_results[1] # 0
        PROVE  l_results[1] \in L!Matches /\ \A n \in L!Matches : l_results[1] <= n
    <2>1. l_results[1] \in Nat
      <3>1. l_results \in Seq(Nat) /\ 1 \in 1..Len(l_results)
        BY <1>2
      <3> QED
        BY <3>1
    <2>2. /\ l_results[1] \in 1..Len(l_records) /\ l_records[l_results[1]] = TRUE
          /\ NoneUpTo(l_records, l_results[1] - 1)
      BY <1>2, <2>1 DEF FirstResult
    <2> QED
      BY <2>1, <2>2 DEF NoneUpTo, L!Matches
  <1>3. ASSUME l_pc = "idle", Len(l_results) = 2, ~l_failed, l_results[1] > 1
        PROVE  l_results[2] = l_results[1]
    BY <1>3 DEF SecondResult
  <1> QED
    BY <1>1, <1>2, <1>3 DEF L!CallsFindFirst

LEMMA NoneAppended ==
  ASSUME NEW log \in Seq(BOOLEAN), NEW d \in BOOLEAN, NEW n \in Int, n <= Len(log),
         NoneUpTo(log, n)
  PROVE  NoneUpTo(Append(log, d), n)
  <1>1. /\ Len(Append(log, d)) = Len(log) + 1 /\ Len(log) \in Nat
        /\ \A k \in 1..Len(log) : Append(log, d)[k] = log[k]
    OBVIOUS
  <1>2. ASSUME NEW k \in 1..Len(Append(log, d)), Append(log, d)[k] = TRUE
        PROVE  k > n
    <2>1. CASE k <= Len(log)
      BY <1>1, <1>2, <2>1 DEF NoneUpTo
    <2>2. CASE k > Len(log)
      BY <1>1, <1>2, <2>2
    <2> QED
      BY <1>1, <2>1, <2>2
  <1> QED
    BY <1>2 DEF NoneUpTo

LEMMA NoneExtended ==
  ASSUME NEW log \in Seq(BOOLEAN), NEW n \in Nat, NoneUpTo(log, n), log[n + 1] = FALSE
  PROVE  NoneUpTo(log, n + 1)
  <1>1. ASSUME NEW k \in 1..Len(log), log[k] = TRUE
        PROVE  k > n + 1
    <2>1. k > n /\ k # n + 1
      BY <1>1 DEF NoneUpTo
    <2> QED
      BY <2>1
  <1> QED
    BY <1>1 DEF NoneUpTo

(* The parts of SearchInv that a step leaves alone when it changes none of *)
(* their variables.                                                        *)
LEMMA SearchUnchanged ==
  ASSUME SearchInv, UNCHANGED lvars
  PROVE  SearchInv'
  <1> USE DEF lvars
  <1>1. LogTyped'
    BY DEF SearchInv, LogTyped
  <1>2. LogBuffer'
    BY DEF SearchInv, LogBuffer
  <1>3. FirstCall' /\ FirstResult'
    BY DEF SearchInv, FirstCall, FirstResult
  <1>4. SecondCall' /\ SecondResult'
    BY DEF SearchInv, SecondCall, SecondResult
  <1> QED
    BY <1>1, <1>2, <1>3, <1>4 DEF SearchInv

LEMMA OpenKeepsSearch ==
  ASSUME SearchInv, NEW n \in 0..MaxRecords, NEW log \in [1..n -> BOOLEAN], L!Open(log)
  PROVE  SearchInv'
  <1> USE DEF SearchInv
  <1>1. log \in Seq(BOOLEAN) /\ Len(log) = n /\ n \in Nat
    BY RecordsAssumption
  <1>2. l_pc = "none" /\ l_position = 0 /\ l_results = << >> /\ Len(l_results) = 0
    BY DEF L!Open, LogTyped
  <1>3. l_buffer = << >>
    BY <1>2 DEF LogBuffer
  <1>4. /\ l_pc' = "idle" /\ l_records' = log /\ l_position' = l_position
        /\ l_last_record_read' = l_last_record_read /\ l_seek' = l_seek /\ l_buffer' = l_buffer
        /\ l_results' = l_results /\ l_failed' = l_failed
    BY DEF L!Open
  <1>5. LogTyped'
    BY <1>1, <1>2, <1>4 DEF LogTyped
  <1>6. LogBuffer'
    BY <1>3, <1>4 DEF LogBuffer
  <1>7. FirstCall'
    <2>1. l_last_record_read = 0
      BY <1>2 DEF FirstCall
    <2>2. NoneUpTo(log, 0)
      BY <1>1 DEF NoneUpTo
    <2> QED
      BY <1>2, <1>4, <2>1, <2>2 DEF FirstCall
  <1>8. FirstResult' /\ SecondCall' /\ SecondResult'
    BY <1>2, <1>4 DEF FirstResult, SecondCall, SecondResult
  <1> QED
    BY <1>5, <1>6, <1>7, <1>8

LEMMA LoggedKeepsSearch ==
  ASSUME SearchInv, NEW dcom \in BOOLEAN, L!Logged(dcom)
  PROVE  SearchInv'
  <1> USE DEF SearchInv
  <1>1. /\ l_records' = Append(l_records, dcom) /\ l_pc' = l_pc /\ l_position' = l_position
        /\ l_last_record_read' = l_last_record_read /\ l_seek' = l_seek /\ l_buffer' = l_buffer
        /\ l_results' = l_results /\ l_failed' = l_failed
    BY DEF L!Logged
  <1>2. l_pc # "none"
    BY DEF L!Logged
  <1>3. /\ Append(l_records, dcom) \in Seq(BOOLEAN) /\ Len(l_records) \in Nat
        /\ Len(Append(l_records, dcom)) = Len(l_records) + 1
        /\ \A k \in 1..Len(l_records) : Append(l_records, dcom)[k] = l_records[k]
    BY DEF LogTyped
  <1>4. /\ l_position \in Nat /\ l_position <= Len(l_records)
        /\ l_buffer \in Seq(Nat) /\ Len(l_buffer) <= l_position
    BY DEF LogTyped, LogBuffer, BufferOf
  <1>5. LogTyped'
    BY <1>1, <1>2, <1>3, <1>4 DEF LogTyped
  <1>6. LogBuffer'
    <2>1. l_buffer # << >> => Head(l_buffer) \in 1..Len(l_records)
      BY <1>3, <1>4, BufferTaken DEF LogBuffer
    <2>2. l_pc = "files" => Append(l_records, dcom)[Head(l_buffer)] = TRUE
      BY <1>3, <2>1 DEF LogBuffer
    <2> QED
      BY <1>1, <2>2 DEF LogBuffer
  <1>7. FirstCall'
    <2>1. ASSUME l_results = << >>, l_failed = FALSE
          PROVE  NoneUpTo(Append(l_records, dcom), l_last_record_read)
      <3>1. l_last_record_read \in Int /\ l_last_record_read <= Len(l_records)
        BY <1>3, <1>4, <2>1 DEF FirstCall, LogTyped
      <3> QED
        BY <2>1, <3>1, NoneAppended DEF FirstCall, LogTyped
    <2> QED
      BY <1>1, <2>1 DEF FirstCall
  <1>8. FirstResult'
    <2>1. ASSUME Len(l_results) = 1, l_failed = FALSE, l_results[1] = 0, l_pc = "idle"
          PROVE  NoneUpTo(Append(l_records, dcom), l_position)
      BY <1>4, <2>1, NoneAppended DEF FirstResult, LogTyped
    <2>2. ASSUME Len(l_results) = 1, l_failed = FALSE, l_results[1] > 0
          PROVE  /\ l_results[1] \in 1..Len(Append(l_records, dcom))
                 /\ Append(l_records, dcom)[l_results[1]] = TRUE
                 /\ NoneUpTo(Append(l_records, dcom), l_results[1] - 1)
      <3>1. /\ l_results[1] \in 1..Len(l_records) /\ l_records[l_results[1]] = TRUE
            /\ NoneUpTo(l_records, l_results[1] - 1)
        BY <2>2 DEF FirstResult
      <3>2. l_results[1] - 1 \in Int /\ l_results[1] - 1 <= Len(l_records)
        BY <1>3, <3>1
      <3>3. NoneUpTo(Append(l_records, dcom), l_results[1] - 1)
        BY <3>1, <3>2, NoneAppended DEF LogTyped
      <3> QED
        BY <1>3, <3>1, <3>3
    <2> QED
      BY <1>1, <2>1, <2>2 DEF FirstResult
  <1>9. SecondCall' /\ SecondResult'
    BY <1>1 DEF SecondCall, SecondResult
  <1> QED
    BY <1>5, <1>6, <1>7, <1>8, <1>9

(* Steps that change neither the log nor what has been read and returned.  *)
LEMMA QuietStepKeepsSearch ==
  ASSUME SearchInv, L!ReadOn \/ L!FromDcom \/ L!VisitFile \/ L!Close
  PROVE  SearchInv'
  <1> USE DEF SearchInv
  <1>1. /\ l_records' = l_records /\ l_position' = l_position
        /\ l_last_record_read' = l_last_record_read /\ l_seek' = l_seek /\ l_buffer' = l_buffer
        /\ l_results' = l_results /\ l_failed' = l_failed
    BY DEF L!ReadOn, L!FromDcom, L!VisitFile, L!Close
  <1>2. \/ l_pc = "record" /\ l_pc' = "read" /\ l_buffer = << >>
        \/ l_pc = "record" /\ l_pc' = "files" /\ l_buffer # << >> /\ l_records[Head(l_buffer)]
        \/ l_pc = "files" /\ l_pc' = "files"
        \/ l_pc = "idle" /\ l_pc' = "closed"
    BY DEF L!ReadOn, L!FromDcom, L!VisitFile, L!Close
  <1>3. LogTyped'
    BY <1>1, <1>2 DEF LogTyped
  <1>4. LogBuffer'
    <2>1. l_pc' = "files" => l_buffer # << >> /\ l_records[Head(l_buffer)] = TRUE
      <3>1. CASE l_pc = "files"
        BY <3>1 DEF LogBuffer
      <3>2. CASE l_pc = "record" /\ l_pc' = "files"
        <4>1. Head(l_buffer) \in 1..l_position /\ Len(l_records) \in Nat
          BY <1>2, <3>2, BufferTaken DEF LogBuffer, LogTyped
        <4>2. l_position \in Nat /\ l_position <= Len(l_records)
          BY DEF LogBuffer, BufferOf, LogTyped
        <4>3. Head(l_buffer) \in 1..Len(l_records)
          BY <4>1, <4>2
        <4>4. l_records[Head(l_buffer)] \in BOOLEAN
          BY <4>3 DEF LogTyped
        <4> QED
          BY <1>2, <3>2, <4>4
      <3> QED
        BY <1>2, <3>1, <3>2
    <2>2. l_pc' \notin {"record", "files"} => l_buffer = << >>
      BY <1>2 DEF LogBuffer
    <2> QED
      BY <1>1, <2>1, <2>2 DEF LogBuffer
  <1>5. FirstCall' /\ FirstResult'
    BY <1>1, <1>2 DEF FirstCall, FirstResult
  <1>6. SecondCall' /\ SecondResult'
    BY <1>1, <1>2 DEF SecondCall, SecondResult
  <1> QED
    BY <1>3, <1>4, <1>5, <1>6

LEMMA CallKeepsSearch ==
  ASSUME SearchInv, L!GetLogEntries
  PROVE  SearchInv'
  <1> USE DEF SearchInv
  <1>1. /\ l_records' = l_records /\ l_position' = l_position
        /\ l_last_record_read' = l_last_record_read /\ l_buffer' = l_buffer
        /\ l_results' = l_results /\ l_failed' = l_failed
        /\ l_pc = "idle" /\ l_pc' = "read"
    BY DEF L!GetLogEntries
  <1>2. l_last_record_read = 0 => l_seek' = FALSE
    BY DEF L!GetLogEntries
  <1>3. l_last_record_read # 0 => l_seek' = TRUE
    BY DEF L!GetLogEntries
  <1>4. LogTyped'
    <2>1. l_seek' \in BOOLEAN
      BY <1>2, <1>3
    <2> QED
      BY <1>1, <2>1 DEF LogTyped
  <1>5. LogBuffer'
    <2>1. l_seek' = TRUE => l_last_record_read >= 1
      BY <1>2 DEF LogTyped
    <2> QED
      BY <1>1, <2>1 DEF LogBuffer
  <1>6. FirstCall' /\ FirstResult'
    BY <1>1, <1>2 DEF FirstCall, FirstResult
  <1>7. SecondCall'
    <2>1. ASSUME Len(l_results) = 1, l_failed = FALSE, l_results[1] > 1
          PROVE  l_last_record_read = l_results[1] - 1 /\ l_seek' = TRUE
      <3>1. l_last_record_read = l_results[1] - 1
        BY <2>1 DEF SecondCall
      <3>2. l_results \in Seq(Nat) /\ 1 \in 1..Len(l_results)
        BY <2>1 DEF LogTyped
      <3>3. l_results[1] \in Nat
        BY <3>2
      <3> QED
        BY <2>1, <3>1, <3>3, <1>3
    <2> QED
      BY <1>1, <2>1 DEF SecondCall
  <1>8. SecondResult'
    BY <1>1 DEF SecondResult
  <1> QED
    BY <1>4, <1>5, <1>6, <1>7, <1>8

LEMMA ReadKeepsSearch ==
  ASSUME SearchInv, L!ReadEventLog
  PROVE  SearchInv'
  <1> USE DEF SearchInv
  <1>1. PICK last \in L!FirstRead..Len(l_records) :
          /\ l_buffer' = [j \in 1..(last - L!FirstRead + 1) |-> L!FirstRead + j - 1]
          /\ l_position' = last
    BY DEF L!ReadEventLog
  <1>2. PICK first : first = L!FirstRead
    OBVIOUS
  <1>3. /\ l_records' = l_records /\ l_last_record_read' = l_last_record_read
        /\ l_seek' = l_seek /\ l_results' = l_results /\ l_failed' = l_failed
        /\ l_pc = "read" /\ l_pc' = "record"
    BY DEF L!ReadEventLog
  <1>4. l_buffer = << >> /\ l_position \in Nat /\ Len(l_buffer) = 0
    BY <1>3 DEF LogBuffer, BufferOf
  <1>5. /\ l_seek = TRUE => first = l_last_record_read
        /\ l_seek = FALSE => first = l_position + 1
    BY <1>2 DEF L!FirstRead
  <1>6. first \in Nat /\ 1 <= first
    BY <1>4, <1>5 DEF LogTyped, LogBuffer
  <1>7. last \in Nat /\ first <= last /\ last <= Len(l_records)
    BY <1>1, <1>2, <1>6 DEF LogTyped
  <1>8. BufferOf(l_buffer', last) /\ Len(l_buffer') = last - first + 1
    BY <1>1, <1>2, <1>6, <1>7, BufferRead
  <1>9. LogTyped'
    BY <1>1, <1>3, <1>7 DEF LogTyped
  <1>10. LogBuffer'
    BY <1>1, <1>3, <1>8 DEF LogBuffer
  <1>11. FirstCall'
    <2>1. l_results = << >> => l_last_record_read = last - Len(l_buffer')
      BY <1>4, <1>5, <1>6, <1>7, <1>8 DEF FirstCall, LogTyped
    <2> QED
      BY <1>1, <1>3, <2>1 DEF FirstCall
  <1>12. FirstResult' /\ SecondResult'
    BY <1>3 DEF FirstResult, SecondResult
  <1>13. SecondCall'
    <2>1. NextRecord(l_buffer', l_position') = first
      <3>1. NextRecord(l_buffer', l_position') = last - (last - first + 1) + 1
        BY <1>1, <1>8 DEF NextRecord
      <3> QED
        BY <1>6, <1>7, <3>1
    <2> QED
      BY <1>3, <1>5, <2>1 DEF SecondCall
  <1> QED
    BY <1>9, <1>10, <1>11, <1>12, <1>13

LEMMA PassKeepsSearch ==
  ASSUME SearchInv, L!OtherSource \/ L!ExpandFails
  PROVE  SearchInv'
  <1> USE DEF SearchInv
  <1>1. /\ l_records' = l_records /\ l_position' = l_position /\ l_seek' = l_seek
        /\ l_results' = l_results /\ l_pc = "record" /\ l_pc' = "record"
        /\ l_last_record_read' = Head(l_buffer) /\ l_buffer # << >> /\ l_buffer' = Tail(l_buffer)
    BY DEF L!OtherSource, L!ExpandFails
  <1>2. l_failed' = TRUE \/ (l_failed' = l_failed /\ ~l_records[Head(l_buffer)])
    <2>1. CASE L!OtherSource
      BY <2>1, Zenon DEF L!OtherSource
    <2>2. CASE L!ExpandFails
      BY <2>2, Zenon DEF L!ExpandFails
    <2> QED
      BY <2>1, <2>2
  <1>3. /\ Head(l_buffer) = l_position - Len(l_buffer) + 1 /\ Head(l_buffer) \in 1..l_position
        /\ BufferOf(Tail(l_buffer), l_position) /\ Len(Tail(l_buffer)) = Len(l_buffer) - 1
    BY <1>1, BufferTaken DEF LogBuffer
  <1>4. l_position \in Nat /\ l_position <= Len(l_records) /\ Len(l_records) \in Nat /\ Len(l_buffer) \in Nat
    BY DEF LogTyped, LogBuffer, BufferOf
  <1>5. Head(l_buffer) \in 1..Len(l_records)
    BY <1>3, <1>4
  <1>6. l_records[Head(l_buffer)] \in BOOLEAN
    BY <1>5 DEF LogTyped
  <1>7. l_failed' = FALSE => l_failed = FALSE /\ l_records[Head(l_buffer)] = FALSE
    BY <1>2, <1>6
  <1>8. LogTyped'
    <2>1. l_failed' \in BOOLEAN
      BY <1>2 DEF LogTyped
    <2> QED
      BY <1>1, <1>3, <1>4, <2>1 DEF LogTyped
  <1>9. LogBuffer'
    BY <1>1, <1>3, <1>4 DEF LogBuffer
  <1>10. FirstCall'
    <2>1. Head(l_buffer) = l_position - Len(Tail(l_buffer))
      BY <1>3, <1>4
    <2>2. ASSUME l_results = << >>, l_failed' = FALSE
          PROVE  NoneUpTo(l_records, Head(l_buffer))
      <3>1. NoneUpTo(l_records, l_last_record_read) /\ l_last_record_read = l_position - Len(l_buffer)
        BY <1>7, <2>2 DEF FirstCall
      <3>2. Head(l_buffer) = l_last_record_read + 1
        BY <1>3, <1>4, <3>1
      <3>3. l_records[l_last_record_read + 1] = FALSE
        BY <1>7, <2>2, <3>2
      <3> QED
        BY <3>1, <3>2, <3>3, NoneExtended DEF LogTyped
    <2> QED
      BY <1>1, <2>1, <2>2 DEF FirstCall
  <1>11. FirstResult'
    BY <1>1, <1>7 DEF FirstResult
  <1>12. SecondCall'
    <2>1. ASSUME Len(l_results) = 1, l_failed' = FALSE, l_results[1] > 1
          PROVE  /\ Head(l_buffer) = l_results[1] - 1 /\ l_seek = TRUE
                 /\ NextRecord(Tail(l_buffer), l_position) \in {l_results[1] - 1, l_results[1]}
      <3>1. l_results \in Seq(Nat) /\ 1 \in 1..Len(l_results)
        BY <2>1 DEF LogTyped
      <3>2. l_results[1] \in Nat
        BY <3>1
      <3>3. l_records[l_results[1]] = TRUE
        BY <1>7, <2>1, <3>2 DEF FirstResult
      <3>4. Head(l_buffer) # l_results[1]
        BY <1>7, <2>1, <3>3
      <3>5. Head(l_buffer) \in {l_results[1] - 1, l_results[1]} /\ l_seek = TRUE
        BY <1>1, <1>3, <1>7, <2>1 DEF SecondCall, NextRecord
      <3>6. NextRecord(Tail(l_buffer), l_position) = Head(l_buffer) + 1
        <4>1. NextRecord(Tail(l_buffer), l_position) = l_position - (Len(l_buffer) - 1) + 1
          BY <1>3 DEF NextRecord
        <4> QED
          BY <1>3, <1>4, <4>1
      <3> QED
        BY <3>2, <3>4, <3>5, <3>6
    <2> QED
      BY <1>1, <2>1 DEF SecondCall
  <1>13. SecondResult'
    BY <1>1 DEF SecondResult
  <1> QED
    BY <1>8, <1>9, <1>10, <1>11, <1>12, <1>13

(* What a call that returns n leaves. *)
ReturnedLog(n) ==
  /\ l_pc' = "idle" /\ l_buffer' = << >> /\ l_results' = Append(l_results, n)
  /\ l_records' = l_records /\ l_position' = l_position
  /\ l_last_record_read' = l_last_record_read /\ l_seek' = l_seek

LEMMA ResultsGrow ==
  ASSUME NEW s \in Seq(Nat), NEW n \in Nat
  PROVE  /\ Append(s, n) \in Seq(Nat) /\ Append(s, n) # << >> /\ Len(s) \in Nat
         /\ Len(Append(s, n)) = Len(s) + 1
         /\ Len(s) = 0 => s = << >> /\ Append(s, n)[1] = n
         /\ Len(s) = 1 => s[1] \in Nat /\ Append(s, n)[1] = s[1] /\ Append(s, n)[2] = n
  <1>1. Append(s, n) \in Seq(Nat) /\ Len(s) \in Nat /\ Len(Append(s, n)) = Len(s) + 1
    OBVIOUS
  <1>2. Append(s, n) # << >>
    BY <1>1
  <1>3. ASSUME Len(s) = 0
        PROVE  s = << >> /\ Append(s, n)[1] = n
    BY <1>3
  <1>4. ASSUME Len(s) = 1
        PROVE  s[1] \in Nat /\ Append(s, n)[1] = s[1] /\ Append(s, n)[2] = n
    <2>1. 1 \in 1..Len(s) /\ Len(s) + 1 = 2
      BY <1>4
    <2>2. s[1] \in Nat /\ Append(s, n)[1] = s[1]
      BY <2>1
    <2>3. Append(s, n)[Len(s) + 1] = n
      OBVIOUS
    <2> QED
      BY <2>1, <2>2, <2>3
  <1> QED
    BY <1>1, <1>2, <1>3, <1>4

LEMMA ReturnKeepsSearch ==
  ASSUME SearchInv, NEW n \in Nat, ReturnedLog(n), l_failed' \in BOOLEAN,
         l_failed' = FALSE /\ l_results = << >> /\ n = 0 => NoneUpTo(l_records, l_position),
         l_failed' = FALSE /\ l_results = << >> /\ n > 0 =>
           /\ n \in 1..Len(l_records) /\ l_records[n] = TRUE
           /\ NoneUpTo(l_records, n - 1) /\ l_last_record_read = n - 1,
         l_failed' = FALSE /\ Len(l_results) = 1 /\ l_results[1] > 1 => n = l_results[1]
  PROVE  SearchInv'
  <1> USE DEF SearchInv, ReturnedLog
  <1>1. LogTyped'
    BY ResultsGrow DEF LogTyped
  <1>2. LogBuffer'
    <2>1. l_position \in Nat
      BY DEF LogBuffer, BufferOf
    <2> QED
      BY <2>1, BufferEmpty DEF LogBuffer
  <1>3. FirstCall'
    BY ResultsGrow DEF FirstCall, LogTyped
  <1>4. ASSUME Len(l_results') = 1, l_failed' = FALSE
        PROVE  /\ l_results'[1] = n /\ l_results = << >>
    BY <1>4, ResultsGrow DEF LogTyped
  <1>5. FirstResult'
    <2>1. ASSUME Len(l_results') = 1, l_failed' = FALSE
          PROVE  /\ n = 0 => NoneUpTo(l_records, l_position)
                 /\ n > 0 => /\ n \in 1..Len(l_records) /\ l_records[n] = TRUE
                             /\ NoneUpTo(l_records, n - 1)
      BY <1>4, <2>1
    <2> QED
      BY <1>4, <2>1 DEF FirstResult
  <1>6. SecondCall'
    <2>1. ASSUME Len(l_results') = 1, l_failed' = FALSE, n > 1
          PROVE  l_last_record_read = n - 1
      BY <1>4, <2>1
    <2> QED
      BY <1>4, <2>1 DEF SecondCall
  <1>7. SecondResult'
    <2>1. ASSUME Len(l_results') = 2, l_failed' = FALSE, l_results'[1] > 1
          PROVE  l_results'[2] = l_results'[1]
      <3>1. Len(l_results) = 1
        <4>1. Len(l_results') = Len(l_results) + 1 /\ Len(l_results) \in Nat
          BY ResultsGrow DEF LogTyped
        <4>2. PICK m \in Nat : m = Len(l_results)
          BY <4>1
        <4>3. m + 1 = 2
          BY <2>1, <4>1, <4>2
        <4> QED
          BY <4>2, <4>3
      <3>2. l_results'[1] = l_results[1] /\ l_results'[2] = n
        BY <3>1, ResultsGrow DEF LogTyped
      <3> QED
        BY <2>1, <3>1, <3>2
    <2> QED
      BY <2>1 DEF SecondResult
  <1> QED
    BY <1>1, <1>2, <1>3, <1>5, <1>6, <1>7

LEMMA EndKeepsSearch ==
  ASSUME SearchInv, L!ReadEof \/ L!ReadFails
  PROVE  SearchInv'
  <1> USE DEF SearchInv
  <1>1. ReturnedLog(0)
    BY DEF L!ReadEof, L!ReadFails, L!Return, ReturnedLog
  <1>2. l_pc = "read" /\ (l_failed' = TRUE \/ (l_failed' = l_failed /\ L!FirstRead > Len(l_records)))
    <2>1. CASE L!ReadEof
      BY <2>1, Zenon DEF L!ReadEof
    <2>2. CASE L!ReadFails
      BY <2>2, Zenon DEF L!ReadFails
    <2> QED
      BY <2>1, <2>2
  <1>3. l_failed' \in BOOLEAN
    BY <1>2 DEF LogTyped
  <1>4. l_failed' = FALSE => l_failed = FALSE /\ L!FirstRead > Len(l_records)
    BY <1>2
  <1>5. l_position \in Nat /\ Len(l_buffer) = 0
    BY <1>2 DEF LogBuffer, BufferOf
  <1>6. ASSUME l_failed' = FALSE, l_results = << >>
        PROVE  NoneUpTo(l_records, l_position)
    <2>1. l_last_record_read = l_position /\ NoneUpTo(l_records, l_last_record_read)
      BY <1>4, <1>5, <1>6 DEF FirstCall
    <2> QED
      BY <2>1
  <1>7. ASSUME l_failed' = FALSE, Len(l_results) = 1, l_results[1] > 1
        PROVE  0 = l_results[1]
    <2>1. l_results \in Seq(Nat) /\ 1 \in 1..Len(l_results) /\ Len(l_records) \in Nat
      BY <1>7 DEF LogTyped
    <2>2. l_results[1] \in Nat
      BY <2>1
    <2>3. l_results[1] \in 1..Len(l_records)
      BY <1>4, <1>7, <2>2 DEF FirstResult
    <2>4. l_last_record_read = l_results[1] - 1 /\ l_seek = TRUE
      BY <1>2, <1>4, <1>7 DEF SecondCall
    <2>5. l_results[1] - 1 > Len(l_records)
      BY <1>4, <1>7, <2>4 DEF L!FirstRead
    <2> QED
      BY <2>1, <2>2, <2>3, <2>5
  <1> QED
    <2>1. 0 \in Nat /\ ~(0 > 0)
      OBVIOUS
    <2>2. l_failed' = FALSE /\ Len(l_results) = 1 /\ l_results[1] > 1 => 0 = l_results[1]
      BY <1>7
    <2>3. l_failed' = FALSE /\ l_results = << >> => NoneUpTo(l_records, l_position)
      BY <1>6
    <2> HIDE DEF SearchInv
    <2> QED
      BY <1>1, <1>3, <2>1, <2>2, <2>3, ReturnKeepsSearch, Zenon

LEMMA EntryKeepsSearch ==
  ASSUME SearchInv, L!EntryFound
  PROVE  SearchInv'
  <1> USE DEF SearchInv
  <1>1. PICK n : n = Head(l_buffer)
    OBVIOUS
  <1>2. ReturnedLog(n) /\ l_failed' = l_failed /\ l_pc = "files"
    BY <1>1 DEF L!EntryFound, L!Return, ReturnedLog
  <1>3. /\ l_buffer # << >> /\ l_records[n] = TRUE /\ n = l_position - Len(l_buffer) + 1
        /\ n \in 1..l_position
    BY <1>1, <1>2, BufferTaken DEF LogBuffer
  <1>4. l_position \in Nat /\ l_position <= Len(l_records) /\ Len(l_records) \in Nat /\ Len(l_buffer) \in Nat
    BY DEF LogTyped, LogBuffer, BufferOf
  <1>5. n \in Nat /\ n # 0 /\ n \in 1..Len(l_records)
    BY <1>3, <1>4
  <1>6. l_failed' \in BOOLEAN
    BY <1>2 DEF LogTyped
  <1>7. ASSUME l_failed' = FALSE, l_results = << >>
        PROVE  NoneUpTo(l_records, n - 1) /\ l_last_record_read = n - 1
    <2>1. l_last_record_read = l_position - Len(l_buffer) /\ NoneUpTo(l_records, l_last_record_read)
      BY <1>2, <1>7 DEF FirstCall
    <2>2. l_last_record_read = n - 1
      BY <1>3, <1>4, <2>1
    <2> QED
      BY <2>1, <2>2
  <1>8. ASSUME l_failed' = FALSE, Len(l_results) = 1, l_results[1] > 1
        PROVE  n = l_results[1]
    <2>1. l_results \in Seq(Nat) /\ 1 \in 1..Len(l_results)
      BY <1>8 DEF LogTyped
    <2>2. l_results[1] \in Nat
      BY <2>1
    <2>3. NoneUpTo(l_records, l_results[1] - 1)
      BY <1>2, <1>8, <2>2 DEF FirstResult
    <2>4. n > l_results[1] - 1
      BY <1>3, <1>5, <2>3 DEF NoneUpTo
    <2>5. n \in {l_results[1] - 1, l_results[1]}
      BY <1>2, <1>3, <1>8 DEF SecondCall, NextRecord
    <2> QED
      BY <1>5, <2>2, <2>4, <2>5
  <1> QED
    BY <1>2, <1>3, <1>5, <1>6, <1>7, <1>8, ReturnKeepsSearch

LEMMA SearchStep ==
  ASSUME SearchInv, L!Next
  PROVE  SearchInv'
  BY OpenKeepsSearch, LoggedKeepsSearch, QuietStepKeepsSearch, CallKeepsSearch, ReadKeepsSearch,
     PassKeepsSearch, EndKeepsSearch, EntryKeepsSearch DEF L!Next, L!Reads

-----------------------------------------------------------------------------
(* The composition *)

ToolsInv == WmiInv /\ GlobInv /\ LibrariesInv /\ SearchInv

(* A step is one of one part, and leaves the others alone. *)
LEMMA PartsStep ==
  ASSUME [ToolsNext]_<< encapVars, gvars, wvars, tvars, lvars >>
  PROVE  /\ W!Next \/ UNCHANGED wvars
         /\ G!Next \/ UNCHANGED gvars
         /\ L!Next \/ UNCHANGED lvars
  BY Zenon DEF ToolsNext

LEMMA ToolsInitially ==
  ASSUME ToolsInit
  PROVE  ToolsInv
  BY WmiInitially, GlobInitially, LibrariesInitially, SearchInitially DEF ToolsInit, ToolsInv

LEMMA ToolsStep ==
  ASSUME ToolsInv, [ToolsNext]_<< encapVars, gvars, wvars, tvars, lvars >>
  PROVE  ToolsInv'
  <1> USE DEF ToolsInv
  <1>1. WmiInv'
    <2>1. CASE UNCHANGED wvars
      <3>1. WmiTyped' /\ W!DefinedUnlessFailed'
        BY <2>1 DEF wvars, WmiInv, WmiTyped, W!DefinedUnlessFailed
      <3>2. WmiServices'
        BY <2>1 DEF wvars, WmiInv, WmiServices
      <3>3. WmiObjects'
        BY <2>1 DEF wvars, WmiInv, WmiObjects, Held
      <3> QED
        BY <3>1, <3>2, <3>3 DEF WmiInv
    <2> QED
      BY <2>1, PartsStep, WmiStep
  <1>2. GlobInv'
    <2>1. CASE UNCHANGED gvars
      BY <2>1 DEF gvars, GlobInv, GlobBlock, GlobRecord, G!FreedOnce
    <2> QED
      BY <2>1, PartsStep, GlobStep
  <1>3. LibrariesInv'
    <2>1. CASE UNCHANGED lvars
      BY <2>1 DEF lvars, LibrariesInv, L!LibrariesFreedOnce
    <2> QED
      BY <2>1, PartsStep, LibrariesStep
  <1>4. SearchInv'
    BY PartsStep, SearchStep, SearchUnchanged
  <1> QED
    BY <1>1, <1>2, <1>3, <1>4

LEMMA ToolsAlways ==
  ToolsSpec => []ToolsInv
  BY ToolsInitially, ToolsStep, PTL DEF ToolsSpec

(* WMIManager calls no method through a dead COM pointer unless one of the *)
(* four calls that it does not check has failed, however many rows the     *)
(* queries yield; and if ConnectServer failed it does so at the latest in  *)
(* its destructor.                                                         *)
THEOREM PointersDefined ==
  ToolsSpec => []DefinedUnlessFailed
  <1>1. ToolsInv => DefinedUnlessFailed
    BY DEF ToolsInv, WmiInv, DefinedUnlessFailed
  <1> QED
    BY <1>1, ToolsAlways, PTL

(* The message libraries of EventLogManager, the buffer and the search of  *)
(* glob() and the COM objects of WMIManager are released, and once, on all *)
(* paths but those that the modules name.                                  *)
THEOREM EverythingReleased ==
  ToolsSpec => []Released
  <1>1. ToolsInv => Released
    BY WmiReleases DEF ToolsInv, GlobInv, LibrariesInv, Released
  <1> QED
    BY <1>1, ToolsAlways, PTL

(* GetLogEntries returns the first record from DCOM, however long the log  *)
(* is and whatever is appended while it reads, and a second call finds it  *)
(* again, whatever the reads return.                                       *)
THEOREM FirstRecordFound ==
  ToolsSpec => []CallsFindFirst
  <1>1. ToolsInv => CallsFindFirst
    BY SearchMeans DEF ToolsInv, CallsFindFirst
  <1> QED
    BY <1>1, ToolsAlways, PTL

-----------------------------------------------------------------------------
(* The rows of a query: the result lacks the one that is being read. *)
RowsInv ==
  /\ w_rows \in Nat /\ w_out \in Nat
  /\ w_pc \in InRow => w_rows = w_out + 1
  /\ w_pc \notin InRow \cup {"undefined"} => w_rows = w_out

LEMMA RowsInitially ==
  ASSUME W!Init
  PROVE  RowsInv
  BY DEF W!Init, RowsInv, InRow

LEMMA RowsStep ==
  ASSUME RowsInv, W!Next
  PROVE  RowsInv'
  <1> USE DEF RowsInv, InRow, W!Undefined
  <1>1. CASE W!Start
    BY <1>1 DEF W!Start
  <1>2. CASE W!ConnectCimv2
    BY <1>2 DEF W!ConnectCimv2
  <1>3. CASE W!ConnectDefault
    BY <1>3 DEF W!ConnectDefault
  <1>4. CASE W!GetQueryEnumerator
    BY <1>4 DEF W!GetQueryEnumerator, W!Query
  <1>5. CASE W!NextRow
    BY <1>5 DEF W!NextRow
  <1>6. CASE W!GetField
    BY <1>6 DEF W!GetField
  <1>7. CASE W!UserQuery
    BY <1>7 DEF W!UserQuery, W!Query
  <1>8. CASE W!UserRow
    BY <1>8 DEF W!UserRow
  <1>9. CASE W!UserRowEnds
    BY <1>9 DEF W!UserRowEnds
  <1>10. CASE W!RowEnds
    BY <1>10 DEF W!RowEnds
  <1>11. CASE W!Destroy
    BY <1>11 DEF W!Destroy
  <1> QED
    BY <1>1, <1>2, <1>3, <1>4, <1>5, <1>6, <1>7, <1>8, <1>9, <1>10, <1>11 DEF W!Next

LEMMA RowsMean ==
  ASSUME RowsInv
  PROVE  W!RowsComplete
  BY DEF RowsInv, W!RowsComplete, InRow

-----------------------------------------------------------------------------
(* The listings: the sequences that they hold. *)
Socks == [local_addr : Int, local_port : Int, remote_addr : Int, remote_port : Int, pid : Int]

LEMMA ProcessListsAre ==
  ASSUME NEW s \in T!ProcessLists
  PROVE  /\ s \in Seq(Nat)
         /\ \A ix, j \in 1..Len(s) : ix < j => s[ix] < s[j]
  <1>1. PICK n \in 0..T!Cardinality(Pids) : s \in [1..n -> Pids]
    BY DEF T!ProcessLists
  <1>2. n \in Nat
    BY <1>1
  <1>3. s \in Seq(Nat)
    <2>1. s \in [1..n -> Nat]
      BY <1>1, ProcessesAssumption
    <2> QED
      BY <1>2, <2>1
  <1>4. \A ix, j \in 1..Len(s) : ix < j => s[ix] < s[j]
    BY DEF T!ProcessLists
  <1> QED
    BY <1>3, <1>4

LEMMA SocketTablesAre ==
  ASSUME NEW s \in Tables
  PROVE  s \in Seq(Socks)
  BY ListingsAssumption DEF Socks

LEMMA FilledIs ==
  ASSUME NEW p, NEW s \in Socks
  PROVE  T!Filled(p, s) \in Socks /\ T!Filled(p, s).pid = s.pid
  <1> DEFINE r == [s EXCEPT !.remote_addr = 0]
             q == [r EXCEPT !.remote_port = 0]
  <1>1. r \in Socks /\ r.pid = s.pid
    BY DEF Socks
  <1>2. q \in Socks /\ q.pid = s.pid
    <2> HIDE DEF r
    <2> QED
      BY <1>1 DEF Socks
  <1>3. T!Filled(p, s) = IF p = "TCP" THEN s ELSE q
    BY DEF T!Filled, T!Unset
  <1> QED
    BY <1>2, <1>3

Range1(seq) == {seq[ix] : ix \in 1..Len(seq)}
Ascending(seq) == \A ix, j \in 1..Len(seq) : ix < j => seq[ix] < seq[j]
Upto(k) == {t_table[ix] : ix \in 1..k}

(* The processes that a listing looks at. *)
Seen == IF t_listing = "enum" /\ Len(t_table) > Limit THEN Limit ELSE Len(t_table)

(* The first k of them have been looked at, and reported or refused. *)
Looked(k) ==
  /\ t_pending \in Seq(Nat) /\ Len(t_pending) = Seen - k
  /\ \A ix \in 1..(Seen - k) : t_pending[ix] = t_table[k + ix]
  /\ t_listed \in Seq(Nat) /\ Ascending(t_listed)
  /\ Range1(t_listed) = Upto(k) \ t_refused
  /\ t_refused \subseteq Upto(k)

ProcessLoop == {"process", "query"}

ProcessesHeld ==
  /\ t_pc \in {"EnumProcesses", "CreateSnapshot", "Process32First", "done"} \cup ProcessLoop
  /\ t_pc = "EnumProcesses" => t_listing = "enum"
  /\ t_pc \in {"CreateSnapshot", "Process32First"} => t_listing = "snapshot"
  /\ t_snap \in BOOLEAN
  /\ t_pc \in {"EnumProcesses", "CreateSnapshot", "done"} => t_snap = FALSE
  /\ t_pc = "query" => t_pending # << >> /\ t_handles \subseteq {t_pending[1]}
  /\ t_pc # "query" => t_handles = {}

ProcessesLooked ==
  /\ t_table \in Seq(Nat) /\ Ascending(t_table)
  /\ t_pc \in {"EnumProcesses", "CreateSnapshot"} => t_listed = << >> /\ t_refused = {}
  /\ t_pc \in {"Process32First"} \cup ProcessLoop => \E k \in 0..Seen : Looked(k)

(* The first k sockets of a table are the last of the result. *)
Copied(p, k) ==
  /\ t_pending \in Seq(Socks) /\ Len(t_pending) = Len(t_table) - k
  /\ \A ix \in 1..(Len(t_table) - k) : t_pending[ix] = t_table[k + ix]
  /\ k <= Len(t_listed)
  /\ \A ix \in 1..k : t_listed[Len(t_listed) - k + ix] = T!Filled(p, t_table[ix])

SocketPcs == {"size TCP", "fetch TCP", "rows TCP", "size UDP", "fetch UDP", "rows UDP", "sort", "done"}

(* The handles that stay open belong to owners of listed sockets. *)
KeptOwned ==
  /\ t_kept \in Seq(Int) /\ Len(t_kept) <= Len(t_listed)
  /\ \A n \in 1..Len(t_kept) :
       t_kept[n] \notin SystemPids /\ \E ix \in 1..Len(t_listed) : t_listed[ix].pid = t_kept[n]

SocketsHeld ==
  /\ t_pc \in SocketPcs /\ t_snap = FALSE
  /\ t_blocks \subseteq {"table"}
  /\ t_pc \in {"size TCP", "size UDP", "sort", "done"} => t_blocks = {}
  /\ t_listed \in Seq(Socks)
  /\ t_handles = {} /\ KeptOwned

SocketsCopied ==
  /\ t_table \in Seq(Socks)
  /\ \A p \in T!Protocols : t_pc = T!Rows(p) => \E k \in 0..Len(t_table) : Copied(p, k)

Unstarted ==
  /\ t_pc = "none" /\ t_listed = << >> /\ t_handles = {} /\ t_snap = FALSE /\ t_blocks = {}
  /\ t_refused = {} /\ t_kept = << >>

TablesInv ==
  \/ t_listing = "none" /\ Unstarted
  \/ t_listing \in {"enum", "snapshot"} /\ ProcessesHeld /\ ProcessesLooked
  \/ t_listing = "sockets" /\ SocketsHeld /\ SocketsCopied

LEMMA TablesInitially ==
  ASSUME T!Init
  PROVE  TablesInv
  BY DEF T!Init, TablesInv, Unstarted

LEMMA StartListing ==
  ASSUME TablesInv, T!Next, t_pc = "none"
  PROVE  TablesInv'
  <1>1. t_listing = "none" /\ Unstarted
    BY DEF TablesInv, ProcessesHeld, SocketsHeld, ProcessLoop, SocketPcs
  <1>2. \/ \E s \in T!ProcessLists : T!Start("enum", s) \/ T!Start("snapshot", s)
        \/ \E s \in Tables : T!Start("sockets", s)
    BY DEF T!Next, T!TableChanges, T!GetFromEnum, T!EnumProcesses, T!EnumFails, T!GetFromSnapshot,
           T!CreateSnapshot, T!Process32First, T!ListProcess, T!OpenProcess, T!SkipProcess,
           T!ReportProcess, T!ProcessesEnd, T!snapshot, T!SizeTable, T!FetchTable, T!ReportSocket,
           T!TableEnds, T!SortSockets, T!Sized, T!Fetch, T!Rows, T!Protocols
  <1>3. ASSUME NEW s \in T!ProcessLists, T!Start("enum", s) PROVE TablesInv'
    <2>1. /\ t_listing' = "enum" /\ t_table' = s /\ t_pc' = "EnumProcesses"
          /\ t_listed' = << >> /\ t_handles' = {} /\ t_snap' = FALSE /\ t_refused' = {}
      BY <1>1, <1>3 DEF T!Start, Unstarted
    <2>2. ProcessesHeld'
      BY <2>1 DEF ProcessesHeld, ProcessLoop
    <2>3. ProcessesLooked'
      BY <2>1, ProcessListsAre DEF ProcessesLooked, ProcessLoop, Ascending
    <2> QED
      BY <2>1, <2>2, <2>3 DEF TablesInv
  <1>4. ASSUME NEW s \in T!ProcessLists, T!Start("snapshot", s) PROVE TablesInv'
    <2>1. /\ t_listing' = "snapshot" /\ t_table' = s /\ t_pc' = "CreateSnapshot"
          /\ t_listed' = << >> /\ t_handles' = {} /\ t_snap' = FALSE /\ t_refused' = {}
      BY <1>1, <1>4 DEF T!Start, Unstarted
    <2>2. ProcessesHeld'
      BY <2>1 DEF ProcessesHeld, ProcessLoop
    <2>3. ProcessesLooked'
      BY <2>1, ProcessListsAre DEF ProcessesLooked, ProcessLoop, Ascending
    <2> QED
      BY <2>1, <2>2, <2>3 DEF TablesInv
  <1>5. ASSUME NEW s \in Tables, T!Start("sockets", s) PROVE TablesInv'
    <2>1. /\ t_listing' = "sockets" /\ t_table' = s /\ t_pc' = "size TCP"
          /\ t_listed' = << >> /\ t_handles' = {} /\ t_snap' = FALSE /\ t_blocks' = {}
          /\ t_kept' = << >>
      BY <1>1, <1>5 DEF T!Start, Unstarted
    <2>2. SocketsHeld'
      <3>1. << >> \in Seq(Socks) /\ << >> \in Seq(Int) /\ Len(<< >>) = 0 /\ 1..0 = {}
        OBVIOUS
      <3>2. Len(t_kept') = 0 /\ Len(t_listed') = 0 /\ t_kept' \in Seq(Int)
        BY <2>1, <3>1
      <3>3. 1..Len(t_kept') = {} /\ Len(t_kept') <= Len(t_listed')
        BY <3>2
      <3>4. KeptOwned'
        BY <3>2, <3>3, Zenon DEF KeptOwned
      <3> QED
        BY <2>1, <3>1, <3>4 DEF SocketsHeld, SocketPcs
    <2>3. SocketsCopied'
      BY <2>1, SocketTablesAre DEF SocketsCopied, T!Rows
    <2> QED
      BY <2>1, <2>2, <2>3 DEF TablesInv
  <1> QED
    BY <1>2, <1>3, <1>4, <1>5

LEMMA EnumStep ==
  ASSUME t_listing = "enum", ProcessesHeld, ProcessesLooked, T!EnumProcesses
  PROVE  TablesInv'
  <1>1. /\ t_pc = "EnumProcesses" /\ t_pc' = "process"
        /\ UNCHANGED << t_listing, t_table, t_listed, t_handles, t_snap, t_refused >>
        /\ t_pending' = SubSeq(t_table, 1, IF Len(t_table) < Limit THEN Len(t_table) ELSE Limit)
    BY DEF T!EnumProcesses
  <1>2. Limit \in Nat /\ t_table \in Seq(Nat) /\ Len(t_table) \in Nat
    BY ProcessesAssumption DEF ProcessesLooked
  <1>3. Seen' = (IF Len(t_table) < Limit THEN Len(t_table) ELSE Limit) /\ Seen' \in 0..Len(t_table)
    BY <1>1, <1>2 DEF Seen
  <1>4. /\ t_pending' \in Seq(Nat) /\ Len(t_pending') = Seen'
        /\ \A ix \in 1..Seen' : t_pending'[ix] = t_table[ix]
    <2>1. t_pending' = SubSeq(t_table, 1, Seen')
      BY <1>1, <1>3
    <2> QED
      BY <1>2, <1>3, <2>1
  <1>5. t_listed' = << >> /\ t_refused' = {}
    BY <1>1 DEF ProcessesLooked
  <1>6. Looked(0)'
    <2>1. Upto(0)' = {} /\ Range1(t_listed') = {}
      BY <1>5 DEF Upto, Range1
    <2>2. t_listed' \in Seq(Nat) /\ Ascending(t_listed')
      BY <1>5 DEF Ascending
    <2>3. Seen' - 0 = Seen' /\ \A ix \in 1..Seen' : 0 + ix = ix
      BY <1>3
    <2> QED
      BY <1>1, <1>4, <1>5, <2>1, <2>2, <2>3 DEF Looked
  <1>7. ProcessesLooked'
    BY <1>1, <1>3, <1>6 DEF ProcessesLooked, ProcessLoop
  <1>8. ProcessesHeld'
    BY <1>1 DEF ProcessesHeld, ProcessLoop
  <1> QED
    BY <1>1, <1>7, <1>8 DEF TablesInv

LEMMA SnapshotStep ==
  ASSUME t_listing = "snapshot", ProcessesHeld, ProcessesLooked,
         t_pc = "CreateSnapshot", t_snap' = TRUE, t_pending' = t_table, t_pc' = "Process32First",
         UNCHANGED << t_listing, t_table, t_listed, t_handles, t_refused >>
  PROVE  TablesInv'
  <1>1. t_table \in Seq(Nat) /\ Len(t_table) \in Nat
    BY DEF ProcessesLooked
  <1>2. Seen' = Len(t_table)
    BY DEF Seen
  <1>3. t_listed' = << >> /\ t_refused' = {}
    BY DEF ProcessesLooked
  <1>4. Looked(0)'
    <2>1. Upto(0)' = {} /\ Range1(t_listed') = {}
      BY <1>3 DEF Upto, Range1
    <2>2. t_listed' \in Seq(Nat) /\ Ascending(t_listed')
      BY <1>3 DEF Ascending
    <2>3. Seen' - 0 = Len(t_table) /\ \A ix \in 1..Len(t_table) : 0 + ix = ix
      BY <1>1, <1>2
    <2> QED
      BY <1>1, <1>3, <2>1, <2>2, <2>3 DEF Looked
  <1>5. ProcessesLooked'
    BY <1>1, <1>2, <1>4 DEF ProcessesLooked, ProcessLoop
  <1>6. ProcessesHeld'
    BY DEF ProcessesHeld, ProcessLoop
  <1> QED
    BY <1>5, <1>6 DEF TablesInv

(* The head of the pending processes is the next one to be looked at. *)
LEMMA NextProcess ==
  ASSUME NEW k \in 0..Seen, Looked(k), ProcessesLooked, t_pending # << >>
  PROVE  /\ k + 1 \in 0..Seen /\ Seen \in 0..Len(t_table)
         /\ Head(t_pending) = t_table[k + 1] /\ Head(t_pending) = t_pending[1]
         /\ t_table[k + 1] \in Nat
         /\ Upto(k + 1) = Upto(k) \cup {t_table[k + 1]}
         /\ \A n \in Upto(k) : n \in Nat /\ n < t_table[k + 1]
         /\ Tail(t_pending) \in Seq(Nat) /\ Len(Tail(t_pending)) = Seen - (k + 1)
         /\ \A ix \in 1..(Seen - (k + 1)) : Tail(t_pending)[ix] = t_table[(k + 1) + ix]
  <1>1. Limit \in Nat /\ t_table \in Seq(Nat) /\ Len(t_table) \in Nat
    BY ProcessesAssumption DEF ProcessesLooked
  <1>2. Seen \in 0..Len(t_table)
    BY <1>1 DEF Seen
  <1>3. t_pending \in Seq(Nat) /\ Len(t_pending) = Seen - k /\ Len(t_pending) > 0
    BY DEF Looked
  <1>4. k \in Nat /\ k + 1 \in 0..Seen /\ k + 1 \in 1..Len(t_table)
    BY <1>2, <1>3
  <1>5. Head(t_pending) = t_pending[1] /\ t_pending[1] = t_table[k + 1]
    BY <1>2, <1>3, <1>4 DEF Looked
  <1>6. Upto(k + 1) = Upto(k) \cup {t_table[k + 1]}
    <2>1. 1..(k + 1) = (1..k) \cup {k + 1}
      BY <1>4
    <2> QED
      BY <2>1 DEF Upto
  <1>7. \A n \in Upto(k) : n \in Nat /\ n < t_table[k + 1]
    <2> TAKE n \in Upto(k)
    <2>1. PICK ix \in 1..k : n = t_table[ix]
      BY DEF Upto
    <2>2. ix \in 1..Len(t_table) /\ ix < k + 1
      BY <1>4
    <2> QED
      BY <1>1, <1>4, <2>1, <2>2 DEF ProcessesLooked, Ascending
  <1>8. /\ Tail(t_pending) \in Seq(Nat) /\ Len(Tail(t_pending)) = Seen - (k + 1)
        /\ \A ix \in 1..(Seen - (k + 1)) : Tail(t_pending)[ix] = t_pending[ix + 1]
    BY <1>2, <1>3, <1>4
  <1>9. \A ix \in 1..(Seen - (k + 1)) : t_pending[ix + 1] = t_table[(k + 1) + ix]
    <2> TAKE ix \in 1..(Seen - (k + 1))
    <2>1. ix + 1 \in 1..(Seen - k) /\ k + (ix + 1) = (k + 1) + ix
      BY <1>2, <1>4
    <2> QED
      BY <2>1 DEF Looked
  <1> QED
    BY <1>1, <1>2, <1>4, <1>5, <1>6, <1>7, <1>8, <1>9

LEMMA SkipStep ==
  ASSUME t_listing \in {"enum", "snapshot"}, ProcessesHeld, ProcessesLooked, T!SkipProcess
  PROVE  TablesInv'
  <1>1. /\ t_pc = "query" /\ t_pc' = "process" /\ t_refused' = t_refused \cup {Head(t_pending)}
        /\ t_handles' = t_handles \ {Head(t_pending)} /\ t_pending' = Tail(t_pending)
        /\ UNCHANGED << t_listing, t_table, t_listed, t_snap >>
    BY DEF T!SkipProcess
  <1>2. PICK k \in 0..Seen : Looked(k)
    BY <1>1 DEF ProcessesLooked, ProcessLoop
  <1>3. t_pending # << >> /\ t_handles \subseteq {t_pending[1]}
    BY <1>1 DEF ProcessesHeld
  <1> DEFINE x == t_table[k + 1]
  <1>4. /\ k + 1 \in 0..Seen /\ Head(t_pending) = x /\ Head(t_pending) = t_pending[1]
        /\ x \in Nat /\ Upto(k + 1) = Upto(k) \cup {x}
        /\ \A n \in Upto(k) : n \in Nat /\ n < x
        /\ Tail(t_pending) \in Seq(Nat) /\ Len(Tail(t_pending)) = Seen - (k + 1)
        /\ \A ix \in 1..(Seen - (k + 1)) : Tail(t_pending)[ix] = t_table[(k + 1) + ix]
    BY <1>2, <1>3, NextProcess
  <1>5. Seen' = Seen /\ Upto(k + 1)' = Upto(k + 1)
    BY <1>1 DEF Seen, Upto
  <1>6. x \notin Upto(k)
    BY <1>4
  <1> HIDE DEF x
  <1>7. Looked(k + 1)'
    <2>1. Range1(t_listed)' = Range1(t_listed) /\ Ascending(t_listed)' = Ascending(t_listed)
      BY <1>1 DEF Range1, Ascending
    <2>2. Range1(t_listed)' = Upto(k + 1)' \ t_refused' /\ t_refused' \subseteq Upto(k + 1)'
      BY <1>1, <1>2, <1>4, <1>5, <1>6, <2>1 DEF Looked
    <2>3. t_listed' \in Seq(Nat) /\ Ascending(t_listed')
      BY <1>1, <1>2 DEF Looked
    <2>4. /\ t_pending' \in Seq(Nat) /\ Len(t_pending') = Seen' - (k + 1)
          /\ \A ix \in 1..(Seen' - (k + 1)) : t_pending'[ix] = t_table'[(k + 1) + ix]
      BY <1>1, <1>4, <1>5
    <2> QED
      BY <2>2, <2>3, <2>4 DEF Looked
  <1>8. ProcessesLooked'
    BY <1>1, <1>4, <1>5, <1>7 DEF ProcessesLooked, ProcessLoop, Ascending
  <1>9. t_handles' = {}
    BY <1>1, <1>3, <1>4
  <1>10. ProcessesHeld'
    BY <1>1, <1>9 DEF ProcessesHeld, ProcessLoop
  <1> QED
    BY <1>1, <1>8, <1>10 DEF TablesInv

LEMMA ReportStep ==
  ASSUME t_listing \in {"enum", "snapshot"}, ProcessesHeld, ProcessesLooked, T!ReportProcess
  PROVE  TablesInv'
  <1>1. /\ t_pc = "query" /\ t_pc' = "process" /\ t_listed' = Append(t_listed, Head(t_pending))
        /\ t_handles' = t_handles \ {Head(t_pending)} /\ t_pending' = Tail(t_pending)
        /\ UNCHANGED << t_listing, t_table, t_refused, t_snap >>
    BY DEF T!ReportProcess
  <1>2. PICK k \in 0..Seen : Looked(k)
    BY <1>1 DEF ProcessesLooked, ProcessLoop
  <1>3. t_pending # << >> /\ t_handles \subseteq {t_pending[1]}
    BY <1>1 DEF ProcessesHeld
  <1> DEFINE x == t_table[k + 1]
             L0 == Len(t_listed)
  <1>4. /\ k + 1 \in 0..Seen /\ Head(t_pending) = x /\ Head(t_pending) = t_pending[1]
        /\ x \in Nat /\ Upto(k + 1) = Upto(k) \cup {x}
        /\ \A n \in Upto(k) : n \in Nat /\ n < x
        /\ Tail(t_pending) \in Seq(Nat) /\ Len(Tail(t_pending)) = Seen - (k + 1)
        /\ \A ix \in 1..(Seen - (k + 1)) : Tail(t_pending)[ix] = t_table[(k + 1) + ix]
    BY <1>2, <1>3, NextProcess
  <1>5. Seen' = Seen /\ Upto(k + 1)' = Upto(k + 1)
    BY <1>1 DEF Seen, Upto
  <1>6. x \notin Upto(k)
    BY <1>4
  <1> HIDE DEF x
  <1>7. t_listed \in Seq(Nat) /\ L0 \in Nat /\ Ascending(t_listed) /\ Range1(t_listed) = Upto(k) \ t_refused
        /\ t_refused \subseteq Upto(k)
    BY <1>2 DEF Looked
  <1>8. /\ t_listed' \in Seq(Nat) /\ Len(t_listed') = L0 + 1
        /\ \A ix \in 1..L0 : t_listed'[ix] = t_listed[ix]
        /\ t_listed'[L0 + 1] = x
    BY <1>1, <1>4, <1>7
  <1>9. Range1(t_listed') = Range1(t_listed) \cup {x}
    <2>1. 1..(L0 + 1) = (1..L0) \cup {L0 + 1}
      BY <1>7
    <2> QED
      BY <1>8, <2>1 DEF Range1
  <1>10. Ascending(t_listed')
    <2> SUFFICES ASSUME NEW ix \in 1..(L0 + 1), NEW j \in 1..(L0 + 1), ix < j
                 PROVE  t_listed'[ix] < t_listed'[j]
      BY <1>8 DEF Ascending
    <2>1. CASE j = L0 + 1
      <3>1. ix \in 1..L0
        BY <1>7, <2>1
      <3>2. t_listed[ix] \in Range1(t_listed)
        BY <3>1 DEF Range1
      <3>3. t_listed[ix] < x
        BY <1>4, <1>7, <3>2
      <3> QED
        BY <1>8, <2>1, <3>1, <3>3
    <2>2. CASE j # L0 + 1
      <3>1. ix \in 1..L0 /\ j \in 1..L0
        BY <1>7, <2>2
      <3> QED
        BY <1>7, <1>8, <3>1 DEF Ascending
    <2> QED
      BY <2>1, <2>2
  <1>11. Looked(k + 1)'
    <2>1. Range1(t_listed') = Upto(k + 1)' \ t_refused' /\ t_refused' \subseteq Upto(k + 1)'
      BY <1>1, <1>4, <1>5, <1>6, <1>7, <1>9
    <2>2. /\ t_pending' \in Seq(Nat) /\ Len(t_pending') = Seen' - (k + 1)
          /\ \A ix \in 1..(Seen' - (k + 1)) : t_pending'[ix] = t_table'[(k + 1) + ix]
      BY <1>1, <1>4, <1>5
    <2> QED
      BY <1>8, <1>10, <2>1, <2>2 DEF Looked
  <1>12. ProcessesLooked'
    BY <1>1, <1>4, <1>5, <1>11 DEF ProcessesLooked, ProcessLoop, Ascending
  <1>13. t_handles' = {}
    BY <1>1, <1>3, <1>4
  <1>14. ProcessesHeld'
    BY <1>1, <1>13 DEF ProcessesHeld, ProcessLoop
  <1> QED
    BY <1>1, <1>12, <1>14 DEF TablesInv

(* The steps that neither report a process nor pass one by. *)
LEMMA LookedUnchanged ==
  ASSUME ProcessesLooked, t_pc \in {"Process32First"} \cup ProcessLoop,
         UNCHANGED << t_listing, t_table, t_pending, t_listed, t_refused >>
  PROVE  \E k \in 0..Seen' : Looked(k)'
  <1>1. PICK k \in 0..Seen : Looked(k)
    BY DEF ProcessesLooked
  <1>2. Seen' = Seen /\ Upto(k)' = Upto(k)
    BY DEF Seen, Upto
  <1>3. Looked(k)'
    BY <1>1, <1>2 DEF Looked
  <1> QED
    BY <1>2, <1>3

LEMMA ReturnedStep ==
  ASSUME t_listing \in {"enum", "snapshot"}, ProcessesHeld, ProcessesLooked,
         T!Returned, t_handles' = t_handles, t_snap' = FALSE, t_pc # "query"
  PROVE  TablesInv'
  <1>1. t_pc' = "done" /\ UNCHANGED << t_listing, t_table, t_listed, t_refused >>
    BY DEF T!Returned
  <1>2. ProcessesHeld'
    BY <1>1 DEF ProcessesHeld, ProcessLoop
  <1>3. ProcessesLooked'
    BY <1>1 DEF ProcessesLooked, ProcessLoop, Ascending
  <1> QED
    BY <1>1, <1>2, <1>3 DEF TablesInv

LEMMA ProcessStep ==
  ASSUME t_listing \in {"enum", "snapshot"}, ProcessesHeld, ProcessesLooked, T!Next
  PROVE  TablesInv'
  <1>1. t_pc \in {"EnumProcesses", "CreateSnapshot", "Process32First", "done"} \cup ProcessLoop
    BY DEF ProcessesHeld
  <1>2. \/ T!EnumProcesses \/ T!EnumFails \/ T!CreateSnapshot \/ T!Process32First
        \/ T!OpenProcess \/ T!SkipProcess \/ T!ReportProcess \/ T!ProcessesEnd
    BY <1>1 DEF T!Next, T!Start, T!TableChanges, T!GetFromEnum, T!GetFromSnapshot, T!ListProcess,
           T!snapshot, T!SizeTable, T!FetchTable, T!ReportSocket, T!TableEnds, T!SortSockets,
           T!Sized, T!Fetch, T!Rows, T!Protocols, ProcessLoop
  <1>3. CASE T!EnumProcesses
    <2>1. t_listing = "enum"
      BY <1>3 DEF T!EnumProcesses, ProcessesHeld
    <2> QED
      BY <1>3, <2>1, EnumStep
  <1>4. CASE T!EnumFails
    <2>1. T!Returned /\ t_handles' = t_handles /\ t_snap' = FALSE /\ t_pc # "query"
      BY <1>4 DEF T!EnumFails, ProcessesHeld
    <2> QED
      BY <2>1, ReturnedStep
  <1>5. CASE T!CreateSnapshot
    <2>1. t_pc = "CreateSnapshot" /\ t_listing = "snapshot" /\ t_snap = FALSE
      BY <1>5 DEF T!CreateSnapshot, ProcessesHeld
    <2>2. CASE T!Returned /\ UNCHANGED << t_pending, t_handles, t_snap, t_blocks >>
      BY <2>1, <2>2, ReturnedStep
    <2>3. CASE /\ t_snap' = TRUE /\ t_pending' = t_table /\ t_pc' = "Process32First"
               /\ UNCHANGED << t_listing, t_table, t_listed, t_handles, t_refused >>
      BY <2>1, <2>3, SnapshotStep
    <2> QED
      BY <1>5, <2>2, <2>3 DEF T!CreateSnapshot
  <1>6. CASE T!Process32First
    <2>1. CASE T!Returned /\ t_snap' = FALSE /\ UNCHANGED << t_pending, t_handles, t_blocks >>
      BY <1>6, <2>1, ReturnedStep DEF T!Process32First
    <2>2. CASE /\ t_pending # << >> /\ t_pc' = "process"
               /\ UNCHANGED << t_listing, t_table, t_pending, t_listed, t_handles, t_snap, t_refused >>
      <3>1. t_pc = "Process32First"
        BY <1>6 DEF T!Process32First
      <3>2. ProcessesHeld'
        BY <2>2, <3>1 DEF ProcessesHeld, ProcessLoop
      <3>3. ProcessesLooked'
        BY <2>2, <3>1, LookedUnchanged DEF ProcessesLooked, ProcessLoop, Ascending
      <3> QED
        BY <2>2, <3>2, <3>3 DEF TablesInv
    <2> QED
      BY <1>6, <2>1, <2>2 DEF T!Process32First
  <1>7. CASE T!OpenProcess
    <2>1. /\ t_pc = "process" /\ t_pc' = "query" /\ t_pending # << >>
          /\ t_handles' \in {t_handles, t_handles \cup {Head(t_pending)}}
          /\ UNCHANGED << t_listing, t_table, t_pending, t_listed, t_snap, t_refused >>
      BY <1>7 DEF T!OpenProcess
    <2>2. Head(t_pending) = t_pending[1]
      <3>1. PICK k \in 0..Seen : Looked(k)
        BY <2>1 DEF ProcessesLooked, ProcessLoop
      <3> QED
        BY <2>1, <3>1, NextProcess
    <2>3. t_handles = {} /\ t_snap \in BOOLEAN
      BY <2>1 DEF ProcessesHeld
    <2>4. ProcessesHeld'
      <3>1. t_handles' \subseteq {t_pending[1]}
        BY <2>1, <2>2, <2>3
      <3> QED
        BY <2>1, <2>3, <3>1 DEF ProcessesHeld, ProcessLoop
    <2>5. ProcessesLooked'
      BY <2>1, LookedUnchanged DEF ProcessesLooked, ProcessLoop, Ascending
    <2> QED
      BY <2>1, <2>4, <2>5 DEF TablesInv
  <1>8. CASE T!ProcessesEnd
    <2>1. T!Returned /\ t_handles' = t_handles /\ t_snap' = FALSE /\ t_pc # "query"
      BY <1>8 DEF T!ProcessesEnd
    <2> QED
      BY <2>1, ReturnedStep
  <1> QED
    BY <1>2, <1>3, <1>4, <1>5, <1>6, <1>7, <1>8, SkipStep, ReportStep

(* The steps between two tables. *)
LEMMA QuietSocketStep ==
  ASSUME t_listing = "sockets", SocketsHeld, SocketsCopied, t_pc' \in SocketPcs,
         t_pc' \notin {"rows TCP", "rows UDP"}, t_table' \in Seq(Socks),
         t_blocks' \subseteq {"table"},
         t_pc' \in {"size TCP", "size UDP", "sort", "done"} => t_blocks' = {},
         UNCHANGED << t_listing, t_listed, t_handles, t_kept, t_snap >>
  PROVE  TablesInv'
  <1>1. SocketsHeld'
    BY DEF SocketsHeld, KeptOwned
  <1>2. SocketsCopied'
    BY DEF SocketsCopied, T!Rows
  <1> QED
    BY <1>1, <1>2 DEF TablesInv

LEMMA FetchedStep ==
  ASSUME t_listing = "sockets", SocketsHeld, SocketsCopied, NEW p \in T!Protocols,
         t_pc' = T!Rows(p), t_pending' = t_table,
         UNCHANGED << t_listing, t_table, t_listed, t_handles, t_kept, t_snap, t_blocks >>
  PROVE  TablesInv'
  <1>1. t_table \in Seq(Socks) /\ Len(t_table) \in Nat /\ t_listed \in Seq(Socks) /\ Len(t_listed) \in Nat
    <2>1. t_table \in Seq(Socks) /\ t_listed \in Seq(Socks)
      BY DEF SocketsCopied, SocketsHeld
    <2> QED
      BY <2>1
  <1>2. \A q : Copied(q, 0)'
    BY <1>1 DEF Copied
  <1>3. SocketsCopied'
    BY <1>1, <1>2 DEF SocketsCopied
  <1>4. SocketsHeld'
    BY DEF SocketsHeld, SocketPcs, KeptOwned, T!Rows
  <1> QED
    BY <1>3, <1>4 DEF TablesInv

LEMMA OneProtocol ==
  ASSUME NEW p \in T!Protocols, NEW q \in T!Protocols, T!Rows(p) = T!Rows(q)
  PROVE  q = p
  <1>1. p \in {"TCP", "UDP"} /\ q \in {"TCP", "UDP"}
    BY DEF T!Protocols
  <1>2. T!Rows("TCP") = "rows TCP" /\ T!Rows("UDP") = "rows UDP"
    BY DEF T!Rows
  <1> QED
    BY <1>1, <1>2

LEMMA ReportedStep ==
  ASSUME t_listing = "sockets", SocketsHeld, SocketsCopied, NEW p \in T!Protocols, T!ReportSocket(p)
  PROVE  TablesInv'
  <1> DEFINE x == Head(t_pending)
             y == T!Filled(p, x)
             L0 == Len(t_listed)
             N == Len(t_table)
  <1>1. /\ t_pc = T!Rows(p) /\ t_pending # << >>
        /\ t_listed' = Append(t_listed, y) /\ t_pending' = Tail(t_pending)
        /\ t_kept' = t_kept \/ (x.pid \notin SystemPids /\ t_kept' = Append(t_kept, x.pid))
        /\ UNCHANGED << t_pc, t_listing, t_table, t_handles, t_snap, t_blocks >>
    BY DEF T!ReportSocket, T!Opens
  <1>2. PICK k \in 0..N : Copied(p, k)
    BY <1>1 DEF SocketsCopied
  <1>3. /\ t_table \in Seq(Socks) /\ N \in Nat /\ t_listed \in Seq(Socks) /\ L0 \in Nat
        /\ t_pending \in Seq(Socks) /\ Len(t_pending) = N - k /\ Len(t_pending) > 0
    <2>1. t_table \in Seq(Socks) /\ t_listed \in Seq(Socks) /\ t_pending \in Seq(Socks) /\ Len(t_pending) = N - k
      BY <1>2 DEF SocketsCopied, SocketsHeld, Copied
    <2>2. Len(t_pending) > 0
      BY <1>1, <2>1
    <2> QED
      BY <2>1, <2>2
  <1>4. k \in Nat /\ k + 1 \in 0..N /\ k <= L0
    BY <1>2, <1>3 DEF Copied
  <1>5. x = t_pending[1] /\ x = t_table[k + 1] /\ x \in Socks
    <2>1. x = t_pending[1] /\ x \in Socks
      BY <1>3
    <2>2. t_pending[1] = t_table[k + 1]
      BY <1>2, <1>3, <1>4 DEF Copied
    <2> QED
      BY <2>1, <2>2
  <1>6. y \in Socks /\ y.pid = x.pid /\ y = T!Filled(p, t_table[k + 1])
    BY <1>5, FilledIs
  <1> HIDE DEF x, y
  <1>7. /\ t_listed' \in Seq(Socks) /\ Len(t_listed') = L0 + 1
        /\ \A ix \in 1..L0 : t_listed'[ix] = t_listed[ix]
        /\ t_listed'[L0 + 1] = y
    BY <1>1, <1>3, <1>6
  <1>8. /\ t_pending' \in Seq(Socks) /\ Len(t_pending') = N - (k + 1)
        /\ \A ix \in 1..(N - (k + 1)) : t_pending'[ix] = t_table[(k + 1) + ix]
    <2>1. /\ t_pending' \in Seq(Socks) /\ Len(t_pending') = N - (k + 1)
          /\ \A ix \in 1..(N - (k + 1)) : t_pending'[ix] = t_pending[ix + 1]
      BY <1>1, <1>3, <1>4
    <2>2. \A ix \in 1..(N - (k + 1)) : t_pending[ix + 1] = t_table[(k + 1) + ix]
      <3> TAKE ix \in 1..(N - (k + 1))
      <3>1. ix + 1 \in 1..(N - k) /\ k + (ix + 1) = (k + 1) + ix
        BY <1>3, <1>4
      <3> QED
        BY <1>2, <3>1 DEF Copied
    <2> QED
      BY <2>1, <2>2
  <1>9. \A ix \in 1..(k + 1) : t_listed'[(L0 + 1) - (k + 1) + ix] = T!Filled(p, t_table[ix])
    <2> TAKE ix \in 1..(k + 1)
    <2>1. CASE ix = k + 1
      <3>1. (L0 + 1) - (k + 1) + ix = L0 + 1
        BY <1>3, <1>4, <2>1
      <3> QED
        BY <1>6, <1>7, <2>1, <3>1
    <2>2. CASE ix # k + 1
      <3>1. ix \in 1..k /\ (L0 + 1) - (k + 1) + ix = L0 - k + ix /\ L0 - k + ix \in 1..L0
        <4> HIDE DEF L0, N
        <4> QED
          BY <1>3, <1>4, <2>2
      <3> QED
        BY <1>2, <1>7, <3>1 DEF Copied
    <2> QED
      BY <2>1, <2>2
  <1>10. Copied(p, k + 1)'
    <2>1. t_table' = t_table
      BY <1>1
    <2>2. k + 1 <= Len(t_listed')
      <3> HIDE DEF L0, N
      <3> QED
        BY <1>3, <1>4, <1>7
    <2>3. \A ix \in 1..(k + 1) : t_listed'[Len(t_listed') - (k + 1) + ix] = T!Filled(p, t_table'[ix])
      BY <1>7, <1>9, <2>1
    <2> QED
      BY <1>8, <2>1, <2>2, <2>3 DEF Copied
  <1>11. SocketsCopied'
    <2>1. \A q \in T!Protocols : t_pc' = T!Rows(q) => q = p
      <3>1. t_pc' = T!Rows(p)
        BY <1>1
      <3> QED
        BY <3>1, OneProtocol
    <2> QED
      BY <1>1, <1>3, <1>4, <1>10, <2>1 DEF SocketsCopied
  <1>12. KeptOwned'
    <2>1. /\ t_kept \in Seq(Int) /\ Len(t_kept) \in Nat /\ Len(t_kept) <= L0
          /\ \A n \in 1..Len(t_kept) :
               t_kept[n] \notin SystemPids /\ \E ix \in 1..L0 : t_listed[ix].pid = t_kept[n]
      <3>1. KeptOwned
        BY DEF SocketsHeld
      <3>2. t_kept \in Seq(Int)
        BY <3>1 DEF KeptOwned
      <3>3. Len(t_kept) \in Nat
        BY <3>2
      <3> QED
        BY <3>1, <3>2, <3>3 DEF KeptOwned
    <2>2. \A n \in 1..Len(t_kept) :
            t_kept[n] \notin SystemPids /\ \E ix \in 1..Len(t_listed') : t_listed'[ix].pid = t_kept[n]
      <3> TAKE n \in 1..Len(t_kept)
      <3>1. PICK ix \in 1..L0 : t_listed[ix].pid = t_kept[n]
        BY <2>1
      <3>2. ix \in 1..Len(t_listed') /\ t_listed'[ix].pid = t_kept[n]
        BY <1>3, <1>7, <3>1
      <3> QED
        BY <2>1, <3>2
    <2>3. CASE t_kept' = t_kept
      <3>1. Len(t_kept) <= Len(t_listed')
        BY <1>3, <1>7, <2>1
      <3> QED
        BY <2>1, <2>2, <2>3, <3>1 DEF KeptOwned
    <2>4. CASE x.pid \notin SystemPids /\ t_kept' = Append(t_kept, x.pid)
      <3>1. x.pid \in Int
        BY <1>5 DEF Socks
      <3>2. /\ t_kept' \in Seq(Int) /\ Len(t_kept') = Len(t_kept) + 1
            /\ \A n \in 1..Len(t_kept) : t_kept'[n] = t_kept[n]
            /\ t_kept'[Len(t_kept) + 1] = x.pid
        BY <2>1, <2>4, <3>1
      <3>3. Len(t_kept') <= Len(t_listed')
        BY <1>3, <1>7, <2>1, <3>2
      <3>4. L0 + 1 \in 1..Len(t_listed') /\ t_listed'[L0 + 1].pid = x.pid
        BY <1>3, <1>6, <1>7
      <3>5. ASSUME NEW n \in 1..Len(t_kept')
            PROVE  /\ t_kept'[n] \notin SystemPids
                   /\ \E ix \in 1..Len(t_listed') : t_listed'[ix].pid = t_kept'[n]
        <4>1. CASE n = Len(t_kept) + 1
          BY <2>4, <3>2, <3>4, <4>1
        <4>2. CASE n # Len(t_kept) + 1
          <5>1. n \in 1..Len(t_kept)
            BY <2>1, <3>2, <4>2
          <5> QED
            BY <2>2, <3>2, <5>1
        <4> QED
          BY <4>1, <4>2
      <3> QED
        BY <3>2, <3>3, <3>5 DEF KeptOwned
    <2> QED
      BY <1>1, <2>3, <2>4
  <1>13. SocketsHeld'
    BY <1>1, <1>7, <1>12 DEF SocketsHeld, SocketPcs, T!Rows
  <1> QED
    BY <1>1, <1>11, <1>13 DEF TablesInv

LEMMA SortedStep ==
  ASSUME t_listing = "sockets", SocketsHeld, SocketsCopied, T!SortSockets
  PROVE  TablesInv'
  <1>1. /\ t_pc = "sort" /\ t_pc' = "done"
        /\ UNCHANGED << t_listing, t_table, t_handles, t_kept, t_snap, t_blocks >>
    BY DEF T!SortSockets
  <1>2. PICK place \in [DOMAIN t_listed -> DOMAIN t_listed] :
          /\ \A ix \in DOMAIN t_listed : \E j \in DOMAIN t_listed : place[j] = ix
          /\ t_listed' = [ix \in DOMAIN t_listed |-> t_listed[place[ix]]]
    BY DEF T!SortSockets
  <1>3. t_listed \in Seq(Socks) /\ DOMAIN t_listed = 1..Len(t_listed) /\ Len(t_listed) \in Nat
    <2>1. t_listed \in Seq(Socks)
      BY DEF SocketsHeld
    <2> QED
      BY <2>1
  <1>4. t_listed' \in [1..Len(t_listed) -> Socks]
    BY <1>2, <1>3
  <1>5. t_listed' \in Seq(Socks) /\ Len(t_listed') = Len(t_listed)
    BY <1>3, <1>4
  <1>6. KeptOwned'
    <2>1. /\ t_kept \in Seq(Int) /\ Len(t_kept) <= Len(t_listed)
          /\ \A n \in 1..Len(t_kept) :
               t_kept[n] \notin SystemPids /\ \E ix \in 1..Len(t_listed) : t_listed[ix].pid = t_kept[n]
      BY DEF SocketsHeld, KeptOwned
    <2>2. ASSUME NEW n \in 1..Len(t_kept)
          PROVE  \E ix \in 1..Len(t_listed') : t_listed'[ix].pid = t_kept[n]
      <3>1. PICK ix \in 1..Len(t_listed) : t_listed[ix].pid = t_kept[n]
        BY <2>1
      <3>2. PICK j \in 1..Len(t_listed) : place[j] = ix
        BY <1>2, <1>3
      <3>3. t_listed'[j] = t_listed[ix]
        BY <1>2, <1>3, <3>2
      <3> QED
        BY <1>5, <3>1, <3>3
    <2> QED
      BY <1>1, <1>5, <2>1, <2>2 DEF KeptOwned
  <1>7. SocketsHeld'
    BY <1>1, <1>5, <1>6 DEF SocketsHeld, SocketPcs
  <1>8. SocketsCopied'
    BY <1>1 DEF SocketsCopied, T!Rows
  <1> QED
    BY <1>1, <1>7, <1>8 DEF TablesInv

LEMMA SocketStep ==
  ASSUME t_listing = "sockets", SocketsHeld, SocketsCopied, T!Next
  PROVE  TablesInv'
  <1>1. t_pc \in SocketPcs /\ t_table \in Seq(Socks) /\ t_blocks \subseteq {"table"}
    BY DEF SocketsHeld, SocketsCopied
  <1>2. \/ \E s \in Tables : T!TableChanges(s)
        \/ \E p \in T!Protocols : T!SizeTable(p) \/ T!FetchTable(p) \/ T!ReportSocket(p) \/ T!TableEnds(p)
        \/ T!SortSockets
    BY <1>1 DEF T!Next, T!Start, T!GetFromEnum, T!GetFromSnapshot, T!ListProcess, T!snapshot,
           T!EnumProcesses, T!EnumFails, T!CreateSnapshot, T!Process32First, T!OpenProcess,
           T!SkipProcess, T!ReportProcess, T!ProcessesEnd, SocketPcs
  <1>3. ASSUME NEW s \in Tables, T!TableChanges(s) PROVE TablesInv'
    <2>1. /\ t_table' = s
          /\ UNCHANGED << t_pc, t_listing, t_listed, t_handles, t_kept, t_snap, t_blocks >>
          /\ t_pc \notin {"rows TCP", "rows UDP"}
      BY <1>3 DEF T!TableChanges, T!Sized, T!Fetch
    <2>2. t_table' \in Seq(Socks)
      BY <2>1, SocketTablesAre
    <2>3. t_pc' \in {"size TCP", "size UDP", "sort", "done"} => t_blocks' = {}
      BY <2>1 DEF SocketsHeld
    <2> QED
      BY <1>1, <2>1, <2>2, <2>3, QuietSocketStep
  <1>4. ASSUME NEW p \in T!Protocols, T!SizeTable(p) PROVE TablesInv'
    <2>1. t_pc \in {"size TCP", "size UDP"} /\ t_blocks = {}
      BY <1>4 DEF T!SizeTable, T!Sized, SocketsHeld
    <2>2. /\ UNCHANGED << t_listing, t_table, t_listed, t_handles, t_kept, t_snap >>
          /\ \/ t_pc' \in {"fetch TCP", "fetch UDP"} /\ t_blocks' = t_blocks \cup {"table"}
             \/ t_pc' \in {"size UDP", "sort"} /\ t_blocks' = t_blocks
      BY <1>4 DEF T!SizeTable, T!Fetch, T!After
    <2>3. /\ t_pc' \in SocketPcs /\ t_pc' \notin {"rows TCP", "rows UDP"} /\ t_blocks' \subseteq {"table"}
          /\ t_pc' \in {"size TCP", "size UDP", "sort", "done"} => t_blocks' = {}
      BY <2>1, <2>2 DEF SocketPcs
    <2> QED
      BY <1>1, <2>2, <2>3, QuietSocketStep
  <1>5. ASSUME NEW p \in T!Protocols, t_pc' = T!After(p), t_blocks' = t_blocks \ {"table"},
               UNCHANGED << t_listing, t_table, t_listed, t_handles, t_kept, t_snap >>
        PROVE  TablesInv'
    <2>1. t_pc' \in SocketPcs /\ t_pc' \notin {"rows TCP", "rows UDP"} /\ t_blocks' = {}
      BY <1>1, <1>5 DEF T!After, SocketPcs
    <2>2. t_blocks' \subseteq {"table"}
      BY <2>1
    <2> QED
      BY <1>1, <1>5, <2>1, <2>2, QuietSocketStep
  <1>6. ASSUME NEW p \in T!Protocols, T!FetchTable(p) PROVE TablesInv'
    <2>1. /\ UNCHANGED << t_listing, t_table, t_listed, t_handles, t_kept, t_snap >>
          /\ \/ t_pc' = T!Rows(p) /\ t_pending' = t_table /\ UNCHANGED t_blocks
             \/ t_pc' = T!After(p) /\ t_blocks' = t_blocks \ {"table"}
      BY <1>6 DEF T!FetchTable
    <2> QED
      BY <1>5, <2>1, FetchedStep
  <1>7. ASSUME NEW p \in T!Protocols, T!TableEnds(p) PROVE TablesInv'
    BY <1>5, <1>7 DEF T!TableEnds
  <1> QED
    BY <1>2, <1>3, <1>4, <1>6, <1>7, ReportedStep, SortedStep

LEMMA TablesStep ==
  ASSUME TablesInv, T!Next
  PROVE  TablesInv'
  BY StartListing, ProcessStep, SocketStep DEF TablesInv, Unstarted

LEMMA Opposite ==
  ASSUME NEW m \in Nat, NEW n \in Nat, m <= n, NEW ix \in 1..m
  PROVE  (m - ix) + 1 \in 1..m /\ n - m + ((m - ix) + 1) = (n - ix) + 1 /\ ix \in 1..n
  OBVIOUS

(* A suffix, position by position. *)
LEMMA SuffixIs ==
  ASSUME NEW S, NEW s \in Seq(S), NEW r \in Seq(S), Len(s) <= Len(r),
         \A ix \in 1..Len(s) : s[ix] = r[Len(r) - Len(s) + ix]
  PROVE  T!IsSuffix(s, r)
  <1> DEFINE m == Len(s)
             n == Len(r)
             a == T!Reverse(s)
             b == T!Reverse(r)
  <1>1. m \in Nat /\ n \in Nat /\ m <= n
    OBVIOUS
  <1>2. /\ a = [ix \in 1..m |-> s[(m - ix) + 1]]
        /\ b = [ix \in 1..n |-> r[(n - ix) + 1]]
    BY DEF T!Reverse
  <1>3. a \in Seq(S) /\ Len(a) = m
    <2>1. a \in [1..m -> S]
      BY <1>1, <1>2
    <2> HIDE DEF m, n, a, b
    <2> QED
      BY <1>1, <2>1
  <1>4. b \in Seq(S) /\ Len(b) = n
    <2>1. b \in [1..n -> S]
      BY <1>1, <1>2
    <2> HIDE DEF m, n, a, b
    <2> QED
      BY <1>1, <2>1
  <1>5. ASSUME NEW ix \in 1..m PROVE a[ix] = b[ix]
    <2>1. (m - ix) + 1 \in 1..m /\ n - m + ((m - ix) + 1) = (n - ix) + 1 /\ ix \in 1..n
      BY <1>1, Opposite
    <2>2. a[ix] = s[(m - ix) + 1] /\ b[ix] = r[(n - ix) + 1]
      BY <1>2, <2>1
    <2> QED
      BY <2>1, <2>2
  <1> HIDE DEF a, b
  <1>6. SubSeq(a, 1, m) = SubSeq(b, 1, m)
    <2>1. SubSeq(a, 1, m) = [ix \in 1..m |-> a[ix]] /\ SubSeq(b, 1, m) = [ix \in 1..m |-> b[ix]]
      BY <1>1, <1>3, <1>4
    <2> QED
      BY <1>5, <2>1
  <1> QED
    BY <1>1, <1>3, <1>4, <1>6 DEF T!IsSuffix, T!IsPrefix, a, b

LEMMA TablesMeanListed ==
  ASSUME TablesInv
  PROVE  T!ProcessesListed
  <1> SUFFICES ASSUME t_pc = "process", t_pending = << >>
               PROVE  LET seen == IF t_listing = "enum" /\ Len(t_table) > Limit
                                  THEN 1..Limit ELSE 1..Len(t_table)
                      IN  /\ {t_listed[ix] : ix \in 1..Len(t_listed)} = {t_table[ix] : ix \in seen} \ t_refused
                          /\ \A ix, j \in 1..Len(t_listed) : ix < j => t_listed[ix] < t_listed[j]
    BY DEF T!ProcessesListed
  <1>1. ProcessesLooked /\ t_listing \in {"enum", "snapshot"}
    BY DEF TablesInv, Unstarted, SocketsHeld, SocketPcs
  <1>2. PICK k \in 0..Seen : Looked(k)
    BY <1>1 DEF ProcessesLooked, ProcessLoop
  <1>3. Limit \in Nat /\ t_table \in Seq(Nat) /\ Len(t_table) \in Nat
    BY <1>1, ProcessesAssumption DEF ProcessesLooked
  <1>4. Seen \in Nat /\ k = Seen
    <2>1. Len(t_pending) = 0 /\ Len(t_pending) = Seen - k
      BY <1>2 DEF Looked
    <2>2. Seen \in Nat
      BY <1>3 DEF Seen
    <2> QED
      BY <2>1, <2>2
  <1> DEFINE seen == IF t_listing = "enum" /\ Len(t_table) > Limit THEN 1..Limit ELSE 1..Len(t_table)
  <1>5. 1..Seen = seen
    BY DEF Seen
  <1>6. {t_listed[ix] : ix \in 1..Len(t_listed)} = {t_table[ix] : ix \in seen} \ t_refused
    BY <1>2, <1>4, <1>5 DEF Looked, Upto, Range1
  <1>7. \A ix, j \in 1..Len(t_listed) : ix < j => t_listed[ix] < t_listed[j]
    BY <1>2 DEF Looked, Ascending
  <1> QED
    BY <1>6, <1>7

LEMMA TablesMeanWhole ==
  ASSUME TablesInv
  PROVE  T!TablesAreWhole
  <1> SUFFICES ASSUME NEW p \in T!Protocols, t_pc = T!Rows(p)
               PROVE  /\ T!IsSuffix(t_pending, t_table)
                      /\ T!IsSuffix([ix \in 1..(Len(t_table) - Len(t_pending)) |-> T!Filled(p, t_table[ix])],
                                    t_listed)
    BY DEF T!TablesAreWhole
  <1>1. SocketsHeld /\ SocketsCopied
    BY DEF TablesInv, Unstarted, ProcessesHeld, ProcessLoop, T!Rows, T!Protocols
  <1>2. PICK k \in 0..Len(t_table) : Copied(p, k)
    BY <1>1 DEF SocketsCopied
  <1>3. /\ t_table \in Seq(Socks) /\ t_listed \in Seq(Socks) /\ t_pending \in Seq(Socks)
        /\ Len(t_pending) = Len(t_table) - k /\ k <= Len(t_listed)
    BY <1>1, <1>2 DEF SocketsCopied, SocketsHeld, Copied
  <1>4. Len(t_table) \in Nat /\ Len(t_listed) \in Nat /\ k \in Nat
    BY <1>3
  <1>5. Len(t_pending) <= Len(t_table) /\ Len(t_table) - Len(t_pending) = k
    BY <1>3, <1>4
  <1>6. \A ix \in 1..Len(t_pending) : t_pending[ix] = t_table[Len(t_table) - Len(t_pending) + ix]
    BY <1>2, <1>3, <1>5 DEF Copied
  <1>7. T!IsSuffix(t_pending, t_table)
    BY <1>3, <1>5, <1>6, SuffixIs
  <1> DEFINE f == [ix \in 1..k |-> T!Filled(p, t_table[ix])]
  <1>8. f \in Seq(Socks) /\ Len(f) = k
    <2>1. \A ix \in 1..k : t_table[ix] \in Socks
      BY <1>3, <1>4
    <2>2. \A ix \in 1..k : T!Filled(p, t_table[ix]) \in Socks
      BY <2>1, FilledIs
    <2>3. f \in [1..k -> Socks]
      BY <2>2
    <2> QED
      BY <1>4, <2>3
  <1>9. \A ix \in 1..k : f[ix] = t_listed[Len(t_listed) - k + ix]
    BY <1>2 DEF Copied
  <1> HIDE DEF f
  <1>10. T!IsSuffix(f, t_listed)
    BY <1>3, <1>8, <1>9, SuffixIs
  <1> QED
    BY <1>5, <1>7, <1>10 DEF f

LEMMA TablesMeanClosed ==
  ASSUME TablesInv
  PROVE  T!HandlesClosed
  <1>1. T!IsProcesses => \A a, b \in t_handles : a = b
    BY DEF TablesInv, T!IsProcesses, ProcessesHeld
  <1>2. t_pc = "done" => t_snap = FALSE /\ t_handles = {}
    BY DEF TablesInv, Unstarted, ProcessesHeld, SocketsHeld
  <1>3. t_pc = "done" /\ t_listing = "sockets" => SocketsHeld
    BY DEF TablesInv
  <1>4. SocketsHeld => KeptOwned /\ (t_pc = "done" => t_blocks = {})
    BY DEF SocketsHeld
  <1>5. KeptOwned =>
          /\ Len(t_kept) <= Len(t_listed)
          /\ \A n \in 1..Len(t_kept) :
               t_kept[n] \notin SystemPids /\ \E ix \in 1..Len(t_listed) : t_listed[ix].pid = t_kept[n]
    BY DEF KeptOwned
  <1>6. t_snap = FALSE => ~t_snap
    BY Zenon
  <1> QED
    BY <1>1, <1>2, <1>3, <1>4, <1>5, <1>6, Zenon DEF T!HandlesClosed

-----------------------------------------------------------------------------
(* What glob() finds. *)
Paths == [entry : Int, intact : BOOLEAN]

LEMMA DirectoriesAre ==
  ASSUME NEW s \in Directories
  PROVE  s \in Seq(G!Names)
  BY ListingsAssumption

EntriesAscend(paths) == \A ix, j \in 1..Len(paths) : ix < j => paths[ix].entry < paths[j].entry

(* The paths of the first d entries that pass the tests. *)
AcceptedOf(d) == {G!Path(n, TRUE) : n \in {ix \in 1..d : ~G!Skipped(g_args.names[ix])}}

Collected(d) == Range1(g_found) = AcceptedOf(d) /\ EntriesAscend(g_found)

FirstSkipped == G!Skipped(g_args.names[1])
Limited == G!Has("LIMIT")
FilePart == g_args.pattern.file_part = TRUE

(* The entries that the search has come past. *)
Passed == IF g_pc = "entry" THEN Len(g_args.names) - Len(g_rest) ELSE Len(g_args.names) - Len(g_rest) + 1

Searching ==
  /\ g_rest \in Seq(G!Names) /\ Len(g_rest) \in 1..Len(g_args.names)
  /\ \A ix \in 1..Len(g_rest) : g_rest[ix] = g_args.names[Len(g_args.names) - Len(g_rest) + ix]
  /\ FilePart => Collected(Passed)
  /\ ~Limited /\ FirstSkipped => Len(g_rest) = Len(g_args.names) /\ g_found = << >>
  /\ ~FirstSkipped /\ Passed > 0 => g_found # << >>

Searched ==
  /\ ~Limited /\ FirstSkipped => g_found = << >>
  /\ ~Limited /\ ~FirstSkipped => g_found # << >> /\ (FilePart => Collected(Len(g_args.names)))
  /\ g_pc = "nomatch" => g_found = << >>
  /\ g_pc = "done" /\ g_found # << >> =>
       /\ g_glob.paths = G!Ordered
       /\ g_result = IF Len(g_found) = G!maxMatches THEN "GLOB_NOSPACE" ELSE "GLOB_SUCCESS"

GlobTyped ==
  /\ g_pc \in {"none", "entry", "next", "build", "nomatch", "done", "freed"}
  /\ g_found \in Seq(Paths)
  /\ g_pc = "none" => g_found = << >> /\ g_failed = "no"
  /\ g_pc # "none" => /\ g_args.names \in Seq(G!Names) /\ g_args.limit \in Nat
                      /\ g_args.pattern.file_part \in BOOLEAN

LimitBound ==
  g_pc # "none" /\ Limited /\ g_args.limit > 0 =>
    Len(g_found) <= g_args.limit /\ (g_pc = "entry" => Len(g_found) < g_args.limit)

FindInv ==
  /\ GlobTyped /\ LimitBound
  /\ g_pc \in {"entry", "next"} => Searching
  /\ g_pc \in {"build", "nomatch", "done"} /\ g_failed = "no" /\ g_args.names # << >> => Searched

LEMMA FindInitially ==
  ASSUME G!Init
  PROVE  FindInv
  <1>1. << >> \in Seq(Paths)
    OBVIOUS
  <1> QED
    BY <1>1 DEF G!Init, FindInv, GlobTyped, LimitBound

(* The operators of the arguments, in a step that leaves them alone. *)
LEMMA ArgsKept ==
  ASSUME g_args' = g_args
  PROVE  /\ \A d : AcceptedOf(d)' = AcceptedOf(d)
         /\ \A n : G!Skipped(n)' <=> G!Skipped(n)
         /\ FirstSkipped' <=> FirstSkipped
         /\ Limited' <=> Limited
         /\ FilePart' <=> FilePart
         /\ G!maxMatches' = G!maxMatches
  BY DEF AcceptedOf, G!Skipped, G!Has, FirstSkipped, Limited, FilePart, G!maxMatches

LEMMA CallFinds ==
  ASSUME FindInv, NEW p \in G!Patterns, NEW flags \in Flags, NEW limit \in Limits,
         NEW names \in Directories, G!Call(p, flags, limit, names)
  PROVE  FindInv'
  <1>1. /\ g_pc = "none" /\ g_args' = [pattern |-> p, flags |-> flags, names |-> names, limit |-> limit]
        /\ g_found' = g_found /\ g_failed' = g_failed
        /\ names # << >> => g_pc' = "entry" /\ g_rest' = names
        /\ names = << >> => g_pc' \in {"done", "nomatch"}
    BY DEF G!Call
  <1>2. names \in Seq(G!Names) /\ p.file_part \in BOOLEAN /\ limit \in Nat
    BY DirectoriesAre, ListingsAssumption DEF G!Patterns
  <1>3. g_found' = << >> /\ g_args'.names = names /\ g_args'.limit = limit /\ g_args'.pattern = p
    BY <1>1 DEF FindInv, GlobTyped
  <1>4. GlobTyped'
    BY <1>1, <1>2, <1>3 DEF FindInv, GlobTyped
  <1>5. LimitBound'
    BY <1>2, <1>3 DEF LimitBound
  <1>6. g_pc' \in {"entry", "next"} => Searching'
    <2> SUFFICES ASSUME names # << >> PROVE Searching'
      BY <1>1
    <2>1. /\ g_pc' = "entry" /\ g_rest' = names /\ Len(names) \in Nat /\ Len(names) # 0
          /\ Len(names) - Len(names) = 0
      BY <1>1, <1>2
    <2>2. Passed' = 0
      BY <1>3, <2>1 DEF Passed
    <2>3. Collected(0)'
      BY <1>3 DEF Collected, Range1, AcceptedOf, EntriesAscend
    <2>4. \A ix \in 1..Len(names) : Len(names) - Len(names) + ix = ix
      BY <2>1
    <2> QED
      BY <1>2, <1>3, <2>1, <2>2, <2>3, <2>4 DEF Searching
  <1>7. g_pc' \in {"build", "nomatch", "done"} => g_args'.names = << >>
    BY <1>1, <1>3
  <1> QED
    BY <1>4, <1>5, <1>6, <1>7 DEF FindInv

(* The entry that is looked at. *)
LEMMA Current ==
  ASSUME FindInv, g_pc = "entry"
  PROVE  /\ Head(g_rest) = g_args.names[Passed + 1]
         /\ Passed \in Nat /\ Passed + 1 = Len(g_args.names) - Len(g_rest) + 1
         /\ AcceptedOf(Passed + 1) = IF G!Skipped(Head(g_rest)) THEN AcceptedOf(Passed)
                                     ELSE AcceptedOf(Passed) \cup {G!Path(Passed + 1, TRUE)}
  <1>1. Searching /\ g_args.names \in Seq(G!Names)
    BY DEF FindInv, GlobTyped
  <1>2. /\ g_rest \in Seq(G!Names) /\ Len(g_rest) \in Nat /\ Len(g_args.names) \in Nat
        /\ Len(g_rest) >= 1 /\ Len(g_rest) <= Len(g_args.names)
    BY <1>1 DEF Searching
  <1>3. Passed = Len(g_args.names) - Len(g_rest)
    BY DEF Passed
  <1>4. Passed \in Nat /\ 1 \in 1..Len(g_rest)
    BY <1>2, <1>3
  <1>5. Head(g_rest) = g_rest[1]
    BY <1>2
  <1>6. g_rest[1] = g_args.names[Passed + 1]
    BY <1>1, <1>3, <1>4 DEF Searching
  <1>7. 1..(Passed + 1) = (1..Passed) \cup {Passed + 1}
    BY <1>4
  <1>8. AcceptedOf(Passed + 1) = IF G!Skipped(Head(g_rest)) THEN AcceptedOf(Passed)
                                 ELSE AcceptedOf(Passed) \cup {G!Path(Passed + 1, TRUE)}
    <2>1. CASE G!Skipped(Head(g_rest))
      <3>1. {ix \in 1..(Passed + 1) : ~G!Skipped(g_args.names[ix])} = {ix \in 1..Passed : ~G!Skipped(g_args.names[ix])}
        BY <1>5, <1>6, <1>7, <2>1
      <3> QED
        BY <2>1, <3>1 DEF AcceptedOf
    <2>2. CASE ~G!Skipped(Head(g_rest))
      <3>1. {ix \in 1..(Passed + 1) : ~G!Skipped(g_args.names[ix])} =
              {ix \in 1..Passed : ~G!Skipped(g_args.names[ix])} \cup {Passed + 1}
        BY <1>5, <1>6, <1>7, <2>2
      <3> QED
        BY <2>2, <3>1 DEF AcceptedOf
    <2> QED
      BY <2>1, <2>2
  <1> QED
    BY <1>3, <1>4, <1>5, <1>6, <1>8

LEMMA SkipFinds ==
  ASSUME FindInv, G!Skip
  PROVE  FindInv'
  <1>1. /\ g_pc = "entry" /\ G!Skipped(Head(g_rest)) /\ g_pc' = "next"
        /\ UNCHANGED << g_args, g_rest, g_found, g_glob, g_result, g_failed >>
    BY DEF G!Skip
  <1>2. Searching /\ GlobTyped /\ LimitBound
    BY <1>1 DEF FindInv
  <1>3. Passed' = Passed + 1
    BY <1>1, Current DEF Passed
  <1>4. AcceptedOf(Passed + 1) = AcceptedOf(Passed)
    BY <1>1, Current
  <1>5. (FilePart => Collected(Passed))'
    <2>1. Range1(g_found)' = Range1(g_found) /\ (EntriesAscend(g_found)' <=> EntriesAscend(g_found))
      BY <1>1 DEF Range1, EntriesAscend
    <2>2. AcceptedOf(Passed)' = AcceptedOf(Passed)
      BY <1>1, <1>3, <1>4 DEF AcceptedOf, G!Skipped, G!Has
    <2> QED
      BY <1>1, <1>2, <2>1, <2>2, ArgsKept DEF Searching, Collected
  <1>6. Passed = 0 \/ g_found # << >> \/ FirstSkipped
    BY <1>2, <1>1, Current DEF Searching
  <1>7. ~FirstSkipped => Passed # 0
    BY <1>1, Current DEF FirstSkipped
  <1>8. Searching'
    BY <1>1, <1>2, <1>5, <1>6, <1>7, ArgsKept DEF Searching
  <1>9. GlobTyped'
    BY <1>1, <1>2 DEF GlobTyped
  <1>10. LimitBound'
    BY <1>1, <1>2, ArgsKept DEF LimitBound
  <1> QED
    BY <1>1, <1>8, <1>9, <1>10 DEF FindInv

LEMMA TakeFinds ==
  ASSUME FindInv, G!Take
  PROVE  FindInv'
  <1> DEFINE N == Len(g_args.names)
             L0 == Len(g_found)
  <1>1. /\ g_pc = "entry" /\ ~G!Skipped(Head(g_rest)) /\ g_pc' = "next"
        /\ UNCHANGED << g_args, g_rest, g_glob, g_result, g_failed >>
    BY DEF G!Take
  <1>2. PICK intact \in {TRUE, g_args.pattern.file_part} :
          g_found' = Append(g_found, G!Path(N - Len(g_rest) + 1, intact))
    BY DEF G!Take
  <1>3. Searching /\ GlobTyped /\ LimitBound
    BY <1>1 DEF FindInv
  <1>4. /\ Passed \in Nat /\ Passed + 1 = N - Len(g_rest) + 1
        /\ AcceptedOf(Passed + 1) = AcceptedOf(Passed) \cup {G!Path(Passed + 1, TRUE)}
    BY <1>1, Current
  <1>5. intact \in BOOLEAN /\ g_found \in Seq(Paths) /\ L0 \in Nat
    <2>1. g_args.pattern.file_part \in BOOLEAN /\ g_found \in Seq(Paths)
      BY <1>1, <1>3 DEF GlobTyped
    <2>2. L0 \in Nat
      BY <2>1
    <2> QED
      BY <2>1, <2>2
  <1> DEFINE x == G!Path(Passed + 1, intact)
  <1>6. x \in Paths /\ x.entry = Passed + 1
    BY <1>4, <1>5 DEF Paths, G!Path
  <1>7. g_found' = Append(g_found, x)
    BY <1>2, <1>4
  <1> HIDE DEF x
  <1>8. /\ g_found' \in Seq(Paths) /\ Len(g_found') = L0 + 1 /\ g_found' # << >>
        /\ \A ix \in 1..L0 : g_found'[ix] = g_found[ix]
        /\ g_found'[L0 + 1] = x
    BY <1>5, <1>6, <1>7
  <1>9. Passed' = Passed + 1
    BY <1>1, <1>4 DEF Passed
  <1>10. FilePart => Collected(Passed)'
    <2> SUFFICES ASSUME FilePart PROVE Collected(Passed)'
      OBVIOUS
    <2>1. Range1(g_found) = AcceptedOf(Passed) /\ EntriesAscend(g_found)
      BY <1>3 DEF Searching, Collected
    <2>2. x = G!Path(Passed + 1, TRUE)
      BY <1>2 DEF x, FilePart
    <2>3. Range1(g_found') = Range1(g_found) \cup {x}
      <3>1. 1..(L0 + 1) = (1..L0) \cup {L0 + 1}
        BY <1>5
      <3> QED
        BY <1>8, <3>1 DEF Range1
    <2>4. AcceptedOf(Passed)' = AcceptedOf(Passed + 1)
      BY <1>1, <1>9 DEF AcceptedOf, G!Skipped, G!Has
    <2>5. \A ix \in 1..L0 : g_found[ix].entry \in Int /\ g_found[ix].entry < Passed + 1
      <3> TAKE ix \in 1..L0
      <3>1. g_found[ix] \in AcceptedOf(Passed)
        BY <2>1 DEF Range1
      <3>2. PICK n \in 1..Passed : g_found[ix] = G!Path(n, TRUE)
        BY <3>1 DEF AcceptedOf
      <3>3. g_found[ix].entry = n
        BY <3>2 DEF G!Path
      <3>4. Passed \in Nat
        BY <1>4
      <3>5. n \in Int /\ n < Passed + 1
        BY <3>4
      <3> QED
        BY <3>3, <3>5
    <2>6. EntriesAscend(g_found')
      <3> SUFFICES ASSUME NEW ix \in 1..(L0 + 1), NEW j \in 1..(L0 + 1), ix < j
                   PROVE  g_found'[ix].entry < g_found'[j].entry
        BY <1>8 DEF EntriesAscend
      <3>1. CASE j = L0 + 1
        <4>1. ix \in 1..L0
          BY <1>5, <3>1
        <4> QED
          BY <1>6, <1>8, <2>5, <3>1, <4>1
      <3>2. CASE j # L0 + 1
        <4>1. ix \in 1..L0 /\ j \in 1..L0
          BY <1>5, <3>2
        <4> QED
          BY <1>8, <2>1, <4>1 DEF EntriesAscend
      <3> QED
        BY <3>1, <3>2
    <2> QED
      BY <1>4, <2>1, <2>2, <2>3, <2>4, <2>6 DEF Collected
  <1>11. FirstSkipped => Passed # 0
    BY <1>1, Current DEF FirstSkipped
  <1>12. ~(~Limited /\ FirstSkipped)
    <2>1. Len(g_rest) = N => Passed = 0
      BY <1>1, <1>4 DEF Passed
    <2> QED
      BY <1>3, <1>11, <2>1 DEF Searching
  <1>13. Searching'
    BY <1>1, <1>3, <1>8, <1>10, <1>12, ArgsKept DEF Searching
  <1>14. GlobTyped'
    BY <1>1, <1>3, <1>8 DEF GlobTyped
  <1>15. LimitBound'
    <2>1. g_args.limit \in Nat
      BY <1>1, <1>3 DEF GlobTyped
    <2>2. Limited /\ g_args.limit > 0 => L0 < g_args.limit
      BY <1>1, <1>3 DEF LimitBound
    <2>3. Limited /\ g_args.limit > 0 => L0 + 1 <= g_args.limit
      BY <1>5, <2>1, <2>2
    <2> QED
      BY <1>1, <1>8, <2>3, ArgsKept DEF LimitBound
  <1> QED
    BY <1>1, <1>13, <1>14, <1>15 DEF FindInv

LEMMA NextFinds ==
  ASSUME FindInv, G!NextEntry
  PROVE  FindInv'
  <1> DEFINE N == Len(g_args.names)
             R == Len(g_rest)
  <1>1. /\ g_pc = "next" /\ UNCHANGED << g_args, g_found, g_glob, g_result, g_failed >>
        /\ \/ G!LoopsOn /\ g_pc' = "entry" /\ g_rest' = Tail(g_rest)
           \/ ~G!LoopsOn /\ g_pc' = "build"
    BY DEF G!NextEntry
  <1>2. Searching /\ GlobTyped /\ LimitBound
    BY <1>1 DEF FindInv
  <1>3. /\ g_args.names \in Seq(G!Names) /\ g_args.limit \in Nat /\ g_found \in Seq(Paths)
        /\ g_rest \in Seq(G!Names)
    BY <1>1, <1>2 DEF GlobTyped, Searching
  <1>4. N \in Nat /\ R \in 1..N /\ Len(g_found) \in Nat
    BY <1>2, <1>3 DEF Searching
  <1>5. Passed = N - R + 1
    BY <1>1 DEF Passed
  <1>6. GlobTyped'
    BY <1>1, <1>2 DEF GlobTyped
  <1>7. G!maxMatches = IF Limited THEN g_args.limit ELSE 0
    BY DEF G!maxMatches, Limited
  <1>8. CASE G!LoopsOn /\ g_pc' = "entry" /\ g_rest' = Tail(g_rest)
    <2>1. Tail(g_rest) # << >> /\ Len(g_found) # G!maxMatches
      BY <1>8 DEF G!LoopsOn
    <2>2. /\ g_rest' \in Seq(G!Names) /\ Len(g_rest') = R - 1 /\ R - 1 \in 1..N
          /\ \A ix \in 1..(R - 1) : g_rest'[ix] = g_rest[ix + 1]
      <3>1. g_rest # << >>
        BY <1>3, <1>4
      <3>2. /\ Tail(g_rest) \in Seq(G!Names) /\ Len(Tail(g_rest)) = R - 1
            /\ \A ix \in 1..(R - 1) : Tail(g_rest)[ix] = g_rest[ix + 1]
        BY <1>3, <3>1
      <3>3. Len(Tail(g_rest)) # 0
        BY <2>1, <3>2
      <3>4. R - 1 \in 1..N
        BY <1>4, <3>2, <3>3
      <3> QED
        BY <1>8, <3>2, <3>4
    <2>3. \A ix \in 1..(R - 1) : g_rest'[ix] = g_args.names[N - (R - 1) + ix]
      <3> TAKE ix \in 1..(R - 1)
      <3>1. ix + 1 \in 1..R /\ N - R + (ix + 1) = N - (R - 1) + ix
        <4>1. N \in Int /\ R \in Int /\ ix \in Int /\ 1 <= ix /\ ix <= R - 1
          BY <1>4
        <4> HIDE DEF N, R
        <4>2. ix + 1 \in 1..R
          BY <4>1
        <4>3. N - R + (ix + 1) = N - (R - 1) + ix
          BY <4>1
        <4> QED
          BY <4>2, <4>3
      <3>2. g_rest[ix + 1] = g_args.names[N - R + (ix + 1)]
        BY <1>2, <3>1 DEF Searching
      <3> QED
        BY <2>2, <3>1, <3>2
    <2>4. Passed' = Passed
      <3>1. N - (R - 1) = N - R + 1
        BY <1>4
      <3> QED
        BY <1>1, <1>5, <1>8, <2>2, <3>1 DEF Passed
    <2>5. (FilePart => Collected(Passed))'
      <3>1. AcceptedOf(Passed)' = AcceptedOf(Passed)
        BY <1>1, <2>4 DEF AcceptedOf, G!Skipped, G!Has
      <3> QED
        BY <1>1, <1>2, <3>1, ArgsKept DEF Searching, Collected, Range1, EntriesAscend
    <2>6. ~(~Limited /\ FirstSkipped)
      <3>1. g_found = << >> => Len(g_found) = 0
        OBVIOUS
      <3> QED
        BY <1>2, <1>7, <2>1, <3>1 DEF Searching
    <2>7. Searching'
      BY <1>1, <1>2, <2>2, <2>3, <2>4, <2>5, <2>6, ArgsKept DEF Searching
    <2>8. LimitBound'
      BY <1>1, <1>2, <1>3, <1>4, <1>7, <2>1, ArgsKept DEF LimitBound
    <2> QED
      BY <1>6, <1>8, <2>7, <2>8 DEF FindInv
  <1>9. CASE ~G!LoopsOn /\ g_pc' = "build"
    <2>1. LimitBound'
      BY <1>1, <1>2, <1>9, ArgsKept DEF LimitBound
    <2>2. ~Limited /\ ~FirstSkipped => R = 1 /\ g_found # << >>
      <3> SUFFICES ASSUME ~Limited, ~FirstSkipped PROVE R = 1 /\ g_found # << >>
        OBVIOUS
      <3>1. g_found # << >>
        BY <1>2, <1>4, <1>5 DEF Searching
      <3>2. Len(g_found) # 0
        BY <1>3, <3>1
      <3>3. Tail(g_rest) = << >>
        BY <1>7, <1>9, <3>2 DEF G!LoopsOn
      <3>4. g_rest # << >> /\ Len(Tail(g_rest)) = R - 1
        BY <1>3, <1>4
      <3>5. R = 1
        BY <1>4, <3>3, <3>4
      <3> QED
        BY <3>1, <3>5
    <2>3. R = 1 => Passed = N
      BY <1>4, <1>5
    <2>4. AcceptedOf(N)' = AcceptedOf(N) /\ g_args'.names = g_args.names
      BY <1>1, ArgsKept
    <2>5. (~Limited /\ ~FirstSkipped => g_found # << >> /\ (FilePart => Collected(Len(g_args.names))))'
      BY <1>1, <1>2, <2>2, <2>3, <2>4, ArgsKept DEF Searching, Collected, Range1, EntriesAscend
    <2>6. (~Limited /\ FirstSkipped => g_found = << >>)'
      BY <1>1, <1>2, ArgsKept DEF Searching
    <2>7. Searched'
      BY <1>9, <2>5, <2>6 DEF Searched
    <2> QED
      BY <1>6, <1>9, <2>1, <2>7 DEF FindInv
  <1> QED
    BY <1>1, <1>8, <1>9

LEMMA BuildFinds ==
  ASSUME FindInv, G!Build
  PROVE  FindInv'
  <1>1. /\ g_pc = "build" /\ UNCHANGED << g_args, g_rest, g_found, g_failed >>
        /\ g_glob'.paths = G!Ordered
        /\ \/ g_found = << >> /\ g_pc' = "nomatch"
           \/ /\ g_found # << >> /\ g_pc' = "done"
              /\ g_result' = IF Len(g_found) = G!maxMatches THEN "GLOB_NOSPACE" ELSE "GLOB_SUCCESS"
    BY DEF G!Build
  <1>2. GlobTyped /\ LimitBound
    BY DEF FindInv
  <1>3. GlobTyped'
    BY <1>1, <1>2 DEF GlobTyped
  <1>4. LimitBound'
    BY <1>1, <1>2, ArgsKept DEF LimitBound
  <1>5. g_failed' = "no" /\ g_args'.names # << >> => Searched'
    <2> SUFFICES ASSUME g_failed' = "no", g_args'.names # << >> PROVE Searched'
      OBVIOUS
    <2>1. Searched
      BY <1>1 DEF FindInv
    <2>2. G!Ordered' = G!Ordered
      BY <1>1 DEF G!Ordered, G!Has
    <2>3. Collected(Len(g_args.names))' <=> Collected(Len(g_args.names))
      BY <1>1 DEF Collected, Range1, EntriesAscend, AcceptedOf, G!Skipped, G!Has
    <2> QED
      BY <1>1, <2>1, <2>2, <2>3, ArgsKept DEF Searched
  <1> QED
    BY <1>1, <1>3, <1>4, <1>5 DEF FindInv

(* A call after the search that leaves the paths alone, or fails. *)
LEMMA AfterSearch ==
  ASSUME FindInv, UNCHANGED << g_args, g_rest, g_found >>,
         \/ g_pc = "entry" /\ g_failed' = "entry" /\ g_pc' \in {"nomatch", "done"}
         \/ g_pc = "build" /\ g_failed' = "build" /\ g_pc' \in {"nomatch", "done"}
         \/ g_pc = "nomatch" /\ g_failed' \in {g_failed, "nocheck"} /\ g_pc' = "done"
         \/ g_pc = "done" /\ g_failed' = g_failed /\ g_pc' = "freed"
  PROVE  FindInv'
  <1>1. GlobTyped /\ LimitBound
    BY DEF FindInv
  <1>2. GlobTyped'
    BY <1>1 DEF GlobTyped
  <1>3. LimitBound'
    BY <1>1, ArgsKept DEF LimitBound
  <1>4. g_pc' \in {"build", "nomatch", "done"} /\ g_failed' = "no" /\ g_args'.names # << >> => Searched'
    <2> SUFFICES ASSUME g_pc' \in {"build", "nomatch", "done"}, g_failed' = "no", g_args'.names # << >>
                 PROVE  Searched'
      OBVIOUS
    <2>1. g_pc = "nomatch" /\ g_pc' = "done" /\ Searched
      BY DEF FindInv
    <2>2. g_found' = << >>
      BY <2>1 DEF Searched
    <2>3. ~(~Limited /\ ~FirstSkipped)
      BY <2>1, <2>2 DEF Searched
    <2> QED
      BY <2>1, <2>2, <2>3, ArgsKept DEF Searched
  <1> QED
    BY <1>2, <1>3, <1>4 DEF FindInv

LEMMA FindStep ==
  ASSUME FindInv, G!Next
  PROVE  FindInv'
  <1>1. CASE G!TakeFails
    BY <1>1, AfterSearch DEF G!TakeFails
  <1>2. CASE G!BuildFails
    BY <1>2, AfterSearch DEF G!BuildFails
  <1>3. CASE G!NoMatch
    BY <1>3, AfterSearch DEF G!NoMatch
  <1>4. CASE G!NoCheck
    BY <1>4, AfterSearch DEF G!NoCheck
  <1>5. CASE G!NoCheckFails
    BY <1>5, AfterSearch DEF G!NoCheckFails
  <1>6. CASE G!globfree
    BY <1>6, AfterSearch DEF G!globfree
  <1> QED
    BY <1>1, <1>2, <1>3, <1>4, <1>5, <1>6, CallFinds, SkipFinds, TakeFinds, NextFinds, BuildFinds
    DEF G!Next

LEMMA ReversedTwice ==
  ASSUME NEW S, NEW s \in Seq(S)
  PROVE  G!Reverse(G!Reverse(s)) = s
  <1> DEFINE n == Len(s)
             r == G!Reverse(s)
  <1>1. n \in Nat /\ s = [ix \in 1..n |-> s[ix]]
    OBVIOUS
  <1>2. r = [ix \in 1..n |-> s[(n - ix) + 1]]
    BY DEF G!Reverse
  <1>3. r \in [1..n -> S]
    BY <1>1, <1>2
  <1>4. Len(r) = n
    <2> HIDE DEF n, r
    <2> QED
      BY <1>1, <1>3
  <1> HIDE DEF r
  <1>5. G!Reverse(r) = [ix \in 1..n |-> r[(n - ix) + 1]]
    BY <1>4 DEF G!Reverse
  <1>6. ASSUME NEW ix \in 1..n PROVE r[(n - ix) + 1] = s[ix]
    <2>1. (n - ix) + 1 \in 1..n /\ (n - ((n - ix) + 1)) + 1 = ix
      BY <1>1, Opposite
    <2> QED
      BY <1>2, <2>1
  <1> QED
    BY <1>1, <1>5, <1>6 DEF r

LEMMA FindMeans ==
  ASSUME FindInv
  PROVE  G!FindsAll /\ G!LimitKept
  <1>1. GlobTyped /\ LimitBound
    BY DEF FindInv
  <1>2. G!FindsAll
    <2> SUFFICES ASSUME g_pc = "done", g_failed = "no", ~G!Has("LIMIT"), g_args.pattern.file_part,
                        g_args.names # << >>, ~G!Skipped(g_args.names[1])
                 PROVE  /\ g_result = "GLOB_SUCCESS"
                        /\ G!InOrder(IF G!Has("NOSORT") THEN G!Reverse(g_glob.paths) ELSE g_glob.paths)
      BY DEF G!FindsAll
    <2>1. Searched
      BY DEF FindInv
    <2>2. FilePart
      <3>1. g_args.pattern.file_part \in BOOLEAN
        BY <1>1 DEF GlobTyped
      <3> QED
        BY <3>1, Zenon DEF FilePart
    <2>3. g_found # << >> /\ Collected(Len(g_args.names))
      BY <2>1, <2>2 DEF Searched, Limited, FirstSkipped
    <2>4. g_found \in Seq(Paths) /\ Len(g_found) # 0
      BY <1>1, <2>3 DEF GlobTyped
    <2>5. G!maxMatches = 0
      BY DEF G!maxMatches
    <2>6. g_result = "GLOB_SUCCESS" /\ g_glob.paths = G!Ordered
      BY <2>1, <2>3, <2>4, <2>5 DEF Searched
    <2>7. (IF G!Has("NOSORT") THEN G!Reverse(g_glob.paths) ELSE g_glob.paths) = g_found
      BY <2>4, <2>6, ReversedTwice DEF G!Ordered
    <2>8. G!InOrder(g_found)
      BY <2>3 DEF G!InOrder, G!Accepted, Collected, Range1, EntriesAscend, AcceptedOf
    <2> QED
      BY <2>6, <2>7, <2>8
  <1>3. G!LimitKept
    <2> SUFFICES ASSUME g_pc = "done", G!Has("LIMIT"), g_args.limit > 0, g_args.names # << >>
                 PROVE  /\ Len(g_found) <= g_args.limit
                        /\ g_failed = "no" /\ g_found # << >> =>
                             (g_result = "GLOB_NOSPACE") = (Len(g_found) = g_args.limit)
      BY DEF G!LimitKept
    <2>1. Len(g_found) <= g_args.limit
      BY <1>1 DEF LimitBound, Limited
    <2>2. G!maxMatches = g_args.limit
      BY DEF G!maxMatches
    <2>3. g_failed = "no" /\ g_found # << >> =>
            g_result = IF Len(g_found) = g_args.limit THEN "GLOB_NOSPACE" ELSE "GLOB_SUCCESS"
      BY <2>2 DEF FindInv, Searched
    <2>4. ASSUME g_failed = "no", g_found # << >>
          PROVE  (g_result = "GLOB_NOSPACE") = (Len(g_found) = g_args.limit)
      <3>1. (g_result = "GLOB_NOSPACE") <=> (Len(g_found) = g_args.limit)
        BY <2>3, <2>4
      <3> QED
        BY <3>1, Zenon
    <2> QED
      BY <2>1, <2>4
  <1> QED
    BY <1>2, <1>3

ListingsInv == RowsInv /\ FindInv /\ TablesInv

LEMMA ListingsStep ==
  ASSUME ListingsInv, [ToolsNext]_<< encapVars, gvars, wvars, tvars, lvars >>
  PROVE  ListingsInv'
  <1> USE DEF ListingsInv
  <1>1. /\ W!Next \/ UNCHANGED wvars
        /\ G!Next \/ UNCHANGED gvars
        /\ T!Next \/ UNCHANGED tvars
    BY Zenon DEF ToolsNext
  <1>2. RowsInv'
    <2>1. CASE UNCHANGED wvars
      BY <2>1 DEF wvars, RowsInv
    <2> QED
      BY <1>1, <2>1, RowsStep
  <1>3. FindInv'
    <2>1. CASE UNCHANGED gvars
      <3>1. /\ g_args' = g_args /\ UNCHANGED << g_pc, g_rest, g_found, g_glob, g_result, g_failed >>
        BY <2>1 DEF gvars
      <3>2. \A d : Collected(d)' <=> Collected(d)
        BY <3>1 DEF Collected, Range1, EntriesAscend, AcceptedOf, G!Skipped, G!Has
      <3>3. Passed' = Passed /\ G!Ordered' = G!Ordered
        BY <3>1 DEF Passed, G!Ordered, G!Has
      <3>4. (Searching => Searching') /\ (Searched => Searched')
        BY <3>1, <3>2, <3>3, ArgsKept DEF Searching, Searched
      <3>5. GlobTyped' /\ LimitBound'
        BY <3>1, ArgsKept DEF FindInv, GlobTyped, LimitBound
      <3> QED
        BY <3>1, <3>4, <3>5 DEF FindInv
    <2> QED
      BY <1>1, <2>1, FindStep
  <1>4. TablesInv'
    <2>1. CASE UNCHANGED tvars
      <3>1. UNCHANGED << t_pc, t_listing, t_table, t_pending, t_listed, t_handles, t_kept, t_snap,
                       t_blocks, t_refused >>
        BY <2>1 DEF tvars
      <3>2. (ProcessesHeld => ProcessesHeld') /\ (SocketsHeld => SocketsHeld') /\ (Unstarted => Unstarted')
        BY <3>1 DEF ProcessesHeld, SocketsHeld, KeptOwned, Unstarted
      <3>3. Seen' = Seen /\ \A k : Upto(k)' = Upto(k)
        BY <3>1 DEF Seen, Upto
      <3>4. ProcessesLooked => ProcessesLooked'
        BY <3>1, <3>3 DEF ProcessesLooked, Looked
      <3>5. SocketsCopied => SocketsCopied'
        BY <3>1 DEF SocketsCopied, Copied
      <3> QED
        BY <3>1, <3>2, <3>4, <3>5 DEF TablesInv
    <2> QED
      BY <1>1, <2>1, TablesStep
  <1> QED
    BY <1>2, <1>3, <1>4

(* The listings of the Windows application are complete: whatever calls    *)
(* fail, for every set of directories, flags, limits, processes and socket *)
(* tables, glob() finds every entry that passes its tests, in order, if    *)
(* the first does, or as many as its limit says, every row of a query is   *)
(* in the result, a process is missing only if a query refused it or the   *)
(* first array was full, sockets are added a whole table at a time, and    *)
(* all handles are closed but one, at most, for each socket.               *)
THEOREM ListingsRight ==
  ToolsSpec => []ListingsComplete
  <1>1. ToolsInit => ListingsInv
    BY RowsInitially, FindInitially, TablesInitially DEF ToolsInit, ListingsInv
  <1>2. ListingsInv => ListingsComplete
    BY RowsMean, FindMeans, TablesMeanListed, TablesMeanWhole, TablesMeanClosed
    DEF ListingsInv, ListingsComplete
  <1> QED
    BY <1>1, <1>2, ListingsStep, PTL DEF ToolsSpec
=============================================================================
