----------------------------- MODULE AresLookup -----------------------------
(***************************************************************************)
(* The DNS lookups of c-ares/*.c and c-ares/cares_kqueue.cc.  Each program *)
(* opens a c-ares channel, asks for one or more names in one or more       *)
(* stages, waits for the answers after each stage, and closes the channel. *)
(* All but cares_kqueue wait with select() on what ares_fds() names;       *)
(* cares_kqueue waits with kevent() on the descriptors that c-ares reports *)
(* to sock_cb.                                                             *)
(*                                                                         *)
(* c-ares itself is external: "lib" is what the programs can see of a      *)
(* channel with one server.  A getaddrinfo or gethostbyname is one query,  *)
(* and a wait that returns for no reason is a stuttering step.             *)
(***************************************************************************)
EXTENDS Integers, Sequences, FiniteSets, Functions

CONSTANTS
  DefaultTries,  \* the tries of a channel that does not set ARES_OPT_TRIES
  Fds,           \* the numbers that socket() returns, lowest first
  BAD,           \* ARES_SOCKET_BAD
  MaxInbox       \* bound: answers that wait to be read at a time

(* A channel tries at least once, and a UDP and a TCP socket can be open.  *)
ASSUME AresAssumption ==
  /\ DefaultTries \in Nat \ {0}
  /\ Fds \subseteq Nat /\ BAD \notin Fds
  /\ \A s \in Fds \cup {BAD} : Fds \ {s} # {}

VARIABLES
  prog,    \* the program that runs, or "none"
  pc,      \* the call main() is at
  stage,   \* the stage main() is at
  lib,     \* the channel
  called,  \* for every query how often its callback ran
  held,    \* what main() and the callbacks have to give back
  kq       \* the sets of cares_kqueue.cc, the kernel's filters, the events

vars == << prog, pc, stage, lib, called, held, kq >>

-----------------------------------------------------------------------------
(* The programs.  A stage says whether its query is made by                *)
(* ares_create_query, into a buffer that main() frees, and which kind of   *)
(* callback each call of the stage names.                                  *)

Select(tries, stages) ==
  [kqueue |-> FALSE, stayopen |-> TRUE, usevc |-> FALSE, tries |-> tries, stages |-> stages]
Asks(calls) == [create |-> FALSE, calls |-> calls]
Creates(callback) == [create |-> TRUE, calls |-> << callback >>]

cares_getaddrinfo == Select(DefaultTries, << Asks(<< "addrinfo" >>) >>)
cares_gethostbyaddr == Select(DefaultTries, << Asks(<< "host" >>) >>)
cares_gethostbyname == Select(DefaultTries, << Asks(<< "host", "host" >>), Asks(<< "host" >>) >>)
cares_hostfile ==
  Select(DefaultTries, << Asks(<< "host", "host", "addrinfo", "host" >>), Creates("reply") >>)
cares_mkquery == Select(DefaultTries, << Creates("reply") >>)
cares_query == Select(DefaultTries, << Asks(<< "reply" >>) >>)
cares_timeouts == Select(1, << Asks(<< "host" >>) >>)
cares_ttl == Select(DefaultTries, << Creates("ttl"), Creates("ttl") >>)
cares_apple_tcpbug ==
  [Select(DefaultTries, << Creates("reply") >>) EXCEPT !.stayopen = FALSE, !.usevc = TRUE]
cares_kqueue ==
  [Select(2, << Creates("reply") >>) EXCEPT !.stayopen = FALSE, !.kqueue = TRUE]

Programs ==
  [getaddrinfo |-> cares_getaddrinfo, gethostbyaddr |-> cares_gethostbyaddr,
   gethostbyname |-> cares_gethostbyname, hostfile |-> cares_hostfile,
   mkquery |-> cares_mkquery, query |-> cares_query, timeouts |-> cares_timeouts,
   ttl |-> cares_ttl, apple_tcpbug |-> cares_apple_tcpbug, kqueue |-> cares_kqueue]

Main == Programs[prog]
QueriesOf(s) == {s} \X DOMAIN Main.stages[s].calls
AllQueries == UNION {QueriesOf(s) : s \in DOMAIN Main.stages}

-----------------------------------------------------------------------------
(* The callbacks: what one is given or allocates, and what it frees.  A    *)
(* reply is "good" or goes wrong where get_ttl or the parser first looks.  *)

Replies ==
  {"good", "no_question", "short_question", "no_answer", "short_answer", "wrong_record"}

Allocates(object, when) == IF when THEN {object} ELSE {}

(* The host belongs to c-ares. *)
HostCallback(status, buf) == [gets |-> {}, frees |-> {}]

(* The result is the callback's, which frees it whatever the status. *)
AddrinfoCallback(status, buf) ==
  [gets |-> Allocates("addrinfo", status = "ARES_SUCCESS"), frees |-> {"addrinfo"}]

(* It returns early if there is no reply or the reply cannot be parsed. *)
ReplyCallback(status, buf) ==
  LET parsed == status = "ARES_SUCCESS" /\ buf = "good"
  IN [gets |-> Allocates("host", parsed), frees |-> Allocates("host", parsed)]

(* A name is expanded for the question, another for the answer.  Returning *)
(* early because the reply is too short leaves the name just expanded.     *)
get_ttl(buf) ==
  [status |-> IF buf \in {"good", "wrong_record"} THEN "ARES_SUCCESS" ELSE "ARES_EBADRESP",
   gets |-> Allocates("question", buf # "no_question")
            \cup Allocates("answer", buf \in {"short_answer", "good", "wrong_record"}),
   frees |-> Allocates("question", buf \notin {"no_question", "short_question"})
             \cup Allocates("answer", buf \in {"good", "wrong_record"})]

TtlCallback(status, buf) ==
  IF status # "ARES_SUCCESS" THEN [gets |-> {}, frees |-> {}]
  ELSE LET parse == ReplyCallback(get_ttl(buf).status, buf)
       IN [gets |-> get_ttl(buf).gets \cup parse.gets,
           frees |-> get_ttl(buf).frees \cup parse.frees]

Callback(q, status, buf) ==
  LET callback == Main.stages[q[1]].calls[q[2]]
  IN CASE callback = "host" -> HostCallback(status, buf)
       [] callback = "addrinfo" -> AddrinfoCallback(status, buf)
       [] callback = "reply" -> ReplyCallback(status, buf)
       [] callback = "ttl" -> TtlCallback(status, buf)

(* What c-ares calls it with. *)
Failed == << "ARES_ENOTFOUND", "none" >>
Results(q) ==
  {"ARES_SUCCESS"} \X CASE Main.stages[q[1]].calls[q[2]] = "ttl" -> Replies
                        [] Main.stages[q[1]].calls[q[2]] = "reply" -> {"good", "wrong_record"}
                        [] OTHER -> {"good"}

Leaves(q, result) ==
  Callback(q, result[1], result[2]).gets \ Callback(q, result[1], result[2]).frees

-----------------------------------------------------------------------------
(* The channel: c-ares as the programs see it. *)

Kinds == {"udp", "tcp"}
Filters == {"read", "write"}

ClosedChannel ==
  [pending |-> << >>, sock |-> [k \in Kinds |-> BAD], unsent |-> FALSE,
   inbox |-> [k \in Kinds |-> {}], eof |-> FALSE]

Pending(l) == DOMAIN l.pending
OpenFds(l) == {l.sock[k] : k \in Kinds} \ {BAD}

(* Without STAYOPEN the sockets go with the last query. *)
Ended(l, Q) ==
  LET left == [q \in Pending(l) \ Q |-> l.pending[q]]
  IN IF left = << >> /\ ~Main.stayopen THEN ClosedChannel ELSE [l EXCEPT !.pending = left]

Opened(l, kind) ==
  IF l.sock[kind] # BAD THEN l
  ELSE [l EXCEPT !.sock[kind] =
          CHOOSE s \in Fds \ OpenFds(l) : \A t \in Fds \ OpenFds(l) : s <= t]

(* The queries Q are sent; tries[q] is what q has left. *)
Sent(l, Q, kind, tries) ==
  IF Q = {} THEN l
  ELSE [Opened(l, kind) EXCEPT
          !.pending = [q \in Q \cup Pending(l) |->
                         IF q \in Q THEN [via |-> kind, tries |-> tries[q]] ELSE @[q]],
          !.unsent = @ \/ kind = "tcp"]

(* The queries of Q have used a try up: sent again, or given up. *)
Exhausted(l, Q) == {q \in Q : l.pending[q].tries = 1}
Retried(l, old, Q, kind) ==
  Sent(l, {q \in Q \ Exhausted(old, Q) : old.pending[q].via = kind}, kind,
       [q \in Q |-> old.pending[q].tries - 1])
TriedAgain(l, old, Q) ==
  Ended(Retried(Retried(l, old, Q, "udp"), old, Q, "tcp"), Exhausted(old, Q))

(* ares_fds: a UDP socket only while there are queries, a TCP socket always. *)
ares_fds(l) ==
  {k \in Kinds : l.sock[k] # BAD /\ (k = "udp" => Pending(l) # {})}

-----------------------------------------------------------------------------
(* The sets of descriptors of cares_kqueue.cc. *)

WithFd(S, s, want) == IF want THEN S \cup {s} ELSE S \ {s}

(* Mutant: the descriptor stays in the set of those with write events. *)
sock_cbKeepingWrites(k, s, want, done) ==
  LET changes == {f \in Filters : want[f] # (s \in k.active[f])}
  IN [k EXCEPT !.active = [read |-> WithFd(k.active["read"], s, want["read"]),
                           write |-> WithFd(k.active["write"], s, TRUE)],
               !.kernel = [f \in Filters |-> IF f \in changes \cap done
                                             THEN WithFd(k.kernel[f], s, want[f])
                                             ELSE k.kernel[f]],
               !.failed = @ \/ ~(changes \subseteq done)]

(* c-ares wants the events "want" of the socket s.  kevent() takes the     *)
(* change of the read filter before that of the write filter and stops at  *)
(* the first that fails: "done" are the filters it gets past.              *)
sock_cb(k, s, want, done) ==
  LET changes == {f \in Filters : want[f] # (s \in k.active[f])}
  IN [k EXCEPT !.active = [f \in Filters |-> WithFd(k.active[f], s, want[f])],
               !.kernel = [f \in Filters |-> IF f \in changes \cap done
                                             THEN WithFd(k.kernel[f], s, want[f])
                                             ELSE k.kernel[f]],
               !.failed = @ \/ ~(changes \subseteq done)]

(* What c-ares calls sock_cb with on its way from one channel to another:  *)
(* the sockets it closes, those it opens, and a change of what it has to   *)
(* send.  A call is made only "when" there is a reason.                    *)
SockCalls(old, closes, new) ==
  LET Call(when, s, r, w) == [when |-> when, s |-> s, want |-> [read |-> r, write |-> w]]
      Shut(kind) == (closes \/ OpenFds(new) = {}) /\ old.sock[kind] # BAD
      Fresh(kind) ==
        new.sock[kind] # BAD /\ (closes \/ new.sock[kind] \notin OpenFds(old))
  IN << Call(Shut("udp"), old.sock["udp"], FALSE, FALSE),
        Call(Shut("tcp"), old.sock["tcp"], FALSE, FALSE),
        Call(Fresh("udp"), new.sock["udp"], TRUE, FALSE),
        Call(Fresh("tcp"), new.sock["tcp"], TRUE, FALSE),
        Call(new.sock["tcp"] # BAD /\ (Fresh("tcp") \/ new.unsent # old.unsent),
             new.sock["tcp"], TRUE, new.unsent) >>

(* close() also drops the kernel's filters. *)
AfterSockCall(k, call, done) ==
  LET n == sock_cb(k, call.s, call.want, done)
  IN IF ~call.when THEN k
     ELSE IF call.want["read"] THEN n
     ELSE [n EXCEPT !.kernel = [f \in Filters |-> @[f] \ {call.s}]]

(* At most one of the calls has its kevent() fail: "bad", after "done". *)
AfterSockCalls(k, calls, bad, done) ==
  LET Done(i) == IF i = bad THEN done ELSE Filters
      opened(r) == AfterSockCall(AfterSockCall(r, calls[3], Done(3)), calls[4], Done(4))
      closed == AfterSockCall(AfterSockCall(k, calls[1], Done(1)), calls[2], Done(2))
  IN AfterSockCall(opened(closed), calls[5], Done(5))

(* A step of c-ares: the channel becomes l (after closing its sockets, if  *)
(* "closes"), and the callbacks of the queries in "ended" run.  One of the *)
(* calls of sock_cb may have its kevent() fail.                            *)
ChannelStep(closes, l, ended, k) ==
  /\ lib' = l
  /\ called' = [q \in DOMAIN called |-> called[q] + (IF q \in DOMAIN ended THEN 1 ELSE 0)]
  /\ held' = held \cup UNION {Leaves(q, ended[q]) : q \in DOMAIN ended}
  /\ IF ~Main.kqueue THEN kq' = k
     ELSE \E bad \in 1..5, done \in {{}, {"read"}, Filters} :
            kq' = AfterSockCalls(k, SockCalls(lib, closes, l), bad, done)

-----------------------------------------------------------------------------
NoFilters == [f \in Filters |-> {}]

Init ==
  /\ prog = "none"
  /\ pc = "none"
  /\ stage = 1
  /\ lib = ClosedChannel
  /\ called = << >>
  /\ held = {}
  /\ kq = [active |-> NoFilters, kernel |-> NoFilters, failed |-> FALSE,
           batch |-> << >>, processed |-> FALSE]

Start(p) ==
  /\ pc = "none"
  /\ prog' = p
  /\ pc' = IF Programs[p].kqueue THEN "kqueue" ELSE "library_init"
  /\ called' = [q \in UNION {{s} \X DOMAIN Programs[p].stages[s].calls :
                               s \in DOMAIN Programs[p].stages} |-> 0]
  /\ UNCHANGED << stage, lib, held, kq >>

(* kqueue(), ares_library_init() and ares_init_options(): each may fail.   *)
(* main() returns 1 then, and keeps what it has.                           *)
Initialise(from, to, gets) ==
  /\ pc = from
  /\ \/ pc' = to /\ held' = held \cup gets
     \/ pc' = "exit_1" /\ UNCHANGED held
  /\ UNCHANGED << prog, stage, lib, called, kq >>

OpenQueue == Initialise("kqueue", "library_init", {})
LibraryInit == Initialise("library_init", "init_options", {"library"})
InitOptions == Initialise("init_options", "ask", {"channel"})

CreateQuery ==
  /\ pc = "ask" /\ Main.stages[stage].create
  /\ Initialise("ask", "send", {"query"})

(* ares_send, ares_query, ares_gethostbyname and so on.  A query that      *)
(* needs no server, or fails at once, has its callback run inside the call.*)
Ask ==
  /\ pc \in {"ask", "send"}
  /\ pc = "ask" => ~Main.stages[stage].create
  /\ \E now \in SUBSET QueriesOf(stage) :
     \E result \in UNION {Results(q) : q \in now} \cup {Failed} :
       ChannelStep(FALSE, Sent(lib, QueriesOf(stage) \ now,
                               IF Main.usevc THEN "tcp" ELSE "udp",
                               [q \in QueriesOf(stage) |-> Main.tries]),
                   [q \in now |-> result], kq)
  /\ pc' = "wait"
  /\ UNCHANGED << prog, stage >>

-----------------------------------------------------------------------------
(* wait_ares *)

(* The answer to q is taken from a socket.  Answers to queries that have   *)
(* ended are ignored.  A truncated one makes c-ares ask again over TCP,    *)
(* once.                                                                   *)
ReadAnswer(kind, q, k) ==
  LET l == [lib EXCEPT !.inbox[kind] = @ \ {q}]
  IN \/ /\ q \in Pending(lib) => kind = "udp" /\ lib.pending[q].via = "tcp"
        /\ ChannelStep(FALSE, l, << >>, k)
     \/ /\ q \in Pending(lib) /\ kind = "udp" /\ lib.pending[q].via = "udp"
        /\ ChannelStep(FALSE, Sent(l, {q}, "tcp", [p \in {q} |-> l.pending[p].tries]), << >>, k)
     \/ /\ q \in Pending(lib)
        /\ \E result \in Results(q) \cup {Failed} :
             ChannelStep(FALSE, Ended(l, {q}), [p \in {q} |-> result], k)

(* The connection broke: both sockets are closed, every query loses a try. *)
ReadError(k) ==
  ChannelStep(TRUE, TriedAgain([ClosedChannel EXCEPT !.pending = lib.pending], lib, Pending(lib)),
              [q \in Exhausted(lib, Pending(lib)) |-> << "ARES_ECONNREFUSED", "none" >>], k)

WriteTcp(k) ==
  /\ lib.unsent
  /\ ChannelStep(FALSE, [lib EXCEPT !.unsent = FALSE], << >>, k)

(* process_timeouts: q's time is over. *)
TimeOut(q, k) ==
  ChannelStep(FALSE, TriedAgain(lib, lib, {q}),
              [e \in Exhausted(lib, {q}) |-> << "ARES_ETIMEOUT", "none" >>], k)

InSelect == pc = "wait" /\ ~Main.kqueue /\ ares_fds(lib) # {}

SelectReads ==
  InSelect /\ \E kind \in ares_fds(lib) : \E q \in lib.inbox[kind] : ReadAnswer(kind, q, kq)
SelectEof == InSelect /\ lib.eof /\ ReadError(kq)
SelectWrites == InSelect /\ WriteTcp(kq)
SelectTimesOut == InSelect /\ \E q \in Pending(lib) : TimeOut(q, kq)
(* Mutant: the loop ends after a timeout, as that of cares_kqueue.cc. *)
SelectRoundOnce ==
  /\ SelectReads \/ SelectEof \/ SelectWrites \/ SelectTimesOut
  /\ pc' \in {pc, "next"}
  /\ UNCHANGED << prog, stage >>

SelectRound ==
  /\ SelectReads \/ SelectEof \/ SelectWrites \/ SelectTimesOut
  /\ UNCHANGED << prog, pc, stage >>

SelectDone ==
  /\ pc = "wait" /\ ~Main.kqueue
  /\ ares_fds(lib) = {}
  /\ pc' = "next"
  /\ UNCHANGED << prog, stage, lib, called, held, kq >>

-----------------------------------------------------------------------------
(* wait_ares of cares_kqueue.cc *)

InKevent == pc = "wait" /\ Main.kqueue /\ kq.batch = << >>

Ready ==
  {[filter |-> "read", ident |-> s] : s \in
     {t \in kq.kernel["read"] : \E kind \in Kinds : lib.sock[kind] = t
        /\ (lib.inbox[kind] # {} \/ (kind = "tcp" /\ lib.eof))}}
  \cup {[filter |-> "write", ident |-> s] : s \in kq.kernel["write"]}

num_events == Cardinality(kq.active["read"]) + Cardinality(kq.active["write"])

KeventReturns ==
  /\ InKevent
  /\ \E n \in 1..num_events :
       \E batch \in [1..n -> Ready] : IsInjective(batch) /\ kq' = [kq EXCEPT !.batch = batch,
                                                                      !.processed = FALSE]
  /\ UNCHANGED << prog, pc, stage, lib, called, held >>

(* Mutant: the loop goes on after a timeout. *)
KeventTimesOutContinuing == InKevent /\ Ready = {} /\ UNCHANGED vars

(* Nothing happened until the time of c-ares, or there is no room for an   *)
(* event: ret == 0.  kevent() may fail too: ret == -1.                     *)
KeventTimesOut ==
  /\ InKevent
  /\ Ready = {} \/ num_events = 0
  /\ pc' = "next"
  /\ UNCHANGED << prog, stage, lib, called, held, kq >>

KeventFails ==
  /\ InKevent
  /\ pc' = "next"
  /\ UNCHANGED << prog, stage, lib, called, held, kq >>

(* ares_process_fd for the next event of the batch.  Its descriptor may    *)
(* have been closed since, and opened again as another socket; reading a   *)
(* connection that is still being made may fail.                           *)
ProcessEvent ==
  /\ pc = "wait" /\ kq.batch # << >>
  /\ LET event == Head(kq.batch)
         k == [kq EXCEPT !.batch = Tail(@), !.processed = TRUE]
         kinds == {kind \in Kinds : lib.sock[kind] = event.ident}
     IN \/ /\ event.filter = "read"
           /\ \/ \E kind \in kinds : \E q \in lib.inbox[kind] : ReadAnswer(kind, q, k)
              \/ "tcp" \in kinds /\ (lib.eof \/ lib.unsent) /\ ReadError(k)
              \/ /\ \A kind \in kinds : lib.inbox[kind] = {}
                 /\ ~("tcp" \in kinds /\ lib.eof)
                 /\ ChannelStep(FALSE, lib, << >>, k)
        \/ /\ event.filter = "write"
           /\ IF "tcp" \in kinds /\ lib.unsent THEN WriteTcp(k)
              ELSE ChannelStep(FALSE, lib, << >>, k)
  /\ UNCHANGED << prog, pc, stage >>

(* Each ares_process_fd looks for timeouts too. *)
ProcessTimeout ==
  /\ pc = "wait" /\ Main.kqueue /\ kq.processed
  /\ \E q \in Pending(lib) : TimeOut(q, kq)
  /\ UNCHANGED << prog, pc, stage >>

-----------------------------------------------------------------------------
(* Mutant: the buffer is freed only at the end. *)
NextStageKeeping ==
  /\ pc = "next"
  /\ IF stage < Len(Main.stages) THEN stage' = stage + 1 /\ pc' = "ask"
     ELSE pc' = "destroy" /\ UNCHANGED stage
  /\ UNCHANGED << prog, lib, called, kq, held >>

(* ares_free_string(query), and the next stage if there is one. *)
NextStage ==
  /\ pc = "next"
  /\ held' = held \ {"query"}
  /\ IF stage < Len(Main.stages) THEN stage' = stage + 1 /\ pc' = "ask"
     ELSE pc' = "destroy" /\ UNCHANGED stage
  /\ UNCHANGED << prog, lib, called, kq >>

(* Mutant: the channel is left to the end of the process. *)
DestroyNothing ==
  /\ pc = "destroy"
  /\ pc' = "cleanup"
  /\ UNCHANGED << prog, stage, lib, called, held, kq >>

(* ares_destroy: the callbacks of the queries left run now. *)
Destroy ==
  /\ pc = "destroy"
  /\ ChannelStep(TRUE, ClosedChannel,
                 [q \in Pending(lib) |-> << "ARES_EDESTRUCTION", "none" >>], kq)
  /\ pc' = "cleanup"
  /\ UNCHANGED << prog, stage >>

(* ares_library_cleanup, return 0 *)
Cleanup ==
  /\ pc = "cleanup"
  /\ held' = held \ {"library", "channel"}
  /\ pc' = "exit_0"
  /\ UNCHANGED << prog, stage, lib, called, kq >>

-----------------------------------------------------------------------------
(* The server: answers are late, repeated or lost, and it closes           *)
(* connections.                                                            *)

Arrive(kind, q) ==
  /\ lib.sock[kind] # BAD
  /\ kind = "tcp" => /\ ~lib.unsent /\ ~lib.eof
                     /\ q \in Pending(lib) /\ lib.pending[q].via = "tcp"
  /\ q[1] <= stage /\ q \notin lib.inbox[kind]
  /\ Cardinality(lib.inbox["udp"]) + Cardinality(lib.inbox["tcp"]) < MaxInbox
  /\ lib' = [lib EXCEPT !.inbox[kind] = @ \cup {q}]
  /\ UNCHANGED << prog, pc, stage, called, held, kq >>

ServerCloses ==
  /\ lib.sock["tcp"] # BAD /\ ~lib.eof
  /\ lib' = [lib EXCEPT !.eof = TRUE]
  /\ UNCHANGED << prog, pc, stage, called, held, kq >>

Server == ServerCloses \/ \E kind \in Kinds, q \in DOMAIN called : Arrive(kind, q)

Setup == OpenQueue \/ LibraryInit \/ InitOptions \/ CreateQuery \/ Ask
Wait == \/ SelectRound \/ SelectDone \/ KeventReturns \/ KeventTimesOut
        \/ ProcessEvent \/ ProcessTimeout
Program == Setup \/ Wait \/ NextStage \/ Destroy \/ Cleanup

Next == (\E p \in DOMAIN Programs : Start(p)) \/ Program \/ KeventFails \/ Server

(* The program goes on, and time does. *)
Fairness ==
  /\ WF_vars(Program)
  /\ WF_vars(SelectTimesOut /\ UNCHANGED << prog, pc, stage >>)
  /\ SF_vars(ProcessTimeout)

FairSpec == Init /\ [][Next]_vars /\ Fairness

-----------------------------------------------------------------------------
(* What the variables hold. *)
TypeOK ==
  /\ prog \in {"none"} \cup DOMAIN Programs
  /\ pc \in {"none", "kqueue", "library_init", "init_options", "ask", "send", "wait", "next",
             "destroy", "cleanup", "exit_0", "exit_1"}
  /\ prog # "none" =>
       /\ stage \in DOMAIN Main.stages
       /\ Pending(lib) \subseteq AllQueries
       /\ \A q \in Pending(lib) : /\ lib.pending[q].tries \in 1..Main.tries
                                 /\ lib.sock[lib.pending[q].via] # BAD
       /\ \A kind \in Kinds : lib.inbox[kind] # {} => lib.sock[kind] # BAD
       /\ lib.unsent => lib.sock["tcp"] # BAD
  /\ \A kind \in Kinds : lib.sock[kind] \in Fds \cup {BAD}
  /\ held \subseteq {"library", "channel", "query", "host", "addrinfo", "question", "answer"}

(* No callback runs twice: not for an answer that arrives after the query  *)
(* was sent again, nor for one that main() gave up on in ares_destroy.     *)
(* When main() returns 0 the callback of every query has run.              *)
OneCallback ==
  \A q \in DOMAIN called :
    /\ called[q] <= 1
    /\ pc = "exit_0" => called[q] = 1

(* wait_ares of the programs that use select() returns only when every     *)
(* query has been answered or has used up its tries: the next stage, and   *)
(* ares_destroy, find none pending.  cares_kqueue gives up at the first    *)
(* timeout, whatever the tries in its options say.                         *)
WaitsForAnswers ==
  pc \in {"next", "destroy"} => Pending(lib) = {} \/ Main.kqueue

(* As long as kevent() has not refused a change, active_read_fds and       *)
(* active_write_fds are the filters the kernel has, so that the array that *)
(* wait_ares allocates has room for every event.                           *)
SetsMatchKernel == ~kq.failed => kq.active = kq.kernel

(* No filter is left for a closed socket, and nothing that a return 0      *)
(* leaves behind but the name that get_ttl forgets in a short reply.       *)
ReleasedAtExit ==
  /\ UNION {kq.kernel[f] : f \in Filters} \subseteq OpenFds(lib)
  /\ pc = "exit_0" =>
       /\ held \subseteq {"question", "answer"}
       /\ held = {} \/ prog = "ttl"
       /\ OpenFds(lib) = {}
       /\ kq.active = NoFilters

(* With STAYOPEN a TCP connection is waited on even when no query is left. *)
Parked ==
  pc = "wait" /\ Main.stayopen /\ Pending(lib) = {} /\ lib.sock["tcp"] # BAD

(* Every program returns, whatever answers are lost, repeated or late, or  *)
(* waits for the server to close a TCP connection that STAYOPEN keeps.     *)
EndDue == prog # "none"
EndReached == prog # "none" /\ (pc \in {"exit_0", "exit_1"} \/ Parked)
ReturnsOrParks == EndDue ~> EndReached
=============================================================================
