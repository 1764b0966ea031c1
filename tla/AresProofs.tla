----------------------------- MODULE AresProofs -----------------------------
(***************************************************************************)
(* Proofs about the lookups of c-ares, for every number of tries, every    *)
(* set of descriptors and any number of answers on their way.              *)
(***************************************************************************)
EXTENDS AresLookup, WellFoundedInduction, TLAPS

-----------------------------------------------------------------------------
(* The programs *)

Quiet == [create : BOOLEAN, calls : Seq({"host", "addrinfo", "reply"})]
Staged == [create : BOOLEAN, calls : Seq({"host", "addrinfo", "reply", "ttl"})]

(* What a program's entry consists of. *)
Runs(p, Stages) ==
  /\ p.kqueue \in BOOLEAN /\ p.stayopen \in BOOLEAN /\ p.usevc \in BOOLEAN
  /\ p.tries \in Nat \ {0}
  /\ p.stages \in Seq(Stages) /\ Len(p.stages) > 0

LEMMA SelectRuns ==
  ASSUME NEW tries \in Nat \ {0}, NEW Stages, NEW stages \in Seq(Stages) \ {<< >>}
  PROVE  /\ Runs(Select(tries, stages), Stages)
         /\ Runs([Select(tries, stages) EXCEPT !.stayopen = FALSE, !.usevc = TRUE], Stages)
         /\ Runs([Select(tries, stages) EXCEPT !.stayopen = FALSE, !.kqueue = TRUE], Stages)
  BY DEF Select, Runs

(* The stages that main() goes through. *)
LEMMA StagesQuiet ==
  /\ << Asks(<< "addrinfo" >>) >> \in Seq(Quiet) \ {<< >>}
  /\ << Asks(<< "host" >>) >> \in Seq(Quiet) \ {<< >>}
  /\ << Asks(<< "host", "host" >>), Asks(<< "host" >>) >> \in Seq(Quiet) \ {<< >>}
  /\ << Asks(<< "host", "host", "addrinfo", "host" >>), Creates("reply") >> \in Seq(Quiet) \ {<< >>}
  /\ << Creates("reply") >> \in Seq(Quiet) \ {<< >>}
  /\ << Asks(<< "reply" >>) >> \in Seq(Quiet) \ {<< >>}
  /\ << Creates("ttl"), Creates("ttl") >> \in Seq(Staged) \ {<< >>}
<1> DEFINE Calls == Seq({"host", "addrinfo", "reply"})
<1>1. \A s \in Calls : Asks(s) \in Quiet
  BY DEF Asks, Quiet
<1>2. Creates("reply") \in Quiet /\ Creates("ttl") \in Staged
  BY DEF Creates, Quiet, Staged
<1>3. /\ << "addrinfo" >> \in Calls /\ << "host" >> \in Calls /\ << "host", "host" >> \in Calls
      /\ << "reply" >> \in Calls /\ << "host", "host", "addrinfo", "host" >> \in Calls
  OBVIOUS
<1> HIDE DEF Calls
<1>4. /\ Asks(<< "addrinfo" >>) \in Quiet /\ Asks(<< "host" >>) \in Quiet
      /\ Asks(<< "host", "host" >>) \in Quiet /\ Asks(<< "reply" >>) \in Quiet
      /\ Asks(<< "host", "host", "addrinfo", "host" >>) \in Quiet
  BY <1>1, <1>3
<1> QED
  BY <1>2, <1>4

LEMMA ProgramsRun ==
  ASSUME NEW p \in DOMAIN Programs
  PROVE  /\ p # "none"
         /\ Runs(Programs[p], Staged)
         /\ p # "ttl" => Runs(Programs[p], Quiet)
<1>1. DOMAIN Programs =
        {"getaddrinfo", "gethostbyaddr", "gethostbyname", "hostfile", "mkquery", "query",
         "timeouts", "ttl", "apple_tcpbug", "kqueue"}
  BY DEF Programs
<1>2. /\ Programs["getaddrinfo"] = cares_getaddrinfo
      /\ Programs["gethostbyaddr"] = cares_gethostbyaddr
      /\ Programs["gethostbyname"] = cares_gethostbyname /\ Programs["hostfile"] = cares_hostfile
      /\ Programs["mkquery"] = cares_mkquery /\ Programs["query"] = cares_query
      /\ Programs["timeouts"] = cares_timeouts /\ Programs["ttl"] = cares_ttl
      /\ Programs["apple_tcpbug"] = cares_apple_tcpbug /\ Programs["kqueue"] = cares_kqueue
  BY DEF Programs
<1>3. DefaultTries \in Nat \ {0} /\ 1 \in Nat \ {0} /\ 2 \in Nat \ {0}
  BY AresAssumption
<1> DEFINE Quietly == Seq(Quiet) \ {<< >>}
<1>4. \A t \in Nat \ {0}, stages \in Quietly :
        /\ Runs(Select(t, stages), Quiet)
        /\ Runs([Select(t, stages) EXCEPT !.stayopen = FALSE, !.usevc = TRUE], Quiet)
        /\ Runs([Select(t, stages) EXCEPT !.stayopen = FALSE, !.kqueue = TRUE], Quiet)
  BY SelectRuns
<1>5. \A t \in Nat \ {0}, stages \in Seq(Staged) \ {<< >>} : Runs(Select(t, stages), Staged)
  BY SelectRuns
<1> HIDE DEF Quietly
<1>6. Runs(cares_getaddrinfo, Quiet) /\ Runs(cares_gethostbyaddr, Quiet)
      /\ Runs(cares_gethostbyname, Quiet) /\ Runs(cares_hostfile, Quiet)
      /\ Runs(cares_mkquery, Quiet) /\ Runs(cares_query, Quiet) /\ Runs(cares_timeouts, Quiet)
      /\ Runs(cares_apple_tcpbug, Quiet) /\ Runs(cares_kqueue, Quiet)
  <2>1. /\ << Asks(<< "addrinfo" >>) >> \in Quietly /\ << Asks(<< "host" >>) >> \in Quietly
        /\ << Asks(<< "host", "host" >>), Asks(<< "host" >>) >> \in Quietly
        /\ << Asks(<< "host", "host", "addrinfo", "host" >>), Creates("reply") >> \in Quietly
        /\ << Creates("reply") >> \in Quietly /\ << Asks(<< "reply" >>) >> \in Quietly
    BY StagesQuiet, Zenon DEF Quietly
  <2> QED
    BY <1>3, <1>4, <2>1, Zenon
    DEF cares_getaddrinfo, cares_gethostbyaddr, cares_gethostbyname, cares_hostfile, cares_mkquery,
        cares_query, cares_timeouts, cares_apple_tcpbug, cares_kqueue
<1>8. Runs(cares_ttl, Staged)
  BY <1>3, <1>5, StagesQuiet, Zenon DEF cares_ttl
<1>9. \A r : Runs(r, Quiet) => Runs(r, Staged)
  <2>1. Quiet \subseteq Staged
    BY DEF Quiet, Staged
  <2> QED
    BY <2>1 DEF Runs
<1>10. p # "ttl" => Runs(Programs[p], Quiet)
  BY <1>1, <1>2, <1>6
<1> QED
  BY <1>1, <1>2, <1>8, <1>9, <1>10

-----------------------------------------------------------------------------
(* The channel *)

(* A channel with queries of Q that have at most t tries left. *)
Channel(l, Q, t) ==
  /\ DOMAIN l = {"pending", "sock", "unsent", "inbox", "eof"}
  /\ Pending(l) \subseteq Q
  /\ \A q \in Pending(l) : l.pending[q] \in [via : Kinds, tries : 1..t]
  /\ l.sock \in [Kinds -> Fds \cup {BAD}]
  /\ DOMAIN l.inbox = Kinds
  /\ \A kind \in Kinds : l.inbox[kind] # {} => l.sock[kind] # BAD
  /\ l.unsent \in BOOLEAN
  /\ l.unsent = TRUE => l.sock["tcp"] # BAD

(* The socket of each query of S is open. *)
Connected(l, S) == \A q \in S : l.sock[l.pending[q].via] # BAD

(* No socket of l is another in r. *)
Keeps(l, r) == \A kind \in Kinds : l.sock[kind] # BAD => r.sock[kind] = l.sock[kind]

LEMMA ClosedIsChannel ==
  ASSUME NEW Q, NEW t \in Nat
  PROVE  /\ Channel(ClosedChannel, Q, t) /\ Pending(ClosedChannel) = {}
         /\ ClosedChannel.sock = [kind \in Kinds |-> BAD] /\ OpenFds(ClosedChannel) = {}
  BY DEF Channel, ClosedChannel, Pending, OpenFds, Kinds

LEMMA LeastFd ==
  ASSUME NEW T, T \in SUBSET Nat, T # {}
  PROVE  \E n \in T : \A m \in T : n <= m
<1> DEFINE R == OpToRel(<, Nat)
<1>1. \A k, m \in Nat : k < m => << k, m >> \in R
  BY DEF OpToRel
<1>2. IsWellFoundedOn(R, Nat)
  BY NatLessThanWellFounded
<1> HIDE DEF R
<1>3. PICK n \in T : \A m \in T : << m, n >> \notin R
  BY <1>2, WFMin
<1>4. \A m \in T : m \in Nat /\ n \in Nat /\ ~ (m < n)
  BY <1>1, <1>3
<1>5. \A m \in T : n <= m
  BY <1>4
<1> QED
  BY <1>5

(* socket() finds a number for the other socket too. *)
LEMMA OpenedIsOpen ==
  ASSUME NEW Q, NEW t \in Nat, NEW l, Channel(l, Q, t), NEW kind \in Kinds
  PROVE  /\ Channel(Opened(l, kind), Q, t)
         /\ Opened(l, kind).pending = l.pending
         /\ Opened(l, kind).sock[kind] # BAD
         /\ Keeps(l, Opened(l, kind))
<1>1. CASE l.sock[kind] # BAD
  BY <1>1 DEF Opened, Keeps
<1>2. CASE l.sock[kind] = BAD
  <2> DEFINE Free == Fds \ OpenFds(l)
             new == CHOOSE s \in Free : \A u \in Free : s <= u
  <2>1. Free \subseteq Nat
    BY AresAssumption
  <2>2. PICK other \in Kinds : \A k \in Kinds : k = kind \/ k = other
    BY DEF Kinds
  <2>3. l.sock[other] \in Fds \cup {BAD}
    BY DEF Channel
  <2>4. OpenFds(l) \subseteq {l.sock[other]}
    BY <1>2, <2>2 DEF OpenFds
  <2>5. Free # {}
    BY <2>3, <2>4, AresAssumption
  <2>6. \E s \in Free : \A u \in Free : s <= u
    BY <2>1, <2>5, LeastFd
  <2>7. new \in Free
    BY <2>6
  <2>8. new \in Fds /\ new # BAD
    BY <2>7, AresAssumption
  <2> HIDE DEF new
  <2>9. Opened(l, kind) = [l EXCEPT !.sock[kind] = new]
    BY <1>2 DEF Opened, new
  <2> DEFINE r == [l EXCEPT !.sock[kind] = new]
  <2>10. /\ DOMAIN r = DOMAIN l /\ r.pending = l.pending /\ r.inbox = l.inbox
         /\ r.unsent = l.unsent /\ r.sock = [l.sock EXCEPT ![kind] = new]
    BY DEF Channel
  <2> HIDE DEF r
  <2>11. /\ r.sock \in [Kinds -> Fds \cup {BAD}]
         /\ \A k \in Kinds : r.sock[k] = IF k = kind THEN new ELSE l.sock[k]
    BY <2>8, <2>10 DEF Channel
  <2>12. \A k \in Kinds : l.sock[k] # BAD => r.sock[k] # BAD /\ r.sock[k] = l.sock[k]
    BY <1>2, <2>11
  <2>13. Channel(r, Q, t)
    BY <2>10, <2>11, <2>12 DEF Channel, Pending, Kinds
  <2> QED
    BY <2>8, <2>9, <2>10, <2>11, <2>12, <2>13 DEF r, Keeps
<1> QED
  BY <1>1, <1>2

(* What sending the queries S over "kind" makes of a channel. *)
IsSent(l, S, kind, r, Q, t) ==
  /\ Channel(r, Q, t) /\ Keeps(l, r)
  /\ Pending(r) = Pending(l) \cup S
  /\ \A q \in Pending(r) \ S : r.pending[q] = l.pending[q]
  /\ \A q \in S : r.pending[q].via = kind /\ r.sock[kind] # BAD

(* Sending opens the socket and keeps the others. *)
LEMMA SentIsPending ==
  ASSUME NEW Q, NEW t \in Nat, NEW l, Channel(l, Q, t), NEW S \in SUBSET Q, NEW kind \in Kinds,
         NEW tries, \A q \in S : tries[q] \in 1..t
  PROVE  IsSent(l, S, kind, Sent(l, S, kind, tries), Q, t)
<1>1. CASE S = {}
  BY <1>1 DEF Sent, Keeps, IsSent
<1>2. CASE S # {}
  <2> DEFINE o == Opened(l, kind)
             p == [q \in S \cup Pending(l) |->
                     IF q \in S THEN [via |-> kind, tries |-> tries[q]] ELSE o.pending[q]]
             r == [o EXCEPT !.pending = p, !.unsent = @ \/ kind = "tcp"]
  <2>1. Sent(l, S, kind, tries) = r
    BY <1>2 DEF Sent
  <2>2. /\ Channel(o, Q, t) /\ o.pending = l.pending /\ o.sock[kind] # BAD /\ Keeps(l, o)
    BY OpenedIsOpen
  <2> HIDE DEF o
  <2>3. DOMAIN p = S \cup Pending(l)
    OBVIOUS
  <2>4. \A q \in DOMAIN p :
          /\ q \in S => p[q] = [via |-> kind, tries |-> tries[q]]
          /\ q \notin S => p[q] = l.pending[q]
    BY <2>2
  <2>5. \A q \in DOMAIN p : p[q] \in [via : Kinds, tries : 1..t]
    BY <2>2, <2>3, <2>4 DEF Channel
  <2> HIDE DEF p
  <2>6. /\ DOMAIN r = DOMAIN o /\ r.pending = p /\ r.sock = o.sock /\ r.inbox = o.inbox
        /\ r.unsent = (o.unsent \/ kind = "tcp")
    BY <2>2 DEF Channel
  <2> HIDE DEF r
  <2>7. r.unsent \in BOOLEAN /\ (r.unsent = TRUE => r.sock["tcp"] # BAD)
    <3>1. o.unsent \in BOOLEAN /\ (o.unsent = TRUE => o.sock["tcp"] # BAD)
      BY <2>2 DEF Channel
    <3>2. CASE kind = "tcp"
      BY <2>2, <2>6, <3>1, <3>2
    <3>3. CASE kind # "tcp"
      BY <2>6, <3>1, <3>3
    <3> QED
      BY <3>2, <3>3
  <2>8. Pending(r) = Pending(l) \cup S
    BY <2>3, <2>6 DEF Pending
  <2>9. Pending(r) \subseteq Q
    BY <2>8 DEF Channel
  <2>10. Channel(r, Q, t)
    BY <2>2, <2>5, <2>6, <2>7, <2>9 DEF Channel, Pending
  <2>11. Keeps(l, r)
    BY <2>2, <2>6 DEF Keeps
  <2>12. \A q \in Pending(r) \ S : r.pending[q] = l.pending[q]
    BY <2>3, <2>4, <2>6, <2>8
  <2>13. \A q \in S : r.pending[q].via = kind /\ r.sock[kind] # BAD
    <3> TAKE q \in S
    <3>1. p[q] = [via |-> kind, tries |-> tries[q]]
      BY <2>3, <2>4
    <3>2. p[q].via = kind
      BY <3>1
    <3> QED
      BY <2>2, <2>6, <3>2
  <2> QED
    BY <2>1, <2>8, <2>10, <2>11, <2>12, <2>13 DEF IsSent
<1> QED
  BY <1>1, <1>2

(* What the end of the queries S makes of a channel. *)
IsEnded(l, S, r, Q, t) ==
  /\ Channel(r, Q, t)
  /\ Pending(r) = Pending(l) \ S
  /\ Connected(l, Pending(l) \ S) => Connected(r, Pending(r))
  /\ Keeps(l, r) \/ OpenFds(r) = {}

(* The queries of S end; the sockets may go with the last. *)
LEMMA EndedIsOver ==
  ASSUME NEW Q, NEW t \in Nat, NEW l, Channel(l, Q, t), NEW S
  PROVE  IsEnded(l, S, Ended(l, S), Q, t)
<1> DEFINE left == [q \in Pending(l) \ S |-> l.pending[q]]
           e == [l EXCEPT !.pending = left]
<1>1. DOMAIN left = Pending(l) \ S /\ \A q \in Pending(l) \ S : left[q] = l.pending[q]
  OBVIOUS
<1>2. CASE Ended(l, S) = ClosedChannel /\ left = << >>
  <2>1. Pending(l) \ S = {}
    BY <1>1, <1>2
  <2> HIDE DEF left
  <2> QED
    BY <1>2, <2>1, ClosedIsChannel DEF Connected, IsEnded
<1>3. CASE Ended(l, S) = e
  <2> HIDE DEF left
  <2>1. /\ DOMAIN e = DOMAIN l /\ e.pending = left /\ e.sock = l.sock /\ e.inbox = l.inbox
        /\ e.unsent = l.unsent
    BY DEF Channel
  <2> HIDE DEF e
  <2>2. Pending(e) = Pending(l) \ S
    BY <1>1, <2>1 DEF Pending
  <2>3. Channel(e, Q, t)
    BY <1>1, <2>1, <2>2 DEF Channel
  <2>4. Connected(l, Pending(l) \ S) => Connected(e, Pending(e))
    BY <1>1, <2>1, <2>2 DEF Connected
  <2>5. Keeps(l, e)
    BY <2>1 DEF Keeps
  <2> QED
    BY <1>3, <2>2, <2>3, <2>4, <2>5 DEF IsEnded
<1> QED
  BY <1>2, <1>3 DEF Ended

IsRetried(l, old, S, kind, r, Q, t) ==
  /\ Channel(r, Q, t) /\ Keeps(l, r)
  /\ Pending(r) = Pending(l)
  /\ \A q \in Pending(l) : \/ r.pending[q] = l.pending[q]
                           \/ q \in S \ Exhausted(old, S) /\ old.pending[q].via = kind
  /\ \A q \in S \ Exhausted(old, S) :
       old.pending[q].via = kind => r.pending[q].via = kind /\ r.sock[kind] # BAD

(* The queries of S that have a try left are sent again over "kind". *)
LEMMA RetriedIsPending ==
  ASSUME NEW Q, NEW t \in Nat, NEW l, Channel(l, Q, t), NEW old, Channel(old, Q, t),
         NEW S, S \subseteq Pending(old), S \subseteq Pending(l), NEW kind \in Kinds
  PROVE  IsRetried(l, old, S, kind, Retried(l, old, S, kind), Q, t)
<1> DEFINE again == {q \in S \ Exhausted(old, S) : old.pending[q].via = kind}
           tries == [q \in S |-> old.pending[q].tries - 1]
<1>1. Retried(l, old, S, kind) = Sent(l, again, kind, tries)
  BY DEF Retried
<1>2. again \in SUBSET Q /\ again \subseteq Pending(l)
  BY DEF Channel
<1>3. \A q \in again : tries[q] \in 1..t
  <2> SUFFICES ASSUME NEW q \in again PROVE tries[q] \in 1..t
    OBVIOUS
  <2>1. old.pending[q].tries \in 1..t
    BY DEF Channel
  <2>2. old.pending[q].tries # 1
    BY DEF Exhausted
  <2>3. tries[q] = old.pending[q].tries - 1
    OBVIOUS
  <2> QED
    BY <2>1, <2>2, <2>3
<1> HIDE DEF tries
<1> DEFINE r == Sent(l, again, kind, tries)
<1>8. IsSent(l, again, kind, r, Q, t)
  <2> HIDE DEF again
  <2> QED
    BY <1>2, <1>3, SentIsPending
<1>4. /\ Channel(r, Q, t) /\ Keeps(l, r)
      /\ Pending(r) = Pending(l) \cup again
      /\ \A q \in Pending(r) \ again : r.pending[q] = l.pending[q]
      /\ \A q \in again : r.pending[q].via = kind /\ r.sock[kind] # BAD
  BY <1>8 DEF IsSent
<1> HIDE DEF r
<1>5. Pending(r) = Pending(l)
  BY <1>2, <1>4
<1>6. \A q \in Pending(l) : \/ r.pending[q] = l.pending[q]
                            \/ q \in S \ Exhausted(old, S) /\ old.pending[q].via = kind
  BY <1>4, <1>5
<1>7. \A q \in S \ Exhausted(old, S) :
        old.pending[q].via = kind => r.pending[q].via = kind /\ r.sock[kind] # BAD
  BY <1>4
<1> QED
  BY <1>1, <1>4, <1>5, <1>6, <1>7 DEF r, IsRetried

(* A try is over for the queries of S, all of the queries or one whose     *)
(* sockets are still open.                                                 *)
LEMMA TriedAgainIsPending ==
  ASSUME NEW Q, NEW t \in Nat, NEW l, Channel(l, Q, t), NEW old, Channel(old, Q, t),
         l.pending = old.pending, NEW S, S \subseteq Pending(old),
         Connected(l, Pending(old) \ S)
  PROVE  /\ IsEnded(l, Exhausted(old, S), TriedAgain(l, old, S), Q, t)
         /\ Connected(TriedAgain(l, old, S), Pending(TriedAgain(l, old, S)))
<1> DEFINE u == Retried(l, old, S, "udp")
           b == Retried(u, old, S, "tcp")
           r == Ended(b, Exhausted(old, S))
<1>1. Pending(l) = Pending(old) /\ "udp" \in Kinds /\ "tcp" \in Kinds
  BY DEF Pending, Kinds
<1>2. IsRetried(l, old, S, "udp", u, Q, t)
  BY <1>1, RetriedIsPending
<1> HIDE DEF u
<1>10. /\ Channel(u, Q, t) /\ Keeps(l, u) /\ Pending(u) = Pending(l)
  BY <1>2 DEF IsRetried
<1>3. IsRetried(u, old, S, "tcp", b, Q, t)
  BY <1>1, <1>10, RetriedIsPending
<1> HIDE DEF b
<1>11. Channel(b, Q, t) /\ Keeps(u, b) /\ Pending(b) = Pending(u)
  BY <1>3 DEF IsRetried
<1>4. Keeps(l, b)
  BY <1>10, <1>11 DEF Keeps
<1>5. Connected(b, Pending(b) \ Exhausted(old, S))
  <2> SUFFICES ASSUME NEW q \in Pending(b) \ Exhausted(old, S)
               PROVE  b.sock[b.pending[q].via] # BAD
    BY DEF Connected
  <2>1. q \in Pending(l) /\ q \in Pending(u) /\ q \in Pending(old)
    BY <1>1, <1>10, <1>11
  <2>2. old.pending[q].via \in Kinds
    BY <2>1 DEF Channel
  <2>3. CASE q \in S /\ old.pending[q].via = "udp"
    <3>1. u.pending[q].via = "udp" /\ u.sock["udp"] # BAD
      BY <1>2, <2>1, <2>3 DEF IsRetried
    <3>2. b.pending[q] = u.pending[q]
      BY <1>3, <2>1, <2>3 DEF IsRetried
    <3>3. b.sock["udp"] # BAD
      BY <1>1, <1>11, <3>1 DEF Keeps
    <3> QED
      BY <3>1, <3>2, <3>3
  <2>4. CASE q \in S /\ old.pending[q].via = "tcp"
    BY <1>3, <2>1, <2>4 DEF IsRetried
  <2>5. CASE q \notin S
    <3>1. b.pending[q] = old.pending[q]
      BY <1>2, <1>3, <2>1, <2>5 DEF IsRetried
    <3>2. l.sock[old.pending[q].via] # BAD
      BY <2>1, <2>5 DEF Connected
    <3>3. b.sock[old.pending[q].via] # BAD
      BY <1>4, <2>2, <3>2 DEF Keeps
    <3> QED
      BY <3>1, <3>3
  <2> QED
    BY <2>2, <2>3, <2>4, <2>5 DEF Kinds
<1>12. IsEnded(b, Exhausted(old, S), r, Q, t)
  BY <1>11, EndedIsOver
<1>6. /\ Channel(r, Q, t)
      /\ Pending(r) = Pending(b) \ Exhausted(old, S)
      /\ Connected(r, Pending(r))
      /\ Keeps(b, r) \/ OpenFds(r) = {}
  BY <1>5, <1>12 DEF IsEnded
<1>7. TriedAgain(l, old, S) = r
  BY DEF TriedAgain, b, u
<1> HIDE DEF r
<1>8. Keeps(l, r) \/ OpenFds(r) = {}
  BY <1>4, <1>6 DEF Keeps
<1>9. Pending(r) = Pending(l) \ Exhausted(old, S)
  BY <1>10, <1>11, <1>6
<1>13. Connected(r, Pending(r)) /\ IsEnded(l, Exhausted(old, S), r, Q, t)
  BY <1>6, <1>8, <1>9 DEF IsEnded
<1> QED
  BY <1>7, <1>13

-----------------------------------------------------------------------------
(* The sets of cares_kqueue.cc *)

(* The sets and the filters name descriptors of F, and agree unless a      *)
(* kevent() has failed.                                                    *)
Queue(k, F) ==
  /\ DOMAIN k = {"active", "kernel", "failed", "batch", "processed"}
  /\ k.active \in [Filters -> SUBSET F] /\ k.kernel \in [Filters -> SUBSET F]
  /\ k.failed \in BOOLEAN
  /\ k.failed = FALSE => k.active = k.kernel

LEMMA QueueGrows ==
  ASSUME NEW k, NEW F, NEW G, Queue(k, F), F \subseteq G
  PROVE  Queue(k, G)
  BY DEF Queue

(* What sock_cb makes of the sets and the filters. *)
IsSockCb(k, s, want, n) ==
  /\ DOMAIN n = DOMAIN k
  /\ n.active = [f \in Filters |-> WithFd(k.active[f], s, want[f])]
  /\ n.kernel = [f \in Filters |-> n.kernel[f]]
  /\ \A f \in Filters : n.kernel[f] \in {k.kernel[f], WithFd(k.kernel[f], s, want[f])}
  /\ n.failed \in BOOLEAN
  /\ n.failed = FALSE => n.active = n.kernel

(* sock_cb brings the sets where c-ares wants them, and the filters with   *)
(* them if kevent() does not fail.                                         *)
LEMMA SockCbQueue ==
  ASSUME NEW k, NEW F, Queue(k, F), NEW s, NEW want \in [Filters -> BOOLEAN], NEW done
  PROVE  IsSockCb(k, s, want, sock_cb(k, s, want, done))
<1> DEFINE changes == {f \in Filters : want[f] # (s \in k.active[f])}
           n == sock_cb(k, s, want, done)
           kernel == [f \in Filters |-> IF f \in changes \cap done
                                        THEN WithFd(k.kernel[f], s, want[f]) ELSE k.kernel[f]]
           active == [f \in Filters |-> WithFd(k.active[f], s, want[f])]
           failed == k.failed \/ ~(changes \subseteq done)
<1>1. /\ DOMAIN k = {"active", "kernel", "failed", "batch", "processed"}
      /\ k.failed \in BOOLEAN
      /\ k.failed = FALSE => k.active = k.kernel
  BY DEF Queue
<1>2. n = [k EXCEPT !.active = active, !.kernel = kernel, !.failed = failed]
  BY DEF sock_cb
<1>3. ASSUME k.failed = FALSE, changes \subseteq done PROVE active = kernel
  <2> SUFFICES ASSUME NEW f \in Filters
               PROVE  WithFd(k.active[f], s, want[f]) = IF f \in changes \cap done
                        THEN WithFd(k.kernel[f], s, want[f]) ELSE k.kernel[f]
    OBVIOUS
  <2>1. k.active[f] = k.kernel[f]
    BY <1>1, <1>3
  <2>2. CASE f \in changes
    BY <1>3, <2>1, <2>2
  <2>3. CASE f \notin changes
    <3>1. want[f] = (s \in k.active[f])
      BY <2>3
    <3>2. CASE want[f] = TRUE
      BY <2>1, <2>3, <3>1, <3>2 DEF WithFd
    <3>3. CASE want[f] = FALSE
      BY <2>1, <2>3, <3>1, <3>3 DEF WithFd
    <3> QED
      BY <3>2, <3>3
  <2> QED
    BY <2>2, <2>3
<1>4. failed \in BOOLEAN /\ (failed = FALSE => active = kernel)
  BY <1>1, <1>3
<1>5. /\ DOMAIN kernel = Filters /\ kernel = [f \in Filters |-> kernel[f]]
      /\ \A f \in Filters : kernel[f] \in {k.kernel[f], WithFd(k.kernel[f], s, want[f])}
  OBVIOUS
<1> HIDE DEF changes, kernel, active, failed
<1>6. n.active = active /\ n.kernel = kernel /\ n.failed = failed /\ DOMAIN n = DOMAIN k
  <2> HIDE DEF n
  <2> QED
    BY <1>1, <1>2
<1> HIDE DEF n
<1>7. IsSockCb(k, s, want, n)
  BY <1>4, <1>5, <1>6 DEF IsSockCb, active
<1> QED
  BY <1>7 DEF n

SockCall(when, s, r, w) == [when |-> when, s |-> s, want |-> [read |-> r, write |-> w]]

LEMMA Wants ==
  ASSUME NEW r \in BOOLEAN, NEW w \in BOOLEAN
  PROVE  /\ [read |-> r, write |-> w] \in [Filters -> BOOLEAN]
         /\ [read |-> r, write |-> w]["read"] = r /\ [read |-> r, write |-> w]["write"] = w
  BY DEF Filters

LEMMA CallOpens ==
  ASSUME NEW k, NEW F, Queue(k, F), NEW when \in BOOLEAN, NEW s, when = TRUE => s \in F,
         NEW w \in BOOLEAN, NEW done
  PROVE  Queue(AfterSockCall(k, SockCall(when, s, TRUE, w), done), F)
<1> DEFINE call == SockCall(when, s, TRUE, w)
<1>1. /\ call.when = when /\ call.s = s /\ call.want \in [Filters -> BOOLEAN]
      /\ call.want["read"] = TRUE
  <2> DEFINE want == [read |-> TRUE, write |-> w]
  <2>1. call.when = when /\ call.s = s /\ call.want = want
    BY DEF SockCall
  <2>2. want \in [Filters -> BOOLEAN] /\ want["read"] = TRUE
    BY Wants
  <2> HIDE DEF want, call
  <2> QED
    BY <2>1, <2>2
<1> HIDE DEF call
<1> DEFINE n == sock_cb(k, s, call.want, done)
<1>2. CASE when = FALSE
  <2>1. AfterSockCall(k, call, done) = k
    BY <1>1, <1>2 DEF AfterSockCall
  <2> QED
    BY <2>1 DEF call
<1>3. CASE when = TRUE
  <2>1. AfterSockCall(k, call, done) = n
    BY <1>1, <1>3 DEF AfterSockCall
  <2>2. /\ DOMAIN n = DOMAIN k
        /\ n.active = [f \in Filters |-> WithFd(k.active[f], s, call.want[f])]
        /\ n.kernel = [f \in Filters |-> n.kernel[f]]
        /\ \A f \in Filters : n.kernel[f] \in {k.kernel[f], WithFd(k.kernel[f], s, call.want[f])}
        /\ n.failed \in BOOLEAN
        /\ n.failed = FALSE => n.active = n.kernel
    <3>1. IsSockCb(k, s, call.want, n)
      BY <1>1, SockCbQueue
    <3> HIDE DEF n
    <3> QED
      BY <3>1 DEF IsSockCb
  <2> HIDE DEF n
  <2>3. \A f \in Filters : k.active[f] \in SUBSET F /\ k.kernel[f] \in SUBSET F
    BY DEF Queue
  <2>4. \A S \in SUBSET F : \A want : WithFd(S, s, want) \in SUBSET F
    BY <1>3 DEF WithFd
  <2>5. n.active \in [Filters -> SUBSET F]
    BY <2>2, <2>3, <2>4
  <2>6. n.kernel \in [Filters -> SUBSET F]
    <3>1. \A f \in Filters : n.kernel[f] \in SUBSET F
      BY <2>2, <2>3, <2>4
    <3> QED
      BY <2>2, <3>1
  <2>7. Queue(n, F)
    BY <2>2, <2>5, <2>6 DEF Queue
  <2> QED
    BY <2>1, <2>7 DEF call
<1> QED
  BY <1>2, <1>3

LEMMA CallCloses ==
  ASSUME NEW k, NEW F, Queue(k, F), NEW s, NEW done
  PROVE  /\ Queue(AfterSockCall(k, SockCall(TRUE, s, FALSE, FALSE), done), F \ {s})
         /\ AfterSockCall(k, SockCall(FALSE, s, FALSE, FALSE), done) = k
<1>1. AfterSockCall(k, SockCall(FALSE, s, FALSE, FALSE), done) = k
  BY DEF AfterSockCall, SockCall
<1> DEFINE call == SockCall(TRUE, s, FALSE, FALSE)
<1>2. /\ call.when = TRUE /\ call.s = s /\ call.want \in [Filters -> BOOLEAN]
      /\ call.want["read"] = FALSE /\ call.want["write"] = FALSE
  <2> DEFINE want == [read |-> FALSE, write |-> FALSE]
  <2>1. call.when = TRUE /\ call.s = s /\ call.want = want
    BY DEF SockCall
  <2>2. want \in [Filters -> BOOLEAN] /\ want["read"] = FALSE /\ want["write"] = FALSE
    BY Wants
  <2> HIDE DEF want, call
  <2> QED
    BY <2>1, <2>2
<1> HIDE DEF call
<1> DEFINE n == sock_cb(k, s, call.want, done)
           kernel == [f \in Filters |-> n.kernel[f] \ {s}]
           r == [n EXCEPT !.kernel = kernel]
<1>3. AfterSockCall(k, call, done) = r
  BY <1>2 DEF AfterSockCall
<1>4. /\ DOMAIN n = DOMAIN k
      /\ n.active = [f \in Filters |-> WithFd(k.active[f], s, call.want[f])]
      /\ n.kernel = [f \in Filters |-> n.kernel[f]]
      /\ \A f \in Filters : n.kernel[f] \in {k.kernel[f], WithFd(k.kernel[f], s, call.want[f])}
      /\ n.failed \in BOOLEAN
      /\ n.failed = FALSE => n.active = n.kernel
  <2>1. IsSockCb(k, s, call.want, n)
    BY <1>2, SockCbQueue
  <2> HIDE DEF n
  <2> QED
    BY <2>1 DEF IsSockCb
<1>5. DOMAIN k = {"active", "kernel", "failed", "batch", "processed"}
  BY DEF Queue
<1> HIDE DEF n
<1>6. \A f \in Filters : k.active[f] \in SUBSET F /\ k.kernel[f] \in SUBSET F
  BY DEF Queue
<1>7. \A f \in Filters : call.want[f] = FALSE
  BY <1>2 DEF Filters
<1>8. \A S : WithFd(S, s, FALSE) = S \ {s}
  BY DEF WithFd
<1>9. n.active = [f \in Filters |-> k.active[f] \ {s}]
  BY <1>4, <1>7, <1>8
<1>10. \A f \in Filters : kernel[f] = n.kernel[f] \ {s} /\ kernel[f] = k.kernel[f] \ {s}
  <2> TAKE f \in Filters
  <2>1. n.kernel[f] \in {k.kernel[f], k.kernel[f] \ {s}}
    BY <1>4, <1>7, <1>8
  <2>2. kernel[f] = n.kernel[f] \ {s}
    OBVIOUS
  <2> HIDE DEF kernel
  <2> QED
    BY <2>1, <2>2
<1>11. kernel \in [Filters -> SUBSET (F \ {s})]
  <2>1. \A f \in Filters : n.kernel[f] \ {s} \in SUBSET (F \ {s})
    BY <1>6, <1>10
  <2> QED
    BY <2>1
<1>12. n.active \in [Filters -> SUBSET (F \ {s})]
  BY <1>6, <1>9
<1>13. n.failed = FALSE => n.active = kernel
  <2> SUFFICES ASSUME n.failed = FALSE PROVE n.active = kernel
    OBVIOUS
  <2>1. n.active = n.kernel
    BY <1>4
  <2>2. \A f \in Filters : n.active[f] = k.active[f] \ {s}
    BY <1>9
  <2>3. \A f \in Filters : n.active[f] = n.active[f] \ {s}
    BY <2>2
  <2>4. \A f \in Filters : n.active[f] = kernel[f]
    BY <1>10, <2>1, <2>3
  <2>5. kernel = [f \in Filters |-> kernel[f]]
    OBVIOUS
  <2>6. n.active = [f \in Filters |-> n.active[f]]
    BY <1>9, <2>2
  <2> HIDE DEF kernel
  <2> QED
    BY <2>4, <2>5, <2>6
<1> HIDE DEF kernel
<1>14. DOMAIN r = DOMAIN k /\ r.kernel = kernel /\ r.active = n.active /\ r.failed = n.failed
  BY <1>4, <1>5
<1> HIDE DEF r
<1>15. Queue(r, F \ {s})
  BY <1>4, <1>5, <1>11, <1>12, <1>13, <1>14 DEF Queue
<1> QED
  BY <1>1, <1>3, <1>15 DEF call

(* After the calls of sock_cb on the way from the channel old to new the   *)
(* sets and the filters name sockets of new, if new keeps what it does not *)
(* close.                                                                  *)
LEMMA SockCallsFollow ==
  ASSUME NEW Q, NEW t \in Nat, NEW old, Channel(old, Q, t), NEW new, Channel(new, Q, t),
         NEW closes \in BOOLEAN, closes = TRUE \/ OpenFds(new) = {} \/ Keeps(old, new),
         NEW k, Queue(k, OpenFds(old)), NEW bad, NEW done
  PROVE  Queue(AfterSockCalls(k, SockCalls(old, closes, new), bad, done), OpenFds(new))
<1> DEFINE calls == SockCalls(old, closes, new)
           Done(i) == IF i = bad THEN done ELSE Filters
           Shut(kind) == (closes \/ OpenFds(new) = {}) /\ old.sock[kind] # BAD
           Fresh(kind) == new.sock[kind] # BAD /\ (closes \/ new.sock[kind] \notin OpenFds(old))
           Sends == new.sock["tcp"] # BAD /\ (Fresh("tcp") \/ new.unsent # old.unsent)
           k1 == AfterSockCall(k, calls[1], Done(1))
           k2 == AfterSockCall(k1, calls[2], Done(2))
           k3 == AfterSockCall(k2, calls[3], Done(3))
           k4 == AfterSockCall(k3, calls[4], Done(4))
           k5 == AfterSockCall(k4, calls[5], Done(5))
<1>1. /\ calls[1] = SockCall(Shut("udp"), old.sock["udp"], FALSE, FALSE)
      /\ calls[2] = SockCall(Shut("tcp"), old.sock["tcp"], FALSE, FALSE)
      /\ calls[3] = SockCall(Fresh("udp"), new.sock["udp"], TRUE, FALSE)
      /\ calls[4] = SockCall(Fresh("tcp"), new.sock["tcp"], TRUE, FALSE)
      /\ calls[5] = SockCall(Sends, new.sock["tcp"], TRUE, new.unsent)
  BY DEF SockCalls, SockCall
<1>2. AfterSockCalls(k, calls, bad, done) = k5
  BY DEF AfterSockCalls
<1>3. \A kind \in Kinds : new.sock[kind] # BAD => new.sock[kind] \in OpenFds(new)
  BY DEF OpenFds
<1>4. /\ Fresh("udp") => new.sock["udp"] \in OpenFds(new)
      /\ Fresh("tcp") => new.sock["tcp"] \in OpenFds(new)
      /\ Sends => new.sock["tcp"] \in OpenFds(new)
  BY <1>3 DEF Kinds
<1>5. new.unsent \in BOOLEAN
  BY DEF Channel
<1>6. Fresh("udp") \in BOOLEAN /\ Fresh("tcp") \in BOOLEAN /\ Sends \in BOOLEAN
  OBVIOUS
<1>7. ASSUME closes \/ OpenFds(new) = {} PROVE Queue(k2, {})
  <2>1. \A kind \in Kinds : Shut(kind) = (old.sock[kind] # BAD)
    BY <1>7
  <2>2. Queue(k1, OpenFds(old) \ {old.sock["udp"]})
    <3>1. CASE old.sock["udp"] = BAD
      <4>1. Shut("udp") = FALSE
        BY <3>1
      <4>2. calls[1] = SockCall(FALSE, old.sock["udp"], FALSE, FALSE)
        BY <1>1, <4>1
      <4>3. k1 = k
        BY <4>2, CallCloses
      <4>4. OpenFds(old) \ {old.sock["udp"]} = OpenFds(old)
        BY <3>1 DEF OpenFds
      <4> QED
        BY <4>3, <4>4
    <3>2. CASE old.sock["udp"] # BAD
      <4>1. Shut("udp") = TRUE
        BY <1>7, <3>2
      <4>2. calls[1] = SockCall(TRUE, old.sock["udp"], FALSE, FALSE)
        BY <1>1, <4>1
      <4> QED
        BY <4>2, CallCloses
    <3> QED
      BY <3>1, <3>2
  <2> DEFINE F == OpenFds(old) \ {old.sock["udp"]}
  <2> HIDE DEF k1
  <2>3. Queue(k2, F \ {old.sock["tcp"]})
    <3>1. CASE old.sock["tcp"] = BAD
      <4>1. Shut("tcp") = FALSE
        BY <3>1
      <4>2. calls[2] = SockCall(FALSE, old.sock["tcp"], FALSE, FALSE)
        BY <1>1, <4>1
      <4>3. k2 = k1
        BY <2>2, <4>2, CallCloses
      <4>4. F \ {old.sock["tcp"]} = F
        BY <3>1 DEF OpenFds
      <4> QED
        BY <2>2, <4>3, <4>4
    <3>2. CASE old.sock["tcp"] # BAD
      <4>1. Shut("tcp") = TRUE
        BY <1>7, <3>2
      <4>2. calls[2] = SockCall(TRUE, old.sock["tcp"], FALSE, FALSE)
        BY <1>1, <4>1
      <4> QED
        BY <2>2, <4>2, CallCloses
    <3> QED
      BY <3>1, <3>2
  <2>4. F \ {old.sock["tcp"]} = {}
    BY DEF OpenFds, Kinds
  <2> QED
    BY <2>3, <2>4
<1>8. ASSUME ~(closes \/ OpenFds(new) = {}) PROVE Queue(k2, OpenFds(old))
  <2>1. Shut("udp") = FALSE /\ Shut("tcp") = FALSE
    BY <1>8
  <2>2. /\ calls[1] = SockCall(FALSE, old.sock["udp"], FALSE, FALSE)
        /\ calls[2] = SockCall(FALSE, old.sock["tcp"], FALSE, FALSE)
    BY <1>1, <2>1
  <2>3. k1 = k
    BY <2>2, CallCloses
  <2> HIDE DEF k1
  <2>4. k2 = k
    BY <2>2, <2>3, CallCloses
  <2> QED
    BY <2>4
<1>9. Queue(k2, OpenFds(new))
  <2>1. CASE closes \/ OpenFds(new) = {}
    BY <1>7, <2>1, QueueGrows
  <2>2. CASE ~(closes \/ OpenFds(new) = {})
    <3>1. Keeps(old, new)
      BY <2>2
    <3>2. OpenFds(old) \subseteq OpenFds(new)
      BY <3>1 DEF Keeps, OpenFds
    <3> QED
      BY <1>8, <2>2, <3>2, QueueGrows
  <2> QED
    BY <2>1, <2>2
<1> HIDE DEF k2, Fresh, Sends
<1>10. Queue(k3, OpenFds(new))
  BY <1>1, <1>4, <1>6, <1>9, CallOpens
<1> HIDE DEF k3
<1>11. Queue(k4, OpenFds(new))
  BY <1>1, <1>4, <1>6, <1>10, CallOpens
<1> HIDE DEF k4
<1>12. Queue(k5, OpenFds(new))
  BY <1>1, <1>4, <1>5, <1>6, <1>11, CallOpens
<1> QED
  BY <1>2, <1>12

-----------------------------------------------------------------------------
(* The callbacks *)

LEMMA StagesOfMain ==
  ASSUME prog \in DOMAIN Programs
  PROVE  /\ prog # "none"
         /\ Len(Main.stages) \in Nat /\ Len(Main.stages) > 0
         /\ DOMAIN Main.stages = 1..Len(Main.stages)
         /\ Main.tries \in Nat /\ Main.tries \in 1..Main.tries
         /\ Main.kqueue \in BOOLEAN /\ Main.stayopen \in BOOLEAN
<1>1. Runs(Main, Staged) /\ prog # "none"
  BY ProgramsRun DEF Main
<1>2. Main.stages \in Seq(Staged) /\ Len(Main.stages) > 0 /\ Main.tries \in Nat \ {0}
  BY <1>1 DEF Runs
<1>3. Main.kqueue \in BOOLEAN /\ Main.stayopen \in BOOLEAN
  BY <1>1 DEF Runs
<1>4. Main.tries \in 1..Main.tries
  BY <1>2
<1>5. Len(Main.stages) \in Nat /\ DOMAIN Main.stages = 1..Len(Main.stages)
  BY <1>2
<1> QED
  BY <1>1, <1>2, <1>3, <1>4, <1>5

(* A query belongs to the stage it names. *)
LEMMA QueriesOfStage ==
  ASSUME prog \in DOMAIN Programs
  PROVE  /\ \A q \in AllQueries : /\ q[1] \in 1..Len(Main.stages)
                                  /\ q[2] \in DOMAIN Main.stages[q[1]].calls
         /\ \A s \in 1..Len(Main.stages) : /\ QueriesOf(s) \subseteq AllQueries
                                           /\ \A q \in QueriesOf(s) : q[1] = s
                                           /\ \A q \in AllQueries : q[1] = s => q \in QueriesOf(s)
<1>1. DOMAIN Main.stages = 1..Len(Main.stages)
  BY StagesOfMain
<1>2. \A s : \A q \in QueriesOf(s) : q[1] = s /\ q[2] \in DOMAIN Main.stages[s].calls
  BY DEF QueriesOf
<1>3. \A q \in AllQueries : \E s \in 1..Len(Main.stages) : q \in QueriesOf(s)
  BY <1>1 DEF AllQueries
<1>4. \A s \in 1..Len(Main.stages) : QueriesOf(s) \subseteq AllQueries
  BY <1>1 DEF AllQueries
<1>5. \A q \in AllQueries : /\ q[1] \in 1..Len(Main.stages)
                            /\ q[2] \in DOMAIN Main.stages[q[1]].calls
  BY <1>2, <1>3
<1>6. \A s \in 1..Len(Main.stages) : \A q \in AllQueries : q[1] = s => q \in QueriesOf(s)
  BY <1>2, <1>3
<1> QED
  BY <1>2, <1>4, <1>5, <1>6

(* Callbacks free what they are given, but for the names of get_ttl. *)
LEMMA CallbacksFree ==
  ASSUME prog \in DOMAIN Programs, NEW q \in AllQueries, NEW result
  PROVE  /\ Leaves(q, result) \subseteq {"question", "answer"}
         /\ prog # "ttl" => Leaves(q, result) = {}
<1> DEFINE callback == Main.stages[q[1]].calls[q[2]]
<1>1. q[1] \in DOMAIN Main.stages /\ q[2] \in DOMAIN Main.stages[q[1]].calls
  BY QueriesOfStage, StagesOfMain
<1>2. callback \in {"host", "addrinfo", "reply", "ttl"}
  <2>1. Main.stages \in Seq(Staged)
    BY ProgramsRun DEF Main, Runs
  <2>2. Main.stages[q[1]] \in Staged
    BY <1>1, <2>1
  <2> QED
    BY <1>1, <2>2 DEF Staged
<1>3. prog # "ttl" => callback \in {"host", "addrinfo", "reply"}
  <2> SUFFICES ASSUME prog # "ttl" PROVE callback \in {"host", "addrinfo", "reply"}
    OBVIOUS
  <2>1. Main.stages \in Seq(Quiet)
    BY ProgramsRun DEF Main, Runs
  <2>2. Main.stages[q[1]] \in Quiet
    BY <1>1, <2>1
  <2> QED
    BY <1>1, <2>2 DEF Quiet
<1> DEFINE c == Callback(q, result[1], result[2])
<1>4. Leaves(q, result) = c.gets \ c.frees
  BY DEF Leaves
<1>5. CASE callback = "host"
  <2>1. c = HostCallback(result[1], result[2])
    BY <1>5 DEF Callback
  <2> HIDE DEF c
  <2> QED
    BY <1>4, <2>1 DEF HostCallback
<1>6. CASE callback = "addrinfo"
  <2>1. c = AddrinfoCallback(result[1], result[2])
    BY <1>6 DEF Callback
  <2> HIDE DEF c
  <2>2. c.gets \subseteq {"addrinfo"} /\ c.frees = {"addrinfo"}
    BY <2>1 DEF AddrinfoCallback, Allocates
  <2> QED
    BY <1>4, <2>2
<1>7. CASE callback = "reply"
  <2>1. c = ReplyCallback(result[1], result[2])
    BY <1>7 DEF Callback
  <2> HIDE DEF c
  <2>2. c.gets = c.frees
    BY <2>1 DEF ReplyCallback
  <2> QED
    BY <1>4, <2>2
<1>8. CASE callback = "ttl"
  <2>1. c = TtlCallback(result[1], result[2])
    BY <1>8 DEF Callback
  <2>2. prog = "ttl"
    BY <1>3, <1>8
  <2> DEFINE g == get_ttl(result[2])
             parse == ReplyCallback(g.status, result[2])
  <2>3. g.gets \subseteq {"question", "answer"}
    BY DEF get_ttl, Allocates
  <2>4. parse.gets = parse.frees
    BY DEF ReplyCallback
  <2>5. CASE result[1] # "ARES_SUCCESS"
    <3>1. c.gets = {}
      BY <2>1, <2>5 DEF TtlCallback
    <3> QED
      BY <1>4, <2>2, <3>1
  <2>6. CASE result[1] = "ARES_SUCCESS"
    <3>1. c = [gets |-> g.gets \cup parse.gets, frees |-> g.frees \cup parse.frees]
      BY <2>1, <2>6 DEF TtlCallback
    <3> HIDE DEF c, g, parse
    <3>2. c.gets = g.gets \cup parse.gets /\ c.frees = g.frees \cup parse.frees
      BY <3>1
    <3> QED
      BY <1>4, <2>2, <2>3, <2>4, <3>2
  <2> QED
    BY <2>5, <2>6
<1> QED
  BY <1>2, <1>5, <1>6, <1>7, <1>8

-----------------------------------------------------------------------------
(* The inductive invariant *)

(* main() has asked for q. *)
Reached(q) ==
  \/ q[1] < stage
  \/ q[1] = stage /\ pc \in {"wait", "next", "destroy", "cleanup", "exit_0"}

Calls ==
  {"none", "kqueue", "library_init", "init_options", "ask", "send", "wait", "next",
   "destroy", "cleanup", "exit_0", "exit_1"}

AresTyped ==
  /\ prog \in {"none"} \cup DOMAIN Programs
  /\ pc \in Calls
  /\ prog = "none" <=> pc = "none"
  /\ prog = "none" => stage = 1 /\ lib = ClosedChannel /\ called = << >>

AresStages ==
  prog # "none" =>
    /\ stage \in 1..Len(Main.stages)
    /\ pc \in {"destroy", "cleanup", "exit_0"} => stage = Len(Main.stages)

(* Every query that is pending has its socket; at the end all is closed. *)
AresChannel ==
  prog # "none" =>
    /\ Channel(lib, AllQueries, Main.tries)
    /\ Connected(lib, Pending(lib))
    /\ pc \in {"cleanup", "exit_0"} => Pending(lib) = {} /\ OpenFds(lib) = {}

(* The callback of a query has run if main() asked for it and it is not    *)
(* pending any more.                                                       *)
AresCalled ==
  prog # "none" =>
    /\ DOMAIN called = AllQueries
    /\ \A q \in AllQueries :
         /\ q \in Pending(lib) => Reached(q)
         /\ called[q] = IF Reached(q) /\ q \notin Pending(lib) THEN 1 ELSE 0

AresQueue ==
  /\ Queue(kq, OpenFds(lib))
  /\ prog = "none" \/ Main.kqueue = FALSE => kq.active = NoFilters /\ kq.kernel = NoFilters

AresHeld ==
  /\ held \subseteq {"library", "channel", "query", "question", "answer"}
  /\ pc \in {"destroy", "cleanup", "exit_0"} => "query" \notin held
  /\ pc = "exit_0" => "library" \notin held /\ "channel" \notin held
  /\ prog # "ttl" => "question" \notin held /\ "answer" \notin held

AresInv ==
  /\ AresTyped /\ AresStages /\ AresChannel /\ AresCalled /\ AresQueue /\ AresHeld
  /\ WaitsForAnswers

LEMMA AresInitially ==
  Init => AresInv
<1> SUFFICES ASSUME Init PROVE AresInv
  OBVIOUS
<1>1. AresTyped /\ AresStages /\ AresChannel /\ AresCalled /\ AresHeld /\ WaitsForAnswers
  BY DEF Init, AresTyped, AresStages, AresChannel, AresCalled, AresHeld, WaitsForAnswers, Calls
<1>2. Queue(kq, OpenFds(lib)) /\ kq.active = NoFilters /\ kq.kernel = NoFilters
  BY DEF Init, Queue, NoFilters
<1> QED
  BY <1>1, <1>2 DEF AresInv, AresQueue

(* What a step of c-ares does to the sets and to what is held. *)
LEMMA ChannelStepDoes ==
  ASSUME AresInv, prog # "none", prog' = prog, NEW closes \in BOOLEAN, NEW l, NEW ended, NEW k,
         ChannelStep(closes, l, ended, k),
         Channel(l, AllQueries, Main.tries),
         closes = TRUE \/ OpenFds(l) = {} \/ Keeps(lib, l),
         DOMAIN ended \subseteq AllQueries,
         DOMAIN k = DOMAIN kq, k.active = kq.active, k.kernel = kq.kernel, k.failed = kq.failed
  PROVE  /\ lib' = l
         /\ AresQueue'
         /\ held \subseteq held' /\ held' \subseteq held \cup {"question", "answer"}
         /\ prog # "ttl" => held' = held
         /\ DOMAIN called' = AllQueries
         /\ \A q \in AllQueries :
              called'[q] = called[q] + (IF q \in DOMAIN ended THEN 1 ELSE 0)
<1>1. prog \in DOMAIN Programs /\ Main' = Main
  BY DEF AresInv, AresTyped, Main
<1>2. /\ lib' = l
      /\ called' = [q \in DOMAIN called |-> called[q] + (IF q \in DOMAIN ended THEN 1 ELSE 0)]
      /\ held' = held \cup UNION {Leaves(q, ended[q]) : q \in DOMAIN ended}
  BY DEF ChannelStep
<1>3. Main.kqueue \in BOOLEAN /\ Main.tries \in Nat
  BY <1>1, StagesOfMain
<1>4. DOMAIN called = AllQueries
  BY DEF AresInv, AresCalled
<1>5. Queue(k, OpenFds(lib))
  BY DEF AresInv, AresQueue, Queue
<1>6. AresQueue'
  <2>1. CASE Main.kqueue = FALSE
    <3>1. kq' = k
      BY <2>1 DEF ChannelStep
    <3>2. kq.active = NoFilters /\ kq.kernel = NoFilters
      BY <2>1 DEF AresInv, AresQueue
    <3>3. Queue(k, OpenFds(l))
      BY <1>5, <3>2 DEF Queue, NoFilters
    <3> QED
      BY <1>2, <3>1, <3>2, <3>3 DEF AresQueue, NoFilters
  <2>2. CASE Main.kqueue = TRUE
    <3>1. PICK bad \in 1..5, done \in {{}, {"read"}, Filters} :
            kq' = AfterSockCalls(k, SockCalls(lib, closes, l), bad, done)
      BY <2>2 DEF ChannelStep
    <3>2. Channel(lib, AllQueries, Main.tries)
      BY DEF AresInv, AresChannel
    <3>3. Queue(kq', OpenFds(l))
      BY <1>3, <1>5, <3>1, <3>2, SockCallsFollow
    <3> QED
      BY <1>1, <1>2, <2>2, <3>3 DEF AresQueue
  <2> QED
    BY <1>3, <2>1, <2>2
<1>7. \A q \in DOMAIN ended : /\ Leaves(q, ended[q]) \subseteq {"question", "answer"}
                              /\ prog # "ttl" => Leaves(q, ended[q]) = {}
  BY <1>1, CallbacksFree
<1>8. /\ held \subseteq held' /\ held' \subseteq held \cup {"question", "answer"}
      /\ prog # "ttl" => held' = held
  BY <1>2, <1>7
<1> QED
  BY <1>2, <1>4, <1>6, <1>8

-----------------------------------------------------------------------------
(* The steps of c-ares while main() waits *)

(* The sets of k are those of the queue. *)
SameSets(k) ==
  /\ DOMAIN k = DOMAIN kq /\ k.active = kq.active /\ k.kernel = kq.kernel /\ k.failed = kq.failed

LEMMA RoundKeeps ==
  ASSUME AresInv, pc = "wait", UNCHANGED << prog, pc, stage >>,
         NEW closes \in BOOLEAN, NEW l, NEW ended, NEW k, SameSets(k),
         ChannelStep(closes, l, ended, k),
         Channel(l, AllQueries, Main.tries), Connected(l, Pending(l)),
         closes = TRUE \/ OpenFds(l) = {} \/ Keeps(lib, l),
         DOMAIN ended \subseteq Pending(lib), Pending(l) = Pending(lib) \ DOMAIN ended
  PROVE  AresInv'
<1>1. prog # "none" /\ prog' = prog /\ pc' = pc /\ stage' = stage
  BY DEF AresInv, AresTyped
<1>2. Main' = Main /\ AllQueries' = AllQueries
  BY <1>1 DEF Main, AllQueries, QueriesOf
<1>3. Pending(lib) \subseteq AllQueries
  BY <1>1 DEF AresInv, AresChannel, Channel
<1>4. /\ lib' = l
      /\ AresQueue'
      /\ held \subseteq held' /\ held' \subseteq held \cup {"question", "answer"}
      /\ prog # "ttl" => held' = held
      /\ DOMAIN called' = AllQueries
      /\ \A q \in AllQueries :
           called'[q] = called[q] + (IF q \in DOMAIN ended THEN 1 ELSE 0)
  BY <1>1, <1>3, ChannelStepDoes DEF SameSets
<1>5. AresTyped' /\ AresStages'
  BY <1>1, <1>2 DEF AresInv, AresTyped, AresStages
<1>6. AresChannel'
  BY <1>1, <1>2, <1>4 DEF AresChannel
<1>7. AresCalled'
  <2>1. \A q : Reached(q)' = Reached(q)
    BY <1>1 DEF Reached
  <2>2. \A q \in AllQueries :
          /\ q \in Pending(l) => Reached(q)
          /\ called'[q] = IF Reached(q) /\ q \notin Pending(l) THEN 1 ELSE 0
    <3> TAKE q \in AllQueries
    <3>1. /\ q \in Pending(lib) => Reached(q)
          /\ called[q] = IF Reached(q) /\ q \notin Pending(lib) THEN 1 ELSE 0
      BY <1>1 DEF AresInv, AresCalled
    <3>2. CASE q \in DOMAIN ended
      BY <1>4, <3>1, <3>2
    <3>3. CASE q \notin DOMAIN ended
      BY <1>4, <3>1, <3>3
    <3> QED
      BY <3>2, <3>3
  <2> QED
    BY <1>2, <1>4, <2>1, <2>2 DEF AresCalled
<1>8. AresHeld' /\ WaitsForAnswers'
  BY <1>1, <1>4 DEF AresInv, AresHeld, WaitsForAnswers
<1> QED
  BY <1>4, <1>5, <1>6, <1>7, <1>8 DEF AresInv

(* The channel that main() waits on. *)
LEMMA WaitingChannel ==
  ASSUME AresInv, pc = "wait"
  PROVE  /\ prog \in DOMAIN Programs /\ Main.tries \in Nat
         /\ Channel(lib, AllQueries, Main.tries) /\ Connected(lib, Pending(lib))
<1>1. prog \in DOMAIN Programs /\ prog # "none"
  BY DEF AresInv, AresTyped
<1> QED
  BY <1>1, StagesOfMain DEF AresInv, AresChannel

LEMMA NothingKeeps ==
  ASSUME AresInv, pc = "wait", UNCHANGED << prog, pc, stage >>, NEW k, SameSets(k),
         NEW l, Channel(l, AllQueries, Main.tries), l.pending = lib.pending, l.sock = lib.sock,
         ChannelStep(FALSE, l, << >>, k)
  PROVE  AresInv'
<1>1. Connected(lib, Pending(lib))
  BY WaitingChannel
<1>2. Pending(l) = Pending(lib) /\ Connected(l, Pending(l)) /\ Keeps(lib, l)
  BY <1>1 DEF Pending, Connected, Keeps
<1>3. DOMAIN << >> \subseteq Pending(lib) /\ Pending(l) = Pending(lib) \ DOMAIN << >>
  BY <1>2
<1> QED
  BY <1>2, <1>3, RoundKeeps

LEMMA WriteKeeps ==
  ASSUME AresInv, pc = "wait", UNCHANGED << prog, pc, stage >>, NEW k, SameSets(k),
         WriteTcp(k)
  PROVE  AresInv'
<1>1. PICK l : l = [lib EXCEPT !.unsent = FALSE]
  OBVIOUS
<1>2. ChannelStep(FALSE, l, << >>, k)
  BY <1>1 DEF WriteTcp
<1>3. Channel(lib, AllQueries, Main.tries)
  BY WaitingChannel
<1>4. /\ DOMAIN l = DOMAIN lib /\ l.pending = lib.pending /\ l.sock = lib.sock
      /\ l.inbox = lib.inbox /\ l.unsent = FALSE
  BY <1>1, <1>3 DEF Channel
<1>5. Channel(l, AllQueries, Main.tries)
  BY <1>3, <1>4 DEF Channel, Pending
<1> QED
  BY <1>2, <1>4, <1>5, NothingKeeps

LEMMA AnswerKeeps ==
  ASSUME AresInv, pc = "wait", UNCHANGED << prog, pc, stage >>, NEW k, SameSets(k),
         NEW kind \in Kinds, NEW q, ReadAnswer(kind, q, k)
  PROVE  AresInv'
<1> DEFINE taken == [lib EXCEPT !.inbox[kind] = @ \ {q}]
<1>9. \/ ChannelStep(FALSE, taken, << >>, k)
      \/ /\ q \in Pending(lib)
         /\ ChannelStep(FALSE, Sent(taken, {q}, "tcp", [p \in {q} |-> taken.pending[p].tries]),
                        << >>, k)
      \/ /\ q \in Pending(lib)
         /\ \E result : ChannelStep(FALSE, Ended(taken, {q}), [p \in {q} |-> result], k)
  BY Zenon DEF ReadAnswer
<1>1. PICK l : l = taken
  OBVIOUS
<1>2. /\ Main.tries \in Nat /\ Channel(lib, AllQueries, Main.tries)
      /\ Connected(lib, Pending(lib))
  BY WaitingChannel
<1>3. Channel(l, AllQueries, Main.tries) /\ l.pending = lib.pending /\ l.sock = lib.sock
  <2>1. /\ DOMAIN l = DOMAIN lib /\ l.pending = lib.pending /\ l.sock = lib.sock
        /\ l.unsent = lib.unsent /\ l.inbox = [lib.inbox EXCEPT ![kind] = @ \ {q}]
    BY <1>1, <1>2 DEF Channel
  <2>2. DOMAIN l.inbox = Kinds /\ \A p \in Kinds : l.inbox[p] # {} => lib.inbox[p] # {}
    BY <1>2, <2>1 DEF Channel
  <2> QED
    BY <1>2, <2>1, <2>2 DEF Channel, Pending
<1>4. Pending(l) = Pending(lib) /\ Connected(l, Pending(l)) /\ Keeps(lib, l)
  BY <1>2, <1>3 DEF Pending, Connected, Keeps
<1>5. CASE ChannelStep(FALSE, l, << >>, k)
  BY <1>3, <1>5, NothingKeeps
<1>6. ASSUME q \in Pending(lib),
             ChannelStep(FALSE, Sent(l, {q}, "tcp", [p \in {q} |-> l.pending[p].tries]), << >>, k)
      PROVE  AresInv'
  <2> DEFINE tries == [p \in {q} |-> l.pending[p].tries]
  <2>1. PICK r : r = Sent(l, {q}, "tcp", tries)
    OBVIOUS
  <2>2. \A p \in {q} : tries[p] \in 1..Main.tries
    BY <1>2, <1>3, <1>4, <1>6 DEF Channel
  <2>3. {q} \in SUBSET AllQueries /\ "tcp" \in Kinds
    BY <1>2, <1>6 DEF Channel, Kinds
  <2> HIDE DEF tries
  <2>4. IsSent(l, {q}, "tcp", r, AllQueries, Main.tries)
    BY <1>2, <1>3, <2>1, <2>2, <2>3, SentIsPending
  <2>5. Channel(r, AllQueries, Main.tries) /\ Keeps(l, r) /\ Pending(r) = Pending(lib)
    BY <1>4, <1>6, <2>4 DEF IsSent
  <2>6. Connected(r, Pending(r))
    <3> SUFFICES ASSUME NEW p \in Pending(r) PROVE r.sock[r.pending[p].via] # BAD
      BY DEF Connected
    <3>1. CASE p = q
      BY <2>4, <3>1 DEF IsSent
    <3>2. CASE p # q
      <4>1. r.pending[p] = l.pending[p] /\ p \in Pending(l)
        BY <1>4, <2>4, <2>5, <3>2 DEF IsSent
      <4>2. l.sock[l.pending[p].via] # BAD /\ l.pending[p].via \in Kinds
        BY <1>3, <1>4, <4>1 DEF Connected, Channel
      <4> QED
        BY <2>5, <4>1, <4>2 DEF Keeps
    <3> QED
      BY <3>1, <3>2
  <2>7. Keeps(lib, r)
    BY <1>4, <2>5 DEF Keeps
  <2>8. DOMAIN << >> \subseteq Pending(lib) /\ Pending(r) = Pending(lib) \ DOMAIN << >>
    BY <2>5
  <2>9. ChannelStep(FALSE, r, << >>, k)
    BY <1>6, <2>1 DEF tries
  <2> QED
    BY <2>5, <2>6, <2>7, <2>8, <2>9, RoundKeeps
<1>7. ASSUME q \in Pending(lib), NEW result,
             ChannelStep(FALSE, Ended(l, {q}), [p \in {q} |-> result], k)
      PROVE  AresInv'
  <2>1. PICK r : r = Ended(l, {q})
    OBVIOUS
  <2>2. PICK ended : ended = [p \in {q} |-> result]
    OBVIOUS
  <2>3. IsEnded(l, {q}, r, AllQueries, Main.tries)
    BY <1>2, <1>3, <2>1, EndedIsOver
  <2>4. /\ Channel(r, AllQueries, Main.tries) /\ Pending(r) = Pending(lib) \ {q}
        /\ Connected(r, Pending(r))
        /\ Keeps(l, r) \/ OpenFds(r) = {}
    BY <1>4, <2>3 DEF IsEnded, Connected
  <2>5. Keeps(lib, r) \/ OpenFds(r) = {}
    BY <1>3, <2>4 DEF Keeps
  <2>6. DOMAIN ended = {q}
    BY <2>2
  <2>7. ChannelStep(FALSE, r, ended, k)
    BY <1>7, <2>1, <2>2
  <2>8. DOMAIN ended \subseteq Pending(lib) /\ Pending(r) = Pending(lib) \ DOMAIN ended
    BY <1>7, <2>4, <2>6
  <2> QED
    BY <2>4, <2>5, <2>7, <2>8, RoundKeeps
<1>8. \/ ChannelStep(FALSE, l, << >>, k)
      \/ /\ q \in Pending(lib)
         /\ ChannelStep(FALSE, Sent(l, {q}, "tcp", [p \in {q} |-> l.pending[p].tries]), << >>, k)
      \/ /\ q \in Pending(lib)
         /\ \E result : ChannelStep(FALSE, Ended(l, {q}), [p \in {q} |-> result], k)
  <2> HIDE DEF taken
  <2> QED
    BY <1>1, <1>9
<1> QED
  BY <1>5, <1>6, <1>7, <1>8

(* The queries of S have used a try up. *)
LEMMA AgainKeeps ==
  ASSUME AresInv, pc = "wait", UNCHANGED << prog, pc, stage >>, NEW k, SameSets(k),
         NEW closes \in BOOLEAN, NEW l, NEW S, S \subseteq Pending(lib), NEW status,
         Channel(l, AllQueries, Main.tries), l.pending = lib.pending,
         Connected(l, Pending(lib) \ S),
         closes = TRUE \/ l = lib,
         ChannelStep(closes, TriedAgain(l, lib, S), [q \in Exhausted(lib, S) |-> status], k)
  PROVE  AresInv'
<1>1. PICK r : r = TriedAgain(l, lib, S)
  OBVIOUS
<1>2. PICK ended : ended = [q \in Exhausted(lib, S) |-> status]
  OBVIOUS
<1>3. ChannelStep(closes, r, ended, k)
  BY <1>1, <1>2
<1>4. Main.tries \in Nat /\ Channel(lib, AllQueries, Main.tries)
  BY WaitingChannel
<1>5. IsEnded(l, Exhausted(lib, S), r, AllQueries, Main.tries) /\ Connected(r, Pending(r))
  BY <1>1, <1>4, TriedAgainIsPending
<1>6. DOMAIN ended = Exhausted(lib, S) /\ Exhausted(lib, S) \subseteq Pending(lib)
  BY <1>2 DEF Exhausted
<1>7. /\ Channel(r, AllQueries, Main.tries) /\ Pending(r) = Pending(lib) \ Exhausted(lib, S)
      /\ Keeps(l, r) \/ OpenFds(r) = {}
  BY <1>5 DEF IsEnded, Pending
<1>8. closes = TRUE \/ OpenFds(r) = {} \/ Keeps(lib, r)
  BY <1>7
<1>9. DOMAIN ended \subseteq Pending(lib) /\ Pending(r) = Pending(lib) \ DOMAIN ended
  BY <1>6, <1>7
<1> QED
  BY <1>3, <1>5, <1>7, <1>8, <1>9, RoundKeeps

LEMMA ReadErrorKeeps ==
  ASSUME AresInv, pc = "wait", UNCHANGED << prog, pc, stage >>, NEW k, SameSets(k),
         ReadError(k)
  PROVE  AresInv'
<1> DEFINE shut == [ClosedChannel EXCEPT !.pending = lib.pending]
<1>1. ChannelStep(TRUE, TriedAgain(shut, lib, Pending(lib)),
                  [q \in Exhausted(lib, Pending(lib)) |-> << "ARES_ECONNREFUSED", "none" >>], k)
  BY Zenon DEF ReadError
<1>2. PICK l : l = shut
  OBVIOUS
<1>3. PICK S : S = Pending(lib)
  OBVIOUS
<1>4. Main.tries \in Nat /\ Channel(lib, AllQueries, Main.tries)
  BY WaitingChannel
<1>5. l.pending = lib.pending /\ Channel(l, AllQueries, Main.tries)
  <2>1. Channel(ClosedChannel, {}, 0)
    BY ClosedIsChannel
  <2>2. /\ DOMAIN l = DOMAIN ClosedChannel /\ l.pending = lib.pending
        /\ l.sock = ClosedChannel.sock /\ l.unsent = ClosedChannel.unsent
        /\ l.inbox = ClosedChannel.inbox
    BY <1>2 DEF ClosedChannel
  <2> QED
    BY <1>4, <2>1, <2>2 DEF Channel, Pending
<1> HIDE DEF shut
<1>6. ChannelStep(TRUE, TriedAgain(l, lib, S),
                  [q \in Exhausted(lib, S) |-> << "ARES_ECONNREFUSED", "none" >>], k)
  BY <1>1, <1>2, <1>3
<1>7. S \subseteq Pending(lib) /\ Connected(l, Pending(lib) \ S)
  BY <1>3 DEF Connected
<1> QED
  BY <1>5, <1>6, <1>7, AgainKeeps

LEMMA TimeOutKeeps ==
  ASSUME AresInv, pc = "wait", UNCHANGED << prog, pc, stage >>, NEW k, SameSets(k),
         NEW q \in Pending(lib), TimeOut(q, k)
  PROVE  AresInv'
<1>1. PICK l : l = lib
  OBVIOUS
<1>2. Channel(lib, AllQueries, Main.tries) /\ Connected(lib, Pending(lib))
  BY WaitingChannel
<1>3. ChannelStep(FALSE, TriedAgain(l, lib, {q}),
                  [e \in Exhausted(lib, {q}) |-> << "ARES_ETIMEOUT", "none" >>], k)
  BY <1>1, Zenon DEF TimeOut
<1>4. Connected(l, Pending(lib) \ {q}) /\ {q} \subseteq Pending(lib)
  BY <1>1, <1>2 DEF Connected
<1> QED
  BY <1>1, <1>2, <1>3, <1>4, AgainKeeps

-----------------------------------------------------------------------------
(* The steps that call no callback *)

(* A step of main(), kevent() or the server. *)
LEMMA MainKeeps ==
  ASSUME AresInv, prog # "none", UNCHANGED << prog, called >>,
         lib'.pending = lib.pending, lib'.sock = lib.sock,
         Channel(lib, AllQueries, Main.tries) => Channel(lib', AllQueries, Main.tries),
         DOMAIN kq' = DOMAIN kq, kq'.active = kq.active, kq'.kernel = kq.kernel,
         kq'.failed = kq.failed,
         pc' \in Calls \ {"none"}, stage' \in 1..Len(Main.stages),
         pc' \in {"destroy", "cleanup", "exit_0"} => stage' = Len(Main.stages),
         pc' \in {"cleanup", "exit_0"} => pc \in {"cleanup", "exit_0"},
         \A q \in AllQueries : Reached(q)' <=> Reached(q),
         pc' \in {"next", "destroy"} => Pending(lib) = {} \/ Main.kqueue = TRUE,
         AresHeld'
  PROVE  AresInv'
<1>1. prog \in DOMAIN Programs /\ prog' = prog /\ called' = called
  BY DEF AresInv, AresTyped
<1>2. Main' = Main /\ AllQueries' = AllQueries
  BY <1>1 DEF Main, AllQueries, QueriesOf
<1>3. Pending(lib') = Pending(lib) /\ OpenFds(lib') = OpenFds(lib)
  BY DEF Pending, OpenFds
<1>4. AresTyped' /\ AresStages'
  BY <1>1, <1>2 DEF AresTyped, AresStages
<1>5. AresChannel'
  <2>1. /\ Channel(lib, AllQueries, Main.tries) /\ Connected(lib, Pending(lib))
        /\ pc \in {"cleanup", "exit_0"} => Pending(lib) = {} /\ OpenFds(lib) = {}
    BY DEF AresInv, AresChannel
  <2>2. Connected(lib', Pending(lib'))
    BY <1>3, <2>1 DEF Connected
  <2> QED
    BY <1>2, <1>3, <2>1, <2>2 DEF AresChannel
<1>6. AresCalled'
  <2>1. /\ DOMAIN called = AllQueries
        /\ \A q \in AllQueries :
             /\ q \in Pending(lib) => Reached(q)
             /\ called[q] = IF Reached(q) /\ q \notin Pending(lib) THEN 1 ELSE 0
    BY DEF AresInv, AresCalled
  <2>2. \A q \in AllQueries :
          /\ q \in Pending(lib') => Reached(q)'
          /\ called'[q] = IF Reached(q)' /\ q \notin Pending(lib') THEN 1 ELSE 0
    BY <1>1, <1>3, <2>1
  <2> QED
    BY <1>1, <1>2, <2>1, <2>2 DEF AresCalled
<1>7. AresQueue'
  BY <1>1, <1>2, <1>3 DEF AresInv, AresQueue, Queue
<1>8. WaitsForAnswers'
  BY <1>2, <1>3 DEF WaitsForAnswers
<1> QED
  BY <1>4, <1>5, <1>6, <1>7, <1>8 DEF AresInv

(* What every state has while a program runs. *)
LEMMA Running ==
  ASSUME AresInv, pc # "none"
  PROVE  /\ prog \in DOMAIN Programs /\ prog # "none"
         /\ Len(Main.stages) \in Nat /\ stage \in 1..Len(Main.stages)
         /\ Main.tries \in Nat /\ Main.kqueue \in BOOLEAN
         /\ Channel(lib, AllQueries, Main.tries) /\ Connected(lib, Pending(lib))
         /\ \A q \in AllQueries : q[1] \in 1..Len(Main.stages)
<1>1. prog \in DOMAIN Programs /\ prog # "none"
  BY DEF AresInv, AresTyped
<1>2. stage \in 1..Len(Main.stages)
  BY <1>1 DEF AresInv, AresStages
<1>3. Channel(lib, AllQueries, Main.tries) /\ Connected(lib, Pending(lib))
  BY <1>1 DEF AresInv, AresChannel
<1> QED
  BY <1>1, <1>2, <1>3, StagesOfMain, QueriesOfStage

LEMMA InitialiseKeeps ==
  ASSUME AresInv, NEW from \in {"kqueue", "library_init", "init_options", "ask"},
         NEW to \in {"library_init", "init_options", "ask", "send"},
         NEW gets \in SUBSET {"library", "channel", "query"},
         Initialise(from, to, gets)
  PROVE  AresInv'
<1>1. /\ pc = from /\ pc' \in {to, "exit_1"}
      /\ held \subseteq held' /\ held' \subseteq held \cup gets
      /\ UNCHANGED << prog, stage, lib, called, kq >>
  BY DEF Initialise
<1>2. /\ prog # "none" /\ stage \in 1..Len(Main.stages)
      /\ pc' \in {"library_init", "init_options", "ask", "send", "exit_1"}
  BY <1>1, Running
<1>3. \A q \in AllQueries : Reached(q)' <=> Reached(q)
  BY <1>1, <1>2 DEF Reached
<1>4. AresHeld'
  BY <1>1, <1>2 DEF AresInv, AresHeld
<1>5. pc' \in Calls \ {"none"} /\ pc' \notin {"destroy", "cleanup", "exit_0", "next"}
  BY <1>2 DEF Calls
<1> QED
  BY <1>1, <1>2, <1>3, <1>4, <1>5, MainKeeps

LEMMA SetupKeeps ==
  ASSUME AresInv, OpenQueue \/ LibraryInit \/ InitOptions \/ CreateQuery
  PROVE  AresInv'
  BY InitialiseKeeps DEF OpenQueue, LibraryInit, InitOptions, CreateQuery

(* wait_ares returns. *)
LEMMA WaitEndKeeps ==
  ASSUME AresInv, SelectDone \/ KeventTimesOut \/ KeventFails
  PROVE  AresInv'
<1>1. /\ pc = "wait" /\ pc' = "next" /\ UNCHANGED << prog, stage, lib, called, held, kq >>
      /\ ares_fds(lib) = {} \/ Main.kqueue
  BY DEF SelectDone, KeventTimesOut, KeventFails, InKevent
<1>2. /\ prog # "none" /\ stage \in 1..Len(Main.stages) /\ Main.kqueue \in BOOLEAN
      /\ Channel(lib, AllQueries, Main.tries) /\ Connected(lib, Pending(lib))
  BY <1>1, Running
<1>3. ares_fds(lib) = {} => Pending(lib) = {}
  <2> SUFFICES ASSUME NEW q \in Pending(lib) PROVE ares_fds(lib) # {}
    OBVIOUS
  <2>1. lib.pending[q].via \in Kinds /\ lib.sock[lib.pending[q].via] # BAD
    BY <1>2 DEF Channel, Connected
  <2>2. lib.pending[q].via \in ares_fds(lib)
    BY <2>1 DEF ares_fds
  <2> QED
    BY <2>2
<1>4. \A q \in AllQueries : Reached(q)' <=> Reached(q)
  BY <1>1 DEF Reached
<1>5. AresHeld'
  BY <1>1 DEF AresInv, AresHeld
<1>6. pc' \in Calls \ {"none"} /\ pc' \notin {"destroy", "cleanup", "exit_0"}
  BY <1>1 DEF Calls
<1>7. Pending(lib) = {} \/ Main.kqueue = TRUE
  BY <1>1, <1>2, <1>3
<1> QED
  BY <1>1, <1>2, <1>4, <1>5, <1>6, <1>7, MainKeeps

LEMMA KeventKeeps ==
  ASSUME AresInv, KeventReturns
  PROVE  AresInv'
<1>1. /\ pc = "wait" /\ UNCHANGED << prog, pc, stage, lib, called, held >>
  BY DEF KeventReturns, InKevent
<1>2. PICK batch : kq' = [kq EXCEPT !.batch = batch, !.processed = FALSE]
  BY DEF KeventReturns
<1>3. /\ DOMAIN kq' = DOMAIN kq /\ kq'.active = kq.active /\ kq'.kernel = kq.kernel
      /\ kq'.failed = kq.failed
  BY <1>2 DEF AresInv, AresQueue, Queue
<1>4. /\ prog # "none" /\ stage \in 1..Len(Main.stages)
  BY <1>1, Running
<1>5. \A q \in AllQueries : Reached(q)' <=> Reached(q)
  BY <1>1 DEF Reached
<1>6. AresHeld'
  BY <1>1 DEF AresInv, AresHeld
<1>7. pc' \in Calls \ {"none"} /\ pc' \notin {"destroy", "cleanup", "exit_0", "next"}
  BY <1>1 DEF Calls
<1> QED
  BY <1>1, <1>3, <1>4, <1>5, <1>6, <1>7, MainKeeps

LEMMA NextStageKeeps ==
  ASSUME AresInv, NextStage
  PROVE  AresInv'
<1>1. /\ pc = "next" /\ held' = held \ {"query"} /\ UNCHANGED << prog, lib, called, kq >>
      /\ \/ stage < Len(Main.stages) /\ stage' = stage + 1 /\ pc' = "ask"
         \/ ~(stage < Len(Main.stages)) /\ stage' = stage /\ pc' = "destroy"
  BY DEF NextStage
<1>2. /\ prog # "none" /\ stage \in 1..Len(Main.stages) /\ Len(Main.stages) \in Nat
      /\ Main.kqueue \in BOOLEAN /\ \A q \in AllQueries : q[1] \in 1..Len(Main.stages)
  BY <1>1, Running
<1>3. stage' \in 1..Len(Main.stages) /\ (pc' = "destroy" => stage' = Len(Main.stages))
  BY <1>1, <1>2
<1>4. \A q \in AllQueries : Reached(q)' <=> Reached(q)
  <2>1. CASE stage' = stage + 1 /\ pc' = "ask"
    BY <1>1, <1>2, <2>1 DEF Reached
  <2>2. CASE stage' = stage /\ pc' = "destroy"
    BY <1>1, <2>2 DEF Reached
  <2> QED
    BY <1>1, <2>1, <2>2
<1>5. AresHeld'
  BY <1>1 DEF AresInv, AresHeld
<1>6. pc' \in Calls \ {"none"} /\ pc' \notin {"cleanup", "exit_0", "next"}
  BY <1>1 DEF Calls
<1>7. Pending(lib) = {} \/ Main.kqueue = TRUE
  BY <1>1, <1>2 DEF AresInv, WaitsForAnswers
<1> QED
  BY <1>1, <1>2, <1>3, <1>4, <1>5, <1>6, <1>7, MainKeeps

LEMMA CleanupKeeps ==
  ASSUME AresInv, Cleanup
  PROVE  AresInv'
<1>1. /\ pc = "cleanup" /\ pc' = "exit_0" /\ held' = held \ {"library", "channel"}
      /\ UNCHANGED << prog, stage, lib, called, kq >>
  BY DEF Cleanup
<1>2. prog # "none" /\ stage \in 1..Len(Main.stages)
  BY <1>1, Running
<1>3. stage' = Len(Main.stages)
  BY <1>1, <1>2 DEF AresInv, AresStages
<1>4. \A q \in AllQueries : Reached(q)' <=> Reached(q)
  BY <1>1 DEF Reached
<1>5. AresHeld'
  BY <1>1 DEF AresInv, AresHeld
<1>6. pc' \in Calls \ {"none"} /\ pc' \notin {"next", "destroy"}
  BY <1>1 DEF Calls
<1> QED
  BY <1>1, <1>2, <1>3, <1>4, <1>5, <1>6, MainKeeps

(* The server answers or closes the connection. *)
LEMMA ServerKeeps ==
  ASSUME AresInv, Server
  PROVE  AresInv'
<1>1. /\ UNCHANGED << prog, pc, stage, called, held, kq >>
      /\ \E kind \in Kinds : lib.sock[kind] # BAD
  BY DEF Server, ServerCloses, Arrive, Kinds
<1>2. pc # "none"
  <2> SUFFICES ASSUME pc = "none" PROVE FALSE
    OBVIOUS
  <2>1. lib = ClosedChannel
    BY DEF AresInv, AresTyped
  <2>2. \A kind \in Kinds : lib.sock[kind] = BAD
    BY <2>1 DEF ClosedChannel
  <2> QED
    BY <1>1, <2>2
<1>3. /\ prog # "none" /\ stage \in 1..Len(Main.stages) /\ Main.kqueue \in BOOLEAN
      /\ Channel(lib, AllQueries, Main.tries)
  BY <1>2, Running
<1>4. /\ lib'.pending = lib.pending /\ lib'.sock = lib.sock
      /\ Channel(lib', AllQueries, Main.tries)
  <2>1. CASE ServerCloses
    <3>1. lib' = [lib EXCEPT !.eof = TRUE]
      BY <2>1 DEF ServerCloses
    <3>2. /\ DOMAIN lib' = DOMAIN lib /\ lib'.pending = lib.pending /\ lib'.sock = lib.sock
          /\ lib'.inbox = lib.inbox /\ lib'.unsent = lib.unsent
      BY <1>3, <3>1 DEF Channel
    <3> QED
      BY <1>3, <3>2 DEF Channel, Pending
  <2>2. ASSUME NEW kind \in Kinds, NEW q, Arrive(kind, q)
        PROVE  /\ lib'.pending = lib.pending /\ lib'.sock = lib.sock
               /\ Channel(lib', AllQueries, Main.tries)
    <3>1. lib' = [lib EXCEPT !.inbox[kind] = @ \cup {q}] /\ lib.sock[kind] # BAD
      BY <2>2 DEF Arrive
    <3>2. /\ DOMAIN lib' = DOMAIN lib /\ lib'.pending = lib.pending /\ lib'.sock = lib.sock
          /\ lib'.inbox = [lib.inbox EXCEPT ![kind] = @ \cup {q}] /\ lib'.unsent = lib.unsent
      BY <1>3, <3>1 DEF Channel
    <3>3. /\ DOMAIN lib'.inbox = Kinds
          /\ \A k \in Kinds : lib'.inbox[k] # {} => lib.sock[k] # BAD
      BY <1>3, <3>1, <3>2 DEF Channel
    <3> QED
      BY <1>3, <3>2, <3>3 DEF Channel, Pending
  <2> QED
    BY <2>1, <2>2 DEF Server
<1>5. \A q \in AllQueries : Reached(q)' <=> Reached(q)
  BY <1>1 DEF Reached
<1>6. AresHeld'
  BY <1>1 DEF AresInv, AresHeld
<1>7. /\ pc' \in Calls \ {"none"} /\ pc' = pc
      /\ pc \in {"destroy", "cleanup", "exit_0"} => stage = Len(Main.stages)
      /\ pc \in {"next", "destroy"} => Pending(lib) = {} \/ Main.kqueue = TRUE
  BY <1>1, <1>2, <1>3 DEF AresInv, AresTyped, AresStages, WaitsForAnswers
<1> QED
  BY <1>1, <1>3, <1>4, <1>5, <1>6, <1>7, MainKeeps

LEMMA StartKeeps ==
  ASSUME AresInv, NEW p \in DOMAIN Programs, Start(p)
  PROVE  AresInv'
<1> DEFINE Asked == UNION {{s} \X DOMAIN Programs[p].stages[s].calls :
                            s \in DOMAIN Programs[p].stages}
<1>1. /\ pc = "none" /\ prog' = p /\ pc' \in {"kqueue", "library_init"}
      /\ called' = [q \in Asked |-> 0]
      /\ UNCHANGED << stage, lib, held, kq >>
  BY DEF Start
<1>2. /\ prog = "none" /\ stage = 1 /\ lib = ClosedChannel
      /\ kq.active = NoFilters /\ kq.kernel = NoFilters /\ Queue(kq, OpenFds(lib))
  BY <1>1 DEF AresInv, AresTyped, AresQueue
<1>3. p # "none" /\ Runs(Programs[p], Staged)
  BY ProgramsRun
<1>4. /\ Len(Programs[p].stages) \in Nat /\ Len(Programs[p].stages) > 0
      /\ DOMAIN Programs[p].stages = 1..Len(Programs[p].stages)
      /\ Programs[p].tries \in Nat
  BY <1>3 DEF Runs
<1>5. \A q \in Asked : q[1] \in 1..Len(Programs[p].stages)
  BY <1>4
<1>6. Main' = Programs[p] /\ AllQueries' = Asked
  BY <1>1 DEF Main, AllQueries, QueriesOf
<1> HIDE DEF Asked
<1>7. AresTyped' /\ AresStages'
  BY <1>1, <1>2, <1>3, <1>4, <1>6 DEF AresTyped, AresStages, Calls
<1>8. AresChannel'
  <2>1. /\ Channel(ClosedChannel, Asked, Programs[p].tries) /\ Pending(ClosedChannel) = {}
    BY <1>4, ClosedIsChannel
  <2> QED
    BY <1>1, <1>2, <1>6, <2>1 DEF AresChannel, Connected
<1>9. AresCalled'
  <2>1. Pending(lib') = {}
    BY <1>1, <1>2, <1>4, ClosedIsChannel
  <2>2. \A q \in Asked : ~ Reached(q)'
    BY <1>1, <1>2, <1>4, <1>5 DEF Reached
  <2>3. DOMAIN called' = Asked /\ \A q \in Asked : called'[q] = 0
    BY <1>1
  <2> QED
    BY <1>6, <2>1, <2>2, <2>3 DEF AresCalled
<1>10. AresQueue'
  BY <1>1, <1>2 DEF AresQueue
<1>11. AresHeld' /\ WaitsForAnswers'
  BY <1>1, <1>2 DEF AresInv, AresHeld, WaitsForAnswers
<1> QED
  BY <1>7, <1>8, <1>9, <1>10, <1>11 DEF AresInv

-----------------------------------------------------------------------------
(* Asking and giving up *)

LEMMA AskKeeps ==
  ASSUME AresInv, Ask
  PROVE  AresInv'
<1> DEFINE Q == QueriesOf(stage)
           kind == IF Main.usevc THEN "tcp" ELSE "udp"
           tries == [q \in Q |-> Main.tries]
<1>1. /\ pc \in {"ask", "send"} /\ pc' = "wait" /\ prog' = prog /\ stage' = stage
  BY DEF Ask
<1>2. PICK now \in SUBSET Q : \E result :
        ChannelStep(FALSE, Sent(lib, Q \ now, kind, tries), [q \in now |-> result], kq)
  BY Zenon DEF Ask
<1>3. PICK result :
        ChannelStep(FALSE, Sent(lib, Q \ now, kind, tries), [q \in now |-> result], kq)
  BY <1>2
<1>4. /\ prog \in DOMAIN Programs /\ prog # "none" /\ stage \in 1..Len(Main.stages)
      /\ Len(Main.stages) \in Nat
      /\ Channel(lib, AllQueries, Main.tries) /\ Connected(lib, Pending(lib))
      /\ \A q \in AllQueries : q[1] \in 1..Len(Main.stages)
  BY <1>1, Running
<1>5. Main.tries \in Nat /\ Main.tries \in 1..Main.tries
  BY <1>4, StagesOfMain
<1>6. Q \subseteq AllQueries /\ \A q \in AllQueries : q \in Q <=> q[1] = stage
  BY <1>4, QueriesOfStage
<1>7. Main' = Main /\ AllQueries' = AllQueries
  BY <1>1 DEF Main, AllQueries, QueriesOf
<1>8. PICK l : l = Sent(lib, Q \ now, kind, tries)
  OBVIOUS
<1>9. PICK ended : ended = [q \in now |-> result]
  OBVIOUS
<1>10. ChannelStep(FALSE, l, ended, kq) /\ DOMAIN ended = now
  BY <1>3, <1>8, <1>9
<1>11. IsSent(lib, Q \ now, kind, l, AllQueries, Main.tries)
  <2>1. kind \in Kinds
    BY DEF Kinds
  <2>2. \A q \in Q \ now : tries[q] \in 1..Main.tries
    BY <1>5
  <2>3. Q \ now \in SUBSET AllQueries
    BY <1>6
  <2> HIDE DEF kind, tries, Q
  <2> QED
    BY <1>4, <1>5, <1>8, <2>1, <2>2, <2>3, SentIsPending
<1> HIDE DEF kind, tries, Q
<1>12. /\ Channel(l, AllQueries, Main.tries) /\ Keeps(lib, l)
       /\ Pending(l) = Pending(lib) \cup (Q \ now)
  BY <1>11 DEF IsSent
<1>13. Connected(l, Pending(l))
  <2> SUFFICES ASSUME NEW q \in Pending(l) PROVE l.sock[l.pending[q].via] # BAD
    BY DEF Connected
  <2>1. CASE q \in Q \ now
    BY <1>11, <2>1 DEF IsSent
  <2>2. CASE q \notin Q \ now
    <3>1. q \in Pending(lib) /\ l.pending[q] = lib.pending[q]
      BY <1>11, <1>12, <2>2 DEF IsSent
    <3>2. lib.sock[lib.pending[q].via] # BAD /\ lib.pending[q].via \in Kinds
      BY <1>4, <3>1 DEF Connected, Channel
    <3> QED
      BY <1>12, <3>1, <3>2 DEF Keeps
  <2> QED
    BY <2>1, <2>2
<1>14. DOMAIN ended \subseteq AllQueries
  BY <1>6, <1>10
<1>15. /\ lib' = l
       /\ AresQueue'
       /\ held \subseteq held' /\ held' \subseteq held \cup {"question", "answer"}
       /\ prog # "ttl" => held' = held
       /\ DOMAIN called' = AllQueries
       /\ \A q \in AllQueries :
            called'[q] = called[q] + (IF q \in DOMAIN ended THEN 1 ELSE 0)
  BY <1>1, <1>4, <1>10, <1>12, <1>14, ChannelStepDoes
<1>16. AresTyped' /\ AresStages'
  BY <1>1, <1>4, <1>7 DEF AresTyped, AresStages, Calls
<1>17. AresChannel'
  BY <1>1, <1>7, <1>12, <1>13, <1>15 DEF AresChannel
<1>18. AresCalled'
  <2>1. \A q \in AllQueries :
          /\ Reached(q) <=> q[1] < stage
          /\ Reached(q)' <=> q[1] < stage \/ q \in Q
    BY <1>1, <1>6 DEF Reached
  <2>2. \A q \in AllQueries : q \in Q => ~ Reached(q)
    BY <1>4, <1>6, <2>1
  <2>3. \A q \in AllQueries :
          /\ q \in Pending(l) => Reached(q)'
          /\ called'[q] = IF Reached(q)' /\ q \notin Pending(l) THEN 1 ELSE 0
    <3> TAKE q \in AllQueries
    <3>1. /\ q \in Pending(lib) => Reached(q)
          /\ called[q] = IF Reached(q) /\ q \notin Pending(lib) THEN 1 ELSE 0
      BY <1>4 DEF AresInv, AresCalled
    <3>2. called'[q] = called[q] + (IF q \in now THEN 1 ELSE 0)
      BY <1>10, <1>15
    <3>3. CASE q \in Q
      BY <1>12, <2>1, <2>2, <3>1, <3>2, <3>3
    <3>4. CASE q \notin Q
      BY <1>2, <1>12, <2>1, <3>1, <3>2, <3>4
    <3> QED
      BY <3>3, <3>4
  <2> QED
    BY <1>7, <1>15, <2>3 DEF AresCalled
<1>19. AresHeld' /\ WaitsForAnswers'
  BY <1>1, <1>15 DEF AresInv, AresHeld, WaitsForAnswers
<1> QED
  BY <1>15, <1>16, <1>17, <1>18, <1>19 DEF AresInv

(* ares_destroy calls the callbacks of the queries that are left. *)
LEMMA DestroyKeeps ==
  ASSUME AresInv, Destroy
  PROVE  AresInv'
<1>1. pc = "destroy" /\ pc' = "cleanup" /\ prog' = prog /\ stage' = stage
  BY DEF Destroy
<1>2. PICK ended : ended = [q \in Pending(lib) |-> << "ARES_EDESTRUCTION", "none" >>]
  OBVIOUS
<1>3. ChannelStep(TRUE, ClosedChannel, ended, kq) /\ DOMAIN ended = Pending(lib)
  BY <1>2 DEF Destroy
<1>4. /\ prog # "none" /\ Main.tries \in Nat /\ stage \in 1..Len(Main.stages)
      /\ Channel(lib, AllQueries, Main.tries)
  BY <1>1, Running
<1>5. Main' = Main /\ AllQueries' = AllQueries
  BY <1>1 DEF Main, AllQueries, QueriesOf
<1>6. /\ Channel(ClosedChannel, AllQueries, Main.tries) /\ Pending(ClosedChannel) = {}
      /\ OpenFds(ClosedChannel) = {}
  BY <1>4, ClosedIsChannel
<1>7. DOMAIN ended \subseteq AllQueries
  BY <1>3, <1>4 DEF Channel
<1>8. /\ lib' = ClosedChannel
      /\ AresQueue'
      /\ held \subseteq held' /\ held' \subseteq held \cup {"question", "answer"}
      /\ prog # "ttl" => held' = held
      /\ DOMAIN called' = AllQueries
      /\ \A q \in AllQueries :
           called'[q] = called[q] + (IF q \in DOMAIN ended THEN 1 ELSE 0)
  BY <1>1, <1>3, <1>4, <1>6, <1>7, ChannelStepDoes
<1>9. AresTyped' /\ AresStages'
  BY <1>1, <1>4, <1>5 DEF AresInv, AresTyped, AresStages, Calls
<1>10. AresChannel'
  BY <1>5, <1>6, <1>8 DEF AresChannel, Connected
<1>11. AresCalled'
  <2>1. \A q : Reached(q)' <=> Reached(q)
    BY <1>1 DEF Reached
  <2>2. \A q \in AllQueries : called'[q] = IF Reached(q) THEN 1 ELSE 0
    <3> TAKE q \in AllQueries
    <3>1. /\ q \in Pending(lib) => Reached(q)
          /\ called[q] = IF Reached(q) /\ q \notin Pending(lib) THEN 1 ELSE 0
      BY <1>4 DEF AresInv, AresCalled
    <3>2. called'[q] = called[q] + (IF q \in Pending(lib) THEN 1 ELSE 0)
      BY <1>3, <1>8
    <3> QED
      BY <3>1, <3>2
  <2> QED
    BY <1>5, <1>6, <1>8, <2>1, <2>2 DEF AresCalled
<1>12. AresHeld' /\ WaitsForAnswers'
  BY <1>1, <1>8 DEF AresInv, AresHeld, WaitsForAnswers
<1> QED
  BY <1>8, <1>9, <1>10, <1>11, <1>12 DEF AresInv

-----------------------------------------------------------------------------
(* Every step, and the theorems *)

LEMMA SelectRoundKeeps ==
  ASSUME AresInv, SelectRound
  PROVE  AresInv'
<1>1. UNCHANGED << prog, pc, stage >> /\ pc = "wait"
  BY DEF SelectRound, SelectReads, SelectEof, SelectWrites, SelectTimesOut, InSelect
<1>2. PICK k : k = kq
  OBVIOUS
<1>3. SameSets(k)
  BY <1>2 DEF SameSets
<1>4. CASE SelectReads
  <2>1. PICK kind, q : kind \in Kinds /\ ReadAnswer(kind, q, k)
    BY <1>2, <1>4 DEF SelectReads, ares_fds
  <2> QED
    BY <1>1, <1>3, <2>1, AnswerKeeps
<1>5. CASE SelectEof
  BY <1>1, <1>2, <1>3, <1>5, ReadErrorKeeps DEF SelectEof
<1>6. CASE SelectWrites
  BY <1>1, <1>2, <1>3, <1>6, WriteKeeps DEF SelectWrites
<1>7. CASE SelectTimesOut
  BY <1>1, <1>2, <1>3, <1>7, TimeOutKeeps DEF SelectTimesOut
<1> QED
  BY <1>4, <1>5, <1>6, <1>7 DEF SelectRound

LEMMA ProcessKeeps ==
  ASSUME AresInv, ProcessEvent \/ ProcessTimeout
  PROVE  AresInv'
<1>1. UNCHANGED << prog, pc, stage >> /\ pc = "wait"
  BY DEF ProcessEvent, ProcessTimeout
<1>2. CASE ProcessTimeout
  <2>1. PICK k : k = kq
    OBVIOUS
  <2>2. SameSets(k)
    BY <2>1 DEF SameSets
  <2> QED
    BY <1>1, <1>2, <2>1, <2>2, TimeOutKeeps DEF ProcessTimeout
<1>3. CASE ProcessEvent
  <2> DEFINE left == [kq EXCEPT !.batch = Tail(@), !.processed = TRUE]
  <2>1. \/ \E kind \in Kinds : \E q : ReadAnswer(kind, q, left)
        \/ ReadError(left) \/ WriteTcp(left)
        \/ ChannelStep(FALSE, lib, << >>, left)
    BY <1>3, Zenon DEF ProcessEvent
  <2>2. PICK k : k = left
    OBVIOUS
  <2>3. SameSets(k)
    BY <2>2 DEF SameSets, AresInv, AresQueue, Queue
  <2> HIDE DEF left
  <2>4. CASE \E kind \in Kinds : \E q : ReadAnswer(kind, q, left)
    BY <1>1, <2>2, <2>3, <2>4, AnswerKeeps
  <2>5. CASE ReadError(left)
    BY <1>1, <2>2, <2>3, <2>5, ReadErrorKeeps
  <2>6. CASE WriteTcp(left)
    BY <1>1, <2>2, <2>3, <2>6, WriteKeeps
  <2>7. CASE ChannelStep(FALSE, lib, << >>, left)
    <3>1. PICK l : l = lib
      OBVIOUS
    <3>2. Channel(lib, AllQueries, Main.tries)
      BY <1>1, WaitingChannel
    <3>3. ChannelStep(FALSE, l, << >>, k)
      BY <2>2, <2>7, <3>1
    <3> QED
      BY <1>1, <2>3, <3>1, <3>2, <3>3, NothingKeeps
  <2> QED
    BY <2>1, <2>4, <2>5, <2>6, <2>7
<1> QED
  BY <1>2, <1>3

LEMMA AresStep ==
  AresInv /\ [Next]_vars => AresInv'
<1> SUFFICES ASSUME AresInv, [Next]_vars PROVE AresInv'
  OBVIOUS
<1>1. CASE UNCHANGED vars
  <2>1. UNCHANGED << prog, pc, stage, lib, called, held, kq >>
    BY <1>1 DEF vars
  <2>2. Main' = Main /\ AllQueries' = AllQueries /\ \A q : Reached(q)' = Reached(q)
    BY <2>1 DEF Main, AllQueries, QueriesOf, Reached
  <2>3. AresTyped' /\ AresStages' /\ AresChannel'
    BY <2>1, <2>2 DEF AresInv, AresTyped, AresStages, AresChannel
  <2>4. AresCalled' /\ AresQueue'
    BY <2>1, <2>2 DEF AresInv, AresCalled, AresQueue
  <2>5. AresHeld' /\ WaitsForAnswers'
    BY <2>1, <2>2 DEF AresInv, AresHeld, WaitsForAnswers
  <2> QED
    BY <2>3, <2>4, <2>5 DEF AresInv
<1>2. CASE \E p \in DOMAIN Programs : Start(p)
  BY <1>2, StartKeeps
<1>3. CASE Setup
  BY <1>3, SetupKeeps, AskKeeps DEF Setup
<1>4. CASE Wait \/ KeventFails
  BY <1>4, SelectRoundKeeps, WaitEndKeeps, KeventKeeps, ProcessKeeps DEF Wait
<1>5. CASE NextStage
  BY <1>5, NextStageKeeps
<1>6. CASE Destroy
  BY <1>6, DestroyKeeps
<1>7. CASE Cleanup
  BY <1>7, CleanupKeeps
<1>8. CASE Server
  BY <1>8, ServerKeeps
<1> QED
  BY <1>1, <1>2, <1>3, <1>4, <1>5, <1>6, <1>7, <1>8 DEF Next, Program

(* What the invariant says of each property. *)
LEMMA AresMeans ==
  AresInv => TypeOK /\ OneCallback /\ WaitsForAnswers /\ SetsMatchKernel /\ ReleasedAtExit
<1> SUFFICES ASSUME AresInv
             PROVE  TypeOK /\ OneCallback /\ WaitsForAnswers /\ SetsMatchKernel /\ ReleasedAtExit
  OBVIOUS
<1>1. Queue(kq, OpenFds(lib))
  BY DEF AresInv, AresQueue
<1>2. SetsMatchKernel
  BY <1>1 DEF SetsMatchKernel, Queue
<1>3. TypeOK
  <2>1. prog # "none" =>
          /\ prog \in DOMAIN Programs /\ stage \in 1..Len(Main.stages)
          /\ Channel(lib, AllQueries, Main.tries) /\ Connected(lib, Pending(lib))
    BY DEF AresInv, AresTyped, AresStages, AresChannel
  <2>2. prog # "none" => stage \in DOMAIN Main.stages
    BY <2>1, StagesOfMain
  <2>3. prog # "none" =>
          /\ Pending(lib) \subseteq AllQueries
          /\ \A q \in Pending(lib) : /\ lib.pending[q].tries \in 1..Main.tries
                                    /\ lib.sock[lib.pending[q].via] # BAD
          /\ \A kind \in Kinds : lib.inbox[kind] # {} => lib.sock[kind] # BAD
          /\ lib.unsent => lib.sock["tcp"] # BAD
    BY <2>1 DEF Channel, Connected
  <2>4. \A kind \in Kinds : lib.sock[kind] \in Fds \cup {BAD}
    <3>1. CASE prog = "none"
      <4>1. lib = ClosedChannel
        BY <3>1 DEF AresInv, AresTyped
      <4> QED
        BY <4>1 DEF ClosedChannel
    <3>2. CASE prog # "none"
      BY <2>1, <3>2 DEF Channel
    <3> QED
      BY <3>1, <3>2
  <2>5. held \subseteq {"library", "channel", "query", "host", "addrinfo", "question", "answer"}
    BY DEF AresInv, AresHeld
  <2>6. prog \in {"none"} \cup DOMAIN Programs /\ pc \in Calls
    BY DEF AresInv, AresTyped
  <2> QED
    BY <2>2, <2>3, <2>4, <2>5, <2>6 DEF TypeOK, Calls
<1>4. OneCallback
  <2>1. CASE prog = "none"
    <3>1. DOMAIN called = {}
      BY <2>1 DEF AresInv, AresTyped
    <3> QED
      BY <3>1 DEF OneCallback
  <2>2. CASE prog # "none"
    <3> SUFFICES ASSUME NEW q \in DOMAIN called
                 PROVE  called[q] <= 1 /\ (pc = "exit_0" => called[q] = 1)
      BY DEF OneCallback
    <3>1. q \in AllQueries /\ called[q] = IF Reached(q) /\ q \notin Pending(lib) THEN 1 ELSE 0
      BY <2>2 DEF AresInv, AresCalled
    <3>2. ASSUME pc = "exit_0" PROVE Reached(q) /\ q \notin Pending(lib)
      <4>1. stage = Len(Main.stages) /\ Pending(lib) = {}
        BY <2>2, <3>2 DEF AresInv, AresStages, AresChannel
      <4>2. q[1] \in 1..Len(Main.stages) /\ Len(Main.stages) \in Nat
        BY <3>1, <3>2, Running
      <4>3. q[1] < stage \/ q[1] = stage
        BY <4>1, <4>2
      <4> QED
        BY <3>2, <4>1, <4>3 DEF Reached
    <3> QED
      BY <3>1, <3>2
  <2> QED
    BY <2>1, <2>2
<1>5. ReleasedAtExit
  <2>1. UNION {kq.kernel[f] : f \in Filters} \subseteq OpenFds(lib)
    BY <1>1 DEF Queue
  <2>2. ASSUME pc = "exit_0"
        PROVE  /\ held \subseteq {"question", "answer"}
               /\ held = {} \/ prog = "ttl"
               /\ OpenFds(lib) = {}
               /\ kq.active = NoFilters
    <3>1. held \subseteq {"question", "answer"} /\ (held = {} \/ prog = "ttl")
      BY <2>2 DEF AresInv, AresHeld
    <3>2. OpenFds(lib) = {}
      BY <2>2 DEF AresInv, AresTyped, AresChannel
    <3>3. kq.active = NoFilters
      BY <1>1, <3>2 DEF Queue, NoFilters
    <3> QED
      BY <3>1, <3>2, <3>3
  <2> QED
    BY <2>1, <2>2 DEF ReleasedAtExit
<1> QED
  BY <1>2, <1>3, <1>4, <1>5 DEF AresInv

LEMMA AresAlways ==
  FairSpec => []AresInv
  BY AresInitially, AresStep, PTL DEF FairSpec

(* Whatever is lost, late, repeated or closed, no callback of a lookup     *)
(* runs twice, and every one has run when main() returns 0.                *)
THEOREM CallbacksOnce == FairSpec => []OneCallback
  BY AresAlways, AresMeans, PTL

(* wait_ares of the programs that use select() returns when no query is    *)
(* pending.                                                                *)
THEOREM StagesWait == FairSpec => []WaitsForAnswers
  BY AresAlways, AresMeans, PTL

(* The sets that sock_cb keeps are the kernel's filters until kevent()     *)
(* refuses a change.                                                       *)
THEOREM SetsFollowKernel == FairSpec => []SetsMatchKernel
  BY AresAlways, AresMeans, PTL

(* The kernel has filters for open sockets only, and main() returns 0 with *)
(* nothing left but a name that get_ttl forgets.                           *)
THEOREM LookupsRelease == FairSpec => []ReleasedAtExit
  BY AresAlways, AresMeans, PTL
=============================================================================
