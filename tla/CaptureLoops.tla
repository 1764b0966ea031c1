---------------------------- MODULE CaptureLoops ----------------------------
(***************************************************************************)
(* The loops of ioloop/ that read packets with libpcap, from a capture     *)
(* file or from an interface, when an event loop says there are any.       *)
(*                                                                         *)
(* libpcap reads a file through stdio, "ReadAhead" packets at a time, and  *)
(* from BPF, where kqueue is, all that is queued for an interface; from    *)
(* the ring of Linux it takes single packets.  So the descriptor that the  *)
(* event loop watches can have nothing more to read while packets are in   *)
(* the buffer.  libpcap, libuv, libevent, asio and the kernel are          *)
(* external.  What is printed is left out.                                 *)
(***************************************************************************)
EXTENDS Integers

CONSTANTS
  MaxPackets,   \* bound: packets in a file, or that arrive at an interface
  ReadAhead,    \* packets that one read() of stdio takes
  MaxTimeouts   \* the timeouts after which kqueue.cc gives up: 50

VARIABLES
  prog,      \* the program that runs, or "none"
  pc,        \* "none", "open", "loop", "end" or "crash"
  backend,   \* what the event library waits with
  left,      \* packets in the file behind the descriptor's offset, or queued
  ahead,     \* packets in the buffer of stdio or libpcap
  intact,    \* the file does not end inside a packet
  fd,        \* was a descriptor obtained and registered?
  fault,     \* has the kernel reported an error?
  count,     \* the timeouts kqueue.cc has counted
  expected   \* packets that may still arrive at the interface

vars == << prog, pc, backend, left, ahead, intact, fd, fault, count, expected >>

-----------------------------------------------------------------------------
(* The programs: does it check what it opens, with what does it wait, and  *)
(* which results of pcap_dispatch or pcap_next end its loop?               *)

Offline(checks, waits, ends) ==
  [live |-> FALSE, checks |-> checks, waits |-> waits, ends |-> ends]
Live(checks, waits, ends) ==
  [live |-> TRUE, checks |-> checks, waits |-> waits, ends |-> ends]

pcap_poll == Offline(TRUE, "watcher", {0})
pcap_idle == Offline(TRUE, "no", {0})
uv_pcap == Offline(TRUE, "watcher", {0})
asio == Offline(TRUE, "watcher", {0})
libevent == Offline(FALSE, "watcher", {0})
poll_pcap == Offline(FALSE, "no", {0})
kqueue == Offline(FALSE, "kqueue", {0, -1})
interface == Live(TRUE, "watcher", {0})
kqueue_live == Live(FALSE, "kqueue", {})
epoll_live == Live(TRUE, "epoll", {})

Programs ==
  [pcap_poll |-> pcap_poll, pcap_idle |-> pcap_idle, uv_pcap |-> uv_pcap, asio |-> asio,
   libevent |-> libevent, poll_pcap |-> poll_pcap, kqueue |-> kqueue, interface |-> interface,
   kqueue_live |-> kqueue_live, epoll_live |-> epoll_live]

Main == Programs[prog]

(* The libraries take what the system has; the rest is in the source. *)
Backends(p) ==
  CASE Programs[p].waits = "watcher" -> {"kqueue", "epoll"}
    [] Programs[p].waits = "no" -> {"none"}
    [] OTHER -> {Programs[p].waits}

-----------------------------------------------------------------------------
(* pcap_dispatch(pd, 1, ...) and pcap_next: a packet (1), the end or       *)
(* nothing there (0), an error (-1).                                       *)

LessOf(m, n) == IF m <= n THEN m ELSE n

Dispatched ==
  IF ahead + left > 0 THEN 1 ELSE IF intact THEN 0 ELSE -1

(* What one read() fetches, when the buffer is empty. *)
Fetched ==
  CASE ~Main.live -> LessOf(ReadAhead, left)
    [] Main.live /\ backend = "epoll" -> LessOf(1, left)
    [] OTHER -> left

pcap_dispatch ==
  LET buffer == IF ahead > 0 THEN ahead ELSE Fetched
  IN  /\ ahead' = IF buffer > 0 THEN buffer - 1 ELSE 0
      /\ left' = IF ahead > 0 THEN left ELSE left - buffer
      /\ expected' = expected

-----------------------------------------------------------------------------
Init ==
  /\ prog = "none" /\ pc = "none" /\ backend = "none"
  /\ left = 0 /\ ahead = 0 /\ intact = TRUE
  /\ fd = FALSE /\ fault = FALSE /\ count = 0 /\ expected = 0

Start(p, n, whole) ==
  /\ pc = "none"
  /\ prog' = p
  /\ pc' = "open"
  /\ backend' \in Backends(p)
  /\ left' = IF Programs[p].live THEN 0 ELSE n
  /\ expected' = IF Programs[p].live THEN n ELSE 0
  /\ intact' = (whole \/ Programs[p].live)
  /\ UNCHANGED << ahead, fd, fault, count >>

(* init_pcap, init_idle and the like on a file.  pcap_open_offline fills   *)
(* stdio's buffer.  If it fails, a program that does not check uses a null *)
(* pointer.  epoll refuses files: the loop has nothing to wait for.        *)
OpenFile ==
  /\ pc = "open" /\ ~Main.live
  /\ \/ /\ pc' = IF Main.checks THEN "end" ELSE "crash"
        /\ UNCHANGED << left, ahead, fd >>
     \/ /\ ahead' = LessOf(ReadAhead, left)
        /\ left' = left - LessOf(ReadAhead, left)
        /\ fd' = (backend # "epoll")
        /\ pc' = IF backend = "epoll" THEN "end" ELSE "loop"
  /\ UNCHANGED << prog, backend, intact, fault, count, expected >>

(* OpenIntf and init_interface: whichever call fails, there is no          *)
(* descriptor; kqueue-live waits all the same.                             *)
OpenIntf ==
  /\ pc = "open" /\ Main.live
  /\ fd' \in BOOLEAN
  /\ pc' = IF Main.checks /\ ~fd' THEN "end" ELSE "loop"
  /\ UNCHANGED << prog, backend, left, ahead, intact, fault, count, expected >>

(* Mutant: the test for 0 is inverted, and a packet ends the loop. *)
CallbackStopping ==
  /\ pcap_dispatch
  /\ pc' = IF Dispatched # 0 THEN "end" ELSE "loop"
  /\ UNCHANGED << prog, backend, intact, fd, fault, count >>

(* What the callback does with the result of pcap_dispatch. *)
Callback ==
  /\ pcap_dispatch
  /\ pc' = IF Dispatched \in Main.ends THEN "end" ELSE "loop"
  /\ UNCHANGED << prog, backend, intact, fd, fault, count >>

(* poll() with no timeout or an idle handler: the callback runs each time. *)
EagerRound ==
  /\ pc = "loop" /\ Main.waits = "no"
  /\ Callback

(* An event.  kqueue does not report a file at its end; an interface may   *)
(* be reported when it has no packet.                                      *)
ReadyRound ==
  /\ pc = "loop" /\ Main.waits # "no"
  /\ fd /\ (left > 0 \/ Main.live)
  /\ ~fault
  /\ Callback

(* poll() or kevent() returns -1; the loops on an interface just go on. *)
WaitFails ==
  /\ pc = "loop"
  /\ prog \in {"poll_pcap", "kqueue"}
  /\ fault' = TRUE
  /\ pc' = "end"
  /\ UNCHANGED << prog, backend, left, ahead, intact, fd, count, expected >>

(* The event says EV_ERROR, EV_EOF, EPOLLERR or EPOLLHUP.  kqueue.cc       *)
(* breaks.  kqueue-live looks at the flags it registered with instead and  *)
(* reads on; epoll-live tests for equality and does nothing.  An interface *)
(* that fails stays that way.                                              *)
ErrorEvent ==
  /\ pc = "loop" /\ fd
  /\ prog \in {"kqueue", "kqueue_live", "epoll_live"}
  /\ fault' = TRUE
  /\ pc' = IF prog = "kqueue" THEN "end" ELSE "loop"
  /\ IF prog = "kqueue_live" THEN pcap_dispatch ELSE UNCHANGED << left, ahead, expected >>
  /\ UNCHANGED << prog, backend, intact, fd, count >>

(* Mutant: one timeout too many. *)
TimeoutPast ==
  /\ pc = "loop"
  /\ prog = "kqueue" /\ left = 0
  /\ count' = count + 1
  /\ pc' = IF count' > MaxTimeouts THEN "end" ELSE "loop"
  /\ UNCHANGED << prog, backend, left, ahead, intact, fd, fault, expected >>

(* kevent() or epoll_wait() returns 0; only kqueue.cc counts. *)
Timeout ==
  /\ pc = "loop"
  /\ prog = "kqueue" /\ left = 0
  /\ count' = count + 1
  /\ pc' = IF count' = MaxTimeouts THEN "end" ELSE "loop"
  /\ UNCHANGED << prog, backend, left, ahead, intact, fd, fault, expected >>

Arrive ==
  /\ expected > 0
  /\ expected' = expected - 1
  /\ left' = left + 1
  /\ UNCHANGED << prog, pc, backend, ahead, intact, fd, fault, count >>

Loop == OpenFile \/ OpenIntf \/ EagerRound \/ ReadyRound \/ Timeout
Fails == WaitFails \/ ErrorEvent

Next ==
  \/ \E p \in DOMAIN Programs, n \in 0..MaxPackets, whole \in BOOLEAN : Start(p, n, whole)
  \/ Loop \/ Fails \/ Arrive

(* A program that can go on does. *)
Fairness == WF_vars(Loop)

FairSpec == Init /\ [][Next]_vars /\ Fairness

-----------------------------------------------------------------------------
(* What the variables hold. *)
TypeOK ==
  /\ prog \in DOMAIN Programs \cup {"none"}
  /\ pc \in {"none", "open", "loop", "end", "crash"}
  /\ backend \in {"none", "kqueue", "epoll"}
  /\ left \in 0..MaxPackets /\ ahead \in 0..MaxPackets /\ expected \in 0..MaxPackets
  /\ count \in 0..MaxTimeouts
  /\ intact \in BOOLEAN /\ fd \in BOOLEAN /\ fault \in BOOLEAN

(* A loop over a file that ran and had no error ends only when the file    *)
(* has been read to its end.  The loops that do not wait have taken every  *)
(* packet then; the others leave what stdio had read ahead.                *)
LoopsReadToTheEnd ==
  pc = "end" /\ fd /\ ~fault /\ prog # "none" =>
    /\ left = 0 \/ Main.live
    /\ Main.waits = "no" => ahead = 0

(* The loops that do not wait come to an end if the file is intact, and    *)
(* kqueue.cc after its timeouts even if it is not.                         *)
EndDue ==
  prog \in {"pcap_idle", "poll_pcap", "kqueue"} /\ (intact \/ prog = "kqueue")
EndReached == pc \in {"end", "crash"}
CapturesEnd == EndDue ~> EndReached

(* What is queued for an interface is fetched, as long as it has no error. *)
(* On Linux that is the end of it.  With BPF it is then in libpcap's       *)
(* buffer, of which each event takes one packet: what is left in there     *)
(* waits for the next packets to arrive.                                   *)
DataDue == prog \in {"kqueue_live", "epoll_live"} /\ fd /\ left > 0
DataTaken == prog # "none" /\ (left = 0 \/ fault)
PacketsAreFetched == DataDue ~> DataTaken
=============================================================================
