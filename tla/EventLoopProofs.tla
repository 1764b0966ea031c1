-------------------------- MODULE EventLoopProofs ---------------------------
(***************************************************************************)
(* Proofs about the programs that wait for events, for files and pipes of  *)
(* every size, every read-ahead, every number of timeouts and of tries.    *)
(***************************************************************************)
EXTENDS MCEventLoops, AresProofs

-----------------------------------------------------------------------------
(* The loops on libpcap *)

(* Before its file or interface is open a program has no descriptor; what  *)
(* is in a file does not grow; the packets are never more than there were; *)
(* and a program that counts its last timeout is at its end.               *)
CapturesTyped ==
  /\ c_prog \in DOMAIN Captures!Programs \cup {"none"}
  /\ c_pc \in {"none", "open", "loop", "end", "crash"}
  /\ c_backend \in {"none", "kqueue", "epoll"}

CapturesCounted ==
  /\ c_left \in Nat /\ c_ahead \in Nat /\ c_expected \in Nat
  /\ c_left + c_ahead + c_expected <= MaxPackets
  /\ c_count \in 0..MaxTimeouts
  /\ c_pc # "end" => c_count < MaxTimeouts

CapturesFlags == c_intact \in BOOLEAN /\ c_fd \in BOOLEAN /\ c_fault \in BOOLEAN

CapturesOrdered ==
  /\ c_prog = "none" <=> c_pc = "none"
  /\ c_pc \in {"none", "open"} => ~c_fd
  /\ c_prog = "none" => c_expected = 0 /\ c_ahead = 0
  /\ c_prog # "none" => Captures!Main.live \/ c_expected = 0

CapturesInv ==
  CapturesTyped /\ CapturesCounted /\ CapturesFlags /\ CapturesOrdered /\ Captures!LoopsReadToTheEnd

(* The assumption on the constants, one by one. *)
LEMMA LoopConstants ==
  /\ MaxPackets \in Nat /\ MaxBytes \in Nat /\ MaxPipe \in Nat
  /\ ReadAhead \in Nat /\ ReadAhead > 0
  /\ ReadSize \in Nat /\ ReadSize > 0
  /\ MaxTimeouts \in Nat /\ MaxTimeouts > 0
  BY LoopAssumption

LEMMA StaysBelow ==
  ASSUME NEW m \in Nat, NEW a \in Nat, NEW b \in Nat, NEW c \in Nat, a + b <= m, c <= a
  PROVE  c + b <= m
  OBVIOUS

LEMMA StockShrinks ==
  ASSUME NEW m \in Nat, NEW a \in Nat, NEW b \in Nat, NEW c \in Nat, NEW d \in Nat,
         NEW e \in Nat, a + b + e <= m, c + d <= a + b
  PROVE  c + d + e <= m
  OBVIOUS

(* No loop ends at a packet, and that of kqueue.cc waits. *)
LEMMA CapturePrograms ==
  /\ \A p \in DOMAIN Captures!Programs :
       /\ Captures!Programs[p].live \in BOOLEAN
       /\ 1 \notin Captures!Programs[p].ends
       /\ p # "none"
       /\ Captures!Backends(p) \subseteq {"none", "kqueue", "epoll"}
  /\ Captures!Programs["kqueue"].waits # "no"
<1>1. DOMAIN Captures!Programs =
        {"pcap_poll", "pcap_idle", "uv_pcap", "asio", "libevent", "poll_pcap", "kqueue",
         "interface", "kqueue_live", "epoll_live"}
  BY DEF Captures!Programs
<1>2. /\ Captures!Programs["pcap_poll"].live = FALSE /\ 1 \notin Captures!Programs["pcap_poll"].ends
     /\ Captures!Programs["pcap_poll"].waits = "watcher"
  BY DEF Captures!Programs, Captures!pcap_poll, Captures!Offline
<1>3. /\ Captures!Programs["pcap_idle"].live = FALSE /\ 1 \notin Captures!Programs["pcap_idle"].ends
     /\ Captures!Programs["pcap_idle"].waits = "no"
  BY DEF Captures!Programs, Captures!pcap_idle, Captures!Offline
<1>4. /\ Captures!Programs["uv_pcap"].live = FALSE /\ 1 \notin Captures!Programs["uv_pcap"].ends
     /\ Captures!Programs["uv_pcap"].waits = "watcher"
  BY DEF Captures!Programs, Captures!uv_pcap, Captures!Offline
<1>5. /\ Captures!Programs["asio"].live = FALSE /\ 1 \notin Captures!Programs["asio"].ends
     /\ Captures!Programs["asio"].waits = "watcher"
  BY DEF Captures!Programs, Captures!asio, Captures!Offline
<1>6. /\ Captures!Programs["libevent"].live = FALSE /\ 1 \notin Captures!Programs["libevent"].ends
     /\ Captures!Programs["libevent"].waits = "watcher"
  BY DEF Captures!Programs, Captures!libevent, Captures!Offline
<1>7. /\ Captures!Programs["poll_pcap"].live = FALSE /\ 1 \notin Captures!Programs["poll_pcap"].ends
     /\ Captures!Programs["poll_pcap"].waits = "no"
  BY DEF Captures!Programs, Captures!poll_pcap, Captures!Offline
<1>8. /\ Captures!Programs["kqueue"].live = FALSE /\ 1 \notin Captures!Programs["kqueue"].ends
     /\ Captures!Programs["kqueue"].waits = "kqueue"
  BY DEF Captures!Programs, Captures!kqueue, Captures!Offline
<1>9. /\ Captures!Programs["interface"].live = TRUE /\ 1 \notin Captures!Programs["interface"].ends
     /\ Captures!Programs["interface"].waits = "watcher"
  BY DEF Captures!Programs, Captures!interface, Captures!Live
<1>10. /\ Captures!Programs["kqueue_live"].live = TRUE /\ 1 \notin Captures!Programs["kqueue_live"].ends
     /\ Captures!Programs["kqueue_live"].waits = "kqueue"
  BY DEF Captures!Programs, Captures!kqueue_live, Captures!Live
<1>11. /\ Captures!Programs["epoll_live"].live = TRUE /\ 1 \notin Captures!Programs["epoll_live"].ends
     /\ Captures!Programs["epoll_live"].waits = "epoll"
  BY DEF Captures!Programs, Captures!epoll_live, Captures!Live
<1>20. \A p \in DOMAIN Captures!Programs :
        /\ Captures!Programs[p].live \in BOOLEAN
        /\ 1 \notin Captures!Programs[p].ends
        /\ p # "none"
  BY <1>1, <1>2, <1>3, <1>4, <1>5, <1>6, <1>7, <1>8, <1>9, <1>10, <1>11
<1>21. \A p \in DOMAIN Captures!Programs :
        Captures!Programs[p].waits \in {"watcher", "no", "kqueue", "epoll"}
  BY <1>1, <1>2, <1>3, <1>4, <1>5, <1>6, <1>7, <1>8, <1>9, <1>10, <1>11
<1>22. \A p \in DOMAIN Captures!Programs :
        Captures!Backends(p) \subseteq {"none", "kqueue", "epoll"}
  BY <1>21 DEF Captures!Backends
<1> QED
  BY <1>8, <1>20, <1>22

LEMMA CapturesInitially ==
  Captures!Init => CapturesInv
<1> SUFFICES ASSUME Captures!Init PROVE CapturesInv
  OBVIOUS
<1>1. CapturesCounted
  BY LoopConstants DEF Captures!Init, CapturesCounted
<1>2. CapturesFlags
  BY DEF Captures!Init, CapturesFlags
<1> QED
  BY <1>1, <1>2
  DEF CapturesInv, CapturesTyped, CapturesOrdered, Captures!Init, Captures!LoopsReadToTheEnd

(* Reading a packet takes one from the buffer, which is filled first if it *)
(* is empty, and nothing that is there is skipped.                         *)
LEMMA CapturesDispatch ==
  ASSUME CapturesCounted, Captures!pcap_dispatch
  PROVE  /\ c_left' \in Nat /\ c_ahead' \in Nat /\ c_left' + c_ahead' <= c_left + c_ahead
         /\ c_expected' = c_expected
         /\ c_left + c_ahead = 0 => c_left' = 0 /\ c_ahead' = 0
<1> DEFINE buffer == IF c_ahead > 0 THEN c_ahead ELSE Captures!Fetched
<1>1. c_left \in Nat /\ c_ahead \in Nat
  BY DEF CapturesCounted
<1>2. Captures!Fetched \in Nat /\ Captures!Fetched <= c_left
  BY <1>1, LoopConstants DEF Captures!Fetched, Captures!LessOf
<1>3. /\ c_ahead' = IF buffer > 0 THEN buffer - 1 ELSE 0
      /\ c_left' = IF c_ahead > 0 THEN c_left ELSE c_left - buffer
      /\ c_expected' = c_expected
  BY DEF Captures!pcap_dispatch
<1> QED
  BY <1>1, <1>2, <1>3

LEMMA CapturesCallback ==
  ASSUME CapturesInv, c_pc = "loop", Captures!Callback
  PROVE  CapturesInv'
<1>1. c_prog \in DOMAIN Captures!Programs /\ c_prog # "none"
  BY CapturePrograms DEF CapturesInv, CapturesTyped, CapturesOrdered
<1>2. Captures!Main' = Captures!Main
  BY DEF Captures!Callback, Captures!Main
<1>3. CapturesCounted
  BY DEF CapturesInv
<1>4. /\ c_left' \in Nat /\ c_ahead' \in Nat /\ c_left' + c_ahead' <= c_left + c_ahead
      /\ c_expected' = c_expected
      /\ c_left + c_ahead = 0 => c_left' = 0 /\ c_ahead' = 0
  BY <1>3, CapturesDispatch DEF Captures!Callback
<1>5. CapturesCounted'
  <2>1. c_count' = c_count /\ c_count \in 0..MaxTimeouts /\ c_count < MaxTimeouts
    BY <1>3 DEF CapturesCounted, Captures!Callback
  <2>2. /\ c_left \in Nat /\ c_ahead \in Nat /\ c_expected \in Nat
        /\ c_left + c_ahead + c_expected <= MaxPackets
    BY <1>3 DEF CapturesCounted
  <2>3. c_left' + c_ahead' + c_expected' <= MaxPackets /\ c_expected' \in Nat
    BY <1>4, <2>2, LoopConstants, StockShrinks
  <2> QED
    BY <1>4, <2>1, <2>3 DEF CapturesCounted
<1>6. CapturesTyped' /\ CapturesFlags'
  BY DEF CapturesInv, CapturesTyped, CapturesFlags, Captures!Callback
<1>7. CapturesOrdered'
  BY <1>1, <1>2, <1>4 DEF CapturesInv, CapturesOrdered, Captures!Callback
<1>8. c_pc' = "end" => Captures!Dispatched # 1
  BY <1>1, CapturePrograms DEF Captures!Callback, Captures!Main
<1>9. c_pc' = "end" => c_left + c_ahead = 0
  BY <1>3, <1>8 DEF Captures!Dispatched, CapturesCounted
<1>10. Captures!LoopsReadToTheEnd'
  BY <1>4, <1>9 DEF Captures!LoopsReadToTheEnd
<1> QED
  BY <1>5, <1>6, <1>7, <1>10 DEF CapturesInv

LEMMA CapturesStep ==
  ASSUME CapturesInv, [Captures!Next]_(Captures!vars)
  PROVE  CapturesInv'
<1> USE DEF CapturesInv
<1>1. ASSUME NEW p \in DOMAIN Captures!Programs, NEW n \in 0..MaxPackets, NEW whole \in BOOLEAN,
             Captures!Start(p, n, whole)
      PROVE  CapturesInv'
  <2>1. c_left' + c_expected' = n /\ c_expected' \in Nat /\ c_left' \in Nat
    BY <1>1, LoopConstants DEF Captures!Start
  <2>2. c_ahead' = c_ahead /\ c_count' = c_count /\ c_pc = "none" /\ c_pc' = "open"
    BY <1>1 DEF Captures!Start
  <2>3. CapturesCounted'
    <3>1. n \in Nat /\ n <= MaxPackets
      BY LoopConstants
    <3>2. c_count < MaxTimeouts /\ c_count \in 0..MaxTimeouts /\ c_ahead = 0
      BY <2>2 DEF CapturesCounted, CapturesOrdered
    <3>3. c_left' + c_ahead' + c_expected' <= MaxPackets
      <4>1. c_ahead' = 0 /\ 0 \in Nat
        BY <2>2, <3>2
      <4>2. c_left' + 0 + c_expected' = c_left' + c_expected'
        BY <2>1
      <4> QED
        BY <2>1, <3>1, <4>1, <4>2
    <3> QED
      BY <2>1, <2>2, <3>2, <3>3 DEF CapturesCounted
  <2>4. CapturesTyped'
    BY <1>1, CapturePrograms DEF Captures!Start, CapturesTyped
  <2>5. CapturesFlags'
    BY <1>1, CapturePrograms DEF Captures!Start, CapturesFlags
  <2>6. c_prog' = p /\ p # "none" /\ c_fd' = c_fd /\ Captures!Main' = Captures!Programs[p]
    BY <1>1, CapturePrograms DEF Captures!Start, Captures!Main
  <2>7. Captures!Main'.live \/ c_expected' = 0
    BY <1>1, <2>6 DEF Captures!Start
  <2>8. CapturesOrdered'
    BY <2>2, <2>6, <2>7 DEF CapturesOrdered
  <2>9. Captures!LoopsReadToTheEnd'
    BY <2>2 DEF Captures!LoopsReadToTheEnd
  <2> QED
    BY <2>3, <2>4, <2>5, <2>8, <2>9
<1>2. ASSUME Captures!OpenFile PROVE CapturesInv'
  <2>1. /\ c_pc = "open" /\ c_pc' \in {"end", "crash", "loop"} /\ c_expected' = c_expected
        /\ c_count' = c_count /\ c_prog' = c_prog /\ c_backend' = c_backend
        /\ c_intact' = c_intact /\ c_fault' = c_fault
    BY <1>2 DEF Captures!OpenFile
  <2>2. c_left' \in Nat /\ c_ahead' \in Nat /\ c_left' + c_ahead' <= c_left + c_ahead
    BY <1>2, LoopConstants DEF Captures!OpenFile, CapturesCounted, Captures!LessOf
  <2>3. CapturesCounted'
    <3>1. c_count' \in 0..MaxTimeouts /\ c_count' < MaxTimeouts
      BY <2>1 DEF CapturesCounted
    <3>2. /\ c_left \in Nat /\ c_ahead \in Nat /\ c_expected \in Nat
          /\ c_left + c_ahead + c_expected <= MaxPackets
      BY DEF CapturesCounted
    <3>3. c_left' + c_ahead' + c_expected' <= MaxPackets /\ c_expected' \in Nat
      BY <2>1, <2>2, <3>2, LoopConstants, StockShrinks
    <3> QED
      BY <2>1, <2>2, <3>1, <3>3 DEF CapturesCounted
  <2>4. CapturesTyped'
    BY <2>1 DEF CapturesTyped
  <2>5. c_fd' \in BOOLEAN /\ (c_pc' = "end" => ~c_fd')
    <3>1. c_fd = FALSE
      BY <2>1 DEF CapturesFlags, CapturesOrdered
    <3>2. CASE c_backend = "epoll"
      BY <1>2, <3>1, <3>2 DEF Captures!OpenFile
    <3>3. CASE c_backend # "epoll"
      BY <1>2, <3>1, <3>3 DEF Captures!OpenFile
    <3> QED
      BY <3>2, <3>3
  <2>6. CapturesFlags'
    BY <2>1, <2>5 DEF CapturesFlags
  <2>7. Captures!Main' = Captures!Main
    BY <2>1 DEF Captures!Main
  <2>8. CapturesOrdered'
    BY <2>1, <2>7 DEF CapturesOrdered
  <2>9. Captures!LoopsReadToTheEnd'
    BY <2>5 DEF Captures!LoopsReadToTheEnd
  <2> QED
    BY <2>3, <2>4, <2>6, <2>8, <2>9
<1>3. ASSUME Captures!OpenIntf PROVE CapturesInv'
  <2>1. /\ c_pc = "open" /\ c_pc' \in {"end", "loop"} /\ c_expected' = c_expected
        /\ c_count' = c_count /\ c_prog' = c_prog /\ c_backend' = c_backend
        /\ c_intact' = c_intact /\ c_fault' = c_fault /\ c_left' = c_left /\ c_ahead' = c_ahead
    BY <1>3 DEF Captures!OpenIntf
  <2>3. CapturesCounted'
    BY <2>1 DEF CapturesCounted
  <2>4. CapturesTyped'
    BY <2>1 DEF CapturesTyped
  <2>5. c_fd' \in BOOLEAN /\ (c_pc' = "end" => ~c_fd')
    BY <1>3 DEF Captures!OpenIntf
  <2>6. CapturesFlags'
    BY <2>1, <2>5 DEF CapturesFlags
  <2>7. Captures!Main' = Captures!Main
    BY <2>1 DEF Captures!Main
  <2>8. CapturesOrdered'
    BY <2>1, <2>7 DEF CapturesOrdered
  <2>9. Captures!LoopsReadToTheEnd'
    BY <2>5 DEF Captures!LoopsReadToTheEnd
  <2> QED
    BY <2>3, <2>4, <2>6, <2>8, <2>9
<1>4. ASSUME Captures!EagerRound \/ Captures!ReadyRound PROVE CapturesInv'
  <2>1. c_pc = "loop" /\ Captures!Callback
    BY <1>4 DEF Captures!EagerRound, Captures!ReadyRound
  <2> QED
    BY <2>1, CapturesCallback
<1>5. ASSUME Captures!WaitFails PROVE CapturesInv'
  <2>1. /\ c_pc = "loop" /\ c_pc' = "end" /\ c_expected' = c_expected
        /\ c_count' = c_count /\ c_prog' = c_prog /\ c_backend' = c_backend /\ c_fd' = c_fd
        /\ c_intact' = c_intact /\ c_fault' = TRUE /\ c_left' = c_left /\ c_ahead' = c_ahead
    BY <1>5 DEF Captures!WaitFails
  <2>3. CapturesCounted'
    BY <2>1 DEF CapturesCounted
  <2>4. CapturesTyped'
    BY <2>1 DEF CapturesTyped
  <2>6. CapturesFlags'
    BY <2>1 DEF CapturesFlags
  <2>7. Captures!Main' = Captures!Main
    BY <2>1 DEF Captures!Main
  <2>8. CapturesOrdered'
    BY <2>1, <2>7 DEF CapturesOrdered
  <2>9. Captures!LoopsReadToTheEnd'
    BY <2>1 DEF Captures!LoopsReadToTheEnd
  <2> QED
    BY <2>3, <2>4, <2>6, <2>8, <2>9
<1>6. ASSUME Captures!ErrorEvent PROVE CapturesInv'
  <2>1. /\ c_pc = "loop" /\ c_pc' \in {"end", "loop"}
        /\ c_count' = c_count /\ c_prog' = c_prog /\ c_backend' = c_backend /\ c_fd' = c_fd
        /\ c_intact' = c_intact /\ c_fault' = TRUE
    BY <1>6 DEF Captures!ErrorEvent
  <2>2. /\ c_left' \in Nat /\ c_ahead' \in Nat /\ c_left' + c_ahead' <= c_left + c_ahead
        /\ c_expected' = c_expected
    <3>1. CASE Captures!pcap_dispatch
      BY <3>1, CapturesDispatch
    <3>2. CASE UNCHANGED << c_left, c_ahead, c_expected >>
      BY <3>2 DEF CapturesCounted
    <3> QED
      BY <1>6, <3>1, <3>2 DEF Captures!ErrorEvent
  <2>3. CapturesCounted'
    <3>1. c_count' \in 0..MaxTimeouts /\ c_count' < MaxTimeouts
      BY <2>1 DEF CapturesCounted
    <3>2. /\ c_left \in Nat /\ c_ahead \in Nat /\ c_expected \in Nat
          /\ c_left + c_ahead + c_expected <= MaxPackets
      BY DEF CapturesCounted
    <3>3. c_left' + c_ahead' + c_expected' <= MaxPackets /\ c_expected' \in Nat
      BY <2>1, <2>2, <3>2, LoopConstants, StockShrinks
    <3> QED
      BY <2>1, <2>2, <3>1, <3>3 DEF CapturesCounted
  <2>4. CapturesTyped'
    BY <2>1 DEF CapturesTyped
  <2>6. CapturesFlags'
    BY <2>1 DEF CapturesFlags
  <2>7. Captures!Main' = Captures!Main
    BY <2>1 DEF Captures!Main
  <2>8. CapturesOrdered'
    BY <2>1, <2>2, <2>7 DEF CapturesOrdered
  <2>9. Captures!LoopsReadToTheEnd'
    BY <2>1 DEF Captures!LoopsReadToTheEnd
  <2> QED
    BY <2>3, <2>4, <2>6, <2>8, <2>9
<1>7. ASSUME Captures!Timeout PROVE CapturesInv'
  <2>1. /\ c_pc = "loop" /\ c_pc' \in {"end", "loop"} /\ c_expected' = c_expected
        /\ c_prog' = c_prog /\ c_backend' = c_backend /\ c_fd' = c_fd
        /\ c_intact' = c_intact /\ c_fault' = c_fault /\ c_left' = c_left /\ c_ahead' = c_ahead
        /\ c_prog = "kqueue" /\ c_left = 0
    BY <1>7 DEF Captures!Timeout
  <2>2. c_count' = c_count + 1 /\ (c_pc' # "end" => c_count' # MaxTimeouts)
    BY <1>7 DEF Captures!Timeout
  <2>3. CapturesCounted'
    <3>1. c_count \in 0..MaxTimeouts /\ c_count < MaxTimeouts
      BY <2>1 DEF CapturesCounted
    <3>2. /\ c_left \in Nat /\ c_ahead \in Nat /\ c_expected \in Nat
          /\ c_left + c_ahead + c_expected <= MaxPackets
      BY DEF CapturesCounted
    <3> QED
      BY <2>1, <2>2, <3>1, <3>2, LoopConstants DEF CapturesCounted
  <2>4. CapturesTyped'
    BY <2>1 DEF CapturesTyped
  <2>6. CapturesFlags'
    BY <2>1 DEF CapturesFlags
  <2>7. Captures!Main' = Captures!Main
    BY <2>1 DEF Captures!Main
  <2>8. CapturesOrdered'
    BY <2>1, <2>7 DEF CapturesOrdered
  <2>9. Captures!LoopsReadToTheEnd'
    BY <2>1, <2>7, CapturePrograms DEF Captures!LoopsReadToTheEnd, Captures!Main
  <2> QED
    BY <2>3, <2>4, <2>6, <2>8, <2>9
<1>8. ASSUME Captures!Arrive PROVE CapturesInv'
  <2>1. /\ c_pc' = c_pc /\ c_count' = c_count
        /\ c_prog' = c_prog /\ c_backend' = c_backend /\ c_fd' = c_fd
        /\ c_intact' = c_intact /\ c_fault' = c_fault /\ c_ahead' = c_ahead
    BY <1>8 DEF Captures!Arrive
  <2>2. c_expected > 0 /\ c_expected' = c_expected - 1 /\ c_left' = c_left + 1
    BY <1>8 DEF Captures!Arrive
  <2>3. CapturesCounted'
    <3>1. c_count \in 0..MaxTimeouts /\ (c_pc # "end" => c_count < MaxTimeouts)
      BY DEF CapturesCounted
    <3>2. /\ c_left \in Nat /\ c_ahead \in Nat /\ c_expected \in Nat
          /\ c_left + c_ahead + c_expected <= MaxPackets
      BY DEF CapturesCounted
    <3>3. /\ c_left' \in Nat /\ c_expected' \in Nat
          /\ c_left' + c_ahead' + c_expected' <= MaxPackets
      BY <2>1, <2>2, <3>2, LoopConstants
    <3> QED
      BY <2>1, <3>1, <3>2, <3>3 DEF CapturesCounted
  <2>4. CapturesTyped'
    BY <2>1 DEF CapturesTyped
  <2>6. CapturesFlags'
    BY <2>1 DEF CapturesFlags
  <2>7. Captures!Main' = Captures!Main
    BY <2>1 DEF Captures!Main
  <2>5. c_prog # "none" /\ Captures!Main.live
    <3>1. c_expected # 0
      BY <2>2
    <3> QED
      BY <3>1 DEF CapturesOrdered
  <2>8. CapturesOrdered'
    BY <2>1, <2>5, <2>7 DEF CapturesOrdered
  <2>9. Captures!LoopsReadToTheEnd'
    BY <2>1, <2>5, <2>7 DEF Captures!LoopsReadToTheEnd
  <2> QED
    BY <2>3, <2>4, <2>6, <2>8, <2>9
<1>9. ASSUME UNCHANGED Captures!vars PROVE CapturesInv'
  <2>1. /\ c_pc' = c_pc /\ c_count' = c_count /\ c_left' = c_left /\ c_expected' = c_expected
        /\ c_prog' = c_prog /\ c_backend' = c_backend /\ c_fd' = c_fd
        /\ c_intact' = c_intact /\ c_fault' = c_fault /\ c_ahead' = c_ahead
    BY <1>9 DEF Captures!vars
  <2>2. Captures!Main' = Captures!Main
    BY <2>1 DEF Captures!Main
  <2>3. CapturesCounted' /\ CapturesTyped' /\ CapturesFlags'
    BY <2>1 DEF CapturesCounted, CapturesTyped, CapturesFlags
  <2>4. CapturesOrdered' /\ Captures!LoopsReadToTheEnd'
    BY <2>1, <2>2 DEF CapturesOrdered, Captures!LoopsReadToTheEnd
  <2> QED
    BY <2>3, <2>4
<1> HIDE DEF CapturesInv
<1> QED
  BY <1>1, <1>2, <1>3, <1>4, <1>5, <1>6, <1>7, <1>8, <1>9
  DEF Captures!Next, Captures!Loop, Captures!Fails

-----------------------------------------------------------------------------
(* The loops on files and pipes *)

Events == [ident : {"pipe", "fifo"}, eof : BOOLEAN]

(* The bytes are never more than there were, the batch of events is one    *)
(* that Ready could give, and a program that counts its last timeout is at *)
(* its end.                                                                *)
PipesTyped ==
  /\ p_prog \in {"none", "uv_file", "poll_file", "fifos"}
  /\ p_pc \in {"none", "open", "loop", "end", "exit"}

PipesFlags ==
  p_regular \in BOOLEAN /\ p_fd \in BOOLEAN /\ p_writer \in BOOLEAN /\ p_eof \in BOOLEAN

PipesCounted ==
  /\ p_avail \in Nat /\ p_coming \in Nat /\ p_avail + p_coming <= MaxBytes
  /\ p_last \in -1..ReadSize
  /\ p_pipe \in 0..MaxPipe
  /\ p_count \in 0..MaxTimeouts
  /\ p_pc # "end" => p_count < MaxTimeouts

PipesBatch == p_batch \in Seq(Events) /\ Len(p_batch) <= 2

PipesInv ==
  PipesTyped /\ PipesFlags /\ PipesCounted /\ PipesBatch /\ Pipes!LoopsReadToTheEnd

LEMMA PipesInitially ==
  Pipes!Init => PipesInv
<1> SUFFICES ASSUME Pipes!Init PROVE PipesInv
  OBVIOUS
<1>1. PipesCounted
  BY LoopConstants DEF Pipes!Init, PipesCounted
<1>2. PipesFlags
  BY DEF Pipes!Init, PipesFlags
<1>3. PipesBatch
  BY DEF Pipes!Init, PipesBatch
<1> QED
  BY <1>1, <1>2, <1>3 DEF PipesInv, PipesTyped, Pipes!Init, Pipes!LoopsReadToTheEnd

(* The steps that change neither bytes nor counts nor events. *)
LEMMA PipesUncounted ==
  ASSUME PipesInv,
         p_avail' = p_avail, p_coming' = p_coming, p_last' = p_last, p_pipe' = p_pipe,
         p_count' = p_count, p_batch' = p_batch,
         p_pc = "end" => p_pc' = "end"
  PROVE  PipesCounted' /\ PipesBatch'
<1>1. PipesCounted'
  BY DEF PipesInv, PipesCounted
<1>2. PipesBatch'
  BY DEF PipesInv, PipesBatch
<1> QED
  BY <1>1, <1>2

LEMMA PipesReady ==
  ASSUME PipesFlags PROVE Pipes!Ready \subseteq Events
<1>1. [ident |-> "pipe", eof |-> FALSE] \in Events
  BY DEF Events
<1>2. [ident |-> "fifo", eof |-> p_eof] \in Events
  <2>1. CASE p_eof = TRUE
    BY <2>1 DEF Events
  <2>2. CASE p_eof = FALSE
    BY <2>2 DEF Events
  <2> QED
    BY <2>1, <2>2 DEF PipesFlags
<1> QED
  BY <1>1, <1>2 DEF Pipes!Ready

LEMMA PipesReads ==
  ASSUME PipesInv, Pipes!ReadFile
  PROVE  PipesInv'
<1>1. /\ p_pc = "loop" /\ p_pc' \in {"end", "loop"} /\ p_prog' = p_prog /\ p_regular' = p_regular
      /\ p_fd' = p_fd /\ p_coming' = p_coming /\ p_writer' = p_writer /\ p_eof' = p_eof
      /\ p_pipe' = p_pipe /\ p_batch' = p_batch /\ p_count' = p_count
      /\ p_last' = Pipes!BytesRead
  BY DEF Pipes!ReadFile
<1>2. p_avail \in Nat /\ p_coming \in Nat /\ p_avail + p_coming <= MaxBytes
  BY DEF PipesInv, PipesCounted
<1>3. Pipes!BytesRead \in -1..ReadSize /\ (Pipes!BytesRead > 0 => Pipes!BytesRead <= p_avail)
  BY <1>2, LoopConstants DEF Pipes!BytesRead
<1>4. p_avail' \in Nat /\ p_avail' <= p_avail
  <2>1. CASE Pipes!BytesRead > 0
    BY <1>2, <1>3, <2>1, LoopConstants DEF Pipes!ReadFile
  <2>2. CASE ~(Pipes!BytesRead > 0)
    BY <1>2, <2>2 DEF Pipes!ReadFile
  <2> QED
    BY <2>1, <2>2
<1>5. p_avail' + p_coming' <= MaxBytes
  BY <1>1, <1>2, <1>4, LoopConstants, StaysBelow
<1>6. PipesCounted'
  <2>1. p_pipe \in 0..MaxPipe /\ p_count \in 0..MaxTimeouts /\ p_count < MaxTimeouts
    BY <1>1 DEF PipesInv, PipesCounted
  <2> QED
    BY <1>1, <1>2, <1>3, <1>4, <1>5, <2>1 DEF PipesCounted
<1>7. PipesTyped' /\ PipesFlags' /\ PipesBatch'
  BY <1>1 DEF PipesInv, PipesTyped, PipesFlags, PipesBatch
<1>8. ASSUME p_pc' = "end", p_fd', p_last' # 1 PROVE p_avail' = 0 /\ ~p_writer'
  <2>1. Pipes!BytesRead = 0 /\ p_fd
    BY <1>1, <1>8 DEF Pipes!ReadFile, Pipes!EndsAfter
  <2>2. p_avail = 0 /\ ~p_writer
    BY <1>2, <2>1, LoopConstants DEF Pipes!BytesRead
  <2>3. ~(Pipes!BytesRead > 0)
    BY <2>1
  <2> QED
    BY <1>1, <2>2, <2>3 DEF Pipes!ReadFile
<1>9. Pipes!LoopsReadToTheEnd'
  BY <1>8 DEF Pipes!LoopsReadToTheEnd
<1> QED
  BY <1>6, <1>7, <1>9 DEF PipesInv

LEMMA PipesStep ==
  ASSUME PipesInv, [Pipes!Next]_(Pipes!vars)
  PROVE  PipesInv'
<1> USE DEF PipesInv
<1>1. ASSUME NEW p \in {"uv_file", "poll_file", "fifos"}, NEW n \in 0..MaxBytes,
             NEW file \in BOOLEAN, Pipes!Start(p, n, file)
      PROVE  PipesInv'
  <2>1. /\ p_pc = "none" /\ p_pc' = "open" /\ p_fd' = p_fd /\ p_writer' = p_writer /\ p_eof' = p_eof
        /\ p_last' = p_last /\ p_pipe' = p_pipe /\ p_batch' = p_batch /\ p_count' = p_count
        /\ p_prog' = p /\ p_regular' = file
    BY <1>1 DEF Pipes!Start
  <2>2. n \in Nat /\ n <= MaxBytes
    BY LoopConstants
  <2>3. p_avail' \in Nat /\ p_coming' \in Nat /\ p_avail' + p_coming' = n
    BY <1>1, <2>2 DEF Pipes!Start
  <2>4. p_avail' + p_coming' <= MaxBytes
    BY <2>2, <2>3
  <2>5. PipesCounted'
    BY <2>1, <2>3, <2>4 DEF PipesCounted
  <2>6. PipesTyped' /\ PipesFlags' /\ PipesBatch' /\ Pipes!LoopsReadToTheEnd'
    BY <2>1 DEF PipesTyped, PipesFlags, PipesBatch, Pipes!LoopsReadToTheEnd
  <2> QED
    BY <2>5, <2>6
<1>2. ASSUME Pipes!OpenFile \/ Pipes!OpenFifos PROVE PipesInv'
  <2>1. /\ p_pc = "open" /\ p_pc' \in {"loop", "end"} /\ p_prog' = p_prog /\ p_regular' = p_regular
        /\ p_avail' = p_avail /\ p_coming' = p_coming /\ p_writer' = p_writer /\ p_eof' = p_eof
        /\ p_last' = p_last /\ p_pipe' = p_pipe /\ p_batch' = p_batch /\ p_count' = p_count
    BY <1>2 DEF Pipes!OpenFile, Pipes!OpenFifos
  <2>2. p_fd' \in BOOLEAN /\ (p_pc' = "end" => ~p_fd')
    BY <1>2 DEF Pipes!OpenFile, Pipes!OpenFifos
  <2>3. PipesCounted' /\ PipesBatch'
    BY <2>1, PipesUncounted
  <2>4. PipesTyped' /\ PipesFlags'
    BY <2>1, <2>2 DEF PipesTyped, PipesFlags
  <2>5. Pipes!LoopsReadToTheEnd'
    BY <2>2 DEF Pipes!LoopsReadToTheEnd
  <2> QED
    BY <2>3, <2>4, <2>5
<1>3. ASSUME Pipes!PollFails PROVE PipesInv'
  <2>1. /\ p_pc = "loop" /\ p_pc' = "exit" /\ p_prog' = p_prog /\ p_regular' = p_regular /\ p_fd' = p_fd
        /\ p_avail' = p_avail /\ p_coming' = p_coming /\ p_writer' = p_writer /\ p_eof' = p_eof
        /\ p_last' = p_last /\ p_pipe' = p_pipe /\ p_batch' = p_batch /\ p_count' = p_count
    BY <1>3 DEF Pipes!PollFails
  <2>2. PipesCounted' /\ PipesBatch'
    BY <2>1, PipesUncounted
  <2>3. PipesTyped' /\ PipesFlags' /\ Pipes!LoopsReadToTheEnd'
    BY <2>1 DEF PipesTyped, PipesFlags, Pipes!LoopsReadToTheEnd
  <2> QED
    BY <2>2, <2>3
<1>4. ASSUME Pipes!WritePipe PROVE PipesInv'
  <2>1. /\ p_pc = "loop" /\ p_pc' = "loop" /\ p_prog' = p_prog /\ p_regular' = p_regular /\ p_fd' = p_fd
        /\ p_avail' = p_avail /\ p_coming' = p_coming /\ p_writer' = p_writer /\ p_eof' = p_eof
        /\ p_last' = p_last /\ p_batch' = p_batch /\ p_count' = p_count
    BY <1>4 DEF Pipes!WritePipe
  <2>2. p_pipe \in 0..MaxPipe
    BY DEF PipesCounted
  <2>3. p_pipe' \in 0..MaxPipe
    BY <1>4, <2>2, LoopConstants DEF Pipes!WritePipe
  <2>4. PipesCounted'
    BY <2>1, <2>3 DEF PipesCounted
  <2>5. PipesTyped' /\ PipesFlags' /\ PipesBatch' /\ Pipes!LoopsReadToTheEnd'
    BY <2>1 DEF PipesTyped, PipesFlags, PipesBatch, Pipes!LoopsReadToTheEnd
  <2> QED
    BY <2>4, <2>5
<1>5. ASSUME Pipes!KeventReturns PROVE PipesInv'
  <2>1. /\ p_pc = "loop" /\ p_pc' = "loop" /\ p_prog' = p_prog /\ p_regular' = p_regular /\ p_fd' = p_fd
        /\ p_avail' = p_avail /\ p_coming' = p_coming /\ p_writer' = p_writer /\ p_eof' = p_eof
        /\ p_last' = p_last /\ p_pipe' = p_pipe /\ p_count' = p_count
    BY <1>5 DEF Pipes!KeventReturns, Pipes!InKevent
  <2>2. PICK n \in 1..2 : \E b \in [1..n -> Pipes!Ready] : p_batch' = b
    BY <1>5 DEF Pipes!KeventReturns
  <2>8. PICK b \in [1..n -> Pipes!Ready] : p_batch' = b
    BY <2>2
  <2>3. b \in [1..n -> Events]
    BY PipesReady
  <2>4. b \in Seq(Events) /\ Len(b) = n
    BY <2>3
  <2>5. PipesBatch'
    BY <2>8, <2>4 DEF PipesBatch
  <2>6. PipesCounted'
    BY <2>1 DEF PipesCounted
  <2>7. PipesTyped' /\ PipesFlags' /\ Pipes!LoopsReadToTheEnd'
    BY <2>1 DEF PipesTyped, PipesFlags, Pipes!LoopsReadToTheEnd
  <2> QED
    BY <2>5, <2>6, <2>7
<1>6. ASSUME Pipes!KeventTimesOut PROVE PipesInv'
  <2>1. /\ p_pc = "loop" /\ p_pc' \in {"loop", "end"} /\ p_prog = "fifos" /\ p_prog' = p_prog
        /\ p_regular' = p_regular /\ p_fd' = p_fd
        /\ p_avail' = p_avail /\ p_coming' = p_coming /\ p_writer' = p_writer /\ p_eof' = p_eof
        /\ p_last' = p_last /\ p_pipe' = p_pipe /\ p_batch' = p_batch
    BY <1>6 DEF Pipes!KeventTimesOut, Pipes!InKevent
  <2>2. p_count' = p_count + 1 /\ (p_pc' # "end" => p_count' # MaxTimeouts)
    BY <1>6 DEF Pipes!KeventTimesOut
  <2>3. p_count \in 0..MaxTimeouts /\ p_count < MaxTimeouts
    BY <2>1 DEF PipesCounted
  <2>4. p_count' \in 0..MaxTimeouts /\ (p_pc' # "end" => p_count' < MaxTimeouts)
    BY <2>2, <2>3, LoopConstants
  <2>5. PipesCounted'
    BY <2>1, <2>4 DEF PipesCounted
  <2>6. PipesTyped' /\ PipesFlags' /\ PipesBatch' /\ Pipes!LoopsReadToTheEnd'
    BY <2>1 DEF PipesTyped, PipesFlags, PipesBatch, Pipes!LoopsReadToTheEnd
  <2> QED
    BY <2>5, <2>6
<1>7. ASSUME Pipes!KeventFails PROVE PipesInv'
  <2>1. /\ p_pc = "loop" /\ p_pc' = "end" /\ p_prog = "fifos" /\ p_prog' = p_prog
        /\ p_regular' = p_regular /\ p_fd' = p_fd
        /\ p_avail' = p_avail /\ p_coming' = p_coming /\ p_writer' = p_writer /\ p_eof' = p_eof
        /\ p_last' = p_last /\ p_pipe' = p_pipe /\ p_batch' = p_batch /\ p_count' = p_count
    BY <1>7 DEF Pipes!KeventFails, Pipes!InKevent
  <2>2. PipesCounted' /\ PipesBatch'
    BY <2>1, PipesUncounted
  <2>3. PipesTyped' /\ PipesFlags' /\ Pipes!LoopsReadToTheEnd'
    BY <2>1 DEF PipesTyped, PipesFlags, Pipes!LoopsReadToTheEnd
  <2> QED
    BY <2>2, <2>3
<1>8. ASSUME Pipes!HandleEvent PROVE PipesInv'
  <2>1. /\ p_pc = "loop" /\ p_pc' = "loop" /\ p_prog' = p_prog /\ p_regular' = p_regular /\ p_fd' = p_fd
        /\ p_coming' = p_coming /\ p_writer' = p_writer /\ p_eof' = p_eof
        /\ p_last' = p_last /\ p_count' = p_count /\ p_batch # << >>
        /\ p_pipe' \in {Pipes!AfterRead(p_pipe), p_pipe}
        /\ p_avail' \in {Pipes!AfterRead(p_avail), p_avail}
        /\ p_batch' \in {<< >>, Tail(p_batch)}
    BY <1>8 DEF Pipes!HandleEvent
  <2>2. PipesBatch'
    <3>1. p_batch \in Seq(Events) /\ Len(p_batch) <= 2
      BY DEF PipesBatch
    <3>2. Tail(p_batch) \in Seq(Events) /\ Len(Tail(p_batch)) <= 2
      BY <2>1, <3>1
    <3>3. << >> \in Seq(Events) /\ Len(<< >>) <= 2
      OBVIOUS
    <3> QED
      BY <2>1, <3>2, <3>3 DEF PipesBatch
  <2>3. p_avail \in Nat /\ p_coming \in Nat /\ p_avail + p_coming <= MaxBytes
    BY DEF PipesCounted
  <2>4. p_avail' \in Nat /\ p_avail' <= p_avail
    BY <2>1, <2>3 DEF Pipes!AfterRead
  <2>5. p_avail' + p_coming' <= MaxBytes
    BY <2>1, <2>3, <2>4, LoopConstants, StaysBelow
  <2>6. p_pipe' \in 0..MaxPipe
    BY <2>1, LoopConstants DEF PipesCounted, Pipes!AfterRead
  <2>7. PipesCounted'
    BY <2>1, <2>4, <2>5, <2>6 DEF PipesCounted
  <2>8. PipesTyped' /\ PipesFlags' /\ Pipes!LoopsReadToTheEnd'
    BY <2>1 DEF PipesTyped, PipesFlags, Pipes!LoopsReadToTheEnd
  <2> QED
    BY <2>2, <2>7, <2>8
<1>9. ASSUME Pipes!WriterOpens \/ Pipes!WriterCloses PROVE PipesInv'
  <2>1. /\ p_pc = "loop" /\ p_pc' = "loop" /\ p_prog' = p_prog /\ p_regular' = p_regular /\ p_fd' = p_fd
        /\ p_avail' = p_avail /\ p_coming' = p_coming
        /\ p_last' = p_last /\ p_pipe' = p_pipe /\ p_batch' = p_batch /\ p_count' = p_count
    BY <1>9 DEF Pipes!WriterOpens, Pipes!WriterCloses
  <2>2. p_writer' \in BOOLEAN /\ p_eof' \in BOOLEAN
    BY <1>9 DEF Pipes!WriterOpens, Pipes!WriterCloses
  <2>3. PipesCounted' /\ PipesBatch'
    BY <2>1, PipesUncounted
  <2>4. PipesTyped' /\ PipesFlags' /\ Pipes!LoopsReadToTheEnd'
    BY <2>1, <2>2 DEF PipesTyped, PipesFlags, Pipes!LoopsReadToTheEnd
  <2> QED
    BY <2>3, <2>4
<1>10. ASSUME NEW n \in 1..MaxBytes, Pipes!WriterWrites(n) PROVE PipesInv'
  <2>1. /\ p_pc = "loop" /\ p_pc' = "loop" /\ p_prog' = p_prog /\ p_regular' = p_regular /\ p_fd' = p_fd
        /\ p_writer' = p_writer /\ p_eof' = p_eof
        /\ p_last' = p_last /\ p_pipe' = p_pipe /\ p_batch' = p_batch /\ p_count' = p_count
    BY <1>10 DEF Pipes!WriterWrites
  <2>2. n <= p_coming /\ p_avail' = p_avail + n /\ p_coming' = p_coming - n
    BY <1>10 DEF Pipes!WriterWrites
  <2>3. p_avail \in Nat /\ p_coming \in Nat /\ p_avail + p_coming <= MaxBytes
    BY DEF PipesCounted
  <2>4. p_avail' \in Nat /\ p_coming' \in Nat /\ p_avail' + p_coming' = p_avail + p_coming
    BY <2>2, <2>3, LoopConstants
  <2>5. PipesCounted'
    BY <2>1, <2>3, <2>4 DEF PipesCounted
  <2>6. PipesTyped' /\ PipesFlags' /\ PipesBatch' /\ Pipes!LoopsReadToTheEnd'
    BY <2>1 DEF PipesTyped, PipesFlags, PipesBatch, Pipes!LoopsReadToTheEnd
  <2> QED
    BY <2>5, <2>6
<1>11. ASSUME UNCHANGED Pipes!vars PROVE PipesInv'
  <2>1. /\ p_pc' = p_pc /\ p_prog' = p_prog /\ p_regular' = p_regular /\ p_fd' = p_fd
        /\ p_avail' = p_avail /\ p_coming' = p_coming /\ p_writer' = p_writer /\ p_eof' = p_eof
        /\ p_last' = p_last /\ p_pipe' = p_pipe /\ p_batch' = p_batch /\ p_count' = p_count
    BY <1>11 DEF Pipes!vars
  <2>2. PipesCounted' /\ PipesBatch'
    BY <2>1, PipesUncounted
  <2>3. PipesTyped' /\ PipesFlags' /\ Pipes!LoopsReadToTheEnd'
    BY <2>1 DEF PipesTyped, PipesFlags, Pipes!LoopsReadToTheEnd
  <2> QED
    BY <2>2, <2>3
<1>12. ASSUME Pipes!ErrorEvent PROVE PipesInv'
  <2>1. /\ p_pc' = p_pc /\ p_prog' = p_prog /\ p_regular' = p_regular /\ p_fd' = p_fd
        /\ p_avail' = p_avail /\ p_coming' = p_coming /\ p_writer' = p_writer /\ p_eof' = p_eof
        /\ p_last' = p_last /\ p_pipe' = p_pipe /\ p_count' = p_count /\ p_batch' = << >>
    BY <1>12 DEF Pipes!ErrorEvent
  <2>2. PipesBatch'
    BY <2>1 DEF PipesBatch
  <2>3. PipesCounted'
    BY <2>1 DEF PipesCounted
  <2>4. PipesTyped' /\ PipesFlags' /\ Pipes!LoopsReadToTheEnd'
    BY <2>1 DEF PipesTyped, PipesFlags, Pipes!LoopsReadToTheEnd
  <2> QED
    BY <2>2, <2>3, <2>4
<1> HIDE DEF PipesInv
<1> QED
  BY <1>1, <1>2, PipesReads, <1>3, <1>4, <1>5, <1>6, <1>7, <1>8, <1>9, <1>10, <1>11, <1>12
  DEF Pipes!Next, Pipes!Loop, Pipes!Others

(* Only an event that says EV_ERROR sets fault. *)
LEMMA PipesFault ==
  ASSUME p_fault \in BOOLEAN, [Pipes!Next]_(Pipes!vars)
  PROVE  p_fault' \in BOOLEAN
<1>1. CASE UNCHANGED Pipes!vars
  BY <1>1 DEF Pipes!vars
<1>2. CASE Pipes!Loop
  BY <1>2 DEF Pipes!Loop, Pipes!OpenFile, Pipes!ReadFile, Pipes!OpenFifos, Pipes!KeventReturns,
              Pipes!KeventTimesOut, Pipes!HandleEvent
<1>3. CASE Pipes!Others
  BY <1>3 DEF Pipes!Others, Pipes!WritePipe, Pipes!PollFails, Pipes!KeventFails, Pipes!ErrorEvent,
              Pipes!WriterOpens, Pipes!WriterCloses, Pipes!WriterWrites
<1>4. ASSUME NEW p, NEW n, NEW file, Pipes!Start(p, n, file) PROVE p_fault' \in BOOLEAN
  BY <1>4 DEF Pipes!Start
<1> QED
  BY <1>1, <1>2, <1>3, <1>4 DEF Pipes!Next

-----------------------------------------------------------------------------
(* What MCSpec composes takes the steps of its parts. *)
LEMMA ComposedSteps ==
  ASSUME [MCNext]_<< vars, captureVars, pipeVars >>
  PROVE  [Next]_vars /\ [Captures!Next]_(Captures!vars) /\ [Pipes!Next]_(Pipes!vars)
  BY DEF MCNext, captureVars, pipeVars, Captures!vars, Pipes!vars

(* A loop over a capture file ends, if it ran and had no error, only at    *)
(* the end of the file, whatever stdio had read ahead; one over a file or  *)
(* a named pipe when all is read and nobody writes, or after a read of one *)
(* byte: pcap_dispatch and the callbacks of main.cc, poll.cc, kqueue.cc.   *)
THEOREM LoopsRead ==
  MCSpec => []LoopsReadToTheEnd
<1>1. MCInit => CapturesInv /\ PipesInv
  BY CapturesInitially, PipesInitially DEF MCInit
<1>2. CapturesInv /\ PipesInv /\ [MCNext]_<< vars, captureVars, pipeVars >>
      => CapturesInv' /\ PipesInv'
  BY ComposedSteps, CapturesStep, PipesStep
<1>3. CapturesInv /\ PipesInv => LoopsReadToTheEnd
  BY DEF CapturesInv, PipesInv, LoopsReadToTheEnd
<1> QED
  BY <1>1, <1>2, <1>3, PTL DEF MCSpec

(* The programs that wait for events keep to their types: main() of the    *)
(* loops on libpcap and on pipes, and the lookups of c-ares, of which      *)
(* every pending query has an open socket and a try left.                  *)
THEOREM LoopTypes ==
  MCSpec => []TypesOK
<1> DEFINE Inv == AresInv /\ CapturesInv /\ PipesInv /\ p_fault \in BOOLEAN
<1>1. MCInit => Inv
  BY AresInitially, CapturesInitially, PipesInitially DEF MCInit, Pipes!Init
<1>2. Inv /\ [MCNext]_<< vars, captureVars, pipeVars >> => Inv'
  BY ComposedSteps, AresStep, CapturesStep, PipesStep, PipesFault
<1>3. AresInv => TypeOK
  BY AresMeans
<1>4. CapturesInv => Captures!TypeOK
  BY LoopConstants DEF CapturesInv, CapturesTyped, CapturesCounted, CapturesFlags, Captures!TypeOK
<1>5. PipesInv /\ p_fault \in BOOLEAN => Pipes!TypeOK
  BY LoopConstants DEF PipesInv, PipesTyped, PipesCounted, PipesFlags, PipesBatch, Pipes!TypeOK
<1>6. Inv => TypesOK
  BY <1>3, <1>4, <1>5 DEF TypesOK
<1> QED
  BY <1>1, <1>2, <1>6, PTL DEF MCSpec
=============================================================================
