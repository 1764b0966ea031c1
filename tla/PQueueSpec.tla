----------------------------- MODULE PQueueSpec -----------------------------
(***************************************************************************)
(* What the priority queues of queue/ promise (the comments of             *)
(* PriorityQueue.h): a set of elements with times, from which a call takes *)
(* one that is due first or one the caller names.  There is no heap here.  *)
(***************************************************************************)
EXTENDS Integers

CONSTANTS Elements, Times, NegInf, NULL

VARIABLES
  queue,     \* the elements in the queue
  time,      \* when each element is due
  removing,  \* the argument of a Remove(e) that has begun, or NULL
  ret        \* what the last call to end returned

vars == << queue, time, removing, ret >>

Init ==
  /\ queue = {} /\ time \in [Elements -> Times]
  /\ removing = NULL /\ ret = NULL

(* The client replaces an element that is not queued. *)
Construct(e, x) ==
  /\ removing = NULL /\ e \notin queue
  /\ time' = [time EXCEPT ![e] = x]
  /\ UNCHANGED << queue, removing, ret >>

Add(e) ==
  /\ removing = NULL /\ e \notin queue
  /\ queue' = queue \cup {e}
  /\ UNCHANGED << time, removing, ret >>

(* "Removes (and returns) top of queue." *)
Remove(e) ==
  /\ removing = NULL /\ e \in queue
  /\ \A f \in queue : time[e] <= time[f]
  /\ queue' = queue \ {e}
  /\ ret' = e
  /\ UNCHANGED << time, removing >>

(* "Returns nil if the queue is empty." *)
RemoveFromEmpty ==
  /\ removing = NULL /\ queue = {}
  /\ ret' = NULL
  /\ UNCHANGED << queue, time, removing >>

(* "Removes element e.  Returns e": first "e will be modified", ... *)
BeginRemove(e) ==
  /\ removing = NULL /\ e \in queue
  /\ time' = [time EXCEPT ![e] = NegInf]
  /\ removing' = e
  /\ UNCHANGED << queue, ret >>

(* ... then it is gone. *)
EndRemove ==
  /\ removing \in queue
  /\ queue' = queue \ {removing}
  /\ ret' = removing
  /\ removing' = NULL
  /\ UNCHANGED time

(* "... or nullptr if e wasn't in the queue." *)
RemoveMissing(e) ==
  /\ removing = NULL /\ e \notin queue
  /\ ret' = NULL
  /\ UNCHANGED << queue, time, removing >>

Next ==
  \/ \E e \in Elements, x \in Times : Construct(e, x)
  \/ \E e \in Elements : Add(e) \/ Remove(e) \/ BeginRemove(e) \/ RemoveMissing(e)
  \/ RemoveFromEmpty
  \/ EndRemove

Spec == Init /\ [][Next]_vars
=============================================================================
