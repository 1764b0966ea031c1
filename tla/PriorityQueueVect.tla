------------------------- MODULE PriorityQueueVect -------------------------
(***************************************************************************)
(* Class PriorityQueueVect of queue/PriorityQueueVect.cc: a vector kept    *)
(* sorted from the latest time to the earliest, whose back is the top of   *)
(* the queue.  Each call is one step.                                      *)
(*                                                                         *)
(* Left out: the statistics, and BubbleUp, Swap and SetElement, which      *)
(* nothing calls.                                                          *)
(***************************************************************************)
EXTENDS Integers, FiniteSets, FiniteSetsExt, Sequences, SequencesExt

CONSTANTS
  Elements,  \* the PQ_Element objects
  Times,     \* the times elements are constructed with
  NegInf,    \* -HUGE_VAL, which MinimizeTime() sets
  NULL       \* the null pointer

VARIABLES
  heap,    \* the vector
  time,    \* Time() of each element
  offset,  \* Offset() of each element
  ret      \* what the last Remove returned

vars == << heap, time, offset, ret >>

Queued == ToSet(heap)

(* Slot i of the vector, counted from 0. *)
Slot(i) == heap[i + 1]

Init ==
  /\ heap = << >>
  /\ time \in [Elements -> Times]
  /\ offset = [e \in Elements |-> -1]
  /\ ret = NULL

(* The client deletes an element that is not queued and makes a new one.   *)
Construct(e, x) ==
  /\ e \notin Queued
  /\ time' = [time EXCEPT ![e] = x]
  /\ offset' = [offset EXCEPT ![e] = -1]
  /\ UNCHANGED << heap, ret >>

-----------------------------------------------------------------------------
(* The slots std::lower_bound passes: those due after e. *)
LaterThan(e) == {i \in 0 .. Len(heap) - 1 : time[Slot(i)] > time[e]}

(* Add(e), for an element that is not queued. *)
Add(e) ==
  /\ e \notin Queued
  /\ heap' = InsertAt(heap, Cardinality(LaterThan(e)) + 1, e)
  /\ offset' = [offset EXCEPT ![e] = IF heap = << >> THEN 0 ELSE 1]
  /\ UNCHANGED << time, ret >>

(* Mutant: the front of the vector is taken for its back. *)
RemoveFront ==
  /\ heap # << >>
  /\ heap' = Tail(heap)
  /\ offset' = [offset EXCEPT ![Head(heap)] = -1]
  /\ ret' = Head(heap)
  /\ UNCHANGED time

(* Remove() pops the back. *)
RemoveBack ==
  /\ heap # << >>
  /\ heap' = Front(heap)
  /\ offset' = [offset EXCEPT ![Last(heap)] = -1]
  /\ ret' = Last(heap)
  /\ UNCHANGED time

RemoveFromEmpty ==
  /\ heap = << >>
  /\ ret' = NULL
  /\ UNCHANGED << heap, time, offset >>

(* Remove(e): the test that e is queued, by its offset. *)
InHeap(e) ==
  offset[e] >= 0 /\ offset[e] < Len(heap) /\ Slot(offset[e]) = e

(* std::find then finds e at its offset; the offset stays as it is. *)
RemoveElement(e) ==
  /\ InHeap(e)
  /\ time' = [time EXCEPT ![e] = NegInf]
  /\ heap' = RemoveAt(heap, offset[e] + 1)
  /\ ret' = e
  /\ UNCHANGED offset

RemoveElementMissing(e) ==
  /\ ~InHeap(e)
  /\ ret' = NULL
  /\ UNCHANGED << heap, time, offset >>

-----------------------------------------------------------------------------
(* Clients that only add and take the top, as queue/main.cc does. *)
NextTop ==
  \/ \E e \in Elements, x \in Times : Construct(e, x)
  \/ \E e \in Elements : Add(e)
  \/ RemoveBack
  \/ RemoveFromEmpty

Next == NextTop \/ \E e \in Elements : RemoveElement(e) \/ RemoveElementMissing(e)

TopSpec == Init /\ [][NextTop]_vars

Spec == Init /\ [][Next]_vars

-----------------------------------------------------------------------------
(* Properties *)

(* Remove(e) recognizes, by its offset, every element that is queued.      *)
QueuedAreInHeap == \A e \in Queued : InHeap(e)

(* For clients that only take the top, the vector is the queue of          *)
(* PQueueSpec: Remove() gives back an element that is due first.           *)
Abstract == INSTANCE PQueueSpec WITH queue <- Queued, removing <- NULL

RefinesQueue == Abstract!Spec
=============================================================================
