---------------------------- MODULE PriorityQueue ----------------------------
(***************************************************************************)
(* Class PriorityQueue of queue/PriorityQueue.cc: a binary heap of         *)
(* elements (PQ_Element) that carry their own position ("offset").         *)
(*                                                                         *)
(* The root is bin 0 and Parent(i) is i >> 1, so bin 0 has the one child 1 *)
(* and bin i > 0 has the children 2i and 2i + 1.  A call starts at pc      *)
(* "idle"; every call of BubbleUp and BubbleDown, recursive ones included, *)
(* is a step, and the call returns to "idle".                              *)
(*                                                                         *)
(* Left out: the statistics peak_heap_size and cumulative_num.             *)
(***************************************************************************)
EXTENDS Integers

CONSTANTS
  Elements,      \* the PQ_Element objects
  Times,         \* the times elements are constructed with
  NegInf,        \* -HUGE_VAL, which MinimizeTime() sets
  NULL,          \* the null pointer
  InitialSize,   \* the constructor's initial_size
  ReAdd          \* do clients add again what Remove(e) gave back?

ASSUME QueueAssumption ==
  /\ Times \subseteq Int
  /\ NegInf \in Int
  /\ \A x \in Times : NegInf < x
  /\ NULL \notin Elements
  /\ InitialSize \in Nat \ {0}
  /\ ReAdd \in BOOLEAN

VARIABLES
  heap,           \* the array, of max_heap_size slots
  heap_size,
  max_heap_size,
  time,           \* Time() of each element
  offset,         \* Offset() of each element
  pc,             \* "idle", or where the running call is
  bin,            \* the argument of the running BubbleUp or BubbleDown
  call,           \* the element Add(e) or Remove(e) was called with, or NULL
  top,            \* the local variable of Remove()
  ret,            \* what the last call returned
  aborted         \* Remove(e) found its inconsistency

vars == << heap, heap_size, max_heap_size, time, offset, pc, bin, call, top,
           ret, aborted >>

Parent(i) == i \div 2
LeftChild(i) == 2 * i
RightChild(i) == LeftChild(i) + 1

TimeAt(i) == time[heap[i]]

SetElement(i, e) ==
  /\ heap' = [heap EXCEPT ![i] = e]
  /\ offset' = [offset EXCEPT ![e] = i]

(* Mutant: the second element keeps its old offset. *)
SwapOneOffset(i, j) ==
  /\ heap' = [heap EXCEPT ![i] = heap[j], ![j] = heap[i]]
  /\ offset' = [offset EXCEPT ![heap[j]] = i]

Swap(i, j) ==
  /\ heap' = [heap EXCEPT ![i] = heap[j], ![j] = heap[i]]
  /\ offset' = [offset EXCEPT ![heap[j]] = i, ![heap[i]] = j]

Init ==
  /\ heap = [i \in 0 .. InitialSize - 1 |-> NULL]
  /\ heap_size = 0
  /\ max_heap_size = InitialSize
  /\ time \in [Elements -> Times]
  /\ offset = [e \in Elements |-> -1]
  /\ pc = "idle" /\ bin = 0
  /\ call = NULL /\ top = NULL /\ ret = NULL
  /\ aborted = FALSE

-----------------------------------------------------------------------------
(* The client deletes an element that is not queued and makes a new one.   *)
Construct(e, x) ==
  /\ pc = "idle" /\ ~aborted
  /\ offset[e] = -1
  /\ time' = [time EXCEPT ![e] = x]
  /\ UNCHANGED << heap, heap_size, max_heap_size, offset, pc, bin, call, top,
                  ret, aborted >>

-----------------------------------------------------------------------------
(* Add(e), for an element that is not queued. *)
Add(e) ==
  /\ pc = "idle" /\ ~aborted
  /\ offset[e] = -1
  /\ ReAdd \/ time[e] # NegInf
  /\ SetElement(heap_size, e)
  /\ pc' = "add" /\ bin' = heap_size /\ call' = e
  /\ UNCHANGED << heap_size, max_heap_size, time, top, ret, aborted >>

(* Mutant: stops one short of the root. *)
BubbleUpSwapsBelowRoot == bin > 1 /\ TimeAt(Parent(bin)) > TimeAt(bin)

(* A call of BubbleUp that swaps and calls itself. *)
BubbleUpSwaps == bin # 0 /\ TimeAt(Parent(bin)) > TimeAt(bin)

(* Mutant: the recursive call is on the bin that has been left. *)
BubbleUpSameBin ==
  /\ pc \in {"add", "remove_element"}
  /\ BubbleUpSwaps
  /\ Swap(Parent(bin), bin)
  /\ bin' = bin
  /\ UNCHANGED << heap_size, max_heap_size, time, pc, call, top, ret, aborted >>

BubbleUp ==
  /\ pc \in {"add", "remove_element"}
  /\ BubbleUpSwaps
  /\ Swap(Parent(bin), bin)
  /\ bin' = Parent(bin)
  /\ UNCHANGED << heap_size, max_heap_size, time, pc, call, top, ret, aborted >>

(* Mutant: forgets to set max_heap_size. *)
ResizeUncounted(size) ==
  /\ heap' = [i \in 0 .. size - 1 |-> IF i < max_heap_size THEN heap[i] ELSE NULL]
  /\ UNCHANGED max_heap_size

(* Resize doubles the array. *)
Resize(size) ==
  /\ heap' = [i \in 0 .. size - 1 |-> IF i < max_heap_size THEN heap[i] ELSE NULL]
  /\ max_heap_size' = size

(* Mutant: resizes one element late. *)
FinishAddLate ==
  /\ pc = "add"
  /\ ~BubbleUpSwaps
  /\ heap_size' = heap_size + 1
  /\ IF heap_size + 1 > max_heap_size
     THEN Resize(max_heap_size * 2)
     ELSE UNCHANGED << heap, max_heap_size >>
  /\ pc' = "idle" /\ call' = NULL
  /\ UNCHANGED << time, offset, bin, top, ret, aborted >>

(* BubbleUp has returned: the rest of Add. *)
FinishAdd ==
  /\ pc = "add"
  /\ ~BubbleUpSwaps
  /\ heap_size' = heap_size + 1
  /\ IF heap_size + 1 >= max_heap_size
     THEN Resize(max_heap_size * 2)
     ELSE UNCHANGED << heap, max_heap_size >>
  /\ pc' = "idle" /\ call' = NULL
  /\ UNCHANGED << time, offset, bin, top, ret, aborted >>

-----------------------------------------------------------------------------
(* Remove() takes the top and puts the last element in its place. *)
RemoveTop ==
  /\ top' = heap[0]
  /\ heap_size' = heap_size - 1
  /\ SetElement(0, heap[heap_size - 1])
  /\ pc' = "down" /\ bin' = 0
  /\ UNCHANGED << max_heap_size, time, ret, aborted >>

RemoveFromEmpty ==
  /\ pc = "idle" /\ ~aborted
  /\ heap_size = 0
  /\ ret' = NULL
  /\ UNCHANGED << heap, heap_size, max_heap_size, time, offset, pc, bin, call,
                  top, aborted >>

Remove ==
  /\ pc = "idle" /\ ~aborted
  /\ heap_size > 0
  /\ RemoveTop
  /\ UNCHANGED call

(* The calls of BubbleDown: it swaps with the lesser child and goes on     *)
(* there, except that a lone left child ends it.                           *)
BubbleDownLeft ==
  /\ pc = "down"
  /\ RightChild(bin) < heap_size
  /\ TimeAt(LeftChild(bin)) < TimeAt(RightChild(bin))
  /\ TimeAt(LeftChild(bin)) < TimeAt(bin)
  /\ Swap(LeftChild(bin), bin)
  /\ bin' = LeftChild(bin)
  /\ UNCHANGED << heap_size, max_heap_size, time, pc, call, top, ret, aborted >>

BubbleDownRight ==
  /\ pc = "down"
  /\ RightChild(bin) < heap_size
  /\ TimeAt(LeftChild(bin)) >= TimeAt(RightChild(bin))
  /\ TimeAt(RightChild(bin)) < TimeAt(bin)
  /\ Swap(RightChild(bin), bin)
  /\ bin' = RightChild(bin)
  /\ UNCHANGED << heap_size, max_heap_size, time, pc, call, top, ret, aborted >>

BubbleDownLast ==
  /\ pc = "down"
  /\ LeftChild(bin) < heap_size /\ RightChild(bin) >= heap_size
  /\ TimeAt(LeftChild(bin)) < TimeAt(bin)
  /\ Swap(LeftChild(bin), bin)
  /\ pc' = "return"
  /\ UNCHANGED << heap_size, max_heap_size, time, bin, call, top, ret, aborted >>

BubbleDownStops ==
  \/ LeftChild(bin) >= heap_size
  \/ /\ LeftChild(bin) < heap_size /\ RightChild(bin) >= heap_size
     /\ TimeAt(LeftChild(bin)) >= TimeAt(bin)
  \/ /\ RightChild(bin) < heap_size
     /\ TimeAt(LeftChild(bin)) < TimeAt(RightChild(bin))
     /\ TimeAt(LeftChild(bin)) >= TimeAt(bin)
  \/ /\ RightChild(bin) < heap_size
     /\ TimeAt(LeftChild(bin)) >= TimeAt(RightChild(bin))
     /\ TimeAt(RightChild(bin)) >= TimeAt(bin)

BubbleDownReturn ==
  /\ pc = "down"
  /\ BubbleDownStops
  /\ pc' = "return"
  /\ UNCHANGED << heap, heap_size, max_heap_size, time, offset, bin, call, top,
                  ret, aborted >>

(* Mutant: the element keeps its offset. *)
FinishRemoveUnmarked ==
  /\ pc = "return"
  /\ ret' = top
  /\ aborted' = (call # NULL /\ call # top)
  /\ pc' = "idle" /\ call' = NULL /\ top' = NULL
  /\ UNCHANGED << heap, heap_size, max_heap_size, time, offset, bin >>

(* BubbleDown has returned: the rest of Remove(), and of Remove(e). *)
FinishRemove ==
  /\ pc = "return"
  /\ offset' = [offset EXCEPT ![top] = -1]
  /\ ret' = top
  /\ aborted' = (call # NULL /\ call # top)
  /\ pc' = "idle" /\ call' = NULL /\ top' = NULL
  /\ UNCHANGED << heap, heap_size, max_heap_size, time, bin >>

-----------------------------------------------------------------------------
(* Remove(e): the test that e is queued, then up to the root and out. *)
InHeap(e) == offset[e] >= 0 /\ offset[e] < heap_size /\ heap[offset[e]] = e

(* Mutant: Remove(e) without MinimizeTime(). *)
RemoveElementOnTime(e) ==
  /\ pc = "idle" /\ ~aborted
  /\ InHeap(e)
  /\ pc' = "remove_element" /\ bin' = offset[e] /\ call' = e
  /\ UNCHANGED << heap, heap_size, max_heap_size, time, offset, top, ret, aborted >>

RemoveElement(e) ==
  /\ pc = "idle" /\ ~aborted
  /\ InHeap(e)
  /\ time' = [time EXCEPT ![e] = NegInf]
  /\ pc' = "remove_element" /\ bin' = offset[e] /\ call' = e
  /\ UNCHANGED << heap, heap_size, max_heap_size, offset, top, ret, aborted >>

RemoveElementMissing(e) ==
  /\ pc = "idle" /\ ~aborted
  /\ ~InHeap(e)
  /\ ret' = NULL
  /\ UNCHANGED << heap, heap_size, max_heap_size, time, offset, pc, bin, call,
                  top, aborted >>

(* BubbleUp has returned: Remove(e) calls Remove(). *)
RemoveElementTop ==
  /\ pc = "remove_element"
  /\ ~BubbleUpSwaps
  /\ RemoveTop
  /\ UNCHANGED call

-----------------------------------------------------------------------------
Next ==
  \/ \E e \in Elements, x \in Times : Construct(e, x)
  \/ \E e \in Elements : Add(e) \/ RemoveElement(e) \/ RemoveElementMissing(e)
  \/ BubbleUp \/ FinishAdd
  \/ Remove \/ RemoveFromEmpty \/ RemoveElementTop
  \/ BubbleDownLeft \/ BubbleDownRight \/ BubbleDownLast \/ BubbleDownReturn
  \/ FinishRemove

Spec == Init /\ [][Next]_vars

-----------------------------------------------------------------------------
(* Properties *)

(* Types: the array has max_heap_size slots, the counters are naturals.    *)
TypeOK ==
  /\ max_heap_size \in Nat \ {0}
  /\ heap \in [0 .. max_heap_size - 1 -> Elements \cup {NULL}]
  /\ heap_size \in Nat
  /\ time \in [Elements -> Times \cup {NegInf}]
  /\ offset \in [Elements -> Nat \cup {-1}]
  /\ pc \in {"idle", "add", "remove_element", "down", "return"}
  /\ bin \in Nat
  /\ call \in Elements \cup {NULL}
  /\ top \in Elements \cup {NULL}
  /\ ret \in Elements \cup {NULL}
  /\ aborted \in BOOLEAN

(* Add writes heap[heap_size] before it looks at the size of the array: a  *)
(* slot is free whenever it is called, and in the middle of a call.        *)
HasRoom == heap_size < max_heap_size

(* The slots in use; Add counts its own only at its end. *)
Live == IF pc = "add" THEN heap_size + 1 ELSE heap_size

(* The element that Remove() has taken out and not yet marked. *)
Leaving == IF pc \in {"down", "return"} THEN {top} ELSE {}

(* Each element in the heap knows its slot, which Remove(e) relies on, and *)
(* an element that is not in the heap knows that.  Within a call, only the *)
(* element on its way out is excepted, which still has the root on record. *)
OffsetsConsistent ==
  /\ \A i \in 0 .. Live - 1 : heap[i] \in Elements \ Leaving /\ offset[heap[i]] = i
  /\ \A e \in Elements \ Leaving :
       offset[e] # -1 => offset[e] \in 0 .. Live - 1 /\ heap[offset[e]] = e
  /\ \A e \in Leaving : e \in Elements /\ offset[e] = 0

(***************************************************************************)
(* The order of the heap, inside calls too.  While an element bubbles up,  *)
(* only it may be due before its parent; while one bubbles down, only its  *)
(* children may be due before it.  In both cases its children are not due  *)
(* before its parent, so a swap repairs the order at both.                 *)
(***************************************************************************)
DueAfterParent(i) == TimeAt(Parent(i)) <= TimeAt(i)

ChildrenDueAfterParentOfBin ==
  \A i \in 1 .. Live - 1 :
    Parent(i) = bin /\ bin # 0 => TimeAt(Parent(bin)) <= TimeAt(i)

HeapOrdered ==
  /\ pc \in {"idle", "return"} => \A i \in 1 .. Live - 1 : DueAfterParent(i)
  /\ pc \in {"add", "remove_element"} =>
       /\ bin < Live
       /\ \A i \in 1 .. Live - 1 : i # bin => DueAfterParent(i)
       /\ ChildrenDueAfterParentOfBin
  /\ pc = "down" =>
       /\ bin = 0 \/ bin < Live
       /\ \A i \in 1 .. Live - 1 : Parent(i) # bin => DueAfterParent(i)
       /\ ChildrenDueAfterParentOfBin

(* Top(), heap[0], is due first: in a heap whose root has a single child.  *)
TopIsFirst ==
  pc = "idle" => \A i \in 0 .. heap_size - 1 : TimeAt(0) <= TimeAt(i)

(* What Remove() has taken out is due no later than what is left. *)
LeavingIsFirst ==
  \A e \in Leaving : \A i \in 0 .. Live - 1 : time[e] <= TimeAt(i)

(* Remove(e) finds e at the top once it has minimized its time and bubbled *)
(* it up: the "inconsistency in PriorityQueue::Remove" never happens.      *)
NoInconsistency == ~aborted

(* Why: of what is queued, only the element being removed is minimized,    *)
(* and what Remove() takes out on behalf of Remove(e) is e.                *)
OnlyCalledMinimized ==
  /\ pc = "idle" => call = NULL
  /\ pc = "remove_element" =>
       call \in Elements /\ heap[bin] = call /\ time[call] = NegInf
  /\ pc \in {"down", "return"} => call \in {NULL, top}
  /\ \A i \in 0 .. Live - 1 :
       TimeAt(i) = NegInf => pc = "remove_element" /\ i = bin

(* Bubbling gets somewhere with every call, so it comes to its end: up     *)
(* towards the root, and down within the heap, although the left child of  *)
(* the root is the root itself.                                            *)
BubblingAdvances ==
  [][/\ pc \in {"add", "remove_element"} /\ pc' = pc => bin' < bin
     /\ pc = "down" /\ pc' = pc => bin < bin' /\ bin' < heap_size]_vars

(* Seen through the offsets, the heap is the queue of PQueueSpec: Remove() *)
(* gives back an element that is due first, Remove(e) gives back e, and    *)
(* neither bubbling nor resizing adds or drops an element.                 *)
Queued == {e \in Elements : offset[e] >= 0}

Removing == IF pc = "add" THEN NULL ELSE call

Abstract == INSTANCE PQueueSpec WITH queue <- Queued, removing <- Removing

RefinesQueue == Abstract!Spec
=============================================================================
