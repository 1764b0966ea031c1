----------------------- MODULE PriorityQueueUnrolled -----------------------
(***************************************************************************)
(* Class PriorityQueueUnrolled of queue/PriorityQueueUnrolled.cc: the heap *)
(* of PriorityQueue with the recursion of BubbleDown made a loop that ends *)
(* when a round leaves "bin" where it was.  Every round is a step.         *)
(*                                                                         *)
(* What the two classes share, line by line, is taken over; the names of   *)
(* this class's own operations begin with U.                               *)
(***************************************************************************)
EXTENDS PriorityQueue

VARIABLE old_bin  \* the local variable of BubbleDown

uvars == << vars, old_bin >>

UInit == Init /\ old_bin = -1

UConstruct(e, x) == Construct(e, x) /\ UNCHANGED old_bin

UAdd(e) == Add(e) /\ UNCHANGED old_bin

UBubbleUp == BubbleUp /\ UNCHANGED old_bin

UFinishAdd == FinishAdd /\ UNCHANGED old_bin

URemoveFromEmpty == RemoveFromEmpty /\ UNCHANGED old_bin

(* Remove() enters BubbleDown(0), which begins with old_bin = -1. *)
URemove == Remove /\ old_bin' = -1

URemoveElement(e) == RemoveElement(e) /\ UNCHANGED old_bin

URemoveElementMissing(e) == RemoveElementMissing(e) /\ UNCHANGED old_bin

URemoveElementTop == RemoveElementTop /\ old_bin' = -1

UFinishRemove == FinishRemove /\ UNCHANGED old_bin

-----------------------------------------------------------------------------
(* The loop goes on: the last round moved, and there is a left child. *)
Looping == pc = "down" /\ old_bin # bin /\ LeftChild(bin) < heap_size

(* Mutant: the round that swaps does not follow the element. *)
RoundToStaying(child) ==
  /\ TimeAt(child) < TimeAt(bin)
  /\ Swap(child, bin)
  /\ bin' = bin /\ old_bin' = bin
  /\ UNCHANGED << heap_size, max_heap_size, time, pc, call, top, ret, aborted >>

(* Swap and go on at the child. *)
RoundTo(child) ==
  /\ TimeAt(child) < TimeAt(bin)
  /\ Swap(child, bin)
  /\ bin' = child /\ old_bin' = bin
  /\ UNCHANGED << heap_size, max_heap_size, time, pc, call, top, ret, aborted >>

RoundLeft ==
  /\ Looping /\ RightChild(bin) < heap_size
  /\ TimeAt(LeftChild(bin)) < TimeAt(RightChild(bin))
  /\ RoundTo(LeftChild(bin))

RoundRight ==
  /\ Looping /\ RightChild(bin) < heap_size
  /\ TimeAt(LeftChild(bin)) >= TimeAt(RightChild(bin))
  /\ RoundTo(RightChild(bin))

(* Just a left child: the swap leaves bin alone, and the loop ends. *)
RoundLast ==
  /\ Looping /\ RightChild(bin) >= heap_size
  /\ TimeAt(LeftChild(bin)) < TimeAt(bin)
  /\ Swap(LeftChild(bin), bin)
  /\ old_bin' = bin
  /\ UNCHANGED << heap_size, max_heap_size, time, pc, bin, call, top, ret,
                  aborted >>

(* A round that finds the element in its place. *)
RoundKeeps ==
  /\ Looping /\ BubbleDownStops
  /\ old_bin' = bin
  /\ UNCHANGED vars

(* The loop's condition fails, or the break. *)
LoopEnds ==
  /\ pc = "down"
  /\ old_bin = bin \/ LeftChild(bin) >= heap_size
  /\ pc' = "return"
  /\ UNCHANGED << heap, heap_size, max_heap_size, time, offset, bin, call, top,
                  ret, aborted, old_bin >>

-----------------------------------------------------------------------------
UNext ==
  \/ \E e \in Elements, x \in Times : UConstruct(e, x)
  \/ \E e \in Elements : UAdd(e) \/ URemoveElement(e) \/ URemoveElementMissing(e)
  \/ UBubbleUp \/ UFinishAdd
  \/ URemove \/ URemoveFromEmpty \/ URemoveElementTop
  \/ RoundLeft \/ RoundRight \/ RoundLast \/ RoundKeeps \/ LoopEnds
  \/ UFinishRemove

USpec == UInit /\ [][UNext]_uvars

-----------------------------------------------------------------------------
(* A round that left bin where it was has done what the recursive          *)
(* BubbleDown does in its last call, and only the loop's test is to come.  *)
Settled == pc = "down" /\ old_bin = bin

Recursive == INSTANCE PriorityQueue WITH
  pc <- IF Settled THEN "return" ELSE pc

(* Round by round, the loop does what the recursive calls do: the class    *)
(* implements PriorityQueue.                                               *)
RefinesRecursive == Recursive!Spec

(* Every round that the loop goes on after is further down, and in the     *)
(* heap, so the loop ends; bubbling up advances as in PriorityQueue.       *)
RoundsAdvance == Recursive!BubblingAdvances
=============================================================================
