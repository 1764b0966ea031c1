-------------------- MODULE PriorityQueueUnrolledProofs --------------------
(***************************************************************************)
(* PriorityQueueUnrolled implements PriorityQueue: a round of its loop is  *)
(* a recursive call of BubbleDown, and the test that ends the loop after a *)
(* round that did not move is no step of the recursive heap.  The one case *)
(* that needs the invariant of the recursive heap is bin 0, which is its   *)
(* own left child: that a round never "moves" from 0 to 0 takes that the   *)
(* slots in use hold elements and that times are integers.                 *)
(*                                                                         *)
(* R is the instance Recursive of the other module, with its theorems.     *)
(*                                                                         *)
(* The last part is about PriorityQueueVect, which MCQueues puts beside    *)
(* the heaps: its vector stays sorted and is the same abstract queue.      *)
(***************************************************************************)
EXTENDS MCQueues, Sequences, FiniteSetTheorems, WellFoundedInduction, TLAPS

R == INSTANCE PriorityQueueProofs WITH pc <- IF Settled THEN "return" ELSE pc

(* R and Recursive are the same instance: their steps are the same. *)
LEMMA SameNext == [Recursive!Next]_(Recursive!vars) <=> [R!Next]_(R!vars)
  BY DEF Recursive!Next, R!Next, Recursive!vars, R!vars,
    Recursive!Construct, R!Construct, Recursive!Add, R!Add,
    Recursive!BubbleUp, R!BubbleUp, Recursive!FinishAdd, R!FinishAdd,
    Recursive!Remove, R!Remove, Recursive!RemoveFromEmpty, R!RemoveFromEmpty,
    Recursive!RemoveElement, R!RemoveElement,
    Recursive!RemoveElementMissing, R!RemoveElementMissing,
    Recursive!RemoveElementTop, R!RemoveElementTop,
    Recursive!BubbleDownLeft, R!BubbleDownLeft,
    Recursive!BubbleDownRight, R!BubbleDownRight,
    Recursive!BubbleDownLast, R!BubbleDownLast,
    Recursive!BubbleDownReturn, R!BubbleDownReturn,
    Recursive!FinishRemove, R!FinishRemove,
    Recursive!SetElement, R!SetElement, Recursive!Swap, R!Swap,
    Recursive!Resize, R!Resize, Recursive!TimeAt, R!TimeAt,
    Recursive!Parent, R!Parent, Recursive!LeftChild, R!LeftChild,
    Recursive!RightChild, R!RightChild,
    Recursive!BubbleUpSwaps, R!BubbleUpSwaps,
    Recursive!BubbleDownStops, R!BubbleDownStops,
    Recursive!InHeap, R!InHeap, Recursive!RemoveTop, R!RemoveTop

(* ... and so are their initial states. *)
LEMMA SameInit == Recursive!Init <=> R!Init
  BY DEF Recursive!Init, R!Init

(* A new queue is a new queue of the recursive class. *)
LEMMA InitRecursive == UInit => R!Init
  BY DEF UInit, Init, R!Init, Settled

-----------------------------------------------------------------------------
(* Within the heap a child at the place of its parent, which only bin 0    *)
(* has, is not due before itself.                                          *)
LEMMA NotBeforeItself ==
  ASSUME R!IInv, pc = "down", ~Settled, LeftChild(bin) < heap_size,
         TimeAt(LeftChild(bin)) < TimeAt(bin)
  PROVE  LeftChild(bin) # bin
<1>1. /\ bin \in Nat /\ heap_size \in Nat /\ R!Live = heap_size
      /\ time \in [Elements -> Times \cup {NegInf}]
  BY DEF R!IInv, R!TypeOK, R!Live, Settled
<1>2. SUFFICES ASSUME LeftChild(bin) = bin PROVE FALSE
  OBVIOUS
<1>3. bin \in 0 .. R!Live - 1
  BY <1>1, <1>2 DEF LeftChild
<1>4. heap[bin] \in Elements
  BY <1>3 DEF R!IInv, R!OffsetsConsistent
<1>5. TimeAt(bin) \in Times \cup {NegInf}
  BY <1>1, <1>4 DEF TimeAt
<1>6. TimeAt(bin) \in Int
  BY <1>5, QueueAssumption
<1> QED
  BY <1>2, <1>6

(* Each round of the loop is a call of the recursive BubbleDown. *)
LEMMA RoundsRefine ==
  ASSUME R!IInv, RoundLeft \/ RoundRight \/ RoundLast \/ RoundKeeps
  PROVE  \/ R!BubbleDownLeft \/ R!BubbleDownRight
         \/ R!BubbleDownLast \/ R!BubbleDownReturn
<1> USE DEF Swap, TimeAt, LeftChild, RightChild, R!Swap, R!TimeAt,
            R!LeftChild, R!RightChild
<1>1. /\ pc = "down" /\ pc' = pc /\ old_bin' = bin /\ ~Settled
      /\ LeftChild(bin) < heap_size /\ bin \in Nat /\ heap_size \in Nat
  BY DEF RoundLeft, RoundRight, RoundLast, RoundKeeps, RoundTo, Looping, vars,
         Settled, R!IInv, R!TypeOK
<1>2. CASE RoundLeft
  <2>1. bin' # bin
    BY <1>1, <1>2, NotBeforeItself DEF RoundLeft, RoundTo
  <2>2. ~Settled'
    BY <1>1, <2>1 DEF Settled
  <2> QED
    BY <1>1, <1>2, <2>2 DEF RoundLeft, RoundTo, R!BubbleDownLeft
<1>3. CASE RoundRight
  <2>1. ~Settled'
    BY <1>1, <1>3 DEF RoundRight, RoundTo, Settled
  <2> QED
    BY <1>1, <1>3, <2>1 DEF RoundRight, RoundTo, R!BubbleDownRight
<1>4. CASE RoundLast
  <2>1. Settled' /\ bin' = bin
    BY <1>1, <1>4 DEF RoundLast, Settled
  <2> QED
    BY <1>1, <1>4, <2>1 DEF RoundLast, R!BubbleDownLast
<1>5. CASE RoundKeeps
  <2>1. Settled' /\ bin' = bin /\ UNCHANGED vars
    BY <1>1, <1>5 DEF RoundKeeps, vars, Settled
  <2> QED
    BY <1>1, <1>5, <2>1
    DEF RoundKeeps, R!BubbleDownReturn, R!BubbleDownStops, BubbleDownStops, vars
<1> QED
  BY <1>2, <1>3, <1>4, <1>5

(* The end of the loop: no step after a round that did not move, the last  *)
(* call of the recursion where there is no child.                          *)
LEMMA LoopEndRefines ==
  ASSUME LoopEnds
  PROVE  R!BubbleDownReturn \/ UNCHANGED R!vars
<1>1. pc = "down" /\ pc' = "return" /\ ~Settled'
  BY DEF LoopEnds, Settled
<1>2. CASE old_bin = bin
  BY <1>1, <1>2 DEF LoopEnds, Settled, R!vars
<1>3. CASE old_bin # bin
  BY <1>1, <1>3 DEF LoopEnds, Settled, R!BubbleDownReturn, R!BubbleDownStops,
    LeftChild, R!LeftChild
<1> QED
  BY <1>2, <1>3

(* Outside the loop the two classes are the same code. *)
LEMMA SharedRefines ==
  ASSUME \/ \E e \in Elements, x \in Times : UConstruct(e, x)
         \/ \E e \in Elements : \/ UAdd(e) \/ URemoveElement(e)
                                \/ URemoveElementMissing(e)
         \/ UBubbleUp \/ UFinishAdd
         \/ URemove \/ URemoveFromEmpty \/ URemoveElementTop \/ UFinishRemove
  PROVE  R!Next
<1>1. ASSUME NEW e \in Elements, NEW x \in Times, UConstruct(e, x)
      PROVE  R!Construct(e, x)
  BY <1>1 DEF UConstruct, Construct, R!Construct, Settled
<1>2. ASSUME NEW e \in Elements, UAdd(e)
      PROVE  R!Add(e)
  BY <1>2 DEF UAdd, Add, R!Add, SetElement, R!SetElement, Settled
<1>3. ASSUME NEW e \in Elements, URemoveElement(e)
      PROVE  R!RemoveElement(e)
  BY <1>3 DEF URemoveElement, RemoveElement, R!RemoveElement, InHeap, R!InHeap,
    Settled
<1>4. ASSUME NEW e \in Elements, URemoveElementMissing(e)
      PROVE  R!RemoveElementMissing(e)
  BY <1>4 DEF URemoveElementMissing, RemoveElementMissing,
    R!RemoveElementMissing, InHeap, R!InHeap, Settled
<1> USE DEF BubbleUpSwaps, R!BubbleUpSwaps, Swap, R!Swap, TimeAt, R!TimeAt,
            Parent, R!Parent
<1>5. ASSUME UBubbleUp
      PROVE  R!BubbleUp
  BY <1>5 DEF UBubbleUp, BubbleUp, R!BubbleUp, Settled
<1>6. ASSUME UFinishAdd
      PROVE  R!FinishAdd
  BY <1>6 DEF UFinishAdd, FinishAdd, R!FinishAdd, Resize, R!Resize, Settled
<1>7. ASSUME URemoveFromEmpty
      PROVE  R!RemoveFromEmpty
  BY <1>7 DEF URemoveFromEmpty, RemoveFromEmpty, R!RemoveFromEmpty, Settled
<1>8. ASSUME URemove
      PROVE  R!Remove
  BY <1>8 DEF URemove, Remove, R!Remove, RemoveTop, R!RemoveTop, SetElement,
    R!SetElement, Settled
<1>9. ASSUME URemoveElementTop
      PROVE  R!RemoveElementTop
  BY <1>9 DEF URemoveElementTop, RemoveElementTop, R!RemoveElementTop,
    RemoveTop, R!RemoveTop, SetElement, R!SetElement, Settled
<1>10. ASSUME UFinishRemove
       PROVE  R!FinishRemove
  BY <1>10 DEF UFinishRemove, FinishRemove, R!FinishRemove, Settled
<1> QED
  BY <1>1, <1>2, <1>3, <1>4, <1>5, <1>6, <1>7, <1>8, <1>9, <1>10 DEF R!Next

-----------------------------------------------------------------------------
(* Every step is a step of the recursive heap or invisible to it. *)
LEMMA StepRecursive ==
  ASSUME R!IInv, [UNext]_uvars
  PROVE  [R!Next]_(R!vars)
<1>1. CASE RoundLeft \/ RoundRight \/ RoundLast \/ RoundKeeps
  BY <1>1, RoundsRefine DEF R!Next
<1>2. CASE LoopEnds
  BY <1>2, LoopEndRefines DEF R!Next
<1>3. CASE UNCHANGED uvars
  BY <1>3 DEF uvars, vars, R!vars, Settled
<1> QED
  BY <1>1, <1>2, <1>3, SharedRefines DEF UNext

(* The invariant of the recursive heap, seen through the mapping.          *)
LEMMA RecursiveInductive == USpec => [](R!IInv)
<1>1. R!Init => R!IInv
  BY R!InitIInv, QueueAssumption DEF QueueAssumption
<1>2. R!IInv /\ [R!Next]_(R!vars) => R!IInv'
  BY R!NextIInv, QueueAssumption DEF QueueAssumption
<1>3. R!IInv /\ [UNext]_uvars => R!IInv'
  BY <1>2, StepRecursive
<1> QED
  BY <1>1, <1>3, InitRecursive, PTL DEF USpec

(* The class with the loop implements the class with the recursion, for    *)
(* every set of elements, times and initial size: what is proved of        *)
(* PriorityQueue holds of PriorityQueueUnrolled.                           *)
THEOREM UnrolledIsRecursive == USpec => RefinesRecursive
<1>1. UInit => Recursive!Init
  BY InitRecursive, SameInit
<1>2. R!IInv /\ [UNext]_uvars => [Recursive!Next]_(Recursive!vars)
  BY StepRecursive, SameNext
<1> QED
  BY <1>1, <1>2, RecursiveInductive, PTL DEF USpec, RefinesRecursive, Recursive!Spec

(* The same for the instance that carries the theorems. *)
LEMMA UnrolledSpec == USpec => R!Spec
<1>1. R!IInv /\ [UNext]_uvars => [R!Next]_(R!vars)
  BY StepRecursive
<1> QED
  BY <1>1, InitRecursive, RecursiveInductive, PTL DEF USpec, R!Spec

(* The loop of BubbleDown ends: each round that goes on is further down,   *)
(* although the left child of the root is the root.                        *)
THEOREM RoundsEnd == USpec => RoundsAdvance
<1>1. R!Spec => R!BubblingAdvances
  BY R!BubblingEnds, QueueAssumption DEF QueueAssumption
<1>2. R!BubblingAdvances <=> RoundsAdvance
  BY DEF RoundsAdvance, R!BubblingAdvances, Recursive!BubblingAdvances,
         R!vars, Recursive!vars
<1> QED
  BY <1>1, <1>2, UnrolledSpec, PTL

(* Add of the unrolled class has a slot to write to, whatever was done     *)
(* before and however often the array has been reallocated.                *)
THEOREM UnrolledHasRoom == USpec => []HasRoom
<1>1. R!IInv => HasRoom
  BY DEF R!IInv, R!HasRoom, HasRoom
<1> QED
  BY <1>1, RecursiveInductive, PTL

(* The abort() in Remove(e) of the unrolled class is unreachable if no     *)
(* minimized element is added again.                                       *)
THEOREM UnrolledConsistent ==
  ASSUME ~ReAdd
  PROVE  USpec => []NoInconsistency
<1>1. R!Spec => [](R!NoInconsistency)
  BY R!Consistent, QueueAssumption DEF QueueAssumption
<1>2. R!NoInconsistency <=> NoInconsistency
  BY DEF R!NoInconsistency, NoInconsistency
<1> QED
  BY <1>1, <1>2, UnrolledSpec, PTL

(* The unrolled class is the queue of PQueueSpec: Remove() returns an      *)
(* element due first and Remove(e) returns e.                              *)
THEOREM UnrolledImplementsQueue ==
  ASSUME ~ReAdd
  PROVE  USpec => RefinesQueue
<1>1. R!Spec => R!RefinesQueue
  BY R!ImplementsQueue, QueueAssumption DEF QueueAssumption
<1>2. (R!Queued = Queued) /\ (R!Removing = Removing)
  BY DEF R!Queued, Queued, R!Removing, Removing, Settled
<1>3. R!Abstract!Init <=> Abstract!Init
  BY <1>2 DEF R!Abstract!Init, Abstract!Init
<1>4. [R!Abstract!Next]_(R!Abstract!vars) <=> [Abstract!Next]_(Abstract!vars)
  <2>1. (R!Queued' = Queued') /\ (R!Removing' = Removing')
    BY DEF R!Queued, Queued, R!Removing, Removing, Settled
  <2> QED
    BY <1>2, <2>1
    DEF R!Abstract!Next, Abstract!Next,
     R!Abstract!vars, Abstract!vars,
     R!Abstract!Construct, Abstract!Construct,
     R!Abstract!Add, Abstract!Add,
     R!Abstract!BeginRemove, Abstract!BeginRemove,
     R!Abstract!Remove, Abstract!Remove,
     R!Abstract!EndRemove, Abstract!EndRemove,
     R!Abstract!RemoveMissing, Abstract!RemoveMissing,
     R!Abstract!RemoveFromEmpty, Abstract!RemoveFromEmpty
<1> QED
  BY <1>1, <1>3, <1>4, UnrolledSpec, PTL
  DEF RefinesQueue, R!RefinesQueue, R!Abstract!Spec, Abstract!Spec

-----------------------------------------------------------------------------
(* The vector of PriorityQueueVect: its elements, each once, from the      *)
(* latest to the earliest.                                                 *)
VectInv ==
  /\ v_heap \in Seq(Elements)
  /\ v_time \in [Elements -> Times]
  /\ \A m, n \in 1 .. Len(v_heap) :
       m < n => v_heap[m] # v_heap[n] /\ v_time[v_heap[m]] >= v_time[v_heap[n]]

LEMMA VectInitially == MCInit => VectInv
<1> SUFFICES ASSUME MCInit PROVE VectInv
  OBVIOUS
<1>1. v_heap = << >>
  BY DEF MCInit, Vect!Init
<1>2. v_time \in [Elements -> Times]
  <2>1. CASE Vect!Init
    BY <2>1 DEF Vect!Init
  <2>2. CASE UInit /\ v_time = NoTime
    <3>1. time \in [Elements -> Times]
      BY <2>2 DEF UInit, Init
    <3>2. \A e \in Elements : (CHOOSE x \in Times : TRUE) \in Times
      BY <3>1
    <3> QED
      BY <2>2, <3>2 DEF NoTime
  <2> QED
    BY <2>1, <2>2 DEF MCInit
<1> QED
  BY <1>1, <1>2 DEF VectInv

LEMMA VectTyped ==
  ASSUME VectInv
  PROVE  /\ v_heap \in Seq(Elements) /\ Len(v_heap) \in Nat
         /\ \A n \in 1 .. Len(v_heap) : v_heap[n] \in Elements
         /\ \A f \in Elements : v_time[f] \in Int
<1>1. v_heap \in Seq(Elements) /\ v_time \in [Elements -> Times] /\ Times \subseteq Int
  BY QueueAssumption DEF VectInv, QueueAssumption
<1>2. Len(v_heap) \in Nat /\ \A n \in 1 .. Len(v_heap) : v_heap[n] \in Elements
  BY <1>1
<1> QED
  BY <1>1, <1>2

(* A set of numbers that is not empty has a least one. *)
LEMMA LeastNumber ==
  ASSUME NEW S \in SUBSET Nat, S # {}
  PROVE  \E n \in S : \A m \in S : n <= m
<1> DEFINE Less == OpToRel(<, Nat)
<1>1. \A x, y \in Nat : x < y => << x, y >> \in Less
  BY DEF OpToRel
<1>2. IsWellFoundedOn(Less, Nat)
  BY NatLessThanWellFounded
<1> HIDE DEF Less
<1>3. PICK n \in S : \A m \in S : << m, n >> \notin Less
  BY <1>2, WFMin
<1>4. \A m \in S : m \in Nat /\ n \in Nat /\ ~ (m < n)
  BY <1>1, <1>3
<1>5. \A m \in S : n <= m
  BY <1>4
<1> QED
  BY <1>5

(* In a sorted vector lower_bound passes a prefix: the slots before k.     *)
LEMMA LowerBound ==
  ASSUME VectInv, NEW e \in Elements
  PROVE  \E k \in 0 .. Len(v_heap) :
           /\ Cardinality(Vect!LaterThan(e)) = k
           /\ \A n \in 1 .. k : v_time[v_heap[n]] > v_time[e]
           /\ \A n \in k + 1 .. Len(v_heap) : v_time[v_heap[n]] <= v_time[e]
<1>1. /\ v_heap \in Seq(Elements) /\ Len(v_heap) \in Nat
      /\ \A n \in 1 .. Len(v_heap) : v_heap[n] \in Elements
      /\ \A f \in Elements : v_time[f] \in Int
  BY VectTyped
<1> DEFINE Stop == {n \in 0 .. Len(v_heap) :
                      n = Len(v_heap) \/ v_time[v_heap[n + 1]] <= v_time[e]}
<1>2. PICK k \in Stop : \A m \in Stop : k <= m
  <2>1. Stop \in SUBSET Nat /\ Len(v_heap) \in Stop
    BY <1>1
  <2> HIDE DEF Stop
  <2> QED
    BY <2>1, LeastNumber
<1>3. k \in 0 .. Len(v_heap)
  BY <1>2
<1>4. \A n \in 1 .. k : v_time[v_heap[n]] > v_time[e]
  <2> SUFFICES ASSUME NEW n \in 1 .. k PROVE v_time[v_heap[n]] > v_time[e]
    OBVIOUS
  <2>1. n - 1 \notin Stop /\ n - 1 \in 0 .. Len(v_heap) /\ n - 1 # Len(v_heap)
    <3>1. n - 1 \in 0 .. Len(v_heap) /\ n - 1 # Len(v_heap) /\ ~(k <= n - 1)
      BY <1>1, <1>3
    <3> HIDE DEF Stop
    <3> QED
      BY <3>1, <1>2
  <2>2. ~(v_time[v_heap[(n - 1) + 1]] <= v_time[e])
    BY <2>1
  <2>3. (n - 1) + 1 = n /\ v_heap[n] \in Elements
    BY <1>1, <1>3
  <2> QED
    BY <2>2, <2>3, <1>1
<1>5. \A n \in k + 1 .. Len(v_heap) : v_time[v_heap[n]] <= v_time[e]
  <2> SUFFICES ASSUME NEW n \in k + 1 .. Len(v_heap) PROVE v_time[v_heap[n]] <= v_time[e]
    OBVIOUS
  <2>1. k # Len(v_heap) /\ k + 1 \in 1 .. Len(v_heap) /\ n \in 1 .. Len(v_heap)
    BY <1>1, <1>3
  <2>2. v_time[v_heap[k + 1]] <= v_time[e]
    BY <1>2, <2>1
  <2>3. k + 1 < n => v_time[v_heap[k + 1]] >= v_time[v_heap[n]]
    BY <2>1 DEF VectInv
  <2>4. k + 1 < n \/ n = k + 1
    BY <1>1, <1>3
  <2>5. v_heap[k + 1] \in Elements /\ v_heap[n] \in Elements
    BY <1>1, <2>1
  <2>6. v_time[v_heap[k + 1]] \in Int /\ v_time[v_heap[n]] \in Int /\ v_time[e] \in Int
    BY <1>1, <2>5
  <2>7. CASE n = k + 1
    BY <2>2, <2>7
  <2>8. CASE k + 1 < n
    BY <2>2, <2>3, <2>6, <2>8
  <2> QED
    BY <2>4, <2>7, <2>8
<1> HIDE DEF Stop
<1>6. Vect!LaterThan(e) = 0 .. k - 1
  <2>1. ASSUME NEW j \in 0 .. Len(v_heap) - 1
        PROVE  v_time[v_heap[j + 1]] > v_time[e] <=> j \in 0 .. k - 1
    <3>1. j + 1 \in 1 .. Len(v_heap) /\ v_heap[j + 1] \in Elements
      BY <1>1
    <3>2. v_time[v_heap[j + 1]] \in Int /\ v_time[e] \in Int
      BY <1>1, <3>1
    <3>3. CASE j < k
      BY <3>3, <1>3, <1>4, <3>1
    <3>4. CASE ~(j < k)
      <4>1. j + 1 \in k + 1 .. Len(v_heap)
        BY <3>4, <1>1, <1>3
      <4> QED
        BY <4>1, <1>5, <3>2, <3>4, <1>3
    <3> QED
      BY <3>3, <3>4
  <2> QED
    BY <2>1, <1>1, <1>3 DEF Vect!LaterThan, Vect!Slot
<1>7. Cardinality(0 .. k - 1) = k
  <2>1. k - 1 \in Int /\ 0 \in Int
    BY <1>3, <1>1
  <2> QED
    BY <2>1, <1>3, <1>1, FS_Interval
<1> QED
  BY <1>3, <1>4, <1>5, <1>6, <1>7

-----------------------------------------------------------------------------
(* Cardinality within the instance is that of this module. *)
LEMMA SameCardinality ==
  ASSUME NEW S
  PROVE  Vect!Cardinality(S) = Cardinality(S)
  BY Zenon DEF Vect!Cardinality, Cardinality

LEMMA Joined ==
  ASSUME NEW S, NEW s \in Seq(S), NEW t \in Seq(S)
  PROVE  s \o t \in Seq(S) /\ Len(s \o t) = Len(s) + Len(t)
  OBVIOUS

LEMMA Prefix ==
  ASSUME NEW S, NEW s \in Seq(S), NEW m \in Nat, m <= Len(s)
  PROVE  /\ SubSeq(s, 1, m) \in Seq(S) /\ Len(SubSeq(s, 1, m)) = m
         /\ \A n \in 1 .. m : SubSeq(s, 1, m)[n] = s[n]
  OBVIOUS

(* The elements of the vector. *)
LEMMA VectQueued ==
  ASSUME VectInv
  PROVE  Vect!Queued = {v_heap[n] : n \in 1 .. Len(v_heap)}
  BY DEF Vect!Queued, Vect!ToSet, VectInv

(* Add inserts at the place that lower_bound finds, where the vector stays *)
(* sorted.                                                                 *)
LEMMA VectAdd ==
  ASSUME VectInv, NEW e \in Elements, Vect!Add(e)
  PROVE  VectInv' /\ Vect!Queued' = Vect!Queued \cup {e}
<1>1. PICK k \in 0 .. Len(v_heap) :
         /\ Cardinality(Vect!LaterThan(e)) = k
         /\ \A n \in 1 .. k : v_time[v_heap[n]] > v_time[e]
         /\ \A n \in k + 1 .. Len(v_heap) : v_time[v_heap[n]] <= v_time[e]
  BY LowerBound
<1> DEFINE len == Len(v_heap)
<1>2. /\ v_heap \in Seq(Elements) /\ len \in Nat /\ k \in Nat
      /\ \A n \in 1 .. len : v_heap[n] \in Elements
      /\ \A f \in Elements : v_time[f] \in Int
  BY VectTyped
<1>3. v_time' = v_time
  BY DEF Vect!Add
<1>4. v_heap' = SubSeq(v_heap, 1, k) \o << e >> \o SubSeq(v_heap, k + 1, len)
  <2>1. v_heap' = SubSeq(v_heap, 1, (k + 1) - 1) \o << e >> \o SubSeq(v_heap, k + 1, len)
    BY <1>1, SameCardinality DEF Vect!Add, Vect!InsertAt
  <2>2. (k + 1) - 1 = k
    BY <1>2
  <2> QED
    BY <2>1, <2>2
<1>5. /\ v_heap' \in Seq(Elements) /\ Len(v_heap') = len + 1
      /\ \A n \in 1 .. len + 1 :
           v_heap'[n] = IF n <= k THEN v_heap[n] ELSE IF n = k + 1 THEN e ELSE v_heap[n - 1]
  <2> DEFINE a == SubSeq(v_heap, 1, k)
             b == SubSeq(v_heap, k + 1, len)
  <2>1. /\ a \in Seq(Elements) /\ Len(a) = k
        /\ \A n \in 1 .. k : a[n] = v_heap[n]
    BY <1>1, <1>2
  <2>2. /\ b \in Seq(Elements) /\ Len(b) = len - k
        /\ \A n \in 1 .. len - k : b[n] = v_heap[k + n]
    BY <1>1, <1>2
  <2> HIDE DEF a, b
  <2>3. << e >> \in Seq(Elements) /\ Len(<< e >>) = 1 /\ << e >>[1] = e
    OBVIOUS
  <2>4. /\ a \o << e >> \in Seq(Elements) /\ Len(a \o << e >>) = k + 1
        /\ \A n \in 1 .. k + 1 : (a \o << e >>)[n] = IF n <= k THEN v_heap[n] ELSE e
    BY <2>1, <2>3, <1>2
  <2> DEFINE c == a \o << e >>
  <2>5. v_heap' = c \o b
    BY <1>4 DEF a, b
  <2> HIDE DEF c
  <2>6. c \in Seq(Elements) /\ Len(c) = k + 1
    BY <2>4 DEF c
  <2>7. v_heap' \in Seq(Elements) /\ Len(v_heap') = len + 1
    <3>1. c \o b \in Seq(Elements) /\ Len(c \o b) = Len(c) + Len(b)
      BY <2>6, <2>2, Joined
    <3>2. Len(c) + Len(b) = len + 1
      BY <2>6, <2>2, <1>2
    <3> QED
      BY <3>1, <3>2, <2>5
  <2>8. ASSUME NEW n \in 1 .. len + 1
        PROVE  v_heap'[n] = IF n <= k THEN v_heap[n] ELSE IF n = k + 1 THEN e ELSE v_heap[n - 1]
    <3>1. CASE n <= k + 1
      <4>1. v_heap'[n] = c[n]
        BY <3>1, <2>5, <2>6, <2>2, <1>2
      <4>2. n \in 1 .. k + 1
        BY <3>1, <1>2
      <4> QED
        BY <4>1, <4>2, <2>4, <1>2, <3>1 DEF c
    <3>2. CASE ~(n <= k + 1)
      <4>1. v_heap'[n] = b[n - (k + 1)]
        BY <3>2, <2>5, <2>6, <2>2, <1>2
      <4>2. n - (k + 1) \in 1 .. len - k /\ k + (n - (k + 1)) = n - 1
        BY <3>2, <1>1, <1>2
      <4> QED
        BY <4>1, <4>2, <2>2, <3>2, <1>2
    <3> QED
      BY <3>1, <3>2
  <2> QED
    BY <2>7, <2>8
<1>6. e \notin Vect!Queued
  BY DEF Vect!Add
<1>7. \A n \in 1 .. len : v_heap[n] # e
  BY <1>6, VectQueued
<1>8. ASSUME NEW m \in 1 .. len + 1, NEW n \in 1 .. len + 1, m < n
      PROVE  v_heap'[m] # v_heap'[n] /\ v_time[v_heap'[m]] >= v_time[v_heap'[n]]
  <2>1. \A x, y \in 1 .. len :
          x < y => v_heap[x] # v_heap[y] /\ v_time[v_heap[x]] >= v_time[v_heap[y]]
    BY DEF VectInv
  <2>2. CASE m <= k /\ n <= k
    <3>1. v_heap'[m] = v_heap[m] /\ v_heap'[n] = v_heap[n] /\ m \in 1 .. len /\ n \in 1 .. len
      BY <2>2, <1>2, <1>5, <1>1
    <3> QED
      BY <3>1, <2>1, <1>8
  <2>3. CASE m <= k /\ n = k + 1
    <3>1. v_heap'[m] = v_heap[m] /\ v_heap'[n] = e /\ m \in 1 .. len /\ m \in 1 .. k
      BY <2>3, <1>2, <1>5, <1>1
    <3>2. v_time[v_heap[m]] > v_time[e] /\ v_time[v_heap[m]] \in Int /\ v_time[e] \in Int
      BY <3>1, <1>1, <1>2
    <3> QED
      BY <3>1, <3>2, <1>7
  <2>4. CASE m <= k /\ n > k + 1
    <3>1. /\ v_heap'[m] = v_heap[m] /\ v_heap'[n] = v_heap[n - 1]
          /\ m \in 1 .. len /\ n - 1 \in 1 .. len /\ m < n - 1
      BY <2>4, <1>2, <1>5, <1>1
    <3> QED
      BY <3>1, <2>1
  <2>5. CASE m = k + 1 /\ n > k + 1
    <3>1. v_heap'[m] = e /\ v_heap'[n] = v_heap[n - 1] /\ n - 1 \in 1 .. len /\ n - 1 \in k + 1 .. len
      BY <2>5, <1>2, <1>5, <1>1
    <3>2. v_time[v_heap[n - 1]] <= v_time[e] /\ v_time[v_heap[n - 1]] \in Int /\ v_time[e] \in Int
      BY <3>1, <1>1, <1>2
    <3> QED
      BY <3>1, <3>2, <1>7
  <2>6. CASE m > k + 1 /\ n > k + 1
    <3>1. /\ v_heap'[m] = v_heap[m - 1] /\ v_heap'[n] = v_heap[n - 1]
          /\ m - 1 \in 1 .. len /\ n - 1 \in 1 .. len /\ m - 1 < n - 1
      BY <2>6, <1>2, <1>5, <1>1, <1>8
    <3> QED
      BY <3>1, <2>1
  <2> QED
    BY <2>2, <2>3, <2>4, <2>5, <2>6, <1>2, <1>8
<1>9. VectInv'
  BY <1>3, <1>5, <1>8 DEF VectInv
<1>10. Vect!Queued' = {v_heap'[n] : n \in 1 .. len + 1}
  <2>1. DOMAIN v_heap' = 1 .. len + 1
    BY <1>5
  <2> QED
    BY <2>1 DEF Vect!Queued, Vect!ToSet
<1>11. ASSUME NEW n \in 1 .. len + 1 PROVE v_heap'[n] \in Vect!Queued \cup {e}
  <2>1. n <= k => n \in 1 .. len
    BY <1>1, <1>2
  <2>2. n > k + 1 => n - 1 \in 1 .. len
    BY <1>1, <1>2
  <2>3. n <= k \/ n = k + 1 \/ n > k + 1
    BY <1>2
  <2>4. ~(n > k + 1 /\ n = k + 1) /\ ~(n > k + 1 /\ n <= k)
    BY <1>2
  <2> QED
    BY <2>1, <2>2, <2>3, <2>4, <1>5, VectQueued
<1>12. ASSUME NEW n \in 1 .. len PROVE v_heap[n] \in Vect!Queued'
  <2>1. CASE n <= k
    <3>1. n \in 1 .. len + 1 /\ v_heap'[n] = v_heap[n]
      BY <2>1, <1>2, <1>5
    <3> QED
      BY <3>1, <1>10
  <2>2. CASE ~(n <= k)
    <3>1. n + 1 \in 1 .. len + 1 /\ ~(n + 1 <= k) /\ n + 1 # k + 1 /\ (n + 1) - 1 = n
      BY <2>2, <1>2
    <3>2. v_heap'[n + 1] = v_heap[n]
      BY <3>1, <1>5
    <3> QED
      BY <3>1, <3>2, <1>10
  <2> QED
    BY <2>1, <2>2
<1>13. e \in Vect!Queued'
  <2>1. k + 1 \in 1 .. len + 1 /\ ~(k + 1 <= k)
    BY <1>1, <1>2
  <2> QED
    BY <2>1, <1>5, <1>10
<1> QED
  BY <1>9, <1>10, <1>11, <1>12, <1>13, VectQueued

(* Remove() takes the back, which is due first. *)
LEMMA VectRemove ==
  ASSUME VectInv, Vect!RemoveBack
  PROVE  /\ VectInv'
         /\ v_ret' \in Vect!Queued /\ Vect!Queued' = Vect!Queued \ {v_ret'}
         /\ \A f \in Vect!Queued : v_time[v_ret'] <= v_time[f]
<1> DEFINE len == Len(v_heap)
<1>1. /\ v_heap \in Seq(Elements) /\ len \in Nat
      /\ \A n \in 1 .. len : v_heap[n] \in Elements
      /\ \A f \in Elements : v_time[f] \in Int
  BY VectTyped
<1>2. v_heap # << >> /\ len \in 1 .. len
  BY <1>1 DEF Vect!RemoveBack
<1>3. v_time' = v_time /\ v_ret' = v_heap[len] /\ v_heap' = SubSeq(v_heap, 1, len - 1)
  BY DEF Vect!RemoveBack, Vect!Front, Vect!Last
<1>4. /\ v_heap' \in Seq(Elements) /\ Len(v_heap') = len - 1
      /\ \A n \in 1 .. len - 1 : v_heap'[n] = v_heap[n]
  <2> DEFINE a == SubSeq(v_heap, 1, len - 1)
  <2>1. len - 1 \in Nat /\ len - 1 <= len
    BY <1>1, <1>2
  <2>2. a \in Seq(Elements) /\ Len(a) = len - 1 /\ \A n \in 1 .. len - 1 : a[n] = v_heap[n]
    BY <1>1, <2>1, Prefix
  <2> QED
    BY <1>3, <2>2
<1>5. \A x, y \in 1 .. len :
        x < y => v_heap[x] # v_heap[y] /\ v_time[v_heap[x]] >= v_time[v_heap[y]]
  BY DEF VectInv
<1>6. \A n \in 1 .. len - 1 : n \in 1 .. len /\ n < len
  BY <1>1
<1>7. VectInv'
  <2>1. \A m, n \in 1 .. len - 1 :
          m < n => v_heap'[m] # v_heap'[n] /\ v_time[v_heap'[m]] >= v_time[v_heap'[n]]
    BY <1>4, <1>5, <1>6
  <2> QED
    BY <2>1, <1>3, <1>4 DEF VectInv
<1>8. Vect!Queued' = {v_heap'[n] : n \in 1 .. len - 1}
  BY <1>4 DEF Vect!Queued, Vect!ToSet
<1>9. Vect!Queued' = {v_heap[n] : n \in 1 .. len - 1}
  BY <1>4, <1>8
<1>10. \A n \in 1 .. len : n \in 1 .. len - 1 \/ n = len
  BY <1>1
<1>11. Vect!Queued' = Vect!Queued \ {v_ret'}
  BY <1>2, <1>3, <1>5, <1>6, <1>9, <1>10, VectQueued
<1>12. ASSUME NEW n \in 1 .. len PROVE v_time[v_heap[len]] <= v_time[v_heap[n]]
  <2>1. v_time[v_heap[len]] \in Int /\ v_time[v_heap[n]] \in Int
    BY <1>1, <1>2
  <2> QED
    BY <2>1, <1>2, <1>5, <1>6, <1>10
<1>13. \A f \in Vect!Queued : v_time[v_ret'] <= v_time[f]
  BY <1>3, <1>12, VectQueued
<1>14. v_ret' \in Vect!Queued
  BY <1>2, <1>3, VectQueued
<1> QED
  BY <1>7, <1>11, <1>13, <1>14

-----------------------------------------------------------------------------
(* A step of the vector is a step of the abstract queue. *)
LEMMA VectStep ==
  ASSUME VectInv, [MCNext]_<< heapVars, vectVars >>
  PROVE  VectInv' /\ [Vect!Abstract!Next]_(Vect!Abstract!vars)
<1>1. CASE UNCHANGED << v_heap, v_time, v_ret >>
  <2>1. VectInv'
    BY <1>1 DEF VectInv
  <2>2. UNCHANGED Vect!Abstract!vars
    BY <1>1 DEF Vect!Abstract!vars, Vect!Queued, Vect!ToSet
  <2> QED
    BY <2>1, <2>2
<1>2. ASSUME NEW e \in Elements, NEW x \in Times, Vect!Construct(e, x)
      PROVE  VectInv' /\ Vect!Abstract!Next
  <2>1. /\ v_heap' = v_heap /\ v_ret' = v_ret /\ e \notin Vect!Queued
        /\ v_time' = [v_time EXCEPT ![e] = x]
    BY <1>2 DEF Vect!Construct
  <2>2. \A n \in 1 .. Len(v_heap) : v_heap[n] # e /\ v_heap[n] \in Elements
    BY <2>1, VectQueued, VectTyped
  <2>3. v_time' \in [Elements -> Times]
    BY <2>1 DEF VectInv
  <2>4. \A n \in 1 .. Len(v_heap) : v_time'[v_heap[n]] = v_time[v_heap[n]]
    BY <2>1, <2>2 DEF VectInv
  <2>5. VectInv'
    BY <2>1, <2>3, <2>4 DEF VectInv
  <2>6. Vect!Queued' = Vect!Queued
    BY <2>1 DEF Vect!Queued, Vect!ToSet
  <2>7. Vect!Abstract!Construct(e, x)
    BY <2>1, <2>6 DEF Vect!Abstract!Construct
  <2> QED
    BY <2>5, <2>7 DEF Vect!Abstract!Next
<1>3. ASSUME NEW e \in Elements, Vect!Add(e)
      PROVE  VectInv' /\ Vect!Abstract!Next
  <2>1. VectInv' /\ Vect!Queued' = Vect!Queued \cup {e}
    BY <1>3, VectAdd
  <2>2. Vect!Abstract!Add(e)
    BY <1>3, <2>1 DEF Vect!Abstract!Add, Vect!Add
  <2> QED
    BY <2>1, <2>2 DEF Vect!Abstract!Next
<1>4. ASSUME Vect!RemoveBack
      PROVE  VectInv' /\ Vect!Abstract!Next
  <2>1. /\ VectInv'
        /\ v_ret' \in Vect!Queued /\ Vect!Queued' = Vect!Queued \ {v_ret'}
        /\ \A f \in Vect!Queued : v_time[v_ret'] <= v_time[f]
    BY <1>4, VectRemove
  <2>2. v_ret' \in Elements
    BY <2>1, VectQueued, VectTyped
  <2>3. Vect!Abstract!Remove(v_ret')
    BY <1>4, <2>1 DEF Vect!Abstract!Remove, Vect!RemoveBack
  <2> QED
    BY <2>1, <2>2, <2>3 DEF Vect!Abstract!Next
<1>5. ASSUME Vect!RemoveFromEmpty
      PROVE  VectInv' /\ Vect!Abstract!Next
  <2>1. v_heap = << >> /\ v_ret' = NULL /\ v_heap' = v_heap /\ v_time' = v_time
    BY <1>5 DEF Vect!RemoveFromEmpty
  <2>2. VectInv'
    BY <2>1 DEF VectInv
  <2>3. Vect!Queued' = Vect!Queued /\ Vect!Queued = {}
    BY <2>1 DEF Vect!Queued, Vect!ToSet
  <2>4. Vect!Abstract!RemoveFromEmpty
    BY <2>1, <2>3 DEF Vect!Abstract!RemoveFromEmpty
  <2> QED
    BY <2>2, <2>4 DEF Vect!Abstract!Next
<1>6. CASE Vect!NextTop
  BY <1>2, <1>3, <1>4, <1>5, <1>6 DEF Vect!NextTop
<1> QED
  BY <1>1, <1>6 DEF MCNext, vectVars

(* The sorted vector is the queue of PQueueSpec for clients that only take *)
(* the top: lower_bound finds the place at which the vector stays sorted,  *)
(* so that Remove(), which pops the back, returns an element due first,    *)
(* for every set of elements and times.                                    *)
THEOREM VectImplementsQueue == MCSpec => VectRefinesQueue
<1>1. MCInit => Vect!Abstract!Init
  <2> SUFFICES ASSUME MCInit PROVE Vect!Abstract!Init
    OBVIOUS
  <2>1. v_heap = << >> /\ v_ret = NULL
    BY DEF MCInit, Vect!Init
  <2>2. Vect!Queued = {}
    BY <2>1 DEF Vect!Queued, Vect!ToSet
  <2> QED
    BY <2>1, <2>2, VectInitially DEF Vect!Abstract!Init, VectInv
<1> QED
  BY <1>1, VectInitially, VectStep, PTL
  DEF MCSpec, VectRefinesQueue, Vect!RefinesQueue, Vect!Abstract!Spec
=============================================================================
