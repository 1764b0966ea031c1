------------------------ MODULE PriorityQueueProofs ------------------------
(***************************************************************************)
(* Proofs about PriorityQueue, for any set of elements, any times and any  *)
(* initial size.                                                           *)
(*                                                                         *)
(* Two inductive invariants carry everything.  IInv needs no assumption on *)
(* clients: types, room for the next element, offsets, and the order of    *)
(* the heap with its one exception at "bin" in the middle of a call.  CInv *)
(* adds, for clients that do not add a removed element again, that only    *)
(* the element being removed has the minimized time.  The last part shows  *)
(* that the heap implements PQueueSpec.                                    *)
(***************************************************************************)
EXTENDS PriorityQueue, WellFoundedInduction, TLAPS

(* The indices of the array. *)
Slots == 0 .. max_heap_size - 1

(* The inductive invariant of the heap. *)
IInv ==
  /\ TypeOK
  /\ HasRoom
  /\ OffsetsConsistent
  /\ HeapOrdered
  /\ LeavingIsFirst

-----------------------------------------------------------------------------
(* Parent(i), the shift i >> 1, halves i. *)
LEMMA ParentFacts ==
  ASSUME NEW i \in Nat
  PROVE  /\ Parent(i) \in Nat
         /\ i = 2 * Parent(i) \/ i = 2 * Parent(i) + 1
  BY DEF Parent

(* LeftChild and RightChild are inverse to Parent: at bin 0 too, whose     *)
(* left child is itself.                                                   *)
LEMMA ChildFacts ==
  ASSUME NEW i \in Nat
  PROVE  /\ LeftChild(i) = 2 * i /\ Parent(LeftChild(i)) = i
         /\ RightChild(i) = 2 * i + 1 /\ Parent(RightChild(i)) = i
  BY DEF Parent, LeftChild, RightChild

(* What Swap does to the array and to the offsets. *)
LEMMA SwapFacts ==
  ASSUME TypeOK, NEW i \in Slots, NEW j \in Slots, i # j,
         heap[i] \in Elements, heap[j] \in Elements, heap[i] # heap[j],
         Swap(i, j)
  PROVE  /\ heap' \in [Slots -> Elements \cup {NULL}]
         /\ heap'[i] = heap[j] /\ heap'[j] = heap[i]
         /\ \A k \in Slots : k # i /\ k # j => heap'[k] = heap[k]
         /\ offset' \in [Elements -> Nat \cup {-1}]
         /\ offset'[heap[j]] = i /\ offset'[heap[i]] = j
         /\ \A e \in Elements :
              e # heap[i] /\ e # heap[j] => offset'[e] = offset[e]
  BY DEF TypeOK, Slots, Swap

(* What SetElement does to the array and to the offsets. *)
LEMMA SetElementFacts ==
  ASSUME TypeOK, NEW i \in Slots, NEW e \in Elements, SetElement(i, e)
  PROVE  /\ heap' \in [Slots -> Elements \cup {NULL}]
         /\ heap'[i] = e
         /\ \A k \in Slots : k # i => heap'[k] = heap[k]
         /\ offset' \in [Elements -> Nat \cup {-1}]
         /\ offset'[e] = i
         /\ \A f \in Elements : f # e => offset'[f] = offset[f]
  BY DEF TypeOK, Slots, SetElement

-----------------------------------------------------------------------------
(* Swapping two slots in use keeps the offsets consistent. *)
LEMMA SwapKeepsOffsets ==
  ASSUME TypeOK, HasRoom, OffsetsConsistent,
         NEW i \in 0 .. Live - 1, NEW j \in 0 .. Live - 1, i # j,
         Swap(i, j), Live' = Live, Leaving' = Leaving
  PROVE  OffsetsConsistent' /\ heap' \in [Slots -> Elements \cup {NULL}]
         /\ offset' \in [Elements -> Nat \cup {-1}]
<1>1. Live \in Nat /\ Live <= max_heap_size
  BY DEF TypeOK, HasRoom, Live
<1>2. i \in Slots /\ j \in Slots
  BY <1>1 DEF Slots, TypeOK
<1>3. heap[i] \in Elements /\ heap[j] \in Elements /\ heap[i] # heap[j]
  BY DEF OffsetsConsistent
<1>4. ASSUME NEW k \in 0 .. Live - 1
      PROVE  heap'[k] \in Elements \ Leaving /\ offset'[heap'[k]] = k
  <2>1. k \in Slots
    BY <1>1 DEF Slots, TypeOK
  <2>2. heap[k] \in Elements \ Leaving /\ offset[heap[k]] = k
    BY DEF OffsetsConsistent
  <2> QED
    BY <1>2, <1>3, <2>1, <2>2, SwapFacts DEF OffsetsConsistent
<1>5. ASSUME NEW e \in Elements \ Leaving, offset'[e] # -1
      PROVE  offset'[e] \in 0 .. Live - 1 /\ heap'[offset'[e]] = e
  <2>1. CASE e = heap[i] \/ e = heap[j]
    BY <1>2, <1>3, <2>1, SwapFacts
  <2>2. CASE e # heap[i] /\ e # heap[j]
    <3>1. offset'[e] = offset[e]
      BY <1>2, <1>3, <2>2, SwapFacts
    <3>2. offset[e] \in 0 .. Live - 1 /\ heap[offset[e]] = e
      BY <1>5, <3>1 DEF OffsetsConsistent
    <3> QED
      BY <1>1, <1>2, <1>3, <2>2, <3>1, <3>2, SwapFacts DEF Slots, TypeOK
  <2> QED
    BY <2>1, <2>2
<1>6. ASSUME NEW e \in Leaving
      PROVE  e \in Elements /\ offset'[e] = 0
  <2>1. e \in Elements /\ offset[e] = 0 /\ e # heap[i] /\ e # heap[j]
    BY DEF OffsetsConsistent
  <2> QED
    BY <1>2, <1>3, <2>1, SwapFacts
<1> QED
  BY <1>2, <1>3, <1>4, <1>5, <1>6, SwapFacts DEF OffsetsConsistent

(* Swapping two slots in use exchanges their times and no others. *)
LEMMA SwapTimes ==
  ASSUME TypeOK, HasRoom, OffsetsConsistent,
         NEW i \in 0 .. Live - 1, NEW j \in 0 .. Live - 1, i # j,
         Swap(i, j), time' = time
  PROVE  /\ time'[heap'[i]] = TimeAt(j) /\ time'[heap'[j]] = TimeAt(i)
         /\ \A k \in 0 .. Live - 1 : k # i /\ k # j => time'[heap'[k]] = TimeAt(k)
<1>1. Live \in Nat /\ Live <= max_heap_size
  BY DEF TypeOK, HasRoom, Live
<1>2. i \in Slots /\ j \in Slots /\ \A k \in 0 .. Live - 1 : k \in Slots
  BY <1>1 DEF Slots, TypeOK
<1>3. heap[i] \in Elements /\ heap[j] \in Elements /\ heap[i] # heap[j]
  BY DEF OffsetsConsistent
<1>4. /\ heap'[i] = heap[j] /\ heap'[j] = heap[i]
      /\ \A k \in Slots : k # i /\ k # j => heap'[k] = heap[k]
  BY <1>2, <1>3, SwapFacts
<1> QED
  BY <1>2, <1>4 DEF TimeAt

(* Every slot in use has a time, not below -HUGE_VAL. *)
LEMMA TimesAreIntegers ==
  ASSUME TypeOK, OffsetsConsistent, NEW i \in 0 .. Live - 1
  PROVE  TimeAt(i) \in Int /\ NegInf <= TimeAt(i)
<1>1. heap[i] \in Elements
  BY DEF OffsetsConsistent
<1>2. time[heap[i]] \in Times \cup {NegInf}
  BY <1>1 DEF TypeOK
<1>3. \A x \in Times \cup {NegInf} : x \in Int /\ NegInf <= x
  BY QueueAssumption
<1> QED
  BY <1>2, <1>3 DEF TimeAt

-----------------------------------------------------------------------------
(* BubbleUp: the swap mends the order at bin and moves the exception to    *)
(* the parent.                                                             *)
LEMMA BubbleUpStep ==
  ASSUME IInv, BubbleUp
  PROVE  IInv'
<1> DEFINE p == Parent(bin)
<1> USE DEF IInv
<1>1. /\ Live' = Live /\ Leaving' = Leaving /\ Live \in Nat
      /\ pc' = pc /\ pc \in {"add", "remove_element"} /\ time' = time
      /\ bin' = p /\ heap_size' = heap_size /\ max_heap_size' = max_heap_size
  BY DEF BubbleUp, Live, Leaving, TypeOK
<1>2. bin \in 1 .. Live - 1 /\ p \in 0 .. Live - 1 /\ p # bin /\ p < bin
  <2>1. bin \in Nat \ {0} /\ bin < Live
    BY DEF BubbleUp, BubbleUpSwaps, TypeOK, HeapOrdered
  <2> QED
    BY <1>1, <2>1, ParentFacts
<1>3. Swap(p, bin)
  BY DEF BubbleUp
<1>4. OffsetsConsistent' /\ heap' \in [Slots -> Elements \cup {NULL}]
      /\ offset' \in [Elements -> Nat \cup {-1}]
  BY <1>1, <1>2, <1>3, SwapKeepsOffsets
<1>5. TypeOK' /\ HasRoom'
  BY <1>1, <1>2, <1>4 DEF TypeOK, HasRoom, Slots, BubbleUp
<1>6. /\ time'[heap'[p]] = TimeAt(bin) /\ time'[heap'[bin]] = TimeAt(p)
      /\ \A k \in 0 .. Live - 1 : k # p /\ k # bin => time'[heap'[k]] = TimeAt(k)
  BY <1>1, <1>2, <1>3, SwapTimes
<1>7. \A k \in 0 .. Live - 1 : TimeAt(k) \in Int
  BY TimesAreIntegers
<1>8. TimeAt(bin) < TimeAt(p)
  BY <1>2, <1>7 DEF BubbleUp, BubbleUpSwaps
<1>9. /\ \A i \in 1 .. Live - 1 : i # bin => TimeAt(Parent(i)) <= TimeAt(i)
      /\ \A i \in 1 .. Live - 1 : Parent(i) = bin => TimeAt(p) <= TimeAt(i)
  BY <1>1, <1>2 DEF HeapOrdered, ChildrenDueAfterParentOfBin, DueAfterParent
<1>10. \A i \in 1 .. Live - 1 : Parent(i) \in 0 .. Live - 1 /\ Parent(i) < i
  BY <1>1, ParentFacts
<1>11. ASSUME NEW i \in 1 .. Live - 1, i # p
       PROVE  time'[heap'[Parent(i)]] <= time'[heap'[i]]
  <2>1. CASE i = bin
    BY <1>6, <1>7, <1>8, <1>2, <2>1
  <2>2. CASE i # bin /\ Parent(i) = bin
    BY <1>6, <1>9, <1>11, <2>2
  <2>3. CASE i # bin /\ Parent(i) = p
    <3>1. TimeAt(p) <= TimeAt(i) /\ time'[heap'[i]] = TimeAt(i)
      BY <1>6, <1>9, <1>11, <2>3
    <3> QED
      BY <1>2, <1>6, <1>7, <1>8, <2>3, <3>1
  <2>4. CASE i # bin /\ Parent(i) # bin /\ Parent(i) # p
    BY <1>6, <1>9, <1>10, <1>11, <2>4
  <2> QED
    BY <2>1, <2>2, <2>3, <2>4
<1>12. ASSUME NEW i \in 1 .. Live - 1, Parent(i) = p, p # 0
       PROVE  time'[heap'[Parent(p)]] <= time'[heap'[i]]
  <2>1. Parent(p) \in 0 .. Live - 1 /\ Parent(p) < p
    BY <1>2, <1>10, <1>12
  <2>2. time'[heap'[Parent(p)]] = TimeAt(Parent(p)) /\ TimeAt(Parent(p)) <= TimeAt(p)
    BY <1>2, <1>6, <1>9, <1>12, <2>1
  <2>3. CASE i = bin
    BY <1>6, <2>2, <2>3
  <2>4. CASE i # bin
    <3>1. i # p /\ time'[heap'[i]] = TimeAt(i) /\ TimeAt(p) <= TimeAt(i)
      BY <1>6, <1>9, <1>10, <1>12, <2>4
    <3> QED
      BY <1>2, <1>7, <2>1, <2>2, <3>1
  <2> QED
    BY <2>3, <2>4
<1>13. HeapOrdered'
  BY <1>1, <1>2, <1>11, <1>12
  DEF HeapOrdered, ChildrenDueAfterParentOfBin, DueAfterParent, TimeAt
<1>14. LeavingIsFirst'
  BY <1>1 DEF LeavingIsFirst, Leaving
<1> QED
  BY <1>4, <1>5, <1>13, <1>14

-----------------------------------------------------------------------------
(* One swap of BubbleDown: c is the child it takes, a least one, and the   *)
(* exception moves there.                                                  *)
LEMMA SwapDownStep ==
  ASSUME IInv, pc = "down", NEW c \in 1 .. Live - 1, Parent(c) = bin,
         TimeAt(c) < TimeAt(bin),
         \A i \in 1 .. Live - 1 : Parent(i) = bin => TimeAt(c) <= TimeAt(i),
         Swap(c, bin),
         UNCHANGED << heap_size, max_heap_size, time, call, top, ret, aborted >>,
         \/ pc' = "down" /\ bin' = c
         \/ /\ pc' = "return" /\ bin' = bin
            /\ \A i \in 1 .. Live - 1 : Parent(i) # c
  PROVE  IInv'
<1> USE DEF IInv
<1>1. /\ Live' = Live /\ Leaving' = Leaving /\ Leaving = {top} /\ Live \in Nat
      /\ time' = time /\ heap_size' = heap_size /\ max_heap_size' = max_heap_size
  BY DEF Live, Leaving, TypeOK
<1>2. bin \in 0 .. Live - 1 /\ bin < c /\ c \in 0 .. Live - 1
  BY <1>1, ParentFacts
<1>3. OffsetsConsistent' /\ heap' \in [Slots -> Elements \cup {NULL}]
      /\ offset' \in [Elements -> Nat \cup {-1}]
  BY <1>1, <1>2, SwapKeepsOffsets
<1>4. TypeOK' /\ HasRoom'
  BY <1>1, <1>2, <1>3 DEF TypeOK, HasRoom, Slots
<1>5. /\ time'[heap'[c]] = TimeAt(bin) /\ time'[heap'[bin]] = TimeAt(c)
      /\ \A k \in 0 .. Live - 1 : k # c /\ k # bin => time'[heap'[k]] = TimeAt(k)
  BY <1>1, <1>2, SwapTimes
<1>6. \A k \in 0 .. Live - 1 : TimeAt(k) \in Int
  BY TimesAreIntegers
<1>7. \A i \in 1 .. Live - 1 : Parent(i) \in 0 .. Live - 1 /\ Parent(i) < i
  BY <1>1, ParentFacts
<1>8. /\ \A i \in 1 .. Live - 1 : Parent(i) # bin => TimeAt(Parent(i)) <= TimeAt(i)
      /\ bin # 0 => TimeAt(Parent(bin)) <= TimeAt(c)
  BY <1>1, <1>2 DEF HeapOrdered, ChildrenDueAfterParentOfBin, DueAfterParent
<1>9. ASSUME NEW i \in 1 .. Live - 1, Parent(i) # c
      PROVE  time'[heap'[Parent(i)]] <= time'[heap'[i]]
  <2>1. CASE i = c
    BY <1>2, <1>5, <1>6, <2>1
  <2>2. CASE i = bin
    <3>1. Parent(bin) \in 0 .. Live - 1 /\ Parent(bin) # c /\ Parent(bin) # bin
      BY <1>2, <1>7, <2>2
    <3> QED
      BY <1>2, <1>5, <1>8, <2>2, <3>1
  <2>3. CASE i # c /\ i # bin /\ Parent(i) = bin
    BY <1>5, <2>3
  <2>4. CASE i # c /\ i # bin /\ Parent(i) # bin
    BY <1>5, <1>7, <1>8, <1>9, <2>4
  <2> QED
    BY <2>1, <2>2, <2>3, <2>4
<1>10. ASSUME NEW i \in 1 .. Live - 1, Parent(i) = c
       PROVE  time'[heap'[Parent(c)]] <= time'[heap'[i]]
  <2>1. i # c /\ i # bin /\ Parent(i) # bin
    BY <1>2, <1>7, <1>10
  <2> QED
    BY <1>5, <1>8, <1>10, <2>1
<1>11. HeapOrdered'
  BY <1>1, <1>2, <1>9, <1>10
  DEF HeapOrdered, ChildrenDueAfterParentOfBin, DueAfterParent, TimeAt
<1>12. LeavingIsFirst'
  <2> SUFFICES ASSUME NEW i \in 0 .. Live - 1
               PROVE  time[top] <= time'[heap'[i]]
    BY <1>1 DEF LeavingIsFirst, TimeAt
  <2>1. \A k \in 0 .. Live - 1 : time[top] <= TimeAt(k)
    BY <1>1 DEF LeavingIsFirst
  <2> QED
    BY <1>2, <1>5, <2>1
<1> QED
  BY <1>3, <1>4, <1>11, <1>12

(* BubbleDown with the left child; at bin 0 it would be bin itself, which  *)
(* is not due before itself.                                               *)
LEMMA BubbleDownLeftStep == IInv /\ BubbleDownLeft => IInv'
<1> SUFFICES ASSUME IInv, BubbleDownLeft PROVE IInv'
  OBVIOUS
<1> DEFINE c == LeftChild(bin)
<1>1. /\ TypeOK /\ Live = heap_size /\ bin \in Nat /\ heap_size \in Nat
      /\ 2 * bin + 1 < heap_size /\ c = 2 * bin
  BY DEF IInv, TypeOK, BubbleDownLeft, Live, LeftChild, RightChild
<1>2. TimeAt(c) \in Int /\ TimeAt(c + 1) \in Int
  BY <1>1, TimesAreIntegers DEF IInv
<1>3. c # bin
  BY <1>2 DEF BubbleDownLeft
<1>4. c \in 1 .. Live - 1 /\ Parent(c) = bin
  BY <1>1, <1>3, ChildFacts
<1>5. ASSUME NEW i \in 1 .. Live - 1, Parent(i) = bin
      PROVE  TimeAt(c) <= TimeAt(i)
  <2>1. i = c \/ i = c + 1
    BY <1>1, <1>5, ParentFacts
  <2> QED
    BY <1>2, <2>1 DEF BubbleDownLeft, RightChild
<1>6. /\ pc = "down" /\ TimeAt(c) < TimeAt(bin) /\ Swap(c, bin)
      /\ pc' = "down" /\ bin' = c
      /\ UNCHANGED << heap_size, max_heap_size, time, call, top, ret, aborted >>
  BY DEF BubbleDownLeft
<1> HIDE DEF c
<1> QED
  BY <1>4, <1>5, <1>6, SwapDownStep

(* BubbleDown with the right child. *)
LEMMA BubbleDownRightStep == IInv /\ BubbleDownRight => IInv'
<1> SUFFICES ASSUME IInv, BubbleDownRight PROVE IInv'
  OBVIOUS
<1> DEFINE c == RightChild(bin)
<1>1. /\ TypeOK /\ Live = heap_size /\ bin \in Nat /\ heap_size \in Nat
      /\ 2 * bin + 1 < heap_size /\ c = 2 * bin + 1
  BY DEF IInv, TypeOK, BubbleDownRight, Live, LeftChild, RightChild
<1>2. TimeAt(c) \in Int /\ TimeAt(2 * bin) \in Int
  BY <1>1, TimesAreIntegers DEF IInv
<1>3. c \in 1 .. Live - 1 /\ Parent(c) = bin
  BY <1>1, ChildFacts
<1>4. ASSUME NEW i \in 1 .. Live - 1, Parent(i) = bin
      PROVE  TimeAt(c) <= TimeAt(i)
  <2>1. i = c \/ i = 2 * bin
    BY <1>1, <1>4, ParentFacts
  <2> QED
    BY <1>2, <2>1 DEF BubbleDownRight, LeftChild
<1>5. /\ pc = "down" /\ TimeAt(c) < TimeAt(bin) /\ Swap(c, bin)
      /\ pc' = "down" /\ bin' = c
      /\ UNCHANGED << heap_size, max_heap_size, time, call, top, ret, aborted >>
  BY DEF BubbleDownRight
<1> HIDE DEF c
<1> QED
  BY <1>3, <1>4, <1>5, SwapDownStep

(* BubbleDown with a lone left child, which has no children: the call may  *)
(* return at once.                                                         *)
LEMMA BubbleDownLastStep == IInv /\ BubbleDownLast => IInv'
<1> SUFFICES ASSUME IInv, BubbleDownLast PROVE IInv'
  OBVIOUS
<1> DEFINE c == LeftChild(bin)
<1>1. /\ TypeOK /\ Live = heap_size /\ bin \in Nat /\ heap_size \in Nat
      /\ heap_size = 2 * bin + 1 /\ c = 2 * bin
  BY DEF IInv, TypeOK, BubbleDownLast, Live, LeftChild, RightChild
<1>2. TimeAt(c) \in Int
  BY <1>1, TimesAreIntegers DEF IInv
<1>3. c # bin
  BY <1>2 DEF BubbleDownLast
<1>4. c \in 1 .. Live - 1 /\ Parent(c) = bin
  BY <1>1, <1>3, ChildFacts
<1>5. ASSUME NEW i \in 1 .. Live - 1
      PROVE  /\ Parent(i) = bin => TimeAt(c) <= TimeAt(i)
             /\ Parent(i) # c
  <2>1. Parent(i) = bin => i = c
    BY <1>1, ParentFacts
  <2>2. Parent(i) # c
    BY <1>1, <1>3, ParentFacts
  <2> QED
    BY <1>2, <2>1, <2>2
<1>6. /\ pc = "down" /\ TimeAt(c) < TimeAt(bin) /\ Swap(c, bin)
      /\ pc' = "return" /\ bin' = bin
      /\ UNCHANGED << heap_size, max_heap_size, time, call, top, ret, aborted >>
  BY DEF BubbleDownLast
<1> HIDE DEF c
<1> QED
  BY <1>4, <1>5, <1>6, SwapDownStep

(* BubbleDown without a swap: no child is due before bin, so the whole     *)
(* heap is in order.                                                       *)
LEMMA BubbleDownReturnStep == IInv /\ BubbleDownReturn => IInv'
<1> SUFFICES ASSUME IInv, BubbleDownReturn PROVE IInv'
  OBVIOUS
<1> USE DEF IInv
<1>1. /\ Live = heap_size /\ Live' = Live /\ Leaving' = Leaving
      /\ heap' = heap /\ time' = time /\ offset' = offset
      /\ pc = "down" /\ pc' = "return"
      /\ bin \in Nat /\ heap_size \in Nat
  BY DEF BubbleDownReturn, Live, Leaving, TypeOK
<1>2. TypeOK' /\ HasRoom'
  BY DEF BubbleDownReturn, TypeOK, HasRoom
<1>3. OffsetsConsistent'
  BY <1>1 DEF OffsetsConsistent
<1>4. ASSUME NEW i \in 1 .. Live - 1
      PROVE  TimeAt(Parent(i)) <= TimeAt(i)
  <2>1. CASE Parent(i) # bin
    BY <1>1, <2>1 DEF HeapOrdered, DueAfterParent
  <2>2. CASE Parent(i) = bin
    <3>1. i = LeftChild(bin) \/ i = RightChild(bin)
      BY <1>1, <2>2, ParentFacts DEF LeftChild, RightChild
    <3>2. LeftChild(bin) < heap_size
      BY <1>1, <3>1 DEF LeftChild, RightChild
    <3>3. /\ TimeAt(bin) \in Int /\ TimeAt(LeftChild(bin)) \in Int
          /\ RightChild(bin) < heap_size => TimeAt(RightChild(bin)) \in Int
      BY <1>1, <3>2, TimesAreIntegers DEF LeftChild, RightChild
    <3> QED
      BY <1>1, <2>2, <3>1, <3>2, <3>3
      DEF BubbleDownReturn, BubbleDownStops, LeftChild, RightChild
  <2> QED
    BY <2>1, <2>2
<1>5. HeapOrdered'
  BY <1>1, <1>4 DEF HeapOrdered, DueAfterParent, TimeAt
<1>6. LeavingIsFirst'
  BY <1>1 DEF LeavingIsFirst, TimeAt
<1> QED
  BY <1>2, <1>3, <1>5, <1>6

-----------------------------------------------------------------------------
(* A nonempty set of naturals has a least element. *)
LEMMA LeastNatural ==
  ASSUME NEW S \in SUBSET Nat, S # {}
  PROVE  \E n \in S : \A m \in S : ~ (m < n)
<1> DEFINE R == OpToRel(<, Nat)
<1>1. \A m, n \in Nat : m < n => << m, n >> \in R
  BY DEF OpToRel
<1>2. IsWellFoundedOn(R, Nat)
  BY NatLessThanWellFounded
<1> HIDE DEF R
<1>3. PICK n \in S : \A m \in S : << m, n >> \notin R
  BY <1>2, WFMin
<1> QED
  BY <1>1, <1>3

(* In a heap in order the root is due first: a least counterexample would  *)
(* have a parent.                                                          *)
LEMMA OrderedMeansTopFirst ==
  ASSUME TypeOK, OffsetsConsistent,
         \A i \in 1 .. Live - 1 : DueAfterParent(i),
         NEW k \in 0 .. Live - 1
  PROVE  TimeAt(0) <= TimeAt(k)
<1> DEFINE bad == {i \in 0 .. Live - 1 : ~ (TimeAt(0) <= TimeAt(i))}
<1>1. Live \in Nat
  BY DEF TypeOK, Live
<1>2. \A i \in 0 .. Live - 1 : TimeAt(i) \in Int
  BY TimesAreIntegers
<1>3. SUFFICES ASSUME bad # {} PROVE FALSE
  OBVIOUS
<1>4. bad \in SUBSET Nat
  BY <1>1
<1>5. PICK n \in bad : \A m \in bad : ~ (m < n)
  BY <1>3, <1>4, LeastNatural
<1>6. n \in 1 .. Live - 1
  BY <1>1, <1>2, <1>5
<1>7. Parent(n) \in 0 .. Live - 1 /\ Parent(n) < n
  BY <1>1, <1>6, ParentFacts
<1>8. TimeAt(0) <= TimeAt(Parent(n))
  BY <1>5, <1>7
<1>9. TimeAt(Parent(n)) <= TimeAt(n)
  BY <1>6 DEF DueAfterParent
<1> QED
  BY <1>1, <1>2, <1>5, <1>6, <1>7, <1>8, <1>9

-----------------------------------------------------------------------------
(* Add puts the element in the free slot past the others; only it may be   *)
(* out of order.                                                           *)
LEMMA AddStep ==
  ASSUME IInv, NEW e \in Elements, Add(e)
  PROVE  IInv'
<1> USE DEF IInv
<1>1. /\ Live = heap_size /\ Live' = heap_size + 1 /\ heap_size \in Nat
      /\ Leaving = {} /\ Leaving' = {}
      /\ heap_size' = heap_size /\ max_heap_size' = max_heap_size
      /\ time' = time /\ bin' = heap_size /\ pc = "idle" /\ pc' = "add"
  BY DEF Add, Live, Leaving, TypeOK
<1>2. heap_size \in Slots
  BY <1>1 DEF HasRoom, Slots, TypeOK
<1>3. /\ heap' \in [Slots -> Elements \cup {NULL}]
      /\ heap'[heap_size] = e
      /\ \A k \in Slots : k # heap_size => heap'[k] = heap[k]
      /\ offset' \in [Elements -> Nat \cup {-1}]
      /\ offset'[e] = heap_size
      /\ \A f \in Elements : f # e => offset'[f] = offset[f]
  BY <1>2, SetElementFacts DEF Add
<1>4. TypeOK' /\ HasRoom'
  BY <1>1, <1>3 DEF TypeOK, HasRoom, Slots, Add
<1>5. \A k \in 0 .. Live - 1 : heap'[k] = heap[k] /\ heap[k] # e
  <2> SUFFICES ASSUME NEW k \in 0 .. Live - 1
               PROVE  heap'[k] = heap[k] /\ heap[k] # e
    OBVIOUS
  <2>1. k \in Slots /\ k # heap_size
    BY <1>1 DEF HasRoom, Slots, TypeOK
  <2>2. offset[heap[k]] = k /\ offset[e] = -1
    BY DEF OffsetsConsistent, Add
  <2> QED
    BY <1>3, <2>1, <2>2
<1>6. OffsetsConsistent'
  <2>1. ASSUME NEW k \in 0 .. Live' - 1
        PROVE  heap'[k] \in Elements /\ offset'[heap'[k]] = k
    <3>1. CASE k = heap_size
      BY <1>3, <3>1
    <3>2. CASE k # heap_size
      <4>1. k \in 0 .. Live - 1
        BY <1>1, <3>2
      <4> QED
        BY <1>3, <1>5, <4>1 DEF OffsetsConsistent
    <3> QED
      BY <3>1, <3>2
  <2>2. ASSUME NEW f \in Elements, offset'[f] # -1
        PROVE  offset'[f] \in 0 .. Live' - 1 /\ heap'[offset'[f]] = f
    <3>1. CASE f = e
      BY <1>1, <1>3, <3>1
    <3>2. CASE f # e
      <4>1. offset'[f] = offset[f]
        BY <1>3, <3>2
      <4>2. offset[f] \in 0 .. Live - 1 /\ heap[offset[f]] = f
        BY <1>1, <2>2, <4>1 DEF OffsetsConsistent
      <4> QED
        BY <1>1, <1>5, <4>1, <4>2
    <3> QED
      BY <3>1, <3>2
  <2> QED
    BY <1>1, <2>1, <2>2 DEF OffsetsConsistent
<1>7. \A i \in 1 .. Live - 1 : time'[heap'[Parent(i)]] <= time'[heap'[i]]
  <2> SUFFICES ASSUME NEW i \in 1 .. Live - 1
               PROVE  time'[heap'[Parent(i)]] <= time'[heap'[i]]
    OBVIOUS
  <2>1. Parent(i) \in 0 .. Live - 1
    BY <1>1, ParentFacts
  <2>2. TimeAt(Parent(i)) <= TimeAt(i)
    BY <1>1 DEF HeapOrdered, DueAfterParent
  <2> QED
    BY <1>1, <1>5, <2>1, <2>2 DEF TimeAt
<1>8. \A i \in 1 .. Live' - 1 : ~ (Parent(i) = heap_size /\ heap_size # 0)
  BY <1>1, ParentFacts
<1>9. HeapOrdered'
  BY <1>1, <1>7, <1>8
  DEF HeapOrdered, ChildrenDueAfterParentOfBin, DueAfterParent, TimeAt
<1>10. LeavingIsFirst'
  BY <1>1 DEF LeavingIsFirst
<1> QED
  BY <1>4, <1>6, <1>9, <1>10

(* The end of Add: BubbleUp left the heap in order, and Resize keeps every *)
(* slot in use and makes room.                                             *)
LEMMA FinishAddStep ==
  ASSUME IInv, FinishAdd
  PROVE  IInv'
<1> USE DEF IInv
<1>1. /\ Live = heap_size + 1 /\ Live' = Live /\ heap_size \in Nat
      /\ heap_size' = Live /\ Leaving = {} /\ Leaving' = {}
      /\ time' = time /\ offset' = offset /\ bin' = bin
      /\ pc = "add" /\ pc' = "idle" /\ call' = NULL
      /\ top' = top /\ ret' = ret /\ aborted' = aborted
  BY DEF FinishAdd, Live, Leaving, TypeOK
<1>2. /\ max_heap_size' \in Nat \ {0} /\ Live < max_heap_size'
      /\ heap' \in [0 .. max_heap_size' - 1 -> Elements \cup {NULL}]
      /\ \A k \in 0 .. Live - 1 : heap'[k] = heap[k]
  <2>1. CASE heap_size + 1 >= max_heap_size
    <3>1. /\ max_heap_size' = max_heap_size * 2
          /\ heap' = [i \in 0 .. max_heap_size * 2 - 1 |->
                         IF i < max_heap_size THEN heap[i] ELSE NULL]
      BY <2>1 DEF FinishAdd, Resize
    <3> QED
      BY <1>1, <2>1, <3>1 DEF TypeOK, HasRoom
  <2>2. CASE ~ (heap_size + 1 >= max_heap_size)
    BY <1>1, <2>2 DEF FinishAdd, TypeOK, HasRoom
  <2> QED
    BY <2>1, <2>2
<1>3. TypeOK' /\ HasRoom'
  <2>1. HasRoom'
    BY <1>1, <1>2 DEF HasRoom
  <2>2. heap_size' \in Nat /\ pc' \in {"idle"} /\ call' \in Elements \cup {NULL}
    BY <1>1
  <2> QED
    BY <1>1, <1>2, <2>1, <2>2 DEF TypeOK
<1>4. OffsetsConsistent'
  BY <1>1, <1>2 DEF OffsetsConsistent
<1>5. \A i \in 1 .. Live - 1 : TimeAt(Parent(i)) <= TimeAt(i)
  <2> SUFFICES ASSUME NEW i \in 1 .. Live - 1
               PROVE  TimeAt(Parent(i)) <= TimeAt(i)
    OBVIOUS
  <2>1. CASE i # bin
    BY <1>1, <2>1 DEF HeapOrdered, DueAfterParent
  <2>2. CASE i = bin
    <3>1. Parent(i) \in 0 .. Live - 1
      BY <1>1, ParentFacts
    <3>2. TimeAt(Parent(i)) \in Int /\ TimeAt(i) \in Int
      BY <3>1, TimesAreIntegers
    <3> QED
      BY <2>2, <3>2 DEF FinishAdd, BubbleUpSwaps
  <2> QED
    BY <2>1, <2>2
<1>6. \A i \in 1 .. Live - 1 : Parent(i) \in 0 .. Live - 1
  BY <1>1, ParentFacts
<1>7. HeapOrdered'
  <2> SUFFICES ASSUME NEW i \in 1 .. Live - 1
               PROVE  time'[heap'[Parent(i)]] <= time'[heap'[i]]
    BY <1>1 DEF HeapOrdered, DueAfterParent, TimeAt
  <2>1. i \in 0 .. Live - 1 /\ Parent(i) \in 0 .. Live - 1
    BY <1>6
  <2>2. heap'[i] = heap[i] /\ heap'[Parent(i)] = heap[Parent(i)]
    BY <1>2, <2>1
  <2> QED
    BY <1>1, <1>5, <2>2 DEF TimeAt
<1>8. LeavingIsFirst'
  BY <1>1 DEF LeavingIsFirst
<1> QED
  BY <1>3, <1>4, <1>7, <1>8

-----------------------------------------------------------------------------
(* Remove(), called by a client or by Remove(e) once BubbleUp is done. *)
LEMMA RemoveTopStep ==
  ASSUME IInv, RemoveTop, call' = call, heap_size > 0,
         pc \in {"idle", "remove_element"},
         \A i \in 1 .. Live - 1 : DueAfterParent(i)
  PROVE  IInv'
<1> DEFINE n == heap_size - 1
<1> DEFINE last == heap[n]
<1> USE DEF IInv
<1>1. /\ Live = heap_size /\ heap_size' = n /\ Live' = n /\ n \in Nat
      /\ Live = n + 1 /\ Leaving = {} /\ Leaving' = {heap[0]}
      /\ max_heap_size' = max_heap_size /\ time' = time /\ bin' = 0
      /\ top' = heap[0] /\ pc' = "down" /\ ret' = ret /\ aborted' = aborted
  BY DEF RemoveTop, Live, Leaving, TypeOK
<1>2. /\ 0 \in Slots /\ n \in Slots
      /\ \A k \in 0 .. n : k \in Slots /\ heap[k] \in Elements /\ offset[heap[k]] = k
  BY <1>1 DEF TypeOK, HasRoom, Slots, OffsetsConsistent
<1>3. /\ heap' \in [Slots -> Elements \cup {NULL}]
      /\ heap'[0] = last
      /\ \A k \in Slots : k # 0 => heap'[k] = heap[k]
      /\ offset' \in [Elements -> Nat \cup {-1}]
      /\ offset'[last] = 0
      /\ \A f \in Elements : f # last => offset'[f] = offset[f]
  <2>1. SetElement(0, last) /\ last \in Elements
    BY <1>1, <1>2 DEF RemoveTop
  <2> QED
    BY <1>2, <2>1, SetElementFacts
<1> HIDE DEF last, n
<1>4. TypeOK' /\ HasRoom'
  <2>1. HasRoom'
    BY <1>1 DEF HasRoom, TypeOK
  <2>2. top' \in Elements
    BY <1>1, <1>2
  <2> QED
    BY <1>1, <1>3, <2>1, <2>2 DEF TypeOK, Slots
<1>5. last = heap[n]
  BY DEF last
<1>6. ASSUME NEW k \in 0 .. n - 1
      PROVE  /\ k \in Slots /\ k \in 0 .. n
             /\ heap'[k] \in Elements /\ heap'[k] # heap[0] /\ offset'[heap'[k]] = k
  <2>1. k \in Slots /\ k \in 0 .. n /\ k # n /\ 0 \in 0 .. n /\ n \in 0 .. n
    BY <1>1, <1>2
  <2>2. CASE k = 0
    BY <1>2, <1>3, <1>5, <2>1, <2>2
  <2>3. CASE k # 0
    BY <1>2, <1>3, <1>5, <2>1, <2>3
  <2> QED
    BY <2>1, <2>2, <2>3
<1>7. ASSUME NEW e \in Elements, e # heap[0], offset'[e] # -1
      PROVE  offset'[e] \in 0 .. n - 1 /\ heap'[offset'[e]] = e
  <2>1. CASE e = last
    <3>1. n # 0
      BY <1>5, <1>7, <2>1
    <3> QED
      BY <1>1, <1>3, <2>1, <3>1
  <2>2. CASE e # last
    <3>1. offset'[e] = offset[e]
      BY <1>3, <2>2
    <3>2. offset[e] \in 0 .. n /\ heap[offset[e]] = e
      BY <1>1, <1>7, <3>1 DEF OffsetsConsistent
    <3>3. offset[e] # 0 /\ offset[e] # n
      BY <1>5, <1>7, <2>2, <3>2
    <3> QED
      BY <1>1, <1>2, <1>3, <3>1, <3>2, <3>3
  <2> QED
    BY <2>1, <2>2
<1>8. OffsetsConsistent'
  <2>1. heap[0] \in Elements /\ offset'[heap[0]] = 0
    BY <1>1, <1>2, <1>3
  <2> QED
    BY <1>1, <1>6, <1>7, <2>1 DEF OffsetsConsistent
<1>9. ASSUME NEW i \in 1 .. n - 1, Parent(i) # 0
      PROVE  time'[heap'[Parent(i)]] <= time'[heap'[i]]
  <2>1. Parent(i) \in 0 .. n - 1 /\ i \in 0 .. n - 1 /\ i # 0 /\ i \in 1 .. Live - 1
    BY <1>1, ParentFacts
  <2>2. heap'[Parent(i)] = heap[Parent(i)] /\ heap'[i] = heap[i]
    BY <1>3, <1>6, <1>9, <2>1
  <2> QED
    BY <1>1, <2>1, <2>2 DEF DueAfterParent, TimeAt
<1>10. HeapOrdered'
  BY <1>1, <1>9
  DEF HeapOrdered, ChildrenDueAfterParentOfBin, DueAfterParent, TimeAt
<1>11. ASSUME NEW k \in 0 .. n - 1
       PROVE  time[heap[0]] <= time[heap'[k]]
  <2>1. \A j \in 0 .. n : TimeAt(0) <= TimeAt(j)
    BY <1>1, OrderedMeansTopFirst
  <2>2. k \in 0 .. n /\ n \in 0 .. n
    BY <1>1
  <2>3. heap'[k] = heap[k] \/ heap'[k] = heap[n]
    BY <1>3, <1>5, <1>6
  <2> QED
    BY <2>1, <2>2, <2>3 DEF TimeAt
<1>12. LeavingIsFirst'
  BY <1>1, <1>11 DEF LeavingIsFirst, TimeAt
<1> QED
  BY <1>4, <1>8, <1>10, <1>12

(* Remove() called by a client. *)
LEMMA RemoveStep == IInv /\ Remove => IInv'
<1> SUFFICES ASSUME IInv, Remove PROVE IInv'
  OBVIOUS
<1>1. RemoveTop /\ call' = call /\ heap_size > 0 /\ pc = "idle"
  BY DEF Remove
<1>2. \A i \in 1 .. Live - 1 : DueAfterParent(i)
  BY <1>1 DEF IInv, HeapOrdered
<1> QED
  BY <1>1, <1>2, RemoveTopStep

(* Remove() called by Remove(e): BubbleUp has returned, so the heap is in  *)
(* order.                                                                  *)
LEMMA RemoveElementTopStep == IInv /\ RemoveElementTop => IInv'
<1> SUFFICES ASSUME IInv, RemoveElementTop PROVE IInv'
  OBVIOUS
<1> USE DEF IInv
<1>1. /\ RemoveTop /\ call' = call /\ pc = "remove_element"
      /\ ~ BubbleUpSwaps /\ Live = heap_size /\ heap_size \in Nat
  BY DEF RemoveElementTop, Live, TypeOK
<1>2. bin \in Nat /\ bin < heap_size
  BY <1>1 DEF TypeOK, HeapOrdered
<1>3. ASSUME NEW i \in 1 .. Live - 1
      PROVE  DueAfterParent(i)
  <2>1. CASE i # bin
    BY <1>1, <2>1 DEF HeapOrdered
  <2>2. CASE i = bin
    <3>1. Parent(i) \in 0 .. Live - 1
      BY <1>1, ParentFacts
    <3>2. TimeAt(Parent(i)) \in Int /\ TimeAt(i) \in Int
      BY <3>1, TimesAreIntegers
    <3> QED
      BY <1>1, <2>2, <3>2 DEF BubbleUpSwaps, DueAfterParent
  <2> QED
    BY <2>1, <2>2
<1> QED
  BY <1>1, <1>2, <1>3, RemoveTopStep

(* The end of Remove(): the element that left is marked. *)
LEMMA FinishRemoveStep ==
  ASSUME IInv, FinishRemove
  PROVE  IInv'
<1> USE DEF IInv
<1>1. /\ Live = heap_size /\ Live' = Live /\ Leaving = {top} /\ Leaving' = {}
      /\ heap' = heap /\ heap_size' = heap_size /\ max_heap_size' = max_heap_size
      /\ time' = time /\ bin' = bin /\ pc = "return" /\ pc' = "idle"
      /\ call' = NULL /\ top' = NULL /\ ret' = top
      /\ offset' = [offset EXCEPT ![top] = -1]
  BY DEF FinishRemove, Live, Leaving
<1>2. aborted' \in BOOLEAN
  BY DEF FinishRemove
<1>3. TypeOK' /\ HasRoom'
  BY <1>1, <1>2 DEF TypeOK, HasRoom
<1>4. OffsetsConsistent'
  <2>1. ASSUME NEW i \in 0 .. Live - 1
        PROVE  heap[i] \in Elements /\ offset'[heap[i]] = i
    <3>1. heap[i] \in Elements /\ heap[i] # top /\ offset[heap[i]] = i
      BY <1>1 DEF OffsetsConsistent
    <3> QED
      BY <1>1, <3>1 DEF TypeOK
  <2>2. ASSUME NEW e \in Elements, offset'[e] # -1
        PROVE  offset'[e] \in 0 .. Live - 1 /\ heap[offset'[e]] = e
    <3>1. e # top /\ offset'[e] = offset[e]
      BY <1>1, <2>2 DEF TypeOK
    <3> QED
      BY <1>1, <2>2, <3>1 DEF OffsetsConsistent
  <2> QED
    BY <1>1, <2>1, <2>2 DEF OffsetsConsistent
<1>5. HeapOrdered'
  BY <1>1 DEF HeapOrdered, DueAfterParent, TimeAt
<1>6. LeavingIsFirst'
  BY <1>1 DEF LeavingIsFirst
<1> QED
  BY <1>3, <1>4, <1>5, <1>6

(* A new element that is not queued changes no time in the heap. *)
LEMMA ConstructStep ==
  ASSUME IInv, NEW e \in Elements, NEW x \in Times, Construct(e, x)
  PROVE  IInv'
<1> USE DEF IInv
<1>1. /\ Live = heap_size /\ Live' = Live /\ Leaving = {} /\ Leaving' = {}
      /\ heap' = heap /\ offset' = offset /\ bin' = bin
      /\ pc = "idle" /\ pc' = "idle" /\ Live \in Nat
      /\ time' = [time EXCEPT ![e] = x] /\ offset[e] = -1
  BY DEF Construct, Live, Leaving, TypeOK
<1>2. TypeOK' /\ HasRoom' /\ OffsetsConsistent'
  <2>1. TypeOK' /\ HasRoom'
    BY DEF Construct, TypeOK, HasRoom
  <2> QED
    BY <1>1, <2>1 DEF OffsetsConsistent
<1>3. ASSUME NEW k \in 0 .. Live - 1
      PROVE  time'[heap[k]] = time[heap[k]]
  <2>1. heap[k] \in Elements /\ heap[k] # e
    BY <1>1 DEF OffsetsConsistent
  <2> QED
    BY <1>1, <2>1 DEF TypeOK
<1>4. HeapOrdered'
  <2> SUFFICES ASSUME NEW i \in 1 .. Live - 1
               PROVE  time'[heap[Parent(i)]] <= time'[heap[i]]
    BY <1>1 DEF HeapOrdered, DueAfterParent, TimeAt
  <2>1. i \in 0 .. Live - 1 /\ Parent(i) \in 0 .. Live - 1
    BY <1>1, ParentFacts
  <2>2. time[heap[Parent(i)]] <= time[heap[i]]
    BY <1>1 DEF HeapOrdered, DueAfterParent, TimeAt
  <2> QED
    BY <1>3, <2>1, <2>2
<1>5. LeavingIsFirst'
  BY <1>1 DEF LeavingIsFirst
<1> QED
  BY <1>2, <1>4, <1>5

(* Remove(e) minimizes the time of e, which then may only be too early for *)
(* its slot.                                                               *)
LEMMA RemoveElementStep ==
  ASSUME IInv, NEW e \in Elements, RemoveElement(e)
  PROVE  IInv'
<1> DEFINE b == offset[e]
<1> USE DEF IInv
<1>1. /\ Live = heap_size /\ Live' = Live /\ Leaving = {} /\ Leaving' = {}
      /\ heap' = heap /\ offset' = offset /\ bin' = b
      /\ pc = "idle" /\ pc' = "remove_element" /\ Live \in Nat
      /\ time' = [time EXCEPT ![e] = NegInf]
      /\ b \in 0 .. Live - 1 /\ heap[b] = e
  BY DEF RemoveElement, InHeap, Live, Leaving, TypeOK
<1>2. TypeOK' /\ HasRoom' /\ OffsetsConsistent'
  <2>1. TypeOK' /\ HasRoom'
    BY <1>1 DEF RemoveElement, TypeOK, HasRoom
  <2> QED
    BY <1>1, <2>1 DEF OffsetsConsistent
<1> HIDE DEF b
<1>3. time'[heap[b]] = NegInf
  BY <1>1 DEF TypeOK
<1>4. ASSUME NEW k \in 0 .. Live - 1, k # b
      PROVE  time'[heap[k]] = time[heap[k]]
  <2>1. heap[k] \in Elements /\ heap[k] # e
    BY <1>1, <1>4 DEF OffsetsConsistent
  <2> QED
    BY <1>1, <2>1 DEF TypeOK
<1>5. \A i \in 1 .. Live - 1 :
        /\ i \in 0 .. Live - 1 /\ Parent(i) \in 0 .. Live - 1 /\ Parent(i) # i
        /\ time[heap[Parent(i)]] <= time[heap[i]]
  BY <1>1, ParentFacts DEF HeapOrdered, DueAfterParent, TimeAt
<1>6. \A k \in 0 .. Live - 1 : time[heap[k]] \in Int /\ NegInf <= time[heap[k]]
  BY TimesAreIntegers DEF TimeAt
<1>7. ASSUME NEW i \in 1 .. Live - 1, i # b
      PROVE  time'[heap[Parent(i)]] <= time'[heap[i]]
  <2>1. time'[heap[i]] = time[heap[i]]
    BY <1>4, <1>5, <1>7
  <2>2. CASE Parent(i) = b
    BY <1>3, <1>5, <1>6, <2>1, <2>2
  <2>3. CASE Parent(i) # b
    BY <1>4, <1>5, <2>1, <2>3
  <2> QED
    BY <2>2, <2>3
<1>8. ASSUME NEW i \in 1 .. Live - 1, Parent(i) = b, b # 0
      PROVE  time'[heap[Parent(b)]] <= time'[heap[i]]
  <2>1. b \in 1 .. Live - 1 /\ i # b
    BY <1>1, <1>5, <1>8
  <2>2. time'[heap[i]] = time[heap[i]] /\ time'[heap[Parent(b)]] = time[heap[Parent(b)]]
    BY <1>4, <1>5, <2>1
  <2> QED
    BY <1>5, <1>6, <1>8, <2>1, <2>2
<1>9. HeapOrdered'
  BY <1>1, <1>7, <1>8
  DEF HeapOrdered, ChildrenDueAfterParentOfBin, DueAfterParent, TimeAt
<1>10. LeavingIsFirst'
  BY <1>1 DEF LeavingIsFirst
<1> QED
  BY <1>2, <1>9, <1>10

(* Calls that find nothing change only what is returned. *)
LEMMA NothingMoved ==
  ASSUME IInv, ret' \in Elements \cup {NULL},
         UNCHANGED << heap, heap_size, max_heap_size, time, offset, pc, bin,
                      call, top, aborted >>
  PROVE  IInv'
<1>1. Live' = Live /\ Leaving' = Leaving
  BY DEF Live, Leaving
<1> QED
  BY <1>1
  DEF IInv, TypeOK, HasRoom, OffsetsConsistent, HeapOrdered, LeavingIsFirst,
      ChildrenDueAfterParentOfBin, DueAfterParent, TimeAt

-----------------------------------------------------------------------------
(* The invariant holds of a new queue. *)
LEMMA InitIInv == Init => IInv
<1> SUFFICES ASSUME Init PROVE IInv
  OBVIOUS
<1>1. Live = 0 /\ Leaving = {} /\ 0 .. Live - 1 = {} /\ 1 .. Live - 1 = {}
  BY DEF Init, Live, Leaving
<1>2. TypeOK /\ HasRoom
  <2>1. max_heap_size \in Nat \ {0} /\ heap_size \in Nat /\ heap_size < max_heap_size
    BY QueueAssumption DEF Init
  <2>2. heap \in [0 .. max_heap_size - 1 -> Elements \cup {NULL}]
    BY DEF Init
  <2>3. /\ time \in [Elements -> Times \cup {NegInf}]
        /\ offset \in [Elements -> Nat \cup {-1}]
    BY DEF Init
  <2> QED
    BY <2>1, <2>2, <2>3 DEF Init, TypeOK, HasRoom
<1>3. OffsetsConsistent /\ HeapOrdered /\ LeavingIsFirst
  BY <1>1 DEF Init, OffsetsConsistent, HeapOrdered, LeavingIsFirst
<1> QED
  BY <1>2, <1>3 DEF IInv

(* Every step keeps the invariant. *)
LEMMA NextIInv == IInv /\ [Next]_vars => IInv'
<1> SUFFICES ASSUME IInv, [Next]_vars PROVE IInv'
  OBVIOUS
<1>1. CASE \E e \in Elements, x \in Times : Construct(e, x)
  BY <1>1, ConstructStep
<1>2. CASE \E e \in Elements : Add(e)
  BY <1>2, AddStep
<1>3. CASE \E e \in Elements : RemoveElement(e)
  BY <1>3, RemoveElementStep
<1>4. CASE \E e \in Elements : RemoveElementMissing(e)
  BY <1>4, NothingMoved DEF RemoveElementMissing
<1>5. CASE BubbleUp
  BY <1>5, BubbleUpStep
<1>6. CASE FinishAdd
  BY <1>6, FinishAddStep
<1>7. CASE Remove
  BY <1>7, RemoveStep
<1>8. CASE RemoveFromEmpty
  BY <1>8, NothingMoved DEF RemoveFromEmpty
<1>9. CASE RemoveElementTop
  BY <1>9, RemoveElementTopStep
<1>10. CASE BubbleDownLeft
  BY <1>10, BubbleDownLeftStep
<1>11. CASE BubbleDownRight
  BY <1>11, BubbleDownRightStep
<1>12. CASE BubbleDownLast
  BY <1>12, BubbleDownLastStep
<1>13. CASE BubbleDownReturn
  BY <1>13, BubbleDownReturnStep
<1>14. CASE FinishRemove
  BY <1>14, FinishRemoveStep
<1>15. CASE UNCHANGED vars
  BY <1>15, NothingMoved DEF vars, IInv, TypeOK
<1> QED
  BY <1>1, <1>2, <1>3, <1>4, <1>5, <1>6, <1>7, <1>8, <1>9, <1>10, <1>11, <1>12,
     <1>13, <1>14, <1>15 DEF Next

(* The invariant holds in every reachable state. *)
THEOREM Inductive == Spec => []IInv
  BY InitIInv, NextIInv, PTL DEF Spec

(* The types of PriorityQueue hold in every state. *)
THEOREM TypeCorrect == Spec => []TypeOK
  BY Inductive, PTL DEF IInv

(* There is always a free slot, so the unchecked write of Add,             *)
(* heap[heap_size], is inside the array whatever the initial size.         *)
THEOREM AddStaysInside == Spec => []HasRoom
  BY Inductive, PTL DEF IInv

(* Every queued element knows its slot and no other element claims one, in *)
(* the middle of calls too: the test of Remove(e) is right.                *)
THEOREM OffsetsRight == Spec => []OffsetsConsistent
  BY Inductive, PTL DEF IInv

(* The heap is in order between calls, and inside them but for the         *)
(* children or the parent of bin.                                          *)
THEOREM HeapRight == Spec => []HeapOrdered
  BY Inductive, PTL DEF IInv

(* What Remove() has taken out of the heap is due no later than what is    *)
(* left, until BubbleDown has returned and it is handed out.               *)
THEOREM LeavingRight == Spec => []LeavingIsFirst
  BY Inductive, PTL DEF IInv

(* Top() is due first of all that is queued, however many elements,        *)
(* although the heap has its root at 0 and a parent of i at i >> 1.        *)
THEOREM TopRight == Spec => []TopIsFirst
<1>1. IInv => TopIsFirst
  <2> SUFFICES ASSUME IInv, pc = "idle", NEW i \in 0 .. heap_size - 1
               PROVE  TimeAt(0) <= TimeAt(i)
    BY DEF TopIsFirst
  <2>1. Live = heap_size
    BY DEF Live
  <2>2. \A j \in 1 .. Live - 1 : DueAfterParent(j)
    BY DEF IInv, HeapOrdered
  <2> QED
    BY <2>1, <2>2, OrderedMeansTopFirst DEF IInv
<1> QED
  BY <1>1, Inductive, PTL

(* Every recursive call of BubbleUp and BubbleDown has a bin nearer to the *)
(* end of its path, so both come to an end.                                *)
THEOREM BubblingEnds == Spec => BubblingAdvances
<1> DEFINE Advances ==
      /\ pc \in {"add", "remove_element"} /\ pc' = pc => bin' < bin
      /\ pc = "down" /\ pc' = pc => bin < bin' /\ bin' < heap_size
<1>1. ASSUME IInv, BubbleUp
      PROVE  Advances
  <2>1. bin \in Nat /\ bin # 0 /\ bin' = Parent(bin) /\ pc' # "down"
    BY <1>1 DEF IInv, TypeOK, BubbleUp, BubbleUpSwaps
  <2> QED
    BY <1>1, <2>1, ParentFacts DEF BubbleUp, Parent
<1>2. ASSUME IInv, BubbleDownLeft
      PROVE  Advances
  <2>1. /\ pc = "down" /\ bin \in Nat /\ heap_size \in Nat
        /\ RightChild(bin) < heap_size /\ bin' = LeftChild(bin)
        /\ TimeAt(LeftChild(bin)) < TimeAt(bin)
    BY <1>2 DEF IInv, TypeOK, BubbleDownLeft
  <2>2. TimeAt(bin) \in Int
    BY <1>2, <2>1, TimesAreIntegers DEF IInv, Live, LeftChild, RightChild
  <2>3. bin # 0
    BY <2>1, <2>2 DEF LeftChild
  <2> QED
    BY <2>1, <2>3 DEF LeftChild, RightChild
<1>3. ASSUME IInv, BubbleDownRight
      PROVE  Advances
  BY <1>3 DEF IInv, TypeOK, BubbleDownRight, LeftChild, RightChild
<1>4. IInv /\ [Next]_vars => [Advances]_vars
  <2> SUFFICES ASSUME IInv, Next
               PROVE  Advances
    OBVIOUS
  <2>1. CASE BubbleUp \/ BubbleDownLeft \/ BubbleDownRight
    BY <1>1, <1>2, <1>3, <2>1
  <2>2. CASE pc = "idle" \/ pc' # pc
    BY <2>2
  <2>3. ~(BubbleUp \/ BubbleDownLeft \/ BubbleDownRight) => pc = "idle" \/ pc' # pc
    BY DEF Next, Construct, Add, RemoveElement, RemoveElementMissing, FinishAdd,
           Remove, RemoveFromEmpty, RemoveElementTop, RemoveTop, BubbleDownLast,
           BubbleDownReturn, FinishRemove
  <2> QED
    BY <2>1, <2>2, <2>3
<1> QED
  BY <1>4, Inductive, PTL DEF Spec, BubblingAdvances

-----------------------------------------------------------------------------
(* The inductive invariant of clients that do not add a removed element    *)
(* again: Remove(e) can tell e from the rest by its time.                  *)
CInv == OnlyCalledMinimized /\ NoInconsistency

(* The clients' invariant holds of a new queue. *)
LEMMA InitCInv == Init => CInv
<1> SUFFICES ASSUME Init PROVE CInv
  OBVIOUS
<1>1. Live = 0
  BY DEF Init, Live
<1> QED
  BY <1>1 DEF Init, CInv, OnlyCalledMinimized, NoInconsistency

(* BubbleUp carries the minimized element along. *)
LEMMA SwapUpCInv == IInv /\ CInv /\ BubbleUp => CInv'
<1> SUFFICES ASSUME IInv, CInv, BubbleUp PROVE CInv'
  OBVIOUS
<1> DEFINE p == Parent(bin)
<1> USE DEF IInv
<1>1. /\ Live' = Live /\ Live \in Nat /\ pc' = pc /\ time' = time /\ bin' = p
      /\ call' = call /\ pc \in {"add", "remove_element"} /\ aborted' = aborted
  BY DEF BubbleUp, Live, TypeOK
<1>2. bin \in 1 .. Live - 1 /\ p \in 0 .. Live - 1 /\ p # bin
  <2>1. bin \in Nat \ {0} /\ bin < Live
    BY DEF BubbleUp, BubbleUpSwaps, TypeOK, HeapOrdered
  <2> QED
    BY <1>1, <2>1, ParentFacts
<1>3. /\ time'[heap'[p]] = TimeAt(bin) /\ time'[heap'[bin]] = TimeAt(p)
      /\ \A k \in 0 .. Live - 1 : k # p /\ k # bin => time'[heap'[k]] = TimeAt(k)
  BY <1>1, <1>2, SwapTimes DEF BubbleUp
<1>4. heap'[p] = heap[bin]
  <2>1. p \in Slots /\ bin \in Slots
    BY <1>1, <1>2 DEF Slots, TypeOK, HasRoom, Live
  <2>2. heap[p] \in Elements /\ heap[bin] \in Elements /\ heap[p] # heap[bin]
    BY <1>2 DEF OffsetsConsistent
  <2> QED
    BY <1>2, <2>1, <2>2, SwapFacts DEF BubbleUp
<1>5. \A k \in 0 .. Live - 1 :
        TimeAt(k) = NegInf => pc = "remove_element" /\ k = bin
  BY DEF CInv, OnlyCalledMinimized
<1>6. ASSUME NEW k \in 0 .. Live - 1, time'[heap'[k]] = NegInf
      PROVE  pc = "remove_element" /\ k = p
  BY <1>2, <1>3, <1>5, <1>6
<1>7. OnlyCalledMinimized'
  BY <1>1, <1>4, <1>6 DEF CInv, OnlyCalledMinimized, TimeAt
<1> QED
  BY <1>1, <1>7 DEF CInv, NoInconsistency

(* A swap of BubbleDown brings no minimized time into the heap. *)
LEMMA SwapDownCInv ==
  ASSUME IInv, CInv, pc = "down", NEW c \in 0 .. Live - 1, c # bin,
         bin \in 0 .. Live - 1, Swap(c, bin), pc' \in {"down", "return"},
         UNCHANGED << heap_size, time, call, top, aborted >>
  PROVE  CInv'
<1> USE DEF IInv
<1>1. Live' = Live
  BY DEF Live
<1>2. /\ time'[heap'[c]] = TimeAt(bin) /\ time'[heap'[bin]] = TimeAt(c)
      /\ \A k \in 0 .. Live - 1 : k # c /\ k # bin => time'[heap'[k]] = TimeAt(k)
  BY SwapTimes
<1>3. \A k \in 0 .. Live - 1 : TimeAt(k) # NegInf
  BY DEF CInv, OnlyCalledMinimized
<1>4. \A k \in 0 .. Live - 1 : time'[heap'[k]] # NegInf
  BY <1>2, <1>3
<1> QED
  BY <1>1, <1>4 DEF CInv, OnlyCalledMinimized, NoInconsistency, TimeAt

(* BubbleDown brings no minimized time into the heap. *)
LEMMA BubbleDownCInv ==
  ASSUME IInv, CInv, BubbleDownLeft \/ BubbleDownRight \/ BubbleDownLast
  PROVE  CInv'
<1>1. /\ pc = "down" /\ Live = heap_size /\ heap_size \in Nat /\ bin \in Nat
      /\ pc' \in {"down", "return"}
      /\ UNCHANGED << heap_size, time, call, top, aborted >>
  BY DEF BubbleDownLeft, BubbleDownRight, BubbleDownLast, Live, IInv, TypeOK
<1>2. PICK c \in 0 .. Live - 1 : TimeAt(c) < TimeAt(bin) /\ Swap(c, bin) /\ bin <= c
  <2>1. CASE BubbleDownLeft
    BY <1>1, <2>1 DEF BubbleDownLeft, LeftChild, RightChild
  <2>2. CASE BubbleDownRight
    BY <1>1, <2>2 DEF BubbleDownRight, LeftChild, RightChild
  <2>3. CASE BubbleDownLast
    BY <1>1, <2>3 DEF BubbleDownLast, LeftChild, RightChild
  <2> QED
    BY <2>1, <2>2, <2>3
<1>3. bin \in 0 .. Live - 1
  BY <1>1, <1>2
<1>4. TimeAt(c) \in Int
  BY TimesAreIntegers DEF IInv
<1>5. c # bin
  BY <1>2, <1>4
<1> QED
  BY <1>1, <1>2, <1>3, <1>5, SwapDownCInv

(* Add of an element that was not minimized. *)
LEMMA AddCInv ==
  ASSUME IInv, CInv, ~ReAdd, NEW e \in Elements, Add(e)
  PROVE  CInv'
<1>1. /\ TypeOK /\ HasRoom /\ heap_size \in Nat
      /\ Live = heap_size /\ Live' = heap_size + 1 /\ time' = time
      /\ pc = "idle" /\ pc' = "add" /\ aborted' = aborted /\ time[e] # NegInf
  BY DEF IInv, Add, Live, TypeOK
<1>2. heap_size \in Slots /\ \A k \in 0 .. heap_size - 1 : k \in Slots
  BY <1>1 DEF TypeOK, HasRoom, Slots
<1>3. heap'[heap_size] = e /\ \A k \in Slots : k # heap_size => heap'[k] = heap[k]
  BY <1>1, <1>2, SetElementFacts DEF Add
<1>4. ASSUME NEW k \in 0 .. Live' - 1
      PROVE  time'[heap'[k]] # NegInf
  <2>1. CASE k = heap_size
    BY <1>1, <1>3, <2>1
  <2>2. CASE k # heap_size
    <3>1. k \in 0 .. Live - 1
      BY <1>1, <2>2
    <3>2. TimeAt(k) # NegInf
      BY <1>1, <3>1 DEF CInv, OnlyCalledMinimized
    <3> QED
      BY <1>1, <1>2, <1>3, <2>2, <3>1, <3>2 DEF TimeAt
  <2> QED
    BY <2>1, <2>2
<1> QED
  BY <1>1, <1>4 DEF CInv, OnlyCalledMinimized, NoInconsistency, TimeAt

(* Resize changes no slot in use. *)
LEMMA FinishAddCInv == IInv /\ CInv /\ FinishAdd => CInv'
<1> SUFFICES ASSUME IInv, CInv, FinishAdd PROVE CInv'
  OBVIOUS
<1>1. /\ TypeOK /\ HasRoom /\ heap_size \in Nat /\ max_heap_size \in Nat
      /\ Live = heap_size + 1 /\ Live' = Live /\ time' = time
      /\ pc = "add" /\ pc' = "idle" /\ aborted' = aborted /\ call' = NULL
  BY DEF IInv, FinishAdd, Live, TypeOK
<1>2. \A k \in 0 .. Live - 1 : heap'[k] = heap[k]
  <2>1. Live <= max_heap_size
    BY <1>1 DEF HasRoom
  <2>2. \/ heap' = heap
        \/ heap' = [i \in 0 .. max_heap_size * 2 - 1 |->
                      IF i < max_heap_size THEN heap[i] ELSE NULL]
    BY DEF FinishAdd, Resize
  <2> QED
    BY <1>1, <2>1, <2>2
<1>3. \A k \in 0 .. Live - 1 : TimeAt(k) # NegInf
  BY <1>1 DEF CInv, OnlyCalledMinimized
<1> QED
  BY <1>1, <1>2, <1>3 DEF CInv, OnlyCalledMinimized, NoInconsistency, TimeAt

(* When BubbleUp is done, the minimized element has reached the root. *)
LEMMA CalledIsTop ==
  ASSUME IInv, CInv, RemoveElementTop
  PROVE  bin = 0 /\ heap[0] = call
<1>1. /\ pc = "remove_element" /\ bin \in Nat /\ bin < Live /\ Live \in Nat
      /\ heap[bin] = call /\ TimeAt(bin) = NegInf
  BY DEF IInv, CInv, TypeOK, HeapOrdered, OnlyCalledMinimized, RemoveElementTop,
         Live, TimeAt
<1>2. SUFFICES ASSUME bin # 0 PROVE FALSE
  BY <1>1
<1>3. Parent(bin) \in 0 .. Live - 1 /\ Parent(bin) # bin
  BY <1>1, <1>2, ParentFacts
<1>4. TimeAt(Parent(bin)) \in Int /\ NegInf <= TimeAt(Parent(bin)) /\ NegInf \in Int
  BY <1>3, TimesAreIntegers, QueueAssumption DEF IInv
<1>5. TimeAt(Parent(bin)) = NegInf
  BY <1>1, <1>2, <1>4 DEF RemoveElementTop, BubbleUpSwaps
<1> QED
  BY <1>3, <1>5 DEF CInv, OnlyCalledMinimized

(* Remove() takes the minimized element out. *)
LEMMA RemoveTopCInv ==
  ASSUME IInv, CInv, Remove \/ RemoveElementTop
  PROVE  CInv'
<1> DEFINE n == heap_size - 1
<1>1. /\ TypeOK /\ HasRoom /\ OffsetsConsistent /\ Live = heap_size
      /\ heap_size \in Nat \ {0} /\ RemoveTop /\ call' = call
      /\ pc \in {"idle", "remove_element"}
  <2>1. /\ TypeOK /\ HasRoom /\ OffsetsConsistent /\ Live = heap_size
        /\ RemoveTop /\ call' = call /\ pc \in {"idle", "remove_element"}
    BY DEF IInv, Remove, RemoveElementTop, Live
  <2>2. heap_size \in Nat \ {0}
    BY <2>1 DEF IInv, HeapOrdered, Remove, RemoveElementTop, TypeOK
  <2> QED
    BY <2>1, <2>2
<1>2. /\ Live' = n /\ n \in Nat /\ time' = time /\ top' = heap[0]
      /\ pc' = "down" /\ aborted' = aborted
  BY <1>1 DEF RemoveTop, Live
<1>3. call' \in {NULL, top'}
  BY <1>1, <1>2, CalledIsTop DEF CInv, OnlyCalledMinimized, Remove
<1>4. \A k \in 1 .. n : TimeAt(k) # NegInf
  BY <1>1, CalledIsTop DEF CInv, OnlyCalledMinimized, Remove
<1>5. \A k \in 0 .. n - 1 : \E j \in 1 .. n : heap'[k] = heap[j]
  <2>1. /\ 0 \in Slots /\ \A k \in 0 .. n : k \in Slots
        /\ heap[n] \in Elements /\ SetElement(0, heap[n])
    BY <1>1 DEF TypeOK, HasRoom, Slots, OffsetsConsistent, RemoveTop
  <2>2. heap'[0] = heap[n] /\ \A k \in Slots : k # 0 => heap'[k] = heap[k]
    BY <1>1, <2>1, SetElementFacts
  <2> SUFFICES ASSUME NEW k \in 0 .. n - 1
               PROVE  \E j \in 1 .. n : heap'[k] = heap[j]
    OBVIOUS
  <2>3. CASE k = 0
    BY <1>2, <2>2, <2>3
  <2>4. CASE k # 0
    BY <1>2, <2>1, <2>2, <2>4
  <2> QED
    BY <2>3, <2>4
<1>6. \A k \in 0 .. n - 1 : time'[heap'[k]] # NegInf
  BY <1>2, <1>4, <1>5 DEF TimeAt
<1> QED
  BY <1>2, <1>3, <1>6 DEF CInv, OnlyCalledMinimized, NoInconsistency, TimeAt

(* What Remove() gives to Remove(e) is e. *)
LEMMA FinishRemoveCInv == IInv /\ CInv /\ FinishRemove => CInv'
<1> SUFFICES ASSUME IInv, CInv, FinishRemove PROVE CInv'
  OBVIOUS
<1>1. /\ Live = heap_size /\ Live' = Live /\ heap' = heap /\ time' = time
      /\ pc = "return" /\ pc' = "idle" /\ call' = NULL
      /\ aborted' = (call # NULL /\ call # top)
  BY DEF FinishRemove, Live
<1>2. call \in {NULL, top}
  BY <1>1 DEF CInv, OnlyCalledMinimized
<1>3. ~ aborted'
  BY <1>1, <1>2
<1>4. OnlyCalledMinimized'
  BY <1>1 DEF CInv, OnlyCalledMinimized, TimeAt
<1> QED
  BY <1>3, <1>4 DEF CInv, NoInconsistency

(* A new element has a time that is not minimized. *)
LEMMA ConstructCInv ==
  ASSUME IInv, CInv, NEW e \in Elements, NEW x \in Times, Construct(e, x)
  PROVE  CInv'
<1>1. /\ Live = heap_size /\ Live' = Live /\ heap' = heap
      /\ pc = "idle" /\ pc' = "idle" /\ call' = call /\ aborted' = aborted
      /\ time' = [time EXCEPT ![e] = x] /\ offset[e] = -1 /\ Live \in Nat
  BY DEF IInv, TypeOK, Construct, Live
<1>2. ASSUME NEW k \in 0 .. Live - 1
      PROVE  time'[heap[k]] = time[heap[k]]
  <2>1. heap[k] \in Elements /\ heap[k] # e
    BY <1>1 DEF IInv, OffsetsConsistent
  <2> QED
    BY <1>1, <2>1 DEF IInv, TypeOK
<1> QED
  BY <1>1, <1>2 DEF CInv, OnlyCalledMinimized, NoInconsistency, TimeAt

(* Remove(e) minimizes e and nothing else. *)
LEMMA RemoveElementCInv ==
  ASSUME IInv, CInv, NEW e \in Elements, RemoveElement(e)
  PROVE  CInv'
<1>1. /\ Live = heap_size /\ Live' = Live /\ heap' = heap /\ bin' = offset[e]
      /\ pc = "idle" /\ pc' = "remove_element" /\ call' = e /\ aborted' = aborted
      /\ time' = [time EXCEPT ![e] = NegInf] /\ heap[offset[e]] = e
  BY DEF RemoveElement, InHeap, Live
<1>2. time'[e] = NegInf
  BY <1>1 DEF IInv, TypeOK
<1>3. ASSUME NEW k \in 0 .. Live - 1, time'[heap[k]] = NegInf
      PROVE  k = offset[e]
  <2>1. heap[k] \in Elements /\ offset[heap[k]] = k /\ TimeAt(k) # NegInf
    BY <1>1 DEF IInv, OffsetsConsistent, CInv, OnlyCalledMinimized
  <2>2. heap[k] = e
    BY <1>1, <1>3, <2>1 DEF IInv, TypeOK, TimeAt
  <2> QED
    BY <2>1, <2>2
<1> QED
  BY <1>1, <1>2, <1>3 DEF CInv, OnlyCalledMinimized, NoInconsistency, TimeAt

(* Every step keeps the clients' invariant. *)
LEMMA NextCInv == ~ReAdd /\ IInv /\ CInv /\ [Next]_vars => CInv'
<1> SUFFICES ASSUME ~ReAdd, IInv, CInv, [Next]_vars PROVE CInv'
  OBVIOUS
<1>1. CASE \E e \in Elements, x \in Times : Construct(e, x)
  BY <1>1, ConstructCInv
<1>2. CASE \E e \in Elements : Add(e)
  BY <1>2, AddCInv
<1>3. CASE \E e \in Elements : RemoveElement(e)
  BY <1>3, RemoveElementCInv
<1>4. CASE UNCHANGED << heap, heap_size, time, pc, bin, call, top, aborted >>
  <2>1. Live' = Live
    BY <1>4 DEF Live
  <2> QED
    BY <1>4, <2>1 DEF CInv, OnlyCalledMinimized, NoInconsistency, TimeAt
<1>5. CASE BubbleUp
  BY <1>5, SwapUpCInv
<1>6. CASE FinishAdd
  BY <1>6, FinishAddCInv
<1>7. CASE Remove \/ RemoveElementTop
  BY <1>7, RemoveTopCInv
<1>8. CASE BubbleDownLeft \/ BubbleDownRight \/ BubbleDownLast
  BY <1>8, BubbleDownCInv
<1>9. CASE BubbleDownReturn
  <2>1. /\ Live' = Live /\ heap' = heap /\ time' = time /\ call' = call
        /\ top' = top /\ aborted' = aborted /\ pc = "down" /\ pc' = "return"
    BY <1>9 DEF BubbleDownReturn, Live
  <2> QED
    BY <2>1 DEF CInv, OnlyCalledMinimized, NoInconsistency, TimeAt
<1>10. CASE FinishRemove
  BY <1>10, FinishRemoveCInv
<1> QED
  BY <1>1, <1>2, <1>3, <1>4, <1>5, <1>6, <1>7, <1>8, <1>9, <1>10
  DEF Next, RemoveElementMissing, RemoveFromEmpty, vars

(* The clients' invariant holds in every reachable state. *)
LEMMA CalledInductive ==
  ASSUME ~ReAdd
  PROVE  Spec => []CInv
<1>1. IInv /\ CInv /\ [Next]_vars => CInv'
  BY NextCInv
<1> QED
  BY <1>1, Inductive, InitCInv, PTL DEF Spec

(* The abort() in Remove(e), "inconsistency in PriorityQueue::Remove", is  *)
(* unreachable if no element is added again after Remove(e) minimized it.  *)
THEOREM Consistent ==
  ASSUME ~ReAdd
  PROVE  Spec => []NoInconsistency
  BY CalledInductive, PTL DEF CInv

(* Of what is queued only the element Remove(e) was called with has the    *)
(* least time, and it is the one that comes out.                           *)
THEOREM CalledRight ==
  ASSUME ~ReAdd
  PROVE  Spec => []OnlyCalledMinimized
  BY CalledInductive, PTL DEF CInv

-----------------------------------------------------------------------------
(* A new heap is an empty queue. *)
LEMMA InitRefines == Init => Abstract!Init
  BY DEF Init, Abstract!Init, Queued, Removing

(* A step that changes nothing PQueueSpec sees. *)
LEMMA InsideCall ==
  ASSUME time' = time, Removing' = Removing, ret' = ret, Queued' = Queued
  PROVE  UNCHANGED Abstract!vars
  BY DEF Abstract!vars

(* A swap takes no element in or out of the queue. *)
LEMMA SwapKeepsQueued ==
  ASSUME IInv, NEW i \in 0 .. Live - 1, NEW j \in 0 .. Live - 1, i # j, Swap(i, j)
  PROVE  Queued' = Queued
<1>1. i \in Slots /\ j \in Slots
  BY DEF IInv, TypeOK, HasRoom, Slots, Live
<1>2. /\ heap[i] \in Elements /\ heap[j] \in Elements /\ heap[i] # heap[j]
      /\ offset[heap[i]] = i /\ offset[heap[j]] = j
  BY DEF IInv, OffsetsConsistent
<1>3. /\ offset'[heap[j]] = i /\ offset'[heap[i]] = j
      /\ \A e \in Elements :
           e # heap[i] /\ e # heap[j] => offset'[e] = offset[e]
  BY <1>1, <1>2, SwapFacts DEF IInv
<1>4. ASSUME NEW e \in Elements
      PROVE  offset'[e] >= 0 <=> offset[e] >= 0
  BY <1>2, <1>3
<1> QED
  BY <1>4 DEF Queued

(* Bubbling is invisible. *)
LEMMA BubbleRefines ==
  ASSUME IInv, BubbleUp \/ BubbleDownLeft \/ BubbleDownRight \/ BubbleDownLast
  PROVE  UNCHANGED Abstract!vars
<1>1. /\ time' = time /\ ret' = ret /\ Removing' = Removing
      /\ Live \in Nat /\ bin \in Nat
  BY DEF IInv, TypeOK, Live, BubbleUp, BubbleDownLeft, BubbleDownRight,
         BubbleDownLast, Removing
<1>2. PICK c \in Nat : c < Live /\ bin < Live /\ c # bin /\ Swap(c, bin)
  <2>1. CASE BubbleUp
    <3>1. bin # 0 /\ bin < Live /\ Swap(Parent(bin), bin)
      BY <2>1 DEF BubbleUp, BubbleUpSwaps, IInv, HeapOrdered
    <3>2. Parent(bin) \in Nat /\ Parent(bin) < bin
      BY <1>1, <3>1, ParentFacts
    <3> QED
      BY <1>1, <3>1, <3>2
  <2>2. CASE BubbleDownLeft \/ BubbleDownRight \/ BubbleDownLast
    <3>1. Live = heap_size
      BY <2>2 DEF BubbleDownLeft, BubbleDownRight, BubbleDownLast, Live
    <3>2. PICK c \in Nat : c < Live /\ bin <= c /\ Swap(c, bin) /\ TimeAt(c) < TimeAt(bin)
      BY <1>1, <2>2, <3>1
      DEF BubbleDownLeft, BubbleDownRight, BubbleDownLast, LeftChild, RightChild
    <3>3. TimeAt(c) \in Int
      BY <1>1, <3>2, TimesAreIntegers DEF IInv
    <3> QED
      BY <1>1, <3>2, <3>3
  <2> QED
    BY <2>1, <2>2
<1>3. Queued' = Queued
  BY <1>1, <1>2, SwapKeepsQueued
<1> QED
  BY <1>1, <1>3, InsideCall

(* So are resizing and the end of BubbleDown. *)
LEMMA QuietRefines ==
  ASSUME IInv, FinishAdd \/ BubbleDownReturn
  PROVE  UNCHANGED Abstract!vars
<1>1. time' = time /\ ret' = ret /\ offset' = offset
  BY DEF FinishAdd, BubbleDownReturn
<1>2. Queued' = Queued
  BY <1>1 DEF Queued
<1>3. Removing' = Removing
  BY DEF FinishAdd, BubbleDownReturn, Removing
<1> QED
  BY <1>1, <1>2, <1>3, InsideCall

(* So is the start of Remove(): its element leaves at the end. *)
LEMMA RemoveTopRefines ==
  ASSUME IInv, Remove \/ RemoveElementTop
  PROVE  UNCHANGED Abstract!vars
<1> DEFINE last == heap[heap_size - 1]
<1>1. /\ time' = time /\ ret' = ret /\ Removing' = Removing /\ Live = heap_size
      /\ SetElement(0, last)
  BY DEF Remove, RemoveElementTop, RemoveTop, Removing, Live
<1>2. heap_size \in Nat \ {0}
  BY <1>1 DEF IInv, TypeOK, HeapOrdered, Remove, RemoveElementTop
<1>3. 0 \in Slots /\ last \in Elements /\ offset[last] = heap_size - 1
  BY <1>1, <1>2 DEF IInv, TypeOK, Slots, OffsetsConsistent
<1> HIDE DEF last
<1>4. offset'[last] = 0 /\ \A e \in Elements : e # last => offset'[e] = offset[e]
  BY <1>1, <1>3, SetElementFacts DEF IInv
<1>5. \A e \in Elements : offset'[e] >= 0 <=> offset[e] >= 0
  BY <1>2, <1>3, <1>4
<1>6. Queued' = Queued
  BY <1>5 DEF Queued
<1> QED
  BY <1>1, <1>6, InsideCall

(* The end of Remove() takes out an element due first, that of Remove(e)   *)
(* takes out e.                                                            *)
LEMMA FinishRemoveRefines ==
  ASSUME IInv, CInv, FinishRemove
  PROVE  (\E e \in Elements : Abstract!Remove(e)) \/ Abstract!EndRemove
<1>1. /\ pc = "return" /\ pc' = "idle" /\ Leaving = {top} /\ Live = heap_size
      /\ offset' = [offset EXCEPT ![top] = -1] /\ time' = time /\ ret' = top
      /\ Removing = call /\ Removing' = NULL /\ call \in {NULL, top}
  BY DEF FinishRemove, Leaving, Live, Removing, CInv, OnlyCalledMinimized
<1>2. top \in Elements /\ offset[top] = 0
  BY <1>1 DEF IInv, OffsetsConsistent
<1>3. top \in Queued
  BY <1>2 DEF Queued
<1>4. Queued' = Queued \ {top}
  <2>1. offset'[top] = -1 /\ \A e \in Elements : e # top => offset'[e] = offset[e]
    BY <1>1, <1>2 DEF IInv, TypeOK
  <2> QED
    BY <2>1 DEF Queued
<1>5. ASSUME NEW f \in Queued
      PROVE  time[top] <= time[f]
  <2>1. CASE f = top
    <3>1. time[top] \in Times \cup {NegInf}
      BY <1>2 DEF IInv, TypeOK
    <3>2. time[top] \in Int
      BY <3>1, QueueAssumption
    <3> QED
      BY <2>1, <3>2
  <2>2. CASE f # top
    <3>1. f \in Elements /\ offset[f] # -1
      BY DEF Queued
    <3>2. offset[f] \in 0 .. Live - 1 /\ heap[offset[f]] = f
      BY <1>1, <2>2, <3>1 DEF IInv, OffsetsConsistent
    <3> QED
      BY <1>1, <3>2 DEF IInv, LeavingIsFirst, TimeAt
  <2> QED
    BY <2>1, <2>2
<1>6. CASE call = NULL
  BY <1>1, <1>2, <1>3, <1>4, <1>5, <1>6 DEF Abstract!Remove
<1>7. CASE call = top
  BY <1>1, <1>3, <1>4, <1>7 DEF Abstract!EndRemove
<1> QED
  BY <1>1, <1>6, <1>7

(* Every step of the heap is a step of the queue or invisible. *)
LEMMA StepRefines ==
  ASSUME ~ReAdd, IInv, CInv, [Next]_vars
  PROVE  [Abstract!Next]_(Abstract!vars)
<1>1. pc = "idle" => Removing = NULL /\ Live = heap_size /\ Leaving = {}
  BY DEF CInv, OnlyCalledMinimized, Removing, Live, Leaving
<1>2. ASSUME NEW e \in Elements, NEW x \in Times, Construct(e, x)
      PROVE  Abstract!Construct(e, x)
  <2>1. /\ pc = "idle" /\ pc' = "idle" /\ offset[e] = -1 /\ offset' = offset
        /\ call' = call /\ ret' = ret /\ time' = [time EXCEPT ![e] = x]
    BY <1>2 DEF Construct
  <2>2. e \notin Queued /\ Queued' = Queued /\ Removing' = Removing
    BY <2>1 DEF Queued, Removing
  <2> QED
    BY <1>1, <2>1, <2>2 DEF Abstract!Construct
<1>3. ASSUME NEW e \in Elements, Add(e)
      PROVE  Abstract!Add(e)
  <2>1. /\ pc = "idle" /\ pc' = "add" /\ offset[e] = -1 /\ time' = time
        /\ ret' = ret /\ offset' = [offset EXCEPT ![e] = heap_size]
    BY <1>3 DEF Add, SetElement
  <2>2. /\ heap_size \in Nat /\ offset'[e] = heap_size
        /\ \A f \in Elements : f # e => offset'[f] = offset[f]
    BY <2>1 DEF IInv, TypeOK
  <2>3. e \notin Queued /\ Queued' = Queued \cup {e} /\ Removing' = NULL
    BY <2>1, <2>2 DEF Queued, Removing
  <2> QED
    BY <1>1, <2>1, <2>3 DEF Abstract!Add
<1>4. ASSUME NEW e \in Elements, RemoveElement(e)
      PROVE  Abstract!BeginRemove(e)
  <2>1. /\ pc = "idle" /\ pc' = "remove_element" /\ offset[e] >= 0
        /\ offset' = offset /\ call' = e /\ ret' = ret
        /\ time' = [time EXCEPT ![e] = NegInf]
    BY <1>4 DEF RemoveElement, InHeap
  <2>2. e \in Queued /\ Queued' = Queued /\ Removing' = e
    BY <2>1 DEF Queued, Removing
  <2> QED
    BY <1>1, <2>1, <2>2 DEF Abstract!BeginRemove
<1>5. ASSUME NEW e \in Elements, RemoveElementMissing(e)
      PROVE  Abstract!RemoveMissing(e)
  <2>1. /\ pc = "idle" /\ pc' = "idle" /\ ~ InHeap(e) /\ offset' = offset
        /\ call' = call /\ ret' = NULL /\ time' = time
    BY <1>5 DEF RemoveElementMissing
  <2>2. offset[e] = -1
    <3>1. CASE offset[e] # -1
      <4>1. offset[e] \in 0 .. heap_size - 1 /\ heap[offset[e]] = e /\ heap_size \in Nat
        BY <1>1, <2>1, <3>1 DEF IInv, TypeOK, OffsetsConsistent
      <4> QED
        BY <2>1, <4>1 DEF InHeap
    <3> QED
      BY <3>1
  <2>3. e \notin Queued /\ Queued' = Queued /\ Removing' = Removing
    BY <2>1, <2>2 DEF Queued, Removing
  <2> QED
    BY <1>1, <2>1, <2>3 DEF Abstract!RemoveMissing
<1>6. ASSUME RemoveFromEmpty
      PROVE  Abstract!RemoveFromEmpty
  <2>1. /\ pc = "idle" /\ pc' = "idle" /\ heap_size = 0 /\ offset' = offset
        /\ call' = call /\ ret' = NULL /\ time' = time
    BY <1>6 DEF RemoveFromEmpty
  <2>2. \A e \in Elements : offset[e] = -1
    BY <1>1, <2>1 DEF IInv, OffsetsConsistent
  <2>3. Queued = {} /\ Queued' = Queued /\ Removing' = Removing
    BY <2>1, <2>2 DEF Queued, Removing
  <2> QED
    BY <1>1, <2>1, <2>3 DEF Abstract!RemoveFromEmpty
<1>7. ASSUME \/ BubbleUp \/ BubbleDownLeft \/ BubbleDownRight \/ BubbleDownLast
             \/ FinishAdd \/ BubbleDownReturn \/ Remove \/ RemoveElementTop
      PROVE  UNCHANGED Abstract!vars
  BY <1>7, BubbleRefines, QuietRefines, RemoveTopRefines
<1>8. ASSUME UNCHANGED vars
      PROVE  UNCHANGED Abstract!vars
  <2>1. Queued' = Queued /\ Removing' = Removing
    BY <1>8 DEF vars, Queued, Removing
  <2> QED
    BY <1>8, <2>1, InsideCall DEF vars
<1> QED
  BY <1>2, <1>3, <1>4, <1>5, <1>6, <1>7, <1>8, FinishRemoveRefines
  DEF Next, Abstract!Next

(* The heap implements the priority queue of PQueueSpec: Remove() returns  *)
(* an element due first, Remove(e) returns e or, if it was not queued,     *)
(* null, and no step loses or adds an element.                             *)
THEOREM ImplementsQueue ==
  ASSUME ~ReAdd
  PROVE  Spec => RefinesQueue
<1>1. IInv /\ CInv /\ [Next]_vars => [Abstract!Next]_(Abstract!vars)
  BY StepRefines
<1> QED
  BY <1>1, Inductive, CalledInductive, InitRefines, PTL
  DEF Spec, RefinesQueue, Abstract!Spec
=============================================================================
