------------------------------ MODULE MCQueues ------------------------------
(***************************************************************************)
(* The three queues of queue/, of which a behaviour uses one.  The two     *)
(* heaps share their variables; "v_heap" and so on are the vector's.       *)
(***************************************************************************)
EXTENDS PriorityQueueUnrolled, TLC

VARIABLES which, v_heap, v_time, v_offset, v_ret

Vect == INSTANCE PriorityQueueVect WITH
  heap <- v_heap, time <- v_time, offset <- v_offset, ret <- v_ret

(* Where the configurations put -HUGE_VAL. *)
MinusInfinity == -1

(* Elements are interchangeable until a time tells them apart. *)
Symmetry == Permutations(Elements)

heapVars == << uvars, which >>
vectVars == << v_heap, v_time, v_offset, v_ret, which >>

(* What the variables of the queues that are not used hold. *)
NoTime == [e \in Elements |-> CHOOSE x \in Times : TRUE]
NoOffset == [e \in Elements |-> -1]

MCInit ==
  \/ /\ which \in {"PriorityQueue", "PriorityQueueUnrolled"}
     /\ UInit
     /\ v_heap = << >> /\ v_time = NoTime /\ v_offset = NoOffset /\ v_ret = NULL
  \/ /\ which = "PriorityQueueVect"
     /\ Vect!Init
     /\ heap = [i \in 0 .. InitialSize - 1 |-> NULL]
     /\ heap_size = 0 /\ max_heap_size = InitialSize
     /\ time = NoTime /\ offset = NoOffset
     /\ pc = "idle" /\ bin = 0 /\ old_bin = -1
     /\ call = NULL /\ top = NULL /\ ret = NULL /\ aborted = FALSE

MCNext ==
  \/ which = "PriorityQueue" /\ Next /\ UNCHANGED << vectVars, old_bin >>
  \/ which = "PriorityQueueUnrolled" /\ UNext /\ UNCHANGED vectVars
  \/ which = "PriorityQueueVect" /\ Vect!NextTop /\ UNCHANGED heapVars

MCSpec == MCInit /\ [][MCNext]_<< heapVars, vectVars >>

-----------------------------------------------------------------------------
(* For clients that only take the top, the vector is the queue too. *)
VectRefinesQueue == Vect!RefinesQueue
=============================================================================
