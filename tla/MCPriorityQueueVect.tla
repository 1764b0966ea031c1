------------------------ MODULE MCPriorityQueueVect ------------------------
(* Instances of PriorityQueueVect for TLC. *)
EXTENDS PriorityQueueVect

(* Where the configurations put -HUGE_VAL. *)
MinusInfinity == -1

(* Elements are interchangeable until a time tells them apart. *)
Symmetry == Permutations(Elements)
=============================================================================
