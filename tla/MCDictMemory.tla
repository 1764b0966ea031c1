---------------------------- MODULE MCDictMemory ----------------------------
(***************************************************************************)
(* The C heap as List and as HashKey and the dictionary use it.  Each      *)
(* behaviour is one or the other; "k_heap" and so on are those of          *)
(* KeyMemory.                                                              *)
(***************************************************************************)
EXTENDS List

CONSTANTS HashKeys, ShortKeys, LongKeys, Inside, Elsewhere

(* What is not in the C heap is not one of its blocks. *)
ASSUME KeyAssumption == {Inside, Elsewhere} \cap Blocks = {}

VARIABLES k_heap, k_hash_key, k_entry, k_callers,
          k_ordered, k_order, k_iterating, k_inserted, k_visited

Keys == INSTANCE KeyMemory WITH
  Buffers <- Blocks, heap <- k_heap, hash_key <- k_hash_key, entry <- k_entry,
  callers <- k_callers, ordered <- k_ordered, order <- k_order,
  iterating <- k_iterating, inserted <- k_inserted, visited <- k_visited

(* Two short lists, a longer one by itself, or none. *)
SomeLists ==
  {[l \in Lists |-> 2], [l \in Lists |-> 0]}
    \cup {[l \in Lists |-> IF l = m THEN 4 ELSE 0] : m \in Lists}

(* Blocks, lists and HashKeys are interchangeable. *)
Symmetry == Permutations(Blocks) \cup Permutations(Lists) \cup Permutations(HashKeys)

keyVars == << k_heap, k_hash_key, k_entry, k_callers,
              k_ordered, k_order, k_iterating, k_inserted, k_visited >>

MCInit == Init /\ Keys!Init

MCNext ==
  \/ Next /\ Keys!Init /\ UNCHANGED keyVars
  \/ Keys!Next /\ Init /\ Used = {} /\ UNCHANGED vars

MCSpec == MCInit /\ [][MCNext]_<< vars, keyVars >>

-----------------------------------------------------------------------------
(* No key buffer is leaked or freed twice, and a key is there, unchanged,  *)
(* for every HashKey, every entry and every copy queued for NextEntry.     *)
KeysOwned == Keys!FreedOnce /\ Keys!KeysReadable
=============================================================================
