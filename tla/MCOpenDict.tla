----------------------------- MODULE MCOpenDict -----------------------------
(* Instances of OpenDict for TLC.  A key is named by its FibHash value, so *)
(* that a configuration chooses the collisions when it chooses the keys.   *)
EXTENDS OpenDict

HashIsKey == [k \in Keys |-> k]
=============================================================================
