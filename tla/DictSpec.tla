------------------------------ MODULE DictSpec ------------------------------
(***************************************************************************)
(* What class Dictionary promises (the comments of dict/OpenDict.h): a     *)
(* finite map from keys to values and the value each call returns.         *)
(* Nothing here has a position, a bucket or a size.                        *)
(***************************************************************************)
CONSTANTS Keys, Vals, NULL

VARIABLES map, ret

vars == << map, ret >>

At(k) == IF k \in DOMAIN map THEN map[k] ELSE NULL

Returns(op, k, v) == ret' = [op |-> op, key |-> k, value |-> v]

Init == map = << >> /\ ret = [op |-> "none", key |-> NULL, value |-> NULL]

(* "Returns previous value, or 0 if none." *)
Insert(k, v) ==
  /\ map' = [j \in DOMAIN map \cup {k} |-> IF j = k THEN v ELSE map[j]]
  /\ Returns("insert", k, At(k))

(* "Returns a pointer to the element ... Returns 0 if no such element." *)
Remove(k) ==
  /\ map' = [j \in DOMAIN map \ {k} |-> map[j]]
  /\ Returns("remove", k, At(k))

Lookup(k) == map' = map /\ Returns("lookup", k, At(k))

Clear == map' = << >> /\ Returns("clear", NULL, NULL)

(* An iteration yields an entry of the map with the value it has now.      *)
Visit(k) == k \in DOMAIN map /\ map' = map /\ Returns("next", k, map[k])

EndIteration == map' = map /\ Returns("end", NULL, NULL)

(* Calls that make, change or delete a cookie leave the map alone.         *)
CookieCall == map' = map /\ Returns("cookie", NULL, NULL)

Next ==
  \/ \E k \in Keys : Remove(k) \/ Lookup(k) \/ Visit(k)
  \/ \E k \in Keys, v \in Vals : Insert(k, v)
  \/ Clear
  \/ EndIteration
  \/ CookieCall

Spec == Init /\ [][Next]_vars
=============================================================================
