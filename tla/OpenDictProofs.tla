--------------------------- MODULE OpenDictProofs ---------------------------
(***************************************************************************)
(* Proofs about Dictionary, for every set of keys, every hash function and *)
(* tables of every size: the shape of its table, the accounting of its     *)
(* iterations, that no call loses an entry, that a lookup finds every key, *)
(* that the table is a map, that no assertion of the code fails, and what  *)
(* an iteration visits.                                                    *)
(***************************************************************************)
EXTENDS OpenDict, FiniteSetTheorems, WellFoundedInduction, TLAPS

-----------------------------------------------------------------------------
(* Least and greatest elements: every loop of ClusteredTable is one. *)

(* A non-empty set of naturals has a least element. *)
LEMMA LeastNatural ==
  ASSUME NEW T, T \in SUBSET Nat, T # {}
  PROVE  \E n \in T : \A m \in T : n <= m
<1> DEFINE R == OpToRel(<, Nat)
<1>1. \A k, m \in Nat : k < m => << k, m >> \in R
  BY DEF OpToRel
<1>2. IsWellFoundedOn(R, Nat)
  BY NatLessThanWellFounded
<1> HIDE DEF R
<1>3. PICK n \in T : \A m \in T : << m, n >> \notin R
  BY <1>2, WFMin
<1>4. \A m \in T : m \in Nat /\ n \in Nat /\ ~ (m < n)
  BY <1>1, <1>3
<1>5. \A m \in T : n <= m
  BY <1>4
<1> QED
  BY <1>5

(* Induction, for a property that is given as a set. *)
LEMMA SetInduction ==
  ASSUME NEW S, 0 \in S, \A n \in Nat : n \in S => n + 1 \in S
  PROVE  \A n \in Nat : n \in S
<1> DEFINE T == Nat \ S
<1> SUFFICES ASSUME T # {} PROVE FALSE
  OBVIOUS
<1>1. PICK n \in T : \A m \in T : n <= m
  BY LeastNatural
<1>2. n \in Nat /\ n # 0 /\ n \notin S
  OBVIOUS
<1>3. n - 1 \in Nat /\ n - 1 \in S
  BY <1>1, <1>2
<1> QED
  BY <1>2, <1>3

(* Min() of a set that is bounded below. *)
LEMMA LeastOf ==
  ASSUME NEW lo \in Int, NEW S, S \subseteq Int, S # {}, \A x \in S : lo <= x
  PROVE  Min(S) \in S /\ Min(S) \in Int /\ \A x \in S : Min(S) <= x
<1> DEFINE T == {n \in Nat : n + lo \in S}
<1>1. T \in SUBSET Nat
  OBVIOUS
<1>2. \A x \in S : x - lo \in T /\ x = (x - lo) + lo
  OBVIOUS
<1>3. T # {}
  BY <1>2
<1> HIDE DEF T
<1>4. PICK n \in T : \A m \in T : n <= m
  BY <1>1, <1>3, LeastNatural
<1>5. n + lo \in S /\ n \in Nat
  BY DEF T
<1>6. \A y \in S : n + lo <= y
  <2> TAKE y \in S
  <2>1. n <= y - lo /\ y \in Int
    BY <1>2, <1>4
  <2> QED
    BY <1>5, <2>1
<1> QED
  BY <1>5, <1>6 DEF Min

(* Max() of a set that is bounded above. *)
LEMMA GreatestOf ==
  ASSUME NEW hi \in Int, NEW S, S \subseteq Int, S # {}, \A x \in S : x <= hi
  PROVE  Max(S) \in S /\ Max(S) \in Int /\ \A x \in S : x <= Max(S)
<1> DEFINE T == {n \in Nat : hi - n \in S}
<1>1. T \in SUBSET Nat
  OBVIOUS
<1>2. \A x \in S : hi - x \in T /\ x = hi - (hi - x)
  OBVIOUS
<1>3. T # {}
  BY <1>2
<1> HIDE DEF T
<1>4. PICK n \in T : \A m \in T : n <= m
  BY <1>1, <1>3, LeastNatural
<1>5. hi - n \in S /\ n \in Nat
  BY DEF T
<1>6. \A y \in S : hi - n >= y
  <2> TAKE y \in S
  <2>1. n <= hi - y /\ y \in Int
    BY <1>2, <1>4
  <2> QED
    BY <1>5, <2>1
<1> QED
  BY <1>5, <1>6 DEF Max

LEMMA AboveAndBelow ==
  ASSUME NEW C, C \subseteq Int, NEW q \in Int
  PROVE  /\ {x \in C : x > q} \subseteq Int /\ \A x \in {x \in C : x > q} : q <= x
         /\ {x \in C : x < q} \subseteq Int /\ \A x \in {x \in C : x < q} : x <= q
<1>1. \A x \in C : x \in Int /\ (x > q => q <= x) /\ (x < q => x <= q)
  OBVIOUS
<1> QED
  BY <1>1, Zenon

-----------------------------------------------------------------------------
(* The powers of two. *)

(* The equation that defines Pow2 has a solution. *)
LEMMA Pow2Defined ==
  Pow2 = [n \in Nat |-> IF n = 0 THEN 1 ELSE 2 * Pow2[n - 1]]
<1> DEFINE Starts(n) == {g \in [0 .. n -> Nat] : g[0] = 1 /\ \A i \in 1 .. n : g[i] = 2 * g[i - 1]}
           Has == {n \in Nat : Starts(n) # {}}
           f == [n \in Nat |-> (CHOOSE g \in Starts(n) : TRUE)[n]]
<1>1. \A n \in Nat : n \in Has
  <2>1. 0 \in Has
    <3>1. [i \in 0 .. 0 |-> 1] \in Starts(0)
      OBVIOUS
    <3> QED BY <3>1
  <2>2. ASSUME NEW n \in Nat, n \in Has PROVE n + 1 \in Has
    <3>1. PICK g : g \in Starts(n)
      BY <2>2
    <3> DEFINE h == [i \in 0 .. n + 1 |-> IF i = n + 1 THEN 2 * g[n] ELSE g[i]]
    <3>2. h \in [0 .. n + 1 -> Nat] /\ h[0] = 1
      BY <3>1
    <3>3. \A i \in 1 .. n + 1 : h[i] = 2 * h[i - 1]
      BY <3>1
    <3> HIDE DEF h
    <3>4. h \in Starts(n + 1)
      BY <3>2, <3>3
    <3> HIDE DEF Starts
    <3> QED
      BY <3>4
  <2> HIDE DEF Has
  <2> QED
    BY <2>1, <2>2, SetInduction
<1>2. ASSUME NEW n \in Nat, NEW g \in Starts(n + 1), NEW h \in Starts(n)
      PROVE  g[n] = h[n]
  <2> DEFINE Same == {i \in Nat : i <= n => g[i] = h[i]}
  <2>1. 0 \in Same
    OBVIOUS
  <2>2. ASSUME NEW i \in Nat, i \in Same PROVE i + 1 \in Same
    BY <2>2
  <2> HIDE DEF Same
  <2>3. n \in Same
    BY <2>1, <2>2, SetInduction
  <2> QED
    BY <2>3 DEF Same
<1>3. \A n \in Nat : (CHOOSE g \in Starts(n) : TRUE) \in Starts(n)
  BY <1>1
<1> HIDE DEF Starts
<1>4. \A n \in Nat : f[n] = IF n = 0 THEN 1 ELSE 2 * f[n - 1]
  <2> TAKE n \in Nat
  <2>1. CASE n = 0
    BY <1>3, <2>1 DEF Starts
  <2>2. CASE n # 0
    <3> DEFINE g == CHOOSE s \in Starts(n) : TRUE
               h == CHOOSE s \in Starts(n - 1) : TRUE
    <3>1. g \in Starts(n) /\ h \in Starts(n - 1) /\ n - 1 \in Nat /\ n = (n - 1) + 1
      BY <1>3, <2>2
    <3> HIDE DEF g, h
    <3>2. g[n - 1] = h[n - 1]
      BY <1>2, <3>1
    <3>3. g[n] = 2 * g[n - 1]
      BY <3>1, <2>2 DEF Starts
    <3> QED
      BY <3>1, <3>2, <3>3, <2>2 DEF g, h
  <2> QED
    BY <2>1, <2>2
<1> HIDE DEF f
<1>5. f = [n \in Nat |-> IF n = 0 THEN 1 ELSE 2 * f[n - 1]]
  <2>1. f = [n \in Nat |-> f[n]]
    BY DEF f
  <2> QED
    BY <1>4, <2>1
<1> QED
  BY <1>5, Zenon DEF Pow2

LEMMA Pow2Steps ==
  /\ Pow2[0] = 1
  /\ \A n \in Nat : Pow2[n + 1] = 2 * Pow2[n]
<1>1. \A n \in Nat : Pow2[n] = IF n = 0 THEN 1 ELSE 2 * Pow2[n - 1]
  BY Pow2Defined, Zenon
<1>2. \A n \in Nat : (n + 1) \in Nat /\ n + 1 # 0 /\ (n + 1) - 1 = n
  OBVIOUS
<1> QED
  BY <1>1, <1>2

LEMMA Pow2Positive ==
  \A n \in Nat : Pow2[n] \in Nat \ {0}
<1> DEFINE S == {n \in Nat : Pow2[n] \in Nat \ {0}}
<1>1. 0 \in S
  BY Pow2Steps
<1>2. ASSUME NEW n \in Nat, n \in S PROVE n + 1 \in S
  BY <1>2, Pow2Steps
<1> HIDE DEF S
<1>3. \A n \in Nat : n \in S
  BY <1>1, <1>2, SetInduction
<1> QED
  BY <1>3 DEF S
(* A table of the next size has room for at least two slots more. *)
LEMMA CapacityGrows ==
  ASSUME NEW n \in Nat
  PROVE  /\ CapacityOf(n) \in Nat \ {0}
         /\ Pow2[n] <= CapacityOf(n)
         /\ CapacityOf(n + 1) \in Nat
         /\ CapacityOf(n + 1) >= CapacityOf(n) + 2
  BY Pow2Positive, Pow2Steps DEF CapacityOf

LEMMA CapacityMonotone ==
  ASSUME NEW m \in Nat, NEW n \in Nat, m <= n
  PROVE  CapacityOf(m) <= CapacityOf(n)
<1> DEFINE S == {k \in Nat : CapacityOf(m) <= CapacityOf(m + k)}
<1>1. 0 \in S
  BY CapacityGrows
<1>2. ASSUME NEW k \in Nat, k \in S PROVE k + 1 \in S
  <2>1. m + k \in Nat /\ m + (k + 1) = (m + k) + 1
    OBVIOUS
  <2>2. CapacityOf((m + k) + 1) >= CapacityOf(m + k) + 2 /\ CapacityOf(m + k) \in Nat
        /\ CapacityOf((m + k) + 1) \in Nat /\ CapacityOf(m) \in Nat
    BY <2>1, CapacityGrows
  <2>3. CapacityOf(m) <= CapacityOf(m + k)
    BY <1>2
  <2>4. CapacityOf(m) <= CapacityOf(m + (k + 1))
    BY <2>1, <2>2, <2>3
  <2> QED
    BY <2>4
<1> HIDE DEF S
<1>3. n - m \in S
  BY <1>1, <1>2, SetInduction
<1> QED
  BY <1>3 DEF S

-----------------------------------------------------------------------------
(* Tables *)

AnyCell == [key : Keys, value : Vals, distance : Int]

Slot == AnyCell \cup {EmptySlot}

Arrays(bits) == [0 .. CapacityOf(bits) - 1 -> Slot]

(* An allocated table, whatever its slots hold. *)
Shaped(u) ==
  /\ u = [log2_buckets |-> u.log2_buckets, table |-> u.table,
          remap_end |-> u.remap_end, remaps |-> u.remaps]
  /\ u.log2_buckets \in Nat
  /\ u.table \in Arrays(u.log2_buckets)
  /\ u.remap_end \in -1 .. CapacityOf(u.log2_buckets) - 1
  /\ u.remaps \in 0 .. u.log2_buckets

(* What Clustered says of neighbours, said of all slots between an entry's *)
(* bucket and the entry: they are occupied, by entries of no later bucket. *)
Packed(u) ==
  \A p \in Occupied(u) :
    /\ BucketByPosition(u, p) \in 0 .. p
    /\ \A q \in BucketByPosition(u, p) .. p :
         q \in Occupied(u) /\ BucketByPosition(u, q) <= BucketByPosition(u, p)

(* Every distance is told apart from the mark of an empty slot. *)
Fits(u) == CapacityOf(u.log2_buckets) <= TOO_FAR_TO_REACH

LEMMA TooFar == TOO_FAR_TO_REACH \in Nat
  BY DEF TOO_FAR_TO_REACH

LEMMA ShapedFacts ==
  ASSUME NEW u, Shaped(u)
  PROVE  /\ u.table # << >>
         /\ Capacity(u) = CapacityOf(u.log2_buckets)
         /\ Capacity(u) \in Nat \ {0}
         /\ u.log2_buckets \in Nat
         /\ Pow2[u.log2_buckets] \in Nat \ {0}
         /\ Pow2[u.log2_buckets] <= Capacity(u)
         /\ u.remap_end \in -1 .. Capacity(u) - 1
         /\ u.remaps \in 0 .. u.log2_buckets
         /\ DOMAIN u.table = 0 .. Capacity(u) - 1
         /\ \A p \in 0 .. Capacity(u) - 1 :
              /\ u.table[p] \in Slot
              /\ p \in Occupied(u) <=> ~ Empty(u, p)
              /\ ~ Empty(u, p) => u.table[p] \in AnyCell
              /\ ~ Empty(u, p) => BucketByPosition(u, p) \in Int
         /\ Occupied(u) \subseteq 0 .. Capacity(u) - 1
<1>1. u.log2_buckets \in Nat /\ u.table \in Arrays(u.log2_buckets)
  BY DEF Shaped
<1>2. /\ CapacityOf(u.log2_buckets) \in Nat \ {0}
      /\ Pow2[u.log2_buckets] \in Nat \ {0}
      /\ Pow2[u.log2_buckets] <= CapacityOf(u.log2_buckets)
  BY <1>1, CapacityGrows, Pow2Positive
<1>3. DOMAIN u.table = 0 .. CapacityOf(u.log2_buckets) - 1
  BY <1>1 DEF Arrays
<1>4. u.table # << >>
  <2>1. 0 \in DOMAIN u.table
    BY <1>2, <1>3
  <2>2. 0 \notin DOMAIN << >>
    OBVIOUS
  <2> QED
    BY <2>1, <2>2
<1>5. Capacity(u) = CapacityOf(u.log2_buckets)
  BY <1>4 DEF Capacity
<1>6. \A p \in 0 .. Capacity(u) - 1 : u.table[p] \in Slot
  BY <1>1, <1>5 DEF Arrays
<1>7. \A p \in 0 .. Capacity(u) - 1 : p \in Occupied(u) <=> ~ Empty(u, p)
  BY <1>3, <1>5 DEF Occupied
<1>8. \A p \in 0 .. Capacity(u) - 1 :
        ~ Empty(u, p) => u.table[p] \in AnyCell /\ BucketByPosition(u, p) \in Int
  <2>1. EmptySlot.distance = TOO_FAR_TO_REACH
    BY DEF EmptySlot
  <2>2. \A c \in Slot : c.distance # TOO_FAR_TO_REACH => c \in AnyCell
    BY <2>1 DEF Slot
  <2>3. \A c \in AnyCell : c.distance \in Int
    BY DEF AnyCell
  <2> QED
    BY <1>2, <1>5, <1>6, <2>2, <2>3 DEF Empty, BucketByPosition
<1>9. Occupied(u) \subseteq 0 .. Capacity(u) - 1
  BY <1>3, <1>5 DEF Occupied
<1>10. u.remap_end \in -1 .. Capacity(u) - 1 /\ u.remaps \in 0 .. u.log2_buckets
  BY <1>5 DEF Shaped
<1> QED
  BY <1>1, <1>2, <1>3, <1>4, <1>5, <1>6, <1>7, <1>8, <1>9, <1>10

(* Assignments to single members. *)
LEMMA WithTable ==
  ASSUME NEW u, Shaped(u), NEW f \in Arrays(u.log2_buckets)
  PROVE  /\ Shaped([u EXCEPT !.table = f])
         /\ [u EXCEPT !.table = f].table = f
         /\ [u EXCEPT !.table = f].log2_buckets = u.log2_buckets
         /\ [u EXCEPT !.table = f].remap_end = u.remap_end
         /\ [u EXCEPT !.table = f].remaps = u.remaps
<1>1. [u EXCEPT !.table = f] =
        [log2_buckets |-> u.log2_buckets, table |-> f,
         remap_end |-> u.remap_end, remaps |-> u.remaps]
  BY DEF Shaped
<1> DEFINE w == [u EXCEPT !.table = f]
<1>2. /\ w.table = f /\ w.log2_buckets = u.log2_buckets
      /\ w.remap_end = u.remap_end /\ w.remaps = u.remaps
  BY <1>1
<1>3. w = [log2_buckets |-> w.log2_buckets, table |-> w.table,
           remap_end |-> w.remap_end, remaps |-> w.remaps]
  BY <1>1, <1>2
<1> HIDE DEF w
<1>4. Shaped(w)
  BY <1>2, <1>3, Zenon DEF Shaped
<1> QED
  BY <1>2, <1>4 DEF w

LEMMA WithRemapEnd ==
  ASSUME NEW u, Shaped(u), NEW e \in -1 .. CapacityOf(u.log2_buckets) - 1
  PROVE  /\ Shaped([u EXCEPT !.remap_end = e])
         /\ [u EXCEPT !.remap_end = e].table = u.table
         /\ [u EXCEPT !.remap_end = e].log2_buckets = u.log2_buckets
         /\ [u EXCEPT !.remap_end = e].remap_end = e
         /\ [u EXCEPT !.remap_end = e].remaps = u.remaps
<1>1. [u EXCEPT !.remap_end = e] =
        [log2_buckets |-> u.log2_buckets, table |-> u.table,
         remap_end |-> e, remaps |-> u.remaps]
  BY DEF Shaped
<1> DEFINE w == [u EXCEPT !.remap_end = e]
<1>2. /\ w.table = u.table /\ w.log2_buckets = u.log2_buckets
      /\ w.remap_end = e /\ w.remaps = u.remaps
  BY <1>1
<1>3. w = [log2_buckets |-> w.log2_buckets, table |-> w.table,
           remap_end |-> w.remap_end, remaps |-> w.remaps]
  BY <1>1, <1>2
<1> HIDE DEF w
<1>4. Shaped(w)
  BY <1>2, <1>3, Zenon DEF Shaped
<1> QED
  BY <1>2, <1>4 DEF w

LEMMA WithoutRemaps ==
  ASSUME NEW u, Shaped(u)
  PROVE  /\ Shaped([u EXCEPT !.remaps = 0])
         /\ [u EXCEPT !.remaps = 0].table = u.table
         /\ [u EXCEPT !.remaps = 0].log2_buckets = u.log2_buckets
<1>1. [u EXCEPT !.remaps = 0] =
        [log2_buckets |-> u.log2_buckets, table |-> u.table,
         remap_end |-> u.remap_end, remaps |-> 0]
  BY DEF Shaped
<1> DEFINE w == [u EXCEPT !.remaps = 0]
<1>2. /\ w.table = u.table /\ w.log2_buckets = u.log2_buckets
      /\ w.remap_end = u.remap_end /\ w.remaps = 0
  BY <1>1
<1>3. w = [log2_buckets |-> w.log2_buckets, table |-> w.table,
           remap_end |-> w.remap_end, remaps |-> w.remaps]
  BY <1>1, <1>2
<1>4. 0 \in 0 .. u.log2_buckets
  BY DEF Shaped
<1> HIDE DEF w
<1>5. Shaped(w)
  BY <1>2, <1>3, <1>4, Zenon DEF Shaped
<1> QED
  BY <1>2, <1>5 DEF w

(* Packed depends on the slots alone. *)
LEMMA PackedTable ==
  ASSUME NEW u, NEW w, w.table = u.table
  PROVE  /\ Occupied(w) = Occupied(u) /\ (Packed(u) => Packed(w))
         /\ EntriesIn(w) = EntriesIn(u)
<1>1. Occupied(w) = Occupied(u) /\ (Packed(u) => Packed(w))
  BY DEF Occupied, Empty, Packed, BucketByPosition
<1> QED
  BY <1>1 DEF EntriesIn

(* Growing copies the slots. *)
LEMMA SizeUpShaped ==
  ASSUME NEW u, Shaped(u)
  PROVE  /\ Shaped(SizeUp(u))
         /\ Occupied(SizeUp(u)) = Occupied(u)
         /\ SizeUp(u).log2_buckets = u.log2_buckets + 1
         /\ SizeUp(u).remap_end = Capacity(u)
         /\ Capacity(SizeUp(u)) >= Capacity(u) + 2
         /\ \A p \in 0 .. Capacity(u) - 1 : SizeUp(u).table[p] = u.table[p]
         /\ \A p \in Capacity(u) .. Capacity(SizeUp(u)) - 1 : Empty(SizeUp(u), p)
         /\ Packed(u) => Packed(SizeUp(u))
         /\ EntriesIn(SizeUp(u)) = EntriesIn(u)
<1> DEFINE w == SizeUp(u)
           c == Capacity(u)
           d == CapacityOf(u.log2_buckets + 1)
<1>1. /\ c \in Nat \ {0} /\ c = CapacityOf(u.log2_buckets) /\ u.log2_buckets \in Nat
      /\ \A p \in 0 .. c - 1 : u.table[p] \in Slot
      /\ Occupied(u) \subseteq 0 .. c - 1
      /\ u.remaps \in 0 .. u.log2_buckets
  BY ShapedFacts
<1>2. d \in Nat /\ d >= c + 2
  BY <1>1, CapacityGrows
<1>4. /\ w.log2_buckets = u.log2_buckets + 1
      /\ w.table = [i \in 0 .. d - 1 |-> IF i < c THEN u.table[i] ELSE EmptySlot]
      /\ w.remap_end = c
      /\ w.remaps = u.remaps + 1
      /\ w = [log2_buckets |-> w.log2_buckets, table |-> w.table,
              remap_end |-> w.remap_end, remaps |-> w.remaps]
  BY DEF SizeUp
<1> HIDE DEF w, c, d
<1>5. w.table \in Arrays(w.log2_buckets)
  BY <1>1, <1>2, <1>4 DEF Arrays, Slot, d
<1>6. \A p \in 0 .. c - 1 : w.table[p] = u.table[p]
  BY <1>1, <1>2, <1>4
<1>7. \A p \in c .. d - 1 : w.table[p] = EmptySlot
  BY <1>1, <1>2, <1>4
<1>70. \A p \in c .. d - 1 : Empty(w, p)
  BY <1>7 DEF Empty, EmptySlot
<1>8. Occupied(w) = Occupied(u)
  <2>2. DOMAIN w.table = 0 .. d - 1 /\ DOMAIN u.table = 0 .. c - 1
    BY <1>4, ShapedFacts DEF c
  <2>3. \A p \in 0 .. c - 1 : Empty(w, p) <=> Empty(u, p)
    BY <1>6 DEF Empty
  <2>4. \A p : p \in 0 .. d - 1 <=> p \in 0 .. c - 1 \/ p \in c .. d - 1
    BY <1>1, <1>2
  <2> QED
    BY <1>70, <2>2, <2>3, <2>4 DEF Occupied
<1>9. \A p \in Occupied(u) : BucketByPosition(w, p) = BucketByPosition(u, p)
  BY <1>1, <1>6 DEF BucketByPosition
<1>10. Packed(u) => Packed(w)
  BY <1>8, <1>9 DEF Packed
<1>11. Shaped(w)
  <2>1. w.log2_buckets \in Nat /\ w.remaps \in 0 .. w.log2_buckets
    BY <1>1, <1>4
  <2>2. w.remap_end \in -1 .. CapacityOf(w.log2_buckets) - 1
    BY <1>1, <1>2, <1>4 DEF d
  <2> QED
    BY <1>4, <1>5, <2>1, <2>2, Zenon DEF Shaped
<1>12. Capacity(w) = d
  BY <1>4, <1>11, ShapedFacts DEF d
<1>13. EntriesIn(w) = EntriesIn(u)
  BY <1>1, <1>6, <1>8 DEF EntriesIn
<1> QED
  BY <1>1, <1>2, <1>4, <1>6, <1>70, <1>8, <1>10, <1>11, <1>12, <1>13 DEF w, c

-----------------------------------------------------------------------------
(* Insertion: the parts of InsertAndRelocate, by name. *)

InsertEnd(u, p0) == First(p0, Capacity(u), LAMBDA i : Empty(u, i))

InsertChain(u, p0) ==
  {p0} \cup {p \in p0 + 1 .. InsertEnd(u, p0) :
               p = InsertEnd(u, p0) \/ BucketByPosition(u, p) # BucketByPosition(u, p - 1)}

InsertFrom(u, p0, p) == Max({q \in InsertChain(u, p0) : q < p})

InsertPlaced(u, e, p0, p) ==
  IF p = p0
  THEN e
  ELSE [u.table[InsertFrom(u, p0, p)] EXCEPT !.distance = @ + p - InsertFrom(u, p0, p)]

InsertGrown(u, p0) == IF InsertEnd(u, p0) = Capacity(u) THEN SizeUp(u) ELSE u

InsertSlots(u, e, p0) ==
  [p \in DOMAIN InsertGrown(u, p0).table |->
     IF p \in InsertChain(u, p0) THEN InsertPlaced(u, e, p0, p)
     ELSE InsertGrown(u, p0).table[p]]

LEMMA InsertForm ==
  ASSUME NEW u, NEW e, NEW p0
  PROVE  /\ InsertAndRelocate(u, e, p0).t =
              [InsertGrown(u, p0) EXCEPT !.table = InsertSlots(u, e, p0)]
         /\ InsertAndRelocate(u, e, p0).entry = InsertPlaced(u, e, p0, InsertEnd(u, p0))
         /\ InsertAndRelocate(u, e, p0).last_affected = InsertEnd(u, p0)
  BY DEF InsertAndRelocate, InsertEnd, InsertChain, InsertFrom, InsertPlaced,
         InsertGrown, InsertSlots

(* The relocation ends at the first empty slot, or past the last slot. *)
LEMMA InsertEnds ==
  ASSUME NEW u, Shaped(u), NEW p0 \in 0 .. Capacity(u)
  PROVE  /\ InsertEnd(u, p0) \in p0 .. Capacity(u)
         /\ \A p \in p0 .. InsertEnd(u, p0) - 1 : ~ Empty(u, p)
         /\ InsertEnd(u, p0) < Capacity(u) => Empty(u, InsertEnd(u, p0))
<1>1. Capacity(u) \in Nat \ {0}
  BY ShapedFacts
<1> DEFINE S == {i \in p0 .. Capacity(u) : i = Capacity(u) \/ Empty(u, i)}
<1>2. InsertEnd(u, p0) = IF p0 >= Capacity(u) THEN p0 ELSE Min(S)
  BY DEF InsertEnd, First
<1>3. CASE p0 >= Capacity(u)
  <2>1. InsertEnd(u, p0) = p0 /\ p0 = Capacity(u) /\ p0 \in Int
    BY <1>1, <1>2, <1>3
  <2> QED
    BY <1>1, <2>1
<1>4. CASE ~ (p0 >= Capacity(u))
  <2>1. S \subseteq Int /\ Capacity(u) \in S /\ p0 \in Int /\ \A x \in S : p0 <= x
    BY <1>1, <1>4
  <2> HIDE DEF S
  <2>2. Min(S) \in S /\ Min(S) \in Int /\ \A x \in S : Min(S) <= x
    BY <2>1, LeastOf
  <2>3. InsertEnd(u, p0) = Min(S)
    BY <1>2, <1>4
  <2>4. Min(S) \in p0 .. Capacity(u) /\ (Min(S) = Capacity(u) \/ Empty(u, Min(S)))
    BY <2>2 DEF S
  <2>5. \A p \in p0 .. Min(S) - 1 : ~ Empty(u, p)
    <3> TAKE p \in p0 .. Min(S) - 1
    <3>1. p \notin S /\ p \in p0 .. Capacity(u)
      BY <1>1, <2>2, <2>4
    <3> QED
      BY <3>1 DEF S
  <2> QED
    BY <1>1, <2>3, <2>4, <2>5
<1> QED
  BY <1>3, <1>4

(* The entry that goes to p comes from the last link before p; the entries *)
(* in between stay where they are, for they have its bucket.               *)
LEMMA InsertComesFrom ==
  ASSUME NEW u, Shaped(u), NEW p0 \in 0 .. Capacity(u),
         NEW p \in p0 + 1 .. InsertEnd(u, p0)
  PROVE  /\ InsertFrom(u, p0, p) \in p0 .. p - 1
         /\ u.table[InsertFrom(u, p0, p)] \in AnyCell
         /\ BucketByPosition(u, InsertFrom(u, p0, p)) = BucketByPosition(u, p - 1)
<1> DEFINE E == InsertEnd(u, p0)
           S == {q \in InsertChain(u, p0) : q < p}
           f == Max(S)
<1>1. Capacity(u) \in Nat \ {0} /\ E \in p0 .. Capacity(u) /\ \A q \in p0 .. E - 1 : ~ Empty(u, q)
  BY ShapedFacts, InsertEnds
<1>2. /\ p0 \in Nat /\ p \in Nat /\ p0 < p /\ p <= E /\ E \in Nat
      /\ p0 \in S /\ S \subseteq Int /\ \A x \in S : x <= p
  BY <1>1 DEF InsertChain
<1> HIDE DEF E, S
<1>3. f \in S /\ f \in Int /\ \A x \in S : x <= f
  <2>1. p \in Int /\ S \subseteq Int /\ S # {} /\ \A x \in S : x <= p
    BY <1>2
  <2> QED
    BY <2>1, GreatestOf
<1>4. f \in p0 .. p - 1
  <2>1. p0 <= f
    BY <1>2, <1>3
  <2>2. f < p
    BY <1>3 DEF S
  <2> QED
    BY <1>2, <1>3, <2>1, <2>2
<1>5. f = InsertFrom(u, p0, p)
  BY DEF S, InsertFrom
<1> HIDE DEF f
<1>6. ~ Empty(u, f) /\ f \in 0 .. Capacity(u) - 1
  BY <1>1, <1>2, <1>4
<1>7. u.table[f] \in AnyCell
  BY <1>6, ShapedFacts
<1>8. \A q \in f + 1 .. p - 1 : BucketByPosition(u, q) = BucketByPosition(u, q - 1)
  <2> TAKE q \in f + 1 .. p - 1
  <2>1. q \in p0 + 1 .. E /\ q < p /\ q \in Int /\ ~ (q <= f)
    BY <1>1, <1>2, <1>4
  <2>2. q \notin S
    BY <1>3, <2>1
  <2>3. q \notin InsertChain(u, p0)
    BY <2>1, <2>2 DEF S
  <2> QED
    BY <2>1, <2>3 DEF InsertChain, E
<1> DEFINE T == {n \in Nat : f + n < p => BucketByPosition(u, f + n) = BucketByPosition(u, f)}
<1>9. 0 \in T
  BY <1>4
<1>10. ASSUME NEW n \in Nat, n \in T PROVE n + 1 \in T
  <2> SUFFICES ASSUME f + (n + 1) < p
               PROVE  BucketByPosition(u, f + (n + 1)) = BucketByPosition(u, f)
    OBVIOUS
  <2>1. f + (n + 1) \in f + 1 .. p - 1 /\ (f + (n + 1)) - 1 = f + n /\ f + n < p
    BY <1>2, <1>4
  <2> QED
    BY <1>8, <1>10, <2>1
<1> HIDE DEF T
<1>11. \A n \in Nat : n \in T
  BY <1>9, <1>10, SetInduction
<1>12. (p - 1) - f \in Nat /\ f + ((p - 1) - f) = p - 1 /\ p - 1 < p
  BY <1>2, <1>4
<1>13. BucketByPosition(u, p - 1) = BucketByPosition(u, f)
  <2>1. (p - 1) - f \in T
    BY <1>11, <1>12
  <2> QED
    BY <1>12, <2>1 DEF T
<1> QED
  BY <1>4, <1>5, <1>7, <1>13

(* The table after the insertion: the buckets from p0 on move one slot up. *)
LEMMA InsertShifts ==
  ASSUME NEW u, Shaped(u), NEW p0 \in 0 .. Capacity(u), NEW e \in AnyCell,
         NEW r, r = InsertAndRelocate(u, e, p0).t, NEW E, E = InsertEnd(u, p0)
  PROVE  /\ Shaped(r)
         /\ r.log2_buckets = (IF E = Capacity(u) THEN u.log2_buckets + 1 ELSE u.log2_buckets)
         /\ r.remap_end = (IF E = Capacity(u) THEN Capacity(u) ELSE u.remap_end)
         /\ Capacity(r) \in Nat /\ Capacity(u) <= Capacity(r)
         /\ E \in p0 .. Capacity(u) /\ E < Capacity(r)
         /\ r.table[p0] = e
         /\ \A p \in 0 .. Capacity(u) - 1 : p < p0 \/ E < p => r.table[p] = u.table[p]
         /\ \A p \in Capacity(u) .. Capacity(r) - 1 : E < p => Empty(r, p)
         /\ \A p \in p0 + 1 .. E :
              /\ r.table[p] \in AnyCell
              /\ BucketByPosition(r, p) = BucketByPosition(u, p - 1)
<1> DEFINE g == InsertGrown(u, p0)
           c == Capacity(u)
           d == Capacity(g)
           f == InsertSlots(u, e, p0)
<1>1. c \in Nat \ {0} /\ u.log2_buckets \in Nat /\ \A p \in 0 .. c - 1 : u.table[p] \in Slot
  BY ShapedFacts
<1>2. E \in p0 .. c /\ (\A p \in p0 .. E - 1 : ~ Empty(u, p)) /\ (E < c => Empty(u, E))
  BY InsertEnds
<1>3. /\ Shaped(g)
      /\ g.log2_buckets = IF E = c THEN u.log2_buckets + 1 ELSE u.log2_buckets
      /\ g.remap_end = IF E = c THEN c ELSE u.remap_end
      /\ d \in Nat /\ c <= d /\ E < d
      /\ \A p \in 0 .. c - 1 : g.table[p] = u.table[p]
      /\ \A p \in c .. d - 1 : Empty(g, p)
  <2>1. CASE E = c
    <3>1. g = SizeUp(u)
      BY <2>1 DEF InsertGrown
    <3>2. Shaped(g) /\ d >= c + 2 /\ d \in Nat
      BY <3>1, SizeUpShaped, ShapedFacts
    <3> QED
      BY <1>1, <1>2, <2>1, <3>1, <3>2, SizeUpShaped
  <2>2. CASE E # c
    <3>1. g = u
      BY <2>2 DEF InsertGrown
    <3> QED
      BY <1>1, <1>2, <2>2, <3>1
  <2> QED
    BY <2>1, <2>2
<1>4. DOMAIN g.table = 0 .. d - 1 /\ (\A p \in 0 .. d - 1 : g.table[p] \in Slot) /\ d = CapacityOf(g.log2_buckets)
  BY <1>3, ShapedFacts
<1>5. r = [g EXCEPT !.table = f]
  BY InsertForm
<1>6. f = [p \in 0 .. d - 1 |-> IF p \in InsertChain(u, p0) THEN InsertPlaced(u, e, p0, p)
                                ELSE g.table[p]]
  BY <1>4 DEF InsertSlots
<1> HIDE DEF f, g, c, d
<1>7. /\ p0 \in InsertChain(u, p0)
      /\ \A p : p \in InsertChain(u, p0) => p \in p0 .. E
      /\ \A p \in p0 + 1 .. E :
           p \notin InsertChain(u, p0) =>
             p # E /\ BucketByPosition(u, p) = BucketByPosition(u, p - 1)
  BY <1>1, <1>2 DEF InsertChain
<1>8. \A p \in p0 + 1 .. E :
         /\ InsertPlaced(u, e, p0, p) \in AnyCell
         /\ p - InsertPlaced(u, e, p0, p).distance = BucketByPosition(u, p - 1)
  <2> TAKE p \in p0 + 1 .. E
  <2> DEFINE q == InsertFrom(u, p0, p)
  <2>1. q \in p0 .. p - 1 /\ u.table[q] \in AnyCell
        /\ BucketByPosition(u, q) = BucketByPosition(u, p - 1)
    BY InsertComesFrom
  <2>2. InsertPlaced(u, e, p0, p) = [u.table[q] EXCEPT !.distance = @ + p - q]
    BY <1>1, <1>2 DEF InsertPlaced
  <2> HIDE DEF q
  <2>3. p \in Int /\ q \in Int
    BY <1>1, <1>2, <2>1
  <2>4. InsertPlaced(u, e, p0, p) \in AnyCell
        /\ InsertPlaced(u, e, p0, p).distance = u.table[q].distance + p - q
        /\ u.table[q].distance \in Int
    BY <2>1, <2>2, <2>3 DEF AnyCell
  <2>5. p - InsertPlaced(u, e, p0, p).distance = BucketByPosition(u, q)
    BY <2>3, <2>4 DEF BucketByPosition
  <2> QED
    BY <2>1, <2>4, <2>5
<1>9. InsertPlaced(u, e, p0, p0) = e
  BY DEF InsertPlaced
<1>10. f \in Arrays(g.log2_buckets)
  <2>1. \A p \in 0 .. d - 1 : f[p] \in Slot
    <3> TAKE p \in 0 .. d - 1
    <3>1. CASE p \in InsertChain(u, p0)
      <4>1. p = p0 \/ p \in p0 + 1 .. E
        BY <1>1, <1>2, <1>7, <3>1
      <4>2. InsertPlaced(u, e, p0, p) \in AnyCell
        BY <1>8, <1>9, <4>1
      <4> QED
        BY <1>6, <3>1, <4>2 DEF Slot
    <3>2. CASE p \notin InsertChain(u, p0)
      BY <1>4, <1>6, <3>2
    <3> QED
      BY <3>1, <3>2
  <2>2. f = [p \in 0 .. d - 1 |-> f[p]]
    BY <1>6
  <2> QED
    BY <1>4, <2>1, <2>2 DEF Arrays
<1>11. /\ Shaped(r) /\ r.table = f
       /\ r.log2_buckets = g.log2_buckets /\ r.remap_end = g.remap_end
  BY <1>3, <1>5, <1>10, WithTable
<1>12. Capacity(r) = d
  BY <1>4, <1>11, ShapedFacts
<1>13. r.table[p0] = e
  BY <1>1, <1>2, <1>3, <1>6, <1>7, <1>9, <1>11
<1>14. \A p \in 0 .. d - 1 : p < p0 \/ E < p => r.table[p] = g.table[p]
  <2> TAKE p \in 0 .. d - 1
  <2> HAVE p < p0 \/ E < p
  <2>1. p \notin p0 .. E
    BY <1>1, <1>2
  <2> QED
    BY <1>6, <1>7, <1>11, <2>1
<1>15. \A p \in 0 .. c - 1 : p < p0 \/ E < p => r.table[p] = u.table[p]
  BY <1>1, <1>3, <1>14
<1>16. \A p \in c .. d - 1 : E < p => Empty(r, p)
  BY <1>1, <1>3, <1>14 DEF Empty
<1>17. ASSUME NEW p \in p0 + 1 .. E
       PROVE  r.table[p] \in AnyCell /\ BucketByPosition(r, p) = BucketByPosition(u, p - 1)
  <2>1. p \in 0 .. d - 1
    BY <1>1, <1>2, <1>3
  <2>2. CASE p \in InsertChain(u, p0)
    <3>1. r.table[p] = InsertPlaced(u, e, p0, p)
      BY <1>6, <1>11, <2>1, <2>2
    <3> QED
      BY <1>8, <3>1 DEF BucketByPosition
  <2>3. CASE p \notin InsertChain(u, p0)
    <3>1. p \in 0 .. c - 1 /\ p \in p0 .. E - 1 /\ BucketByPosition(u, p) = BucketByPosition(u, p - 1)
      BY <1>1, <1>2, <1>7, <2>3
    <3>2. r.table[p] = u.table[p]
      BY <1>3, <1>6, <1>11, <2>1, <2>3, <3>1
    <3>3. u.table[p] \in AnyCell
      BY <1>2, <3>1, ShapedFacts DEF c
    <3> QED
      BY <3>1, <3>2, <3>3 DEF BucketByPosition
  <2> QED
    BY <2>2, <2>3
<1> QED
  BY <1>2, <1>3, <1>11, <1>12, <1>13, <1>15, <1>16, <1>17 DEF c, d

(* Insertion behind the entries of its bucket keeps the clusters. *)
LEMMA InsertPacked ==
  ASSUME NEW u, Shaped(u), NEW p0 \in 0 .. Capacity(u), NEW e \in AnyCell,
         NEW r, r = InsertAndRelocate(u, e, p0).t, NEW E, E = InsertEnd(u, p0),
         Packed(u), Fits(r),
         NEW b \in 0 .. p0, e.distance = p0 - b,
         \A q \in b .. p0 - 1 : q \in Occupied(u) /\ BucketByPosition(u, q) <= b,
         p0 \in Occupied(u) => b < BucketByPosition(u, p0)
  PROVE  /\ Packed(r)
         /\ Occupied(r) = Occupied(u) \cup {E}
         /\ E \notin Occupied(u)
<1> DEFINE c == Capacity(u)
           d == Capacity(r)
           B(p) == BucketByPosition(u, p)
           N(p) == BucketByPosition(r, p)
<1>1. /\ c \in Nat \ {0} /\ Occupied(u) \subseteq 0 .. c - 1
      /\ \A p \in 0 .. c - 1 : p \in Occupied(u) <=> ~ Empty(u, p)
  BY ShapedFacts
<1>2. /\ E \in p0 .. c
      /\ (\A p \in p0 .. E - 1 : ~ Empty(u, p)) /\ (E < c => Empty(u, E))
  BY InsertEnds
<1>3. /\ Shaped(r) /\ d \in Nat /\ c <= d /\ E < d
      /\ r.table[p0] = e
      /\ \A p \in 0 .. c - 1 : p < p0 \/ E < p => r.table[p] = u.table[p]
      /\ \A p \in c .. d - 1 : E < p => Empty(r, p)
      /\ \A p \in p0 + 1 .. E : r.table[p] \in AnyCell /\ N(p) = B(p - 1)
  BY InsertShifts
<1>4. d <= TOO_FAR_TO_REACH /\ TOO_FAR_TO_REACH \in Nat
  BY <1>3, ShapedFacts, TooFar DEF Fits
<1>5. \A p \in 0 .. d - 1 : p \in Occupied(r) <=> ~ Empty(r, p)
  BY <1>3, ShapedFacts
<1>6. Occupied(r) \subseteq 0 .. d - 1
  BY <1>3, ShapedFacts
<1>7. \A p \in p0 .. E - 1 : p \in Occupied(u)
  BY <1>1, <1>2
<1>8. \A p \in Occupied(u) : B(p) \in 0 .. p /\ \A q \in B(p) .. p : q \in Occupied(u) /\ B(q) <= B(p)
  BY DEF Packed
<1>9. E \notin Occupied(u)
  BY <1>1, <1>2
<1> HIDE DEF c, d
<1>10. N(p0) = b
  BY <1>1, <1>3 DEF BucketByPosition
<1>11. \A p \in 0 .. c - 1 : p < p0 \/ E < p => N(p) = B(p) /\ (Empty(r, p) <=> Empty(u, p))
  BY <1>3 DEF BucketByPosition, Empty
<1>12. \A p \in p0 .. E : p \in Occupied(r)
  <2> TAKE p \in p0 .. E
  <2>1. p \in 0 .. d - 1
    BY <1>1, <1>2, <1>3
  <2>2. r.table[p].distance \in 0 .. p
    <3>1. CASE p = p0
      BY <1>1, <1>3, <3>1
    <3>2. CASE p # p0
      <4>1. p \in p0 + 1 .. E /\ p - 1 \in p0 .. E - 1
        BY <1>1, <1>2, <3>2
      <4>2. N(p) = B(p - 1) /\ r.table[p].distance \in Int
        BY <1>3, <4>1 DEF AnyCell
      <4>3. B(p - 1) \in 0 .. p - 1
        BY <1>7, <1>8, <4>1
      <4>4. p - r.table[p].distance \in 0 .. p - 1
        BY <4>2, <4>3 DEF BucketByPosition
      <4> HIDE DEF N, B
      <4> QED
        BY <4>2, <4>4, <1>1, <2>1
    <3> QED
      BY <3>1, <3>2
  <2>3. r.table[p].distance # TOO_FAR_TO_REACH
    BY <1>3, <1>4, <2>1, <2>2
  <2> QED
    BY <1>5, <2>1, <2>3 DEF Empty
<1>13. \A p \in 0 .. c - 1 : p < p0 \/ E < p => (p \in Occupied(r) <=> p \in Occupied(u))
  BY <1>1, <1>3, <1>5, <1>11
<1>14. \A p \in 0 .. d - 1 :
         \/ p \in p0 .. E
         \/ p \in 0 .. c - 1 /\ (p < p0 \/ E < p)
         \/ E < p /\ p \in c .. d - 1
  BY <1>1, <1>2, <1>3
<1>15. Occupied(r) = Occupied(u) \cup {E}
  <2>1. ASSUME NEW p \in Occupied(r) PROVE p \in Occupied(u) \cup {E}
    <3>1. p \in 0 .. d - 1
      BY <1>6
    <3>2. CASE p \in p0 .. E
      <4>1. p = E \/ p \in p0 .. E - 1
        BY <1>1, <1>2, <3>2
      <4> QED
        BY <1>7, <4>1
    <3>3. CASE p \in 0 .. c - 1 /\ (p < p0 \/ E < p)
      BY <1>13, <3>3
    <3>4. CASE E < p /\ p \in c .. d - 1
      BY <1>3, <1>5, <3>1, <3>4
    <3> QED
      BY <1>14, <3>1, <3>2, <3>3, <3>4
  <2>2. ASSUME NEW p \in Occupied(u) PROVE p \in Occupied(r)
    <3>1. p \in 0 .. c - 1
      BY <1>1
    <3>2. p \in p0 .. E \/ p < p0 \/ E < p
      BY <1>1, <1>2, <3>1
    <3> QED
      BY <1>12, <1>13, <3>1, <3>2
  <2>3. E \in Occupied(r)
    BY <1>1, <1>2, <1>12
  <2> QED
    BY <2>1, <2>2, <2>3
<1> HIDE DEF N, B
<1>16. ASSUME NEW p \in Occupied(r)
       PROVE  N(p) \in 0 .. p /\ \A q \in N(p) .. p : q \in Occupied(r) /\ N(q) <= N(p)
  <2>1. p \in 0 .. d - 1
    BY <1>6
  <2>2. CASE p < p0
    <3>1. p \in 0 .. c - 1 /\ p \in Occupied(u)
      BY <1>1, <1>2, <1>13, <2>1, <2>2
    <3>2. B(p) \in 0 .. p /\ \A q \in B(p) .. p : q \in Occupied(u) /\ B(q) <= B(p)
      BY <1>8, <3>1
    <3>3. N(p) = B(p)
      BY <1>11, <2>2, <3>1
    <3>4. ASSUME NEW q \in B(p) .. p PROVE q \in Occupied(r) /\ N(q) = B(q)
      <4>1. q < p0 /\ q \in 0 .. c - 1
        BY <1>1, <2>2, <3>1, <3>2
      <4> QED
        BY <1>11, <1>15, <3>2, <4>1
    <3> QED
      BY <3>2, <3>3, <3>4
  <2>3. CASE p = p0
    <3>1. b \in Int /\ p0 \in Int
      BY <1>1
    <3>2. ASSUME NEW q \in b .. p0 PROVE q \in Occupied(r) /\ N(q) <= b
      <4>1. CASE q = p0
        BY <1>2, <1>10, <1>12, <3>1, <4>1
      <4>2. CASE q # p0
        <5>1. q \in b .. p0 - 1
          BY <3>1, <4>2
        <5>2. q \in Occupied(u) /\ B(q) <= b
          BY <5>1 DEF B
        <5>3. q \in 0 .. c - 1 /\ q < p0
          BY <1>1, <5>1, <5>2
        <5> QED
          BY <1>11, <1>15, <5>2, <5>3
      <4> QED
        BY <4>1, <4>2
    <3> QED
      BY <1>10, <2>3, <3>2
  <2>4. CASE p \in p0 + 1 .. E
    <3>1. p - 1 \in p0 .. E - 1 /\ p \in Int /\ p0 \in Int /\ E \in Int
      BY <1>1, <1>2, <2>4
    <3>2. p - 1 \in Occupied(u)
      BY <1>7, <3>1
    <3> DEFINE m == B(p - 1)
    <3>3. m \in 0 .. p - 1 /\ \A q \in m .. p - 1 : q \in Occupied(u) /\ B(q) <= m
      BY <1>8, <3>2
    <3>4. N(p) = m
      BY <1>3, <2>4 DEF N, B
    <3> HIDE DEF m
    <3>5. ASSUME NEW q \in m .. p PROVE q \in Occupied(r) /\ N(q) <= m
      <4>0. q \in Int /\ m \in Int
        BY <3>1, <3>3
      <4>1. CASE q < p0
        <5>1. q \in m .. p - 1
          BY <3>1, <3>3, <4>0, <4>1
        <5>2. q \in Occupied(u) /\ B(q) <= m
          BY <3>3, <5>1
        <5>3. q \in 0 .. c - 1
          BY <1>1, <5>2
        <5> QED
          BY <1>11, <1>15, <4>1, <5>2, <5>3
      <4>2. CASE q = p0
        <5>1. p0 \in m .. p - 1
          BY <3>1, <3>3, <4>0, <4>2
        <5>2. p0 \in Occupied(u) /\ B(p0) <= m
          BY <3>3, <5>1
        <5>3. b < B(p0) /\ B(p0) \in Int /\ b \in Int
          BY <1>1, <1>8, <5>2 DEF B
        <5>4. p0 \in Occupied(r)
          BY <1>15, <5>2
        <5> QED
          BY <1>10, <4>0, <4>2, <5>2, <5>3, <5>4
      <4>3. CASE p0 < q
        <5>1. q \in p0 + 1 .. E /\ q \in p0 .. E /\ q - 1 \in p0 .. E - 1
          BY <3>1, <3>3, <4>0, <4>3
        <5>2. q \in Occupied(r) /\ N(q) = B(q - 1)
          BY <1>3, <1>12, <5>1 DEF N, B
        <5>3. B(q - 1) <= m
          <6>1. CASE q = m
            <7>1. B(q - 1) \in 0 .. q - 1
              BY <1>7, <1>8, <5>1
            <7> QED
              BY <4>0, <6>1, <7>1
          <6>2. CASE q # m
            <7>1. q - 1 \in m .. p - 1
              BY <3>1, <3>3, <4>0, <6>2
            <7> QED
              BY <3>3, <7>1
          <6> QED
            BY <6>1, <6>2
        <5> QED
          BY <5>2, <5>3
      <4> QED
        BY <3>1, <4>0, <4>1, <4>2, <4>3
    <3>6. m \in 0 .. p
      BY <3>1, <3>3
    <3> QED
      BY <3>4, <3>5, <3>6
  <2>5. CASE E < p
    <3>0. p \in Occupied(u) /\ p \in 0 .. c - 1 /\ p \in Int /\ E \in Int
      BY <1>1, <1>2, <1>15, <2>1, <2>5
    <3>1. B(p) \in 0 .. p /\ \A q \in B(p) .. p : q \in Occupied(u) /\ B(q) <= B(p)
      BY <1>8, <3>0
    <3>2. E < B(p)
      <4>1. E \notin B(p) .. p
        BY <1>9, <3>1
      <4>2. B(p) \in Int
        BY <3>0, <3>1
      <4> QED
        BY <2>5, <3>0, <4>1, <4>2
    <3>3. N(p) = B(p)
      BY <1>11, <2>5, <3>0
    <3>4. ASSUME NEW q \in B(p) .. p PROVE q \in Occupied(r) /\ N(q) = B(q)
      <4>1. E < q /\ q \in 0 .. c - 1
        BY <1>1, <3>0, <3>1, <3>2
      <4> QED
        BY <1>11, <1>15, <3>1, <4>1
    <3> QED
      BY <3>1, <3>3, <3>4
  <2>6. p < p0 \/ p = p0 \/ p \in p0 + 1 .. E \/ E < p
    BY <1>1, <1>2, <2>1
  <2> QED
    BY <2>2, <2>3, <2>4, <2>5, <2>6
<1>17. Packed(r)
  BY <1>16 DEF Packed, N
<1> QED
  BY <1>9, <1>15, <1>17

(* Every entry that was there is still there, and the new one is added. *)
LEMMA InsertEntries ==
  ASSUME NEW u, Shaped(u), NEW p0 \in 0 .. Capacity(u), NEW e \in AnyCell,
         NEW r, r = InsertAndRelocate(u, e, p0).t, NEW E, E = InsertEnd(u, p0),
         Occupied(r) = Occupied(u) \cup {E}, E \notin Occupied(u)
  PROVE  EntriesIn(r) = EntriesIn(u) \cup {<< e.key, e.value >>}
<1> DEFINE C == InsertChain(u, p0)
           c == Capacity(u)
           g == InsertGrown(u, p0)
           F(p) == InsertFrom(u, p0, p)
           Pair(x) == << x.key, x.value >>
<1>1. /\ c \in Nat \ {0} /\ Occupied(u) \subseteq 0 .. c - 1
      /\ \A p \in 0 .. c - 1 : p \in Occupied(u) <=> ~ Empty(u, p)
  BY ShapedFacts
<1>2. E \in p0 .. c /\ \A p \in p0 .. E - 1 : ~ Empty(u, p)
  BY InsertEnds
<1>3. p0 \in C /\ E \in C /\ C \subseteq p0 .. E
  BY <1>1, <1>2 DEF InsertChain
<1>4. Shaped(g) /\ \A p \in 0 .. c - 1 : g.table[p] = u.table[p]
  BY SizeUpShaped DEF InsertGrown
<1>5. Shaped(r) /\ r.table = InsertSlots(u, e, p0) /\ DOMAIN r.table = DOMAIN g.table
  <2>1. r = [g EXCEPT !.table = InsertSlots(u, e, p0)]
    BY InsertForm
  <2>2. r.table = InsertSlots(u, e, p0)
    BY <1>4, <2>1 DEF Shaped
  <2>3. DOMAIN InsertSlots(u, e, p0) = DOMAIN g.table
    BY DEF InsertSlots
  <2>4. Shaped(r)
    BY InsertShifts
  <2> QED
    BY <2>2, <2>3, <2>4
<1>6. \A p \in Occupied(r) : r.table[p] = IF p \in C THEN InsertPlaced(u, e, p0, p) ELSE g.table[p]
  <2>1. \A p \in Occupied(r) : p \in DOMAIN g.table
    BY <1>5 DEF Occupied
  <2> QED
    BY <1>5, <2>1 DEF InsertSlots
<1> HIDE DEF C, g, c, F
<1>7. \A p \in p0 .. E - 1 : p \in Occupied(u)
  BY <1>1, <1>2
<1>8. ASSUME NEW p \in C, p # p0
      PROVE  /\ p \in Occupied(r) /\ F(p) \in p0 .. p - 1 /\ F(p) \in Occupied(u)
             /\ Pair(r.table[p]) = Pair(u.table[F(p)])
  <2>1. p \in p0 + 1 .. E
    BY <1>1, <1>2, <1>3, <1>8
  <2>2. F(p) \in p0 .. p - 1 /\ u.table[F(p)] \in AnyCell
    BY <2>1, InsertComesFrom DEF F
  <2>3. F(p) \in Occupied(u)
    BY <1>1, <1>2, <1>7, <2>1, <2>2
  <2>4. p \in Occupied(r)
    BY <1>1, <1>2, <1>7, <2>1
  <2>5. r.table[p] = [u.table[F(p)] EXCEPT !.distance = @ + p - F(p)]
    BY <1>6, <1>8, <2>4 DEF InsertPlaced, F
  <2>6. r.table[p].key = u.table[F(p)].key /\ r.table[p].value = u.table[F(p)].value
    BY <2>2, <2>5 DEF AnyCell
  <2> QED
    BY <2>2, <2>3, <2>4, <2>6
<1>9. p0 \in Occupied(r) /\ r.table[p0] = e
  <2>1. p0 \in Occupied(r)
    BY <1>1, <1>2, <1>7
  <2> QED
    BY <1>3, <1>6, <2>1 DEF InsertPlaced
<1>10. ASSUME NEW p \in Occupied(r), p \notin C
       PROVE  p \in Occupied(u) /\ r.table[p] = u.table[p]
  <2>1. p \in Occupied(u)
    BY <1>3, <1>10
  <2> QED
    BY <1>1, <1>4, <1>6, <1>10, <2>1
<1>11. ASSUME NEW q \in Occupied(u), q \in C
       PROVE  \E p \in C : p # p0 /\ F(p) = q
  <2> DEFINE S == {x \in C : x > q}
             p == Min(S)
             T == {x \in C : x < p}
  <2>1. q \in p0 .. E /\ q # E /\ q \in Int /\ p0 \in Int /\ E \in Int /\ C \subseteq Int
    BY <1>1, <1>2, <1>3, <1>11
  <2>2. S \subseteq Int /\ E \in S /\ \A x \in S : q <= x
    <3>1. E \in C /\ E > q
      BY <1>3, <2>1
    <3> QED
      BY <2>1, <3>1, AboveAndBelow
  <2> HIDE DEF S
  <2>3. p \in S /\ p \in Int /\ \A x \in S : p <= x
    BY <2>1, <2>2, LeastOf
  <2> HIDE DEF p
  <2>4. p \in C /\ p > q
    BY <2>3 DEF S
  <2>5. p # p0
    BY <2>1, <2>3, <2>4
  <2>6. T \subseteq Int /\ q \in T /\ \A x \in T : x <= p
    <3>1. q \in C /\ q < p
      BY <1>11, <2>1, <2>3, <2>4
    <3> QED
      BY <2>1, <2>3, <3>1, AboveAndBelow
  <2>7. \A x \in T : x <= q
    <3> TAKE x \in T
    <3>1. x \in C /\ x < p /\ x \in Int
      BY <2>1
    <3>2. x > q => x \in S
      BY <3>1 DEF S
    <3> QED
      BY <2>1, <2>3, <3>1, <3>2
  <2> HIDE DEF T
  <2>8. Max(T) \in T /\ Max(T) \in Int /\ \A x \in T : x <= Max(T)
    BY <2>3, <2>6, GreatestOf
  <2>9. Max(T) = q
    BY <2>1, <2>6, <2>7, <2>8
  <2>10. F(p) = q
    BY <2>9 DEF F, InsertFrom, T, C
  <2> QED
    BY <2>4, <2>5, <2>10
<1> HIDE DEF Pair
<1>12. \A p \in Occupied(r) : Pair(r.table[p]) = Pair(e) \/ \E q \in Occupied(u) : Pair(r.table[p]) = Pair(u.table[q])
  BY <1>8, <1>9, <1>10
<1>13. \A q \in Occupied(u) : \E p \in Occupied(r) : Pair(r.table[p]) = Pair(u.table[q])
  <2> TAKE q \in Occupied(u)
  <2>1. CASE q \in C
    BY <1>8, <1>11, <2>1
  <2>2. CASE q \notin C
    BY <1>10, <2>2
  <2> QED
    BY <2>1, <2>2
<1>14. EntriesIn(r) = {Pair(r.table[p]) : p \in Occupied(r)} /\ EntriesIn(u) = {Pair(u.table[p]) : p \in Occupied(u)}
  BY DEF EntriesIn, Pair
<1>15. EntriesIn(r) = EntriesIn(u) \cup {Pair(e)}
  BY <1>9, <1>12, <1>13, <1>14
<1> QED
  BY <1>15 DEF Pair

-----------------------------------------------------------------------------
(* Removal: the parts of RemoveAndRelocate, by name. *)

RemoveEnd(u, p0) ==
  First(p0, Capacity(u) - 1, LAMBDA q : Empty(u, q + 1) \/ u.table[q + 1].distance = 0)

RemoveChain(u, p0) ==
  {p0} \cup {q \in p0 + 1 .. RemoveEnd(u, p0) :
               q = RemoveEnd(u, p0) \/ BucketByPosition(u, q + 1) # BucketByPosition(u, q)}

RemoveFrom(u, p0, p) == Min({q \in RemoveChain(u, p0) : q > p})

RemoveFilled(u, p0, p) ==
  IF p = RemoveEnd(u, p0)
  THEN EmptySlot
  ELSE [u.table[RemoveFrom(u, p0, p)] EXCEPT !.distance = @ - (RemoveFrom(u, p0, p) - p)]

RemoveSlots(u, p0) ==
  [p \in DOMAIN u.table |->
     IF p \in RemoveChain(u, p0) THEN RemoveFilled(u, p0, p) ELSE u.table[p]]

LEMMA RemoveForm ==
  ASSUME NEW u, NEW p0
  PROVE  /\ RemoveAndRelocate(u, p0).t = [u EXCEPT !.table = RemoveSlots(u, p0)]
         /\ RemoveAndRelocate(u, p0).entry = u.table[p0]
         /\ RemoveAndRelocate(u, p0).last_affected = RemoveEnd(u, p0)
  BY DEF RemoveAndRelocate, RemoveEnd, RemoveChain, RemoveFrom, RemoveFilled, RemoveSlots

(* The shift ends before an empty slot or an entry in its own bucket. *)
LEMMA RemoveEnds ==
  ASSUME NEW u, Shaped(u), NEW p0 \in 0 .. Capacity(u) - 1
  PROVE  /\ RemoveEnd(u, p0) \in p0 .. Capacity(u) - 1
         /\ \A p \in p0 + 1 .. RemoveEnd(u, p0) : ~ Empty(u, p) /\ u.table[p].distance # 0
         /\ RemoveEnd(u, p0) < Capacity(u) - 1 =>
              \/ Empty(u, RemoveEnd(u, p0) + 1)
              \/ u.table[RemoveEnd(u, p0) + 1].distance = 0
<1> DEFINE h == Capacity(u) - 1
           Stop(q) == Empty(u, q + 1) \/ u.table[q + 1].distance = 0
           S == {i \in p0 .. h : i = h \/ Stop(i)}
<1>1. Capacity(u) \in Nat \ {0} /\ h \in Int /\ p0 \in Int /\ p0 <= h
  BY ShapedFacts
<1>2. RemoveEnd(u, p0) = IF p0 >= h THEN p0 ELSE Min(S)
  BY DEF RemoveEnd, First
<1> HIDE DEF h
<1>3. CASE p0 >= h
  <2>1. RemoveEnd(u, p0) = p0 /\ p0 = h
    BY <1>1, <1>2, <1>3
  <2> QED
    BY <1>1, <2>1 DEF h
<1>4. CASE ~ (p0 >= h)
  <2>1. S \subseteq Int /\ h \in S /\ \A x \in S : p0 <= x
    BY <1>1, <1>4
  <2> HIDE DEF S
  <2>2. Min(S) \in S /\ Min(S) \in Int /\ \A x \in S : Min(S) <= x
    BY <1>1, <2>1, LeastOf
  <2>3. RemoveEnd(u, p0) = Min(S)
    BY <1>2, <1>4
  <2>4. Min(S) \in p0 .. h /\ (Min(S) = h \/ Stop(Min(S)))
    BY <2>2 DEF S
  <2>5. \A p \in p0 + 1 .. Min(S) : ~ Stop(p - 1) /\ (p - 1) + 1 = p
    <3> TAKE p \in p0 + 1 .. Min(S)
    <3>1. p - 1 \notin S /\ p - 1 \in p0 .. h /\ (p - 1) + 1 = p
      BY <1>1, <2>2, <2>4
    <3> HIDE DEF Stop
    <3> QED
      BY <3>1 DEF S
  <2> QED
    BY <1>1, <2>3, <2>4, <2>5 DEF h
<1> QED
  BY <1>3, <1>4

(* The entry that fills p is the next link's; up to it the bucket is the *)
(* one of the entry behind p.                                            *)
LEMMA RemoveComesFrom ==
  ASSUME NEW u, Shaped(u), NEW p0 \in 0 .. Capacity(u) - 1,
         NEW p \in p0 .. RemoveEnd(u, p0) - 1
  PROVE  /\ RemoveFrom(u, p0, p) \in p + 1 .. RemoveEnd(u, p0)
         /\ u.table[RemoveFrom(u, p0, p)] \in AnyCell
         /\ BucketByPosition(u, RemoveFrom(u, p0, p)) = BucketByPosition(u, p + 1)
<1> DEFINE E == RemoveEnd(u, p0)
           S == {q \in RemoveChain(u, p0) : q > p}
           f == Min(S)
<1>1. Capacity(u) \in Nat \ {0} /\ E \in p0 .. Capacity(u) - 1 /\ \A q \in p0 + 1 .. E : ~ Empty(u, q)
  BY ShapedFacts, RemoveEnds
<1>2. /\ p0 \in Nat /\ p \in Nat /\ p0 <= p /\ p < E /\ E \in Nat
      /\ E \in S /\ S \subseteq Int /\ \A x \in S : p <= x
  BY <1>1 DEF RemoveChain
<1> HIDE DEF E, S
<1>3. f \in S /\ f \in Int /\ \A x \in S : f <= x
  <2>1. p \in Int /\ S \subseteq Int /\ S # {} /\ \A x \in S : p <= x
    BY <1>2
  <2> QED
    BY <2>1, LeastOf
<1>4. f \in p + 1 .. E
  <2>1. f <= E
    BY <1>2, <1>3
  <2>2. p < f
    BY <1>2, <1>3 DEF S
  <2> QED
    BY <1>2, <1>3, <2>1, <2>2
<1>5. f = RemoveFrom(u, p0, p)
  BY DEF S, RemoveFrom
<1> HIDE DEF f
<1>6. ~ Empty(u, f) /\ f \in 0 .. Capacity(u) - 1
  BY <1>1, <1>2, <1>4
<1>7. u.table[f] \in AnyCell
  BY <1>6, ShapedFacts
<1>8. \A q \in p + 1 .. f - 1 : BucketByPosition(u, q + 1) = BucketByPosition(u, q)
  <2> TAKE q \in p + 1 .. f - 1
  <2>1. q \in p0 + 1 .. E /\ q > p /\ q \in Int /\ ~ (f <= q)
    BY <1>1, <1>2, <1>4
  <2>2. q \notin S
    BY <1>3, <2>1
  <2>3. q \notin RemoveChain(u, p0)
    BY <2>1, <2>2 DEF S
  <2> QED
    BY <2>1, <2>3 DEF RemoveChain, E
<1> DEFINE T == {n \in Nat : (p + 1) + n <= f =>
                   BucketByPosition(u, (p + 1) + n) = BucketByPosition(u, p + 1)}
<1>9. 0 \in T
  BY <1>2
<1>10. ASSUME NEW n \in Nat, n \in T PROVE n + 1 \in T
  <2> SUFFICES ASSUME (p + 1) + (n + 1) <= f
               PROVE  BucketByPosition(u, (p + 1) + (n + 1)) = BucketByPosition(u, p + 1)
    OBVIOUS
  <2>1. (p + 1) + n \in p + 1 .. f - 1 /\ (p + 1) + (n + 1) = ((p + 1) + n) + 1 /\ (p + 1) + n <= f
    BY <1>2, <1>4
  <2> QED
    BY <1>8, <1>10, <2>1
<1> HIDE DEF T
<1>11. \A n \in Nat : n \in T
  BY <1>9, <1>10, SetInduction
<1>12. f - (p + 1) \in Nat /\ (p + 1) + (f - (p + 1)) = f /\ f <= f
  BY <1>2, <1>4
<1>13. BucketByPosition(u, f) = BucketByPosition(u, p + 1)
  <2>1. f - (p + 1) \in T
    BY <1>11, <1>12
  <2> QED
    BY <1>12, <2>1 DEF T
<1> QED
  BY <1>4, <1>5, <1>7, <1>13 DEF E

(* The table after the removal: the buckets behind p0 move one slot down. *)
LEMMA RemoveShifts ==
  ASSUME NEW u, Shaped(u), NEW p0 \in 0 .. Capacity(u) - 1,
         NEW r, r = RemoveAndRelocate(u, p0).t, NEW E, E = RemoveEnd(u, p0)
  PROVE  /\ Shaped(r)
         /\ r.log2_buckets = u.log2_buckets
         /\ r.remap_end = u.remap_end
         /\ Capacity(r) = Capacity(u)
         /\ E \in p0 .. Capacity(u) - 1
         /\ Empty(r, E)
         /\ \A p \in 0 .. Capacity(u) - 1 : p < p0 \/ E < p => r.table[p] = u.table[p]
         /\ \A p \in p0 .. E - 1 :
              /\ r.table[p] \in AnyCell
              /\ BucketByPosition(r, p) = BucketByPosition(u, p + 1)
<1> DEFINE c == Capacity(u)
           f == RemoveSlots(u, p0)
<1>1. /\ c \in Nat \ {0} /\ u.log2_buckets \in Nat /\ c = CapacityOf(u.log2_buckets)
      /\ DOMAIN u.table = 0 .. c - 1 /\ \A p \in 0 .. c - 1 : u.table[p] \in Slot
  BY ShapedFacts
<1>2. E \in p0 .. c - 1 /\ \A p \in p0 + 1 .. E : ~ Empty(u, p)
  BY RemoveEnds
<1>3. r = [u EXCEPT !.table = f]
  BY RemoveForm
<1>4. f = [p \in 0 .. c - 1 |-> IF p \in RemoveChain(u, p0) THEN RemoveFilled(u, p0, p)
                                ELSE u.table[p]]
  BY <1>1 DEF RemoveSlots
<1> HIDE DEF f, c
<1>5. /\ p0 \in RemoveChain(u, p0) /\ E \in RemoveChain(u, p0)
      /\ \A p : p \in RemoveChain(u, p0) => p \in p0 .. E
      /\ \A p \in p0 + 1 .. E :
           p \notin RemoveChain(u, p0) =>
             p # E /\ BucketByPosition(u, p + 1) = BucketByPosition(u, p)
  BY <1>1, <1>2 DEF RemoveChain
<1>6. \A p \in p0 .. E - 1 :
         /\ RemoveFilled(u, p0, p) \in AnyCell
         /\ p - RemoveFilled(u, p0, p).distance = BucketByPosition(u, p + 1)
  <2> TAKE p \in p0 .. E - 1
  <2> DEFINE q == RemoveFrom(u, p0, p)
  <2>1. q \in p + 1 .. E /\ u.table[q] \in AnyCell
        /\ BucketByPosition(u, q) = BucketByPosition(u, p + 1)
    BY RemoveComesFrom
  <2>2. RemoveFilled(u, p0, p) = [u.table[q] EXCEPT !.distance = @ - (q - p)]
    BY <1>1, <1>2 DEF RemoveFilled
  <2> HIDE DEF q
  <2>3. p \in Int /\ q \in Int
    BY <1>1, <1>2, <2>1
  <2>4. RemoveFilled(u, p0, p) \in AnyCell
        /\ RemoveFilled(u, p0, p).distance = u.table[q].distance - (q - p)
        /\ u.table[q].distance \in Int
    BY <2>1, <2>2, <2>3 DEF AnyCell
  <2>5. p - RemoveFilled(u, p0, p).distance = BucketByPosition(u, q)
    BY <2>3, <2>4 DEF BucketByPosition
  <2> QED
    BY <2>1, <2>4, <2>5
<1>7. RemoveFilled(u, p0, E) = EmptySlot
  BY DEF RemoveFilled
<1>8. f \in Arrays(u.log2_buckets)
  <2>1. \A p \in 0 .. c - 1 : f[p] \in Slot
    <3> TAKE p \in 0 .. c - 1
    <3>1. CASE p \in RemoveChain(u, p0)
      <4>1. p = E \/ p \in p0 .. E - 1
        BY <1>1, <1>2, <1>5, <3>1
      <4>2. RemoveFilled(u, p0, p) \in Slot
        BY <1>6, <1>7, <4>1 DEF Slot
      <4> QED
        BY <1>4, <3>1, <4>2
    <3>2. CASE p \notin RemoveChain(u, p0)
      BY <1>1, <1>4, <3>2
    <3> QED
      BY <3>1, <3>2
  <2>2. f = [p \in 0 .. c - 1 |-> f[p]]
    BY <1>4
  <2> QED
    BY <1>1, <2>1, <2>2 DEF Arrays
<1>9. /\ Shaped(r) /\ r.table = f
      /\ r.log2_buckets = u.log2_buckets /\ r.remap_end = u.remap_end
  BY <1>3, <1>8, WithTable
<1>10. Capacity(r) = c
  BY <1>1, <1>9, ShapedFacts
<1>11. r.table[E] = EmptySlot
  BY <1>1, <1>2, <1>4, <1>5, <1>7, <1>9
<1>12. Empty(r, E)
  BY <1>11 DEF Empty, EmptySlot
<1>13. \A p \in 0 .. c - 1 : p < p0 \/ E < p => r.table[p] = u.table[p]
  <2> TAKE p \in 0 .. c - 1
  <2> HAVE p < p0 \/ E < p
  <2>1. p \notin p0 .. E
    BY <1>1, <1>2
  <2> QED
    BY <1>4, <1>5, <1>9, <2>1
<1>14. ASSUME NEW p \in p0 .. E - 1
       PROVE  r.table[p] \in AnyCell /\ BucketByPosition(r, p) = BucketByPosition(u, p + 1)
  <2>1. p \in 0 .. c - 1
    BY <1>1, <1>2
  <2>2. CASE p \in RemoveChain(u, p0)
    <3>1. r.table[p] = RemoveFilled(u, p0, p)
      BY <1>4, <1>9, <2>1, <2>2
    <3> QED
      BY <1>6, <3>1 DEF BucketByPosition
  <2>3. CASE p \notin RemoveChain(u, p0)
    <3>1. p \in p0 + 1 .. E
      BY <1>1, <1>2, <1>5, <2>3
    <3>2. r.table[p] = u.table[p]
      BY <1>4, <1>9, <2>1, <2>3
    <3>3. u.table[p] \in AnyCell
      BY <1>2, <2>1, <3>1, ShapedFacts DEF c
    <3> QED
      BY <1>5, <2>3, <3>1, <3>2, <3>3 DEF BucketByPosition
  <2> QED
    BY <2>2, <2>3
<1> QED
  BY <1>2, <1>9, <1>10, <1>12, <1>13, <1>14 DEF c

(* Removal keeps the clusters. *)
LEMMA RemovePacked ==
  ASSUME NEW u, Shaped(u), NEW p0 \in Occupied(u),
         NEW r, r = RemoveAndRelocate(u, p0).t, NEW E, E = RemoveEnd(u, p0),
         Packed(u), Fits(u)
  PROVE  /\ Packed(r)
         /\ Occupied(r) = Occupied(u) \ {E}
         /\ E \in Occupied(u)
<1> DEFINE c == Capacity(u)
           B(p) == BucketByPosition(u, p)
           N(p) == BucketByPosition(r, p)
<1>1. /\ c \in Nat \ {0} /\ Occupied(u) \subseteq 0 .. c - 1 /\ c = CapacityOf(u.log2_buckets)
      /\ \A p \in 0 .. c - 1 : p \in Occupied(u) <=> ~ Empty(u, p)
  BY ShapedFacts
<1>2. p0 \in 0 .. c - 1
  BY <1>1
<1>3. /\ E \in p0 .. c - 1
      /\ \A p \in p0 + 1 .. E : ~ Empty(u, p) /\ u.table[p].distance # 0
      /\ E < c - 1 => Empty(u, E + 1) \/ u.table[E + 1].distance = 0
  BY <1>2, RemoveEnds
<1>4. /\ Shaped(r) /\ Capacity(r) = c
      /\ Empty(r, E)
      /\ \A p \in 0 .. c - 1 : p < p0 \/ E < p => r.table[p] = u.table[p]
      /\ \A p \in p0 .. E - 1 : r.table[p] \in AnyCell /\ N(p) = B(p + 1)
  BY <1>2, RemoveShifts
<1>5. c <= TOO_FAR_TO_REACH /\ TOO_FAR_TO_REACH \in Nat
  BY <1>1, TooFar DEF Fits
<1>6. /\ \A p \in 0 .. c - 1 : p \in Occupied(r) <=> ~ Empty(r, p)
      /\ Occupied(r) \subseteq 0 .. c - 1
  BY <1>4, ShapedFacts
<1> HIDE DEF c
<1>7. \A p \in p0 .. E : p \in Occupied(u)
  BY <1>1, <1>2, <1>3
<1>8. \A p \in Occupied(u) : B(p) \in 0 .. p /\ \A q \in B(p) .. p : q \in Occupied(u) /\ B(q) <= B(p)
  BY DEF Packed
<1>9. \A p \in p0 .. E - 1 : B(p + 1) \in 0 .. p
  <2> TAKE p \in p0 .. E - 1
  <2>1. p + 1 \in p0 + 1 .. E /\ p + 1 \in Occupied(u) /\ p \in Int
    BY <1>1, <1>2, <1>3, <1>7
  <2>2. u.table[p + 1].distance # 0 /\ p + 1 \in 0 .. c - 1 /\ ~ Empty(u, p + 1)
    BY <1>1, <1>3, <2>1
  <2>3. u.table[p + 1].distance \in Int
    BY <2>2, ShapedFacts DEF c, AnyCell
  <2>4. (p + 1) - u.table[p + 1].distance \in 0 .. p + 1
    BY <1>8, <2>1 DEF BucketByPosition
  <2> QED
    BY <2>1, <2>2, <2>3, <2>4 DEF BucketByPosition
<1>10. \A p \in 0 .. c - 1 : p < p0 \/ E < p =>
         N(p) = B(p) /\ (p \in Occupied(r) <=> p \in Occupied(u))
  BY <1>1, <1>4, <1>6 DEF BucketByPosition, Empty
<1>11. \A p \in p0 .. E - 1 : p \in Occupied(r)
  <2> TAKE p \in p0 .. E - 1
  <2>1. p \in 0 .. c - 1
    BY <1>1, <1>2, <1>3
  <2>2. r.table[p].distance \in Int /\ p - r.table[p].distance \in 0 .. p
    BY <1>4, <1>9 DEF AnyCell, BucketByPosition
  <2>3. r.table[p].distance # TOO_FAR_TO_REACH
    BY <1>1, <1>5, <2>1, <2>2
  <2> QED
    BY <1>6, <2>1, <2>3 DEF Empty
<1>12. Occupied(r) = Occupied(u) \ {E}
  <2>1. ASSUME NEW p \in Occupied(r) PROVE p \in Occupied(u) /\ p # E
    <3>1. p \in 0 .. c - 1 /\ p # E
      BY <1>2, <1>3, <1>4, <1>6
    <3>2. p \in p0 .. E \/ p < p0 \/ E < p
      BY <1>1, <1>2, <1>3, <3>1
    <3> QED
      BY <1>7, <1>10, <3>1, <3>2
  <2>2. ASSUME NEW p \in Occupied(u), p # E PROVE p \in Occupied(r)
    <3>1. p \in 0 .. c - 1
      BY <1>1
    <3>2. p \in p0 .. E - 1 \/ p < p0 \/ E < p
      BY <1>1, <1>2, <1>3, <2>2, <3>1
    <3> QED
      BY <1>10, <1>11, <3>1, <3>2
  <2> QED
    BY <2>1, <2>2
<1>13. E \in Occupied(u)
  BY <1>1, <1>2, <1>3, <1>7
<1>14. ASSUME NEW p \in Occupied(u), E < p PROVE E < B(p)
  <2>1. p \in 0 .. c - 1 /\ E \in Int /\ E + 1 \in 0 .. c - 1 /\ E + 1 <= p /\ E < c - 1
    BY <1>1, <1>2, <1>3, <1>14
  <2>2. B(p) \in 0 .. p /\ \A q \in B(p) .. p : q \in Occupied(u) /\ B(q) <= B(p)
    BY <1>8
  <2> SUFFICES ASSUME B(p) <= E PROVE FALSE
    BY <2>1, <2>2
  <2>3. E + 1 \in B(p) .. p /\ B(p) \in Int
    BY <2>1, <2>2
  <2>4. E + 1 \in Occupied(u) /\ B(E + 1) <= B(p)
    BY <2>2, <2>3
  <2>5. u.table[E + 1].distance = 0
    BY <1>1, <1>3, <2>1, <2>4
  <2>6. B(E + 1) = E + 1
    BY <2>1, <2>5 DEF BucketByPosition
  <2> QED
    BY <2>1, <2>3, <2>4, <2>6
<1> HIDE DEF N, B
<1>15. ASSUME NEW p \in Occupied(r)
       PROVE  N(p) \in 0 .. p /\ \A q \in N(p) .. p : q \in Occupied(r) /\ N(q) <= N(p)
  <2>1. p \in 0 .. c - 1 /\ p \in Occupied(u) /\ p # E
    BY <1>6, <1>12
  <2>2. CASE p < p0 \/ E < p
    <3>1. B(p) \in 0 .. p /\ \A q \in B(p) .. p : q \in Occupied(u) /\ B(q) <= B(p)
      BY <1>8, <2>1
    <3>2. N(p) = B(p)
      BY <1>10, <2>1, <2>2
    <3>3. ASSUME NEW q \in B(p) .. p PROVE q \in Occupied(r) /\ N(q) = B(q)
      <4>1. q \in 0 .. c - 1 /\ (q < p0 \/ E < q)
        <5>1. CASE p < p0
          BY <1>1, <1>2, <1>3, <2>1, <3>1, <5>1
        <5>2. CASE E < p
          <6>1. E < B(p)
            BY <1>14, <2>1, <5>2
          <6> QED
            BY <1>1, <1>2, <1>3, <2>1, <3>1, <6>1
        <5> QED
          BY <2>2, <5>1, <5>2
      <4> QED
        BY <1>10, <3>1, <4>1
    <3> QED
      BY <3>1, <3>2, <3>3
  <2>3. CASE p \in p0 .. E - 1
    <3> DEFINE m == B(p + 1)
    <3>1. p + 1 \in p0 .. E /\ p \in Int /\ p0 \in Int /\ E \in Int
      BY <1>1, <1>2, <1>3, <2>3
    <3>2. m \in 0 .. p /\ \A q \in m .. p + 1 : q \in Occupied(u) /\ B(q) <= m
      BY <1>7, <1>8, <1>9, <2>3, <3>1
    <3>3. N(p) = m
      BY <1>4, <2>3 DEF N, B
    <3> HIDE DEF m
    <3>4. ASSUME NEW q \in m .. p PROVE q \in Occupied(r) /\ N(q) <= m
      <4>1. q \in Int /\ m \in Int /\ q \in m .. p + 1 /\ q + 1 \in m .. p + 1
        BY <3>1, <3>2
      <4>2. CASE q < p0
        <5>1. q \in Occupied(u) /\ q \in 0 .. c - 1
          BY <1>1, <3>2, <4>1
        <5> QED
          BY <1>10, <3>2, <4>1, <4>2, <5>1
      <4>3. CASE ~ (q < p0)
        <5>1. q \in p0 .. E - 1
          BY <2>3, <3>1, <4>1, <4>3
        <5>2. q \in Occupied(r) /\ N(q) = B(q + 1)
          BY <1>4, <1>11, <5>1 DEF N, B
        <5> QED
          BY <3>2, <4>1, <5>2
      <4> QED
        BY <4>2, <4>3
    <3> QED
      BY <3>2, <3>3, <3>4
  <2>4. p < p0 \/ E < p \/ p \in p0 .. E - 1
    BY <1>1, <1>2, <1>3, <2>1
  <2> QED
    BY <2>2, <2>3, <2>4
<1>16. Packed(r)
  BY <1>15 DEF Packed, N
<1> QED
  BY <1>12, <1>13, <1>16

(* Every entry but the removed one is still there. *)
LEMMA RemoveEntries ==
  ASSUME NEW u, Shaped(u), NEW p0 \in Occupied(u),
         NEW r, r = RemoveAndRelocate(u, p0).t, NEW E, E = RemoveEnd(u, p0),
         Occupied(r) = Occupied(u) \ {E}
  PROVE  EntriesIn(u) = EntriesIn(r) \cup {<< u.table[p0].key, u.table[p0].value >>}
<1> DEFINE C == RemoveChain(u, p0)
           c == Capacity(u)
           F(p) == RemoveFrom(u, p0, p)
           Pair(x) == << x.key, x.value >>
<1>1. /\ c \in Nat \ {0} /\ Occupied(u) \subseteq 0 .. c - 1 /\ DOMAIN u.table = 0 .. c - 1
      /\ \A p \in 0 .. c - 1 : p \in Occupied(u) <=> ~ Empty(u, p)
  BY ShapedFacts
<1>2. p0 \in 0 .. c - 1 /\ E \in p0 .. c - 1 /\ \A p \in p0 + 1 .. E : ~ Empty(u, p)
  BY <1>1, RemoveEnds
<1>3. p0 \in C /\ E \in C /\ C \subseteq p0 .. E
  BY <1>1, <1>2 DEF RemoveChain
<1>4. r.table = RemoveSlots(u, p0)
  <2>1. r = [u EXCEPT !.table = RemoveSlots(u, p0)]
    BY RemoveForm
  <2> QED
    BY <2>1 DEF Shaped
<1>5. \A p \in Occupied(u) : r.table[p] = IF p \in C THEN RemoveFilled(u, p0, p) ELSE u.table[p]
  BY <1>1, <1>4 DEF RemoveSlots
<1> HIDE DEF C, c, F
<1>6. \A p \in p0 .. E : p \in Occupied(u)
  BY <1>1, <1>2
<1>7. ASSUME NEW p \in C, p # E
      PROVE  /\ p \in Occupied(r) /\ F(p) \in p + 1 .. E /\ F(p) \in Occupied(u)
             /\ Pair(r.table[p]) = Pair(u.table[F(p)])
  <2>1. p \in p0 .. E - 1
    BY <1>1, <1>2, <1>3, <1>7
  <2>2. F(p) \in p + 1 .. E /\ u.table[F(p)] \in AnyCell
    BY <1>2, <2>1, RemoveComesFrom DEF F, c
  <2>3. F(p) \in Occupied(u) /\ p \in Occupied(u)
    BY <1>1, <1>2, <1>6, <2>1, <2>2
  <2>4. r.table[p] = [u.table[F(p)] EXCEPT !.distance = @ - (F(p) - p)]
    BY <1>5, <1>7, <2>3 DEF RemoveFilled, F
  <2>5. r.table[p].key = u.table[F(p)].key /\ r.table[p].value = u.table[F(p)].value
    BY <2>2, <2>4 DEF AnyCell
  <2> QED
    BY <1>7, <2>2, <2>3, <2>5
<1>8. ASSUME NEW p \in Occupied(u), p \notin C
      PROVE  p \in Occupied(r) /\ r.table[p] = u.table[p]
  BY <1>3, <1>5, <1>8
<1>9. ASSUME NEW q \in C, q # p0
      PROVE  \E p \in C : p # E /\ F(p) = q
  <2> DEFINE S == {x \in C : x < q}
             p == Max(S)
             T == {x \in C : x > p}
  <2>1. q \in p0 .. E /\ q \in Int /\ p0 \in Int /\ E \in Int /\ C \subseteq Int
    BY <1>1, <1>2, <1>3
  <2>2. S \subseteq Int /\ p0 \in S /\ \A x \in S : x <= q
    <3>1. p0 \in C /\ p0 < q
      BY <1>3, <1>9, <2>1
    <3> QED
      BY <2>1, <3>1, AboveAndBelow
  <2> HIDE DEF S
  <2>3. p \in S /\ p \in Int /\ \A x \in S : x <= p
    BY <2>1, <2>2, GreatestOf
  <2> HIDE DEF p
  <2>4. p \in C /\ p < q
    BY <2>3 DEF S
  <2>5. p # E
    BY <2>1, <2>3, <2>4
  <2>6. T \subseteq Int /\ q \in T /\ \A x \in T : p <= x
    <3>1. q > p
      BY <2>1, <2>3, <2>4
    <3> QED
      BY <2>1, <2>3, <3>1, AboveAndBelow
  <2>7. \A x \in T : q <= x
    <3> TAKE x \in T
    <3>1. x \in C /\ x > p /\ x \in Int
      BY <2>1
    <3>2. x < q => x \in S
      BY <3>1 DEF S
    <3> QED
      BY <2>1, <2>3, <3>1, <3>2
  <2> HIDE DEF T
  <2>8. Min(T) \in T /\ Min(T) \in Int /\ \A x \in T : Min(T) <= x
    BY <2>3, <2>6, LeastOf
  <2>9. Min(T) = q
    BY <2>1, <2>6, <2>7, <2>8
  <2>10. F(p) = q
    BY <2>9 DEF F, RemoveFrom, T, C
  <2> QED
    BY <2>4, <2>5, <2>10
<1> HIDE DEF Pair
<1>10. \A p \in Occupied(r) : \E q \in Occupied(u) : Pair(r.table[p]) = Pair(u.table[q])
  <2> TAKE p \in Occupied(r)
  <2>1. p \in Occupied(u) /\ p # E
    OBVIOUS
  <2> QED
    BY <1>7, <1>8, <2>1
<1>11. \A q \in Occupied(u) : q = p0 \/ \E p \in Occupied(r) : Pair(r.table[p]) = Pair(u.table[q])
  <2> TAKE q \in Occupied(u)
  <2>1. CASE q \in C /\ q # p0
    <3>1. PICK p \in C : p # E /\ F(p) = q
      BY <1>9, <2>1
    <3>2. p \in Occupied(r) /\ Pair(r.table[p]) = Pair(u.table[q])
      BY <1>7, <3>1
    <3> QED
      BY <3>2
  <2>2. CASE q \notin C
    BY <1>8, <2>2
  <2> QED
    BY <2>1, <2>2
<1>12. EntriesIn(r) = {Pair(r.table[p]) : p \in Occupied(r)} /\ EntriesIn(u) = {Pair(u.table[p]) : p \in Occupied(u)}
  BY DEF EntriesIn, Pair
<1>13. EntriesIn(u) = EntriesIn(r) \cup {Pair(u.table[p0])}
  BY <1>10, <1>11, <1>12
<1> QED
  BY <1>13 DEF Pair

-----------------------------------------------------------------------------
(* Searching *)

LEMMA BucketInTable ==
  ASSUME NEW k \in Keys, NEW bits \in Nat
  PROVE  /\ BucketByHash(k, bits) \in Nat
         /\ BucketByHash(k, bits) < Pow2[bits]
<1>1. Hash[k] \in Nat /\ Pow2[bits] \in Nat \ {0}
  BY TableAssumption, Pow2Positive
<1>2. \A m \in Nat : \A n \in Nat \ {0} : m % n \in Nat /\ m % n < n
  OBVIOUS
<1> QED
  BY <1>1, <1>2 DEF BucketByHash

(* The scan of a bucket passes entries of no later bucket. *)
LEMMA ScanEnds ==
  ASSUME NEW u, Shaped(u), NEW hi \in 0 .. Capacity(u), NEW b \in 0 .. hi
  PROVE  /\ ScanEnd(u, b, hi) \in b .. hi
         /\ \A q \in b .. ScanEnd(u, b, hi) - 1 :
              q \in Occupied(u) /\ BucketByPosition(u, q) <= b
         /\ ScanEnd(u, b, hi) < hi =>
              \/ Empty(u, ScanEnd(u, b, hi))
              \/ BucketByPosition(u, ScanEnd(u, b, hi)) > b
<1> DEFINE Stop(i) == Empty(u, i) \/ BucketByPosition(u, i) > b
           S == {i \in b .. hi : i = hi \/ Stop(i)}
           z == ScanEnd(u, b, hi)
<1>1. /\ Capacity(u) \in Nat \ {0} /\ hi \in Int /\ b \in Int /\ b <= hi /\ 0 <= b /\ hi <= Capacity(u)
  BY ShapedFacts
<1>2. z = IF b >= hi THEN b ELSE Min(S)
  BY DEF ScanEnd, First
<1> HIDE DEF z
<1>3. CASE b >= hi
  <2>1. z = b /\ b = hi
    BY <1>1, <1>2, <1>3
  <2> QED
    BY <1>1, <2>1 DEF z
<1>4. CASE ~ (b >= hi)
  <2>1. S \subseteq Int /\ hi \in S /\ \A x \in S : b <= x
    BY <1>1, <1>4
  <2> HIDE DEF S
  <2>2. Min(S) \in S /\ Min(S) \in Int /\ \A x \in S : Min(S) <= x
    BY <1>1, <2>1, LeastOf
  <2>3. z = Min(S)
    BY <1>2, <1>4
  <2>4. z \in b .. hi /\ (z = hi \/ Stop(z))
    BY <2>2, <2>3 DEF S
  <2>5. \A q \in b .. z - 1 : ~ Stop(q) /\ q \in 0 .. Capacity(u) - 1
    <3> TAKE q \in b .. z - 1
    <3>1. q \notin S /\ q \in b .. hi /\ q \in 0 .. Capacity(u) - 1
      BY <1>1, <2>2, <2>3, <2>4
    <3> HIDE DEF Stop
    <3> QED
      BY <3>1 DEF S
  <2>6. \A q \in b .. z - 1 : q \in Occupied(u) /\ BucketByPosition(u, q) <= b
    <3> TAKE q \in b .. z - 1
    <3>1. ~ Empty(u, q) /\ ~ (BucketByPosition(u, q) > b) /\ q \in 0 .. Capacity(u) - 1
      BY <2>5
    <3>2. q \in Occupied(u) /\ BucketByPosition(u, q) \in Int
      BY <3>1, ShapedFacts
    <3> QED
      BY <1>1, <3>1, <3>2
  <2> QED
    BY <1>1, <2>4, <2>6 DEF z
<1> QED
  BY <1>3, <1>4

(* A search returns -1 or the position of an entry with the key. *)
LEMMA ScanForFinds ==
  ASSUME NEW u, Shaped(u), NEW k, NEW hi \in 0 .. Capacity(u), NEW b \in 0 .. hi
  PROVE  \/ ScanFor(u, k, b, hi) = -1
         \/ ScanFor(u, k, b, hi) \in Occupied(u) /\ u.table[ScanFor(u, k, b, hi)].key = k
<1> DEFINE S == {i \in b .. ScanEnd(u, b, hi) - 1 :
                   BucketByPosition(u, i) = b /\ u.table[i].key = k}
<1>1. ScanFor(u, k, b, hi) = IF S = {} THEN -1 ELSE Min(S)
  BY DEF ScanFor
<1>2. Capacity(u) \in Nat /\ b \in Int
  BY ShapedFacts
<1>3. S \subseteq Int /\ \A x \in S : b <= x
  BY <1>2, ScanEnds
<1>4. CASE S = {}
  BY <1>1, <1>4
<1>5. CASE S # {}
  <2> HIDE DEF S
  <2>1. Min(S) \in S
    BY <1>2, <1>3, <1>5, LeastOf
  <2>2. Min(S) \in b .. ScanEnd(u, b, hi) - 1 /\ u.table[Min(S)].key = k
    BY <2>1 DEF S
  <2>3. Min(S) \in Occupied(u)
    BY <2>2, ScanEnds
  <2> QED
    BY <1>1, <1>5, <2>2, <2>3
<1> QED
  BY <1>4, <1>5

LEMMA ScanCurrentFinds ==
  ASSUME NEW u, Shaped(u), NEW k \in Keys
  PROVE  \/ ScanCurrent(u, k) = -1
         \/ ScanCurrent(u, k) \in Occupied(u) /\ u.table[ScanCurrent(u, k)].key = k
<1> DEFINE b == BucketByHash(k, u.log2_buckets)
<1>1. /\ Capacity(u) \in Nat \ {0} /\ Pow2[u.log2_buckets] <= Capacity(u)
      /\ Pow2[u.log2_buckets] \in Nat /\ u.log2_buckets \in Nat
  BY ShapedFacts
<1>2. b \in Nat /\ b < Pow2[u.log2_buckets]
  BY <1>1, BucketInTable
<1> HIDE DEF b
<1>3. b \in 0 .. Capacity(u) /\ Capacity(u) \in 0 .. Capacity(u)
  BY <1>1, <1>2
<1> QED
  BY <1>3, ScanForFinds DEF ScanCurrent, b

LEMMA ScanOlderFinds ==
  ASSUME NEW u, Shaped(u), NEW k \in Keys, NEW i \in 1 .. u.remaps
  PROVE  \/ ScanOlder(u, k, i) = -1
         \/ ScanOlder(u, k, i) \in Occupied(u) /\ u.table[ScanOlder(u, k, i)].key = k
<1> DEFINE b == BucketByHash(k, u.log2_buckets - i)
<1>1. /\ Capacity(u) \in Nat \ {0} /\ u.log2_buckets \in Nat
      /\ u.remaps \in 0 .. u.log2_buckets /\ u.remap_end \in -1 .. Capacity(u) - 1
  BY ShapedFacts
<1>2. b \in Nat
  <2>1. u.log2_buckets - i \in Nat
    BY <1>1
  <2> QED
    BY <2>1, BucketInTable
<1> HIDE DEF b
<1>3. CASE b <= u.remap_end
  <2>1. u.remap_end + 1 \in 0 .. Capacity(u) /\ b \in 0 .. u.remap_end + 1
    BY <1>1, <1>2, <1>3
  <2>2. ScanOlder(u, k, i) = ScanFor(u, k, b, u.remap_end + 1)
    BY <1>3 DEF ScanOlder, b
  <2> QED
    BY <2>1, <2>2, ScanForFinds
<1>4. CASE ~ (b <= u.remap_end)
  BY <1>4 DEF ScanOlder, b
<1> QED
  BY <1>3, <1>4

LEMMA OlderPositionFinds ==
  ASSUME NEW u, Shaped(u), NEW k \in Keys, OlderSizesWith(u, k) # {}
  PROVE  OlderPosition(u, k) \in Occupied(u) /\ u.table[OlderPosition(u, k)].key = k
<1> DEFINE S == OlderSizesWith(u, k)
<1>1. u.remaps \in Nat /\ S \subseteq 1 .. u.remaps
  BY ShapedFacts DEF OlderSizesWith
<1>2. \A i \in S : ScanOlder(u, k, i) >= 0
  BY DEF OlderSizesWith
<1> HIDE DEF S
<1>3. S \subseteq Int /\ S # {} /\ 1 \in Int /\ \A x \in S : 1 <= x
  BY <1>1 DEF S
<1>4. Min(S) \in S
  BY <1>3, LeastOf
<1>5. OlderPosition(u, k) = ScanOlder(u, k, Min(S))
  BY DEF OlderPosition, S
<1>6. ScanOlder(u, k, Min(S)) >= 0 /\ Min(S) \in 1 .. u.remaps
  BY <1>1, <1>2, <1>4
<1>7. ScanOlder(u, k, Min(S)) # -1
  BY <1>6
<1> QED
  BY <1>5, <1>6, <1>7, ScanOlderFinds

-----------------------------------------------------------------------------
(* Rearranging: what growing and remapping do to a table. *)

LEMMA OccupiedFinite ==
  ASSUME NEW u, Shaped(u)
  PROVE  IsFiniteSet(Occupied(u)) /\ Cardinality(Occupied(u)) \in Nat
<1>1. Occupied(u) \subseteq 0 .. Capacity(u) - 1 /\ Capacity(u) \in Nat
  BY ShapedFacts
<1>2. IsFiniteSet(0 .. Capacity(u) - 1)
  BY <1>1, FS_Interval
<1>3. IsFiniteSet(Occupied(u))
  BY <1>1, <1>2, FS_Subset
<1> QED
  BY <1>3, FS_CardinalityType

Rearranged(u, r) ==
  /\ Shaped(r)
  /\ u.log2_buckets <= r.log2_buckets
  /\ Packed(u) /\ Fits(r) =>
       /\ Packed(r) /\ Cardinality(Occupied(r)) = Cardinality(Occupied(u))
       /\ EntriesIn(r) = EntriesIn(u)

LEMMA FitsBelow ==
  ASSUME NEW u, NEW r, Shaped(u), Shaped(r), u.log2_buckets <= r.log2_buckets, Fits(r)
  PROVE  Fits(u)
<1>1. u.log2_buckets \in Nat /\ r.log2_buckets \in Nat
  BY DEF Shaped
<1>2. /\ CapacityOf(u.log2_buckets) <= CapacityOf(r.log2_buckets)
      /\ CapacityOf(u.log2_buckets) \in Nat /\ CapacityOf(r.log2_buckets) \in Nat
  BY <1>1, CapacityMonotone, CapacityGrows
<1> QED
  BY <1>2, TooFar DEF Fits

LEMMA RearrangedTwice ==
  ASSUME NEW u, NEW v, NEW w, Shaped(u), Rearranged(u, v), Rearranged(v, w)
  PROVE  Rearranged(u, w)
<1>1. /\ Shaped(v) /\ Shaped(w)
      /\ u.log2_buckets <= v.log2_buckets /\ v.log2_buckets <= w.log2_buckets
  BY DEF Rearranged
<1>2. u.log2_buckets \in Nat /\ v.log2_buckets \in Nat /\ w.log2_buckets \in Nat
  BY <1>1 DEF Shaped
<1>3. u.log2_buckets <= w.log2_buckets
  BY <1>1, <1>2
<1>4. Fits(w) => Fits(v)
  BY <1>1, FitsBelow
<1> QED
  BY <1>1, <1>3, <1>4 DEF Rearranged

(* Only remap_end or remaps changes. *)
LEMMA RearrangedSame ==
  ASSUME NEW u, NEW r, Shaped(u), Shaped(r), r.log2_buckets = u.log2_buckets,
         r.table = u.table
  PROVE  Rearranged(u, r)
<1>1. u.log2_buckets <= r.log2_buckets
  BY DEF Shaped
<1> QED
  BY <1>1, PackedTable DEF Rearranged

LEMMA RearrangedSizeUp ==
  ASSUME NEW u, Shaped(u)
  PROVE  Rearranged(u, SizeUp(u))
<1>1. u.log2_buckets \in Nat
  BY ShapedFacts
<1> QED
  BY <1>1, SizeUpShaped DEF Rearranged

LEMMA EndOfCluster ==
  ASSUME NEW u, NEW b
  PROVE  EndOfClusterByBucket(u, b) = ScanEnd(u, b, Capacity(u))
  BY DEF EndOfClusterByBucket, ScanEnd

(* Position p holds an entry. *)
Points(u, p) ==
  /\ p \in 0 .. Capacity(u) - 1
  /\ u.table[p] \in AnyCell
  /\ Fits(u) => p \in Occupied(u)

LEMMA OccupiedPoints ==
  ASSUME NEW u, Shaped(u), NEW p \in Occupied(u)
  PROVE  Points(u, p)
  BY ShapedFacts DEF Points

(* The two uses of InsertAndRelocate: at the end of the cluster of b. *)
LEMMA InsertAtEnd ==
  ASSUME NEW u, Shaped(u), NEW k \in Keys, NEW e \in AnyCell,
         NEW b, b = BucketByHash(k, u.log2_buckets),
         NEW p0, p0 = ScanEnd(u, b, Capacity(u)),
         e.distance = p0 - b,
         NEW r, r = InsertAndRelocate(u, e, p0).t, NEW E, E = InsertEnd(u, p0)
  PROVE  /\ Shaped(r)
         /\ u.log2_buckets <= r.log2_buckets
         /\ p0 \in Nat /\ E \in 0 .. Capacity(r) - 1 /\ Capacity(r) \in Nat
         /\ r.remap_end \in {u.remap_end, Capacity(u)}
         /\ r.table[p0] = e
         /\ Points(r, p0)
         /\ Packed(u) /\ Fits(r) =>
              /\ Packed(r) /\ Occupied(r) = Occupied(u) \cup {E} /\ E \notin Occupied(u)
              /\ EntriesIn(r) = EntriesIn(u) \cup {<< e.key, e.value >>}
<1> DEFINE c == Capacity(u)
<1>1. /\ c \in Nat \ {0} /\ Pow2[u.log2_buckets] <= c /\ Pow2[u.log2_buckets] \in Nat
      /\ u.log2_buckets \in Nat
      /\ \A p \in 0 .. c - 1 : p \in Occupied(u) <=> ~ Empty(u, p)
      /\ Occupied(u) \subseteq 0 .. c - 1
  BY ShapedFacts
<1>2. b \in Nat /\ b < Pow2[u.log2_buckets]
  BY <1>1, BucketInTable
<1>3. b \in 0 .. c /\ c \in 0 .. c
  BY <1>1, <1>2
<1>4. /\ p0 \in b .. c
      /\ \A q \in b .. p0 - 1 : q \in Occupied(u) /\ BucketByPosition(u, q) <= b
      /\ p0 < c => Empty(u, p0) \/ BucketByPosition(u, p0) > b
  BY <1>3, ScanEnds
<1> HIDE DEF c
<1>5. p0 \in 0 .. c /\ b \in 0 .. p0 /\ p0 \in Int /\ b \in Int
  BY <1>1, <1>2, <1>4
<1>6. p0 \in Occupied(u) => b < BucketByPosition(u, p0)
  <2> HAVE p0 \in Occupied(u)
  <2>1. p0 < c /\ ~ Empty(u, p0) /\ p0 \in 0 .. c - 1
    BY <1>1
  <2>2. BucketByPosition(u, p0) > b /\ BucketByPosition(u, p0) \in Int
    BY <1>4, <2>1, ShapedFacts DEF c
  <2> QED
    BY <1>5, <2>2
<1>7. /\ Shaped(r)
      /\ r.log2_buckets = (IF E = Capacity(u) THEN u.log2_buckets + 1 ELSE u.log2_buckets)
      /\ r.remap_end = (IF E = Capacity(u) THEN Capacity(u) ELSE u.remap_end)
      /\ E \in p0 .. Capacity(u) /\ E < Capacity(r) /\ Capacity(r) \in Nat
      /\ r.table[p0] = e
  BY <1>5, InsertShifts DEF c
<1>8. Packed(u) /\ Fits(r) =>
        /\ Packed(r) /\ Occupied(r) = Occupied(u) \cup {E} /\ E \notin Occupied(u)
        /\ EntriesIn(r) = EntriesIn(u) \cup {<< e.key, e.value >>}
  <2> HAVE Packed(u) /\ Fits(r)
  <2>1. Packed(r) /\ Occupied(r) = Occupied(u) \cup {E} /\ E \notin Occupied(u)
    BY <1>4, <1>5, <1>6, InsertPacked DEF c
  <2> QED
    BY <1>5, <2>1, InsertEntries DEF c
<1>9. E \in 0 .. Capacity(r) - 1 /\ p0 \in 0 .. Capacity(r) - 1 /\ p0 \in Nat
  BY <1>5, <1>7, <1>1 DEF c
<1>10. Fits(r) => p0 \in Occupied(r)
  <2> HAVE Fits(r)
  <2>1. Capacity(r) <= TOO_FAR_TO_REACH
    BY <1>7, ShapedFacts DEF Fits
  <2>2. p0 - b # TOO_FAR_TO_REACH
    BY <1>5, <1>7, <1>9, <2>1, TooFar
  <2>3. ~ Empty(r, p0)
    BY <1>7, <2>2 DEF Empty
  <2> QED
    BY <1>7, <1>9, <2>3, ShapedFacts
<1>11. Points(r, p0)
  BY <1>7, <1>9, <1>10 DEF Points
<1> QED
  BY <1>1, <1>7, <1>8, <1>9, <1>11 DEF c

LEMMA RearrangedRemapAt ==
  ASSUME NEW u, Shaped(u), NEW p \in Occupied(u)
  PROVE  /\ Rearranged(u, RemapAt(u, p).t)
         /\ Points(RemapAt(u, p).t, RemapAt(u, p).position)
         /\ RemapAt(u, p).t.table[RemapAt(u, p).position].key = u.table[p].key
<1> DEFINE k == u.table[p].key
           b == BucketByHash(k, u.log2_buckets)
<1>1. /\ p \in 0 .. Capacity(u) - 1 /\ u.table[p] \in AnyCell /\ k \in Keys
      /\ u.log2_buckets \in Nat
  BY ShapedFacts DEF AnyCell
<1>2. CASE BucketByPosition(u, p) = b
  <2>1. RemapAt(u, p) = [t |-> u, position |-> p]
    BY <1>2 DEF RemapAt
  <2>2. Rearranged(u, u) /\ Points(u, p)
    BY RearrangedSame, OccupiedPoints
  <2> QED
    BY <2>1, <2>2
<1>3. CASE BucketByPosition(u, p) # b
  <2> DEFINE v == RemoveAndRelocate(u, p).t
             D == RemoveEnd(u, p)
             p0 == ScanEnd(v, b, Capacity(v))
             e == [u.table[p] EXCEPT !.distance = p0 - b]
             r == InsertAndRelocate(v, e, p0).t
             E == InsertEnd(v, p0)
  <2>1. RemapAt(u, p) = [t |-> r, position |-> p0]
    BY <1>3, EndOfCluster DEF RemapAt, MoveToBucket, MoveTo
  <2>2. Shaped(v) /\ v.log2_buckets = u.log2_buckets
    BY <1>1, RemoveShifts
  <2>3. Packed(u) /\ Fits(u) =>
          /\ Packed(v) /\ Occupied(v) = Occupied(u) \ {D} /\ D \in Occupied(u)
          /\ EntriesIn(u) = EntriesIn(v) \cup {<< u.table[p].key, u.table[p].value >>}
    BY RemovePacked, RemoveEntries
  <2>4. b \in Nat /\ b = BucketByHash(k, v.log2_buckets)
    BY <1>1, <2>2, BucketInTable
  <2>5. p0 \in Int
    <3>1. Capacity(v) \in Nat /\ Pow2[v.log2_buckets] <= Capacity(v) /\ Pow2[v.log2_buckets] \in Nat
      BY <2>2, ShapedFacts
    <3>2. b < Pow2[v.log2_buckets]
      BY <1>1, <2>2, BucketInTable
    <3> HIDE DEF b, v
    <3>3. b \in 0 .. Capacity(v) /\ Capacity(v) \in 0 .. Capacity(v)
      BY <2>4, <3>1, <3>2
    <3> QED
      BY <2>2, <3>1, <3>3, ScanEnds
  <2> HIDE DEF k, b, v, D, p0
  <2>6. /\ e \in AnyCell /\ e.distance = p0 - b
        /\ e.key = u.table[p].key /\ e.value = u.table[p].value
    BY <1>1, <2>4, <2>5 DEF AnyCell
  <2> HIDE DEF e, r, E
  <2>7. /\ Shaped(r) /\ v.log2_buckets <= r.log2_buckets
        /\ Points(r, p0) /\ r.table[p0] = e
        /\ Packed(v) /\ Fits(r) =>
             /\ Packed(r) /\ Occupied(r) = Occupied(v) \cup {E} /\ E \notin Occupied(v)
             /\ EntriesIn(r) = EntriesIn(v) \cup {<< e.key, e.value >>}
    BY <1>1, <2>2, <2>4, <2>6, InsertAtEnd DEF p0, r, E
  <2>8. u.log2_buckets <= r.log2_buckets
    BY <2>2, <2>7
  <2>9. ASSUME Packed(u), Fits(r)
        PROVE  /\ Packed(r) /\ Cardinality(Occupied(r)) = Cardinality(Occupied(u))
               /\ EntriesIn(r) = EntriesIn(u)
    <3>1. Fits(u)
      BY <2>7, <2>8, <2>9, FitsBelow
    <3>2. /\ Packed(r)
          /\ Occupied(r) = Occupied(v) \cup {E} /\ E \notin Occupied(v)
          /\ Occupied(v) = Occupied(u) \ {D} /\ D \in Occupied(u)
      BY <2>3, <2>7, <2>9, <3>1
    <3>3. IsFiniteSet(Occupied(u)) /\ Cardinality(Occupied(u)) \in Nat
      BY OccupiedFinite
    <3>4. Cardinality(Occupied(v)) = Cardinality(Occupied(u)) - 1 /\ IsFiniteSet(Occupied(v))
      BY <3>2, <3>3, FS_RemoveElement
    <3>5. Cardinality(Occupied(r)) = Cardinality(Occupied(v)) + 1
      BY <3>2, <3>4, FS_AddElement
    <3>6. EntriesIn(r) = EntriesIn(u)
      BY <2>3, <2>6, <2>7, <2>9, <3>1
    <3> QED
      BY <3>2, <3>3, <3>4, <3>5, <3>6
  <2>10. Rearranged(u, r)
    BY <2>7, <2>8, <2>9 DEF Rearranged
  <2> QED
    BY <2>1, <2>6, <2>7, <2>10
<1> QED
  BY <1>2, <1>3

LEMMA RearrangedRemapNext ==
  ASSUME NEW u, Shaped(u)
  PROVE  Rearranged(u, RemapNext(u))
<1> DEFINE S == {p \in Misplaced(u) : p <= u.remap_end}
<1>1. /\ Capacity(u) \in Nat \ {0} /\ Capacity(u) = CapacityOf(u.log2_buckets)
      /\ Occupied(u) \subseteq 0 .. Capacity(u) - 1
  BY ShapedFacts
<1>2. S \subseteq Occupied(u)
  BY DEF Misplaced
<1>3. CASE S = {}
  <2>1. RemapNext(u) = [u EXCEPT !.remap_end = -1]
    BY <1>3 DEF RemapNext
  <2>2. -1 \in -1 .. CapacityOf(u.log2_buckets) - 1
    BY <1>1
  <2> DEFINE v == [u EXCEPT !.remap_end = -1]
  <2>3. Shaped(v) /\ v.table = u.table /\ v.log2_buckets = u.log2_buckets
    BY <2>2, WithRemapEnd
  <2> HIDE DEF v
  <2>4. Rearranged(u, v)
    BY <2>3, RearrangedSame
  <2> QED
    BY <2>1, <2>4 DEF v
<1>4. CASE S # {}
  <2> DEFINE m == Max(S)
             v == [u EXCEPT !.remap_end = m]
  <2>1. RemapNext(u) = RemapAt(v, m).t
    BY <1>4 DEF RemapNext
  <2> HIDE DEF S
  <2>2. S \subseteq Int /\ Capacity(u) \in Int /\ \A x \in S : x <= Capacity(u)
    BY <1>1, <1>2
  <2>3. m \in S
    BY <1>4, <2>2, GreatestOf
  <2>4. m \in Occupied(u) /\ m \in -1 .. CapacityOf(u.log2_buckets) - 1
    BY <1>1, <1>2, <2>3
  <2> HIDE DEF m, v
  <2>5. Shaped(v) /\ v.table = u.table /\ v.log2_buckets = u.log2_buckets
    BY <2>4, WithRemapEnd DEF v
  <2>6. Rearranged(u, v) /\ m \in Occupied(v)
    BY <2>4, <2>5, RearrangedSame, PackedTable
  <2>7. Rearranged(v, RemapAt(v, m).t)
    BY <2>5, <2>6, RearrangedRemapAt
  <2> QED
    BY <2>1, <2>6, <2>7, RearrangedTwice
<1> QED
  BY <1>3, <1>4

(* The loop of Remap(), as the sequence of tables it makes. *)
LEMMA RemapTurns ==
  ASSUME NEW u
  PROVE  \E turn :
           /\ \A n \in 0 .. RemapEntries : turn[n] = IF n = 0 THEN u ELSE RemapNext(turn[n - 1])
           /\ Remap(u) = IF turn[RemapEntries].remap_end < 0
                         THEN [turn[RemapEntries] EXCEPT !.remaps = 0]
                         ELSE turn[RemapEntries]
<1> DEFINE turn[n \in 0 .. RemapEntries] == IF n = 0 THEN u ELSE RemapNext(turn[n - 1])
           done == turn[RemapEntries]
           Has == {n \in Nat : \E g : g = [i \in 0 .. n |-> IF i = 0 THEN u ELSE RemapNext(g[i - 1])]}
<1>1. RemapEntries \in Nat
  BY TableAssumption
<1>2. Remap(u) = IF done.remap_end < 0 THEN [done EXCEPT !.remaps = 0] ELSE done
  BY DEF Remap
<1>3. \A n \in Nat : n \in Has
  <2>1. 0 \in Has
    <3> DEFINE g == [i \in 0 .. 0 |-> u]
    <3>1. g = [i \in 0 .. 0 |-> IF i = 0 THEN u ELSE RemapNext(g[i - 1])]
      OBVIOUS
    <3> QED
      BY <3>1
  <2>2. ASSUME NEW n \in Nat, n \in Has PROVE n + 1 \in Has
    <3>1. PICK g : g = [i \in 0 .. n |-> IF i = 0 THEN u ELSE RemapNext(g[i - 1])]
      BY <2>2
    <3> DEFINE h == [i \in 0 .. n + 1 |-> IF i = n + 1 THEN RemapNext(g[n]) ELSE g[i]]
    <3>2. \A i \in 0 .. n : g[i] = IF i = 0 THEN u ELSE RemapNext(g[i - 1])
      BY <3>1, Zenon
    <3>3. \A i \in 0 .. n + 1 : h[i] = IF i = 0 THEN u ELSE RemapNext(h[i - 1])
      <4> TAKE i \in 0 .. n + 1
      <4>1. CASE i = n + 1
        <5>1. h[i] = RemapNext(g[n]) /\ i - 1 = n /\ h[n] = g[n] /\ i # 0
          BY <4>1
        <5> HIDE DEF h
        <5> QED
          BY <5>1
      <4>2. CASE i # n + 1
        <5>1. i \in 0 .. n /\ h[i] = g[i] /\ (i # 0 => i - 1 \in 0 .. n /\ h[i - 1] = g[i - 1])
          BY <4>2
        <5> HIDE DEF h
        <5> QED
          BY <3>2, <5>1
      <4> QED
        BY <4>1, <4>2
    <3>4. h = [i \in 0 .. n + 1 |-> h[i]]
      OBVIOUS
    <3> HIDE DEF h
    <3>5. h = [i \in 0 .. n + 1 |-> IF i = 0 THEN u ELSE RemapNext(h[i - 1])]
      BY <3>3, <3>4
    <3> QED
      BY <3>5
  <2> HIDE DEF Has
  <2> QED
    BY <2>1, <2>2, SetInduction
<1>4. turn = [n \in 0 .. RemapEntries |-> IF n = 0 THEN u ELSE RemapNext(turn[n - 1])]
  <2>1. \E g : g = [i \in 0 .. RemapEntries |-> IF i = 0 THEN u ELSE RemapNext(g[i - 1])]
    BY <1>1, <1>3
  <2> QED
    BY <2>1, Zenon
<1> HIDE DEF turn, Has
<1>5. \A n \in 0 .. RemapEntries : turn[n] = IF n = 0 THEN u ELSE RemapNext(turn[n - 1])
  BY <1>4, Zenon
<1> QED
  BY <1>2, <1>5

LEMMA RearrangedRemap ==
  ASSUME NEW u, Shaped(u)
  PROVE  Rearranged(u, Remap(u))
<1>1. RemapEntries \in Nat
  BY TableAssumption
<1>2. PICK turn :
        /\ \A n \in 0 .. RemapEntries : turn[n] = IF n = 0 THEN u ELSE RemapNext(turn[n - 1])
        /\ Remap(u) = IF turn[RemapEntries].remap_end < 0
                      THEN [turn[RemapEntries] EXCEPT !.remaps = 0]
                      ELSE turn[RemapEntries]
  BY RemapTurns
<1> DEFINE done == turn[RemapEntries]
           T == {n \in Nat : n <= RemapEntries => Rearranged(u, turn[n])}
<1>3. 0 \in T
  <2>1. turn[0] = u
    BY <1>1, <1>2
  <2> QED
    BY <2>1, RearrangedSame
<1>4. ASSUME NEW n \in Nat, n \in T PROVE n + 1 \in T
  <2> SUFFICES ASSUME n + 1 <= RemapEntries PROVE Rearranged(u, turn[n + 1])
    OBVIOUS
  <2>1. n + 1 \in 0 .. RemapEntries /\ n + 1 # 0 /\ (n + 1) - 1 = n /\ n <= RemapEntries
    BY <1>1
  <2>2. turn[n + 1] = RemapNext(turn[n])
    BY <1>2, <2>1
  <2>3. Rearranged(u, turn[n])
    BY <1>4, <2>1
  <2>4. Rearranged(turn[n], turn[n + 1])
    BY <2>2, <2>3, RearrangedRemapNext DEF Rearranged
  <2> QED
    BY <2>3, <2>4, RearrangedTwice
<1> HIDE DEF T
<1>5. RemapEntries \in T
  BY <1>1, <1>3, <1>4, SetInduction
<1>6. Rearranged(u, done)
  BY <1>1, <1>5 DEF T
<1>7. Remap(u) = IF done.remap_end < 0 THEN [done EXCEPT !.remaps = 0] ELSE done
  BY <1>2
<1> HIDE DEF done
<1>8. Shaped(done)
  BY <1>6 DEF Rearranged
<1>9. Rearranged(done, [done EXCEPT !.remaps = 0])
  BY <1>8, WithoutRemaps, RearrangedSame
<1>10. Rearranged(u, [done EXCEPT !.remaps = 0])
  BY <1>6, <1>9, RearrangedTwice
<1> QED
  BY <1>6, <1>10, <1>7

-----------------------------------------------------------------------------
(* The operations *)

(* The entry LookupIndex returns, unless its ASSERT fails. *)
LEMMA LookupRearranges ==
  ASSUME NEW u, Shaped(u), NEW k \in Keys, NEW iterating,
         NEW look, look = LookupIndex(u, k, iterating)
  PROVE  /\ Rearranged(u, look.t)
         /\ look.asserted /\ look.position >= 0 =>
              Points(look.t, look.position) /\ look.t.table[look.position].key = k
<1>1. u.table # << >>
  BY ShapedFacts
<1>2. Rearranged(u, u)
  BY RearrangedSame
<1>3. CASE ScanCurrent(u, k) >= 0 \/ OlderSizesWith(u, k) = {}
  <2>1. look = [t |-> u, position |-> ScanCurrent(u, k), asserted |-> TRUE]
    BY <1>1, <1>3 DEF LookupIndex
  <2>2. look.t = u /\ look.position = ScanCurrent(u, k)
    BY <2>1
  <2>3. look.position >= 0 => look.position # -1
    OBVIOUS
  <2>4. look.position >= 0 => Points(u, look.position) /\ u.table[look.position].key = k
    BY <2>2, <2>3, ScanCurrentFinds, OccupiedPoints
  <2> QED
    BY <1>2, <2>2, <2>4
<1>4. CASE ~ (ScanCurrent(u, k) >= 0 \/ OlderSizesWith(u, k) = {}) /\ iterating
  <2>1. look = [t |-> u, position |-> OlderPosition(u, k), asserted |-> TRUE]
    BY <1>1, <1>4 DEF LookupIndex
  <2>2. look.t = u /\ look.position = OlderPosition(u, k)
    BY <2>1
  <2>3. Points(u, look.position) /\ u.table[look.position].key = k
    BY <1>4, <2>2, OlderPositionFinds, OccupiedPoints
  <2> QED
    BY <1>2, <2>2, <2>3
<1>5. CASE ~ (ScanCurrent(u, k) >= 0 \/ OlderSizesWith(u, k) = {}) /\ ~ iterating
  <2> DEFINE r == RemapAt(u, OlderPosition(u, k))
             again == RemapAt(r.t, OlderPosition(r.t, k))
  <2>1. look = AssertFound(k, r)
    BY <1>1, <1>5 DEF LookupIndex
  <2>2. Rearranged(u, r.t) /\ Points(r.t, r.position) /\ r.t.table[r.position].key = k
    BY <1>5, OlderPositionFinds, RearrangedRemapAt
  <2> HIDE DEF r
  <2>3. Shaped(r.t)
    BY <2>2 DEF Rearranged
  <2>4. CASE ScanCurrent(r.t, k) >= 0 \/ OlderSizesWith(r.t, k) = {}
    <3>1. look.t = r.t /\ look.position = r.position
      BY <2>1, <2>4 DEF AssertFound
    <3> QED
      BY <2>2, <3>1
  <2>5. CASE ~ (ScanCurrent(r.t, k) >= 0 \/ OlderSizesWith(r.t, k) = {})
    <3>1. look.t = again.t /\ look.position = r.position /\ (look.asserted => again.position = r.position)
      <4>1. look.t = again.t /\ look.position = r.position
        BY <2>1, <2>5 DEF AssertFound
      <4>2. ASSUME again.position # r.position PROVE look.asserted = FALSE
        <5>1. look = [t |-> again.t, position |-> r.position, asserted |-> FALSE]
          BY <2>1, <2>5, <4>2 DEF AssertFound
        <5> HIDE DEF again
        <5> QED
          BY <5>1
      <4> HIDE DEF again
      <4> QED
        BY <4>1, <4>2
    <3>2. /\ Rearranged(r.t, again.t) /\ Points(again.t, again.position)
          /\ again.t.table[again.position].key = k
      BY <2>3, <2>5, OlderPositionFinds, RearrangedRemapAt
    <3> HIDE DEF again
    <3>3. Rearranged(u, again.t)
      BY <2>2, <3>2, RearrangedTwice
    <3> QED
      BY <3>1, <3>2, <3>3
  <2> QED
    BY <2>4, <2>5
<1> QED
  BY <1>3, <1>4, <1>5

(* Insert of a key that is present replaces the value. *)
LEMMA Overwrites ==
  ASSUME NEW u, Shaped(u), NEW p, Points(u, p), NEW v \in Vals,
         NEW w, w = [u EXCEPT !.table[p].value = v]
  PROVE  /\ Shaped(w) /\ w.log2_buckets = u.log2_buckets
         /\ Occupied(w) = Occupied(u)
         /\ Packed(u) => Packed(w)
         /\ Fits(u) =>
              EntriesIn(w) \cup {<< u.table[p].key, u.table[p].value >>} =
                EntriesIn(u) \cup {<< u.table[p].key, v >>}
<1> DEFINE e == [u.table[p] EXCEPT !.value = v]
           f == [u.table EXCEPT ![p] = e]
           Pair(x) == << x.key, x.value >>
<1>1. /\ DOMAIN u.table = 0 .. Capacity(u) - 1 /\ p \in 0 .. Capacity(u) - 1
      /\ u.table \in Arrays(u.log2_buckets) /\ Capacity(u) = CapacityOf(u.log2_buckets)
      /\ u.table[p] \in AnyCell
  BY ShapedFacts DEF Points, Shaped
<1>2. w = [u EXCEPT !.table = f]
  BY <1>1 DEF Shaped
<1>3. /\ e \in AnyCell /\ e.distance = u.table[p].distance
      /\ Pair(e) = << u.table[p].key, v >>
  BY <1>1 DEF AnyCell
<1> HIDE DEF e
<1>4. f \in Arrays(u.log2_buckets)
  BY <1>1, <1>3 DEF Arrays, Slot
<1>5. /\ DOMAIN f = DOMAIN u.table
      /\ \A q \in DOMAIN u.table : f[q].distance = u.table[q].distance
      /\ f[p] = e /\ \A q \in DOMAIN u.table : q # p => f[q] = u.table[q]
  BY <1>1, <1>3
<1> HIDE DEF f
<1>6. Shaped(w) /\ w.table = f /\ w.log2_buckets = u.log2_buckets
  <2> DEFINE x == [u EXCEPT !.table = f]
  <2>1. Shaped(x) /\ x.table = f /\ x.log2_buckets = u.log2_buckets
    BY <1>4, WithTable
  <2>2. w = x
    BY <1>2
  <2> HIDE DEF x
  <2> QED
    BY <2>1, <2>2, Zenon
<1>7. Occupied(w) = Occupied(u)
  BY <1>5, <1>6 DEF Occupied, Empty
<1>8. \A q \in Occupied(u) : BucketByPosition(w, q) = BucketByPosition(u, q)
  BY <1>5, <1>6 DEF BucketByPosition, Occupied
<1>9. Packed(u) => Packed(w)
  BY <1>7, <1>8 DEF Packed
<1>10. ASSUME Fits(u)
       PROVE  EntriesIn(w) \cup {Pair(u.table[p])} = EntriesIn(u) \cup {Pair(e)}
  <2>1. p \in Occupied(u)
    BY <1>10 DEF Points
  <2>2. \A q \in Occupied(u) : q # p => f[q] = u.table[q]
    BY <1>5 DEF Occupied
  <2>3. EntriesIn(w) = {Pair(f[q]) : q \in Occupied(u)} /\ EntriesIn(u) = {Pair(u.table[q]) : q \in Occupied(u)}
    BY <1>6, <1>7 DEF EntriesIn
  <2> HIDE DEF Pair
  <2> QED
    BY <1>5, <2>1, <2>2, <2>3
<1> QED
  BY <1>3, <1>6, <1>7, <1>9, <1>10

LEMMA RearrangedUnlessIterating ==
  ASSUME NEW u, Shaped(u)
  PROVE  Rearranged(u, RemapUnlessIterating(u))
  BY RearrangedRemap, RearrangedSame DEF RemapUnlessIterating

(* The table before Init() allocates it, and after Clear(). *)
NoTable == [log2_buckets |-> 0, table |-> << >>, remap_end |-> -1, remaps |-> 0]

LEMMA NewTableShaped ==
  ASSUME NEW bits \in Nat, NEW u,
         u = [log2_buckets |-> bits, table |-> NewTable(bits), remap_end |-> -1, remaps |-> 0]
  PROVE  Shaped(u) /\ Occupied(u) = {} /\ Packed(u)
<1>1. /\ u.log2_buckets = bits /\ u.table = NewTable(bits) /\ u.remap_end = -1 /\ u.remaps = 0
      /\ u = [log2_buckets |-> u.log2_buckets, table |-> u.table,
              remap_end |-> u.remap_end, remaps |-> u.remaps]
  OBVIOUS
<1>2. CapacityOf(bits) \in Nat
  BY CapacityGrows
<1>3. u.table \in Arrays(u.log2_buckets)
  BY <1>1 DEF NewTable, Arrays, Slot
<1>4. u.remap_end \in -1 .. CapacityOf(u.log2_buckets) - 1 /\ u.remaps \in 0 .. u.log2_buckets
  BY <1>1, <1>2
<1>5. Shaped(u)
  BY <1>1, <1>3, <1>4, Zenon DEF Shaped
<1>6. Occupied(u) = {}
  <2>1. \A p \in DOMAIN u.table : u.table[p] = EmptySlot
    BY <1>1 DEF NewTable
  <2> QED
    BY <2>1 DEF Occupied, Empty, EmptySlot
<1> QED
  BY <1>5, <1>6 DEF Packed

(* The inductive invariant of the table. *)
TableInv ==
  /\ t = NoTable \/ Shaped(t)
  /\ Fits(t) => Packed(t) /\ num_entries = Cardinality(Occupied(t))

LEMMA NoTableFacts ==
  /\ NoTable.table = << >> /\ NoTable.log2_buckets = 0
  /\ NoTable.remap_end = -1 /\ NoTable.remaps = 0
  /\ Occupied(NoTable) = {} /\ Packed(NoTable)
  /\ Cardinality(Occupied(NoTable)) = 0
<1>1. /\ NoTable.table = << >> /\ NoTable.log2_buckets = 0
      /\ NoTable.remap_end = -1 /\ NoTable.remaps = 0
  BY DEF NoTable
<1>2. Occupied(NoTable) = {}
  <2>1. DOMAIN NoTable.table = {}
    BY <1>1
  <2> QED
    BY <2>1 DEF Occupied
<1> QED
  BY <1>1, <1>2, FS_EmptySet DEF Packed

LEMMA AllocatedShaped ==
  ASSUME TableInv
  PROVE  /\ Shaped(Allocated)
         /\ Allocated.log2_buckets = t.log2_buckets
         /\ Fits(Allocated) => Packed(Allocated) /\ num_entries = Cardinality(Occupied(Allocated))
<1>1. CASE t = NoTable
  <2> DEFINE u == [log2_buckets |-> 0, table |-> NewTable(0), remap_end |-> -1, remaps |-> 0]
  <2>1. Allocated = u
    BY <1>1 DEF Allocated, NoTable
  <2>2. Shaped(u) /\ Occupied(u) = {} /\ Packed(u) /\ u.log2_buckets = 0
    BY NewTableShaped
  <2>3. Cardinality({}) = 0
    BY FS_EmptySet
  <2>4. Fits(u) => Fits(t)
    BY <1>1, <2>2, NoTableFacts DEF Fits
  <2>5. Fits(t) => num_entries = 0
    BY <1>1, NoTableFacts DEF TableInv
  <2> HIDE DEF u
  <2> QED
    BY <1>1, <2>1, <2>2, <2>3, <2>4, <2>5, NoTableFacts
<1>2. CASE Shaped(t)
  <2>1. Allocated = t
    BY <1>2, ShapedFacts DEF Allocated
  <2> QED
    BY <1>2, <2>1 DEF TableInv
<1> QED
  BY <1>1, <1>2 DEF TableInv

(* A step that only rearranges the table, with the same number of entries. *)
LEMMA InvRearranged ==
  ASSUME NEW u, NEW r, Shaped(u), NEW n, Fits(u) => Packed(u) /\ n = Cardinality(Occupied(u)),
         Rearranged(u, r)
  PROVE  Shaped(r) /\ (Fits(r) => Packed(r) /\ n = Cardinality(Occupied(r)))
<1>1. Shaped(r) /\ u.log2_buckets <= r.log2_buckets
  BY DEF Rearranged
<1>2. Fits(r) => Fits(u)
  BY <1>1, FitsBelow
<1> QED
  BY <1>1, <1>2 DEF Rearranged

LEMMA LookupStep ==
  ASSUME NEW k \in Keys, TableInv, Lookup(k)
  PROVE  TableInv'
<1> DEFINE look == LookupIndex(t, k, Iterating)
<1>1. num_entries' = num_entries /\ (t' = look.t \/ t' = t)
  BY DEF Lookup, Abort
<1>2. CASE t = NoTable
  <2>1. look.t = t
    BY <1>2, NoTableFacts DEF LookupIndex
  <2> QED
    BY <1>1, <1>2, <2>1 DEF TableInv
<1>3. CASE Shaped(t)
  <2>1. Rearranged(t, look.t)
    BY <1>3, LookupRearranges
  <2> HIDE DEF look
  <2>2. Shaped(look.t) /\ (Fits(look.t) => Packed(look.t) /\ num_entries = Cardinality(Occupied(look.t)))
    BY <1>3, <2>1, InvRearranged DEF TableInv
  <2> QED
    BY <1>1, <1>3, <2>2 DEF TableInv
<1> QED
  BY <1>2, <1>3 DEF TableInv

LEMMA OverwriteStep ==
  ASSUME NEW k \in Keys, NEW v \in Vals, TableInv, Overwrite(k, v)
  PROVE  TableInv'
<1> DEFINE look == LookupIndex(Allocated, k, Iterating)
           w == [look.t EXCEPT !.table[look.position].value = v]
           r == RemapUnlessIterating(w)
<1>1. CASE t' = t /\ num_entries' = num_entries
  BY <1>1 DEF TableInv
<1>2. CASE look.position >= 0 /\ look.asserted /\ t' = r /\ num_entries' = num_entries
  <2>1. /\ Shaped(Allocated)
        /\ Fits(Allocated) => Packed(Allocated) /\ num_entries = Cardinality(Occupied(Allocated))
    BY AllocatedShaped
  <2>2. Rearranged(Allocated, look.t) /\ Points(look.t, look.position)
    BY <1>2, <2>1, LookupRearranges
  <2> HIDE DEF look
  <2>3. /\ Shaped(look.t)
        /\ Fits(look.t) => Packed(look.t) /\ num_entries = Cardinality(Occupied(look.t))
    BY <2>1, <2>2, InvRearranged
  <2>4. /\ Shaped(w) /\ w.log2_buckets = look.t.log2_buckets
        /\ Occupied(w) = Occupied(look.t) /\ (Packed(look.t) => Packed(w))
    BY <2>2, <2>3, Overwrites
  <2> HIDE DEF w
  <2>5. Fits(w) => Packed(w) /\ num_entries = Cardinality(Occupied(w))
    BY <2>3, <2>4 DEF Fits
  <2>6. Rearranged(w, r)
    BY <2>4, RearrangedUnlessIterating
  <2> HIDE DEF r
  <2>7. Shaped(r) /\ (Fits(r) => Packed(r) /\ num_entries = Cardinality(Occupied(r)))
    BY <2>4, <2>5, <2>6, InvRearranged
  <2> QED
    BY <1>2, <2>7 DEF TableInv
<1> QED
  BY <1>1, <1>2 DEF Overwrite, Abort

LEMMA InsertNewStep ==
  ASSUME NEW k \in Keys, NEW v \in Vals, TableInv, InsertNew(k, v)
  PROVE  TableInv'
<1> DEFINE A == Allocated
           b == BucketByHash(k, A.log2_buckets)
           p0 == ScanEnd(A, b, Capacity(A))
           e == Entry(k, v, p0 - b)
           i == InsertAndRelocate(A, e, p0)
           E == InsertEnd(A, p0)
           c == CoverRelocated(i.t, p0, i.last_affected)
           g == IF num_entries + 1 > ThresholdEntries(c) THEN SizeUp(c) ELSE c
           r == RemapUnlessIterating(g)
<1>1. t' = r /\ num_entries' = num_entries + 1
  BY DEF InsertNew
<1>2. /\ Shaped(A)
      /\ Fits(A) => Packed(A) /\ num_entries = Cardinality(Occupied(A))
  BY AllocatedShaped
<1> HIDE DEF A
<1>3. /\ A.log2_buckets \in Nat /\ Capacity(A) \in Nat
      /\ Pow2[A.log2_buckets] <= Capacity(A) /\ Pow2[A.log2_buckets] \in Nat
  BY <1>2, ShapedFacts
<1>4. b \in Nat /\ b < Pow2[A.log2_buckets]
  BY <1>3, BucketInTable
<1> HIDE DEF b
<1>5. p0 \in Int
  <2>1. b \in 0 .. Capacity(A) /\ Capacity(A) \in 0 .. Capacity(A)
    BY <1>3, <1>4
  <2> QED
    BY <1>2, <1>3, <1>4, <2>1, ScanEnds
<1> HIDE DEF p0
<1>6. e \in AnyCell /\ e.distance = p0 - b
  BY <1>4, <1>5 DEF Entry, AnyCell
<1> HIDE DEF e
<1>7. i.last_affected = E
  BY InsertForm
<1>8. /\ Shaped(i.t) /\ A.log2_buckets <= i.t.log2_buckets
      /\ E \in 0 .. Capacity(i.t) - 1 /\ Capacity(i.t) \in Nat
      /\ Packed(A) /\ Fits(i.t) =>
           Packed(i.t) /\ Occupied(i.t) = Occupied(A) \cup {E} /\ E \notin Occupied(A)
  BY <1>2, <1>6, InsertAtEnd DEF b, p0
<1> HIDE DEF i, E
<1>9. Fits(i.t) => Packed(i.t) /\ num_entries + 1 = Cardinality(Occupied(i.t))
  <2> HAVE Fits(i.t)
  <2>1. Fits(A)
    BY <1>2, <1>8, FitsBelow
  <2>2. Packed(i.t) /\ Occupied(i.t) = Occupied(A) \cup {E} /\ E \notin Occupied(A)
    BY <1>2, <1>8, <2>1
  <2>3. IsFiniteSet(Occupied(A))
    BY <1>2, OccupiedFinite
  <2>4. Cardinality(Occupied(i.t)) = Cardinality(Occupied(A)) + 1
    BY <2>2, <2>3, FS_AddElement
  <2> QED
    BY <1>2, <2>1, <2>2, <2>4
<1>10. Rearranged(i.t, c)
  <2>1. CASE c = i.t
    BY <1>8, <2>1, RearrangedSame
  <2>2. CASE c = [i.t EXCEPT !.remap_end = E]
    <3>1. E \in -1 .. CapacityOf(i.t.log2_buckets) - 1
      BY <1>8, ShapedFacts
    <3>2. Shaped(c) /\ c.table = i.t.table /\ c.log2_buckets = i.t.log2_buckets
      BY <1>8, <2>2, <3>1, WithRemapEnd
    <3> HIDE DEF c
    <3> QED
      BY <1>8, <3>2, RearrangedSame
  <2> QED
    BY <1>7, <2>1, <2>2 DEF CoverRelocated
<1> HIDE DEF c
<1>11. Rearranged(c, g)
  <2>1. Shaped(c)
    BY <1>10 DEF Rearranged
  <2> QED
    BY <2>1, RearrangedSizeUp, RearrangedSame
<1> HIDE DEF g
<1>12. Rearranged(g, r)
  BY <1>11, RearrangedUnlessIterating DEF Rearranged
<1> HIDE DEF r
<1>13. Rearranged(i.t, r)
  <2>1. Rearranged(i.t, g)
    BY <1>8, <1>10, <1>11, RearrangedTwice
  <2> QED
    BY <1>8, <1>12, <2>1, RearrangedTwice
<1>14. Shaped(r) /\ (Fits(r) => Packed(r) /\ num_entries + 1 = Cardinality(Occupied(r)))
  BY <1>8, <1>9, <1>13, InvRearranged
<1> QED
  BY <1>1, <1>14 DEF TableInv

LEMMA RemoveFoundStep ==
  ASSUME NEW k \in Keys, TableInv, RemoveFound(k)
  PROVE  TableInv'
<1> DEFINE look == LookupIndex(t, k, Iterating)
           u == look.t
           p == look.position
           r == RemoveAndRelocate(u, p).t
           E == RemoveEnd(u, p)
<1>1. CASE t' = t /\ num_entries' = num_entries
  BY <1>1 DEF TableInv
<1>2. CASE p >= 0 /\ look.asserted /\ t' = r /\ num_entries' = num_entries - 1
  <2>1. Shaped(t)
    <3>1. ASSUME t = NoTable PROVE FALSE
      <4>1. p = -1
        BY <3>1, NoTableFacts DEF LookupIndex
      <4> HIDE DEF look
      <4> QED
        BY <1>2, <4>1
    <3> QED
      BY <3>1 DEF TableInv
  <2>2. Rearranged(t, u) /\ Points(u, p)
    BY <1>2, <2>1, LookupRearranges
  <2> HIDE DEF look
  <2>3. Shaped(u) /\ (Fits(u) => Packed(u) /\ num_entries = Cardinality(Occupied(u)))
    BY <2>1, <2>2, InvRearranged DEF TableInv
  <2>4. p \in 0 .. Capacity(u) - 1 /\ (Fits(u) => p \in Occupied(u))
    BY <2>2 DEF Points
  <2> HIDE DEF u, p
  <2>5. Shaped(r) /\ r.log2_buckets = u.log2_buckets
    BY <2>3, <2>4, RemoveShifts
  <2>6. ASSUME Fits(u)
        PROVE  Packed(r) /\ Occupied(r) = Occupied(u) \ {E} /\ E \in Occupied(u)
    BY <2>3, <2>4, <2>6, RemovePacked
  <2> HIDE DEF r, E
  <2>7. Fits(r) => Packed(r) /\ num_entries - 1 = Cardinality(Occupied(r))
    <3> HAVE Fits(r)
    <3>1. Fits(u)
      BY <2>5 DEF Fits
    <3>2. IsFiniteSet(Occupied(u))
      BY <2>3, OccupiedFinite
    <3>3. Cardinality(Occupied(r)) = Cardinality(Occupied(u)) - 1
      BY <2>6, <3>1, <3>2, FS_RemoveElement
    <3> QED
      BY <2>3, <2>6, <3>1, <3>3
  <2> QED
    BY <1>2, <2>5, <2>7 DEF TableInv
<1> QED
  BY <1>1, <1>2 DEF RemoveFound, Abort

LEMMA LogIsNatural ==
  Log2(InitialSize) \in Nat
<1> DEFINE S == {0} \cup {i \in 0 .. InitialSize : Pow2[i] <= InitialSize}
<1>1. InitialSize \in Nat
  BY DictAssumption
<1>2. S \subseteq Int /\ S # {} /\ InitialSize \in Int /\ \A x \in S : x <= InitialSize /\ 0 <= x
  BY <1>1
<1>3. Log2(InitialSize) = Max(S)
  BY DEF Log2
<1> HIDE DEF S
<1>4. Max(S) \in S
  BY <1>2, GreatestOf
<1>5. Max(S) \in Int /\ 0 <= Max(S)
  BY <1>2, <1>4
<1> QED
  BY <1>3, <1>5

LEMMA TableInit ==
  ASSUME Init
  PROVE  TableInv
<1>1. InitialSize \in Nat /\ Log2(InitialSize) \in Nat /\ num_entries = 0
  BY LogIsNatural, DictAssumption DEF Init
<1>2. CASE InitialSize > 0
  <2>1. t = [log2_buckets |-> Log2(InitialSize), table |-> NewTable(Log2(InitialSize)),
             remap_end |-> -1, remaps |-> 0]
    BY <1>2 DEF Init
  <2>2. Shaped(t) /\ Occupied(t) = {} /\ Packed(t)
    BY <1>1, <2>1, NewTableShaped
  <2> QED
    BY <1>1, <2>2, FS_EmptySet DEF TableInv
<1>3. CASE ~ (InitialSize > 0)
  <2>1. t = NoTable
    BY <1>3 DEF Init, NoTable
  <2> QED
    BY <1>1, <2>1, NoTableFacts DEF TableInv
<1> QED
  BY <1>2, <1>3

LEMMA TableStep ==
  ASSUME TableInv, [Next]_vars
  PROVE  TableInv'
<1>1. CASE UNCHANGED << t, num_entries >>
  BY <1>1 DEF TableInv
<1>2. ASSUME NEW k \in Keys, Lookup(k) PROVE TableInv'
  BY <1>2, LookupStep
<1>3. ASSUME NEW k \in Keys, Remove(k) PROVE TableInv'
  <2>1. CASE RemoveMissing(k)
    BY <1>1, <2>1 DEF RemoveMissing
  <2>2. CASE RemoveFound(k)
    BY <2>2, RemoveFoundStep
  <2> QED
    BY <1>3, <2>1, <2>2 DEF Remove
<1>4. ASSUME NEW k \in Keys, NEW v \in Vals, Insert(k, v) PROVE TableInv'
  BY <1>4, OverwriteStep, InsertNewStep DEF Insert
<1>5. CASE Clear
  <2>1. t' = NoTable /\ num_entries' = 0
    BY <1>5 DEF Clear, NoTable
  <2> QED
    BY <2>1, NoTableFacts DEF TableInv
<1>6. ASSUME NEW c \in Cookies,
             InitForIteration(c) \/ MakeRobustCookie(c) \/ NextEntry(c) \/ StopIteration(c)
      PROVE  UNCHANGED << t, num_entries >>
  BY <1>6 DEF InitForIteration, MakeRobustCookie, NextEntry, NextInserted, NextInTable,
              StopIteration, EndOfIteration, Yield, Abort
<1>7. CASE UNCHANGED vars
  BY <1>1, <1>7 DEF vars
<1> QED
  BY <1>1, <1>2, <1>3, <1>4, <1>5, <1>6, <1>7 DEF Next

(* The table's shape and, while distances fit their field, its clusters    *)
(* survive every sequence of calls.                                        *)
THEOREM TableInvariant == Spec => []TableInv
<1>1. Init => TableInv
  BY TableInit
<1>2. TableInv /\ [Next]_vars => TableInv'
  BY TableStep
<1> QED
  BY <1>1, <1>2, PTL DEF Spec

LEMMA PackedIsClustered ==
  ASSUME Shaped(t), Packed(t), num_entries = Cardinality(Occupied(t))
  PROVE  Clustered
<1>1. /\ Capacity(t) \in Nat \ {0} /\ Occupied(t) \subseteq 0 .. Capacity(t) - 1
      /\ \A p \in 0 .. Capacity(t) - 1 : p \in Occupied(t) <=> ~ Empty(t, p)
      /\ \A p \in 0 .. Capacity(t) - 1 : ~ Empty(t, p) => t.table[p] \in AnyCell
  BY ShapedFacts
<1>2. ASSUME NEW p \in Occupied(t), p > 0
      PROVE  IF Empty(t, p - 1)
             THEN t.table[p].distance = 0
             ELSE BucketByPosition(t, p - 1) <= BucketByPosition(t, p)
  <2> DEFINE b == BucketByPosition(t, p)
  <2>1. p \in 0 .. Capacity(t) - 1 /\ p - 1 \in 0 .. Capacity(t) - 1 /\ p \in Int
    BY <1>1, <1>2
  <2>2. b \in 0 .. p /\ \A q \in b .. p : q \in Occupied(t) /\ BucketByPosition(t, q) <= b
    BY DEF Packed
  <2>3. t.table[p].distance \in Int /\ b = p - t.table[p].distance
    BY <1>1, <2>1 DEF AnyCell, BucketByPosition
  <2> HIDE DEF b
  <2>4. CASE b <= p - 1
    <3>1. p - 1 \in b .. p
      BY <2>1, <2>2, <2>4
    <3>2. p - 1 \in Occupied(t) /\ BucketByPosition(t, p - 1) <= b
      BY <2>2, <3>1
    <3>3. ~ Empty(t, p - 1)
      BY <1>1, <2>1, <3>2
    <3> QED
      BY <3>2, <3>3 DEF b
  <2>5. CASE ~ (b <= p - 1)
    <3>1. b = p
      BY <2>1, <2>2, <2>5
    <3>2. t.table[p].distance = 0
      BY <2>1, <2>3, <3>1
    <3>3. ~ Empty(t, p - 1) => BucketByPosition(t, p - 1) \in 0 .. p - 1
      BY <1>1, <2>1 DEF Packed
    <3>4. ~ Empty(t, p - 1) => BucketByPosition(t, p - 1) <= b
      BY <2>1, <3>1, <3>3
    <3> QED
      BY <3>2, <3>4 DEF b
  <2> QED
    BY <2>4, <2>5
<1>3. \A p \in Occupied(t) : BucketByPosition(t, p) \in 0 .. p
  BY DEF Packed
<1> QED
  BY <1>2, <1>3 DEF Clustered

(* AssertValid() holds after every sequence of Insert, Remove, Lookup,     *)
(* Clear and iteration, at every size, hash function, remap batch and load *)
(* factor: num_entries counts the occupied slots, no entry is before its   *)
(* bucket, buckets never decrease along the table, and an entry behind an  *)
(* empty slot is in its bucket.  The relocations of Insert and Remove, the *)
(* growth in the middle of one, and Remap(), which chains both, keep it.   *)
THEOREM ClustersKept == Spec => [](FitsDistance => Clustered)
<1>1. TableInv => (FitsDistance => Clustered)
  <2> SUFFICES ASSUME TableInv, FitsDistance PROVE Clustered
    OBVIOUS
  <2>1. CASE t = NoTable
    <3>1. Fits(t)
      BY <2>1, NoTableFacts, Pow2Steps DEF Fits, CapacityOf, TOO_FAR_TO_REACH
    <3> QED
      BY <2>1, <3>1, NoTableFacts DEF TableInv, Clustered
  <2>2. CASE Shaped(t)
    <3>1. Fits(t)
      BY <2>2, ShapedFacts DEF FitsDistance, Fits
    <3> QED
      BY <2>2, <3>1, PackedIsClustered DEF TableInv
  <2> QED
    BY <2>1, <2>2 DEF TableInv
<1> QED
  BY <1>1, TableInvariant, PTL

-----------------------------------------------------------------------------
(* Types and iteration cookies *)

CookieFields == {"robust", "next", "inserted", "visited"}

CookieTypes ==
  /\ DOMAIN cookie \subseteq Cookies /\ DOMAIN owed = DOMAIN cookie
  /\ \A c \in DOMAIN cookie : DOMAIN cookie[c] = CookieFields /\ cookie[c].next \in Nat \cup {-1}
  /\ num_iterators \in Nat

LEMMA LeastInRange ==
  ASSUME NEW lo \in Nat, NEW hi \in Nat, NEW S, S \subseteq lo .. hi, hi \in S
  PROVE  Min(S) \in Nat
<1>1. lo \in Int /\ S \subseteq Int /\ S # {} /\ \A x \in S : lo <= x
  OBVIOUS
<1>2. Min(S) \in S
  BY <1>1, LeastOf
<1>3. Min(S) \in lo .. hi
  BY <1>2
<1> HIDE DEF Min
<1> QED
  BY <1>3

LEMMA TableCapacity ==
  ASSUME NEW u, u = NoTable \/ Shaped(u)
  PROVE  Capacity(u) \in Nat
  BY NoTableFacts, ShapedFacts DEF Capacity

LEMMA NextOccupiedNatural ==
  ASSUME NEW u, Capacity(u) \in Nat, NEW p \in Nat \cup {-1}
  PROVE  NextOccupied(u, p) \in Nat
<1> DEFINE S == {i \in p + 1 .. Capacity(u) : i = Capacity(u) \/ ~ Empty(u, i)}
<1>1. p + 1 \in Nat
  OBVIOUS
<1>2. NextOccupied(u, p) = IF p + 1 >= Capacity(u) THEN p + 1 ELSE Min(S)
  BY DEF NextOccupied, First
<1>3. ~ (p + 1 >= Capacity(u)) => S \subseteq p + 1 .. Capacity(u) /\ Capacity(u) \in S
  BY <1>1
<1> HIDE DEF S
<1> QED
  BY <1>1, <1>2, <1>3, LeastInRange

(* Where NextInTable finds the next entry. *)
LEMMA ScanNatural ==
  ASSUME NEW lo \in Nat, NEW c, Capacity(t) \in Nat
  PROVE  First(lo, Capacity(t),
               LAMBDA q : ~Empty(t, q) /\ ~BagIn(t.table[q].key, cookie[c].visited)) \in Nat
<1> DEFINE Stop(q) == ~Empty(t, q) /\ ~BagIn(t.table[q].key, cookie[c].visited)
           S == {i \in lo .. Capacity(t) : i = Capacity(t) \/ Stop(i)}
<1> HIDE DEF Stop
<1>1. ~ (lo >= Capacity(t)) => S \subseteq lo .. Capacity(t) /\ Capacity(t) \in S
  OBVIOUS
<1> HIDE DEF S
<1>2. (IF lo >= Capacity(t) THEN lo ELSE Min(S)) \in Nat
  BY <1>1, LeastInRange
<1> QED
  BY <1>2 DEF First, S, Stop

(* Adjusting a cookie keeps its type. *)
CookieType(c) == DOMAIN c = CookieFields /\ c.next \in Nat \cup {-1}

LEMMA AdjustTypes ==
  ASSUME NEW c, CookieType(c), NEW tab, Capacity(tab) \in Nat,
         NEW e, NEW k, NEW position, NEW last_affected, NEW empty
  PROVE  /\ CookieType(AdjustOnInsert(c, tab, e, position, last_affected))
         /\ CookieType(AdjustOnRemove(c, tab, k, position, last_affected, empty))
<1>1. NextOccupied(tab, c.next) \in Nat
  BY NextOccupiedNatural DEF CookieType
<1>2. CookieType(AdjustOnInsert(c, tab, e, position, last_affected))
  BY DEF CookieType, CookieFields, AdjustOnInsert
<1>3. CookieType(AdjustOnRemove(c, tab, k, position, last_affected, empty))
  BY <1>1 DEF CookieType, CookieFields, AdjustOnRemove
<1> QED
  BY <1>2, <1>3

LEMMA OverwriteCookies ==
  ASSUME NEW k, NEW v, CookieTypes, Overwrite(k, v)
  PROVE  CookieTypes'
<1>1. CASE UNCHANGED << cookie, owed, num_iterators >>
  BY <1>1 DEF CookieTypes
<1>2. CASE /\ cookie' = [c \in DOMAIN cookie |->
                            IF c \in cookies
                            THEN [cookie[c] EXCEPT !.inserted = SetFirst(@, k, v)]
                            ELSE cookie[c]]
           /\ UNCHANGED << owed, num_iterators >>
  <2>1. DOMAIN cookie' = DOMAIN cookie
    BY <1>2
  <2>2. ASSUME NEW c \in DOMAIN cookie PROVE CookieType(cookie'[c])
    <3>1. CookieType(cookie[c])
      BY DEF CookieTypes, CookieType
    <3>2. CookieType([cookie[c] EXCEPT !.inserted = SetFirst(@, k, v)])
      BY <3>1 DEF CookieType, CookieFields
    <3> QED
      BY <1>2, <3>1, <3>2
  <2> QED
    BY <1>2, <2>1, <2>2 DEF CookieTypes, CookieType
<1> QED
  BY <1>1, <1>2 DEF Overwrite, Abort, iteration

LEMMA InsertNewCookies ==
  ASSUME NEW k \in Keys, NEW v \in Vals, TableInv, CookieTypes, InsertNew(k, v)
  PROVE  CookieTypes'
<1> DEFINE A == Allocated
           b == BucketByHash(k, A.log2_buckets)
           p0 == ScanEnd(A, b, Capacity(A))
           e == Entry(k, v, p0 - b)
           i == InsertAndRelocate(A, e, p0)
           Adjusted(c) == AdjustOnInsert(cookie[c], i.t, i.entry, p0, i.last_affected)
<1>1. /\ cookie' = [c \in DOMAIN cookie |->
                      IF c \in cookies THEN Adjusted(c) ELSE cookie[c]]
      /\ owed' = [c \in DOMAIN owed |-> owed[c] \cup {k}]
      /\ num_iterators' = num_iterators
  BY DEF InsertNew
<1>2. Capacity(i.t) \in Nat
  <2>1. Shaped(A)
    BY AllocatedShaped
  <2> HIDE DEF A
  <2>2. /\ A.log2_buckets \in Nat /\ Capacity(A) \in Nat
        /\ Pow2[A.log2_buckets] <= Capacity(A) /\ Pow2[A.log2_buckets] \in Nat
    BY <2>1, ShapedFacts
  <2>3. b \in Nat /\ b < Pow2[A.log2_buckets]
    BY <2>2, BucketInTable
  <2> HIDE DEF b
  <2>4. b \in 0 .. Capacity(A) /\ Capacity(A) \in 0 .. Capacity(A)
    BY <2>2, <2>3
  <2>5. p0 \in Int
    BY <2>1, <2>2, <2>3, <2>4, ScanEnds
  <2> HIDE DEF p0
  <2>6. e \in AnyCell /\ e.distance = p0 - b
    BY <2>3, <2>5 DEF Entry, AnyCell
  <2> HIDE DEF e
  <2> QED
    BY <2>1, <2>6, InsertAtEnd DEF b, p0
<1> HIDE DEF i, p0
<1>3. ASSUME NEW c \in DOMAIN cookie PROVE CookieType(Adjusted(c)) /\ CookieType(cookie[c])
  <2>1. CookieType(cookie[c])
    BY DEF CookieTypes, CookieType
  <2> QED
    BY <1>2, <2>1, AdjustTypes
<1> HIDE DEF Adjusted
<1>4. DOMAIN cookie' = DOMAIN cookie /\ DOMAIN owed' = DOMAIN owed
  BY <1>1
<1>5. \A c \in DOMAIN cookie : CookieType(cookie'[c])
  BY <1>1, <1>3
<1> QED
  BY <1>1, <1>4, <1>5 DEF CookieTypes, CookieType

LEMMA RemoveFoundCookies ==
  ASSUME NEW k \in Keys, TableInv, CookieTypes, RemoveFound(k)
  PROVE  CookieTypes'
<1> DEFINE look == LookupIndex(t, k, Iterating)
           r == RemoveAndRelocate(look.t, look.position)
           Adjusted(c, s) == AdjustOnRemove(cookie[c], r.t, k, look.position,
                                            r.last_affected, c \in s)
<1>1. CASE UNCHANGED << cookie, owed, num_iterators >>
  BY <1>1 DEF CookieTypes
<1>2. ASSUME look.position >= 0, look.asserted, NEW s,
             cookie' = [c \in DOMAIN cookie |->
                          IF c \in cookies THEN Adjusted(c, s) ELSE cookie[c]],
             owed' = [c \in DOMAIN owed |-> owed[c] \ {k}],
             num_iterators' = num_iterators
      PROVE  CookieTypes'
  <2>1. Capacity(r.t) \in Nat
    <3>1. Shaped(t)
      <4>1. ASSUME t = NoTable PROVE FALSE
        <5>1. look.position = -1
          BY <4>1, NoTableFacts DEF LookupIndex
        <5> HIDE DEF look
        <5> QED
          BY <1>2, <5>1
      <4> QED
        BY <4>1 DEF TableInv
    <3>2. Rearranged(t, look.t) /\ Points(look.t, look.position)
      BY <1>2, <3>1, LookupRearranges
    <3> HIDE DEF look
    <3>3. Shaped(look.t) /\ look.position \in 0 .. Capacity(look.t) - 1
      BY <3>2 DEF Rearranged, Points
    <3>4. Capacity(r.t) = Capacity(look.t)
      BY <3>3, RemoveShifts
    <3> HIDE DEF r
    <3> QED
      BY <3>3, <3>4, ShapedFacts
  <2> HIDE DEF r, look
  <2>2. ASSUME NEW c \in DOMAIN cookie PROVE CookieType(Adjusted(c, s)) /\ CookieType(cookie[c])
    <3>1. CookieType(cookie[c])
      BY DEF CookieTypes, CookieType
    <3> QED
      BY <2>1, <3>1, AdjustTypes
  <2> HIDE DEF Adjusted
  <2>3. DOMAIN cookie' = DOMAIN cookie /\ DOMAIN owed' = DOMAIN owed
    BY <1>2
  <2>4. \A c \in DOMAIN cookie : CookieType(cookie'[c])
    BY <1>2, <2>2
  <2> QED
    BY <1>2, <2>3, <2>4 DEF CookieTypes, CookieType
<1> QED
  BY <1>1, <1>2 DEF RemoveFound, Abort, iteration

LEMMA InitForIterationCookies ==
  ASSUME NEW c \in Cookies, CookieTypes, InitForIteration(c)
  PROVE  CookieTypes'
<1> DEFINE new == [robust |-> FALSE, next |-> -1, inserted |-> << >>, visited |-> EmptyBag]
<1>1. /\ cookie' = With(cookie, c, new) /\ c \notin DOMAIN cookie
      /\ owed' = With(owed, c, KeysIn(t))
      /\ num_iterators' = num_iterators + 1
  BY DEF InitForIteration
<1>2. CookieType(new)
  BY DEF CookieType, CookieFields
<1> HIDE DEF new
<1>3. DOMAIN cookie' = DOMAIN cookie \cup {c} /\ DOMAIN owed' = DOMAIN owed \cup {c}
  BY <1>1 DEF With
<1>4. \A d \in DOMAIN cookie' : cookie'[d] = IF d = c THEN new ELSE cookie[d]
  BY <1>1 DEF With
<1>5. \A d \in DOMAIN cookie' : CookieType(cookie'[d])
  BY <1>2, <1>3, <1>4 DEF CookieTypes, CookieType
<1> QED
  BY <1>1, <1>3, <1>5 DEF CookieTypes, CookieType

LEMMA DeleteCookies ==
  ASSUME NEW c, CookieTypes, DeleteCookie(c)
  PROVE  CookieTypes'
<1>1. /\ cookie' = [d \in DOMAIN cookie \ {c} |-> cookie[d]]
      /\ owed' = [d \in DOMAIN owed \ {c} |-> owed[d]]
      /\ num_iterators' = IF num_iterators > 0 THEN num_iterators - 1 ELSE 0
  BY DEF DeleteCookie
<1>2. DOMAIN cookie' = DOMAIN cookie \ {c} /\ DOMAIN owed' = DOMAIN owed \ {c}
  BY <1>1
<1>3. \A d \in DOMAIN cookie' : cookie'[d] = cookie[d]
  BY <1>1
<1>4. num_iterators' \in Nat
  BY <1>1 DEF CookieTypes
<1> QED
  BY <1>2, <1>3, <1>4 DEF CookieTypes

LEMMA YieldCookies ==
  ASSUME NEW c \in DOMAIN cookie, NEW new, NEW k, NEW v,
         CookieTypes, CookieType(new), Yield(c, new, k, v)
  PROVE  CookieTypes'
<1>1. /\ cookie' = [cookie EXCEPT ![c] = new]
      /\ owed' = [owed EXCEPT ![c] = @ \ {k}]
      /\ num_iterators' = num_iterators
  BY DEF Yield
<1>2. DOMAIN cookie' = DOMAIN cookie /\ DOMAIN owed' = DOMAIN owed
  BY <1>1
<1>3. \A d \in DOMAIN cookie : cookie'[d] = IF d = c THEN new ELSE cookie[d]
  BY <1>1
<1>4. \A d \in DOMAIN cookie : CookieType(cookie'[d])
  BY <1>3 DEF CookieTypes, CookieType
<1> QED
  BY <1>1, <1>2, <1>4 DEF CookieTypes, CookieType

LEMMA NextEntryCookies ==
  ASSUME NEW c, TableInv, CookieTypes, NextEntry(c)
  PROVE  CookieTypes'
<1>1. ASSUME NextInserted(c) PROVE CookieTypes'
  <2> DEFINE queue == cookie[c].inserted
             new == [cookie[c] EXCEPT !.inserted = SubSeq(queue, 1, Len(queue) - 1)]
  <2>1. c \in DOMAIN cookie
    BY <1>1 DEF NextInserted
  <2>2. CookieType(new)
    BY <2>1 DEF CookieTypes, CookieType, CookieFields
  <2>3. Yield(c, new, queue[Len(queue)].key, queue[Len(queue)].value)
    BY <1>1 DEF NextInserted
  <2> HIDE DEF new
  <2> QED
    BY <2>1, <2>2, <2>3, YieldCookies
<1>2. ASSUME NextInTable(c) PROVE CookieTypes'
  <2> DEFINE start == IF cookie[c].next < 0 THEN NextOccupied(t, -1) ELSE cookie[c].next
             p == First(start, Capacity(t),
                        LAMBDA q : ~Empty(t, q) /\ ~BagIn(t.table[q].key, cookie[c].visited))
             skipped == {t.table[q].key : q \in Occupied(t) \cap (start .. p - 1)}
             new == [cookie[c] EXCEPT !.next = NextOccupied(t, p),
                                      !.visited = @ (-) SetToBag(skipped)]
  <2>1. c \in DOMAIN cookie
    BY <1>2 DEF NextInTable
  <2>2. Capacity(t) \in Nat
    BY TableCapacity DEF TableInv
  <2>3. cookie[c].next \in Nat \cup {-1} /\ DOMAIN cookie[c] = CookieFields
    BY <2>1 DEF CookieTypes
  <2>4. start \in Nat
    BY <2>2, <2>3, NextOccupiedNatural
  <2> HIDE DEF start
  <2>5. p \in Nat
    BY <2>2, <2>4, ScanNatural DEF First
  <2>6. NextOccupied(t, p) \in Nat
    BY <2>2, <2>5, NextOccupiedNatural
  <2>7. CookieType(new)
    <3> HIDE DEF p, skipped
    <3> QED
      BY <2>3, <2>6 DEF CookieType, CookieFields
  <2>8. \/ EndOfIteration(c)
        \/ Abort("NextEntry:909")
        \/ Yield(c, new, t.table[p].key, t.table[p].value)
    BY <1>2 DEF NextInTable, start
  <2> HIDE DEF new, p
  <2>9. CASE EndOfIteration(c)
    <3>1. DeleteCookie(c) \/ UNCHANGED << cookie, owed, num_iterators >>
      BY <2>9 DEF EndOfIteration, Abort, iteration
    <3> QED
      BY <3>1, DeleteCookies DEF CookieTypes
  <2>10. CASE Abort("NextEntry:909")
    BY <2>10 DEF Abort, iteration, CookieTypes
  <2>11. CASE Yield(c, new, t.table[p].key, t.table[p].value)
    BY <2>1, <2>7, <2>11, YieldCookies
  <2> QED
    BY <2>8, <2>9, <2>10, <2>11
<1> QED
  BY <1>1, <1>2 DEF NextEntry

LEMMA CookieStep ==
  ASSUME TableInv, CookieTypes, [Next]_vars
  PROVE  CookieTypes'
<1>1. CASE UNCHANGED << cookie, owed, num_iterators >>
  BY <1>1 DEF CookieTypes
<1>2. ASSUME NEW k \in Keys, Lookup(k) PROVE CookieTypes'
  BY <1>1, <1>2 DEF Lookup, Abort, iteration
<1>3. ASSUME NEW k \in Keys, Remove(k) PROVE CookieTypes'
  <2>1. CASE RemoveMissing(k)
    BY <1>1, <2>1 DEF RemoveMissing, iteration
  <2>2. CASE RemoveFound(k)
    BY <2>2, RemoveFoundCookies
  <2> QED
    BY <1>3, <2>1, <2>2 DEF Remove
<1>4. ASSUME NEW k \in Keys, NEW v \in Vals, Insert(k, v) PROVE CookieTypes'
  BY <1>4, OverwriteCookies, InsertNewCookies DEF Insert
<1>5. CASE Clear
  <2>1. num_iterators' = 0 /\ cookie' = cookie /\ DOMAIN owed' = DOMAIN owed
    BY <1>5 DEF Clear
  <2> QED
    BY <2>1 DEF CookieTypes
<1>6. ASSUME NEW c \in Cookies, MakeRobustCookie(c) PROVE CookieTypes'
  <2>1. /\ cookie' = [cookie EXCEPT ![c].robust = TRUE] /\ c \in DOMAIN cookie
        /\ UNCHANGED << owed, num_iterators >>
    BY <1>6 DEF MakeRobustCookie
  <2>2. DOMAIN cookie' = DOMAIN cookie
    BY <2>1
  <2>3. \A d \in DOMAIN cookie : CookieType(cookie'[d])
    BY <2>1 DEF CookieTypes, CookieType, CookieFields
  <2> QED
    BY <2>1, <2>2, <2>3 DEF CookieTypes, CookieType
<1>7. ASSUME NEW c \in Cookies, StopIteration(c) PROVE CookieTypes'
  <2>1. DeleteCookie(c) \/ UNCHANGED << cookie, owed, num_iterators >>
    BY <1>7 DEF StopIteration, Abort, iteration
  <2> QED
    BY <1>1, <2>1, DeleteCookies
<1>8. CASE UNCHANGED vars
  BY <1>1, <1>8 DEF vars
<1> QED
  BY <1>2, <1>3, <1>4, <1>5, <1>6, <1>7, <1>8, InitForIterationCookies, NextEntryCookies DEF Next

(* Sizes, counters and cookies keep their types; remap_end stays inside    *)
(* the table and no more resizes are open than the table has seen.         *)
THEOREM TypesKept == Spec => [](FitsDistance => TypeOK)
<1>1. Init => CookieTypes
  BY DEF Init, CookieTypes
<1>2. TableInv /\ CookieTypes /\ [Next]_vars => CookieTypes'
  BY CookieStep
<1>3. TableInv /\ CookieTypes => (FitsDistance => TypeOK)
  <2> SUFFICES ASSUME TableInv, CookieTypes, FitsDistance PROVE TypeOK
    OBVIOUS
  <2>1. CASE t = NoTable
    <3>1. Fits(t)
      BY <2>1, NoTableFacts, Pow2Steps DEF Fits, CapacityOf, TOO_FAR_TO_REACH
    <3>2. num_entries = 0
      BY <2>1, <3>1, NoTableFacts DEF TableInv
    <3>3. /\ t.log2_buckets = 0 /\ t.remap_end = -1 /\ t.remaps = 0 /\ Capacity(t) = 0
          /\ DOMAIN t.table = {}
      BY <2>1, NoTableFacts DEF Capacity
    <3> QED
      BY <3>2, <3>3 DEF CookieTypes, TypeOK
  <2>2. CASE Shaped(t)
    <3>1. Fits(t)
      BY <2>2, ShapedFacts DEF FitsDistance, Fits
    <3>2. num_entries \in Nat
      BY <2>2, <3>1, OccupiedFinite DEF TableInv
    <3> QED
      BY <2>2, <3>2, ShapedFacts DEF CookieTypes, TypeOK
  <2> QED
    BY <2>1, <2>2 DEF TableInv
<1> QED
  BY <1>1, <1>2, <1>3, TableInvariant, PTL DEF Spec

-----------------------------------------------------------------------------
(* The cookies are counted. *)

CookieShapes == \A c \in DOMAIN cookie : DOMAIN cookie[c] = CookieFields

CountInv ==
  /\ CookieShapes
  /\ IsFiniteSet(DOMAIN cookie)
  /\ CookiesAccounted

(* Insert and Remove adjust cookies, but neither their number nor which    *)
(* are robust.                                                             *)
LEMMA ChangesKeepCookies ==
  ASSUME CookieShapes, NEW k, NEW v,
         Lookup(k) \/ Overwrite(k, v) \/ InsertNew(k, v) \/ RemoveMissing(k) \/ RemoveFound(k)
  PROVE  /\ DOMAIN cookie' = DOMAIN cookie
         /\ \A c \in DOMAIN cookie :
              DOMAIN cookie'[c] = CookieFields /\ cookie'[c].robust = cookie[c].robust
         /\ UNCHANGED << cookies, num_iterators >>
<1> DEFINE Kept(c, d) == DOMAIN d = CookieFields /\ d.robust = cookie[c].robust
<1>0. \A c \in DOMAIN cookie : Kept(c, cookie[c])
  BY DEF CookieShapes
<1>1. CASE UNCHANGED << cookie, cookies, num_iterators >>
  BY <1>0, <1>1
<1>2. CASE Overwrite(k, v)
  <2> DEFINE New(c) == [cookie[c] EXCEPT !.inserted = SetFirst(@, k, v)]
  <2>1. CASE /\ cookie' = [c \in DOMAIN cookie |-> IF c \in cookies THEN New(c) ELSE cookie[c]]
             /\ UNCHANGED << cookies, num_iterators >>
    <3>1. \A c \in DOMAIN cookie : Kept(c, New(c))
      BY DEF CookieShapes, CookieFields
    <3> HIDE DEF New
    <3> QED
      BY <1>0, <2>1, <3>1
  <2> QED
    BY <1>1, <1>2, <2>1 DEF Overwrite, Abort, iteration
<1>3. CASE InsertNew(k, v)
  <2> DEFINE b == BucketByHash(k, Allocated.log2_buckets)
             p0 == ScanEnd(Allocated, b, Capacity(Allocated))
             i == InsertAndRelocate(Allocated, Entry(k, v, p0 - b), p0)
             New(c) == AdjustOnInsert(cookie[c], i.t, i.entry, p0, i.last_affected)
  <2>1. /\ cookie' = [c \in DOMAIN cookie |-> IF c \in cookies THEN New(c) ELSE cookie[c]]
        /\ UNCHANGED << cookies, num_iterators >>
    BY <1>3 DEF InsertNew
  <2> HIDE DEF i, p0
  <2>2. \A c \in DOMAIN cookie : Kept(c, New(c))
    BY DEF CookieShapes, CookieFields, AdjustOnInsert
  <2> HIDE DEF New
  <2> QED
    BY <1>0, <2>1, <2>2
<1>4. CASE RemoveFound(k)
  <2> DEFINE look == LookupIndex(t, k, Iterating)
             r == RemoveAndRelocate(look.t, look.position)
             New(c, s) == AdjustOnRemove(cookie[c], r.t, k, look.position,
                                         r.last_affected, c \in s)
  <2>1. ASSUME NEW s,
               cookie' = [c \in DOMAIN cookie |-> IF c \in cookies THEN New(c, s) ELSE cookie[c]],
               UNCHANGED << cookies, num_iterators >>
        PROVE  /\ DOMAIN cookie' = DOMAIN cookie
               /\ \A c \in DOMAIN cookie : Kept(c, cookie'[c])
    <3> HIDE DEF r, look
    <3>1. \A c \in DOMAIN cookie : Kept(c, New(c, s))
      BY DEF CookieShapes, CookieFields, AdjustOnRemove
    <3> HIDE DEF New
    <3> QED
      BY <1>0, <2>1, <3>1
  <2>2. \/ UNCHANGED << cookie, cookies, num_iterators >>
        \/ /\ UNCHANGED << cookies, num_iterators >>
           /\ \E s : cookie' = [c \in DOMAIN cookie |-> IF c \in cookies THEN New(c, s) ELSE cookie[c]]
    BY <1>4 DEF RemoveFound, Abort, iteration
  <2> HIDE DEF New
  <2> QED
    BY <1>1, <2>1, <2>2
<1> QED
  BY <1>1, <1>2, <1>3, <1>4 DEF Lookup, RemoveMissing, Abort, iteration

LEMMA DeleteCounted ==
  ASSUME CountInv, NEW c \in DOMAIN cookie, DeleteCookie(c)
  PROVE  CountInv'
<1>1. /\ cookie' = [d \in DOMAIN cookie \ {c} |-> cookie[d]]
      /\ cookies' = cookies \ {c}
      /\ num_iterators' = IF num_iterators > 0 THEN num_iterators - 1 ELSE 0
  BY DEF DeleteCookie
<1>2. DOMAIN cookie' = DOMAIN cookie \ {c} /\ \A d \in DOMAIN cookie' : cookie'[d] = cookie[d]
  BY <1>1
<1>3. /\ IsFiniteSet(DOMAIN cookie) /\ num_iterators = Cardinality(DOMAIN cookie)
      /\ Cardinality(DOMAIN cookie) \in Nat /\ Cardinality(DOMAIN cookie) # 0
  BY FS_CardinalityType, FS_EmptySet DEF CountInv, CookiesAccounted
<1>4. IsFiniteSet(DOMAIN cookie') /\ Cardinality(DOMAIN cookie') = Cardinality(DOMAIN cookie) - 1
  BY <1>2, <1>3, FS_RemoveElement
<1>5. num_iterators' = Cardinality(DOMAIN cookie')
  BY <1>1, <1>3, <1>4
<1>6. \A d \in cookies' : d \in DOMAIN cookie' /\ cookie'[d].robust
  BY <1>1, <1>2 DEF CountInv, CookiesAccounted
<1>7. CookieShapes'
  BY <1>2 DEF CountInv, CookieShapes
<1> QED
  BY <1>4, <1>5, <1>6, <1>7 DEF CountInv, CookiesAccounted

LEMMA CountStep ==
  ASSUME "clear" \notin ChangesWhileIterating, CountInv, [Next]_vars
  PROVE  CountInv'
<1>1. CASE UNCHANGED << cookie, cookies, num_iterators >>
  BY <1>1 DEF CountInv, CookieShapes, CookiesAccounted
<1>2. ASSUME NEW k, NEW v,
             Lookup(k) \/ Overwrite(k, v) \/ InsertNew(k, v) \/ RemoveMissing(k) \/ RemoveFound(k)
      PROVE  CountInv'
  <2>1. /\ DOMAIN cookie' = DOMAIN cookie
        /\ \A c \in DOMAIN cookie :
             DOMAIN cookie'[c] = CookieFields /\ cookie'[c].robust = cookie[c].robust
        /\ UNCHANGED << cookies, num_iterators >>
    BY <1>2, ChangesKeepCookies DEF CountInv
  <2>2. CookieShapes' /\ IsFiniteSet(DOMAIN cookie')
    BY <2>1 DEF CountInv, CookieShapes
  <2>3. \A c \in cookies' : c \in DOMAIN cookie' /\ cookie'[c].robust
    BY <2>1 DEF CountInv, CookiesAccounted
  <2>4. num_iterators' = Cardinality(DOMAIN cookie')
    BY <2>1 DEF CountInv, CookiesAccounted
  <2> QED
    BY <2>2, <2>3, <2>4 DEF CountInv, CookiesAccounted
<1>3. CASE Clear
  <2>1. num_iterators' = 0 /\ cookie' = cookie /\ cookies' = {} /\ ~ (num_iterators > 0)
    BY <1>3 DEF Clear, May, Iterating
  <2>2. num_iterators \in Nat /\ num_iterators = Cardinality(DOMAIN cookie)
    BY FS_CardinalityType DEF CountInv, CookiesAccounted
  <2>3. Cardinality(DOMAIN cookie) = 0
    BY <2>1, <2>2
  <2> QED
    BY <2>1, <2>3 DEF CountInv, CookieShapes, CookiesAccounted
<1>4. ASSUME NEW c \in Cookies, InitForIteration(c) PROVE CountInv'
  <2> DEFINE new == [robust |-> FALSE, next |-> -1, inserted |-> << >>, visited |-> EmptyBag]
  <2>1. /\ cookie' = With(cookie, c, new) /\ c \notin DOMAIN cookie
        /\ num_iterators' = num_iterators + 1 /\ cookies' = cookies
    BY <1>4 DEF InitForIteration
  <2>2. DOMAIN new = CookieFields
    BY DEF CookieFields
  <2> HIDE DEF new
  <2>3. /\ DOMAIN cookie' = DOMAIN cookie \cup {c}
        /\ \A d \in DOMAIN cookie' : cookie'[d] = IF d = c THEN new ELSE cookie[d]
    BY <2>1 DEF With
  <2>4. /\ IsFiniteSet(DOMAIN cookie')
        /\ Cardinality(DOMAIN cookie') = Cardinality(DOMAIN cookie) + 1
    BY <2>1, <2>3, FS_AddElement DEF CountInv
  <2>5. CookieShapes'
    BY <2>2, <2>3 DEF CountInv, CookieShapes
  <2>6. \A d \in cookies' : d \in DOMAIN cookie' /\ cookie'[d].robust
    BY <2>1, <2>3 DEF CountInv, CookiesAccounted
  <2>7. num_iterators' = Cardinality(DOMAIN cookie')
    BY <2>1, <2>4 DEF CountInv, CookiesAccounted
  <2> QED
    BY <2>4, <2>5, <2>6, <2>7 DEF CountInv, CookiesAccounted
<1>5. ASSUME NEW c \in Cookies, MakeRobustCookie(c) PROVE CountInv'
  <2>1. /\ cookie' = [cookie EXCEPT ![c].robust = TRUE] /\ c \in DOMAIN cookie
        /\ cookies' = cookies \cup {c} /\ num_iterators' = num_iterators
    BY <1>5 DEF MakeRobustCookie
  <2>2. DOMAIN cookie' = DOMAIN cookie
    BY <2>1
  <2>3. /\ \A d \in DOMAIN cookie : DOMAIN cookie'[d] = CookieFields
        /\ \A d \in DOMAIN cookie : d # c => cookie'[d] = cookie[d]
        /\ cookie'[c].robust = TRUE
    BY <2>1 DEF CountInv, CookieShapes, CookieFields
  <2>4. \A d \in cookies' : d \in DOMAIN cookie' /\ cookie'[d].robust
    BY <2>1, <2>2, <2>3 DEF CountInv, CookiesAccounted
  <2> QED
    BY <2>1, <2>2, <2>3, <2>4 DEF CountInv, CookieShapes, CookiesAccounted
<1>6. ASSUME NEW c \in DOMAIN cookie,
             NEW new, NEW k, NEW v, DOMAIN new = CookieFields, new.robust = cookie[c].robust,
             Yield(c, new, k, v)
      PROVE  CountInv'
  <2>1. cookie' = [cookie EXCEPT ![c] = new] /\ UNCHANGED << cookies, num_iterators >>
    BY <1>6 DEF Yield
  <2>2. /\ DOMAIN cookie' = DOMAIN cookie
        /\ \A d \in DOMAIN cookie : cookie'[d] = IF d = c THEN new ELSE cookie[d]
    BY <2>1
  <2>3. CookieShapes'
    BY <1>6, <2>2 DEF CountInv, CookieShapes
  <2>4. \A d \in cookies' : d \in DOMAIN cookie' /\ cookie'[d].robust
    BY <1>6, <2>1, <2>2 DEF CountInv, CookiesAccounted
  <2> QED
    BY <2>1, <2>2, <2>3, <2>4 DEF CountInv, CookiesAccounted
<1>7. ASSUME NEW c \in Cookies, NextInserted(c) PROVE CountInv'
  <2> DEFINE queue == cookie[c].inserted
             new == [cookie[c] EXCEPT !.inserted = SubSeq(queue, 1, Len(queue) - 1)]
  <2>1. c \in DOMAIN cookie /\ Yield(c, new, queue[Len(queue)].key, queue[Len(queue)].value)
    BY <1>7 DEF NextInserted
  <2>2. DOMAIN new = CookieFields /\ new.robust = cookie[c].robust
    BY <2>1 DEF CountInv, CookieShapes, CookieFields
  <2> HIDE DEF new
  <2> QED
    BY <1>6, <2>1, <2>2
<1>8. ASSUME NEW c \in Cookies, NextInTable(c) PROVE CountInv'
  <2> DEFINE start == IF cookie[c].next < 0 THEN NextOccupied(t, -1) ELSE cookie[c].next
             p == First(start, Capacity(t),
                        LAMBDA q : ~Empty(t, q) /\ ~BagIn(t.table[q].key, cookie[c].visited))
             skipped == {t.table[q].key : q \in Occupied(t) \cap (start .. p - 1)}
             new == [cookie[c] EXCEPT !.next = NextOccupied(t, p),
                                      !.visited = @ (-) SetToBag(skipped)]
  <2>1. c \in DOMAIN cookie
    BY <1>8 DEF NextInTable
  <2>2. \/ EndOfIteration(c)
        \/ Abort("NextEntry:909")
        \/ Yield(c, new, t.table[p].key, t.table[p].value)
    BY <1>8 DEF NextInTable
  <2>3. DOMAIN new = CookieFields /\ new.robust = cookie[c].robust
    <3> HIDE DEF p, skipped
    <3> QED
      BY <2>1 DEF CountInv, CookieShapes, CookieFields
  <2> HIDE DEF new, p
  <2>4. EndOfIteration(c) => DeleteCookie(c) \/ UNCHANGED << cookie, cookies, num_iterators >>
    BY DEF EndOfIteration, Abort, iteration
  <2>5. Abort("NextEntry:909") => UNCHANGED << cookie, cookies, num_iterators >>
    BY DEF Abort, iteration
  <2> QED
    BY <1>1, <1>6, <2>1, <2>2, <2>3, <2>4, <2>5, DeleteCounted
<1>9. ASSUME NEW c \in Cookies, StopIteration(c) PROVE CountInv'
  <2>1. c \in DOMAIN cookie /\ (DeleteCookie(c) \/ UNCHANGED << cookie, cookies, num_iterators >>)
    BY <1>9 DEF StopIteration, Abort, iteration
  <2> QED
    BY <1>1, <2>1, DeleteCounted
<1>10. CASE UNCHANGED vars
  BY <1>1, <1>10 DEF vars
<1>11. ASSUME NEW k, NEW v, Lookup(k) \/ Remove(k) \/ Insert(k, v) PROVE CountInv'
  BY <1>2, <1>11 DEF Remove, Insert
<1> QED
  BY <1>3, <1>4, <1>5, <1>7, <1>8, <1>9, <1>10, <1>11 DEF Next, NextEntry

(* Clients that do not clear a dictionary while they iterate over it can   *)
(* rely on the bookkeeping of cookies: num_iterators counts the live ones, *)
(* so remapping is off exactly while one lives, and every cookie that      *)
(* Insert and Remove adjust is live and robust.  (A cookie that survives   *)
(* Clear() is no longer counted.)                                          *)
THEOREM CookiesCounted ==
  ASSUME "clear" \notin ChangesWhileIterating
  PROVE  Spec => []CookiesAccounted
<1>1. Init => CountInv
  BY FS_EmptySet DEF Init, CountInv, CookieShapes, CookiesAccounted
<1>2. CountInv /\ [Next]_vars => CountInv'
  BY CountStep
<1>3. CountInv => CookiesAccounted
  BY DEF CountInv
<1> QED
  BY <1>1, <1>2, <1>3, PTL DEF Spec

-----------------------------------------------------------------------------
(* The entries *)

EntriesStep ==
  \/ EntriesIn(t') = EntriesIn(t)
  \/ ret'.op = "clear" /\ EntriesIn(t') = {}
  \/ /\ ret'.op = "remove"
     /\ EntriesIn(t) = EntriesIn(t') \cup {<< ret'.key, ret'.value >>}
  \/ /\ ret'.op = "insert" /\ ret'.value = NULL
     /\ \E v \in Vals : EntriesIn(t') = EntriesIn(t) \cup {<< ret'.key, v >>}
  \/ /\ ret'.op = "insert"
     /\ \E v \in Vals : EntriesIn(t') \cup {<< ret'.key, ret'.value >>} =
                        EntriesIn(t) \cup {<< ret'.key, v >>}

(* Insert of a key that is present: its pair is replaced. *)
Replaced(k, v) ==
  \E old :
    /\ ret' = [op |-> "insert", key |-> k, value |-> old]
    /\ << k, old >> \in EntriesIn(t) /\ << k, v >> \in EntriesIn(t')
    /\ EntriesIn(t') \cup {<< k, old >>} = EntriesIn(t) \cup {<< k, v >>}

(* Remove of a key that is present: its pair goes. *)
Dropped(k) ==
  \E old :
    /\ ret' = [op |-> "remove", key |-> k, value |-> old]
    /\ EntriesIn(t) = EntriesIn(t') \cup {<< k, old >>}

LEMMA AllocatedEntries ==
  ASSUME TableInv
  PROVE  EntriesIn(Allocated) = EntriesIn(t)
<1>1. CASE t = NoTable
  <2> DEFINE u == [log2_buckets |-> 0, table |-> NewTable(0), remap_end |-> -1, remaps |-> 0]
  <2>1. Allocated = u
    BY <1>1 DEF Allocated, NoTable
  <2>2. Occupied(u) = {}
    BY NewTableShaped
  <2> HIDE DEF u
  <2>3. Occupied(t) = {} /\ Occupied(Allocated) = {}
    BY <1>1, <2>1, <2>2, NoTableFacts
  <2> QED
    BY <2>3 DEF EntriesIn
<1>2. CASE Shaped(t)
  BY <1>2, ShapedFacts DEF Allocated
<1> QED
  BY <1>1, <1>2 DEF TableInv

(* The table of a state that fits is packed, and so is the one before. *)
LEMMA EntriesRearranged ==
  ASSUME NEW u, NEW r, Shaped(u), Fits(u) => Packed(u), Rearranged(u, r), Fits(r)
  PROVE  EntriesIn(r) = EntriesIn(u) /\ Packed(r) /\ Shaped(r) /\ Fits(u)
<1>1. Shaped(r) /\ u.log2_buckets <= r.log2_buckets
  BY DEF Rearranged
<1>2. Fits(u)
  BY <1>1, FitsBelow
<1> QED
  BY <1>1, <1>2 DEF Rearranged

LEMMA LookupEntries ==
  ASSUME NEW k \in Keys, TableInv, Lookup(k), Fits(t')
  PROVE  EntriesIn(t') = EntriesIn(t)
<1> DEFINE look == LookupIndex(t, k, Iterating)
<1>1. t' = look.t \/ t' = t
  BY DEF Lookup, Abort
<1>2. CASE t = NoTable
  <2>1. look.t = t
    BY <1>2, NoTableFacts DEF LookupIndex
  <2> QED
    BY <1>1, <2>1
<1>3. CASE Shaped(t)
  <2>1. Rearranged(t, look.t)
    BY <1>3, LookupRearranges
  <2> HIDE DEF look
  <2>2. t' = look.t => EntriesIn(look.t) = EntriesIn(t)
    BY <1>3, <2>1, EntriesRearranged DEF TableInv
  <2> QED
    BY <1>1, <2>2
<1> QED
  BY <1>2, <1>3 DEF TableInv

LEMMA OverwriteEntries ==
  ASSUME NEW k \in Keys, NEW v \in Vals, TableInv, Overwrite(k, v), Fits(t')
  PROVE  UNCHANGED << t, ret >> \/ Replaced(k, v)
<1> DEFINE look == LookupIndex(Allocated, k, Iterating)
           old == look.t.table[look.position].value
           w == [look.t EXCEPT !.table[look.position].value = v]
           r == RemapUnlessIterating(w)
<1>1. CASE UNCHANGED << t, ret >>
  BY <1>1
<1>2. CASE /\ look.position >= 0 /\ look.asserted /\ t' = r
           /\ ret' = [op |-> "insert", key |-> k, value |-> old]
  <2>1. Shaped(Allocated) /\ (Fits(Allocated) => Packed(Allocated))
    BY AllocatedShaped
  <2>2. /\ Rearranged(Allocated, look.t) /\ Points(look.t, look.position)
        /\ look.t.table[look.position].key = k
    BY <1>2, <2>1, LookupRearranges
  <2> HIDE DEF look
  <2>3. Shaped(look.t)
    BY <2>2 DEF Rearranged
  <2>4. /\ Shaped(w) /\ w.log2_buckets = look.t.log2_buckets
        /\ Packed(look.t) => Packed(w)
        /\ Occupied(w) = Occupied(look.t)
        /\ Fits(look.t) => EntriesIn(w) \cup {<< k, old >>} = EntriesIn(look.t) \cup {<< k, v >>}
    BY <2>2, <2>3, Overwrites
  <2>5. look.position \in DOMAIN look.t.table /\ look.t.table[look.position] \in AnyCell
    BY <2>2, <2>3, ShapedFacts DEF Points
  <2>6. w.table[look.position].key = k /\ w.table[look.position].value = v
    BY <2>2, <2>3, <2>5 DEF Shaped, AnyCell
  <2> HIDE DEF w
  <2>7. Rearranged(w, r)
    BY <2>4, RearrangedUnlessIterating
  <2> HIDE DEF r
  <2>8. Shaped(r) /\ w.log2_buckets <= r.log2_buckets /\ Fits(r)
    BY <1>2, <2>7 DEF Rearranged
  <2>9. Fits(w) /\ Fits(look.t)
    BY <2>4, <2>8, FitsBelow DEF Fits
  <2>10. EntriesIn(look.t) = EntriesIn(Allocated) /\ Packed(look.t)
    BY <2>1, <2>2, <2>9, EntriesRearranged
  <2>11. EntriesIn(r) = EntriesIn(w)
    BY <2>4, <2>7, <2>8, <2>10, EntriesRearranged
  <2>12. EntriesIn(t') \cup {<< k, old >>} = EntriesIn(t) \cup {<< k, v >>}
    BY <1>2, <2>4, <2>9, <2>10, <2>11, AllocatedEntries
  <2>13. look.position \in Occupied(look.t)
    BY <2>2, <2>9 DEF Points
  <2>14. << k, old >> \in EntriesIn(look.t)
    BY <2>2, <2>13 DEF EntriesIn
  <2>15. << k, v >> \in EntriesIn(w)
    BY <2>4, <2>13, <2>6 DEF EntriesIn
  <2>16. << k, old >> \in EntriesIn(t) /\ << k, v >> \in EntriesIn(t')
    BY <1>2, <2>10, <2>11, <2>14, <2>15, AllocatedEntries
  <2> HIDE DEF old
  <2> QED
    BY <1>2, <2>12, <2>16 DEF Replaced
<1> QED
  BY <1>1, <1>2 DEF Overwrite, Abort, Returns

LEMMA InsertNewEntries ==
  ASSUME NEW k \in Keys, NEW v \in Vals, TableInv, InsertNew(k, v), Fits(t')
  PROVE  /\ EntriesIn(t') = EntriesIn(t) \cup {<< k, v >>}
         /\ ret' = [op |-> "insert", key |-> k, value |-> NULL]
<1> DEFINE A == Allocated
           b == BucketByHash(k, A.log2_buckets)
           p0 == ScanEnd(A, b, Capacity(A))
           e == Entry(k, v, p0 - b)
           i == InsertAndRelocate(A, e, p0)
           E == InsertEnd(A, p0)
           c == CoverRelocated(i.t, p0, i.last_affected)
           g == IF num_entries + 1 > ThresholdEntries(c) THEN SizeUp(c) ELSE c
           r == RemapUnlessIterating(g)
<1>1. t' = r /\ ret' = [op |-> "insert", key |-> k, value |-> NULL]
  BY DEF InsertNew, Returns
<1>2. Shaped(A) /\ (Fits(A) => Packed(A)) /\ EntriesIn(A) = EntriesIn(t)
  BY AllocatedShaped, AllocatedEntries
<1> HIDE DEF A
<1>3. /\ A.log2_buckets \in Nat /\ Capacity(A) \in Nat
      /\ Pow2[A.log2_buckets] <= Capacity(A) /\ Pow2[A.log2_buckets] \in Nat
  BY <1>2, ShapedFacts
<1>4. b \in Nat /\ b < Pow2[A.log2_buckets]
  BY <1>3, BucketInTable
<1> HIDE DEF b
<1>5. p0 \in Int
  <2>1. b \in 0 .. Capacity(A) /\ Capacity(A) \in 0 .. Capacity(A)
    BY <1>3, <1>4
  <2> QED
    BY <1>2, <1>3, <1>4, <2>1, ScanEnds
<1> HIDE DEF p0
<1>6. e \in AnyCell /\ e.distance = p0 - b /\ e.key = k /\ e.value = v
  BY <1>4, <1>5 DEF Entry, AnyCell
<1> HIDE DEF e
<1>7. i.last_affected = E
  BY InsertForm
<1>8. /\ Shaped(i.t) /\ A.log2_buckets <= i.t.log2_buckets
      /\ E \in 0 .. Capacity(i.t) - 1 /\ Capacity(i.t) \in Nat
      /\ Packed(A) /\ Fits(i.t) =>
           Packed(i.t) /\ EntriesIn(i.t) = EntriesIn(A) \cup {<< e.key, e.value >>}
  BY <1>2, <1>6, InsertAtEnd DEF b, p0
<1> HIDE DEF i, E
<1>9. Fits(i.t) => Packed(i.t) /\ EntriesIn(i.t) = EntriesIn(t) \cup {<< k, v >>}
  <2>1. Fits(i.t) => Fits(A)
    BY <1>2, <1>8, FitsBelow
  <2> QED
    BY <1>2, <1>6, <1>8, <2>1
<1>10. Rearranged(i.t, c)
  <2>1. CASE c = i.t
    BY <1>8, <2>1, RearrangedSame
  <2>2. CASE c = [i.t EXCEPT !.remap_end = E]
    <3>1. E \in -1 .. CapacityOf(i.t.log2_buckets) - 1
      BY <1>8, ShapedFacts
    <3>2. Shaped(c) /\ c.table = i.t.table /\ c.log2_buckets = i.t.log2_buckets
      BY <1>8, <2>2, <3>1, WithRemapEnd
    <3> HIDE DEF c
    <3> QED
      BY <1>8, <3>2, RearrangedSame
  <2> QED
    BY <1>7, <2>1, <2>2 DEF CoverRelocated
<1> HIDE DEF c
<1>11. Rearranged(c, g)
  <2>1. Shaped(c)
    BY <1>10 DEF Rearranged
  <2> QED
    BY <2>1, RearrangedSizeUp, RearrangedSame
<1> HIDE DEF g
<1>12. Rearranged(g, r)
  BY <1>11, RearrangedUnlessIterating DEF Rearranged
<1> HIDE DEF r
<1>13. Rearranged(i.t, r)
  <2>1. Rearranged(i.t, g)
    BY <1>8, <1>10, <1>11, RearrangedTwice
  <2> QED
    BY <1>8, <1>12, <2>1, RearrangedTwice
<1>14. EntriesIn(r) = EntriesIn(t) \cup {<< k, v >>}
  BY <1>1, <1>8, <1>9, <1>13, EntriesRearranged
<1> QED
  BY <1>1, <1>14

LEMMA RemoveFoundEntries ==
  ASSUME NEW k \in Keys, TableInv, RemoveFound(k), Fits(t')
  PROVE  UNCHANGED << t, ret >> \/ (Dropped(k) /\ num_entries' = num_entries - 1)
<1> DEFINE look == LookupIndex(t, k, Iterating)
           u == look.t
           p == look.position
           r == RemoveAndRelocate(u, p)
<1>1. CASE UNCHANGED << t, ret >>
  BY <1>1
<1>2. CASE /\ p >= 0 /\ look.asserted /\ t' = r.t
           /\ ret' = [op |-> "remove", key |-> k, value |-> r.entry.value]
           /\ num_entries' = num_entries - 1
  <2>1. Shaped(t)
    <3>1. ASSUME t = NoTable PROVE FALSE
      <4>1. p = -1
        BY <3>1, NoTableFacts DEF LookupIndex
      <4> HIDE DEF look
      <4> QED
        BY <1>2, <4>1
    <3> QED
      BY <3>1 DEF TableInv
  <2>2. Rearranged(t, u) /\ Points(u, p) /\ u.table[p].key = k
    BY <1>2, <2>1, LookupRearranges
  <2> HIDE DEF look, p
  <2>3. Shaped(u) /\ p \in 0 .. Capacity(u) - 1
    BY <2>2 DEF Rearranged, Points
  <2> HIDE DEF u
  <2>4. r.t.log2_buckets = u.log2_buckets
    BY <2>3, RemoveShifts
  <2>5. Fits(u)
    BY <1>2, <2>4 DEF Fits
  <2>6. EntriesIn(u) = EntriesIn(t) /\ Packed(u)
    BY <2>1, <2>2, <2>5, EntriesRearranged DEF TableInv
  <2>7. p \in Occupied(u)
    BY <2>2, <2>5 DEF Points
  <2>8. EntriesIn(u) = EntriesIn(r.t) \cup {<< u.table[p].key, u.table[p].value >>}
    BY <2>3, <2>5, <2>6, <2>7, RemovePacked, RemoveEntries
  <2>9. r.entry = u.table[p]
    BY RemoveForm
  <2> HIDE DEF r
  <2>10. /\ ret' = [op |-> "remove", key |-> k, value |-> u.table[p].value]
         /\ EntriesIn(t) = EntriesIn(t') \cup {<< k, u.table[p].value >>}
    BY <1>2, <2>2, <2>6, <2>8, <2>9
  <2> QED
    BY <1>2, <2>10 DEF Dropped
<1> QED
  BY <1>1, <1>2 DEF RemoveFound, Abort, Returns

(* Whatever a call relocates, grows or remaps, it changes the stored pairs *)
(* by its own entry only: for every hash function, remap batch and load    *)
(* factor, with any number of resizes open.                                *)
THEOREM NothingLost == Spec => EntriesKept
<1>1. TableInv /\ [Next]_vars => [FitsDistance' => EntriesStep]_vars
  <2> SUFFICES ASSUME TableInv, TableInv', Next, FitsDistance' PROVE EntriesStep
    BY TableStep
  <2>1. Fits(t')
    <3>1. CASE t' = NoTable
      BY <3>1, NoTableFacts, Pow2Steps DEF Fits, CapacityOf, TOO_FAR_TO_REACH
    <3>2. CASE Shaped(t')
      BY <3>2, ShapedFacts DEF FitsDistance, Fits
    <3> QED
      BY <3>1, <3>2 DEF TableInv
  <2>2. CASE t' = t
    BY <2>2 DEF EntriesStep
  <2>3. ASSUME NEW k \in Keys, Lookup(k) \/ Remove(k) PROVE EntriesStep
    <3>1. CASE Lookup(k)
      BY <2>1, <3>1, LookupEntries DEF EntriesStep
    <3>2. CASE RemoveMissing(k)
      BY <2>2, <3>2 DEF RemoveMissing
    <3>3. CASE RemoveFound(k)
      BY <2>1, <2>2, <3>3, RemoveFoundEntries DEF EntriesStep, Dropped
    <3> QED
      BY <2>3, <3>1, <3>2, <3>3 DEF Remove
  <2>4. ASSUME NEW k \in Keys, NEW v \in Vals, Insert(k, v) PROVE EntriesStep
    <3>1. CASE Overwrite(k, v)
      <4>1. ASSUME Replaced(k, v) PROVE EntriesStep
        <5>1. PICK old :
                /\ ret' = [op |-> "insert", key |-> k, value |-> old]
                /\ EntriesIn(t') \cup {<< k, old >>} = EntriesIn(t) \cup {<< k, v >>}
          BY <4>1 DEF Replaced
        <5>2. ret'.op = "insert" /\ ret'.key = k /\ ret'.value = old
          BY <5>1
        <5> QED
          BY <5>1, <5>2 DEF EntriesStep
      <4> QED
        BY <2>1, <2>2, <3>1, <4>1, OverwriteEntries
    <3>2. CASE InsertNew(k, v)
      <4>1. EntriesIn(t') = EntriesIn(t) \cup {<< k, v >>}
        BY <2>1, <2>4, <3>2, InsertNewEntries
      <4>2. ret'.op = "insert" /\ ret'.key = k /\ ret'.value = NULL
        <5>1. ret' = [op |-> "insert", key |-> k, value |-> NULL]
          BY <2>1, <2>4, <3>2, InsertNewEntries
        <5> QED
          BY <5>1
      <4> QED
        BY <4>1, <4>2 DEF EntriesStep
    <3> QED
      BY <2>4, <3>1, <3>2 DEF Insert
  <2>5. CASE Clear
    <3>1. t' = NoTable /\ ret'.op = "clear"
      BY <2>5 DEF Clear, NoTable, Returns
    <3>2. EntriesIn(t') = {}
      BY <3>1, NoTableFacts DEF EntriesIn
    <3> QED
      BY <3>1, <3>2 DEF EntriesStep
  <2>6. ASSUME NEW c \in Cookies,
               InitForIteration(c) \/ MakeRobustCookie(c) \/ NextEntry(c) \/ StopIteration(c)
        PROVE  t' = t
    BY <2>6 DEF InitForIteration, MakeRobustCookie, NextEntry, NextInserted, NextInTable,
                StopIteration, EndOfIteration, Yield, Abort
  <2> QED
    BY <2>2, <2>3, <2>4, <2>5, <2>6 DEF Next
<1>2. [][FitsDistance' => EntriesStep]_vars => EntriesKept
  BY DEF EntriesKept, EntriesStep
<1> QED
  BY <1>1, <1>2, TableInvariant, PTL DEF Spec

-----------------------------------------------------------------------------
(* Where a key goes as the table doubles. *)

LEMMA Remainder ==
  ASSUME NEW h \in Nat, NEW m \in Nat \ {0}, NEW q \in Nat, NEW r \in Nat,
         h = m * q + r, r < m
  PROVE  h % m = r
  BY SMTT(30)

LEMMA Halves ==
  ASSUME NEW h \in Nat, NEW m \in Nat \ {0}
  PROVE  \/ h % (2 * m) = h % m
         \/ h % (2 * m) = (h % m) + m
<1>1. PICK q \in Nat, r \in 0 .. (2 * m) - 1 : h = (2 * m) * q + r /\ h % (2 * m) = r
  BY SMTT(30)
<1>2. CASE r < m
  <2>1. h = m * (2 * q) + r /\ 2 * q \in Nat /\ r \in Nat
    BY <1>1
  <2> QED
    BY <1>1, <1>2, <2>1, Remainder
<1>3. CASE r >= m
  <2>1. h = m * (2 * q + 1) + (r - m) /\ 2 * q + 1 \in Nat /\ r - m \in Nat /\ r - m < m
    BY <1>1, <1>3
  <2>2. h % m = r - m
    BY <2>1, Remainder
  <2> QED
    BY <1>1, <2>2
<1> QED
  BY <1>1, <1>2, <1>3

(* A key's bucket in a table of twice the size: the same, or one half on. *)
LEMMA BucketDoubles ==
  ASSUME NEW k \in Keys, NEW n \in Nat
  PROVE  \/ BucketByHash(k, n + 1) = BucketByHash(k, n)
         \/ BucketByHash(k, n + 1) = BucketByHash(k, n) + Pow2[n]
<1>1. Hash[k] \in Nat /\ Pow2[n] \in Nat \ {0} /\ Pow2[n + 1] = 2 * Pow2[n]
  BY TableAssumption, Pow2Positive, Pow2Steps
<1> QED
  BY <1>1, Halves DEF BucketByHash

(* In an older, smaller table the bucket was no later one. *)
LEMMA OlderBucketBelow ==
  ASSUME NEW k \in Keys, NEW n \in Nat, NEW j \in 0 .. n
  PROVE  /\ BucketByHash(k, n - j) <= BucketByHash(k, n)
         /\ BucketByHash(k, n - j) \in Nat /\ BucketByHash(k, n) \in Nat
<1> DEFINE S == {d \in Nat : d <= n => BucketByHash(k, n - d) <= BucketByHash(k, n)}
<1>1. 0 \in S
  <2>1. n - 0 = n /\ BucketByHash(k, n) \in Nat
    BY BucketInTable
  <2> QED
    BY <2>1
<1>2. ASSUME NEW d \in Nat, d \in S PROVE d + 1 \in S
  <2> SUFFICES ASSUME d + 1 <= n PROVE BucketByHash(k, n - (d + 1)) <= BucketByHash(k, n)
    OBVIOUS
  <2>1. PICK m \in Nat : m = n - (d + 1)
    OBVIOUS
  <2>2. m + 1 = n - d /\ d <= n
    BY <2>1
  <2>3. BucketByHash(k, n - d) <= BucketByHash(k, n)
    BY <1>2, <2>2
  <2>4. /\ BucketByHash(k, m) \in Nat /\ BucketByHash(k, m + 1) \in Nat
        /\ BucketByHash(k, n) \in Nat /\ Pow2[m] \in Nat
    BY BucketInTable, Pow2Positive
  <2>5. BucketByHash(k, m) <= BucketByHash(k, m + 1)
    BY <2>4, BucketDoubles
  <2> QED
    BY <2>1, <2>2, <2>3, <2>4, <2>5
<1> HIDE DEF S
<1>3. j \in S
  BY <1>1, <1>2, SetInduction
<1>4. n - j \in Nat
  OBVIOUS
<1> QED
  BY <1>3, <1>4, BucketInTable DEF S

(* In an older table it was in the lower half of the present one. *)
LEMMA OlderBucketInLowerHalf ==
  ASSUME NEW k \in Keys, NEW m \in Nat, NEW j \in 1 .. m + 1
  PROVE  BucketByHash(k, (m + 1) - j) < Pow2[m]
<1>1. PICK d \in 0 .. m : d = j - 1
  OBVIOUS
<1>2. (m + 1) - j = m - d
  BY <1>1
<1>3. /\ BucketByHash(k, m - d) <= BucketByHash(k, m)
      /\ BucketByHash(k, m - d) \in Nat /\ BucketByHash(k, m) \in Nat
  BY OlderBucketBelow
<1>4. BucketByHash(k, m) < Pow2[m] /\ Pow2[m] \in Nat
  BY BucketInTable, Pow2Positive
<1> QED
  BY <1>2, <1>3, <1>4

-----------------------------------------------------------------------------
(* No key is stored twice: there are as many keys as entries. *)

Distinct(u) == Cardinality(KeysIn(u)) = Cardinality(Occupied(u))

LEMMA KeysOfEntries ==
  ASSUME NEW u
  PROVE  KeysIn(u) = {x[1] : x \in EntriesIn(u)}
<1>1. ASSUME NEW y \in KeysIn(u) PROVE y \in {x[1] : x \in EntriesIn(u)}
  <2>1. PICK p \in Occupied(u) : y = u.table[p].key
    BY DEF KeysIn
  <2> DEFINE x == << u.table[p].key, u.table[p].value >>
  <2>2. x \in EntriesIn(u) /\ x[1] = y
    BY <2>1 DEF EntriesIn
  <2> QED
    BY <2>2
<1>2. ASSUME NEW x \in EntriesIn(u) PROVE x[1] \in KeysIn(u)
  <2>1. PICK p \in Occupied(u) : x = << u.table[p].key, u.table[p].value >>
    BY DEF EntriesIn
  <2> QED
    BY <2>1 DEF KeysIn
<1> QED
  BY <1>1, <1>2

LEMMA KeysOntoPositions ==
  ASSUME NEW u, Shaped(u)
  PROVE  /\ IsFiniteSet(KeysIn(u))
         /\ Cardinality(KeysIn(u)) \in Nat
         /\ Cardinality(KeysIn(u)) <= Cardinality(Occupied(u))
         /\ Distinct(u) <=> \A p, q \in Occupied(u) : u.table[p].key = u.table[q].key => p = q
<1> DEFINE f == [p \in Occupied(u) |-> u.table[p].key]
<1>1. IsFiniteSet(Occupied(u)) /\ Cardinality(Occupied(u)) \in Nat
  BY OccupiedFinite
<1>2. f \in Surjection(Occupied(u), KeysIn(u))
  BY DEF Surjection, KeysIn
<1>3. f \in Injection(Occupied(u), KeysIn(u)) <=>
        \A p, q \in Occupied(u) : u.table[p].key = u.table[q].key => p = q
  <2>1. f \in [Occupied(u) -> KeysIn(u)] /\ \A p \in Occupied(u) : f[p] = u.table[p].key
    BY DEF KeysIn
  <2> HIDE DEF f
  <2> QED
    BY <2>1, Zenon DEF Injection, IsInjective
<1> HIDE DEF f
<1>4. /\ IsFiniteSet(KeysIn(u))
      /\ Cardinality(KeysIn(u)) <= Cardinality(Occupied(u))
      /\ Cardinality(KeysIn(u)) = Cardinality(Occupied(u)) <=> f \in Injection(Occupied(u), KeysIn(u))
  BY <1>1, <1>2, FS_Surjection
<1>5. Cardinality(KeysIn(u)) \in Nat
  BY <1>4, FS_CardinalityType
<1> QED
  BY <1>3, <1>4, <1>5 DEF Distinct

LEMMA RearrangedDistinct ==
  ASSUME NEW u, NEW r, Rearranged(u, r), Packed(u), Fits(r)
  PROVE  KeysIn(r) = KeysIn(u) /\ (Distinct(u) => Distinct(r))
<1>1. Cardinality(Occupied(r)) = Cardinality(Occupied(u)) /\ EntriesIn(r) = EntriesIn(u)
  BY DEF Rearranged
<1>2. KeysIn(r) = KeysIn(u)
  BY <1>1, KeysOfEntries
<1> QED
  BY <1>1, <1>2 DEF Distinct

-----------------------------------------------------------------------------
(* Where an entry comes from.  Relocation changes neither key nor bucket.  *)

LEMMA InsertOrigin ==
  ASSUME NEW u, Shaped(u), NEW p0 \in 0 .. Capacity(u), NEW e \in AnyCell,
         NEW r, r = InsertAndRelocate(u, e, p0).t, NEW E, E = InsertEnd(u, p0),
         NEW p \in Occupied(r), p # p0
  PROVE  \E f \in Occupied(u) :
           /\ f <= p
           /\ r.table[p].key = u.table[f].key
           /\ BucketByPosition(r, p) = BucketByPosition(u, f)
           /\ f = p \/ (p0 <= f /\ p <= E)
<1> DEFINE c == Capacity(u)
<1>1. c \in Nat \ {0} /\ \A q \in 0 .. c - 1 : (q \in Occupied(u) <=> ~ Empty(u, q))
  BY ShapedFacts
<1>2. /\ Shaped(r) /\ Capacity(r) \in Nat /\ c <= Capacity(r)
      /\ E \in p0 .. c /\ E < Capacity(r)
      /\ \A q \in 0 .. c - 1 : q < p0 \/ E < q => r.table[q] = u.table[q]
      /\ \A q \in c .. Capacity(r) - 1 : E < q => Empty(r, q)
      /\ \A q \in p0 + 1 .. E : BucketByPosition(r, q) = BucketByPosition(u, q - 1)
  BY InsertShifts
<1>3. p \in 0 .. Capacity(r) - 1 /\ ~ Empty(r, p)
  BY <1>2, ShapedFacts
<1>4. CASE p < p0 \/ E < p
  <2>1. p \in 0 .. c - 1
    BY <1>1, <1>2, <1>3, <1>4
  <2>2. r.table[p] = u.table[p]
    BY <1>2, <1>4, <2>1
  <2>3. p \in Occupied(u) /\ BucketByPosition(r, p) = BucketByPosition(u, p) /\ p <= p
    BY <1>1, <1>3, <2>1, <2>2 DEF Empty, BucketByPosition
  <2> QED
    BY <2>2, <2>3
<1>5. CASE p \in p0 + 1 .. E
  <2> DEFINE g == InsertGrown(u, p0)
             F == InsertFrom(u, p0, p)
  <2>1. r.table[p] = IF p \in InsertChain(u, p0) THEN InsertPlaced(u, e, p0, p) ELSE g.table[p]
    <3>1. r = [g EXCEPT !.table = InsertSlots(u, e, p0)]
      BY InsertForm
    <3>2. Shaped(g) /\ Capacity(g) = Capacity(r)
      <4>1. r.log2_buckets = (IF E = c THEN u.log2_buckets + 1 ELSE u.log2_buckets)
        BY InsertShifts
      <4>2. Shaped(g) /\ g.log2_buckets = r.log2_buckets
        BY <4>1, SizeUpShaped DEF InsertGrown
      <4> QED
        BY <1>2, <4>2, ShapedFacts
    <3>3. r.table = InsertSlots(u, e, p0)
      BY <3>1, <3>2 DEF Shaped
    <3>4. p \in DOMAIN g.table
      BY <1>3, <3>2, ShapedFacts
    <3> HIDE DEF g
    <3> QED
      BY <3>3, <3>4 DEF InsertSlots, g
  <2>2. BucketByPosition(r, p) = BucketByPosition(u, p - 1)
    BY <1>2, <1>5
  <2>3. CASE p \in InsertChain(u, p0)
    <3>1. F \in p0 .. p - 1 /\ u.table[F] \in AnyCell /\ BucketByPosition(u, F) = BucketByPosition(u, p - 1)
      BY <1>5, InsertComesFrom
    <3>2. \A q \in p0 .. E - 1 : ~ Empty(u, q)
      BY InsertEnds
    <3>3. r.table[p] = [u.table[F] EXCEPT !.distance = @ + p - F]
      BY <2>1, <2>3 DEF InsertPlaced
    <3> HIDE DEF F
    <3>4. r.table[p].key = u.table[F].key
      BY <3>1, <3>3 DEF AnyCell
    <3>5. F \in Occupied(u) /\ F <= p /\ p0 <= F /\ p <= E
      BY <1>1, <1>2, <1>5, <3>1, <3>2
    <3> QED
      BY <2>2, <3>1, <3>4, <3>5
  <2>4. CASE p \notin InsertChain(u, p0)
    <3>1. p # E /\ BucketByPosition(u, p) = BucketByPosition(u, p - 1)
      BY <1>1, <1>2, <1>5, <2>4 DEF InsertChain
    <3>2. p \in 0 .. c - 1
      BY <1>1, <1>2, <1>5, <3>1
    <3>3. g.table[p] = u.table[p]
      BY <3>2, SizeUpShaped DEF InsertGrown
    <3>4. r.table[p] = u.table[p]
      BY <2>1, <2>4, <3>3
    <3>5. p \in Occupied(u) /\ BucketByPosition(r, p) = BucketByPosition(u, p) /\ p <= p
      BY <1>1, <1>3, <3>2, <3>4 DEF Empty, BucketByPosition
    <3> QED
      BY <3>4, <3>5
  <2> QED
    BY <2>3, <2>4
<1> QED
  BY <1>1, <1>2, <1>3, <1>4, <1>5

LEMMA RemoveOrigin ==
  ASSUME NEW u, Shaped(u), NEW p0 \in 0 .. Capacity(u) - 1,
         NEW r, r = RemoveAndRelocate(u, p0).t, NEW E, E = RemoveEnd(u, p0),
         NEW p \in Occupied(r)
  PROVE  \E f \in Occupied(u) :
           /\ p <= f
           /\ r.table[p].key = u.table[f].key /\ r.table[p].value = u.table[f].value
           /\ BucketByPosition(r, p) = BucketByPosition(u, f)
           /\ f = p \/ (p0 <= p /\ f <= E)
<1> DEFINE c == Capacity(u)
<1>1. c \in Nat \ {0} /\ \A q \in 0 .. c - 1 : (q \in Occupied(u) <=> ~ Empty(u, q))
  BY ShapedFacts
<1>2. /\ Shaped(r) /\ Capacity(r) = c
      /\ E \in p0 .. c - 1 /\ Empty(r, E)
      /\ \A q \in 0 .. c - 1 : q < p0 \/ E < q => r.table[q] = u.table[q]
      /\ \A q \in p0 .. E - 1 : BucketByPosition(r, q) = BucketByPosition(u, q + 1)
  BY RemoveShifts
<1>3. p \in 0 .. c - 1 /\ ~ Empty(r, p)
  BY <1>2, ShapedFacts
<1>4. CASE p < p0 \/ E < p
  <2>1. r.table[p] = u.table[p]
    BY <1>2, <1>3, <1>4
  <2>2. p \in Occupied(u) /\ BucketByPosition(r, p) = BucketByPosition(u, p) /\ p <= p
    BY <1>1, <1>3, <2>1 DEF Empty, BucketByPosition
  <2> QED
    BY <2>1, <2>2
<1>5. CASE p \in p0 .. E - 1
  <2> DEFINE F == RemoveFrom(u, p0, p)
  <2>1. r.table[p] = IF p \in RemoveChain(u, p0) THEN RemoveFilled(u, p0, p) ELSE u.table[p]
    <3>1. r = [u EXCEPT !.table = RemoveSlots(u, p0)]
      BY RemoveForm
    <3>2. r.table = RemoveSlots(u, p0)
      BY <3>1 DEF Shaped
    <3>3. p \in DOMAIN u.table
      BY <1>3, ShapedFacts
    <3> QED
      BY <3>2, <3>3 DEF RemoveSlots
  <2>2. BucketByPosition(r, p) = BucketByPosition(u, p + 1)
    BY <1>2, <1>5
  <2>3. CASE p \in RemoveChain(u, p0)
    <3>1. F \in p + 1 .. E /\ u.table[F] \in AnyCell /\ BucketByPosition(u, F) = BucketByPosition(u, p + 1)
      BY <1>5, RemoveComesFrom
    <3>2. \A q \in p0 + 1 .. E : ~ Empty(u, q)
      BY RemoveEnds
    <3>3. r.table[p] = [u.table[F] EXCEPT !.distance = @ - (F - p)]
      BY <1>1, <1>2, <1>5, <2>1, <2>3 DEF RemoveFilled
    <3> HIDE DEF F
    <3>4. r.table[p].key = u.table[F].key /\ r.table[p].value = u.table[F].value
      BY <3>1, <3>3 DEF AnyCell
    <3>5. F \in Occupied(u) /\ p <= F /\ p0 <= p /\ F <= E
      BY <1>1, <1>2, <1>5, <3>1, <3>2
    <3> QED
      BY <2>2, <3>1, <3>4, <3>5
  <2>4. CASE p \notin RemoveChain(u, p0)
    <3>1. r.table[p] = u.table[p]
      BY <2>1, <2>4
    <3>2. p \in Occupied(u) /\ BucketByPosition(r, p) = BucketByPosition(u, p) /\ p <= p
      BY <1>1, <1>3, <3>1 DEF Empty, BucketByPosition
    <3> QED
      BY <3>1, <3>2
  <2> QED
    BY <2>3, <2>4
<1>6. p # E
  BY <1>2, <1>3
<1>7. p < p0 \/ E < p \/ p \in p0 .. E - 1
  BY <1>1, <1>2, <1>3, <1>6
<1> QED
  BY <1>4, <1>5, <1>7

-----------------------------------------------------------------------------
(* Every entry is in its bucket at the present size or at one of the older *)
(* sizes that are counted, and past remap_end only at the present one.     *)

Sized(u) ==
  \A p \in Occupied(u) :
    \E j \in 0 .. u.remaps :
      BucketByPosition(u, p) = BucketByHash(u.table[p].key, u.log2_buckets - j)

Bounded(u) == \A p \in Misplaced(u) : p <= u.remap_end

Mapped(u) == Sized(u) /\ Bounded(u)

(* The scan from an entry's bucket to any later slot finds the entry. *)
LEMMA ScanForSees ==
  ASSUME NEW u, Shaped(u), Packed(u), Distinct(u), NEW p \in Occupied(u),
         NEW hi \in p + 1 .. Capacity(u)
  PROVE  ScanFor(u, u.table[p].key, BucketByPosition(u, p), hi) = p
<1> DEFINE b == BucketByPosition(u, p)
           k == u.table[p].key
           z == ScanEnd(u, b, hi)
           hits == {i \in b .. z - 1 : BucketByPosition(u, i) = b /\ u.table[i].key = k}
<1>1. /\ Capacity(u) \in Nat /\ p \in 0 .. Capacity(u) - 1 /\ ~ Empty(u, p)
      /\ \A q \in 0 .. Capacity(u) - 1 : ~ Empty(u, q) => BucketByPosition(u, q) \in Int
      /\ \A q \in Occupied(u) : q \in 0 .. Capacity(u) - 1 /\ ~ Empty(u, q)
  BY ShapedFacts
<1>2. b \in 0 .. p /\ \A q \in b .. p : q \in Occupied(u) /\ BucketByPosition(u, q) <= b
  BY DEF Packed
<1> HIDE DEF b
<1>3. hi \in 0 .. Capacity(u) /\ b \in 0 .. hi /\ p \in Int /\ hi \in Int /\ b \in Int
  BY <1>1, <1>2
<1>4. /\ z \in b .. hi
      /\ \A q \in b .. z - 1 : q \in Occupied(u)
      /\ z < hi => Empty(u, z) \/ BucketByPosition(u, z) > b
  BY <1>3, ScanEnds
<1> HIDE DEF z
<1>5. p < z
  <2> SUFFICES ASSUME z <= p PROVE FALSE
    BY <1>3, <1>4
  <2>1. z \in b .. p /\ z < hi
    BY <1>3, <1>4
  <2>2. z \in Occupied(u) /\ BucketByPosition(u, z) <= b
    BY <1>2, <2>1
  <2>3. ~ Empty(u, z) /\ BucketByPosition(u, z) \in Int
    BY <1>1, <2>2
  <2> QED
    BY <1>3, <1>4, <2>1, <2>2, <2>3
<1>6. p \in hits
  BY <1>2, <1>3, <1>4, <1>5 DEF b
<1>7. hits \subseteq Int /\ \A x \in hits : b <= x
  BY <1>3, <1>4
<1>8. \A x \in hits : x \in Occupied(u) /\ u.table[x].key = k
  BY <1>4
<1>9. ScanFor(u, k, b, hi) = IF hits = {} THEN -1 ELSE Min(hits)
  BY DEF ScanFor, z
<1> HIDE DEF hits, k
<1>10. Min(hits) \in hits
  BY <1>3, <1>6, <1>7, LeastOf
<1>11. Min(hits) = p
  BY <1>8, <1>10, KeysOntoPositions DEF k
<1> QED
  BY <1>6, <1>9, <1>11 DEF b, k

LEMMA LinearSearchFinds ==
  ASSUME NEW u, Shaped(u), Distinct(u), NEW p \in Occupied(u)
  PROVE  LinearLookupIndex(u, u.table[p].key) = p
<1> DEFINE hits == {q \in Occupied(u) : u.table[q].key = u.table[p].key}
<1>1. hits \subseteq Int /\ p \in hits /\ \A x \in hits : 0 <= x
  BY ShapedFacts
<1>2. \A x \in hits : x = p
  BY KeysOntoPositions
<1>3. LinearLookupIndex(u, u.table[p].key) = IF hits = {} THEN -1 ELSE Min(hits)
  BY DEF LinearLookupIndex
<1> HIDE DEF hits
<1>4. 0 \in Int /\ hits # {}
  BY <1>1
<1>5. Min(hits) \in hits
  BY <1>1, <1>4, LeastOf
<1> QED
  BY <1>2, <1>3, <1>4, <1>5

(* The debug assertions of LookupIndex. *)
LEMMA HashedSearchFinds ==
  ASSUME NEW u, Shaped(u), Packed(u), Distinct(u), Mapped(u), NEW p \in Occupied(u),
         NEW k, k = u.table[p].key
  PROVE  /\ p \notin Misplaced(u) => ScanCurrent(u, k) = p
         /\ p \in Misplaced(u) =>
              ScanCurrent(u, k) = -1 /\ OlderSizesWith(u, k) # {} /\ OlderPosition(u, k) = p
<1> DEFINE n == u.log2_buckets
           b == BucketByPosition(u, p)
           c == Capacity(u)
<1>1. /\ c \in Nat /\ p \in 0 .. c - 1 /\ u.table[p] \in AnyCell /\ n \in Nat
      /\ u.remap_end \in -1 .. c - 1 /\ u.remaps \in 0 .. n
  BY ShapedFacts
<1>2. k \in Keys
  BY <1>1 DEF AnyCell
<1>3. b \in 0 .. p
  BY DEF Packed
<1>4. ASSUME p \notin Misplaced(u) PROVE ScanCurrent(u, k) = p
  <2>1. b = BucketByHash(k, n)
    BY <1>4 DEF Misplaced
  <2>2. c \in p + 1 .. c
    BY <1>1
  <2> QED
    BY <2>1, <2>2, ScanForSees DEF ScanCurrent
<1>5. ASSUME p \in Misplaced(u)
      PROVE  ScanCurrent(u, k) = -1 /\ OlderSizesWith(u, k) # {} /\ OlderPosition(u, k) = p
  <2>1. b # BucketByHash(k, n) /\ p <= u.remap_end
    BY <1>5 DEF Misplaced, Mapped, Bounded
  <2>2. ScanCurrent(u, k) = -1
    <3> DEFINE d == BucketByHash(k, n)
               hits == {i \in d .. ScanEnd(u, d, c) - 1 : BucketByPosition(u, i) = d /\ u.table[i].key = k}
    <3>1. ScanCurrent(u, k) = IF hits = {} THEN -1 ELSE Min(hits)
      BY DEF ScanCurrent, ScanFor
    <3>2. d \in 0 .. c /\ c \in 0 .. c
      <4>1. d \in Nat /\ d < Pow2[n] /\ Pow2[n] <= c /\ Pow2[n] \in Nat
        BY <1>1, <1>2, BucketInTable, ShapedFacts
      <4> HIDE DEF d
      <4> QED
        BY <1>1, <4>1
    <3>3. \A q \in d .. ScanEnd(u, d, c) - 1 : q \in Occupied(u)
      BY <3>2, ScanEnds
    <3>4. ASSUME NEW i \in hits PROVE FALSE
      <4>1. i \in Occupied(u) /\ u.table[i].key = u.table[p].key /\ BucketByPosition(u, i) = d
        BY <3>3, <3>4
      <4>2. i = p
        BY <4>1, KeysOntoPositions
      <4> QED
        BY <2>1, <4>1, <4>2
    <3> QED
      BY <3>1, <3>4
  <2>3. PICK j \in 0 .. u.remaps : b = BucketByHash(k, n - j)
    BY DEF Mapped, Sized
  <2>4. j \in 1 .. u.remaps
    <3>1. j # 0
      <4>1. n - 0 = n
        BY <1>1
      <4> QED
        BY <2>1, <2>3, <4>1
    <3> QED
      BY <1>1, <3>1
  <2>5. ScanOlder(u, k, j) = p
    <3>1. b <= u.remap_end /\ u.remap_end + 1 \in p + 1 .. c
      BY <1>1, <1>3, <2>1
    <3>2. ScanFor(u, k, b, u.remap_end + 1) = p
      BY <3>1, ScanForSees
    <3> QED
      BY <2>3, <3>1, <3>2 DEF ScanOlder
  <2>6. j \in OlderSizesWith(u, k)
    BY <1>1, <2>4, <2>5 DEF OlderSizesWith
  <2>7. OlderPosition(u, k) \in Occupied(u) /\ u.table[OlderPosition(u, k)].key = k
    BY <1>2, <2>6, OlderPositionFinds
  <2>8. OlderPosition(u, k) = p
    BY <2>7, KeysOntoPositions
  <2> QED
    BY <2>2, <2>6, <2>8
<1> QED
  BY <1>4, <1>5

-----------------------------------------------------------------------------
(* Relocation, growth and remapping keep every entry in such a place. *)

LEMMA BucketsOrdered ==
  ASSUME NEW u, Shaped(u), Packed(u), NEW p \in Occupied(u), NEW q \in Occupied(u), p <= q
  PROVE  /\ BucketByPosition(u, p) \in Nat /\ BucketByPosition(u, q) \in Nat
         /\ BucketByPosition(u, p) <= BucketByPosition(u, q)
<1>1. p \in Nat /\ q \in Nat
  BY ShapedFacts
<1>2. /\ BucketByPosition(u, p) \in 0 .. p /\ BucketByPosition(u, q) \in 0 .. q
      /\ \A x \in BucketByPosition(u, q) .. q : BucketByPosition(u, x) <= BucketByPosition(u, q)
  BY DEF Packed
<1>3. PICK a \in Nat : a = BucketByPosition(u, p)
  BY <1>1, <1>2
<1>4. PICK b \in Nat : b = BucketByPosition(u, q)
  BY <1>1, <1>2
<1>5. a <= p /\ \A x \in b .. q : BucketByPosition(u, x) <= b
  BY <1>1, <1>2, <1>3, <1>4
<1>6. a <= b
  <2>1. CASE b <= p
    <3>1. p \in b .. q
      BY <1>1, <1>4, <2>1
    <3> QED
      BY <1>3, <1>5, <3>1
  <2>2. CASE ~ (b <= p)
    BY <1>1, <1>3, <1>4, <1>5, <2>2
  <2> QED
    BY <2>1, <2>2
<1> QED
  BY <1>3, <1>4, <1>6

(* A misplaced entry comes from a smaller table. *)
LEMMA MisplacedIsOlder ==
  ASSUME NEW u, Shaped(u), Sized(u), NEW p \in Misplaced(u)
  PROVE  /\ u.table[p].key \in Keys
         /\ \E j \in 1 .. u.remaps :
              BucketByPosition(u, p) = BucketByHash(u.table[p].key, u.log2_buckets - j)
         /\ BucketByPosition(u, p) < BucketByHash(u.table[p].key, u.log2_buckets)
         /\ u.log2_buckets \in Nat \ {0}
         /\ BucketByPosition(u, p) < Pow2[u.log2_buckets - 1]
<1> DEFINE n == u.log2_buckets
           k == u.table[p].key
<1>1. p \in Occupied(u) /\ BucketByPosition(u, p) # BucketByHash(k, n)
  BY DEF Misplaced
<1>2. /\ u.table[p] \in AnyCell /\ n \in Nat /\ u.remaps \in 0 .. n
  BY <1>1, ShapedFacts
<1>3. k \in Keys
  BY <1>2 DEF AnyCell
<1>4. PICK j \in 0 .. u.remaps : BucketByPosition(u, p) = BucketByHash(k, n - j)
  BY <1>1 DEF Sized
<1> HIDE DEF k, n
<1>5. j \in 1 .. u.remaps /\ j \in 0 .. n /\ n \in Nat \ {0}
  <2>1. j # 0
    <3>1. n - 0 = n
      BY <1>2
    <3> QED
      BY <1>1, <1>4, <3>1
  <2> QED
    BY <1>2, <2>1
<1>6. BucketByPosition(u, p) < BucketByHash(k, n)
  <2>1. /\ BucketByHash(k, n - j) <= BucketByHash(k, n)
        /\ BucketByHash(k, n - j) \in Nat /\ BucketByHash(k, n) \in Nat
    BY <1>2, <1>3, <1>5, OlderBucketBelow
  <2>2. BucketByHash(k, n - j) # BucketByHash(k, n)
    BY <1>1, <1>4
  <2>3. BucketByHash(k, n - j) < BucketByHash(k, n)
    BY <2>1, <2>2
  <2> QED
    BY <1>4, <2>3
<1>7. PICK m \in Nat : m + 1 = n
  <2>1. n - 1 \in Nat /\ (n - 1) + 1 = n
    BY <1>5
  <2> QED
    BY <2>1
<1>8. BucketByHash(k, (m + 1) - j) < Pow2[m]
  <2>1. j \in 1 .. m + 1
    BY <1>2, <1>5, <1>7
  <2> QED
    BY <1>3, <2>1, OlderBucketInLowerHalf
<1>9. n - 1 = m
  BY <1>7
<1> QED
  BY <1>3, <1>4, <1>5, <1>6, <1>7, <1>8, <1>9 DEF k, n

LEMMA SizeUpMapped ==
  ASSUME NEW u, Shaped(u), Sized(u)
  PROVE  Mapped(SizeUp(u)) /\ SizeUp(u).remaps = u.remaps + 1
<1> DEFINE w == SizeUp(u)
<1>1. /\ Shaped(w) /\ Occupied(w) = Occupied(u) /\ w.log2_buckets = u.log2_buckets + 1
      /\ w.remap_end = Capacity(u)
      /\ \A p \in 0 .. Capacity(u) - 1 : w.table[p] = u.table[p]
  BY SizeUpShaped
<1>2. w.remaps = u.remaps + 1
  BY DEF SizeUp
<1>3. /\ Capacity(u) \in Nat /\ Occupied(u) \subseteq 0 .. Capacity(u) - 1
      /\ u.remaps \in Nat /\ u.log2_buckets \in Nat
  BY ShapedFacts
<1> HIDE DEF w
<1>4. Sized(w)
  <2> SUFFICES ASSUME NEW p \in Occupied(w)
               PROVE  \E j \in 0 .. w.remaps :
                        BucketByPosition(w, p) = BucketByHash(w.table[p].key, w.log2_buckets - j)
    BY DEF Sized
  <2>1. p \in Occupied(u) /\ w.table[p] = u.table[p]
    BY <1>1, <1>3
  <2>2. PICK j \in 0 .. u.remaps : BucketByPosition(u, p) = BucketByHash(u.table[p].key, u.log2_buckets - j)
    BY <2>1 DEF Sized
  <2>3. BucketByPosition(w, p) = BucketByPosition(u, p)
    BY <2>1 DEF BucketByPosition
  <2>4. j + 1 \in 0 .. w.remaps /\ w.log2_buckets - (j + 1) = u.log2_buckets - j
    BY <1>1, <1>2, <1>3
  <2> QED
    BY <2>1, <2>2, <2>3, <2>4
<1>5. Bounded(w)
  BY <1>1, <1>3 DEF Bounded, Misplaced
<1> QED
  BY <1>2, <1>4, <1>5 DEF Mapped, w

LEMMA SameTableMapped ==
  ASSUME NEW u, NEW w, w.table = u.table, w.log2_buckets = u.log2_buckets
  PROVE  /\ Occupied(w) = Occupied(u) /\ Misplaced(w) = Misplaced(u)
         /\ \A p : BucketByPosition(w, p) = BucketByPosition(u, p)
         /\ w.remaps = u.remaps /\ Sized(u) => Sized(w)
         /\ Distinct(u) => Distinct(w)
<1>1. Occupied(w) = Occupied(u) /\ \A p : BucketByPosition(w, p) = BucketByPosition(u, p)
  BY DEF Occupied, Empty, BucketByPosition
<1>2. Misplaced(w) = Misplaced(u)
  BY <1>1 DEF Misplaced
<1>3. KeysIn(w) = KeysIn(u)
  BY <1>1 DEF KeysIn
<1> QED
  BY <1>1, <1>2, <1>3 DEF Sized, Distinct

LEMMA InsertRemaps ==
  ASSUME NEW u, Shaped(u), NEW p0 \in 0 .. Capacity(u), NEW e \in AnyCell,
         NEW r, r = InsertAndRelocate(u, e, p0).t, NEW E, E = InsertEnd(u, p0)
  PROVE  r.remaps = IF E = Capacity(u) THEN u.remaps + 1 ELSE u.remaps
<1> DEFINE g == InsertGrown(u, p0)
<1>1. r = [g EXCEPT !.table = InsertSlots(u, e, p0)]
  BY InsertForm
<1>2. Shaped(g) /\ g.remaps = IF E = Capacity(u) THEN u.remaps + 1 ELSE u.remaps
  <2>1. CASE E = Capacity(u)
    BY <2>1, SizeUpShaped DEF InsertGrown, SizeUp
  <2>2. CASE E # Capacity(u)
    BY <2>2 DEF InsertGrown
  <2> QED
    BY <2>1, <2>2
<1> HIDE DEF g
<1>3. r.remaps = g.remaps
  BY <1>1, <1>2 DEF Shaped
<1> QED
  BY <1>2, <1>3

(* What an insertion at bucket b, the key's own, does to places. *)
LEMMA InsertPlaces ==
  ASSUME NEW u, Shaped(u), Mapped(u), NEW p0 \in 0 .. Capacity(u), NEW e \in AnyCell,
         NEW b, b = BucketByHash(e.key, u.log2_buckets), e.distance = p0 - b,
         NEW r, r = InsertAndRelocate(u, e, p0).t, NEW E, E = InsertEnd(u, p0)
  PROVE  /\ Sized(r)
         /\ E = Capacity(u) => Bounded(r)
         /\ E # Capacity(u) =>
              \A p \in Misplaced(r) : \E f \in Misplaced(u) :
                /\ f <= p /\ (f = p \/ (p0 <= f /\ p <= E))
<1> DEFINE c == Capacity(u)
<1>1. /\ c \in Nat \ {0} /\ u.log2_buckets \in Nat /\ u.remaps \in Nat
  BY ShapedFacts
<1>2. /\ Shaped(r)
      /\ r.log2_buckets = (IF E = c THEN u.log2_buckets + 1 ELSE u.log2_buckets)
      /\ r.remap_end = (IF E = c THEN c ELSE u.remap_end)
      /\ E \in p0 .. c /\ r.table[p0] = e
      /\ \A p \in c .. Capacity(r) - 1 : E < p => Empty(r, p)
  BY InsertShifts
<1>3. r.remaps = IF E = c THEN u.remaps + 1 ELSE u.remaps
  BY InsertRemaps
<1>4. \A p \in Occupied(r) : p # p0 =>
        \E f \in Occupied(u) :
           /\ f <= p
           /\ r.table[p].key = u.table[f].key
           /\ BucketByPosition(r, p) = BucketByPosition(u, f)
           /\ f = p \/ (p0 <= f /\ p <= E)
  BY InsertOrigin
<1>5. e.key \in Keys /\ b \in Nat /\ p0 \in Nat
  <2>1. e.key \in Keys
    BY DEF AnyCell
  <2> QED
    BY <1>1, <2>1, BucketInTable
<1>6. BucketByPosition(r, p0) = b
  BY <1>2, <1>5 DEF BucketByPosition
<1>7. Sized(r)
  <2> SUFFICES ASSUME NEW p \in Occupied(r)
               PROVE  \E j \in 0 .. r.remaps :
                        BucketByPosition(r, p) = BucketByHash(r.table[p].key, r.log2_buckets - j)
    BY DEF Sized
  <2>1. PICK i \in 0 .. u.remaps : BucketByPosition(r, p) = BucketByHash(r.table[p].key, u.log2_buckets - i)
    <3>1. CASE p = p0
      <4>1. 0 \in 0 .. u.remaps /\ u.log2_buckets - 0 = u.log2_buckets
        BY <1>1
      <4> QED
        BY <1>2, <1>6, <3>1, <4>1
    <3>2. CASE p # p0
      BY <1>4, <3>2 DEF Mapped, Sized
    <3> QED
      BY <3>1, <3>2
  <2>2. CASE E = c
    <3>1. i + 1 \in 0 .. r.remaps /\ r.log2_buckets - (i + 1) = u.log2_buckets - i
      BY <1>1, <1>2, <1>3, <2>2
    <3> QED
      BY <2>1, <3>1
  <2>3. CASE E # c
    BY <1>2, <1>3, <2>1, <2>3
  <2> QED
    BY <2>2, <2>3
<1>8. ASSUME E = c PROVE Bounded(r)
  <2> SUFFICES ASSUME NEW p \in Misplaced(r) PROVE p <= r.remap_end
    BY DEF Bounded
  <2>1. p \in 0 .. Capacity(r) - 1 /\ ~ Empty(r, p) /\ Capacity(r) \in Nat
    BY <1>2, ShapedFacts DEF Misplaced
  <2> QED
    BY <1>1, <1>2, <1>8, <2>1
<1>9. ASSUME E # c, NEW p \in Misplaced(r)
      PROVE  \E f \in Misplaced(u) : f <= p /\ (f = p \/ (p0 <= f /\ p <= E))
  <2>1. /\ p \in Occupied(r) /\ r.log2_buckets = u.log2_buckets
        /\ BucketByPosition(r, p) # BucketByHash(r.table[p].key, u.log2_buckets)
    BY <1>2, <1>9 DEF Misplaced
  <2>2. p # p0
    BY <1>2, <1>6, <2>1
  <2>3. PICK f \in Occupied(u) :
           /\ f <= p
           /\ r.table[p].key = u.table[f].key
           /\ BucketByPosition(r, p) = BucketByPosition(u, f)
           /\ f = p \/ (p0 <= f /\ p <= E)
    BY <1>4, <2>1, <2>2
  <2>4. f \in Misplaced(u)
    BY <2>1, <2>3 DEF Misplaced
  <2> QED
    BY <2>3, <2>4
<1> QED
  BY <1>7, <1>8, <1>9

(* At the end of the cluster of b, later than the buckets of all entries   *)
(* that wait to be remapped, an insertion pushes none of those.            *)
LEMMA InsertPastOlder ==
  ASSUME NEW u, Shaped(u), Packed(u), Mapped(u), NEW e \in AnyCell,
         NEW b, b = BucketByHash(e.key, u.log2_buckets),
         NEW p0, p0 = ScanEnd(u, b, Capacity(u)), e.distance = p0 - b,
         NEW r, r = InsertAndRelocate(u, e, p0).t,
         \A q \in Misplaced(u) : BucketByPosition(u, q) < b
  PROVE  Mapped(r) /\ BucketByPosition(r, p0) = b
<1> DEFINE c == Capacity(u)
           E == InsertEnd(u, p0)
<1>1. /\ c \in Nat \ {0} /\ Pow2[u.log2_buckets] <= c /\ Pow2[u.log2_buckets] \in Nat
      /\ u.log2_buckets \in Nat
      /\ \A p \in 0 .. c - 1 : p \in Occupied(u) <=> ~ Empty(u, p)
      /\ Occupied(u) \subseteq 0 .. c - 1
  BY ShapedFacts
<1>2. b \in Nat /\ b < Pow2[u.log2_buckets]
  BY <1>1, BucketInTable DEF AnyCell
<1>3. b \in 0 .. c /\ c \in 0 .. c
  BY <1>1, <1>2
<1>4. p0 \in b .. c /\ (p0 < c => Empty(u, p0) \/ BucketByPosition(u, p0) > b)
  BY <1>3, ScanEnds
<1>5. p0 \in 0 .. c /\ p0 \in Int /\ b \in Int
  BY <1>1, <1>2, <1>4
<1>6. /\ E \in p0 .. c /\ r.table[p0] = e
      /\ r.remap_end = (IF E = c THEN c ELSE u.remap_end)
  BY <1>5, InsertShifts
<1>7. BucketByPosition(r, p0) = b
  BY <1>5, <1>6 DEF BucketByPosition
<1>8. /\ Sized(r)
      /\ E = c => Bounded(r)
      /\ E # c =>
           \A p \in Misplaced(r) : \E f \in Misplaced(u) :
             /\ f <= p /\ (f = p \/ (p0 <= f /\ p <= E))
  BY <1>5, InsertPlaces
<1>9. ASSUME E # c, NEW p \in Misplaced(r) PROVE p <= r.remap_end
  <2>1. PICK f \in Misplaced(u) : f <= p /\ (f = p \/ (p0 <= f /\ p <= E))
    BY <1>8, <1>9
  <2>2. f \in Occupied(u) /\ f <= u.remap_end /\ r.remap_end = u.remap_end
    BY <1>6, <1>9 DEF Mapped, Bounded, Misplaced
  <2>3. CASE f = p
    BY <2>2, <2>3
  <2>4. CASE f # p
    <3>1. p0 <= f /\ f \in 0 .. c - 1
      BY <1>1, <2>1, <2>2, <2>4
    <3>2. p0 \in 0 .. c - 1 /\ p0 < c
      BY <1>1, <1>5, <3>1
    <3>3. ~ Empty(u, p0)
      <4>1. CASE p0 = E
        <5>1. p <= p0 /\ f <= p /\ f # p /\ p \in Int
          <6>1. Shaped(r) /\ p \in Occupied(r)
            BY <1>5, <1>9, InsertShifts DEF Misplaced
          <6>2. p \in Int
            BY <6>1, ShapedFacts
          <6> QED
            BY <2>1, <2>4, <4>1, <6>2
        <5> QED
          BY <1>5, <3>1, <5>1
      <4>2. CASE p0 # E
        <5>1. \A q \in p0 .. E - 1 : ~ Empty(u, q)
          BY <1>5, InsertEnds
        <5>2. p0 \in p0 .. E - 1
          BY <1>5, <1>6, <4>2
        <5> QED
          BY <5>1, <5>2
      <4> QED
        BY <4>1, <4>2
    <3>4. BucketByPosition(u, p0) > b /\ p0 \in Occupied(u)
      BY <1>1, <1>4, <3>2, <3>3
    <3>5. /\ BucketByPosition(u, p0) \in Nat /\ BucketByPosition(u, f) \in Nat
          /\ BucketByPosition(u, p0) <= BucketByPosition(u, f)
      BY <2>2, <3>1, <3>4, BucketsOrdered
    <3>6. BucketByPosition(u, f) < b
      BY <2>1
    <3> QED
      BY <1>5, <3>4, <3>5, <3>6
  <2> QED
    BY <2>3, <2>4
<1> QED
  BY <1>7, <1>8, <1>9 DEF Mapped, Bounded

(* The entries an insertion pushes past remap_end are covered again. *)
LEMMA InsertCovered ==
  ASSUME NEW u, Shaped(u), Mapped(u), NEW p0 \in 0 .. Capacity(u), NEW e \in AnyCell,
         NEW b, b = BucketByHash(e.key, u.log2_buckets), e.distance = p0 - b,
         NEW r, r = InsertAndRelocate(u, e, p0).t, NEW E, E = InsertEnd(u, p0)
  PROVE  Mapped(CoverRelocated(r, p0, E))
<1> DEFINE c == Capacity(u)
           w == CoverRelocated(r, p0, E)
<1>1. c \in Nat \ {0} /\ u.remap_end \in -1 .. c - 1 /\ p0 \in Int
  BY ShapedFacts
<1>2. /\ Shaped(r) /\ E \in p0 .. c
      /\ r.remap_end = (IF E = c THEN c ELSE u.remap_end)
  BY InsertShifts
<1>3. /\ Sized(r)
      /\ E = c => Bounded(r)
      /\ E # c =>
           \A p \in Misplaced(r) : \E f \in Misplaced(u) :
             /\ f <= p /\ (f = p \/ (p0 <= f /\ p <= E))
  BY InsertPlaces
<1>4. CASE ~ (p0 <= r.remap_end /\ r.remap_end < E)
  <2>1. w = r
    BY <1>4 DEF CoverRelocated
  <2>2. Bounded(r)
    <3>1. CASE E = c
      BY <1>3, <3>1
    <3>2. CASE E # c
      <4> SUFFICES ASSUME NEW p \in Misplaced(r) PROVE p <= r.remap_end
        BY DEF Bounded
      <4>1. PICK f \in Misplaced(u) : f <= p /\ (f = p \/ (p0 <= f /\ p <= E))
        BY <1>3, <3>2
      <4>2. f <= u.remap_end /\ f \in Int /\ p \in Int /\ r.remap_end = u.remap_end
        <5>1. f \in Int /\ p \in Int
          BY <1>2, ShapedFacts DEF Misplaced
        <5> QED
          BY <1>2, <3>2, <5>1 DEF Mapped, Bounded
      <4>3. E \in Int /\ u.remap_end \in Int
        BY <1>1, <1>2
      <4> QED
        BY <1>1, <1>4, <4>1, <4>2, <4>3
    <3> QED
      BY <3>1, <3>2
  <2> QED
    BY <1>3, <2>1, <2>2 DEF Mapped
<1>5. CASE p0 <= r.remap_end /\ r.remap_end < E
  <2>1. E # c /\ r.remap_end = u.remap_end /\ E \in Int /\ u.remap_end \in Int
    BY <1>1, <1>2, <1>5
  <2>2. w = [r EXCEPT !.remap_end = E]
    BY <1>5 DEF CoverRelocated
  <2>3. w.table = r.table /\ w.log2_buckets = r.log2_buckets /\ w.remap_end = E /\ w.remaps = r.remaps
    BY <1>2, <2>2 DEF Shaped
  <2> HIDE DEF w
  <2>4. Sized(w) /\ Misplaced(w) = Misplaced(r)
    BY <1>3, <2>3, SameTableMapped
  <2>5. ASSUME NEW p \in Misplaced(r) PROVE p <= E
    <3>1. PICK f \in Misplaced(u) : f <= p /\ (f = p \/ (p0 <= f /\ p <= E))
      BY <1>3, <2>1
    <3>2. f <= u.remap_end /\ f \in Int
      BY ShapedFacts DEF Misplaced, Mapped, Bounded
    <3> QED
      BY <1>5, <2>1, <3>1, <3>2
  <2> QED
    BY <2>3, <2>4, <2>5 DEF Mapped, Bounded, w
<1> QED
  BY <1>4, <1>5

LEMMA RemoveMapped ==
  ASSUME NEW u, Shaped(u), Mapped(u), NEW p0 \in 0 .. Capacity(u) - 1,
         NEW r, r = RemoveAndRelocate(u, p0).t
  PROVE  /\ Mapped(r)
         /\ \A p \in Misplaced(r) : \E f \in Misplaced(u) :
              BucketByPosition(r, p) = BucketByPosition(u, f)
<1> DEFINE E == RemoveEnd(u, p0)
<1>1. Shaped(r) /\ r.log2_buckets = u.log2_buckets /\ r.remap_end = u.remap_end
  BY RemoveShifts
<1>2. r.remaps = u.remaps
  <2>1. r = [u EXCEPT !.table = RemoveSlots(u, p0)]
    BY RemoveForm
  <2> QED
    BY <2>1 DEF Shaped
<1>3. \A p \in Occupied(r) : \E f \in Occupied(u) :
        /\ p <= f
        /\ r.table[p].key = u.table[f].key
        /\ BucketByPosition(r, p) = BucketByPosition(u, f)
  BY RemoveOrigin
<1>4. Sized(r)
  BY <1>1, <1>2, <1>3 DEF Mapped, Sized
<1>5. ASSUME NEW p \in Misplaced(r)
      PROVE  \E f \in Misplaced(u) : p <= f /\ BucketByPosition(r, p) = BucketByPosition(u, f)
  BY <1>1, <1>3 DEF Misplaced
<1>6. Bounded(r)
  <2> SUFFICES ASSUME NEW p \in Misplaced(r) PROVE p <= r.remap_end
    BY DEF Bounded
  <2>1. PICK f \in Misplaced(u) : p <= f
    BY <1>5
  <2>2. f <= u.remap_end
    BY DEF Mapped, Bounded
  <2>3. p \in Int /\ f \in Int /\ u.remap_end \in Int
    <3>1. p \in Occupied(r) /\ f \in Occupied(u)
      BY DEF Misplaced
    <3>2. Capacity(u) \in Nat /\ u.remap_end \in -1 .. Capacity(u) - 1 /\ f \in Int
      BY <3>1, ShapedFacts
    <3>3. p \in Int
      BY <1>1, <3>1, ShapedFacts
    <3> QED
      BY <3>2, <3>3
  <2> QED
    BY <1>1, <2>1, <2>2, <2>3
<1> QED
  BY <1>4, <1>5, <1>6 DEF Mapped

(* Remapping an entry ahead of all the others that wait to be. *)
LEMMA RemapAtMapped ==
  ASSUME NEW u, Shaped(u), Packed(u), Fits(u), Mapped(u), NEW p \in Occupied(u),
         NEW b, b = BucketByHash(u.table[p].key, u.log2_buckets),
         p \in Misplaced(u) => \A q \in Misplaced(u) : BucketByPosition(u, q) < b,
         NEW m, m = RemapAt(u, p)
  PROVE  /\ Mapped(m.t)
         /\ BucketByPosition(m.t, m.position) = b
         /\ m.t.log2_buckets \in {u.log2_buckets, u.log2_buckets + 1}
<1> DEFINE k == u.table[p].key
<1>1. /\ p \in 0 .. Capacity(u) - 1 /\ u.table[p] \in AnyCell /\ k \in Keys
      /\ u.log2_buckets \in Nat
  BY ShapedFacts DEF AnyCell
<1>2. CASE BucketByPosition(u, p) = b
  <2>1. m = [t |-> u, position |-> p]
    BY <1>2 DEF RemapAt
  <2> QED
    BY <1>2, <2>1
<1>3. CASE BucketByPosition(u, p) # b
  <2> DEFINE v == RemoveAndRelocate(u, p).t
             p0 == ScanEnd(v, b, Capacity(v))
             e == [u.table[p] EXCEPT !.distance = p0 - b]
             r == InsertAndRelocate(v, e, p0).t
             E == InsertEnd(v, p0)
  <2>1. m = [t |-> r, position |-> p0]
    BY <1>3, EndOfCluster DEF RemapAt, MoveToBucket, MoveTo
  <2>2. Shaped(v) /\ v.log2_buckets = u.log2_buckets
    BY <1>1, RemoveShifts
  <2>3. Packed(v)
    BY RemovePacked
  <2>4. b \in Nat /\ b = BucketByHash(k, v.log2_buckets) /\ b < Pow2[v.log2_buckets]
    BY <1>1, <2>2, BucketInTable
  <2>5. \A q \in Misplaced(u) : BucketByPosition(u, q) < b
    BY <1>3 DEF Misplaced
  <2>6. /\ Mapped(v)
        /\ \A q \in Misplaced(v) : \E f \in Misplaced(u) :
             BucketByPosition(v, q) = BucketByPosition(u, f)
    BY <1>1, RemoveMapped
  <2> HIDE DEF v
  <2>7. \A q \in Misplaced(v) : BucketByPosition(v, q) < b
    BY <2>5, <2>6
  <2>8. p0 \in 0 .. Capacity(v) /\ p0 \in Int
    <3>1. Capacity(v) \in Nat /\ Pow2[v.log2_buckets] <= Capacity(v) /\ Pow2[v.log2_buckets] \in Nat
      BY <2>2, ShapedFacts
    <3>2. b \in 0 .. Capacity(v) /\ Capacity(v) \in 0 .. Capacity(v)
      BY <2>4, <3>1
    <3>3. p0 \in b .. Capacity(v)
      BY <2>2, <3>2, ScanEnds
    <3> QED
      BY <3>1, <3>2, <3>3
  <2> HIDE DEF p0, k
  <2>9. /\ e \in AnyCell /\ e.distance = p0 - b /\ e.key = k
    BY <1>1, <2>4, <2>8 DEF AnyCell, k
  <2> HIDE DEF e, r
  <2>10. Mapped(r) /\ BucketByPosition(r, p0) = b
    BY <2>2, <2>3, <2>4, <2>6, <2>7, <2>9, InsertPastOlder DEF p0, r
  <2>11. r.log2_buckets \in {v.log2_buckets, v.log2_buckets + 1}
    <3>1. r.log2_buckets = (IF E = Capacity(v) THEN v.log2_buckets + 1 ELSE v.log2_buckets)
      BY <2>2, <2>8, <2>9, InsertShifts DEF r
    <3> QED
      BY <3>1
  <2> QED
    BY <2>1, <2>2, <2>10, <2>11
<1> QED
  BY <1>2, <1>3

(* One turn of Remap() takes the last entry that waits. *)
LEMMA RemapNextMapped ==
  ASSUME NEW u, Shaped(u), Packed(u), Fits(u), Mapped(u)
  PROVE  Mapped(RemapNext(u))
<1> DEFINE S == {p \in Misplaced(u) : p <= u.remap_end}
<1>1. /\ Capacity(u) \in Nat \ {0} /\ Capacity(u) = CapacityOf(u.log2_buckets)
      /\ Occupied(u) \subseteq 0 .. Capacity(u) - 1
  BY ShapedFacts
<1>2. S = Misplaced(u) /\ S \subseteq Occupied(u)
  BY DEF Misplaced, Mapped, Bounded
<1>3. CASE S = {}
  <2> DEFINE v == [u EXCEPT !.remap_end = -1]
  <2>1. RemapNext(u) = v
    BY <1>3 DEF RemapNext
  <2>2. v.table = u.table /\ v.log2_buckets = u.log2_buckets /\ v.remaps = u.remaps
    BY DEF Shaped
  <2> HIDE DEF v, S
  <2>3. Sized(v) /\ Misplaced(v) = {}
    BY <1>2, <1>3, <2>2, SameTableMapped DEF Mapped
  <2> QED
    BY <2>1, <2>3 DEF Mapped, Bounded
<1>4. CASE S # {}
  <2> DEFINE m == Max(S)
             v == [u EXCEPT !.remap_end = m]
  <2>1. RemapNext(u) = RemapAt(v, m).t
    BY <1>4 DEF RemapNext
  <2> HIDE DEF S
  <2>2. S \subseteq Int /\ Capacity(u) \in Int /\ \A x \in S : x <= Capacity(u)
    BY <1>1, <1>2
  <2>3. m \in S /\ \A x \in S : x <= m
    BY <1>4, <2>2, GreatestOf
  <2>4. m \in Occupied(u) /\ m \in -1 .. CapacityOf(u.log2_buckets) - 1
    BY <1>1, <1>2, <2>3
  <2> HIDE DEF m
  <2>5. Shaped(v) /\ v.table = u.table /\ v.log2_buckets = u.log2_buckets
    BY <2>4, WithRemapEnd
  <2>6. v.remaps = u.remaps /\ v.remap_end = m
    BY DEF Shaped
  <2> HIDE DEF v
  <2>7. /\ Sized(v) /\ Misplaced(v) = S /\ Occupied(v) = Occupied(u)
        /\ \A p : BucketByPosition(v, p) = BucketByPosition(u, p)
    BY <1>2, <2>5, <2>6, SameTableMapped DEF Mapped
  <2>8. Mapped(v)
    BY <2>3, <2>6, <2>7 DEF Mapped, Bounded
  <2>9. Packed(v) /\ Fits(v)
    BY <2>5, PackedTable DEF Fits
  <2>10. ASSUME NEW q \in Misplaced(v)
         PROVE  BucketByPosition(v, q) < BucketByHash(v.table[m].key, v.log2_buckets)
    <3>1. q <= m /\ q \in Occupied(v) /\ m \in Misplaced(v) /\ m \in Occupied(v)
      BY <2>3, <2>7 DEF Misplaced
    <3>2. /\ BucketByPosition(v, q) \in Nat /\ BucketByPosition(v, m) \in Nat
          /\ BucketByPosition(v, q) <= BucketByPosition(v, m)
      BY <2>5, <2>9, <3>1, BucketsOrdered
    <3>3. /\ BucketByPosition(v, m) < BucketByHash(v.table[m].key, v.log2_buckets)
          /\ v.table[m].key \in Keys
      BY <2>5, <2>7, <3>1, MisplacedIsOlder
    <3>4. BucketByHash(v.table[m].key, v.log2_buckets) \in Nat
      BY <2>5, <3>3, BucketInTable, ShapedFacts
    <3> QED
      BY <3>2, <3>3, <3>4
  <2>11. Mapped(RemapAt(v, m).t)
    BY <2>4, <2>5, <2>7, <2>8, <2>9, <2>10, RemapAtMapped
  <2> QED
    BY <2>1, <2>11
<1> QED
  BY <1>3, <1>4

LEMMA RemapMapped ==
  ASSUME NEW u, Shaped(u), Packed(u), Mapped(u), Fits(Remap(u))
  PROVE  Mapped(Remap(u))
<1>1. RemapEntries \in Nat
  BY TableAssumption
<1>2. PICK turn :
        /\ \A n \in 0 .. RemapEntries : turn[n] = IF n = 0 THEN u ELSE RemapNext(turn[n - 1])
        /\ Remap(u) = IF turn[RemapEntries].remap_end < 0
                      THEN [turn[RemapEntries] EXCEPT !.remaps = 0]
                      ELSE turn[RemapEntries]
  BY RemapTurns
<1> DEFINE done == turn[RemapEntries]
           Good(w) == Rearranged(u, w) /\ (Fits(w) => Mapped(w))
           T == {n \in Nat : n <= RemapEntries => Good(turn[n])}
<1>3. 0 \in T
  <2>1. turn[0] = u
    BY <1>1, <1>2
  <2> QED
    BY <2>1, RearrangedSame
<1>4. ASSUME NEW n \in Nat, n \in T PROVE n + 1 \in T
  <2> SUFFICES ASSUME n + 1 <= RemapEntries PROVE Good(turn[n + 1])
    OBVIOUS
  <2>1. n + 1 \in 0 .. RemapEntries /\ n + 1 # 0 /\ (n + 1) - 1 = n /\ n <= RemapEntries
    BY <1>1
  <2>2. turn[n + 1] = RemapNext(turn[n])
    BY <1>2, <2>1
  <2>3. Rearranged(u, turn[n]) /\ (Fits(turn[n]) => Mapped(turn[n]))
    BY <1>4, <2>1
  <2>4. Shaped(turn[n]) /\ Rearranged(turn[n], turn[n + 1])
    BY <2>2, <2>3, RearrangedRemapNext DEF Rearranged
  <2>5. Rearranged(u, turn[n + 1])
    BY <2>3, <2>4, RearrangedTwice
  <2>6. ASSUME Fits(turn[n + 1]) PROVE Mapped(turn[n + 1])
    <3>1. Fits(turn[n])
      BY <2>4, <2>6, FitsBelow DEF Rearranged
    <3>2. Packed(turn[n])
      BY <2>3, <3>1 DEF Rearranged
    <3> QED
      BY <2>2, <2>3, <2>4, <3>1, <3>2, RemapNextMapped
  <2> QED
    BY <2>5, <2>6
<1> HIDE DEF T
<1>5. RemapEntries \in T
  BY <1>1, <1>3, <1>4, SetInduction
<1>6. Rearranged(u, done) /\ (Fits(done) => Mapped(done))
  BY <1>1, <1>5 DEF T
<1>7. Remap(u) = IF done.remap_end < 0 THEN [done EXCEPT !.remaps = 0] ELSE done
  BY <1>2
<1> HIDE DEF done
<1>8. Shaped(done)
  BY <1>6 DEF Rearranged
<1>9. CASE done.remap_end < 0
  <2> DEFINE w == [done EXCEPT !.remaps = 0]
  <2>1. Remap(u) = w
    BY <1>7, <1>9
  <2>2. w.table = done.table /\ w.log2_buckets = done.log2_buckets /\ w.remaps = 0
    BY <1>8 DEF Shaped
  <2> HIDE DEF w
  <2>3. Mapped(done)
    BY <1>6, <2>1, <2>2 DEF Fits
  <2>4. Misplaced(done) = {}
    <3> SUFFICES ASSUME NEW p \in Misplaced(done) PROVE FALSE
      OBVIOUS
    <3>1. p <= done.remap_end
      BY <2>3 DEF Mapped, Bounded
    <3>2. p \in Nat /\ done.remap_end \in Int
      BY <1>8, ShapedFacts DEF Misplaced
    <3> QED
      BY <1>9, <3>1, <3>2
  <2>5. Misplaced(w) = {} /\ Occupied(w) = Occupied(done)
    BY <2>2, <2>4, SameTableMapped
  <2>6. Sized(w)
    <3> SUFFICES ASSUME NEW p \in Occupied(w)
                 PROVE  \E j \in 0 .. w.remaps :
                          BucketByPosition(w, p) = BucketByHash(w.table[p].key, w.log2_buckets - j)
      BY DEF Sized
    <3>1. BucketByPosition(w, p) = BucketByHash(w.table[p].key, w.log2_buckets)
      BY <2>5 DEF Misplaced
    <3>2. 0 \in 0 .. w.remaps /\ w.log2_buckets - 0 = w.log2_buckets
      <4>1. w.log2_buckets \in Nat
        BY <1>8, <2>2, ShapedFacts
      <4> QED
        BY <2>2, <4>1
    <3> QED
      BY <3>1, <3>2
  <2> QED
    BY <2>1, <2>5, <2>6 DEF Mapped, Bounded
<1>10. CASE ~ (done.remap_end < 0)
  BY <1>6, <1>7, <1>10
<1> QED
  BY <1>9, <1>10

(* An entry that belongs to the size before goes to the upper half, where  *)
(* no entry waits.                                                         *)
LEMMA UpperHalf ==
  ASSUME NEW u, Shaped(u), Sized(u), NEW p \in Misplaced(u),
         BucketByPosition(u, p) = BucketByHash(u.table[p].key, u.log2_buckets - 1),
         NEW q \in Misplaced(u)
  PROVE  BucketByPosition(u, q) < BucketByHash(u.table[p].key, u.log2_buckets)
<1> DEFINE k == u.table[p].key
<1>1. /\ k \in Keys /\ u.log2_buckets \in Nat \ {0}
      /\ BucketByPosition(u, p) < BucketByHash(k, u.log2_buckets)
  BY MisplacedIsOlder
<1>2. PICK m \in Nat : m = u.log2_buckets - 1 /\ m + 1 = u.log2_buckets
  <2>1. u.log2_buckets - 1 \in Nat /\ (u.log2_buckets - 1) + 1 = u.log2_buckets
    BY <1>1
  <2> QED
    BY <2>1
<1>3. BucketByPosition(u, q) < Pow2[m]
  BY <1>2, MisplacedIsOlder
<1> HIDE DEF k
<1>4. BucketByHash(k, m) \in Nat /\ BucketByHash(k, m + 1) \in Nat /\ Pow2[m] \in Nat
  BY <1>1, BucketInTable, Pow2Positive
<1>5. BucketByHash(k, m) < BucketByHash(k, m + 1)
  BY <1>1, <1>2 DEF k
<1>6. BucketByHash(k, m + 1) = BucketByHash(k, m) + Pow2[m]
  BY <1>1, <1>4, <1>5, BucketDoubles
<1>7. BucketByPosition(u, q) \in Int
  BY ShapedFacts DEF Misplaced
<1>8. BucketByPosition(u, q) < BucketByHash(k, m + 1)
  BY <1>3, <1>4, <1>6, <1>7
<1> QED
  BY <1>2, <1>8 DEF k

(* The entry that a lookup finds at the one older size that is left. *)
LEMMA LookupMoves ==
  ASSUME NEW u, Shaped(u), Packed(u), Mapped(u), NEW k \in Keys, u.remaps <= 1,
         OlderSizesWith(u, k) # {}, NEW m, m = RemapAt(u, OlderPosition(u, k))
  PROVE  /\ Rearranged(u, m.t) /\ Points(m.t, m.position) /\ m.t.table[m.position].key = k
         /\ Fits(m.t) =>
              /\ Mapped(m.t)
              /\ BucketByPosition(m.t, m.position) = BucketByHash(k, u.log2_buckets)
              /\ m.t.log2_buckets \in {u.log2_buckets, u.log2_buckets + 1}
<1> DEFINE p == OlderPosition(u, k)
<1>1. u.remaps \in Nat
  BY ShapedFacts
<1>2. p \in Occupied(u) /\ u.table[p].key = k
  BY OlderPositionFinds
<1> HIDE DEF p
<1>3. Rearranged(u, m.t) /\ Points(m.t, m.position) /\ m.t.table[m.position].key = k
  BY <1>2, RearrangedRemapAt DEF p
<1>4. p \in Misplaced(u) =>
        \A q \in Misplaced(u) : BucketByPosition(u, q) < BucketByHash(u.table[p].key, u.log2_buckets)
  <2> HAVE p \in Misplaced(u)
  <2>1. PICK j \in 1 .. u.remaps :
          BucketByPosition(u, p) = BucketByHash(u.table[p].key, u.log2_buckets - j)
    BY MisplacedIsOlder DEF Mapped
  <2>2. j = 1
    BY <1>1
  <2> QED
    BY <2>1, <2>2, UpperHalf DEF Mapped
<1>5. ASSUME Fits(m.t)
      PROVE  /\ Mapped(m.t)
             /\ BucketByPosition(m.t, m.position) = BucketByHash(k, u.log2_buckets)
             /\ m.t.log2_buckets \in {u.log2_buckets, u.log2_buckets + 1}
  <2>1. Fits(u)
    BY <1>3, <1>5, FitsBelow DEF Rearranged
  <2> QED
    BY <1>2, <1>4, <2>1, RemapAtMapped DEF p
<1> QED
  BY <1>3, <1>5

(* A lookup moves an entry only when one older size is left. *)
LEMMA LookupMapped ==
  ASSUME NEW u, Shaped(u), Packed(u), Mapped(u), Distinct(u), NEW k \in Keys, NEW iterating,
         iterating \/ u.remaps <= 1,
         NEW look, look = LookupIndex(u, k, iterating), Fits(look.t)
  PROVE  Mapped(look.t) /\ Distinct(look.t)
<1>1. u.table # << >> /\ u.remaps \in Nat /\ u.log2_buckets \in Nat
  BY ShapedFacts
<1>2. Rearranged(u, look.t)
  BY LookupRearranges
<1>3. Distinct(look.t)
  BY <1>2, RearrangedDistinct
<1>4. CASE ScanCurrent(u, k) >= 0 \/ OlderSizesWith(u, k) = {}
  BY <1>1, <1>3, <1>4 DEF LookupIndex
<1>5. CASE ~ (ScanCurrent(u, k) >= 0 \/ OlderSizesWith(u, k) = {}) /\ iterating
  BY <1>1, <1>3, <1>5 DEF LookupIndex
<1>6. CASE ~ (ScanCurrent(u, k) >= 0 \/ OlderSizesWith(u, k) = {}) /\ ~ iterating
  <2> DEFINE m == RemapAt(u, OlderPosition(u, k))
             p2 == OlderPosition(m.t, k)
             again == RemapAt(m.t, p2)
  <2>1. look = AssertFound(k, m)
    BY <1>1, <1>6 DEF LookupIndex
  <2>2. u.remaps <= 1 /\ OlderSizesWith(u, k) # {}
    BY <1>6
  <2>3. Rearranged(u, m.t) /\ Points(m.t, m.position) /\ m.t.table[m.position].key = k
    BY <2>2, LookupMoves
  <2>5. Fits(m.t) => /\ Mapped(m.t)
                     /\ BucketByPosition(m.t, m.position) = BucketByHash(k, u.log2_buckets)
                     /\ m.t.log2_buckets \in {u.log2_buckets, u.log2_buckets + 1}
    BY <2>2, LookupMoves
  <2> HIDE DEF m
  <2>6. Shaped(m.t)
    BY <2>3 DEF Rearranged
  <2>7. CASE ScanCurrent(m.t, k) >= 0 \/ OlderSizesWith(m.t, k) = {}
    <3>1. look.t = m.t
      BY <2>1, <2>7 DEF AssertFound
    <3> QED
      BY <1>3, <2>5, <3>1
  <2>8. CASE ~ (ScanCurrent(m.t, k) >= 0 \/ OlderSizesWith(m.t, k) = {})
    <3>1. look.t = again.t
      BY <2>1, <2>8 DEF AssertFound
    <3>2. p2 \in Occupied(m.t) /\ m.t.table[p2].key = k
      BY <2>6, <2>8, OlderPositionFinds
    <3> HIDE DEF p2
    <3>3. Rearranged(m.t, again.t)
      BY <2>6, <3>2, RearrangedRemapAt
    <3>4. Fits(m.t)
      BY <2>6, <3>1, <3>3, FitsBelow DEF Rearranged
    <3>5. Packed(m.t) /\ Distinct(m.t)
      BY <2>3, <3>4, RearrangedDistinct DEF Rearranged
    <3>6. m.position \in Occupied(m.t)
      BY <2>3, <3>4 DEF Points
    <3>7. p2 = m.position
      BY <2>3, <2>6, <3>2, <3>5, <3>6, KeysOntoPositions
    <3>8. p2 \in Misplaced(m.t) =>
            \A q \in Misplaced(m.t) :
              BucketByPosition(m.t, q) < BucketByHash(m.t.table[p2].key, m.t.log2_buckets)
      <4> HAVE p2 \in Misplaced(m.t)
      <4>1. BucketByPosition(m.t, p2) # BucketByHash(k, m.t.log2_buckets)
        BY <3>2 DEF Misplaced
      <4>2. m.t.log2_buckets = u.log2_buckets + 1
        BY <2>5, <3>4, <3>7, <4>1
      <4>3. u.log2_buckets = m.t.log2_buckets - 1
        BY <1>1, <4>2
      <4>4. BucketByPosition(m.t, p2) = BucketByHash(m.t.table[p2].key, m.t.log2_buckets - 1)
        BY <2>5, <3>2, <3>4, <3>7, <4>3
      <4> QED
        BY <2>5, <2>6, <3>4, <4>4, UpperHalf DEF Mapped
    <3>9. Mapped(again.t)
      BY <2>5, <2>6, <3>2, <3>4, <3>5, <3>8, RemapAtMapped
    <3> QED
      BY <1>3, <3>1, <3>9
  <2> QED
    BY <2>7, <2>8
<1> QED
  BY <1>4, <1>5, <1>6

-----------------------------------------------------------------------------
(* The invariant of places, call by call. *)

Placed(u) == Fits(u) => Mapped(u) /\ Distinct(u)

(* A new value changes no place. *)
LEMMA OverwriteMapped ==
  ASSUME NEW u, Shaped(u), NEW p, Points(u, p), NEW v \in Vals,
         NEW w, w = [u EXCEPT !.table[p].value = v]
  PROVE  Placed(u) => Placed(w)
<1> DEFINE e == [u.table[p] EXCEPT !.value = v]
           f == [u.table EXCEPT ![p] = e]
<1>1. p \in DOMAIN u.table /\ u.table[p] \in AnyCell
  BY ShapedFacts DEF Points
<1>2. w = [u EXCEPT !.table = f]
  BY <1>1 DEF Shaped
<1>3. /\ w.table = f /\ w.log2_buckets = u.log2_buckets
      /\ w.remaps = u.remaps /\ w.remap_end = u.remap_end
  BY <1>2 DEF Shaped
<1>4. e.key = u.table[p].key /\ e.distance = u.table[p].distance
  BY <1>1 DEF AnyCell
<1> HIDE DEF e
<1>5. /\ DOMAIN f = DOMAIN u.table
      /\ \A q \in DOMAIN u.table : f[q].key = u.table[q].key /\ f[q].distance = u.table[q].distance
  BY <1>1, <1>4
<1> HIDE DEF f
<1>6. Occupied(w) = Occupied(u)
  BY <1>3, <1>5 DEF Occupied, Empty
<1>7. \A q \in Occupied(u) :
        BucketByPosition(w, q) = BucketByPosition(u, q) /\ w.table[q].key = u.table[q].key
  BY <1>3, <1>5 DEF BucketByPosition, Occupied
<1>8. Misplaced(w) = Misplaced(u) /\ KeysIn(w) = KeysIn(u)
  BY <1>3, <1>6, <1>7 DEF Misplaced, KeysIn
<1>9. Sized(u) => Sized(w)
  BY <1>3, <1>6, <1>7 DEF Sized
<1> QED
  BY <1>3, <1>6, <1>8, <1>9 DEF Placed, Fits, Mapped, Bounded, Distinct

LEMMA EmptyPlaced ==
  ASSUME NEW u, Occupied(u) = {}
  PROVE  Placed(u)
<1>1. KeysIn(u) = {} /\ Misplaced(u) = {}
  BY DEF KeysIn, Misplaced
<1> QED
  BY <1>1 DEF Placed, Mapped, Sized, Bounded, Distinct

(* Rearranging keeps what holds of the smaller table. *)
LEMMA PlacedBefore ==
  ASSUME NEW u, NEW r, Shaped(u), Fits(u) => Packed(u), Placed(u), Rearranged(u, r), Fits(r)
  PROVE  Fits(u) /\ Packed(u) /\ Mapped(u) /\ Distinct(u) /\ Packed(r) /\ Distinct(r)
<1>1. Fits(u)
  BY FitsBelow DEF Rearranged
<1> QED
  BY <1>1, RearrangedDistinct DEF Rearranged, Placed

LEMMA UnlessIteratingPlaced ==
  ASSUME NEW u, Shaped(u), Fits(u) => Packed(u), Placed(u)
  PROVE  Placed(RemapUnlessIterating(u))
<1>1. Rearranged(u, RemapUnlessIterating(u))
  BY RearrangedUnlessIterating
<1> SUFFICES ASSUME Fits(RemapUnlessIterating(u))
             PROVE  Mapped(RemapUnlessIterating(u)) /\ Distinct(RemapUnlessIterating(u))
  BY DEF Placed
<1>2. Packed(u) /\ Mapped(u) /\ Distinct(RemapUnlessIterating(u))
  BY <1>1, PlacedBefore
<1> QED
  BY <1>2, RemapMapped DEF RemapUnlessIterating

LEMMA SizeUpPlaced ==
  ASSUME NEW u, Shaped(u), Fits(u) => Packed(u), Placed(u)
  PROVE  Placed(SizeUp(u))
<1> SUFFICES ASSUME Fits(SizeUp(u)) PROVE Mapped(SizeUp(u)) /\ Distinct(SizeUp(u))
  BY DEF Placed
<1>1. Mapped(u) /\ Distinct(SizeUp(u))
  BY RearrangedSizeUp, PlacedBefore
<1> QED
  BY <1>1, SizeUpMapped DEF Mapped

LEMMA LookupPlaced ==
  ASSUME NEW u, Shaped(u), Fits(u) => Packed(u), Placed(u), NEW k \in Keys, NEW iterating,
         iterating \/ u.remaps <= 1,
         NEW look, look = LookupIndex(u, k, iterating)
  PROVE  Placed(look.t)
<1> SUFFICES ASSUME Fits(look.t) PROVE Mapped(look.t) /\ Distinct(look.t)
  BY DEF Placed
<1>1. Rearranged(u, look.t)
  BY LookupRearranges
<1>2. Packed(u) /\ Mapped(u) /\ Distinct(u)
  BY <1>1, PlacedBefore
<1> QED
  BY <1>2, LookupMapped

(* A lookup that returns nothing: the key is not in the table. *)
LEMMA LookupAbsent ==
  ASSUME NEW u, Shaped(u), Packed(u), Mapped(u), Distinct(u), NEW k \in Keys, NEW iterating,
         LookupIndex(u, k, iterating).position < 0
  PROVE  k \notin KeysIn(u)
<1>1. u.table # << >>
  BY ShapedFacts
<1>2. ScanCurrent(u, k) >= 0 \/ OlderSizesWith(u, k) = {}
  <2> SUFFICES ASSUME ~ (ScanCurrent(u, k) >= 0 \/ OlderSizesWith(u, k) = {}) PROVE FALSE
    OBVIOUS
  <2>1. OlderPosition(u, k) \in Occupied(u)
    BY OlderPositionFinds
  <2> DEFINE m == RemapAt(u, OlderPosition(u, k))
  <2>2. m.position \in 0 .. Capacity(m.t) - 1 /\ OlderPosition(u, k) \in Nat
    BY <2>1, RearrangedRemapAt, ShapedFacts DEF Points
  <2>3. LookupIndex(u, k, iterating).position \in {OlderPosition(u, k), m.position}
    BY <1>1 DEF LookupIndex, AssertFound
  <2> HIDE DEF m
  <2> QED
    BY <2>2, <2>3
<1>3. ~ (ScanCurrent(u, k) >= 0)
  <2>1. LookupIndex(u, k, iterating) = [t |-> u, position |-> ScanCurrent(u, k), asserted |-> TRUE]
    BY <1>1, <1>2 DEF LookupIndex
  <2>2. LookupIndex(u, k, iterating).position = ScanCurrent(u, k)
    BY <2>1
  <2>3. ScanCurrent(u, k) \in Int
    BY ScanCurrentFinds, ShapedFacts
  <2> QED
    BY <2>2, <2>3
<1> SUFFICES ASSUME k \in KeysIn(u) PROVE FALSE
  OBVIOUS
<1>4. PICK p \in Occupied(u) : k = u.table[p].key
  BY DEF KeysIn
<1>5. p \in Nat
  BY ShapedFacts
<1>6. /\ p \notin Misplaced(u) => ScanCurrent(u, k) = p
      /\ p \in Misplaced(u) => OlderSizesWith(u, k) # {}
  BY <1>4, HashedSearchFinds
<1> QED
  BY <1>2, <1>3, <1>5, <1>6

LEMMA KeysWithPair ==
  ASSUME NEW S, NEW k, NEW v
  PROVE  {x[1] : x \in S \cup {<< k, v >>}} = {x[1] : x \in S} \cup {k}
<1>1. << k, v >>[1] = k
  OBVIOUS
<1>2. PICK y : y = << k, v >>
  OBVIOUS
<1>3. {x[1] : x \in S \cup {y}} = {x[1] : x \in S} \cup {y[1]}
  BY Zenon
<1> QED
  BY <1>1, <1>2, <1>3

(* One entry more, of a new key. *)
LEMMA AddedDistinct ==
  ASSUME NEW u, NEW r, Shaped(u), Distinct(u), NEW k, NEW v, NEW E,
         Occupied(r) = Occupied(u) \cup {E}, E \notin Occupied(u),
         EntriesIn(r) = EntriesIn(u) \cup {<< k, v >>}, k \notin KeysIn(u)
  PROVE  Distinct(r)
<1>1. KeysIn(r) = KeysIn(u) \cup {k}
  <2>1. {x[1] : x \in EntriesIn(u) \cup {<< k, v >>}} = {x[1] : x \in EntriesIn(u)} \cup {k}
    BY KeysWithPair
  <2> QED
    BY <2>1, KeysOfEntries
<1>2. IsFiniteSet(Occupied(u)) /\ IsFiniteSet(KeysIn(u))
  BY OccupiedFinite, KeysOntoPositions
<1>3. Cardinality(Occupied(r)) = Cardinality(Occupied(u)) + 1
  BY <1>2, FS_AddElement
<1>4. Cardinality(KeysIn(r)) = Cardinality(KeysIn(u)) + 1
  BY <1>1, <1>2, FS_AddElement
<1> QED
  BY <1>3, <1>4 DEF Distinct

(* One entry less. *)
LEMMA RemovedDistinct ==
  ASSUME NEW u, NEW r, Shaped(u), Shaped(r), Distinct(u), NEW k, NEW v, NEW E,
         Occupied(r) = Occupied(u) \ {E}, E \in Occupied(u),
         EntriesIn(u) = EntriesIn(r) \cup {<< k, v >>}
  PROVE  Distinct(r) /\ k \notin KeysIn(r) /\ KeysIn(u) = KeysIn(r) \cup {k}
<1>1. KeysIn(u) = KeysIn(r) \cup {k}
  <2>1. {x[1] : x \in EntriesIn(r) \cup {<< k, v >>}} = {x[1] : x \in EntriesIn(r)} \cup {k}
    BY KeysWithPair
  <2> QED
    BY <2>1, KeysOfEntries
<1>2. /\ IsFiniteSet(Occupied(u)) /\ Cardinality(Occupied(u)) \in Nat
      /\ Cardinality(Occupied(r)) \in Nat
      /\ IsFiniteSet(KeysIn(r)) /\ Cardinality(KeysIn(r)) \in Nat
      /\ Cardinality(KeysIn(r)) <= Cardinality(Occupied(r))
  BY OccupiedFinite, KeysOntoPositions
<1>3. Cardinality(Occupied(r)) = Cardinality(Occupied(u)) - 1
  BY <1>2, FS_RemoveElement
<1>4. Cardinality(KeysIn(u)) = Cardinality(Occupied(u))
  BY DEF Distinct
<1>5. k \notin KeysIn(r)
  <2> SUFFICES ASSUME k \in KeysIn(r) PROVE FALSE
    OBVIOUS
  <2>1. KeysIn(u) = KeysIn(r)
    BY <1>1
  <2> QED
    BY <1>2, <1>3, <1>4, <2>1
<1>6. Cardinality(KeysIn(u)) = Cardinality(KeysIn(r)) + 1
  BY <1>1, <1>2, <1>5, FS_AddElement
<1>7. Cardinality(KeysIn(r)) = Cardinality(Occupied(r))
  BY <1>2, <1>3, <1>4, <1>6
<1> QED
  BY <1>1, <1>5, <1>7 DEF Distinct

LEMMA AllocatedPlaced ==
  ASSUME TableInv, Placed(t)
  PROVE  Placed(Allocated) /\ Allocated.remaps = t.remaps
<1>1. CASE t = NoTable
  <2> DEFINE u == [log2_buckets |-> 0, table |-> NewTable(0), remap_end |-> -1, remaps |-> 0]
  <2>1. Allocated = u
    BY <1>1 DEF Allocated, NoTable
  <2>2. Occupied(u) = {} /\ u.remaps = 0
    BY NewTableShaped
  <2> HIDE DEF u
  <2> QED
    BY <1>1, <2>1, <2>2, EmptyPlaced, NoTableFacts
<1>2. CASE Shaped(t)
  <2>1. Allocated = t
    BY <1>2, ShapedFacts DEF Allocated
  <2> QED
    BY <2>1
<1> QED
  BY <1>1, <1>2 DEF TableInv

LEMMA LookupPlacedStep ==
  ASSUME NEW k \in Keys, TableInv, Placed(t), OneOlderSize, Lookup(k)
  PROVE  Placed(t')
<1> DEFINE look == LookupIndex(t, k, Iterating)
<1>1. t' = look.t \/ t' = t
  BY DEF Lookup, Abort
<1>2. CASE t = NoTable
  <2>1. look.t = t
    BY <1>2, NoTableFacts DEF LookupIndex
  <2> QED
    BY <1>1, <2>1
<1>3. CASE Shaped(t)
  <2>1. Placed(look.t)
    BY <1>3, LookupPlaced DEF TableInv, OneOlderSize
  <2> QED
    BY <1>1, <2>1
<1> QED
  BY <1>2, <1>3 DEF TableInv

LEMMA OverwritePlacedStep ==
  ASSUME NEW k \in Keys, NEW v \in Vals, TableInv, Placed(t), OneOlderSize, Overwrite(k, v)
  PROVE  Placed(t')
<1> DEFINE look == LookupIndex(Allocated, k, Iterating)
           w == [look.t EXCEPT !.table[look.position].value = v]
           r == RemapUnlessIterating(w)
<1>1. CASE t' = t
  BY <1>1
<1>2. CASE look.position >= 0 /\ look.asserted /\ t' = r
  <2>1. /\ Shaped(Allocated) /\ (Fits(Allocated) => Packed(Allocated))
        /\ Placed(Allocated) /\ Allocated.remaps = t.remaps
    BY AllocatedShaped, AllocatedPlaced
  <2>2. Rearranged(Allocated, look.t) /\ Points(look.t, look.position)
    BY <1>2, <2>1, LookupRearranges
  <2>3. Placed(look.t)
    BY <2>1, LookupPlaced DEF OneOlderSize
  <2> HIDE DEF look
  <2>4. Shaped(look.t) /\ (Fits(look.t) => Packed(look.t))
    <3>1. Shaped(look.t)
      BY <2>2 DEF Rearranged
    <3>2. Fits(look.t) => Fits(Allocated)
      BY <2>1, <2>2, FitsBelow DEF Rearranged
    <3> QED
      BY <2>1, <2>2, <3>1, <3>2 DEF Rearranged
  <2>5. /\ Shaped(w) /\ w.log2_buckets = look.t.log2_buckets
        /\ Packed(look.t) => Packed(w)
    BY <2>2, <2>4, Overwrites
  <2>6. Placed(w)
    BY <2>2, <2>3, <2>4, OverwriteMapped
  <2> HIDE DEF w
  <2>7. Placed(r)
    BY <2>4, <2>5, <2>6, UnlessIteratingPlaced DEF Fits
  <2> QED
    BY <1>2, <2>7
<1> QED
  BY <1>1, <1>2 DEF Overwrite, Abort

LEMMA InsertNewPlacedStep ==
  ASSUME NEW k \in Keys, NEW v \in Vals, TableInv, Placed(t), InsertNew(k, v)
  PROVE  Placed(t')
<1> DEFINE A == Allocated
           b == BucketByHash(k, A.log2_buckets)
           p0 == ScanEnd(A, b, Capacity(A))
           e == Entry(k, v, p0 - b)
           i == InsertAndRelocate(A, e, p0)
           E == InsertEnd(A, p0)
           c == CoverRelocated(i.t, p0, i.last_affected)
           g == IF num_entries + 1 > ThresholdEntries(c) THEN SizeUp(c) ELSE c
           r == RemapUnlessIterating(g)
<1>1. t' = r /\ LookupIndex(A, k, Iterating).position < 0
  BY DEF InsertNew
<1>2. Shaped(A) /\ (Fits(A) => Packed(A)) /\ Placed(A)
  BY AllocatedShaped, AllocatedPlaced
<1> HIDE DEF A
<1>3. /\ A.log2_buckets \in Nat /\ Capacity(A) \in Nat
      /\ Pow2[A.log2_buckets] <= Capacity(A) /\ Pow2[A.log2_buckets] \in Nat
  BY <1>2, ShapedFacts
<1>4. b \in Nat /\ b < Pow2[A.log2_buckets]
  BY <1>3, BucketInTable
<1> HIDE DEF b
<1>5. p0 \in Int /\ p0 \in 0 .. Capacity(A)
  <2>1. b \in 0 .. Capacity(A) /\ Capacity(A) \in 0 .. Capacity(A)
    BY <1>3, <1>4
  <2>2. p0 \in b .. Capacity(A)
    BY <1>2, <2>1, ScanEnds
  <2> HIDE DEF p0
  <2> QED
    BY <1>3, <1>4, <2>2
<1> HIDE DEF p0
<1>6. e \in AnyCell /\ e.distance = p0 - b /\ e.key = k /\ e.value = v
  BY <1>4, <1>5 DEF Entry, AnyCell
<1> HIDE DEF e
<1>7. i.last_affected = E
  BY InsertForm
<1>8. /\ Shaped(i.t) /\ A.log2_buckets <= i.t.log2_buckets
      /\ E \in 0 .. Capacity(i.t) - 1 /\ Capacity(i.t) \in Nat
      /\ Packed(A) /\ Fits(i.t) =>
           /\ Packed(i.t) /\ Occupied(i.t) = Occupied(A) \cup {E} /\ E \notin Occupied(A)
           /\ EntriesIn(i.t) = EntriesIn(A) \cup {<< e.key, e.value >>}
  BY <1>2, <1>6, InsertAtEnd DEF b, p0
<1>9. Mapped(A) => Mapped(c)
  BY <1>2, <1>5, <1>6, <1>7, InsertCovered DEF b
<1> HIDE DEF i, E
<1>10. /\ Shaped(c) /\ c.table = i.t.table /\ c.log2_buckets = i.t.log2_buckets
  <2>1. CASE c = i.t
    BY <1>8, <2>1
  <2>2. CASE c = [i.t EXCEPT !.remap_end = E]
    <3>1. E \in -1 .. CapacityOf(i.t.log2_buckets) - 1
      BY <1>8, ShapedFacts
    <3> QED
      BY <1>8, <2>2, <3>1, WithRemapEnd
  <2> QED
    BY <1>7, <2>1, <2>2 DEF CoverRelocated
<1> HIDE DEF c
<1>11. Fits(c) => Packed(c) /\ Mapped(c) /\ Distinct(c)
  <2> HAVE Fits(c)
  <2>1. Fits(i.t)
    BY <1>10 DEF Fits
  <2>2. Fits(A)
    BY <1>2, <1>8, <2>1, FitsBelow
  <2>3. Packed(A) /\ Mapped(A) /\ Distinct(A)
    BY <1>2, <2>2 DEF Placed
  <2>4. k \notin KeysIn(A)
    BY <1>1, <1>2, <2>3, LookupAbsent
  <2>5. Distinct(i.t)
    BY <1>2, <1>6, <1>8, <2>1, <2>3, <2>4, AddedDistinct
  <2>6. Distinct(c)
    BY <1>10, <2>5, SameTableMapped
  <2>7. Packed(c)
    BY <1>8, <1>10, <2>1, <2>3, PackedTable
  <2> QED
    BY <1>9, <2>3, <2>6, <2>7
<1>12. Shaped(g) /\ Rearranged(c, g)
  BY <1>10, RearrangedSizeUp, RearrangedSame DEF Rearranged
<1>13. Placed(g)
  <2>1. Placed(c)
    BY <1>11 DEF Placed
  <2> QED
    BY <1>10, <1>11, <2>1, SizeUpPlaced
<1> HIDE DEF g
<1>14. Fits(g) => Packed(g)
  <2> HAVE Fits(g)
  <2>1. Fits(c)
    BY <1>10, <1>12, FitsBelow DEF Rearranged
  <2> QED
    BY <1>11, <1>12, <2>1 DEF Rearranged
<1> QED
  BY <1>1, <1>12, <1>13, <1>14, UnlessIteratingPlaced

LEMMA RemoveFoundPlacedStep ==
  ASSUME NEW k \in Keys, TableInv, Placed(t), OneOlderSize, RemoveFound(k)
  PROVE  Placed(t')
<1> DEFINE look == LookupIndex(t, k, Iterating)
           u == look.t
           p == look.position
           r == RemoveAndRelocate(u, p).t
           E == RemoveEnd(u, p)
<1>1. CASE t' = t
  BY <1>1
<1>2. CASE p >= 0 /\ look.asserted /\ t' = r
  <2>1. Shaped(t) /\ (Fits(t) => Packed(t))
    <3>1. ASSUME t = NoTable PROVE FALSE
      <4>1. p = -1
        BY <3>1, NoTableFacts DEF LookupIndex
      <4> HIDE DEF look
      <4> QED
        BY <1>2, <4>1
    <3> QED
      BY <3>1 DEF TableInv
  <2>2. Rearranged(t, u) /\ Points(u, p)
    BY <1>2, <2>1, LookupRearranges
  <2>3. Placed(u)
    BY <2>1, LookupPlaced DEF OneOlderSize
  <2> HIDE DEF look
  <2>4. p \in 0 .. Capacity(u) - 1 /\ (Fits(u) => p \in Occupied(u))
    BY <2>2 DEF Points
  <2> HIDE DEF u, p
  <2>5. Shaped(u) /\ (Fits(u) => Packed(u))
    <3>1. Shaped(u)
      BY <2>2 DEF Rearranged
    <3>2. Fits(u) => Fits(t)
      BY <2>1, <2>2, FitsBelow DEF Rearranged
    <3> QED
      BY <2>1, <2>2, <3>1, <3>2 DEF Rearranged
  <2>6. Shaped(r) /\ r.log2_buckets = u.log2_buckets
    BY <2>4, <2>5, RemoveShifts
  <2> SUFFICES ASSUME Fits(r) PROVE Mapped(r) /\ Distinct(r)
    BY <1>2 DEF Placed
  <2>7. Fits(u) /\ Packed(u) /\ Mapped(u) /\ Distinct(u) /\ p \in Occupied(u)
    BY <2>3, <2>4, <2>5, <2>6 DEF Fits, Placed
  <2>8. /\ Occupied(r) = Occupied(u) \ {E} /\ E \in Occupied(u)
        /\ EntriesIn(u) = EntriesIn(r) \cup {<< u.table[p].key, u.table[p].value >>}
    BY <2>5, <2>7, RemovePacked, RemoveEntries
  <2>9. Mapped(r)
    BY <2>4, <2>5, <2>7, RemoveMapped
  <2> HIDE DEF r, E
  <2>10. Distinct(r)
    BY <2>5, <2>6, <2>7, <2>8, RemovedDistinct
  <2> QED
    BY <2>9, <2>10
<1> QED
  BY <1>1, <1>2 DEF RemoveFound, Abort

LEMMA PlacedStep ==
  ASSUME TableInv, Placed(t), OneOlderSize, [Next]_vars
  PROVE  Placed(t')
<1>1. CASE UNCHANGED t
  BY <1>1
<1>2. ASSUME NEW k \in Keys, Lookup(k) PROVE Placed(t')
  BY <1>2, LookupPlacedStep
<1>3. ASSUME NEW k \in Keys, Remove(k) PROVE Placed(t')
  <2>1. CASE RemoveMissing(k)
    BY <1>1, <2>1 DEF RemoveMissing
  <2>2. CASE RemoveFound(k)
    BY <2>2, RemoveFoundPlacedStep
  <2> QED
    BY <1>3, <2>1, <2>2 DEF Remove
<1>4. ASSUME NEW k \in Keys, NEW v \in Vals, Insert(k, v) PROVE Placed(t')
  BY <1>4, OverwritePlacedStep, InsertNewPlacedStep DEF Insert
<1>5. CASE Clear
  <2>1. t' = NoTable
    BY <1>5 DEF Clear, NoTable
  <2> QED
    BY <2>1, NoTableFacts, EmptyPlaced
<1>6. ASSUME NEW c \in Cookies,
             InitForIteration(c) \/ MakeRobustCookie(c) \/ NextEntry(c) \/ StopIteration(c)
      PROVE  UNCHANGED t
  BY <1>6 DEF InitForIteration, MakeRobustCookie, NextEntry, NextInserted, NextInTable,
              StopIteration, EndOfIteration, Yield, Abort
<1>7. CASE UNCHANGED vars
  BY <1>1, <1>7 DEF vars
<1> QED
  BY <1>1, <1>2, <1>3, <1>4, <1>5, <1>6, <1>7 DEF Next

LEMMA PlacedInit ==
  ASSUME Init
  PROVE  Placed(t)
<1>1. InitialSize \in Nat /\ Log2(InitialSize) \in Nat
  BY LogIsNatural, DictAssumption
<1>2. CASE InitialSize > 0
  <2>1. t = [log2_buckets |-> Log2(InitialSize), table |-> NewTable(Log2(InitialSize)),
             remap_end |-> -1, remaps |-> 0]
    BY <1>2 DEF Init
  <2>2. Occupied(t) = {}
    BY <1>1, <2>1, NewTableShaped
  <2> QED
    BY <2>2, EmptyPlaced
<1>3. CASE ~ (InitialSize > 0)
  <2>1. t = NoTable
    BY <1>3 DEF Init, NoTable
  <2> QED
    BY <2>1, NoTableFacts, EmptyPlaced
<1> QED
  BY <1>2, <1>3

PlacedInv == TableInv /\ Placed(t)

LEMMA PlacesKept == Spec /\ []OneOlderSize => []PlacedInv
<1>1. Init => PlacedInv
  BY TableInit, PlacedInit DEF PlacedInv
<1>2. PlacedInv /\ OneOlderSize /\ [Next]_vars => PlacedInv'
  <2> SUFFICES ASSUME PlacedInv, OneOlderSize, [Next]_vars PROVE PlacedInv'
    OBVIOUS
  <2>1. TableInv /\ Placed(t)
    BY DEF PlacedInv
  <2>2. TableInv'
    BY <2>1, TableStep
  <2>3. Placed(t')
    BY <2>1, PlacedStep
  <2> QED
    BY <2>2, <2>3 DEF PlacedInv
<1> QED
  BY <1>1, <1>2, PTL DEF Spec

(* The table of a state whose distances fit. *)
LEMMA PlacedTable ==
  ASSUME PlacedInv, FitsDistance
  PROVE  /\ t = NoTable \/ Shaped(t)
         /\ Fits(t) /\ Packed(t) /\ Mapped(t) /\ Distinct(t)
<1>1. t = NoTable \/ Shaped(t)
  BY DEF PlacedInv, TableInv
<1>2. Fits(t)
  <2>1. CASE t = NoTable
    BY <2>1, NoTableFacts, Pow2Steps DEF Fits, CapacityOf, TOO_FAR_TO_REACH
  <2>2. CASE Shaped(t)
    BY <2>2, ShapedFacts DEF FitsDistance, Fits
  <2> QED
    BY <1>1, <2>1, <2>2
<1> QED
  BY <1>1, <1>2 DEF PlacedInv, TableInv, Placed

(* Every entry that still waits for Remap() is at or below remap_end, for  *)
(* every hash function, batch, load factor and size, as long as no second  *)
(* resize comes before the first is finished: neither the relocations of   *)
(* Insert, Remove and Remap() nor an entry remapped by a lookup push one   *)
(* past it.  The run dict_two_resizes shows that the hypothesis is needed. *)
THEOREM RemapBoundaryKept ==
  Spec /\ []OneOlderSize => [](FitsDistance => RemapBoundary)
<1>1. PlacedInv => (FitsDistance => RemapBoundary)
  BY PlacedTable DEF Mapped, Bounded, RemapBoundary
<1> QED
  BY <1>1, PlacesKept, PTL

(* The hashed search over the current and the older sizes finds every key  *)
(* that is stored, at the only slot that holds it, under the same          *)
(* hypothesis: what LookupIndex asserts in a debug build.                  *)
THEOREM LookupFindsEveryKey ==
  Spec /\ []OneOlderSize => [](FitsDistance => LookupFindsAll)
<1>1. PlacedInv => (FitsDistance => LookupFindsAll)
  <2> SUFFICES ASSUME PlacedInv, FitsDistance, NEW k \in KeysIn(t)
               PROVE  LinearLookupIndex(t, k) =
                        IF ScanCurrent(t, k) >= 0 \/ OlderSizesWith(t, k) = {}
                        THEN ScanCurrent(t, k)
                        ELSE ScanOlder(t, k, Min(OlderSizesWith(t, k)))
    BY DEF LookupFindsAll
  <2>1. PICK p \in Occupied(t) : k = t.table[p].key
    BY DEF KeysIn
  <2>2. Shaped(t)
    BY <2>1, PlacedTable, NoTableFacts
  <2>3. Packed(t) /\ Mapped(t) /\ Distinct(t)
    BY PlacedTable
  <2>4. p \in Nat
    BY <2>2, ShapedFacts
  <2>5. LinearLookupIndex(t, k) = p
    BY <2>1, <2>2, <2>3, LinearSearchFinds
  <2>6. /\ p \notin Misplaced(t) => ScanCurrent(t, k) = p
        /\ p \in Misplaced(t) =>
             ScanCurrent(t, k) = -1 /\ OlderSizesWith(t, k) # {} /\ OlderPosition(t, k) = p
    BY <2>1, <2>2, <2>3, HashedSearchFinds
  <2>7. CASE p \notin Misplaced(t)
    BY <2>4, <2>5, <2>6, <2>7
  <2>8. CASE p \in Misplaced(t)
    <3>1. ~ (-1 >= 0)
      OBVIOUS
    <3>2. ScanOlder(t, k, Min(OlderSizesWith(t, k))) = p
      BY <2>6, <2>8 DEF OlderPosition
    <3> QED
      BY <2>5, <2>6, <2>8, <3>1, <3>2
  <2> QED
    BY <2>7, <2>8
<1> QED
  BY <1>1, PlacesKept, PTL

-----------------------------------------------------------------------------
(* The map the table stands for. *)

IsMapOf(m, S) ==
  /\ m = [k \in DOMAIN m |-> m[k]]
  /\ \A k \in DOMAIN m : << k, m[k] >> \in S
  /\ \A k, v : << k, v >> \in S => k \in DOMAIN m /\ m[k] = v

LEMMA SameMap ==
  ASSUME NEW m, NEW n, NEW S, IsMapOf(m, S), IsMapOf(n, S)
  PROVE  m = n
<1>1. DOMAIN m = DOMAIN n /\ \A k \in DOMAIN m : m[k] = n[k]
  BY DEF IsMapOf
<1> QED
  BY <1>1 DEF IsMapOf

(* The same pairs, but for those of k. *)
SameBut(R, S, k) == \A j, x : j # k => (<< j, x >> \in R <=> << j, x >> \in S)

LEMMA MapWith ==
  ASSUME NEW m, NEW n, NEW S, NEW R, IsMapOf(m, S), IsMapOf(n, R), NEW k, NEW v,
         << k, v >> \in R, SameBut(R, S, k)
  PROVE  n = [j \in DOMAIN m \cup {k} |-> IF j = k THEN v ELSE m[j]]
<1>1. k \in DOMAIN n /\ n[k] = v
  BY DEF IsMapOf, SameBut
<1>2. ASSUME NEW j \in DOMAIN n, j # k PROVE j \in DOMAIN m /\ m[j] = n[j]
  BY <1>2 DEF IsMapOf, SameBut
<1>3. ASSUME NEW j \in DOMAIN m, j # k PROVE j \in DOMAIN n
  BY <1>3 DEF IsMapOf, SameBut
<1>4. DOMAIN n = DOMAIN m \cup {k}
  BY <1>1, <1>2, <1>3
<1> QED
  BY <1>1, <1>2, <1>4 DEF IsMapOf, SameBut

LEMMA MapWithout ==
  ASSUME NEW m, NEW n, NEW S, NEW R, IsMapOf(m, S), IsMapOf(n, R), NEW k, k \notin DOMAIN n,
         SameBut(R, S, k)
  PROVE  n = [j \in DOMAIN m \ {k} |-> m[j]]
<1>1. ASSUME NEW j \in DOMAIN n PROVE j # k /\ j \in DOMAIN m /\ m[j] = n[j]
  <2>1. j # k /\ << j, n[j] >> \in S
    BY DEF IsMapOf, SameBut
  <2> QED
    BY <2>1 DEF IsMapOf, SameBut
<1>2. ASSUME NEW j \in DOMAIN m, j # k PROVE j \in DOMAIN n
  BY <1>2 DEF IsMapOf, SameBut
<1>3. DOMAIN n = DOMAIN m \ {k}
  BY <1>1, <1>2
<1> QED
  BY <1>1, <1>3 DEF IsMapOf, SameBut

ContentsIn(u) == [k \in KeysIn(u) |-> u.table[LinearLookupIndex(u, k)].value]

LEMMA ContentsMap ==
  ASSUME NEW u, u = NoTable \/ Shaped(u), Distinct(u)
  PROVE  IsMapOf(ContentsIn(u), EntriesIn(u)) /\ DOMAIN ContentsIn(u) = KeysIn(u)
<1> DEFINE m == ContentsIn(u)
<1>1. DOMAIN m = KeysIn(u) /\ m = [k \in DOMAIN m |-> m[k]]
  BY DEF ContentsIn
<1>2. ASSUME NEW p \in Occupied(u)
      PROVE  u.table[p].key \in DOMAIN m /\ m[u.table[p].key] = u.table[p].value
  <2>1. Shaped(u)
    BY <1>2, NoTableFacts
  <2>2. LinearLookupIndex(u, u.table[p].key) = p
    BY <2>1, LinearSearchFinds
  <2>3. u.table[p].key \in KeysIn(u)
    BY DEF KeysIn
  <2> QED
    BY <2>2, <2>3 DEF ContentsIn
<1> HIDE DEF m
<1>3. ASSUME NEW k \in DOMAIN m PROVE << k, m[k] >> \in EntriesIn(u)
  <2>1. PICK p \in Occupied(u) : k = u.table[p].key
    BY <1>1 DEF KeysIn
  <2>2. m[k] = u.table[p].value
    BY <1>2, <2>1
  <2> QED
    BY <2>1, <2>2 DEF EntriesIn
<1>4. ASSUME NEW k, NEW v, << k, v >> \in EntriesIn(u) PROVE k \in DOMAIN m /\ m[k] = v
  <2>1. PICK p \in Occupied(u) : << k, v >> = << u.table[p].key, u.table[p].value >>
    BY <1>4 DEF EntriesIn
  <2>2. k = u.table[p].key /\ v = u.table[p].value
    BY <2>1
  <2> QED
    BY <1>2, <2>2
<1> QED
  BY <1>1, <1>3, <1>4 DEF IsMapOf, m

LEMMA EmptyContents ==
  ASSUME NEW u, Occupied(u) = {}
  PROVE  ContentsIn(u) = << >>
<1>1. KeysIn(u) = {}
  BY DEF KeysIn
<1> QED
  BY <1>1 DEF ContentsIn

-----------------------------------------------------------------------------
(* The queue of a cookie. *)

LEMMA WithoutKeyKeeps ==
  ASSUME NEW S, NEW s \in Seq(S), NEW k
  PROVE  WithoutKey(s, k) \in Seq({e \in S : e.key # k})
<1> DEFINE kept[n \in 0 .. Len(s)] ==
             IF n = 0 THEN << >>
             ELSE IF s[n].key = k THEN kept[n - 1]
             ELSE Append(kept[n - 1], s[n])
           Step(g, i) == IF i = 0 THEN << >>
                         ELSE IF s[i].key = k THEN g[i - 1]
                         ELSE Append(g[i - 1], s[i])
           Has == {n \in Nat : \E g : g = [i \in 0 .. n |-> Step(g, i)]}
           R == {e \in S : e.key # k}
           T == {n \in Nat : n <= Len(s) => kept[n] \in Seq(R)}
<1>1. Len(s) \in Nat
  OBVIOUS
<1>2. WithoutKey(s, k) = kept[Len(s)]
  BY DEF WithoutKey
<1>3. \A n \in Nat : n \in Has
  <2>1. 0 \in Has
    <3> DEFINE g == [i \in 0 .. 0 |-> << >>]
    <3>1. g = [i \in 0 .. 0 |-> Step(g, i)]
      OBVIOUS
    <3> QED
      BY <3>1
  <2>2. ASSUME NEW n \in Nat, n \in Has PROVE n + 1 \in Has
    <3>1. PICK g : g = [i \in 0 .. n |-> Step(g, i)]
      BY <2>2
    <3> DEFINE h == [i \in 0 .. n + 1 |->
                       IF i = n + 1 THEN (IF s[n + 1].key = k THEN g[n] ELSE Append(g[n], s[n + 1]))
                       ELSE g[i]]
    <3>2. \A i \in 0 .. n : g[i] = Step(g, i)
      BY <3>1, Zenon
    <3>3. \A i \in 0 .. n + 1 : h[i] = Step(h, i)
      <4> TAKE i \in 0 .. n + 1
      <4>1. CASE i = n + 1
        <5>1. /\ h[i] = (IF s[n + 1].key = k THEN g[n] ELSE Append(g[n], s[n + 1]))
              /\ i - 1 = n /\ h[n] = g[n] /\ i # 0
          BY <4>1
        <5> HIDE DEF h
        <5> QED
          BY <4>1, <5>1
      <4>2. CASE i # n + 1
        <5>1. i \in 0 .. n /\ h[i] = g[i] /\ (i # 0 => i - 1 \in 0 .. n /\ h[i - 1] = g[i - 1])
          BY <4>2
        <5> HIDE DEF h
        <5> QED
          BY <3>2, <5>1
      <4> QED
        BY <4>1, <4>2
    <3>4. h = [i \in 0 .. n + 1 |-> h[i]]
      OBVIOUS
    <3> HIDE DEF h, Step
    <3>5. h = [i \in 0 .. n + 1 |-> Step(h, i)]
      BY <3>3, <3>4
    <3> QED
      BY <3>5
  <2> HIDE DEF Has
  <2> QED
    BY <2>1, <2>2, SetInduction
<1>4. \E g : g = [i \in 0 .. Len(s) |-> Step(g, i)]
  BY <1>1, <1>3
<1>5. kept = [n \in 0 .. Len(s) |->
                IF n = 0 THEN << >>
                ELSE IF s[n].key = k THEN kept[n - 1]
                ELSE Append(kept[n - 1], s[n])]
  BY <1>4, Zenon
<1> HIDE DEF kept, Has
<1>6. \A n \in 0 .. Len(s) : kept[n] = IF n = 0 THEN << >>
                                       ELSE IF s[n].key = k THEN kept[n - 1]
                                       ELSE Append(kept[n - 1], s[n])
  BY <1>5, Zenon
<1>7. 0 \in T
  <2>1. kept[0] = << >>
    BY <1>1, <1>6
  <2> HIDE DEF R
  <2>2. kept[0] \in Seq(R)
    BY <2>1
  <2> QED
    BY <2>2
<1>8. ASSUME NEW n \in Nat, n \in T PROVE n + 1 \in T
  <2> SUFFICES ASSUME n + 1 <= Len(s) PROVE kept[n + 1] \in Seq(R)
    OBVIOUS
  <2>1. n + 1 \in 0 .. Len(s) /\ n + 1 # 0 /\ (n + 1) - 1 = n /\ n <= Len(s) /\ n + 1 \in 1 .. Len(s)
    BY <1>1
  <2>2. kept[n] \in Seq(R)
    BY <1>8, <2>1
  <2>3. kept[n + 1] = IF s[n + 1].key = k THEN kept[n] ELSE Append(kept[n], s[n + 1])
    BY <1>6, <2>1
  <2>4. s[n + 1] \in S
    BY <2>1
  <2>5. s[n + 1].key # k => s[n + 1] \in R
    BY <2>4
  <2> HIDE DEF R
  <2> QED
    BY <2>2, <2>3, <2>5
<1> HIDE DEF T
<1>9. Len(s) \in T
  BY <1>1, <1>7, <1>8, SetInduction
<1>10. kept[Len(s)] \in Seq(R)
  BY <1>1, <1>9 DEF T
<1> QED
  BY <1>2, <1>10

-----------------------------------------------------------------------------
(* Entries with a key and a value of the table, what a queue holds. *)
QueueOf(u) == {e \in [key : Keys, value : Vals] : << e.key, e.value >> \in EntriesIn(u)}

Queued == \A c \in DOMAIN cookie : cookie[c].inserted \in Seq(QueueOf(t))

LEMMA QueueGrows ==
  ASSUME NEW S, NEW R, S \subseteq R, NEW s \in Seq(S)
  PROVE  s \in Seq(R)
  OBVIOUS

LEMMA NoCookies ==
  ASSUME CountInv, ~ Iterating
  PROVE  DOMAIN cookie = {} /\ cookies = {}
<1>1. num_iterators \in Nat /\ num_iterators = Cardinality(DOMAIN cookie)
  BY FS_CardinalityType DEF CountInv, CookiesAccounted
<1>2. Cardinality(DOMAIN cookie) = 0
  BY <1>1 DEF Iterating
<1>3. DOMAIN cookie = {}
  BY <1>2, FS_EmptySet DEF CountInv
<1> QED
  BY <1>3 DEF CountInv, CookiesAccounted

(* The head of a cluster is not behind the entry it is asked for. *)
LEMMA HeadBelow ==
  ASSUME NEW u, Shaped(u), Packed(u), NEW p \in Occupied(u)
  PROVE  HeadOfClusterByPosition(u, p) \in Int /\ HeadOfClusterByPosition(u, p) <= p
<1> DEFINE b == BucketByPosition(u, p)
           S == {b - 1} \cup {j \in b .. p : BucketByPosition(u, j) # b}
<1>1. p \in Nat /\ b \in 0 .. p
  BY ShapedFacts DEF Packed
<1>2. HeadOfClusterByPosition(u, p) = IF Max(S) = b THEN Max(S) ELSE Max(S) + 1
  BY DEF HeadOfClusterByPosition
<1>3. p \notin S
  BY <1>1
<1> HIDE DEF b
<1>4. S \subseteq Int /\ S # {} /\ p \in Int /\ \A x \in S : x <= p
  BY <1>1
<1> HIDE DEF S
<1>5. Max(S) \in S /\ Max(S) \in Int
  BY <1>4, GreatestOf
<1>6. Max(S) <= p /\ Max(S) # p
  BY <1>3, <1>4, <1>5
<1> QED
  BY <1>1, <1>2, <1>5, <1>6

(* What AdjustOnRemove queues is an entry of the table. *)
LEMMA MovedOccupied ==
  ASSUME NEW u, Shaped(u), Fits(u), Packed(u), NEW p \in Occupied(u),
         NEW r, r = RemoveAndRelocate(u, p).t, NEW n \in Int, p < n, n <= RemoveEnd(u, p)
  PROVE  Max({HeadOfClusterByPosition(r, n - 1), p}) \in Occupied(r)
<1> DEFINE E == RemoveEnd(u, p)
           S == {HeadOfClusterByPosition(r, n - 1), p}
<1>1. p \in 0 .. Capacity(u) - 1 /\ Capacity(u) \in Nat
  BY ShapedFacts
<1>2. /\ E \in p .. Capacity(u) - 1
      /\ \A q \in p + 1 .. E : ~ Empty(u, q)
  BY <1>1, RemoveEnds
<1>3. Shaped(r)
  BY <1>1, RemoveShifts
<1>4. Packed(r) /\ Occupied(r) = Occupied(u) \ {E}
  BY RemovePacked
<1> HIDE DEF E
<1>5. \A q \in p .. E - 1 : q \in Occupied(r)
  <2> TAKE q \in p .. E - 1
  <2>1. q \in 0 .. Capacity(u) - 1 /\ q # E /\ (q = p \/ q \in p + 1 .. E)
    BY <1>1, <1>2
  <2>2. q \in Occupied(u)
    BY <1>2, <2>1, ShapedFacts
  <2> QED
    BY <1>4, <2>1, <2>2
<1>6. n - 1 \in p .. E - 1
  BY <1>1, <1>2 DEF E
<1>7. HeadOfClusterByPosition(r, n - 1) \in Int /\ HeadOfClusterByPosition(r, n - 1) <= n - 1
  BY <1>3, <1>4, <1>5, <1>6, HeadBelow
<1>8. S \subseteq Int /\ S # {} /\ n - 1 \in Int /\ \A x \in S : x <= n - 1
  BY <1>1, <1>6, <1>7
<1>9. p \in S
  OBVIOUS
<1> HIDE DEF S
<1>10. Max(S) \in S /\ Max(S) \in Int /\ p <= Max(S)
  BY <1>8, <1>9, GreatestOf
<1>11. Max(S) \in p .. E - 1
  BY <1>1, <1>2, <1>6, <1>8, <1>10
<1> QED
  BY <1>5, <1>11 DEF S

LEMMA OccupiedQueue ==
  ASSUME NEW u, Shaped(u), NEW p \in Occupied(u)
  PROVE  [key |-> u.table[p].key, value |-> u.table[p].value] \in QueueOf(u)
<1>1. u.table[p] \in AnyCell
  BY ShapedFacts
<1>2. << u.table[p].key, u.table[p].value >> \in EntriesIn(u)
  BY DEF EntriesIn
<1> QED
  BY <1>1, <1>2 DEF QueueOf, AnyCell

LEMMA AdjustQueued ==
  ASSUME NEW u, Shaped(u), Fits(u), Packed(u), NEW p \in Occupied(u),
         NEW r, r = RemoveAndRelocate(u, p), NEW k, k = u.table[p].key,
         NEW c, DOMAIN c = CookieFields, c.next \in Nat \cup {-1},
         c.inserted \in Seq(QueueOf(u)), NEW empty
  PROVE  AdjustOnRemove(c, r.t, k, p, r.last_affected, empty).inserted \in Seq(QueueOf(r.t))
<1> DEFINE w == r.t
           kept == WithoutKey(c.inserted, k)
           m == Max({HeadOfClusterByPosition(w, c.next - 1), p})
           moved == [key |-> w.table[m].key, value |-> w.table[m].value]
           more == p < c.next /\ c.next <= r.last_affected
<1>1. r.last_affected = RemoveEnd(u, p)
  BY RemoveForm
<1>2. p \in 0 .. Capacity(u) - 1 /\ p \in Int /\ c.next \in Int
  BY ShapedFacts
<1>3. Shaped(w)
  BY <1>2, RemoveShifts
<1>4. EntriesIn(u) = EntriesIn(w) \cup {<< k, u.table[p].value >>}
  BY <1>2, RemovePacked, RemoveEntries
<1>5. more => m \in Occupied(w)
  BY <1>1, <1>2, MovedOccupied
<1>6. AdjustOnRemove(c, w, k, p, r.last_affected, empty).inserted =
        IF more THEN Append(kept, moved) ELSE kept
  BY DEF AdjustOnRemove, CookieFields
<1> HIDE DEF m, more, w
<1>7. {e \in QueueOf(u) : e.key # k} \subseteq QueueOf(w)
  <2> SUFFICES ASSUME NEW e \in QueueOf(u), e.key # k PROVE e \in QueueOf(w)
    OBVIOUS
  <2>1. e \in [key : Keys, value : Vals] /\ << e.key, e.value >> \in EntriesIn(u)
    BY DEF QueueOf
  <2>2. << e.key, e.value >> # << k, u.table[p].value >>
    OBVIOUS
  <2>3. << e.key, e.value >> \in EntriesIn(w)
    BY <1>4, <2>1, <2>2
  <2> QED
    BY <2>1, <2>3 DEF QueueOf
<1>8. kept \in Seq(QueueOf(w))
  <2>1. kept \in Seq({e \in QueueOf(u) : e.key # k})
    BY WithoutKeyKeeps
  <2> HIDE DEF kept
  <2> QED
    BY <1>7, <2>1, QueueGrows
<1>9. more => moved \in QueueOf(w)
  BY <1>3, <1>5, OccupiedQueue
<1> HIDE DEF kept, moved
<1>10. (IF more THEN Append(kept, moved) ELSE kept) \in Seq(QueueOf(w))
  BY <1>8, <1>9
<1> QED
  BY <1>6, <1>10 DEF w

LEMMA LookupIterating ==
  ASSUME NEW u, NEW k, NEW iterating, iterating
  PROVE  LookupIndex(u, k, iterating).t = u /\ LookupIndex(u, k, iterating).asserted = TRUE
  BY DEF LookupIndex

(* A change while iterating finds every cookie registered. *)
LEMMA AllRobust ==
  ASSUME CountInv, Iterating, OnlyRobustIterators
  PROVE  cookies = DOMAIN cookie
<1>1. /\ num_iterators = Cardinality(DOMAIN cookie) /\ IsFiniteSet(DOMAIN cookie)
      /\ cookies \subseteq DOMAIN cookie
  BY DEF CountInv, CookiesAccounted
<1>2. num_iterators = Cardinality(cookies)
  BY DEF OnlyRobustIterators, Iterating
<1> QED
  BY <1>1, <1>2, FS_Subset

LEMMA RemoveFoundQueued ==
  ASSUME NEW k \in Keys, TableInv, Fits(t), CountInv, CookieTypes, Queued, RemoveFound(k)
  PROVE  Queued'
<1> DEFINE look == LookupIndex(t, k, Iterating)
           p == look.position
           r == RemoveAndRelocate(look.t, p)
           New(c, s) == AdjustOnRemove(cookie[c], r.t, k, p, r.last_affected, c \in s)
<1>1. CASE UNCHANGED << t, cookie >>
  BY <1>1 DEF Queued
<1>2. CASE /\ p >= 0 /\ t' = r.t
           /\ \E s : cookie' = [c \in DOMAIN cookie |->
                                  IF c \in cookies THEN New(c, s) ELSE cookie[c]]
  <2>1. PICK s : cookie' = [c \in DOMAIN cookie |->
                              IF c \in cookies THEN New(c, s) ELSE cookie[c]]
    BY <1>2
  <2>2. DOMAIN cookie' = DOMAIN cookie
    BY <2>1
  <2>3. CASE ~ Iterating
    BY <2>2, <2>3, NoCookies DEF Queued
  <2>4. CASE Iterating
    <3>1. Shaped(t) /\ Packed(t)
      <4>1. ASSUME t = NoTable PROVE FALSE
        <5>1. p = -1
          BY <4>1, NoTableFacts DEF LookupIndex
        <5> HIDE DEF look
        <5> QED
          BY <1>2, <5>1
      <4> QED
        BY <4>1 DEF TableInv
    <3>2. look.t = t /\ look.asserted
      BY <2>4, LookupIterating
    <3>3. Points(t, p) /\ t.table[p].key = k
      BY <1>2, <3>1, <3>2, LookupRearranges
    <3>4. p \in Occupied(t)
      BY <3>3 DEF Points
    <3> HIDE DEF look, p
    <3>5. ASSUME NEW c \in DOMAIN cookie PROVE New(c, s).inserted \in Seq(QueueOf(r.t))
      <4>1. /\ DOMAIN cookie[c] = CookieFields /\ cookie[c].next \in Nat \cup {-1}
            /\ cookie[c].inserted \in Seq(QueueOf(t))
        BY DEF CookieTypes, Queued
      <4> QED
        BY <3>1, <3>2, <3>3, <3>4, <4>1, AdjustQueued
    <3>6. cookies = DOMAIN cookie
      BY <2>4, AllRobust DEF RemoveFound
    <3> HIDE DEF New, r
    <3>7. \A c \in DOMAIN cookie : cookie'[c] = New(c, s)
      BY <2>1, <3>6
    <3> QED
      BY <1>2, <2>2, <3>5, <3>7 DEF Queued
  <2> QED
    BY <2>3, <2>4
<1> QED
  BY <1>1, <1>2 DEF RemoveFound, Abort, iteration

LEMMA LookupWhileIterating ==
  ASSUME NEW k, Iterating, Lookup(k)
  PROVE  t' = t
<1> DEFINE look == LookupIndex(t, k, Iterating)
<1>1. t' = look.t \/ t' = t
  BY DEF Lookup, Abort
<1>2. look.t = t
  BY LookupIterating
<1> QED
  BY <1>1, <1>2

LEMMA YieldQueued ==
  ASSUME NEW c \in DOMAIN cookie, NEW new, NEW k, NEW v, Queued,
         new.inserted \in Seq(QueueOf(t)), Yield(c, new, k, v)
  PROVE  Queued'
<1>1. cookie' = [cookie EXCEPT ![c] = new] /\ t' = t
  BY DEF Yield
<1>2. /\ DOMAIN cookie' = DOMAIN cookie
      /\ \A d \in DOMAIN cookie : cookie'[d] = IF d = c THEN new ELSE cookie[d]
  BY <1>1
<1>3. \A d \in DOMAIN cookie : cookie'[d].inserted \in Seq(QueueOf(t))
  BY <1>2 DEF Queued
<1> QED
  BY <1>1, <1>2, <1>3 DEF Queued

LEMMA DeleteQueued ==
  ASSUME NEW c, Queued, DeleteCookie(c), t' = t
  PROVE  Queued'
<1>1. cookie' = [d \in DOMAIN cookie \ {c} |-> cookie[d]]
  BY DEF DeleteCookie
<1>2. DOMAIN cookie' \subseteq DOMAIN cookie /\ \A d \in DOMAIN cookie' : cookie'[d] = cookie[d]
  BY <1>1
<1> QED
  BY <1>2 DEF Queued

LEMMA QueueStep ==
  ASSUME ChangesWhileIterating \subseteq {"remove"}, TableInv, Fits(t), CountInv, CookieTypes,
         Queued, [Next]_vars
  PROVE  Queued'
<1>1. CASE UNCHANGED << t, cookie >>
  BY <1>1 DEF Queued
<1>2. ASSUME ~ Iterating, DOMAIN cookie' = DOMAIN cookie PROVE Queued'
  BY <1>2, NoCookies DEF Queued
<1>3. ASSUME NEW k \in Keys, Lookup(k) PROVE Queued'
  <2>1. cookie' = cookie
    BY <1>3 DEF Lookup, Abort, iteration
  <2> QED
    BY <1>1, <1>2, <1>3, <2>1, LookupWhileIterating
<1>4. ASSUME NEW k \in Keys, Remove(k) PROVE Queued'
  <2>1. CASE RemoveMissing(k)
    BY <1>1, <2>1 DEF RemoveMissing, iteration
  <2>2. CASE RemoveFound(k)
    BY <2>2, RemoveFoundQueued
  <2> QED
    BY <1>4, <2>1, <2>2 DEF Remove
<1>5. ASSUME NEW k \in Keys, NEW v \in Vals, Insert(k, v) PROVE Queued'
  <2>1. ~ Iterating
    <3>1. May("insert")
      BY <1>5 DEF Insert, Overwrite, InsertNew
    <3> QED
      BY <3>1 DEF May
  <2>2. DOMAIN cookie' = DOMAIN cookie
    BY <1>5, ChangesKeepCookies DEF Insert, CountInv
  <2> QED
    BY <1>2, <2>1, <2>2
<1>6. CASE Clear
  <2>1. ~ Iterating /\ cookie' = cookie
    BY <1>6 DEF Clear, May
  <2> QED
    BY <1>2, <2>1
<1>7. ASSUME NEW c \in Cookies, InitForIteration(c) PROVE Queued'
  <2> DEFINE new == [robust |-> FALSE, next |-> -1, inserted |-> << >>, visited |-> EmptyBag]
  <2>1. cookie' = With(cookie, c, new) /\ t' = t
    BY <1>7 DEF InitForIteration
  <2>2. new.inserted = << >>
    OBVIOUS
  <2> HIDE DEF new
  <2>3. /\ DOMAIN cookie' = DOMAIN cookie \cup {c}
        /\ \A d \in DOMAIN cookie' : cookie'[d] = IF d = c THEN new ELSE cookie[d]
    BY <2>1 DEF With
  <2>4. new.inserted \in Seq(QueueOf(t))
    BY <2>2
  <2>5. \A d \in DOMAIN cookie' : cookie'[d].inserted \in Seq(QueueOf(t))
    BY <2>3, <2>4 DEF Queued
  <2> QED
    BY <2>1, <2>5 DEF Queued
<1>8. ASSUME NEW c \in Cookies, MakeRobustCookie(c) PROVE Queued'
  <2>1. cookie' = [cookie EXCEPT ![c].robust = TRUE] /\ c \in DOMAIN cookie /\ t' = t
    BY <1>8 DEF MakeRobustCookie
  <2>2. /\ DOMAIN cookie' = DOMAIN cookie
        /\ \A d \in DOMAIN cookie : cookie'[d].inserted = cookie[d].inserted
    BY <2>1 DEF CookieTypes, CookieFields
  <2> QED
    BY <2>1, <2>2 DEF Queued
<1>9. ASSUME NEW c \in Cookies, NextInserted(c) PROVE Queued'
  <2> DEFINE queue == cookie[c].inserted
             rest == SubSeq(queue, 1, Len(queue) - 1)
             new == [cookie[c] EXCEPT !.inserted = rest]
  <2>1. c \in DOMAIN cookie /\ Yield(c, new, queue[Len(queue)].key, queue[Len(queue)].value)
    BY <1>9 DEF NextInserted
  <2>2. queue \in Seq(QueueOf(t)) /\ queue # << >>
    BY <1>9, <2>1 DEF Queued, NextInserted
  <2>3. rest \in Seq(QueueOf(t))
    BY <2>2
  <2>4. new.inserted = rest
    BY <2>1 DEF CookieTypes, CookieFields
  <2> HIDE DEF new
  <2> QED
    BY <2>1, <2>3, <2>4, YieldQueued
<1>10. ASSUME NEW c \in Cookies, NextInTable(c) PROVE Queued'
  <2> DEFINE start == IF cookie[c].next < 0 THEN NextOccupied(t, -1) ELSE cookie[c].next
             p == First(start, Capacity(t),
                        LAMBDA q : ~Empty(t, q) /\ ~BagIn(t.table[q].key, cookie[c].visited))
             skipped == {t.table[q].key : q \in Occupied(t) \cap (start .. p - 1)}
             new == [cookie[c] EXCEPT !.next = NextOccupied(t, p),
                                      !.visited = @ (-) SetToBag(skipped)]
  <2>1. c \in DOMAIN cookie
    BY <1>10 DEF NextInTable
  <2>2. \/ EndOfIteration(c)
        \/ Abort("NextEntry:909")
        \/ Yield(c, new, t.table[p].key, t.table[p].value)
    BY <1>10 DEF NextInTable
  <2>3. new.inserted \in Seq(QueueOf(t))
    <3> HIDE DEF p, skipped
    <3>1. new.inserted = cookie[c].inserted
      BY <2>1 DEF CookieTypes, CookieFields
    <3> QED
      BY <2>1, <3>1 DEF Queued
  <2> HIDE DEF new, p
  <2>4. EndOfIteration(c) => (DeleteCookie(c) /\ t' = t) \/ UNCHANGED << t, cookie >>
    BY DEF EndOfIteration, Abort, iteration
  <2>5. Abort("NextEntry:909") => UNCHANGED << t, cookie >>
    BY DEF Abort, iteration
  <2> QED
    BY <1>1, <2>1, <2>2, <2>3, <2>4, <2>5, DeleteQueued, YieldQueued
<1>11. ASSUME NEW c \in Cookies, StopIteration(c) PROVE Queued'
  <2>1. (DeleteCookie(c) /\ t' = t) \/ UNCHANGED << t, cookie >>
    BY <1>11 DEF StopIteration, Abort, iteration
  <2> QED
    BY <1>1, <2>1, DeleteQueued
<1>12. CASE UNCHANGED vars
  BY <1>1, <1>12 DEF vars
<1> QED
  BY <1>3, <1>4, <1>5, <1>6, <1>7, <1>8, <1>9, <1>10, <1>11, <1>12 DEF Next, NextEntry

-----------------------------------------------------------------------------
(* The dictionary implements the map. *)

LEMMA LookupPosition ==
  ASSUME NEW u, u = NoTable \/ Shaped(u), NEW k \in Keys, NEW iterating
  PROVE  LookupIndex(u, k, iterating).position \in Int
<1>1. CASE u = NoTable
  <2>1. LookupIndex(u, k, iterating) = [t |-> u, position |-> -1, asserted |-> TRUE]
    BY <1>1, NoTableFacts DEF LookupIndex
  <2> QED
    BY <2>1
<1>2. CASE Shaped(u) /\ (ScanCurrent(u, k) >= 0 \/ OlderSizesWith(u, k) = {})
  <2>1. LookupIndex(u, k, iterating) = [t |-> u, position |-> ScanCurrent(u, k), asserted |-> TRUE]
    BY <1>2, ShapedFacts DEF LookupIndex
  <2>2. ScanCurrent(u, k) \in Int
    BY <1>2, ScanCurrentFinds, ShapedFacts
  <2> QED
    BY <2>1, <2>2
<1>3. CASE Shaped(u) /\ ~ (ScanCurrent(u, k) >= 0 \/ OlderSizesWith(u, k) = {})
  <2>1. OlderPosition(u, k) \in Occupied(u)
    BY <1>3, OlderPositionFinds
  <2> DEFINE m == RemapAt(u, OlderPosition(u, k))
  <2>2. m.position \in Int /\ OlderPosition(u, k) \in Int
    BY <1>3, <2>1, RearrangedRemapAt, ShapedFacts DEF Points
  <2>3. LookupIndex(u, k, iterating).position \in {OlderPosition(u, k), m.position}
    BY <1>3, ShapedFacts DEF LookupIndex, AssertFound
  <2> HIDE DEF m
  <2> QED
    BY <2>2, <2>3
<1> QED
  BY <1>1, <1>2, <1>3

LEMMA MapNow ==
  ASSUME PlacedInv, Fits(t)
  PROVE  IsMapOf(Contents, EntriesIn(t)) /\ DOMAIN Contents = KeysIn(t)
<1>1. Contents = ContentsIn(t)
  BY DEF Contents, ContentsIn
<1>2. (t = NoTable \/ Shaped(t)) /\ Distinct(t)
  BY DEF PlacedInv, TableInv, Placed
<1> QED
  BY <1>1, <1>2, ContentsMap

LEMMA MapThen ==
  ASSUME PlacedInv', Fits(t')
  PROVE  IsMapOf(Contents', EntriesIn(t')) /\ DOMAIN Contents' = KeysIn(t')
<1>1. Contents' = ContentsIn(t')
  BY DEF Contents, ContentsIn
<1>2. (t' = NoTable \/ Shaped(t')) /\ Distinct(t')
  BY DEF PlacedInv, TableInv, Placed
<1> QED
  BY <1>1, <1>2, ContentsMap

LEMMA MapSame ==
  ASSUME t' = t
  PROVE  Contents' = Contents
<1>1. Contents' = ContentsIn(t') /\ Contents = ContentsIn(t)
  BY DEF Contents, ContentsIn
<1> QED
  BY <1>1

(* A search that fails: the map does not have the key. *)
LEMMA MissingKey ==
  ASSUME PlacedInv, Fits(t), NEW k \in Keys, LookupIndex(t, k, Iterating).position < 0
  PROVE  k \notin KeysIn(t)
<1>1. CASE t = NoTable
  BY <1>1, NoTableFacts DEF KeysIn
<1>2. CASE Shaped(t)
  BY <1>2, LookupAbsent DEF PlacedInv, TableInv, Placed
<1> QED
  BY <1>1, <1>2 DEF PlacedInv, TableInv

LEMMA LookupOfMap ==
  ASSUME PlacedInv, PlacedInv', Fits(t), Fits(t'), NEW k \in Keys, Lookup(k)
  PROVE  UNCHANGED << t, ret >> \/ Map!Lookup(k)
<1> DEFINE look == LookupIndex(t, k, Iterating)
           val == IF look.position >= 0 THEN look.t.table[look.position].value ELSE NULL
<1>1. CASE UNCHANGED << t, ret >>
  BY <1>1
<1>2. CASE look.asserted /\ t' = look.t /\ ret' = [op |-> "lookup", key |-> k, value |-> val]
  <2>1. EntriesIn(t') = EntriesIn(t)
    BY LookupEntries DEF PlacedInv
  <2>2. IsMapOf(Contents, EntriesIn(t)) /\ IsMapOf(Contents', EntriesIn(t)) /\ DOMAIN Contents = KeysIn(t)
    BY <2>1, MapNow, MapThen
  <2>3. Contents' = Contents
    BY <2>2, SameMap
  <2>4. t = NoTable \/ Shaped(t)
    BY DEF PlacedInv, TableInv
  <2>5. look.position \in Int
    BY <2>4, LookupPosition
  <2>6. val = IF k \in DOMAIN Contents THEN Contents[k] ELSE NULL
    <3>1. CASE look.position < 0
      <4>1. k \notin KeysIn(t)
        BY <3>1, MissingKey
      <4> HIDE DEF look
      <4> QED
        BY <2>2, <2>5, <3>1, <4>1
    <3>2. CASE look.position >= 0
      <4>1. Shaped(t)
        <5>1. ASSUME t = NoTable PROVE FALSE
          <6>1. look.position = -1
            BY <5>1, NoTableFacts DEF LookupIndex
          <6> HIDE DEF look
          <6> QED
            BY <3>2, <6>1
        <5> QED
          BY <2>4, <5>1
      <4>2. Points(look.t, look.position) /\ look.t.table[look.position].key = k
        BY <1>2, <3>2, <4>1, LookupRearranges
      <4> HIDE DEF look
      <4>3. look.position \in Occupied(look.t)
        BY <1>2, <4>2 DEF Points
      <4>4. << k, look.t.table[look.position].value >> \in EntriesIn(look.t)
        BY <4>2, <4>3 DEF EntriesIn
      <4>5. << k, look.t.table[look.position].value >> \in EntriesIn(t)
        BY <1>2, <2>1, <4>4
      <4>6. k \in DOMAIN Contents /\ Contents[k] = look.t.table[look.position].value
        BY <2>2, <4>5 DEF IsMapOf
      <4> QED
        BY <3>2, <4>6
    <3> HIDE DEF look
    <3> QED
      BY <2>5, <3>1, <3>2
  <2> HIDE DEF val
  <2> QED
    BY <1>2, <2>3, <2>6 DEF Map!Lookup, Map!Returns, Map!At
<1> QED
  BY <1>1, <1>2 DEF Lookup, Abort, Returns

LEMMA OverwriteOfMap ==
  ASSUME PlacedInv, PlacedInv', Fits(t), Fits(t'), NEW k \in Keys, NEW v \in Vals, Overwrite(k, v)
  PROVE  UNCHANGED << t, ret >> \/ Map!Insert(k, v)
<1>1. ASSUME Replaced(k, v) PROVE Map!Insert(k, v)
  <2>1. PICK old :
          /\ ret' = [op |-> "insert", key |-> k, value |-> old]
          /\ << k, old >> \in EntriesIn(t) /\ << k, v >> \in EntriesIn(t')
          /\ EntriesIn(t') \cup {<< k, old >>} = EntriesIn(t) \cup {<< k, v >>}
    BY <1>1 DEF Replaced
  <2>2. IsMapOf(Contents, EntriesIn(t)) /\ IsMapOf(Contents', EntriesIn(t'))
    BY MapNow, MapThen
  <2>3. SameBut(EntriesIn(t'), EntriesIn(t), k)
    <3> SUFFICES ASSUME NEW j, NEW x, j # k PROVE << j, x >> \in EntriesIn(t') <=> << j, x >> \in EntriesIn(t)
      BY DEF SameBut
    <3>1. << j, x >> # << k, old >> /\ << j, x >> # << k, v >>
      OBVIOUS
    <3> QED
      BY <2>1, <3>1
  <2>4. Contents' = [j \in DOMAIN Contents \cup {k} |-> IF j = k THEN v ELSE Contents[j]]
    BY <2>1, <2>2, <2>3, MapWith
  <2>5. k \in DOMAIN Contents /\ Contents[k] = old
    BY <2>1, <2>2 DEF IsMapOf
  <2> QED
    BY <2>1, <2>4, <2>5 DEF Map!Insert, Map!Returns, Map!At
<1> QED
  BY <1>1, OverwriteEntries DEF PlacedInv

LEMMA InsertNewOfMap ==
  ASSUME PlacedInv, PlacedInv', Fits(t), Fits(t'), NEW k \in Keys, NEW v \in Vals, InsertNew(k, v)
  PROVE  Map!Insert(k, v)
<1>1. /\ EntriesIn(t') = EntriesIn(t) \cup {<< k, v >>}
      /\ ret' = [op |-> "insert", key |-> k, value |-> NULL]
  BY InsertNewEntries DEF PlacedInv
<1>2. /\ IsMapOf(Contents, EntriesIn(t)) /\ IsMapOf(Contents', EntriesIn(t'))
      /\ DOMAIN Contents = KeysIn(t)
  BY MapNow, MapThen
<1>3. k \notin KeysIn(t)
  <2>1. LookupIndex(Allocated, k, Iterating).position < 0
    BY DEF InsertNew
  <2>2. /\ Shaped(Allocated) /\ Allocated.log2_buckets = t.log2_buckets
        /\ Fits(Allocated) => Packed(Allocated)
        /\ Placed(Allocated) /\ EntriesIn(Allocated) = EntriesIn(t)
    BY AllocatedShaped, AllocatedPlaced, AllocatedEntries DEF PlacedInv
  <2>3. Packed(Allocated) /\ Mapped(Allocated) /\ Distinct(Allocated)
    BY <2>2 DEF Fits, Placed
  <2>4. k \notin KeysIn(Allocated)
    BY <2>1, <2>2, <2>3, LookupAbsent
  <2> QED
    BY <2>2, <2>4, KeysOfEntries
<1>4. << k, v >> \in EntriesIn(t')
  BY <1>1
<1>5. SameBut(EntriesIn(t'), EntriesIn(t), k)
  <2> SUFFICES ASSUME NEW j, NEW x, j # k PROVE << j, x >> \in EntriesIn(t') <=> << j, x >> \in EntriesIn(t)
    BY DEF SameBut
  <2>1. << j, x >> # << k, v >>
    OBVIOUS
  <2> QED
    BY <1>1, <2>1
<1>6. Contents' = [j \in DOMAIN Contents \cup {k} |-> IF j = k THEN v ELSE Contents[j]]
  BY <1>2, <1>4, <1>5, MapWith
<1> QED
  BY <1>1, <1>2, <1>3, <1>6 DEF Map!Insert, Map!Returns, Map!At

LEMMA RemoveMissingOfMap ==
  ASSUME PlacedInv, Fits(t), NEW k \in Keys, RemoveMissing(k)
  PROVE  Map!Remove(k)
<1>1. /\ LookupIndex(t, k, Iterating).position < 0 /\ t' = t
      /\ ret' = [op |-> "remove", key |-> k, value |-> NULL]
  BY DEF RemoveMissing, Returns
<1>2. k \notin KeysIn(t)
  BY <1>1, MissingKey
<1>3. IsMapOf(Contents, EntriesIn(t)) /\ DOMAIN Contents = KeysIn(t)
  BY MapNow
<1>4. Contents' = Contents
  BY <1>1, MapSame
<1>5. Contents = [j \in DOMAIN Contents \ {k} |-> Contents[j]]
  BY <1>2, <1>3 DEF IsMapOf
<1> QED
  BY <1>1, <1>2, <1>3, <1>4, <1>5 DEF Map!Remove, Map!Returns, Map!At

LEMMA RemoveFoundOfMap ==
  ASSUME PlacedInv, PlacedInv', Fits(t), Fits(t'), NEW k \in Keys, RemoveFound(k)
  PROVE  UNCHANGED << t, ret >> \/ Map!Remove(k)
<1>1. ASSUME Dropped(k), num_entries' = num_entries - 1 PROVE Map!Remove(k)
  <2>1. PICK old :
          /\ ret' = [op |-> "remove", key |-> k, value |-> old]
          /\ EntriesIn(t) = EntriesIn(t') \cup {<< k, old >>}
    BY <1>1 DEF Dropped
  <2>2. /\ IsMapOf(Contents, EntriesIn(t)) /\ IsMapOf(Contents', EntriesIn(t'))
        /\ DOMAIN Contents = KeysIn(t) /\ DOMAIN Contents' = KeysIn(t')
    BY MapNow, MapThen
  <2>3. KeysIn(t) = KeysIn(t') \cup {k}
    <3>1. {x[1] : x \in EntriesIn(t') \cup {<< k, old >>}} = {x[1] : x \in EntriesIn(t')} \cup {k}
      BY KeysWithPair
    <3> QED
      BY <2>1, <3>1, KeysOfEntries
  <2>4. num_entries = Cardinality(KeysIn(t)) /\ num_entries' = Cardinality(KeysIn(t'))
    BY DEF PlacedInv, TableInv, Placed, Distinct
  <2>5. num_entries \in Nat
    <3>1. CASE t = NoTable
      BY <3>1, NoTableFacts DEF PlacedInv, TableInv
    <3>2. CASE Shaped(t)
      BY <3>2, OccupiedFinite DEF PlacedInv, TableInv
    <3> QED
      BY <3>1, <3>2 DEF PlacedInv, TableInv
  <2>6. k \notin KeysIn(t')
    <3> SUFFICES ASSUME k \in KeysIn(t') PROVE FALSE
      OBVIOUS
    <3>1. KeysIn(t') = KeysIn(t)
      BY <2>3
    <3> QED
      BY <1>1, <2>4, <2>5, <3>1
  <2>7. SameBut(EntriesIn(t'), EntriesIn(t), k)
    <3> SUFFICES ASSUME NEW j, NEW x, j # k PROVE << j, x >> \in EntriesIn(t') <=> << j, x >> \in EntriesIn(t)
      BY DEF SameBut
    <3>1. << j, x >> # << k, old >>
      OBVIOUS
    <3> QED
      BY <2>1, <3>1
  <2>8. Contents' = [j \in DOMAIN Contents \ {k} |-> Contents[j]]
    <3>1. k \notin DOMAIN Contents'
      BY <2>2, <2>6
    <3>2. PICK m, n, S, R : m = Contents /\ n = Contents' /\ S = EntriesIn(t) /\ R = EntriesIn(t')
      OBVIOUS
    <3>3. IsMapOf(m, S) /\ IsMapOf(n, R) /\ k \notin DOMAIN n /\ SameBut(R, S, k)
      BY <2>2, <2>7, <3>1, <3>2
    <3>4. n = [j \in DOMAIN m \ {k} |-> m[j]]
      BY <3>3, MapWithout
    <3> QED
      BY <3>2, <3>4
  <2>9. << k, old >> \in EntriesIn(t)
    BY <2>1
  <2>10. k \in DOMAIN Contents /\ Contents[k] = old
    BY <2>2, <2>9 DEF IsMapOf
  <2> QED
    BY <2>1, <2>8, <2>10 DEF Map!Remove, Map!Returns, Map!At
<1> QED
  BY <1>1, RemoveFoundEntries DEF PlacedInv

(* What NextEntry returns is in the map. *)
LEMMA YieldOfMap ==
  ASSUME PlacedInv, Fits(t), NEW c, NEW new, NEW k, NEW v, << k, v >> \in EntriesIn(t),
         Yield(c, new, k, v)
  PROVE  k \in Keys /\ Map!Visit(k)
<1>1. t' = t /\ ret' = [op |-> "next", key |-> k, value |-> v]
  BY DEF Yield, Returns
<1>2. k \in DOMAIN Contents /\ Contents[k] = v
  BY MapNow DEF IsMapOf
<1>3. Contents' = Contents
  BY <1>1, MapSame
<1>4. k \in Keys
  <2>1. PICK p \in Occupied(t) : << k, v >> = << t.table[p].key, t.table[p].value >>
    BY DEF EntriesIn
  <2>2. Shaped(t)
    BY <2>1, NoTableFacts DEF PlacedInv, TableInv
  <2>3. t.table[p] \in AnyCell
    BY <2>1, <2>2, ShapedFacts
  <2> QED
    BY <2>1, <2>3 DEF AnyCell
<1> QED
  BY <1>1, <1>2, <1>3, <1>4 DEF Map!Visit, Map!Returns

LEMMA NextInsertedOfMap ==
  ASSUME PlacedInv, Fits(t), Queued, NEW c, NextInserted(c)
  PROVE  Map!Next
<1> DEFINE queue == cookie[c].inserted
           e == queue[Len(queue)]
           new == [cookie[c] EXCEPT !.inserted = SubSeq(queue, 1, Len(queue) - 1)]
<1>1. c \in DOMAIN cookie /\ queue # << >> /\ Yield(c, new, e.key, e.value)
  BY DEF NextInserted
<1>2. queue \in Seq(QueueOf(t))
  BY <1>1 DEF Queued
<1>3. e \in QueueOf(t)
  BY <1>1, <1>2
<1> HIDE DEF e, new
<1>4. << e.key, e.value >> \in EntriesIn(t)
  BY <1>3 DEF QueueOf
<1> QED
  BY <1>1, <1>4, YieldOfMap DEF Map!Next

LEMMA EndOfMap ==
  ASSUME NEW c, EndOfIteration(c)
  PROVE  Map!Next \/ UNCHANGED << t, ret >>
<1>1. CASE t' = t /\ ret' = [op |-> "end", key |-> NULL, value |-> NULL]
  <2>1. Contents' = Contents
    BY <1>1, MapSame
  <2> QED
    BY <1>1, <2>1 DEF Map!Next, Map!EndIteration, Map!Returns
<1> QED
  BY <1>1 DEF EndOfIteration, Returns, Abort

LEMMA NextInTableOfMap ==
  ASSUME PlacedInv, Fits(t), CookieTypes, NEW c, NextInTable(c)
  PROVE  Map!Next \/ UNCHANGED << t, ret >>
<1> DEFINE start == IF cookie[c].next < 0 THEN NextOccupied(t, -1) ELSE cookie[c].next
           Stop(q) == ~Empty(t, q) /\ ~BagIn(t.table[q].key, cookie[c].visited)
           p == First(start, Capacity(t), LAMBDA q : Stop(q))
           S == {i \in start .. Capacity(t) : i = Capacity(t) \/ Stop(i)}
           skipped == {t.table[q].key : q \in Occupied(t) \cap (start .. p - 1)}
           new == [cookie[c] EXCEPT !.next = NextOccupied(t, p),
                                    !.visited = @ (-) SetToBag(skipped)]
<1>1. c \in DOMAIN cookie
  BY DEF NextInTable
<1>2. Capacity(t) \in Nat
  BY TableCapacity DEF PlacedInv, TableInv
<1>3. start \in Nat
  BY <1>1, <1>2, NextOccupiedNatural DEF CookieTypes
<1>4. \/ EndOfIteration(c)
      \/ Abort("NextEntry:909")
      \/ /\ t.table # << >> /\ p < Capacity(t)
         /\ Yield(c, new, t.table[p].key, t.table[p].value)
  BY DEF NextInTable
<1> HIDE DEF new, start
<1>5. p = IF start >= Capacity(t) THEN start ELSE Min(S)
  BY DEF First
<1> HIDE DEF p
<1>6. ASSUME t.table # << >>, p < Capacity(t) PROVE p \in Occupied(t)
  <2>1. ~ (start >= Capacity(t)) /\ p = Min(S)
    BY <1>2, <1>3, <1>5, <1>6
  <2>2. S \subseteq Int /\ S # {} /\ \A x \in S : start <= x
    BY <1>2, <1>3, <2>1
  <2>3. start \in Int
    BY <1>3
  <2> HIDE DEF S
  <2>4. Min(S) \in S
    BY <2>2, <2>3, LeastOf
  <2>5. p \in start .. Capacity(t) /\ (p = Capacity(t) \/ Stop(p))
    BY <2>1, <2>4 DEF S
  <2>6. p \in 0 .. Capacity(t) - 1 /\ ~ Empty(t, p)
    BY <1>2, <1>3, <1>6, <2>5
  <2>7. Shaped(t)
    BY <1>6, NoTableFacts DEF PlacedInv, TableInv
  <2> QED
    BY <2>6, <2>7, ShapedFacts
<1>7. CASE /\ t.table # << >> /\ p < Capacity(t)
           /\ Yield(c, new, t.table[p].key, t.table[p].value)
  <2>1. << t.table[p].key, t.table[p].value >> \in EntriesIn(t)
    BY <1>6, <1>7 DEF EntriesIn
  <2> QED
    BY <1>7, <2>1, YieldOfMap DEF Map!Next
<1> QED
  BY <1>4, <1>7, EndOfMap DEF Abort

LEMMA MapStep ==
  ASSUME PlacedInv, PlacedInv', Fits(t), Fits(t'), CookieTypes, Queued, [Next]_vars
  PROVE  Map!Next \/ UNCHANGED << t, ret >>
<1>1. ASSUME NEW k \in Keys, Lookup(k) PROVE Map!Next \/ UNCHANGED << t, ret >>
  BY <1>1, LookupOfMap DEF Map!Next
<1>2. ASSUME NEW k \in Keys, Remove(k) PROVE Map!Next \/ UNCHANGED << t, ret >>
  BY <1>2, RemoveMissingOfMap, RemoveFoundOfMap DEF Remove, Map!Next
<1>3. ASSUME NEW k \in Keys, NEW v \in Vals, Insert(k, v) PROVE Map!Next \/ UNCHANGED << t, ret >>
  BY <1>3, OverwriteOfMap, InsertNewOfMap DEF Insert, Map!Next
<1>4. CASE Clear
  <2>1. t' = NoTable /\ ret' = [op |-> "clear", key |-> NULL, value |-> NULL]
    BY <1>4 DEF Clear, NoTable, Returns
  <2>2. Occupied(t') = {} /\ Contents' = ContentsIn(t')
    BY <2>1, NoTableFacts DEF Contents, ContentsIn
  <2>3. Contents' = << >>
    BY <2>2, EmptyContents
  <2> QED
    BY <2>1, <2>3 DEF Map!Next, Map!Clear, Map!Returns
<1>5. ASSUME t' = t, ret' = [op |-> "cookie", key |-> NULL, value |-> NULL] PROVE Map!Next
  <2>1. Contents' = Contents
    BY <1>5, MapSame
  <2> QED
    BY <1>5, <2>1 DEF Map!Next, Map!CookieCall, Map!Returns
<1>6. ASSUME NEW c \in Cookies, InitForIteration(c) \/ MakeRobustCookie(c) \/ StopIteration(c)
      PROVE  Map!Next \/ UNCHANGED << t, ret >>
  <2>1. \/ t' = t /\ ret' = [op |-> "cookie", key |-> NULL, value |-> NULL]
        \/ UNCHANGED << t, ret >>
    BY <1>6 DEF InitForIteration, MakeRobustCookie, StopIteration, Returns, Abort
  <2> QED
    BY <1>5, <2>1
<1>7. ASSUME NEW c \in Cookies, NextEntry(c) PROVE Map!Next \/ UNCHANGED << t, ret >>
  BY <1>7, NextInsertedOfMap, NextInTableOfMap DEF NextEntry
<1>8. CASE UNCHANGED vars
  BY <1>8 DEF vars
<1> QED
  BY <1>1, <1>2, <1>3, <1>4, <1>6, <1>7, <1>8 DEF Next

LEMMA FitsNow ==
  ASSUME TableInv, FitsDistance
  PROVE  Fits(t)
<1>1. CASE t = NoTable
  BY <1>1, NoTableFacts, Pow2Steps DEF Fits, CapacityOf, TOO_FAR_TO_REACH
<1>2. CASE Shaped(t)
  BY <1>2, ShapedFacts DEF FitsDistance, Fits
<1> QED
  BY <1>1, <1>2 DEF TableInv

LEMMA FitsThen ==
  ASSUME TableInv', FitsDistance'
  PROVE  Fits(t')
<1>1. CASE t' = NoTable
  BY <1>1, NoTableFacts, Pow2Steps DEF Fits, CapacityOf, TOO_FAR_TO_REACH
<1>2. CASE Shaped(t')
  BY <1>2, ShapedFacts DEF FitsDistance, Fits
<1> QED
  BY <1>1, <1>2 DEF TableInv

LEMMA MapInit ==
  ASSUME Init
  PROVE  Map!Init
<1>1. InitialSize \in Nat /\ Log2(InitialSize) \in Nat
  BY LogIsNatural, DictAssumption
<1>2. Occupied(t) = {}
  <2>1. CASE InitialSize > 0
    <3>1. t = [log2_buckets |-> Log2(InitialSize), table |-> NewTable(Log2(InitialSize)),
               remap_end |-> -1, remaps |-> 0]
      BY <2>1 DEF Init
    <3> QED
      BY <1>1, <3>1, NewTableShaped
  <2>2. CASE ~ (InitialSize > 0)
    <3>1. t = NoTable
      BY <2>2 DEF Init, NoTable
    <3> QED
      BY <3>1, NoTableFacts
  <2> QED
    BY <2>1, <2>2
<1>3. Contents = << >>
  <2>1. Contents = ContentsIn(t)
    BY DEF Contents, ContentsIn
  <2> QED
    BY <1>2, <2>1, EmptyContents
<1> QED
  BY <1>3 DEF Init, Map!Init

IterationInv == CookieTypes /\ CountInv /\ Queued

(* The dictionary is a map: seen through its contents, every step of every *)
(* call is a step of DictSpec or changes nothing.  Insert, Remove and      *)
(* Lookup return what the map says while entries of two sizes share the    *)
(* table, and an iteration whose entries are removed under it yields only  *)
(* present entries with their present values, for every hash function,     *)
(* remap batch and load factor.                                            *)
THEOREM DictionaryIsMap ==
  ASSUME ChangesWhileIterating \subseteq {"remove"}
  PROVE  Spec /\ []OneOlderSize /\ []FitsDistance => RefinesMap
<1>1. Init => Map!Init /\ IterationInv
  <2> SUFFICES ASSUME Init PROVE IterationInv
    BY MapInit
  <2>1. DOMAIN cookie = {} /\ DOMAIN owed = {} /\ cookies = {} /\ num_iterators = 0
    BY DEF Init
  <2> QED
    BY <2>1, FS_EmptySet DEF IterationInv, CookieTypes, CountInv, CookieShapes,
                             CookiesAccounted, Queued
<1>2. PlacedInv /\ FitsDistance /\ IterationInv /\ [Next]_vars => IterationInv'
  <2> SUFFICES ASSUME PlacedInv, FitsDistance, IterationInv, [Next]_vars PROVE IterationInv'
    OBVIOUS
  <2>1. TableInv /\ CookieTypes /\ CountInv /\ Queued
    BY DEF PlacedInv, IterationInv
  <2>2. "clear" \notin ChangesWhileIterating
    OBVIOUS
  <2>3. Fits(t)
    BY <2>1, FitsNow
  <2>4. CookieTypes'
    BY <2>1, CookieStep
  <2>5. CountInv'
    BY <2>1, <2>2, CountStep
  <2>6. Queued'
    BY <2>1, <2>3, QueueStep
  <2> QED
    BY <2>4, <2>5, <2>6 DEF IterationInv
<1>3. /\ PlacedInv /\ FitsDistance /\ IterationInv /\ [Next]_vars
      /\ PlacedInv' /\ FitsDistance'
      => [Map!Next]_(Map!vars)
  <2> SUFFICES ASSUME PlacedInv, FitsDistance, IterationInv, [Next]_vars,
                      PlacedInv', FitsDistance'
               PROVE  Map!Next \/ UNCHANGED Map!vars
    OBVIOUS
  <2>1. Fits(t)
    BY FitsNow DEF PlacedInv
  <2>2. Fits(t')
    BY FitsThen DEF PlacedInv
  <2>3. Map!Next \/ UNCHANGED << t, ret >>
    BY <2>1, <2>2, MapStep DEF IterationInv
  <2>4. UNCHANGED << t, ret >> => UNCHANGED Map!vars
    BY MapSame DEF Map!vars
  <2> QED
    BY <2>3, <2>4
<1> QED
  BY <1>1, <1>2, <1>3, PlacesKept, PTL DEF Spec, RefinesMap, Map!Spec

-----------------------------------------------------------------------------
(* No assertion fails. *)

(* The ASSERT in LookupIndex: the entry just remapped is found again.      *)
LEMMA LookupAsserted ==
  ASSUME NEW u, Shaped(u), Packed(u), Mapped(u), Distinct(u), Fits(u), NEW k \in Keys,
         NEW iterating, iterating \/ u.remaps <= 1,
         NEW look, look = LookupIndex(u, k, iterating), look.t.log2_buckets = u.log2_buckets
  PROVE  look.asserted = TRUE
<1>1. u.table # << >> /\ u.log2_buckets \in Nat
  BY ShapedFacts
<1>2. CASE ScanCurrent(u, k) >= 0 \/ OlderSizesWith(u, k) = {} \/ iterating
  BY <1>1, <1>2 DEF LookupIndex
<1>3. CASE ~ (ScanCurrent(u, k) >= 0 \/ OlderSizesWith(u, k) = {} \/ iterating)
  <2> DEFINE m == RemapAt(u, OlderPosition(u, k))
             p2 == OlderPosition(m.t, k)
             again == RemapAt(m.t, p2)
  <2>1. look = AssertFound(k, m)
    BY <1>1, <1>3 DEF LookupIndex
  <2>2. u.remaps <= 1 /\ OlderSizesWith(u, k) # {}
    BY <1>3
  <2>3. Rearranged(u, m.t) /\ Points(m.t, m.position) /\ m.t.table[m.position].key = k
    BY <2>2, LookupMoves
  <2>4. Fits(m.t) =>
          Mapped(m.t) /\ BucketByPosition(m.t, m.position) = BucketByHash(k, u.log2_buckets)
    BY <2>2, LookupMoves
  <2> HIDE DEF m
  <2>5. Shaped(m.t) /\ u.log2_buckets <= m.t.log2_buckets /\ m.t.log2_buckets \in Nat
    BY <2>3, ShapedFacts DEF Rearranged
  <2>6. m.t.log2_buckets = u.log2_buckets
    <3>1. CASE look.t = m.t
      BY <3>1
    <3>2. CASE ~ (ScanCurrent(m.t, k) >= 0) /\ OlderSizesWith(m.t, k) # {} /\ look.t = again.t
      <4>1. p2 \in Occupied(m.t)
        BY <2>5, <3>2, OlderPositionFinds
      <4>2. Rearranged(m.t, again.t)
        BY <2>5, <4>1, RearrangedRemapAt
      <4>3. m.t.log2_buckets <= again.t.log2_buckets
        BY <4>2 DEF Rearranged
      <4> QED
        BY <1>1, <2>5, <3>2, <4>3
    <3> HIDE DEF again
    <3> QED
      BY <2>1, <3>1, <3>2 DEF AssertFound, again, p2
  <2>7. Fits(m.t)
    BY <2>6 DEF Fits
  <2>8. Packed(m.t) /\ Distinct(m.t) /\ m.position \in Occupied(m.t) /\ m.position \in Nat
    BY <2>3, <2>5, <2>7, RearrangedDistinct, ShapedFacts DEF Rearranged, Points
  <2>9. m.position \notin Misplaced(m.t)
    BY <2>3, <2>4, <2>6, <2>7 DEF Misplaced
  <2>10. ScanCurrent(m.t, k) = m.position
    BY <2>3, <2>4, <2>5, <2>7, <2>8, <2>9, HashedSearchFinds
  <2>11. ScanCurrent(m.t, k) >= 0
    BY <2>8, <2>10
  <2>12. look = [t |-> m.t, position |-> m.position, asserted |-> ScanCurrent(m.t, k) = m.position]
    BY <2>1, <2>11 DEF AssertFound
  <2>13. look.asserted = (ScanCurrent(m.t, k) = m.position)
    BY <2>12
  <2> QED
    BY <2>10, <2>13
<1> QED
  BY <1>2, <1>3

(* Where a cookie may point: before the table, past it, or at an entry. *)
NextSettled(u, n) == n = -1 \/ n >= Capacity(u) \/ n \in Occupied(u)

LEMMA NextOccupiedSettled ==
  ASSUME NEW u, u = NoTable \/ Shaped(u), NEW p \in Nat \cup {-1}
  PROVE  NextSettled(u, NextOccupied(u, p))
<1> DEFINE S == {i \in p + 1 .. Capacity(u) : i = Capacity(u) \/ ~ Empty(u, i)}
<1>1. p + 1 \in Nat /\ Capacity(u) \in Nat
  BY TableCapacity
<1>2. NextOccupied(u, p) = IF p + 1 >= Capacity(u) THEN p + 1 ELSE Min(S)
  BY DEF NextOccupied, First
<1>3. CASE p + 1 >= Capacity(u)
  BY <1>2, <1>3 DEF NextSettled
<1>4. CASE ~ (p + 1 >= Capacity(u))
  <2>1. S \subseteq Int /\ S # {} /\ p + 1 \in Int /\ \A x \in S : p + 1 <= x
    BY <1>1, <1>4
  <2> HIDE DEF S
  <2>2. Min(S) \in S
    BY <2>1, LeastOf
  <2>3. Min(S) \in p + 1 .. Capacity(u) /\ (Min(S) = Capacity(u) \/ ~ Empty(u, Min(S)))
    BY <2>2 DEF S
  <2>4. Shaped(u)
    BY <1>1, <1>4, NoTableFacts DEF Capacity
  <2>5. CASE Min(S) = Capacity(u)
    BY <1>1, <1>2, <1>4, <2>5 DEF NextSettled
  <2>6. CASE Min(S) # Capacity(u)
    <3>1. Min(S) \in 0 .. Capacity(u) - 1 /\ ~ Empty(u, Min(S))
      BY <1>1, <2>3, <2>6
    <3>2. Min(S) \in Occupied(u)
      BY <2>4, <3>1, ShapedFacts
    <3> QED
      BY <1>2, <1>4, <3>2 DEF NextSettled
  <2> QED
    BY <2>5, <2>6
<1> QED
  BY <1>3, <1>4

LEMMA AdjustSettled ==
  ASSUME NEW u, Shaped(u), NEW c, DOMAIN c = CookieFields, c.next \in Nat \cup {-1},
         NEW k, NEW p, NEW l, NEW empty
  PROVE  NextSettled(u, AdjustOnRemove(c, u, k, p, l, empty).next)
<1> DEFINE again == \/ c.next = -1 /\ empty
                    \/ c.next >= 0 /\ c.next < Capacity(u) /\ Empty(u, c.next)
<1>1. AdjustOnRemove(c, u, k, p, l, empty).next = IF again THEN NextOccupied(u, c.next) ELSE c.next
  BY DEF AdjustOnRemove, CookieFields
<1>2. NextSettled(u, NextOccupied(u, c.next))
  BY NextOccupiedSettled
<1>3. Capacity(u) \in Nat
  BY ShapedFacts
<1>4. ~ again => NextSettled(u, c.next)
  BY <1>3, ShapedFacts DEF NextSettled
<1> HIDE DEF again
<1> QED
  BY <1>1, <1>2, <1>4

CookiesSettled ==
  \A c \in DOMAIN cookie :
    NextSettled(t, cookie[c].next) /\ (cookie[c].robust => c \in cookies)

LEMMA YieldSettled ==
  ASSUME NEW c \in DOMAIN cookie, NEW new, NEW k, NEW v, CookiesSettled,
         NextSettled(t, new.next), new.robust = cookie[c].robust, Yield(c, new, k, v)
  PROVE  CookiesSettled'
<1>1. cookie' = [cookie EXCEPT ![c] = new] /\ t' = t /\ cookies' = cookies
  BY DEF Yield
<1>2. /\ DOMAIN cookie' = DOMAIN cookie
      /\ \A d \in DOMAIN cookie : cookie'[d] = IF d = c THEN new ELSE cookie[d]
  BY <1>1
<1>3. \A d \in DOMAIN cookie : /\ NextSettled(t, cookie'[d].next)
                               /\ cookie'[d].robust => d \in cookies
  BY <1>2 DEF CookiesSettled
<1> QED
  BY <1>1, <1>2, <1>3 DEF CookiesSettled

LEMMA DeleteSettled ==
  ASSUME NEW c, CookiesSettled, DeleteCookie(c), t' = t
  PROVE  CookiesSettled'
<1>1. cookie' = [d \in DOMAIN cookie \ {c} |-> cookie[d]] /\ cookies' = cookies \ {c}
  BY DEF DeleteCookie
<1>2. DOMAIN cookie' = DOMAIN cookie \ {c} /\ \A d \in DOMAIN cookie' : cookie'[d] = cookie[d]
  BY <1>1
<1> QED
  BY <1>1, <1>2 DEF CookiesSettled

LEMMA RemoveFoundSettled ==
  ASSUME NEW k \in Keys, TableInv, Fits(t), CountInv, CookieTypes, CookiesSettled, RemoveFound(k)
  PROVE  CookiesSettled'
<1> DEFINE look == LookupIndex(t, k, Iterating)
           p == look.position
           r == RemoveAndRelocate(look.t, p)
           New(c, s) == AdjustOnRemove(cookie[c], r.t, k, p, r.last_affected, c \in s)
<1>0. /\ DOMAIN cookie' = DOMAIN cookie /\ cookies' = cookies
      /\ \A c \in DOMAIN cookie : cookie'[c].robust = cookie[c].robust
  BY ChangesKeepCookies DEF CountInv
<1>1. CASE UNCHANGED << t, cookie, cookies >>
  BY <1>1 DEF CookiesSettled
<1>2. CASE /\ p >= 0 /\ t' = r.t
           /\ \E s : cookie' = [c \in DOMAIN cookie |->
                                  IF c \in cookies THEN New(c, s) ELSE cookie[c]]
  <2>1. PICK s : cookie' = [c \in DOMAIN cookie |->
                              IF c \in cookies THEN New(c, s) ELSE cookie[c]]
    BY <1>2
  <2>2. CASE ~ Iterating
    BY <1>0, <2>2, NoCookies DEF CookiesSettled
  <2>3. CASE Iterating
    <3>1. Shaped(t)
      <4>1. ASSUME t = NoTable PROVE FALSE
        <5>1. p = -1
          BY <4>1, NoTableFacts DEF LookupIndex
        <5> HIDE DEF look
        <5> QED
          BY <1>2, <5>1
      <4> QED
        BY <4>1 DEF TableInv
    <3>2. look.t = t /\ look.asserted
      BY <2>3, LookupIterating
    <3>3. Points(t, p)
      BY <1>2, <3>1, <3>2, LookupRearranges
    <3>4. p \in 0 .. Capacity(t) - 1
      BY <3>3 DEF Points
    <3> HIDE DEF look, p
    <3>5. Shaped(r.t)
      BY <3>1, <3>2, <3>4, RemoveShifts
    <3>6. ASSUME NEW c \in DOMAIN cookie PROVE NextSettled(r.t, New(c, s).next)
      <4>1. DOMAIN cookie[c] = CookieFields /\ cookie[c].next \in Nat \cup {-1}
        BY DEF CookieTypes
      <4> QED
        BY <3>5, <4>1, AdjustSettled
    <3>7. cookies = DOMAIN cookie
      BY <2>3, AllRobust DEF RemoveFound
    <3> HIDE DEF New, r
    <3>8. \A c \in DOMAIN cookie : cookie'[c] = New(c, s)
      BY <2>1, <3>7
    <3> QED
      BY <1>0, <1>2, <3>6, <3>7, <3>8 DEF CookiesSettled
  <2> QED
    BY <2>2, <2>3
<1> QED
  BY <1>1, <1>2 DEF RemoveFound, Abort, iteration

LEMMA SettledStep ==
  ASSUME ChangesWhileIterating \subseteq {"remove"}, TableInv, Fits(t), CountInv, CookieTypes,
         CookiesSettled, [Next]_vars
  PROVE  CookiesSettled'
<1>1. CASE UNCHANGED << t, cookie, cookies >>
  BY <1>1 DEF CookiesSettled
<1>2. ASSUME ~ Iterating, DOMAIN cookie' = DOMAIN cookie PROVE CookiesSettled'
  BY <1>2, NoCookies DEF CookiesSettled
<1>3. ASSUME NEW k \in Keys, Lookup(k) PROVE CookiesSettled'
  <2>1. cookie' = cookie /\ cookies' = cookies
    BY <1>3 DEF Lookup, Abort, iteration
  <2> QED
    BY <1>1, <1>2, <1>3, <2>1, LookupWhileIterating
<1>4. ASSUME NEW k \in Keys, Remove(k) PROVE CookiesSettled'
  <2>1. CASE RemoveMissing(k)
    BY <1>1, <2>1 DEF RemoveMissing, iteration
  <2>2. CASE RemoveFound(k)
    BY <2>2, RemoveFoundSettled
  <2> QED
    BY <1>4, <2>1, <2>2 DEF Remove
<1>5. ASSUME NEW k \in Keys, NEW v \in Vals, Insert(k, v) PROVE CookiesSettled'
  <2>1. ~ Iterating
    <3>1. May("insert")
      BY <1>5 DEF Insert, Overwrite, InsertNew
    <3> QED
      BY <3>1 DEF May
  <2>2. DOMAIN cookie' = DOMAIN cookie
    BY <1>5, ChangesKeepCookies DEF Insert, CountInv
  <2> QED
    BY <1>2, <2>1, <2>2
<1>6. CASE Clear
  <2>1. ~ Iterating /\ cookie' = cookie
    BY <1>6 DEF Clear, May
  <2> QED
    BY <1>2, <2>1
<1>7. ASSUME NEW c \in Cookies, InitForIteration(c) PROVE CookiesSettled'
  <2> DEFINE new == [robust |-> FALSE, next |-> -1, inserted |-> << >>, visited |-> EmptyBag]
  <2>1. cookie' = With(cookie, c, new) /\ t' = t /\ cookies' = cookies
    BY <1>7 DEF InitForIteration
  <2>2. new.next = -1 /\ new.robust = FALSE
    OBVIOUS
  <2> HIDE DEF new
  <2>3. /\ DOMAIN cookie' = DOMAIN cookie \cup {c}
        /\ \A d \in DOMAIN cookie' : cookie'[d] = IF d = c THEN new ELSE cookie[d]
    BY <2>1 DEF With
  <2>4. NextSettled(t, new.next)
    BY <2>2 DEF NextSettled
  <2>5. \A d \in DOMAIN cookie' : /\ NextSettled(t, cookie'[d].next)
                                  /\ cookie'[d].robust => d \in cookies
    BY <2>2, <2>3, <2>4 DEF CookiesSettled
  <2> QED
    BY <2>1, <2>5 DEF CookiesSettled
<1>8. ASSUME NEW c \in Cookies, MakeRobustCookie(c) PROVE CookiesSettled'
  <2>1. /\ cookie' = [cookie EXCEPT ![c].robust = TRUE] /\ c \in DOMAIN cookie /\ t' = t
        /\ cookies' = cookies \cup {c}
    BY <1>8 DEF MakeRobustCookie
  <2>2. /\ DOMAIN cookie' = DOMAIN cookie
        /\ \A d \in DOMAIN cookie : /\ cookie'[d].next = cookie[d].next
                                    /\ d # c => cookie'[d].robust = cookie[d].robust
    BY <2>1 DEF CookieTypes, CookieFields
  <2> QED
    BY <2>1, <2>2 DEF CookiesSettled
<1>9. ASSUME NEW c \in Cookies, NextInserted(c) PROVE CookiesSettled'
  <2> DEFINE queue == cookie[c].inserted
             rest == SubSeq(queue, 1, Len(queue) - 1)
             new == [cookie[c] EXCEPT !.inserted = rest]
  <2>1. c \in DOMAIN cookie /\ Yield(c, new, queue[Len(queue)].key, queue[Len(queue)].value)
    BY <1>9 DEF NextInserted
  <2> HIDE DEF rest
  <2>2. new.next = cookie[c].next /\ new.robust = cookie[c].robust
    BY <2>1 DEF CookieTypes, CookieFields
  <2>3. NextSettled(t, new.next)
    BY <2>1, <2>2 DEF CookiesSettled
  <2> HIDE DEF new
  <2> QED
    BY <2>1, <2>2, <2>3, YieldSettled
<1>10. ASSUME NEW c \in Cookies, NextInTable(c) PROVE CookiesSettled'
  <2> DEFINE start == IF cookie[c].next < 0 THEN NextOccupied(t, -1) ELSE cookie[c].next
             p == First(start, Capacity(t),
                        LAMBDA q : ~Empty(t, q) /\ ~BagIn(t.table[q].key, cookie[c].visited))
             skipped == {t.table[q].key : q \in Occupied(t) \cap (start .. p - 1)}
             new == [cookie[c] EXCEPT !.next = NextOccupied(t, p),
                                      !.visited = @ (-) SetToBag(skipped)]
  <2>1. c \in DOMAIN cookie
    BY <1>10 DEF NextInTable
  <2>2. \/ EndOfIteration(c)
        \/ Abort("NextEntry:909")
        \/ Yield(c, new, t.table[p].key, t.table[p].value)
    BY <1>10 DEF NextInTable
  <2>3. (t = NoTable \/ Shaped(t)) /\ Capacity(t) \in Nat
    BY TableCapacity DEF TableInv
  <2>4. start \in Nat
    BY <2>1, <2>3, NextOccupiedNatural DEF CookieTypes
  <2> HIDE DEF start
  <2>5. p \in Nat
    BY <2>3, <2>4, ScanNatural DEF First
  <2>6. NextSettled(t, NextOccupied(t, p))
    BY <2>3, <2>5, NextOccupiedSettled
  <2> HIDE DEF p, skipped
  <2>7. new.next = NextOccupied(t, p) /\ new.robust = cookie[c].robust
    BY <2>1 DEF CookieTypes, CookieFields
  <2>8. NextSettled(t, new.next)
    BY <2>6, <2>7
  <2> HIDE DEF new
  <2>9. EndOfIteration(c) => (DeleteCookie(c) /\ t' = t) \/ UNCHANGED << t, cookie, cookies >>
    BY DEF EndOfIteration, Abort, iteration
  <2>10. Abort("NextEntry:909") => UNCHANGED << t, cookie, cookies >>
    BY DEF Abort, iteration
  <2> QED
    BY <1>1, <2>1, <2>2, <2>7, <2>8, <2>9, <2>10, DeleteSettled, YieldSettled
<1>11. ASSUME NEW c \in Cookies, StopIteration(c) PROVE CookiesSettled'
  <2>1. (DeleteCookie(c) /\ t' = t) \/ UNCHANGED << t, cookie, cookies >>
    BY <1>11 DEF StopIteration, Abort, iteration
  <2> QED
    BY <1>1, <2>1, DeleteSettled
<1>12. CASE UNCHANGED vars
  BY <1>1, <1>12 DEF vars
<1> QED
  BY <1>3, <1>4, <1>5, <1>6, <1>7, <1>8, <1>9, <1>10, <1>11, <1>12 DEF Next, NextEntry

(* No lookup starts another resize: the entry it remaps finds a free slot. *)
LookupsDoNotGrow ==
  \A k \in Keys : LookupIndex(t, k, Iterating).t.log2_buckets = t.log2_buckets

LEMMA LookupHolds ==
  ASSUME PlacedInv, Fits(t), OneOlderSize, LookupsDoNotGrow, NEW k \in Keys
  PROVE  /\ LookupIndex(t, k, Iterating).asserted = TRUE
         /\ LookupIndex(Allocated, k, Iterating).asserted = TRUE
<1>1. CASE t = NoTable
  <2> DEFINE u == [log2_buckets |-> 0, table |-> NewTable(0), remap_end |-> -1, remaps |-> 0]
  <2>1. Allocated = u
    BY <1>1 DEF Allocated, NoTable
  <2>2. OlderSizesWith(u, k) = {}
    BY DEF OlderSizesWith
  <2> HIDE DEF u
  <2>3. LookupIndex(u, k, Iterating).asserted = TRUE
    BY <2>2 DEF LookupIndex
  <2>4. LookupIndex(t, k, Iterating).asserted = TRUE
    BY <1>1, NoTableFacts DEF LookupIndex
  <2> QED
    BY <2>1, <2>3, <2>4
<1>2. CASE Shaped(t)
  <2>1. Allocated = t
    BY <1>2, ShapedFacts DEF Allocated
  <2>2. Packed(t) /\ Mapped(t) /\ Distinct(t)
    BY DEF PlacedInv, TableInv, Placed
  <2>3. LookupIndex(t, k, Iterating).t.log2_buckets = t.log2_buckets
    BY DEF LookupsDoNotGrow
  <2>4. LookupIndex(t, k, Iterating).asserted = TRUE
    BY <1>2, <2>2, <2>3, LookupAsserted DEF OneOlderSize
  <2> QED
    BY <2>1, <2>4
<1> QED
  BY <1>1, <1>2 DEF PlacedInv, TableInv

(* NextEntry does not stop at an empty slot. *)
LEMMA StartOccupied ==
  ASSUME TableInv, CookieTypes, CookiesSettled, NEW c \in DOMAIN cookie,
         NEW start, start = IF cookie[c].next < 0 THEN NextOccupied(t, -1) ELSE cookie[c].next
  PROVE  ~ (start < Capacity(t) /\ Empty(t, start))
<1>1. (t = NoTable \/ Shaped(t)) /\ Capacity(t) \in Nat /\ cookie[c].next \in Nat \cup {-1}
  BY TableCapacity DEF TableInv, CookieTypes
<1>2. start \in Nat
  BY <1>1, NextOccupiedNatural
<1>3. NextSettled(t, start)
  <2>1. NextSettled(t, NextOccupied(t, -1))
    BY <1>1, NextOccupiedSettled
  <2>2. NextSettled(t, cookie[c].next)
    BY DEF CookiesSettled
  <2> QED
    BY <2>1, <2>2
<1> QED
  BY <1>1, <1>2, <1>3 DEF NextSettled, Occupied

LEMMA NoAbortStep ==
  ASSUME PlacedInv, Fits(t), OneOlderSize, LookupsDoNotGrow, CookieTypes, CountInv,
         CookiesSettled, ordered = FALSE, NoAbort, [Next]_vars
  PROVE  NoAbort'
<1>1. CASE UNCHANGED failed
  BY <1>1 DEF NoAbort
<1>2. ASSUME NEW c \in DOMAIN cookie PROVE Deletable(c)
  BY DEF CookiesSettled, Deletable
<1>3. ASSUME NEW k \in Keys, Lookup(k) PROVE UNCHANGED failed
  <2>1. LookupIndex(t, k, Iterating).asserted = TRUE
    BY LookupHolds
  <2> QED
    BY <1>3, <2>1 DEF Lookup
<1>4. ASSUME NEW k \in Keys, Remove(k) PROVE UNCHANGED failed
  <2>1. LookupIndex(t, k, Iterating).asserted = TRUE
    BY LookupHolds
  <2> QED
    BY <1>4, <2>1 DEF Remove, RemoveMissing, RemoveFound
<1>5. ASSUME NEW k \in Keys, NEW v \in Vals, Insert(k, v) PROVE UNCHANGED failed
  <2>1. LookupIndex(Allocated, k, Iterating).asserted = TRUE
    BY LookupHolds
  <2> QED
    BY <1>5, <2>1 DEF Insert, Overwrite, InsertNew
<1>6. ASSUME NEW c \in Cookies, StopIteration(c) PROVE UNCHANGED failed
  <2>1. c \in DOMAIN cookie
    BY <1>6 DEF StopIteration
  <2>2. num_iterators # 0
    <3>1. Iterating
      BY <2>1, NoCookies
    <3> QED
      BY <3>1 DEF Iterating
  <2> QED
    BY <1>2, <1>6, <2>1, <2>2 DEF StopIteration
<1>7. ASSUME NEW c \in Cookies, NextEntry(c) PROVE UNCHANGED failed
  <2>1. CASE NextInserted(c)
    BY <2>1 DEF NextInserted, Yield
  <2>2. CASE NextInTable(c)
    <3> DEFINE start == IF cookie[c].next < 0 THEN NextOccupied(t, -1) ELSE cookie[c].next
    <3>1. c \in DOMAIN cookie
      BY <2>2 DEF NextInTable
    <3>2. ~ (start < Capacity(t) /\ Empty(t, start))
      BY <3>1, StartOccupied DEF PlacedInv
    <3>3. EndOfIteration(c) => UNCHANGED failed
      BY <1>2, <3>1 DEF EndOfIteration
    <3>4. ASSUME NEW new, NEW k, NEW v, Yield(c, new, k, v) PROVE UNCHANGED failed
      BY <3>4 DEF Yield
    <3>5. EndOfIteration(c) \/ \E new, k, v : Yield(c, new, k, v)
      BY <2>2, <3>2 DEF NextInTable
    <3> QED
      BY <3>3, <3>4, <3>5
  <2> QED
    BY <1>7, <2>1, <2>2 DEF NextEntry
<1>8. ASSUME Clear \/ UNCHANGED vars \/ \E c \in Cookies : InitForIteration(c) \/ MakeRobustCookie(c)
      PROVE  UNCHANGED failed
  BY <1>8 DEF Clear, vars, InitForIteration, MakeRobustCookie
<1> QED
  BY <1>1, <1>3, <1>4, <1>5, <1>6, <1>7, <1>8 DEF Next

LEMMA UnorderedStep ==
  ASSUME ordered = FALSE, [Next]_vars
  PROVE  ordered' = FALSE
<1>1. CASE UNCHANGED ordered
  BY <1>1
<1>2. ASSUME NEW k \in Keys, Lookup(k) \/ Remove(k) PROVE UNCHANGED ordered
  BY <1>2 DEF Lookup, Remove, RemoveMissing, RemoveFound, Abort, ordering
<1>3. ASSUME NEW k \in Keys, NEW v \in Vals, Insert(k, v) PROVE UNCHANGED ordered
  BY <1>3 DEF Insert, Overwrite, InsertNew, Abort, ordering
<1>4. CASE Clear
  BY <1>4 DEF Clear
<1>5. ASSUME NEW c \in Cookies,
             InitForIteration(c) \/ MakeRobustCookie(c) \/ NextEntry(c) \/ StopIteration(c)
      PROVE  UNCHANGED ordered
  BY <1>5 DEF InitForIteration, MakeRobustCookie, NextEntry, NextInserted, NextInTable,
              StopIteration, EndOfIteration, Yield, Abort, ordering
<1>6. CASE UNCHANGED vars
  BY <1>6 DEF vars
<1> QED
  BY <1>1, <1>2, <1>3, <1>4, <1>5, <1>6 DEF Next

SafetyInv == CookieTypes /\ CountInv /\ CookiesSettled /\ ordered = FALSE /\ NoAbort

(* No ASSERT of the code fails in an unordered dictionary that is only     *)
(* searched, iterated over and removed from while an iteration is on: the  *)
(* entry a lookup has just remapped is found again where it was put, a     *)
(* started cookie points at an entry or past the table, every robust       *)
(* cookie that is deleted is registered, and no iteration is stopped that  *)
(* is not counted.  The runs dict_two_resizes and dict_robust_growth show  *)
(* what goes wrong without the hypotheses.                                 *)
THEOREM NoAssertFails ==
  ASSUME ChangesWhileIterating \subseteq {"remove"}, Ordered = FALSE
  PROVE  Spec /\ []OneOlderSize /\ []FitsDistance /\ []LookupsDoNotGrow => []NoAbort
<1>1. Init => SafetyInv
  <2> SUFFICES ASSUME Init PROVE SafetyInv
    OBVIOUS
  <2>1. DOMAIN cookie = {} /\ DOMAIN owed = {} /\ cookies = {} /\ num_iterators = 0
    BY DEF Init
  <2>2. ordered = FALSE /\ NoAbort
    BY DEF Init, NoAbort
  <2> QED
    BY <2>1, <2>2, FS_EmptySet DEF SafetyInv, CookieTypes, CountInv, CookieShapes,
                                   CookiesAccounted, CookiesSettled
<1>2. PlacedInv /\ FitsDistance /\ OneOlderSize /\ LookupsDoNotGrow /\ SafetyInv /\ [Next]_vars
        => SafetyInv'
  <2> SUFFICES ASSUME PlacedInv, FitsDistance, OneOlderSize, LookupsDoNotGrow, SafetyInv, [Next]_vars
               PROVE  SafetyInv'
    OBVIOUS
  <2>1. TableInv /\ CookieTypes /\ CountInv /\ CookiesSettled /\ ordered = FALSE /\ NoAbort
    BY DEF PlacedInv, SafetyInv
  <2>2. "clear" \notin ChangesWhileIterating
    OBVIOUS
  <2>3. Fits(t)
    BY <2>1, FitsNow
  <2>4. CookieTypes'
    BY <2>1, CookieStep
  <2>5. CountInv'
    BY <2>1, <2>2, CountStep
  <2>6. CookiesSettled'
    BY <2>1, <2>3, SettledStep
  <2>7. ordered' = FALSE
    BY <2>1, UnorderedStep
  <2>8. NoAbort'
    BY <2>1, <2>3, NoAbortStep
  <2> QED
    BY <2>4, <2>5, <2>6, <2>7, <2>8 DEF SafetyInv
<1>3. SafetyInv => NoAbort
  BY DEF SafetyInv
<1> QED
  BY <1>1, <1>2, <1>3, PlacesKept, PTL DEF Spec

-----------------------------------------------------------------------------
(* An iteration over a dictionary that nobody changes. *)

(* The keys a cookie at n has before it. *)
KeysFrom(u, n) == {u.table[q].key : q \in {x \in Occupied(u) : x >= n}}

LEMMA NoneBetween ==
  ASSUME NEW u, u = NoTable \/ Shaped(u), NEW p \in Nat \cup {-1}
  PROVE  \A q \in Occupied(u) : q >= NextOccupied(u, p) <=> q > p
<1> DEFINE S == {i \in p + 1 .. Capacity(u) : i = Capacity(u) \/ ~ Empty(u, i)}
           n == NextOccupied(u, p)
<1> SUFFICES ASSUME NEW q \in Occupied(u) PROVE q >= n <=> q > p
  OBVIOUS
<1>1. Shaped(u)
  BY NoTableFacts
<1>2. /\ p + 1 \in Nat /\ Capacity(u) \in Nat /\ q \in 0 .. Capacity(u) - 1
      /\ ~ Empty(u, q)
  BY <1>1, ShapedFacts
<1>3. n = IF p + 1 >= Capacity(u) THEN p + 1 ELSE Min(S)
  BY DEF NextOccupied, First
<1> HIDE DEF n
<1>4. CASE p + 1 >= Capacity(u)
  BY <1>2, <1>3, <1>4
<1>5. CASE ~ (p + 1 >= Capacity(u))
  <2>1. S \subseteq Int /\ S # {} /\ p + 1 \in Int /\ \A x \in S : p + 1 <= x
    BY <1>2, <1>5
  <2>2. q > p => q \in S
    BY <1>2
  <2> HIDE DEF S
  <2>3. Min(S) \in S /\ Min(S) \in Int /\ \A x \in S : Min(S) <= x
    BY <2>1, LeastOf
  <2>4. p + 1 <= Min(S) /\ n = Min(S)
    BY <1>3, <1>5, <2>1, <2>3
  <2>5. CASE q > p
    BY <1>2, <2>2, <2>3, <2>4, <2>5
  <2>6. CASE ~ (q > p)
    BY <1>2, <2>3, <2>4, <2>6
  <2> QED
    BY <2>5, <2>6
<1> QED
  BY <1>4, <1>5 DEF n

LEMMA KeysFromStart ==
  ASSUME NEW u, u = NoTable \/ Shaped(u)
  PROVE  KeysFrom(u, NextOccupied(u, -1)) = KeysIn(u) /\ KeysFrom(u, -1) = KeysIn(u)
<1>1. \A q \in Occupied(u) : q >= NextOccupied(u, -1) <=> q > -1
  BY NoneBetween
<1>2. \A q \in Occupied(u) : q \in Nat
  BY NoTableFacts, ShapedFacts
<1>3. \A q \in Occupied(u) : q >= NextOccupied(u, -1) /\ q >= -1
  BY <1>1, <1>2
<1> QED
  BY <1>3 DEF KeysFrom, KeysIn

LEMMA KeysFromNext ==
  ASSUME NEW u, Shaped(u), Distinct(u), NEW p \in Occupied(u)
  PROVE  /\ KeysFrom(u, NextOccupied(u, p)) = KeysFrom(u, p) \ {u.table[p].key}
         /\ u.table[p].key \in KeysFrom(u, p)
<1>1. p \in Nat /\ \A q \in Occupied(u) : q \in Nat
  BY ShapedFacts
<1>2. \A q \in Occupied(u) : q >= NextOccupied(u, p) <=> q > p
  BY <1>1, NoneBetween
<1>3. \A q \in Occupied(u) : u.table[q].key = u.table[p].key => q = p
  BY KeysOntoPositions
<1>4. \A q \in Occupied(u) : q >= NextOccupied(u, p) <=> q >= p /\ q # p
  BY <1>1, <1>2
<1>5. ~ (p >= NextOccupied(u, p)) /\ p >= p
  BY <1>1, <1>2
<1> DEFINE F(n) == {x \in Occupied(u) : x >= n}
<1>6. F(NextOccupied(u, p)) = F(p) \ {p} /\ p \in F(p)
  BY <1>4, <1>5
<1>7. \A q \in F(p) : u.table[q].key = u.table[p].key => q = p
  BY <1>3
<1> HIDE DEF F
<1> QED
  BY <1>6, <1>7 DEF KeysFrom, F

LEMMA KeysFromEnd ==
  ASSUME NEW u, u = NoTable \/ Shaped(u), NEW n \in Nat, n >= Capacity(u)
  PROVE  KeysFrom(u, n) = {}
<1>1. \A q \in Occupied(u) : ~ (q >= n)
  BY NoTableFacts, ShapedFacts, TableCapacity
<1> QED
  BY <1>1 DEF KeysFrom

LEMMA VisitedLess ==
  ASSUME NEW B, DOMAIN B = {}, NEW X
  PROVE  DOMAIN (B (-) X) = {}
  BY DEF (-)

Plain(d, keys) ==
  /\ d.inserted = << >>
  /\ DOMAIN d.visited = {}
  /\ keys = KeysFrom(t, d.next)

(* What is owed to a cookie is what the table has before it. *)
PlainInv == \A c \in DOMAIN cookie : Plain(cookie[c], owed[c])

(* NextEntry in the table: it ends, fails, or returns the entry at start. *)
LEMMA PlainNext ==
  ASSUME TableInv, CookieTypes, NEW c \in DOMAIN cookie, Plain(cookie[c], owed[c]), NextInTable(c)
  PROVE  \/ EndOfIteration(c) /\ owed[c] = {}
         \/ Abort("NextEntry:909")
         \/ \E p \in Occupied(t) : \E left :
              /\ owed[c] = KeysFrom(t, p) /\ DOMAIN left = {}
              /\ Yield(c, [cookie[c] EXCEPT !.next = NextOccupied(t, p), !.visited = left],
                       t.table[p].key, t.table[p].value)
<1> DEFINE start == IF cookie[c].next < 0 THEN NextOccupied(t, -1) ELSE cookie[c].next
           Stop(q) == ~Empty(t, q) /\ ~BagIn(t.table[q].key, cookie[c].visited)
           p == First(start, Capacity(t), LAMBDA q : Stop(q))
           S == {i \in start .. Capacity(t) : i = Capacity(t) \/ Stop(i)}
           skipped == {t.table[q].key : q \in Occupied(t) \cap (start .. p - 1)}
           left == cookie[c].visited (-) SetToBag(skipped)
           new == [cookie[c] EXCEPT !.next = NextOccupied(t, p),
                                    !.visited = @ (-) SetToBag(skipped)]
<1>1. /\ t = NoTable \/ Shaped(t)
      /\ Capacity(t) \in Nat /\ cookie[c].next \in Nat \cup {-1}
      /\ DOMAIN cookie[c] = CookieFields
  BY TableCapacity DEF TableInv, CookieTypes
<1>2. start \in Nat
  BY <1>1, NextOccupiedNatural
<1>3. owed[c] = KeysFrom(t, start)
  <2>1. CASE cookie[c].next < 0
    <3>1. cookie[c].next = -1
      BY <1>1, <2>1
    <3> QED
      BY <1>1, <2>1, <3>1, KeysFromStart DEF Plain
  <2> QED
    BY <2>1 DEF Plain
<1>4. DOMAIN left = {}
  BY VisitedLess DEF Plain
<1>5. \/ t.table = << >> /\ EndOfIteration(c)
      \/ Abort("NextEntry:909")
      \/ /\ start < Capacity(t) => ~Empty(t, start)
         /\ p >= Capacity(t) /\ EndOfIteration(c)
      \/ /\ t.table # << >>
         /\ start < Capacity(t) => ~Empty(t, start)
         /\ p < Capacity(t)
         /\ Yield(c, new, t.table[p].key, t.table[p].value)
  BY DEF NextInTable
<1>6. new = [cookie[c] EXCEPT !.next = NextOccupied(t, p), !.visited = left]
  OBVIOUS
<1> HIDE DEF new, left, start
<1>7. p = IF start >= Capacity(t) THEN start ELSE Min(S)
  BY DEF First
<1> HIDE DEF p
<1>8. ASSUME start < Capacity(t) => ~Empty(t, start) PROVE p = start
  <2>1. CASE start >= Capacity(t)
    BY <1>7, <2>1
  <2>2. CASE ~ (start >= Capacity(t))
    <3>1. Stop(start)
      BY <1>1, <1>2, <1>8, <2>2 DEF Plain, BagIn, BagToSet
    <3>2. S \subseteq Int /\ start \in S /\ start \in Int /\ \A x \in S : start <= x
      BY <1>1, <1>2, <2>2, <3>1
    <3> HIDE DEF S
    <3>3. Min(S) \in S /\ Min(S) \in Int /\ Min(S) <= start
      BY <3>2, LeastOf
    <3>4. start <= Min(S)
      BY <3>2, <3>3
    <3> QED
      BY <1>7, <2>2, <3>2, <3>3, <3>4
  <2> QED
    BY <2>1, <2>2
<1>9. CASE t.table = << >> /\ EndOfIteration(c)
  <2>1. Capacity(t) = 0
    BY <1>9 DEF Capacity
  <2>2. KeysFrom(t, start) = {}
    BY <1>1, <1>2, <2>1, KeysFromEnd
  <2> QED
    BY <1>3, <1>9, <2>2
<1>10. CASE /\ start < Capacity(t) => ~Empty(t, start)
            /\ p >= Capacity(t) /\ EndOfIteration(c)
  <2>1. start >= Capacity(t)
    BY <1>8, <1>10
  <2>2. KeysFrom(t, start) = {}
    BY <1>1, <1>2, <2>1, KeysFromEnd
  <2> QED
    BY <1>3, <1>10, <2>2
<1>11. CASE /\ t.table # << >>
            /\ start < Capacity(t) => ~Empty(t, start)
            /\ p < Capacity(t)
            /\ Yield(c, new, t.table[p].key, t.table[p].value)
  <2>1. p = start
    BY <1>8, <1>11
  <2>2. Shaped(t)
    BY <1>1, <1>11, NoTableFacts
  <2>3. p \in 0 .. Capacity(t) - 1 /\ ~ Empty(t, p)
    BY <1>1, <1>2, <1>11, <2>1
  <2>4. p \in Occupied(t)
    BY <2>2, <2>3, ShapedFacts
  <2>5. owed[c] = KeysFrom(t, p)
    BY <1>3, <2>1
  <2> QED
    BY <1>4, <1>6, <1>11, <2>4, <2>5
<1> QED
  BY <1>5, <1>9, <1>10, <1>11

LEMMA PlainYield ==
  ASSUME TableInv, Fits(t), Placed(t), CookieTypes, PlainInv, NEW c \in DOMAIN cookie,
         NEW p \in Occupied(t), NEW left, owed[c] = KeysFrom(t, p), DOMAIN left = {},
         Yield(c, [cookie[c] EXCEPT !.next = NextOccupied(t, p), !.visited = left],
               t.table[p].key, t.table[p].value)
  PROVE  /\ PlainInv'
         /\ ret'.key \in owed[c]
         /\ \A d \in DOMAIN cookie : d # c => cookie'[d] = cookie[d]
<1> DEFINE new == [cookie[c] EXCEPT !.next = NextOccupied(t, p), !.visited = left]
           k == t.table[p].key
<1>1. /\ cookie' = [cookie EXCEPT ![c] = new] /\ owed' = [owed EXCEPT ![c] = @ \ {k}] /\ t' = t
      /\ ret' = [op |-> "next", key |-> k, value |-> t.table[p].value]
  BY DEF Yield, Returns
<1>2. ret'.key = k
  BY <1>1
<1>3. /\ DOMAIN cookie[c] = CookieFields /\ DOMAIN owed = DOMAIN cookie
      /\ cookie[c].inserted = << >>
  BY DEF CookieTypes, PlainInv, Plain
<1>4. new.next = NextOccupied(t, p) /\ new.visited = left /\ new.inserted = << >>
  BY <1>3 DEF CookieFields
<1> HIDE DEF new
<1>5. /\ DOMAIN cookie' = DOMAIN cookie
      /\ \A d \in DOMAIN cookie : cookie'[d] = IF d = c THEN new ELSE cookie[d]
      /\ \A d \in DOMAIN cookie : owed'[d] = IF d = c THEN owed[c] \ {k} ELSE owed[d]
  BY <1>1, <1>3
<1>6. Shaped(t) /\ Distinct(t)
  BY NoTableFacts DEF TableInv, Placed
<1>7. KeysFrom(t, NextOccupied(t, p)) = KeysFrom(t, p) \ {k} /\ k \in KeysFrom(t, p)
  BY <1>6, KeysFromNext
<1> HIDE DEF k
<1>8. \A d \in DOMAIN cookie :
        /\ cookie'[d].inserted = << >> /\ DOMAIN cookie'[d].visited = {}
        /\ owed'[d] = KeysFrom(t, cookie'[d].next)
  BY <1>4, <1>5, <1>7 DEF PlainInv, Plain
<1>9. PlainInv'
  BY <1>1, <1>5, <1>8 DEF PlainInv, Plain
<1> QED
  BY <1>2, <1>5, <1>7, <1>9

LEMMA PlainDelete ==
  ASSUME CookieTypes, PlainInv, NEW c \in DOMAIN cookie, DeleteCookie(c), t' = t
  PROVE  /\ PlainInv'
         /\ DOMAIN cookie' = DOMAIN cookie \ {c}
         /\ \A d \in DOMAIN cookie' : cookie'[d] = cookie[d]
<1>1. /\ cookie' = [d \in DOMAIN cookie \ {c} |-> cookie[d]]
      /\ owed' = [d \in DOMAIN owed \ {c} |-> owed[d]] /\ DOMAIN owed = DOMAIN cookie
  BY DEF DeleteCookie, CookieTypes
<1>2. /\ DOMAIN cookie' = DOMAIN cookie \ {c}
      /\ \A d \in DOMAIN cookie' : cookie'[d] = cookie[d] /\ owed'[d] = owed[d]
  BY <1>1
<1> QED
  BY <1>2 DEF PlainInv, Plain

(* The two promises about one step. *)
VisitsAllStep ==
  \A c \in DOMAIN cookie : c \notin DOMAIN cookie' /\ ret'.op = "end" => owed[c] = {}

VisitsOnceStep ==
  \A c \in DOMAIN cookie :
    ret'.op = "next" /\ c \in DOMAIN cookie' /\ cookie'[c] # cookie[c] => ret'.key \in owed[c]

PlainStep == PlainInv' /\ VisitsAllStep /\ VisitsOnceStep

LEMMA PlainUnchanged ==
  ASSUME PlainInv, UNCHANGED << t, cookie, owed >>
  PROVE  PlainStep
  BY DEF PlainInv, Plain, PlainStep, VisitsAllStep, VisitsOnceStep

LEMMA PlainNextEntry ==
  ASSUME TableInv, Fits(t), Placed(t), CookieTypes, PlainInv, NEW c \in Cookies, NextEntry(c)
  PROVE  PlainStep
<1>1. c \in DOMAIN cookie
  BY DEF NextEntry, NextInserted, NextInTable
<1>2. Plain(cookie[c], owed[c])
  BY <1>1 DEF PlainInv
<1>3. ~ NextInserted(c)
  BY <1>2 DEF Plain, NextInserted
<1>4. NextInTable(c)
  BY <1>3 DEF NextEntry
<1>5. CASE EndOfIteration(c) /\ owed[c] = {}
  <2>1. CASE DeleteCookie(c) /\ t' = t /\ ret' = [op |-> "end", key |-> NULL, value |-> NULL]
    <3>1. /\ PlainInv' /\ DOMAIN cookie' = DOMAIN cookie \ {c}
          /\ \A d \in DOMAIN cookie' : cookie'[d] = cookie[d]
      BY <1>1, <2>1, PlainDelete
    <3>2. ret'.op = "end"
      BY <2>1
    <3>3. VisitsAllStep
      BY <1>5, <3>1 DEF VisitsAllStep
    <3>4. VisitsOnceStep
      BY <3>2 DEF VisitsOnceStep
    <3> QED
      BY <3>1, <3>3, <3>4 DEF PlainStep
  <2>2. CASE UNCHANGED << t, cookie, owed >>
    BY <2>2, PlainUnchanged
  <2> QED
    BY <1>5, <2>1, <2>2 DEF EndOfIteration, Returns, Abort, iteration
<1>6. CASE Abort("NextEntry:909")
  BY <1>6, PlainUnchanged DEF Abort, iteration
<1>7. ASSUME NEW p \in Occupied(t), NEW left, owed[c] = KeysFrom(t, p), DOMAIN left = {},
             Yield(c, [cookie[c] EXCEPT !.next = NextOccupied(t, p), !.visited = left],
                   t.table[p].key, t.table[p].value)
      PROVE  PlainStep
  <2>1. /\ PlainInv' /\ ret'.key \in owed[c]
        /\ \A d \in DOMAIN cookie : d # c => cookie'[d] = cookie[d]
    BY <1>1, <1>7, PlainYield
  <2>2. DOMAIN cookie' = DOMAIN cookie
    BY <1>7 DEF Yield
  <2> QED
    BY <2>1, <2>2 DEF PlainStep, VisitsAllStep, VisitsOnceStep
<1> QED
  BY <1>1, <1>2, <1>4, <1>5, <1>6, <1>7, PlainNext

LEMMA PlainNextStep ==
  ASSUME ChangesWhileIterating = {}, TableInv, Fits(t), Placed(t), CountInv, CookieTypes, PlainInv,
         [Next]_vars
  PROVE  PlainStep
<1>1. CASE UNCHANGED << t, cookie, owed >>
  BY <1>1, PlainUnchanged
<1>2. ASSUME ~ Iterating, DOMAIN cookie' = DOMAIN cookie PROVE PlainStep
  BY <1>2, NoCookies DEF PlainInv, PlainStep, VisitsAllStep, VisitsOnceStep
<1>3. ASSUME NEW k \in Keys, Lookup(k) PROVE PlainStep
  <2>1. cookie' = cookie /\ owed' = owed
    BY <1>3 DEF Lookup, Abort, iteration
  <2> QED
    BY <1>1, <1>2, <1>3, <2>1, LookupWhileIterating
<1>4. ASSUME NEW k \in Keys, Remove(k) PROVE PlainStep
  <2>1. ~ Iterating
    <3>1. May("remove")
      BY <1>4 DEF Remove, RemoveMissing, RemoveFound
    <3> QED
      BY <3>1 DEF May
  <2>2. DOMAIN cookie' = DOMAIN cookie
    BY <1>4, ChangesKeepCookies DEF Remove, CountInv
  <2> QED
    BY <1>2, <2>1, <2>2
<1>5. ASSUME NEW k \in Keys, NEW v \in Vals, Insert(k, v) PROVE PlainStep
  <2>1. ~ Iterating
    <3>1. May("insert")
      BY <1>5 DEF Insert, Overwrite, InsertNew
    <3> QED
      BY <3>1 DEF May
  <2>2. DOMAIN cookie' = DOMAIN cookie
    BY <1>5, ChangesKeepCookies DEF Insert, CountInv
  <2> QED
    BY <1>2, <2>1, <2>2
<1>6. CASE Clear
  <2>1. ~ Iterating /\ cookie' = cookie
    BY <1>6 DEF Clear, May
  <2> QED
    BY <1>2, <2>1
<1>7. ASSUME ret' = [op |-> "cookie", key |-> NULL, value |-> NULL]
      PROVE  VisitsAllStep /\ VisitsOnceStep
  <2>1. ret'.op = "cookie"
    BY <1>7
  <2> QED
    BY <2>1 DEF VisitsAllStep, VisitsOnceStep
<1>8. ASSUME NEW c \in Cookies, InitForIteration(c) PROVE PlainStep
  <2> DEFINE new == [robust |-> FALSE, next |-> -1, inserted |-> << >>, visited |-> EmptyBag]
  <2>1. /\ cookie' = With(cookie, c, new) /\ t' = t /\ owed' = With(owed, c, KeysIn(t))
        /\ ret' = [op |-> "cookie", key |-> NULL, value |-> NULL]
        /\ DOMAIN owed = DOMAIN cookie
    BY <1>8 DEF InitForIteration, Returns, CookieTypes
  <2>2. new.next = -1 /\ new.inserted = << >> /\ new.visited = EmptyBag
    OBVIOUS
  <2> HIDE DEF new
  <2>3. DOMAIN EmptyBag = {}
    BY DEF EmptyBag, SetToBag
  <2>4. /\ DOMAIN cookie' = DOMAIN cookie \cup {c}
        /\ \A d \in DOMAIN cookie' : cookie'[d] = IF d = c THEN new ELSE cookie[d]
        /\ \A d \in DOMAIN cookie' : owed'[d] = IF d = c THEN KeysIn(t) ELSE owed[d]
    BY <2>1 DEF With
  <2>5. KeysFrom(t, new.next) = KeysIn(t)
    BY <2>2, KeysFromStart DEF TableInv
  <2>6. \A d \in DOMAIN cookie' :
          /\ cookie'[d].inserted = << >> /\ DOMAIN cookie'[d].visited = {}
          /\ owed'[d] = KeysFrom(t, cookie'[d].next)
    BY <2>2, <2>3, <2>4, <2>5 DEF PlainInv, Plain
  <2>7. PlainInv'
    BY <2>1, <2>6 DEF PlainInv, Plain
  <2> QED
    BY <1>7, <2>1, <2>7 DEF PlainStep
<1>9. ASSUME NEW c \in Cookies, MakeRobustCookie(c) PROVE PlainStep
  <2>1. /\ cookie' = [cookie EXCEPT ![c].robust = TRUE] /\ c \in DOMAIN cookie /\ t' = t
        /\ owed' = owed /\ ret' = [op |-> "cookie", key |-> NULL, value |-> NULL]
    BY <1>9 DEF MakeRobustCookie, Returns
  <2>2. /\ DOMAIN cookie' = DOMAIN cookie
        /\ \A d \in DOMAIN cookie :
             /\ cookie'[d].next = cookie[d].next /\ cookie'[d].inserted = cookie[d].inserted
             /\ cookie'[d].visited = cookie[d].visited
    BY <2>1 DEF CookieTypes, CookieFields
  <2>3. PlainInv'
    BY <2>1, <2>2 DEF PlainInv, Plain
  <2> QED
    BY <1>7, <2>1, <2>3 DEF PlainStep
<1>10. ASSUME NEW c \in Cookies, StopIteration(c) PROVE PlainStep
  <2>1. c \in DOMAIN cookie
    BY <1>10 DEF StopIteration
  <2>2. \/ /\ DeleteCookie(c) /\ t' = t
           /\ ret' = [op |-> "cookie", key |-> NULL, value |-> NULL]
        \/ UNCHANGED << t, cookie, owed >>
    BY <1>10 DEF StopIteration, Returns, Abort, iteration
  <2> QED
    BY <1>1, <1>7, <2>1, <2>2, PlainDelete DEF PlainStep
<1>11. CASE UNCHANGED vars
  BY <1>1, <1>11 DEF vars
<1> QED
  BY <1>3, <1>4, <1>5, <1>6, <1>8, <1>9, <1>10, <1>11, PlainNextEntry DEF Next

IterationsInv == CookieTypes /\ CountInv /\ PlainInv

(* Iterations over a dictionary that nobody changes, any number of them    *)
(* side by side and with lookups and unfinished resizes under them, visit  *)
(* every entry before they end and none of them twice, whatever the hash   *)
(* function does: what is owed to a cookie is what the table still has     *)
(* before it.                                                              *)
THEOREM PlainIterationVisits ==
  ASSUME ChangesWhileIterating = {}
  PROVE  Spec /\ []OneOlderSize /\ []FitsDistance => IterationVisitsAll /\ IterationVisitsOnce
<1>1. Init => IterationsInv
  <2> SUFFICES ASSUME Init PROVE IterationsInv
    OBVIOUS
  <2>1. DOMAIN cookie = {} /\ DOMAIN owed = {} /\ cookies = {} /\ num_iterators = 0
    BY DEF Init
  <2> QED
    BY <2>1, FS_EmptySet DEF IterationsInv, CookieTypes, CountInv, CookieShapes,
                             CookiesAccounted, PlainInv
<1>2. PlacedInv /\ FitsDistance /\ IterationsInv /\ [Next]_vars
        => IterationsInv' /\ VisitsAllStep /\ VisitsOnceStep
  <2> SUFFICES ASSUME PlacedInv, FitsDistance, IterationsInv, [Next]_vars
               PROVE  IterationsInv' /\ VisitsAllStep /\ VisitsOnceStep
    OBVIOUS
  <2>1. TableInv /\ Placed(t) /\ CookieTypes /\ CountInv /\ PlainInv
    BY DEF PlacedInv, IterationsInv
  <2>2. Fits(t)
    BY <2>1, FitsNow
  <2>3. CookieTypes'
    BY <2>1, CookieStep
  <2>4. CountInv'
    BY <2>1, CountStep
  <2>5. PlainStep
    BY <2>1, <2>2, PlainNextStep
  <2> QED
    BY <2>3, <2>4, <2>5 DEF IterationsInv, PlainStep
<1>3. [][VisitsAllStep /\ VisitsOnceStep]_vars => IterationVisitsAll /\ IterationVisitsOnce
  <2>1. [VisitsAllStep /\ VisitsOnceStep]_vars => [VisitsAllStep]_vars /\ [VisitsOnceStep]_vars
    OBVIOUS
  <2> QED
    BY <2>1, PTL DEF IterationVisitsAll, IterationVisitsOnce, VisitsAllStep, VisitsOnceStep
<1> QED
  BY <1>1, <1>2, <1>3, PlacesKept, PTL DEF Spec

=============================================================================
