---------------------------- MODULE MemoryProofs ----------------------------
(***************************************************************************)
(* What MCDictMemory checks on three blocks, for any number of them: the   *)
(* arrays of List and the keys of HashKey and DictEntry have one owner,    *)
(* and the calls of List act on sequences.                                 *)
(***************************************************************************)
EXTENDS MCDictMemory, SequenceTheorems, WellFoundedInduction, TLAPS

-----------------------------------------------------------------------------
(* List *)

(* An entry is a value of a client or a null that replace() filled in. *)
EntryValues == Values \cup {nullptr}

(* The types, and that slots in use hold entries, which can be compared. *)
HeapTyped ==
  /\ entries \in [Lists -> Blocks \cup {NoBlock}]
  /\ num_entries \in [Lists -> Nat]
  /\ max_entries \in [Lists -> Nat]
  /\ DOMAIN memory \subseteq Blocks
  /\ \A l \in Lists : \A i \in 0 .. num_entries[l] - 1 : Array(l)[i] \in EntryValues

HeapInv == HeapTyped /\ BlocksOwned

LEMMA EntriesNotJunk == \A v \in EntryValues : v # Junk /\ v \in Int
BY ListAssumption DEF EntryValues, nullptr

(* Every call that moves l to block b, with m slots and n entries in it. *)
LEMMA PlaceKeeps ==
  ASSUME HeapInv, NEW l \in Lists, NEW b \in FreeBlocks \cup ({entries[l]} \ {NoBlock}),
         NEW a, NEW n \in Nat, NEW m \in Nat, n <= m, DOMAIN a = 0 .. m - 1,
         \A i \in 0 .. n - 1 : a[i] \in EntryValues,
         Place(l, b, a),
         num_entries' = [num_entries EXCEPT ![l] = n],
         max_entries' = [max_entries EXCEPT ![l] = m]
  PROVE  HeapInv'
<1>1. b \in Blocks /\ b # NoBlock
  BY ListAssumption DEF FreeBlocks, HeapInv, HeapTyped
<1>2. /\ entries' \in [Lists -> Blocks \cup {NoBlock}]
      /\ num_entries' \in [Lists -> Nat] /\ max_entries' \in [Lists -> Nat]
      /\ DOMAIN memory' \subseteq Blocks
  BY <1>1 DEF Place, HeapInv, HeapTyped
<1>3. entries'[l] = b /\ num_entries'[l] = n /\ max_entries'[l] = m /\ memory'[b] = a
  BY DEF Place, HeapInv, HeapTyped
<1>4. Array(l)' = a
  BY <1>1, <1>3 DEF Array
<1>5. ASSUME NEW k \in Lists, k # l
      PROVE  /\ entries'[k] = entries[k] /\ entries[k] # b
             /\ num_entries'[k] = num_entries[k] /\ max_entries'[k] = max_entries[k]
             /\ Array(k)' = Array(k)
             /\ entries[k] # NoBlock => entries[k] \in DOMAIN memory'
  <2>1. /\ entries'[k] = entries[k]
        /\ num_entries'[k] = num_entries[k] /\ max_entries'[k] = max_entries[k]
    BY <1>5 DEF Place, HeapInv, HeapTyped
  <2>2. entries[k] # b
    BY <1>1, <1>5 DEF HeapInv, BlocksOwned, FreeBlocks
  <2>3. entries[k] # NoBlock =>
          /\ entries[k] \in DOMAIN memory'
          /\ memory'[entries[k]] = memory[entries[k]]
    BY <1>5, <2>2 DEF Place, HeapInv, BlocksOwned
  <2> QED
    BY <2>1, <2>2, <2>3 DEF Array
<1>6. HeapTyped'
  BY <1>2, <1>3, <1>4, <1>5 DEF HeapInv, HeapTyped
<1>7. BlocksOwned'
  <2>1. ASSUME NEW k \in Lists
        PROVE  /\ num_entries'[k] <= max_entries'[k]
               /\ DOMAIN Array(k)' = 0 .. max_entries'[k] - 1
               /\ entries'[k] # NoBlock => entries'[k] \in DOMAIN memory'
               /\ \A i \in 0 .. num_entries'[k] - 1 : Array(k)'[i] # Junk
    <3>1. CASE k = l
      BY <1>3, <1>4, <3>1, EntriesNotJunk DEF Place
    <3>2. CASE k # l
      BY <1>5, <3>2 DEF HeapInv, BlocksOwned, Slots
    <3> QED BY <3>1, <3>2
  <2>2. ASSUME NEW k \in Lists, NEW j \in Lists, k # j, entries'[k] # NoBlock
        PROVE  entries'[k] # entries'[j]
    BY <1>3, <1>5, <2>2 DEF HeapInv, BlocksOwned
  <2>3. ASSUME NEW x \in DOMAIN memory'
        PROVE  \E k \in Lists : entries'[k] = x
    <3>1. CASE x = b
      BY <1>3, <3>1
    <3>2. CASE x # b
      <4>1. x \in DOMAIN memory /\ x # entries[l]
        BY <2>3, <3>2 DEF Place
      <4>2. PICK k \in Lists : entries[k] = x
        BY <4>1 DEF HeapInv, BlocksOwned
      <4> QED
        BY <1>5, <4>1, <4>2
    <3> QED BY <3>1, <3>2
  <2> QED
    BY <2>1, <2>2, <2>3 DEF BlocksOwned, Slots
<1> QED
  BY <1>6, <1>7 DEF HeapInv

(* Every call that leaves l without a block. *)
LEMMA ReleaseKeeps ==
  ASSUME HeapInv, NEW l \in Lists, Release(l),
         num_entries' = [num_entries EXCEPT ![l] = 0],
         max_entries' = [max_entries EXCEPT ![l] = 0]
  PROVE  HeapInv'
<1>1. /\ entries' \in [Lists -> Blocks \cup {NoBlock}]
      /\ num_entries' \in [Lists -> Nat] /\ max_entries' \in [Lists -> Nat]
      /\ DOMAIN memory' \subseteq Blocks
  BY DEF Release, HeapInv, HeapTyped
<1>2. entries'[l] = NoBlock /\ num_entries'[l] = 0 /\ max_entries'[l] = 0
  BY DEF Release, HeapInv, HeapTyped
<1>3. ASSUME NEW k \in Lists, k # l
      PROVE  /\ entries'[k] = entries[k]
             /\ num_entries'[k] = num_entries[k] /\ max_entries'[k] = max_entries[k]
             /\ Array(k)' = Array(k)
             /\ entries[k] # NoBlock => entries[k] \in DOMAIN memory'
  <2>1. /\ entries'[k] = entries[k]
        /\ num_entries'[k] = num_entries[k] /\ max_entries'[k] = max_entries[k]
    BY <1>3 DEF Release, HeapInv, HeapTyped
  <2>2. entries[k] # NoBlock =>
          /\ entries[k] \in DOMAIN memory'
          /\ memory'[entries[k]] = memory[entries[k]]
    BY <1>3 DEF Release, HeapInv, BlocksOwned
  <2> QED
    BY <2>1, <2>2 DEF Array
<1>4. DOMAIN Array(l)' = {}
  BY <1>2 DEF Array
<1>5. HeapTyped'
  BY <1>1, <1>2, <1>3 DEF HeapInv, HeapTyped
<1>6. BlocksOwned'
  <2>1. ASSUME NEW k \in Lists
        PROVE  /\ num_entries'[k] <= max_entries'[k]
               /\ DOMAIN Array(k)' = 0 .. max_entries'[k] - 1
               /\ entries'[k] # NoBlock => entries'[k] \in DOMAIN memory'
               /\ \A i \in 0 .. num_entries'[k] - 1 : Array(k)'[i] # Junk
    <3>1. CASE k = l
      BY <1>2, <1>4, <3>1
    <3>2. CASE k # l
      BY <1>3, <3>2 DEF HeapInv, BlocksOwned, Slots
    <3> QED BY <3>1, <3>2
  <2>2. ASSUME NEW k \in Lists, NEW j \in Lists, k # j, entries'[k] # NoBlock
        PROVE  entries'[k] # entries'[j]
    BY <1>2, <1>3, <2>2 DEF HeapInv, BlocksOwned
  <2>3. ASSUME NEW x \in DOMAIN memory'
        PROVE  \E k \in Lists : entries'[k] = x
    <3>1. x \in DOMAIN memory /\ x # entries[l]
      BY <2>3 DEF Release
    <3>2. PICK k \in Lists : entries[k] = x
      BY <3>1 DEF HeapInv, BlocksOwned
    <3> QED
      BY <1>3, <3>1, <3>2
  <2> QED
    BY <2>1, <2>2, <2>3 DEF BlocksOwned, Slots
<1> QED
  BY <1>5, <1>6 DEF HeapInv

(* Every call that writes to the block of l, which then has n entries. *)
LEMMA WriteKeeps ==
  ASSUME HeapInv, NEW l \in Lists, NEW a, NEW n \in Nat, n <= max_entries[l],
         entries[l] # NoBlock, DOMAIN a = Slots(l),
         \A i \in 0 .. n - 1 : a[i] \in EntryValues,
         Write(l, a),
         num_entries' = [num_entries EXCEPT ![l] = n],
         max_entries' = max_entries
  PROVE  HeapInv'
<1>1. entries[l] \in DOMAIN memory /\ entries[l] \in Blocks
  BY DEF HeapInv, HeapTyped, BlocksOwned
<1>2. /\ entries' = [entries EXCEPT ![l] = entries[l]]
      /\ max_entries' = [max_entries EXCEPT ![l] = max_entries[l]]
      /\ memory' = [x \in (DOMAIN memory \ {entries[l]}) \cup {entries[l]} |->
                      IF x = entries[l] THEN a ELSE memory[x]]
  BY <1>1 DEF Write, HeapInv, HeapTyped
<1>3. Place(l, entries[l], a)
  BY <1>2 DEF Place
<1>4. max_entries[l] \in Nat
  BY DEF HeapInv, HeapTyped
<1> QED
  BY <1>2, <1>3, <1>4, PlaceKeeps DEF Slots

(* What the invariant says of one list. *)
LEMMA ListFacts ==
  ASSUME HeapInv, NEW l \in Lists
  PROVE  /\ num_entries[l] \in Nat /\ max_entries[l] \in Nat
         /\ num_entries[l] <= max_entries[l]
         /\ DOMAIN Array(l) = 0 .. max_entries[l] - 1
         /\ \A i \in 0 .. num_entries[l] - 1 : Array(l)[i] \in EntryValues
         /\ max_entries[l] > 0 => entries[l] # NoBlock
<1>1. /\ num_entries[l] \in Nat /\ max_entries[l] \in Nat
      /\ num_entries[l] <= max_entries[l]
      /\ DOMAIN Array(l) = 0 .. max_entries[l] - 1
      /\ \A i \in 0 .. num_entries[l] - 1 : Array(l)[i] \in EntryValues
  BY DEF HeapInv, HeapTyped, BlocksOwned, Slots
<1>2. entries[l] = NoBlock => DOMAIN Array(l) = {}
  BY DEF Array
<1>3. max_entries[l] > 0 => 0 \in DOMAIN Array(l)
  BY <1>1
<1> QED
  BY <1>1, <1>2, <1>3

(* A non-empty set of naturals has a least element. *)
LEMMA LeastNatural ==
  ASSUME NEW T, T \in SUBSET Nat, T # {}
  PROVE  \E n \in T : \A m \in T : n <= m
<1> DEFINE R == OpToRel(<, Nat)
<1>1. \A k, m \in Nat : k < m => << k, m >> \in R
  BY DEF OpToRel
<1>2. IsWellFoundedOn(R, Nat)
  BY NatLessThanWellFounded
<1> HIDE DEF R
<1>3. PICK n \in T : \A m \in T : << m, n >> \notin R
  BY <1>2, WFMin
<1>4. \A m \in T : m \in Nat /\ n \in Nat /\ ~ (m < n)
  BY <1>1, <1>3
<1>5. \A m \in T : n <= m
  BY <1>4
<1> QED
  BY <1>5

(* The loop of sortedinsert stops at a slot or at the beginning. *)
LEMMA SortedSlotStops ==
  ASSUME NEW a, NEW num \in Nat, NEW v \in Int,
         \A i \in 0 .. num - 1 : a[i] \in Int
  PROVE  LET n == SortedSlot(a, num, v)
         IN  /\ n \in 0 .. num
             /\ \A i \in n .. num - 1 : a[i] < v
             /\ n = 0 \/ a[n - 1] >= v
<1> DEFINE T == {n \in 0 .. num : \A i \in n .. num - 1 : a[i] < v}
<1>1. num \in T /\ T \in SUBSET Nat
  OBVIOUS
<1>2. PICK n \in T : \A m \in T : n <= m
  BY <1>1, LeastNatural
<1>3. n \in 0 .. num /\ \A i \in n .. num - 1 : a[i] < v
  OBVIOUS
<1>4. ASSUME n # 0, ~ (a[n - 1] >= v) PROVE FALSE
  <2>1. n - 1 \in 0 .. num - 1 /\ a[n - 1] < v
    BY <1>3, <1>4
  <2>2. \A i \in n - 1 .. num - 1 : a[i] < v
    BY <1>3, <2>1
  <2>3. n - 1 \in T
    BY <1>3, <2>1, <2>2
  <2> QED
    BY <1>2, <1>3, <2>3
<1> QED
  BY <1>3, <1>4 DEF SortedSlot

(* A list that is full grows. *)
LEMMA GrowsEnough ==
  ASSUME HeapInv, NEW l \in Lists, num_entries[l] = max_entries[l]
  PROVE  GrownSize(l) \in Nat /\ num_entries[l] + 1 <= GrownSize(l)
<1> DEFINE max == max_entries[l]
<1>1. ASSUME NEW x \in Nat, NEW y \in Nat, x > 0, y > 1
      PROVE  x * y \in Nat /\ x + 1 <= x * y
  <2>1. x * y = x + x * (y - 1) /\ x * (y - 1) >= x
    BY <1>1
  <2> QED BY <1>1, <2>1
<1>2. LIST_GROWTH_FACTOR \in Nat /\ LIST_GROWTH_FACTOR > 1
  BY ListAssumption
<1>3. max \in Nat
  BY ListFacts
<1>4. max > 0 => max * LIST_GROWTH_FACTOR \in Nat /\ max + 1 <= max * LIST_GROWTH_FACTOR
  BY <1>1, <1>2, <1>3, Zenon
<1> QED
  BY <1>3, <1>4, ListAssumption DEF GrownSize

(* insert, push_back and sortedinsert. *)
LEMMA AddKeeps ==
  ASSUME HeapInv, NEW l \in Lists, NEW n \in 0 .. num_entries[l], NEW v \in Values, Add(l, n, v)
  PROVE  HeapInv'
<1> DEFINE num == num_entries[l]
           max == max_entries[l]
           a == Array(l)
<1>1. /\ num \in Nat /\ max \in Nat /\ num <= max /\ n \in Nat /\ n <= num
      /\ DOMAIN a = 0 .. max - 1 /\ v \in EntryValues
      /\ \A i \in 0 .. num - 1 : a[i] \in EntryValues
      /\ max > 0 => entries[l] # NoBlock
  BY ListFacts DEF EntryValues
<1>2. /\ num_entries' = [num_entries EXCEPT ![l] = num + 1]
  BY DEF Add
<1>3. ASSUME NEW g, NEW m \in Nat, num + 1 <= m, DOMAIN g = 0 .. m - 1,
             \A i \in 0 .. num - 1 : g[i] \in EntryValues
      PROVE  /\ DOMAIN Inserted(g, n, num, v) = 0 .. m - 1
             /\ \A i \in 0 .. (num + 1) - 1 : Inserted(g, n, num, v)[i] \in EntryValues
  <2> HIDE DEF num
  <2>1. DOMAIN Inserted(g, n, num, v) = 0 .. m - 1
    BY <1>3 DEF Inserted
  <2>2. ASSUME NEW i \in 0 .. (num + 1) - 1
        PROVE  Inserted(g, n, num, v)[i] \in EntryValues
    <3>1. i \in DOMAIN g
      BY <1>1, <1>3
    <3>2. CASE i = n
      BY <1>1, <3>1, <3>2 DEF Inserted
    <3>3. CASE i # n /\ i \in n + 1 .. num
      <4>1. i - 1 \in 0 .. num - 1 /\ Inserted(g, n, num, v)[i] = g[i - 1]
        BY <1>1, <3>1, <3>3 DEF Inserted
      <4> QED
        BY <1>3, <4>1
    <3>4. CASE i # n /\ i \notin n + 1 .. num
      <4>1. i \in 0 .. num - 1 /\ Inserted(g, n, num, v)[i] = g[i]
        BY <1>1, <3>1, <3>4 DEF Inserted
      <4> QED
        BY <1>3, <4>1
    <3> QED
      BY <3>2, <3>3, <3>4
  <2> QED
    BY <2>1, <2>2
<1>4. CASE num = max
  <2> DEFINE m == GrownSize(l)
             g == Resized(a, m)
  <2>1. m \in Nat /\ num + 1 <= m
    BY <1>4, GrowsEnough
  <2>2. DOMAIN g = 0 .. m - 1 /\ \A i \in 0 .. num - 1 : g[i] \in EntryValues
    <3>1. \A i \in 0 .. num - 1 : i \in 0 .. m - 1 /\ i \in DOMAIN a
      BY <1>1, <2>1
    <3> QED
      BY <1>1, <3>1 DEF Resized
  <2>3. PICK b \in FreeBlocks \cup ({entries[l]} \ {NoBlock}) :
          Place(l, b, Inserted(g, n, num, v))
    BY <1>4 DEF Add, Realloc
  <2>4. max_entries' = [max_entries EXCEPT ![l] = m]
    BY <1>4 DEF Add
  <2> HIDE DEF g, m, a
  <2>5. /\ DOMAIN Inserted(g, n, num, v) = 0 .. m - 1
        /\ \A i \in 0 .. (num + 1) - 1 : Inserted(g, n, num, v)[i] \in EntryValues
    BY <1>3, <2>1, <2>2
  <2>6. num + 1 \in Nat
    BY <1>1
  <2> HIDE DEF num
  <2> QED
    BY <1>2, <2>1, <2>3, <2>4, <2>5, <2>6, PlaceKeeps
<1>5. CASE num # max
  <2>1. num + 1 <= max /\ num + 1 \in Nat /\ entries[l] # NoBlock
    BY <1>1, <1>5
  <2>2. Write(l, Inserted(a, n, num, v)) /\ max_entries' = max_entries
    BY <1>5 DEF Add
  <2> HIDE DEF a
  <2>3. /\ DOMAIN Inserted(a, n, num, v) = Slots(l)
        /\ \A i \in 0 .. (num + 1) - 1 : Inserted(a, n, num, v)[i] \in EntryValues
    BY <1>1, <1>3, <2>1 DEF Slots
  <2> QED
    BY <1>2, <2>1, <2>2, <2>3, WriteKeeps
<1> QED
  BY <1>4, <1>5

(* remove_nth, remove. *)
LEMMA RemovedKeeps ==
  ASSUME HeapInv, NEW l \in Lists, NEW n \in 0 .. num_entries[l] - 1,
         Write(l, Removed(Array(l), n, num_entries[l])),
         num_entries' = [num_entries EXCEPT ![l] = @ - 1],
         UNCHANGED max_entries
  PROVE  HeapInv'
<1> DEFINE num == num_entries[l]
           max == max_entries[l]
           a == Array(l)
<1>1. /\ num \in Nat /\ max \in Nat /\ num <= max
      /\ DOMAIN a = 0 .. max - 1
      /\ \A i \in 0 .. num - 1 : a[i] \in EntryValues
      /\ max > 0 => entries[l] # NoBlock
  BY ListFacts
<1>2. num - 1 \in Nat /\ num - 1 <= max /\ entries[l] # NoBlock
  BY <1>1
<1>3. num_entries' = [num_entries EXCEPT ![l] = num - 1]
  OBVIOUS
<1>4. /\ DOMAIN Removed(a, n, num) = Slots(l)
      /\ \A i \in 0 .. (num - 1) - 1 : Removed(a, n, num)[i] \in EntryValues
  BY <1>1 DEF Removed, Slots
<1> QED
  BY <1>2, <1>3, <1>4, WriteKeeps

LEMMA HeapInit == ASSUME Init PROVE HeapInv
<1>1. \A l \in Lists : /\ Array(l) = [i \in {} |-> Junk]
                       /\ num_entries[l] = 0 /\ max_entries[l] = 0
  BY DEF Init, Array
<1>2. DOMAIN memory = {}
  BY DEF Init
<1>3. HeapTyped
  BY <1>1, <1>2 DEF Init, HeapTyped
<1>4. BlocksOwned
  BY <1>1, <1>2 DEF Init, BlocksOwned, Slots
<1> QED
  BY <1>3, <1>4 DEF HeapInv

LEMMA HeapStep == ASSUME HeapInv, [Next]_vars PROVE HeapInv'
<1>1. CASE UNCHANGED vars
  BY <1>1 DEF vars, HeapInv, HeapTyped, BlocksOwned, Slots, Array
<1> SUFFICES ASSUME Next PROVE HeapInv'
  BY <1>1
<1> DEFINE num(l) == num_entries[l]
           max(l) == max_entries[l]
<1>2. ASSUME NEW l \in Lists, ConstructEmpty(l) PROVE HeapInv'
  BY <1>2, ReleaseKeeps DEF ConstructEmpty
<1>3. ASSUME NEW l \in Lists, NEW n \in Nat, ConstructSized(l, n) PROVE HeapInv'
  <2> DEFINE a == Resized(<< >>, n)
  <2>1. PICK b \in FreeBlocks : Place(l, b, a)
    BY <1>3 DEF ConstructSized
  <2>2. DOMAIN a = 0 .. n - 1 /\ 0 <= n /\ \A i \in 0 .. 0 - 1 : a[i] \in EntryValues
    BY DEF Resized
  <2> HIDE DEF a
  <2> QED
    BY <1>3, <2>1, <2>2, PlaceKeeps DEF ConstructSized
<1>4. ASSUME NEW l \in Lists, NEW n \in Nat, NEW arr \in [0 .. n - 1 -> Values],
             ConstructFrom(l, n, arr)
      PROVE  HeapInv'
  <2>1. PICK b \in FreeBlocks : Place(l, b, arr)
    BY <1>4 DEF ConstructFrom
  <2>2. DOMAIN arr = 0 .. n - 1 /\ n <= n /\ \A i \in 0 .. n - 1 : arr[i] \in EntryValues
    BY DEF EntryValues
  <2> QED
    BY <1>4, <2>1, <2>2, PlaceKeeps DEF ConstructFrom
<1>5. ASSUME NEW l \in Lists, NEW b \in Lists, Copy(l, b) PROVE HeapInv'
  <2> DEFINE a == Copied(Array(b), num(b), max(b))
  <2>1. /\ num(b) \in Nat /\ max(b) \in Nat /\ num(b) <= max(b)
        /\ \A i \in 0 .. num(b) - 1 : Array(b)[i] \in EntryValues
    BY ListFacts
  <2>2. DOMAIN a = 0 .. max(b) - 1 /\ \A i \in 0 .. num(b) - 1 : a[i] \in EntryValues
    BY <2>1 DEF Copied
  <2>3. CASE max(b) > 0
    <3>1. PICK new \in FreeBlocks : Place(l, new, a)
      BY <1>5, <2>3 DEF Copy
    <3> HIDE DEF a
    <3> QED
      BY <1>5, <2>1, <2>2, <3>1, PlaceKeeps DEF Copy
  <2>4. CASE ~ (max(b) > 0)
    <3>1. max(b) = 0 /\ num(b) = 0
      BY <2>1, <2>4
    <3> QED
      BY <1>5, <2>4, <3>1, ReleaseKeeps DEF Copy
  <2> QED
    BY <2>3, <2>4
<1>6. ASSUME NEW l \in Lists, NEW b \in Lists, Move(l, b) PROVE HeapInv'
  <2>1. l # b
    BY <1>6 DEF Move
  <2>2. /\ entries' \in [Lists -> Blocks \cup {NoBlock}]
        /\ num_entries' \in [Lists -> Nat] /\ max_entries' \in [Lists -> Nat]
        /\ DOMAIN memory' \subseteq Blocks
    BY <1>6 DEF Move, HeapInv, HeapTyped
  <2>3. /\ entries'[l] = entries[b] /\ num_entries'[l] = num(b) /\ max_entries'[l] = max(b)
        /\ entries'[b] = NoBlock /\ num_entries'[b] = 0 /\ max_entries'[b] = 0
        /\ \A k \in Lists \ {l, b} : /\ entries'[k] = entries[k]
                                     /\ num_entries'[k] = num_entries[k]
                                     /\ max_entries'[k] = max_entries[k]
    BY <1>6, <2>1 DEF Move, HeapInv, HeapTyped
  <2>4. ASSUME NEW k \in Lists, k # l, entries[k] # NoBlock
        PROVE  entries[k] \in DOMAIN memory' /\ memory'[entries[k]] = memory[entries[k]]
    BY <1>6, <2>4 DEF Move, HeapInv, BlocksOwned
  <2>5. Array(l)' = Array(b) /\ DOMAIN Array(b)' = {}
        /\ \A k \in Lists \ {l, b} : Array(k)' = Array(k)
    BY <2>1, <2>3, <2>4 DEF Array
  <2>6. HeapTyped'
    <3>1. ASSUME NEW k \in Lists, NEW i \in 0 .. num_entries'[k] - 1
          PROVE  Array(k)'[i] \in EntryValues
      <4>1. CASE k = l
        BY <2>3, <2>5, <3>1, <4>1 DEF HeapInv, HeapTyped
      <4>2. CASE k = b
        BY <2>3, <3>1, <4>2
      <4>3. CASE k \in Lists \ {l, b}
        BY <2>3, <2>5, <3>1, <4>3 DEF HeapInv, HeapTyped
      <4> QED BY <4>1, <4>2, <4>3
    <3> QED
      BY <2>2, <3>1 DEF HeapTyped
  <2>7. BlocksOwned'
    <3>1. ASSUME NEW k \in Lists
          PROVE  /\ num_entries'[k] <= max_entries'[k]
                 /\ DOMAIN Array(k)' = 0 .. max_entries'[k] - 1
                 /\ entries'[k] # NoBlock => entries'[k] \in DOMAIN memory'
                 /\ \A i \in 0 .. num_entries'[k] - 1 : Array(k)'[i] # Junk
      <4>1. CASE k = b
        BY <2>3, <2>5, <4>1
      <4>2. CASE k = l
        BY <2>1, <2>3, <2>4, <2>5, <4>2 DEF HeapInv, BlocksOwned, Slots
      <4>3. CASE k \in Lists \ {l, b}
        BY <2>3, <2>4, <2>5, <4>3 DEF HeapInv, BlocksOwned, Slots
      <4> QED BY <4>1, <4>2, <4>3
    <3>2. ASSUME NEW k \in Lists, NEW j \in Lists, k # j, entries'[k] # NoBlock
          PROVE  entries'[k] # entries'[j]
      BY <2>1, <2>3, <3>2 DEF HeapInv, BlocksOwned
    <3>3. ASSUME NEW x \in DOMAIN memory'
          PROVE  \E k \in Lists : entries'[k] = x
      <4>1. x \in DOMAIN memory /\ x # entries[l]
        BY <1>6, <3>3 DEF Move
      <4>2. PICK k \in Lists : entries[k] = x
        BY <4>1 DEF HeapInv, BlocksOwned
      <4> QED
        BY <2>3, <4>1, <4>2
    <3> QED
      BY <3>1, <3>2, <3>3 DEF BlocksOwned, Slots
  <2> QED
    BY <2>6, <2>7 DEF HeapInv
<1>7. ASSUME NEW l \in Lists, NEW n \in Nat, Resize(l, n) PROVE HeapInv'
  <2> DEFINE size == FitSize(l, n)
             a == Resized(Array(l), size)
  <2>1. /\ num(l) \in Nat /\ max(l) \in Nat /\ num(l) <= max(l)
        /\ DOMAIN Array(l) = 0 .. max(l) - 1
        /\ \A i \in 0 .. num(l) - 1 : Array(l)[i] \in EntryValues
    BY ListFacts
  <2>2. size \in Nat /\ num(l) <= size
    BY <2>1 DEF FitSize
  <2>3. num_entries' = [num_entries EXCEPT ![l] = num(l)]
    BY <1>7 DEF Resize, HeapInv, HeapTyped
  <2>4. DOMAIN a = 0 .. size - 1 /\ \A i \in 0 .. num(l) - 1 : a[i] \in EntryValues
    <3>1. \A i \in 0 .. num(l) - 1 : i \in 0 .. size - 1 /\ i \in DOMAIN Array(l)
      BY <2>1, <2>2
    <3> QED
      BY <2>1, <3>1 DEF Resized
  <2>5. CASE size = max(l)
    BY <1>7, <2>5 DEF Resize, HeapInv, HeapTyped, BlocksOwned, Slots, Array
  <2>6. CASE size # max(l)
    <3>1. max_entries' = [max_entries EXCEPT ![l] = size]
      BY <1>7, <2>6 DEF Resize
    <3>2. CASE Realloc(l, a)
      <4>1. PICK b \in FreeBlocks \cup ({entries[l]} \ {NoBlock}) : Place(l, b, a)
        BY <3>2 DEF Realloc
      <4> HIDE DEF a, size
      <4> QED
        BY <2>1, <2>2, <2>3, <2>4, <3>1, <4>1, PlaceKeeps
    <3>3. CASE size = 0 /\ Release(l)
      <4>1. num(l) = 0
        BY <2>1, <2>2, <3>3
      <4> QED
        BY <2>3, <3>1, <3>3, <4>1, ReleaseKeeps
    <3> QED
      BY <1>7, <2>6, <3>2, <3>3 DEF Resize
  <2> QED
    BY <2>5, <2>6
<1>8. ASSUME NEW l \in Lists, NEW v \in Values, Insert(l, v) PROVE HeapInv'
  <2>1. 0 \in 0 .. num_entries[l]
    BY ListFacts
  <2> QED
    BY <1>8, <2>1, AddKeeps DEF Insert
<1>9. ASSUME NEW l \in Lists, NEW v \in Values, PushBack(l, v) PROVE HeapInv'
  <2>1. num_entries[l] \in 0 .. num_entries[l]
    BY ListFacts
  <2> QED
    BY <1>9, <2>1, AddKeeps DEF PushBack
<1>10. ASSUME NEW l \in Lists, NEW v \in Values, SortedInsert(l, v) PROVE HeapInv'
  <2>1. SortedSlot(Array(l), num_entries[l], v) \in 0 .. num_entries[l]
    <3>1. num_entries[l] \in Nat /\ \A i \in 0 .. num_entries[l] - 1 : Array(l)[i] \in Int
      BY ListFacts, EntriesNotJunk
    <3>2. v \in Int
      BY ListAssumption
    <3> QED
      BY <3>1, <3>2, SortedSlotStops
  <2> QED
    BY <1>10, <2>1, AddKeeps DEF SortedInsert
<1>11. ASSUME NEW l \in Lists, NEW n \in Nat, RemoveNth(l, n) PROVE HeapInv'
  BY <1>11, RemovedKeeps DEF RemoveNth
<1>12. ASSUME NEW l \in Lists, NEW v \in Values, Remove(l, v) PROVE HeapInv'
  <2> DEFINE at == {i \in 0 .. num_entries[l] - 1 : Array(l)[i] = v}
  <2>1. at # {}
    BY <1>12 DEF Remove, member_pos
  <2>2. at \in SUBSET Nat
    BY ListFacts
  <2>3. PICK n \in at : \A m \in at : n <= m
    BY <2>1, <2>2, LeastNatural
  <2>4. member_pos(l, v) = CHOOSE i \in at : \A j \in at : i <= j
    BY <2>1 DEF member_pos
  <2>5. member_pos(l, v) \in at
    BY <2>3, <2>4
  <2> QED
    BY <1>12, <2>5, RemovedKeeps DEF Remove
<1>13. ASSUME NEW l \in Lists, NEW v \in Values, RemoveMissing(l, v) PROVE HeapInv'
  BY <1>13 DEF RemoveMissing, HeapInv, HeapTyped, BlocksOwned, Slots, Array
<1>14. ASSUME NEW l \in Lists, Get(l) PROVE HeapInv'
  <2>1. num(l) \in Nat /\ num(l) - 1 \in Nat /\ num(l) <= max(l) /\ max(l) \in Nat
    BY <1>14, ListFacts DEF Get
  <2>2. \A k \in Lists : Array(k)' = Array(k)
    BY <1>14 DEF Get, Array
  <2>3. /\ num_entries' \in [Lists -> Nat] /\ max_entries' = max_entries
        /\ \A k \in Lists : num_entries'[k] <= num_entries[k]
    BY <1>14, <2>1 DEF Get, HeapInv, HeapTyped
  <2>4. \A k \in Lists : /\ num_entries[k] \in Nat /\ num_entries'[k] \in Nat /\ max_entries[k] \in Nat
                         /\ num_entries'[k] <= max_entries[k]
                         /\ 0 .. num_entries'[k] - 1 \subseteq 0 .. num_entries[k] - 1
    BY <2>3 DEF HeapInv, HeapTyped, BlocksOwned
  <2>5. HeapTyped'
    BY <1>14, <2>2, <2>3, <2>4 DEF Get, HeapInv, HeapTyped
  <2>6. BlocksOwned'
    BY <1>14, <2>2, <2>3, <2>4 DEF Get, HeapInv, BlocksOwned, Slots
  <2> QED
    BY <2>5, <2>6 DEF HeapInv
<1>15. ASSUME NEW l \in Lists, NEW n \in Nat, NEW v \in Values, Replace(l, n, v) PROVE HeapInv'
  <2> DEFINE a == [Array(l) EXCEPT ![n] = v]
  <2>1. /\ num(l) \in Nat /\ max(l) \in Nat /\ num(l) <= max(l)
        /\ DOMAIN Array(l) = 0 .. max(l) - 1 /\ v \in EntryValues
        /\ \A i \in 0 .. num(l) - 1 : Array(l)[i] \in EntryValues
        /\ max(l) > 0 => entries[l] # NoBlock
    BY ListFacts DEF EntryValues
  <2>2. DOMAIN a = Slots(l) /\ \A i \in 0 .. num(l) - 1 : a[i] \in EntryValues
    <3>1. \A i \in 0 .. num(l) - 1 : i \in DOMAIN Array(l)
      BY <2>1
    <3> QED
      BY <2>1, <3>1 DEF Slots
  <2>3. entries[l] # NoBlock
    BY <1>15, <2>1 DEF Replace
  <2>4. num_entries' = [num_entries EXCEPT ![l] = num(l)] /\ max_entries' = max_entries
    BY <1>15 DEF Replace, HeapInv, HeapTyped
  <2>5. Write(l, a)
    BY <1>15 DEF Replace
  <2> HIDE DEF a
  <2> QED
    BY <2>1, <2>2, <2>3, <2>4, <2>5, WriteKeeps
<1>16. ASSUME NEW l \in Lists, NEW n \in Nat, NEW v \in Values, ReplaceBeyond(l, n, v)
       PROVE  HeapInv'
  <2> DEFINE size == n + 1
  <2>1. /\ num(l) \in Nat /\ max(l) \in Nat /\ num(l) <= max(l)
        /\ DOMAIN Array(l) = 0 .. max(l) - 1
        /\ v \in EntryValues /\ nullptr \in EntryValues
        /\ \A i \in 0 .. num(l) - 1 : Array(l)[i] \in EntryValues
        /\ max(l) > 0 => entries[l] # NoBlock
    BY ListFacts DEF EntryValues
  <2>2. /\ n >= num(l) /\ num_entries' = [num_entries EXCEPT ![l] = size]
        /\ max_entries' = [max_entries EXCEPT ![l] = size]
    BY <1>16 DEF ReplaceBeyond
  <2>3. ASSUME NEW g, DOMAIN g = 0 .. size - 1, \A i \in 0 .. num(l) - 1 : g[i] \in EntryValues
        PROVE  /\ DOMAIN Padded(g, num(l), n, v) = 0 .. size - 1
               /\ \A i \in 0 .. size - 1 : Padded(g, num(l), n, v)[i] \in EntryValues
    BY <2>1, <2>2, <2>3 DEF Padded
  <2>4. CASE size = max(l)
    <3> DEFINE a == Padded(Array(l), num(l), n, v)
    <3>1. DOMAIN a = 0 .. size - 1 /\ \A i \in 0 .. size - 1 : a[i] \in EntryValues
      BY <2>1, <2>3, <2>4
    <3>2. Write(l, a) /\ entries[l] # NoBlock
      BY <1>16, <2>1, <2>4 DEF ReplaceBeyond
    <3>3. max_entries' = max_entries
      BY <2>2, <2>4 DEF HeapInv, HeapTyped
    <3> HIDE DEF a
    <3>4. size \in Nat /\ size <= max(l) /\ DOMAIN a = Slots(l)
      BY <2>1, <2>4, <3>1 DEF Slots
    <3> HIDE DEF size
    <3> QED
      BY <2>2, <3>1, <3>2, <3>3, <3>4, WriteKeeps
  <2>5. CASE size # max(l)
    <3> DEFINE g == Resized(Array(l), size)
               a == Padded(g, num(l), n, v)
    <3>1. DOMAIN g = 0 .. size - 1 /\ \A i \in 0 .. num(l) - 1 : g[i] \in EntryValues
      <4>1. \A i \in 0 .. num(l) - 1 : i \in 0 .. size - 1 /\ i \in DOMAIN Array(l)
        BY <2>1, <2>2
      <4> QED
        BY <2>1, <4>1 DEF Resized
    <3>2. PICK b \in FreeBlocks \cup ({entries[l]} \ {NoBlock}) : Place(l, b, a)
      BY <1>16, <2>5 DEF ReplaceBeyond, Realloc
    <3> HIDE DEF g
    <3>3. DOMAIN a = 0 .. size - 1 /\ \A i \in 0 .. size - 1 : a[i] \in EntryValues
      BY <2>3, <3>1
    <3>4. size \in Nat /\ size <= size
      OBVIOUS
    <3> HIDE DEF a, size
    <3> QED
      BY <2>2, <3>2, <3>3, <3>4, PlaceKeeps
  <2> QED
    BY <2>4, <2>5
<1>17. ASSUME NEW l \in Lists, Sort(l) PROVE HeapInv'
  <2>1. /\ num(l) \in Nat /\ max(l) \in Nat /\ num(l) <= max(l)
        /\ DOMAIN Array(l) = 0 .. max(l) - 1
        /\ \A i \in 0 .. num(l) - 1 : Array(l)[i] \in EntryValues
    BY ListFacts
  <2>2. PICK p \in [0 .. num(l) - 1 -> 0 .. num(l) - 1] :
          Write(l, [i \in DOMAIN Array(l) |->
                      IF i < num(l) THEN Array(l)[p[i]] ELSE Array(l)[i]])
    BY <1>17 DEF Sort
  <2> DEFINE a == [i \in DOMAIN Array(l) |->
                     IF i < num(l) THEN Array(l)[p[i]] ELSE Array(l)[i]]
  <2>3. DOMAIN a = Slots(l) /\ \A i \in 0 .. num(l) - 1 : a[i] \in EntryValues
    BY <2>1 DEF Slots
  <2>4. /\ num_entries' = [num_entries EXCEPT ![l] = num(l)] /\ max_entries' = max_entries
        /\ entries[l] # NoBlock /\ Write(l, a)
    BY <1>17, <2>2 DEF Sort, HeapInv, HeapTyped
  <2> HIDE DEF a
  <2> QED
    BY <2>1, <2>3, <2>4, WriteKeeps
<1> HIDE DEF num, max
<1>18. \A l \in Used : l \in Lists /\ \A n \in Sizes(l) : n \in Nat
  <2>1. \A l \in Lists : \A n \in Sizes(l) : n \in Int /\ n >= 0
    BY DEF Sizes
  <2> QED
    BY <2>1 DEF Used
<1> QED
  BY <1>2, <1>3, <1>4, <1>5, <1>6, <1>7, <1>8, <1>9, <1>10, <1>11, <1>12, <1>13, <1>14,
     <1>15, <1>16, <1>17, <1>18 DEF Next

(* Whatever is constructed, copied, moved, grown, shrunk, sorted or        *)
(* replaced: each block of the C heap has one list, each list the slots it *)
(* counts, and what is in use has been written.                            *)
THEOREM ListsOwnBlocks == Spec => []BlocksOwned
<1>1. Spec => []HeapInv
  BY HeapInit, HeapStep, PTL DEF Spec
<1>2. HeapInv => BlocksOwned
  BY DEF HeapInv
<1> QED
  BY <1>1, <1>2, PTL

-----------------------------------------------------------------------------
(* What the calls of List make of the sequences *)

(* The first n slots of a as a sequence. *)
InUse(a, n) == [i \in 1 .. n |-> a[i - 1]]

LEMMA InUseIsSeq ==
  ASSUME NEW S, NEW n \in Nat, NEW a, \A i \in 0 .. n - 1 : a[i] \in S
  PROVE  /\ InUse(a, n) \in Seq(S) /\ Len(InUse(a, n)) = n
         /\ \A i \in 1 .. n : InUse(a, n)[i] = a[i - 1]
<1>1. \A i \in 1 .. n : i - 1 \in 0 .. n - 1
  OBVIOUS
<1>2. InUse(a, n) \in [1 .. n -> S]
  BY <1>1 DEF InUse
<1>3. InUse(a, n) \in Seq(S)
  BY <1>2, SeqDef
<1>4. Len(InUse(a, n)) = n
  BY <1>2, <1>3, LenProperties
<1> QED
  BY <1>3, <1>4 DEF InUse

LEMMA HeldIsSeq ==
  ASSUME HeapInv, NEW l \in Lists
  PROVE  /\ Held[l] = InUse(Array(l), num_entries[l])
         /\ Held[l] \in Seq(EntryValues) /\ Len(Held[l]) = num_entries[l]
         /\ \A i \in 1 .. num_entries[l] : Held[l][i] = Array(l)[i - 1]
<1>1. Held[l] = InUse(Array(l), num_entries[l])
  BY DEF Held, InUse
<1>2. num_entries[l] \in Nat /\ \A i \in 0 .. num_entries[l] - 1 : Array(l)[i] \in EntryValues
  BY ListFacts
<1> DEFINE a == Array(l)
           n == num_entries[l]
<1>3. n \in Nat /\ Held[l] = InUse(a, n) /\ \A i \in 0 .. n - 1 : a[i] \in EntryValues
  BY <1>1, <1>2
<1> HIDE DEF a, n
<1>4. /\ Held[l] \in Seq(EntryValues) /\ Len(Held[l]) = n
      /\ \A i \in 1 .. n : Held[l][i] = a[i - 1]
  BY <1>3, InUseIsSeq
<1> QED
  BY <1>1, <1>4 DEF a, n

(* The calls that move l to another block, *)
LEMMA PlaceHolds ==
  ASSUME HeapInv, NEW l \in Lists, NEW b \in FreeBlocks \cup ({entries[l]} \ {NoBlock}),
         NEW a, NEW n \in Nat, Place(l, b, a),
         num_entries' = [num_entries EXCEPT ![l] = n]
  PROVE  HeldBecomes(l, InUse(a, n))
<1>1. b # NoBlock
  BY ListAssumption DEF FreeBlocks, HeapInv, HeapTyped
<1>2. entries'[l] = b /\ num_entries'[l] = n /\ memory'[b] = a
  BY DEF Place, HeapInv, HeapTyped
<1>3. Held'[l] = InUse(a, n)
  BY <1>1, <1>2 DEF Held, Array, InUse
<1>4. ASSUME NEW k \in Lists, k # l PROVE Held'[k] = Held[k]
  <2>1. entries'[k] = entries[k] /\ num_entries'[k] = num_entries[k]
    BY <1>4 DEF Place, HeapInv, HeapTyped
  <2>2. entries[k] # b
    BY <1>1, <1>4 DEF HeapInv, BlocksOwned, FreeBlocks
  <2>3. entries[k] # NoBlock => memory'[entries[k]] = memory[entries[k]]
    BY <1>4, <2>2 DEF Place, HeapInv, BlocksOwned
  <2>4. Array(k)' = Array(k)
    BY <2>1, <2>3 DEF Array
  <2> QED
    BY <2>1, <2>4 DEF Held
<1> QED
  BY <1>3, <1>4 DEF HeldBecomes, Held

(* that leave l without a block, *)
LEMMA ReleaseHolds ==
  ASSUME HeapInv, NEW l \in Lists, Release(l),
         num_entries' = [num_entries EXCEPT ![l] = 0]
  PROVE  HeldBecomes(l, << >>)
<1>1. num_entries'[l] = 0
  BY DEF HeapInv, HeapTyped
<1>2. Held'[l] = << >>
  BY <1>1 DEF Held
<1>3. ASSUME NEW k \in Lists, k # l PROVE Held'[k] = Held[k]
  <2>1. entries'[k] = entries[k] /\ num_entries'[k] = num_entries[k]
    BY <1>3 DEF Release, HeapInv, HeapTyped
  <2>2. entries[k] # NoBlock => memory'[entries[k]] = memory[entries[k]]
    BY <1>3 DEF Release, HeapInv, BlocksOwned
  <2>3. Array(k)' = Array(k)
    BY <2>1, <2>2 DEF Array
  <2> QED
    BY <2>1, <2>3 DEF Held
<1> QED
  BY <1>2, <1>3 DEF HeldBecomes, Held

(* and that write to the block of l. *)
LEMMA WriteHolds ==
  ASSUME HeapInv, NEW l \in Lists, NEW a, NEW n \in Nat, entries[l] # NoBlock,
         Write(l, a), num_entries' = [num_entries EXCEPT ![l] = n]
  PROVE  HeldBecomes(l, InUse(a, n))
<1>1. entries[l] \in DOMAIN memory /\ entries[l] \in Blocks
  BY DEF HeapInv, HeapTyped, BlocksOwned
<1>2. /\ entries' = [entries EXCEPT ![l] = entries[l]]
      /\ memory' = [x \in (DOMAIN memory \ {entries[l]}) \cup {entries[l]} |->
                      IF x = entries[l] THEN a ELSE memory[x]]
  BY <1>1 DEF Write, HeapInv, HeapTyped
<1>3. Place(l, entries[l], a)
  BY <1>2 DEF Place
<1> QED
  BY <1>3, PlaceHolds

-----------------------------------------------------------------------------
(* Sequences *)

LEMMA Parts ==
  ASSUME NEW S, NEW s \in Seq(S), NEW m \in 0 .. Len(s)
  PROVE  /\ SubSeq(s, 1, m) \in Seq(S) /\ Len(SubSeq(s, 1, m)) = m
         /\ \A i \in 1 .. m : SubSeq(s, 1, m)[i] = s[i]
         /\ SubSeq(s, m + 1, Len(s)) \in Seq(S)
         /\ Len(SubSeq(s, m + 1, Len(s))) = Len(s) - m
         /\ \A i \in 1 .. Len(s) - m : SubSeq(s, m + 1, Len(s))[i] = s[m + i]
<1>1. Len(s) \in Nat
  OBVIOUS
<1>2. /\ SubSeq(s, 1, m) \in Seq(S) /\ Len(SubSeq(s, 1, m)) = m
      /\ \A i \in 1 .. m : SubSeq(s, 1, m)[i] = s[i]
  OBVIOUS
<1>3. /\ SubSeq(s, m + 1, Len(s)) \in Seq(S)
      /\ Len(SubSeq(s, m + 1, Len(s))) = Len(s) - m
      /\ \A i \in 1 .. Len(s) - m : SubSeq(s, m + 1, Len(s))[i] = s[m + i]
  BY <1>1
<1> QED
  BY <1>2, <1>3

LEMMA Join ==
  ASSUME NEW S, NEW s \in Seq(S), NEW t \in Seq(S)
  PROVE  /\ s \o t \in Seq(S) /\ Len(s \o t) = Len(s) + Len(t)
         /\ \A i \in 1 .. Len(s) : (s \o t)[i] = s[i]
         /\ \A i \in 1 .. Len(t) : (s \o t)[Len(s) + i] = t[i]
         /\ \A i \in Len(s) + 1 .. Len(s) + Len(t) : (s \o t)[i] = t[i - Len(s)]
  OBVIOUS

LEMMA SameSeq ==
  ASSUME NEW S, NEW s \in Seq(S), NEW t \in Seq(S), Len(s) = Len(t),
         \A i \in 1 .. Len(s) : s[i] = t[i]
  PROVE  s = t
  BY SeqEqual

(* A sequence with v put in after the first m. *)
PutIn(s, m, v) == SubSeq(s, 1, m) \o << v >> \o SubSeq(s, m + 1, Len(s))

LEMMA PutInParts ==
  ASSUME NEW S, NEW s \in Seq(S), NEW v \in S, NEW m \in 0 .. Len(s)
  PROVE  /\ PutIn(s, m, v) \in Seq(S) /\ Len(PutIn(s, m, v)) = Len(s) + 1
         /\ \A i \in 1 .. m : PutIn(s, m, v)[i] = s[i]
         /\ PutIn(s, m, v)[m + 1] = v
         /\ \A i \in m + 2 .. Len(s) + 1 : PutIn(s, m, v)[i] = s[i - 1]
<1> DEFINE a == SubSeq(s, 1, m)
           c == a \o << v >>
           b == SubSeq(s, m + 1, Len(s))
<1>1. /\ a \in Seq(S) /\ Len(a) = m /\ \A i \in 1 .. m : a[i] = s[i]
      /\ b \in Seq(S) /\ Len(b) = Len(s) - m /\ \A i \in 1 .. Len(s) - m : b[i] = s[m + i]
  BY Parts
<1>2. Len(s) \in Nat /\ m \in Nat /\ << v >> \in Seq(S) /\ Len(<< v >>) = 1 /\ << v >>[1] = v
  OBVIOUS
<1> HIDE DEF a, b
<1>3. /\ c \in Seq(S) /\ Len(c) = m + 1 /\ \A i \in 1 .. m : c[i] = s[i]
      /\ c[m + 1] = v
  BY <1>1, <1>2, Join
<1> HIDE DEF c
<1>4. /\ c \o b \in Seq(S) /\ Len(c \o b) = (m + 1) + (Len(s) - m)
      /\ \A i \in 1 .. m + 1 : (c \o b)[i] = c[i]
      /\ \A i \in (m + 1) + 1 .. (m + 1) + (Len(s) - m) : (c \o b)[i] = b[i - (m + 1)]
  <2> c \in Seq(S) /\ b \in Seq(S)
    BY <1>1, <1>3
  <2>1. /\ c \o b \in Seq(S) /\ Len(c \o b) = Len(c) + Len(b)
        /\ \A i \in 1 .. Len(c) : (c \o b)[i] = c[i]
        /\ \A i \in Len(c) + 1 .. Len(c) + Len(b) : (c \o b)[i] = b[i - Len(c)]
    BY Join, SMTT(30)
  <2>2. Len(c) = m + 1 /\ Len(b) = Len(s) - m
    BY <1>1, <1>3
  <2> QED
    BY <2>1, <2>2, Zenon
<1> DEFINE u == PutIn(s, m, v)
<1>u. u = c \o b
  BY DEF PutIn, a, b, c
<1> HIDE DEF u
<1>5. u \in Seq(S) /\ Len(u) = Len(s) + 1
  <2>1. (m + 1) + (Len(s) - m) = Len(s) + 1
    BY <1>2
  <2> QED
    BY <2>1, <1>4, <1>u
<1>6. \A i \in 1 .. m : u[i] = s[i]
  <2>1. \A i \in 1 .. m : i \in 1 .. m + 1
    BY <1>2
  <2> QED
    BY <2>1, <1>3, <1>4, <1>u
<1>7. u[m + 1] = v
  <2>1. m + 1 \in 1 .. m + 1
    BY <1>2
  <2> QED
    BY <2>1, <1>3, <1>4, <1>u
<1>8. ASSUME NEW i \in m + 2 .. Len(s) + 1 PROVE u[i] = s[i - 1]
  <2>1. /\ i \in (m + 1) + 1 .. (m + 1) + (Len(s) - m)
        /\ i - (m + 1) \in 1 .. Len(s) - m /\ m + (i - (m + 1)) = i - 1
    BY <1>2
  <2>2. b[i - (m + 1)] = s[m + (i - (m + 1))]
    BY <2>1, <1>1
  <2> QED
    BY <2>1, <2>2, <1>4, <1>u
<1> QED
  BY <1>5, <1>6, <1>7, <1>8 DEF u

LEMMA PutInIs ==
  ASSUME NEW S, NEW s \in Seq(S), NEW t \in Seq(S), NEW v \in S, NEW m \in 0 .. Len(s),
         Len(t) = Len(s) + 1, \A i \in 1 .. m : t[i] = s[i], t[m + 1] = v,
         \A i \in m + 2 .. Len(s) + 1 : t[i] = s[i - 1]
  PROVE  t = PutIn(s, m, v)
<1> DEFINE u == PutIn(s, m, v)
<1>1. /\ u \in Seq(S) /\ Len(u) = Len(s) + 1
      /\ \A i \in 1 .. m : u[i] = s[i]
      /\ u[m + 1] = v
      /\ \A i \in m + 2 .. Len(s) + 1 : u[i] = s[i - 1]
  <2>1. u \in Seq(S)
    BY PutInParts
  <2>2. Len(u) = Len(s) + 1
    BY PutInParts
  <2>3. \A i \in 1 .. m : u[i] = s[i]
    BY PutInParts
  <2>4. u[m + 1] = v
    BY PutInParts
  <2>5. \A i \in m + 2 .. Len(s) + 1 : u[i] = s[i - 1]
    BY PutInParts
  <2> QED
    BY <2>1, <2>2, <2>3, <2>4, <2>5
<1> HIDE DEF u
<1>2. \A i \in 1 .. Len(t) : i \in 1 .. m \/ i = m + 1 \/ i \in m + 2 .. Len(s) + 1
  OBVIOUS
<1>3. \A i \in 1 .. Len(t) : t[i] = u[i]
  BY <1>1, <1>2
<1>4. t = u
  BY <1>1, <1>3, SameSeq
<1> QED
  BY <1>4 DEF u

LEMMA AtFront ==
  ASSUME NEW S, NEW s \in Seq(S), NEW v \in S
  PROVE  PutIn(s, 0, v) = << v >> \o s
<1> DEFINE t == << v >> \o s
<1>1. Len(s) \in Nat /\ << v >> \in Seq(S) /\ Len(<< v >>) = 1 /\ << v >>[1] = v
  OBVIOUS
<1>2. /\ t \in Seq(S) /\ Len(t) = 1 + Len(s) /\ t[1] = v
      /\ \A i \in 1 + 1 .. 1 + Len(s) : t[i] = s[i - 1]
  BY <1>1, Join
<1> HIDE DEF t
<1>3. /\ 0 \in 0 .. Len(s) /\ Len(t) = Len(s) + 1 /\ t[0 + 1] = v
      /\ \A i \in 1 .. 0 : t[i] = s[i]
      /\ \A i \in 0 + 2 .. Len(s) + 1 : t[i] = s[i - 1]
  BY <1>1, <1>2
<1>4. t = PutIn(s, 0, v)
  BY <1>2, <1>3, PutInIs
<1> QED
  BY <1>4 DEF t

LEMMA AtBack ==
  ASSUME NEW S, NEW s \in Seq(S), NEW v \in S
  PROVE  PutIn(s, Len(s), v) = Append(s, v)
<1> DEFINE t == Append(s, v)
           m == Len(s)
<1>1. /\ t \in Seq(S) /\ Len(t) = m + 1 /\ t[m + 1] = v /\ m \in Nat
      /\ \A i \in 1 .. m : t[i] = s[i]
  OBVIOUS
<1>2. m \in 0 .. m /\ \A i \in m + 2 .. m + 1 : t[i] = s[i - 1]
  BY <1>1
<1> HIDE DEF t
<1>3. t = PutIn(s, m, v)
  BY <1>1, <1>2, PutInIs
<1> QED
  BY <1>3 DEF t

(* A sequence with entry m + 1 taken out. *)
LEMMA RemovedSeq ==
  ASSUME NEW S, NEW s \in Seq(S), NEW t \in Seq(S), NEW m \in 0 .. Len(s) - 1,
         Len(t) = Len(s) - 1, \A i \in 1 .. m : t[i] = s[i],
         \A i \in m + 1 .. Len(s) - 1 : t[i] = s[i + 1]
  PROVE  t = Without(s, m + 1)
<1> DEFINE a == SubSeq(s, 1, m)
           b == SubSeq(s, (m + 1) + 1, Len(s))
<1>1. Len(s) \in Nat /\ m \in 0 .. Len(s) /\ m + 1 \in 0 .. Len(s) /\ (m + 1) - 1 = m
  OBVIOUS
<1>2. /\ a \in Seq(S) /\ Len(a) = m /\ \A i \in 1 .. m : a[i] = s[i]
  BY <1>1, Parts
<1>3. /\ b \in Seq(S) /\ Len(b) = Len(s) - (m + 1)
      /\ \A i \in 1 .. Len(s) - (m + 1) : b[i] = s[(m + 1) + i]
  BY <1>1, Parts
<1>4. Without(s, m + 1) = a \o b
  BY <1>1 DEF Without
<1> HIDE DEF a, b
<1>5. /\ a \o b \in Seq(S) /\ Len(a \o b) = m + (Len(s) - (m + 1))
      /\ \A i \in 1 .. m : (a \o b)[i] = a[i]
      /\ \A i \in m + 1 .. m + (Len(s) - (m + 1)) : (a \o b)[i] = b[i - m]
  <2> a \in Seq(S) /\ b \in Seq(S)
    BY <1>2, <1>3
  <2>1. /\ a \o b \in Seq(S) /\ Len(a \o b) = Len(a) + Len(b)
        /\ \A i \in 1 .. Len(a) : (a \o b)[i] = a[i]
        /\ \A i \in Len(a) + 1 .. Len(a) + Len(b) : (a \o b)[i] = b[i - Len(a)]
    BY Join, SMTT(30)
  <2>2. Len(a) = m /\ Len(b) = Len(s) - (m + 1)
    BY <1>2, <1>3
  <2> QED
    BY <2>1, <2>2, Zenon
<1>6. Len(a \o b) = Len(t)
  BY <1>1, <1>5
<1>7. ASSUME NEW i \in 1 .. Len(t) PROVE t[i] = (a \o b)[i]
  <2>1. CASE i <= m
    <3>1. i \in 1 .. m
      BY <2>1, <1>1
    <3> QED
      BY <3>1, <1>2, <1>5
  <2>2. CASE i > m
    <3>1. /\ i \in m + 1 .. Len(s) - 1 /\ i \in m + 1 .. m + (Len(s) - (m + 1))
          /\ i - m \in 1 .. Len(s) - (m + 1) /\ (m + 1) + (i - m) = i + 1
      BY <2>2, <1>1
    <3>2. b[i - m] = s[(m + 1) + (i - m)]
      BY <3>1, <1>3
    <3> QED
      BY <3>1, <3>2, <1>5
  <2>3. i <= m \/ i > m
    BY <1>1
  <2> QED
    BY <2>1, <2>2, <2>3
<1> QED
  BY <1>4, <1>5, <1>6, <1>7, SameSeq
-----------------------------------------------------------------------------
(* The calls *)

LEMMA HeldAfter ==
  ASSUME NEW l \in Lists, NEW t, HeldBecomes(l, t)
  PROVE  Held[l]' = t
  BY DEF HeldBecomes, Held

(* insert, push_back and sortedinsert put v after the first n entries. *)
LEMMA AddHolds ==
  ASSUME HeapInv, NEW l \in Lists, NEW n \in 0 .. num_entries[l], NEW v \in Values, Add(l, n, v)
  PROVE  HeldBecomes(l, PutIn(Held[l], n, v))
<1> DEFINE num == num_entries[l]
           a == Array(l)
           s == Held[l]
<1>1. /\ num \in Nat /\ max_entries[l] \in Nat /\ num <= max_entries[l]
      /\ DOMAIN a = 0 .. max_entries[l] - 1
      /\ \A i \in 0 .. num - 1 : a[i] \in EntryValues
      /\ max_entries[l] > 0 => entries[l] # NoBlock
  BY ListFacts
<1>2. s \in Seq(EntryValues) /\ Len(s) = num /\ \A i \in 1 .. num : s[i] = a[i - 1]
  BY HeldIsSeq
<1>3. num_entries' = [num_entries EXCEPT ![l] = num + 1] /\ num + 1 \in Nat /\ v \in EntryValues
  BY <1>1 DEF Add, EntryValues
<1>4. ASSUME NEW g, \A i \in 0 .. num - 1 : g[i] = a[i], \A i \in 0 .. num : i \in DOMAIN g
      PROVE  InUse(Inserted(g, n, num, v), num + 1) = PutIn(s, n, v)
  <2> DEFINE h == Inserted(g, n, num, v)
             t == InUse(h, num + 1)
  <2>1. /\ \A i \in 0 .. n - 1 : h[i] = a[i]
        /\ h[n] = v
        /\ \A i \in n + 1 .. num : h[i] = a[i - 1]
    BY <1>1, <1>4 DEF Inserted
  <2>2. \A i \in 0 .. (num + 1) - 1 : h[i] \in EntryValues
    <3>1. \A i \in 0 .. (num + 1) - 1 :
            i \in 0 .. n - 1 \/ i = n \/ (i \in n + 1 .. num /\ i - 1 \in 0 .. num - 1)
      BY <1>1
    <3>2. \A i \in 0 .. n - 1 : i \in 0 .. num - 1
      BY <1>1
    <3> HIDE DEF h
    <3> QED
      BY <3>1, <3>2, <2>1, <1>1, <1>3
  <2> HIDE DEF h
  <2>3. /\ t \in Seq(EntryValues) /\ Len(t) = num + 1
        /\ \A i \in 1 .. num + 1 : t[i] = h[i - 1]
    <3> DEFINE k == num + 1
    <3>1. k \in Nat /\ t = InUse(h, k) /\ \A i \in 0 .. k - 1 : h[i] \in EntryValues
      BY <2>2, <1>3
    <3> HIDE DEF k, t
    <3>2. t \in Seq(EntryValues) /\ Len(t) = k
      BY <3>1, InUseIsSeq
    <3>3. \A i \in 1 .. k : t[i] = h[i - 1]
      BY <3>1 DEF InUse
    <3> QED
      BY <3>2, <3>3 DEF k
  <2> HIDE DEF t
  <2>4. n \in 0 .. Len(s) /\ Len(t) = Len(s) + 1
    BY <1>2, <2>3
  <2>5. \A i \in 1 .. n : t[i] = s[i]
    <3>1. \A i \in 1 .. n : i \in 1 .. num + 1 /\ i \in 1 .. num /\ i - 1 \in 0 .. n - 1
      BY <1>1
    <3> QED
      BY <3>1, <2>1, <2>3, <1>2
  <2>6. t[n + 1] = v
    <3>1. n + 1 \in 1 .. num + 1 /\ (n + 1) - 1 = n
      BY <1>1
    <3> QED
      BY <3>1, <2>1, <2>3
  <2>7. \A i \in n + 2 .. Len(s) + 1 : t[i] = s[i - 1]
    <3>1. \A i \in n + 2 .. num + 1 :
            i \in 1 .. num + 1 /\ i - 1 \in 1 .. num /\ i - 1 \in n + 1 .. num
      BY <1>1
    <3> QED
      BY <3>1, <2>1, <2>3, <1>2
  <2>8. t = PutIn(s, n, v)
    <3> DEFINE u == PutIn(s, n, v)
    <3> t \in Seq(EntryValues) /\ s \in Seq(EntryValues) /\ v \in EntryValues
        /\ n \in 0 .. Len(s)
      BY <2>3, <2>4, <1>2, <1>3
    <3> HIDE DEF s, num
    <3>1. u \in Seq(EntryValues) /\ Len(u) = Len(s) + 1
      BY PutInParts
    <3>2. \A i \in 1 .. n : u[i] = s[i]
      BY PutInParts
    <3>3. u[n + 1] = v
      BY PutInParts
    <3>4. \A i \in n + 2 .. Len(s) + 1 : u[i] = s[i - 1]
      BY PutInParts
    <3>5. Len(t) = Len(u)
      BY <3>1, <2>4
    <3> HIDE DEF u
    <3>6. ASSUME NEW i \in 1 .. Len(t) PROVE t[i] = u[i]
      <4>1. i \in 1 .. n \/ i = n + 1 \/ i \in n + 2 .. Len(s) + 1
        BY <2>4
      <4> QED
        BY <4>1, <3>2, <3>3, <3>4, <2>5, <2>6, <2>7
    <3>7. t = u
      BY <3>1, <3>5, <3>6, SameSeq
    <3> QED
      BY <3>7 DEF u
  <2> QED
    BY <2>8 DEF t, h
<1>5. CASE num = max_entries[l]
  <2> DEFINE g == Resized(a, GrownSize(l))
  <2>1. GrownSize(l) \in Nat /\ num + 1 <= GrownSize(l)
    BY <1>5, GrowsEnough
  <2>2. /\ \A i \in 0 .. num - 1 : g[i] = a[i]
        /\ \A i \in 0 .. num : i \in DOMAIN g
    <3>1. /\ \A i \in 0 .. num : i \in 0 .. GrownSize(l) - 1
          /\ \A i \in 0 .. num - 1 : i \in 0 .. GrownSize(l) - 1 /\ i \in DOMAIN a
      BY <1>1, <2>1
    <3> QED
      BY <3>1 DEF Resized
  <2>3. PICK b \in FreeBlocks \cup ({entries[l]} \ {NoBlock}) :
          Place(l, b, Inserted(g, n, num, v))
    BY <1>5 DEF Add, Realloc
  <2> HIDE DEF g
  <2>4. HeldBecomes(l, InUse(Inserted(g, n, num, v), num + 1))
    BY <2>3, <1>3, PlaceHolds
  <2> QED
    BY <2>2, <2>4, <1>4
<1>6. CASE num # max_entries[l]
  <2>1. num < max_entries[l] /\ entries[l] # NoBlock
    BY <1>1, <1>6
  <2>2. Write(l, Inserted(a, n, num, v))
    BY <1>6 DEF Add
  <2>3. HeldBecomes(l, InUse(Inserted(a, n, num, v), num + 1))
    BY <2>1, <2>2, <1>3, WriteHolds
  <2>4. \A i \in 0 .. num : i \in DOMAIN a
    BY <1>1, <2>1
  <2> QED
    BY <2>3, <2>4, <1>4
<1> QED
  BY <1>5, <1>6

LEMMA InsertHolds ==
  ASSUME HeapInv, NEW l \in Lists, NEW v \in Values
  PROVE  /\ Insert(l, v) => HeldBecomes(l, << v >> \o Held[l])
         /\ PushBack(l, v) => HeldBecomes(l, Append(Held[l], v))
<1> DEFINE s == Held[l]
<1>1. s \in Seq(EntryValues) /\ Len(s) = num_entries[l] /\ v \in EntryValues
  BY HeldIsSeq DEF EntryValues
<1>2. num_entries[l] \in Nat
  BY ListFacts
<1>3. ASSUME Insert(l, v) PROVE HeldBecomes(l, << v >> \o s)
  <2>1. 0 \in 0 .. num_entries[l] /\ Add(l, 0, v)
    BY <1>2, <1>3 DEF Insert
  <2>2. HeldBecomes(l, PutIn(s, 0, v))
    BY <2>1, AddHolds
  <2> HIDE DEF s
  <2> QED
    BY <2>2, <1>1, AtFront
<1>4. ASSUME PushBack(l, v) PROVE HeldBecomes(l, Append(s, v))
  <2>1. num_entries[l] \in 0 .. num_entries[l] /\ Add(l, num_entries[l], v)
    BY <1>2, <1>4 DEF PushBack
  <2>2. HeldBecomes(l, PutIn(s, num_entries[l], v))
    BY <2>1, AddHolds
  <2>3. HeldBecomes(l, PutIn(s, Len(s), v))
    BY <2>2, <1>1
  <2> HIDE DEF s
  <2> QED
    BY <2>3, <1>1, AtBack
<1> QED
  BY <1>3, <1>4

(* sortedinsert puts v in where its loop stops. *)
LEMMA SortedInsertHolds ==
  ASSUME HeapInv, NEW l \in Lists, NEW v \in Values, SortedInsert(l, v)
  PROVE  \E n \in 0 .. Len(Held[l]) :
           HeldBecomes(l, SubSeq(Held[l], 1, n) \o << v >>
                            \o SubSeq(Held[l], n + 1, Len(Held[l])))
<1> DEFINE s == Held[l]
           a == Array(l)
           num == num_entries[l]
           n == SortedSlot(a, num, v)
<1>1. Len(s) = num /\ v \in Int
  BY HeldIsSeq, EntriesNotJunk DEF EntryValues
<1>2. num \in Nat /\ \A i \in 0 .. num - 1 : a[i] \in Int
  BY ListFacts, EntriesNotJunk
<1>3. n \in 0 .. num
  <2> v \in Int
    BY <1>1
  <2>1. num \in Nat /\ \A i \in 0 .. num - 1 : a[i] \in Int
    BY <1>2
  <2> HIDE DEF a, num
  <2> QED
    BY <2>1, SortedSlotStops
<1>4. HeldBecomes(l, PutIn(s, n, v))
  BY <1>3, AddHolds DEF SortedInsert
<1> HIDE DEF n
<1>5. n \in 0 .. Len(s)
  BY <1>1, <1>3
<1> QED
  BY <1>4, <1>5 DEF PutIn

(* remove_nth and remove take out entry n. *)
LEMMA RemovedHolds ==
  ASSUME HeapInv, NEW l \in Lists, NEW n \in 0 .. num_entries[l] - 1,
         Write(l, Removed(Array(l), n, num_entries[l])),
         num_entries' = [num_entries EXCEPT ![l] = @ - 1]
  PROVE  HeldBecomes(l, Without(Held[l], n + 1))
<1> DEFINE num == num_entries[l]
           a == Array(l)
           s == Held[l]
           h == Removed(a, n, num)
           t == InUse(h, num - 1)
<1>1. /\ num \in Nat /\ max_entries[l] \in Nat /\ num <= max_entries[l]
      /\ DOMAIN a = 0 .. max_entries[l] - 1
      /\ \A i \in 0 .. num - 1 : a[i] \in EntryValues
      /\ max_entries[l] > 0 => entries[l] # NoBlock
  BY ListFacts
<1>2. s \in Seq(EntryValues) /\ Len(s) = num /\ \A i \in 1 .. num : s[i] = a[i - 1]
  BY HeldIsSeq
<1>3. num - 1 \in Nat /\ n \in Nat /\ n < num /\ entries[l] # NoBlock
  BY <1>1
<1>4. num_entries' = [num_entries EXCEPT ![l] = num - 1]
  OBVIOUS
<1>5. HeldBecomes(l, t)
  BY <1>3, <1>4, WriteHolds
<1>6. /\ \A i \in 0 .. n - 1 : h[i] = a[i]
      /\ \A i \in n .. num - 2 : h[i] = a[i + 1]
  BY <1>1, <1>3 DEF Removed
<1>7. \A i \in 0 .. (num - 1) - 1 : h[i] \in EntryValues
  <2>1. \A i \in 0 .. (num - 1) - 1 :
          \/ i \in 0 .. n - 1 /\ i \in 0 .. num - 1
          \/ i \in n .. num - 2 /\ i + 1 \in 0 .. num - 1
    BY <1>1, <1>3
  <2> HIDE DEF h
  <2> QED
    BY <2>1, <1>1, <1>6
<1> HIDE DEF h
<1>8. t \in Seq(EntryValues) /\ Len(t) = num - 1
  <2> DEFINE k == num - 1
  <2>1. k \in Nat /\ t = InUse(h, k) /\ \A i \in 0 .. k - 1 : h[i] \in EntryValues
    BY <1>3, <1>7
  <2> HIDE DEF k, t
  <2>2. t \in Seq(EntryValues) /\ Len(t) = k
    BY <2>1, InUseIsSeq
  <2> QED
    BY <2>2 DEF k
<1>9. \A i \in 1 .. num - 1 : t[i] = h[i - 1]
  BY DEF InUse
<1> HIDE DEF t
<1>10. \A i \in 1 .. n : t[i] = s[i]
  <2>1. \A i \in 1 .. n : i \in 1 .. num - 1 /\ i \in 1 .. num /\ i - 1 \in 0 .. n - 1
    BY <1>1, <1>3
  <2> QED
    BY <2>1, <1>2, <1>6, <1>9
<1>11. \A i \in n + 1 .. Len(s) - 1 : t[i] = s[i + 1]
  <2>1. \A i \in n + 1 .. num - 1 :
          /\ i \in 1 .. num - 1 /\ i + 1 \in 1 .. num /\ i - 1 \in n .. num - 2
          /\ (i - 1) + 1 = i /\ (i + 1) - 1 = i
    BY <1>1, <1>3
  <2>2. \A i \in n + 1 .. num - 1 : t[i] = a[i] /\ s[i + 1] = a[i]
    BY <2>1, <1>2, <1>6, <1>9
  <2> QED
    BY <2>2, <1>2
<1>12. t = Without(s, n + 1)
  <2>1. t \in Seq(EntryValues) /\ s \in Seq(EntryValues) /\ n \in 0 .. Len(s) - 1 /\ Len(t) = Len(s) - 1
    BY <1>2, <1>8
  <2> HIDE DEF s, num
  <2> QED
    BY <2>1, <1>10, <1>11, RemovedSeq, SMTT(60)
<1> QED
  BY <1>5, <1>12

LEMMA RemoveHolds ==
  ASSUME HeapInv, NEW l \in Lists, NEW v \in Values, Remove(l, v)
  PROVE  HeldBecomes(l, Without(Held[l], member_pos(l, v) + 1))
<1> DEFINE at == {i \in 0 .. num_entries[l] - 1 : Array(l)[i] = v}
<1>1. at # {}
  BY DEF Remove, member_pos
<1>2. at \in SUBSET Nat
  BY ListFacts
<1>3. PICK n \in at : \A m \in at : n <= m
  BY <1>1, <1>2, LeastNatural
<1>4. member_pos(l, v) = CHOOSE i \in at : \A j \in at : i <= j
  BY <1>1 DEF member_pos
<1>5. member_pos(l, v) \in 0 .. num_entries[l] - 1
  BY <1>3, <1>4
<1> QED
  BY <1>5, RemovedHolds DEF Remove

LEMMA RemoveNthHolds ==
  ASSUME HeapInv, NEW l \in Lists, NEW n, RemoveNth(l, n)
  PROVE  ret' = Held[l][n + 1] /\ HeldBecomes(l, Without(Held[l], n + 1))
<1>1. n \in 0 .. num_entries[l] - 1 /\ num_entries[l] \in Nat
  BY ListFacts DEF RemoveNth
<1>2. n + 1 \in 1 .. num_entries[l] /\ (n + 1) - 1 = n
  BY <1>1
<1>3. Held[l][n + 1] = Array(l)[n]
  BY <1>2, HeldIsSeq
<1> QED
  BY <1>1, <1>3, RemovedHolds DEF RemoveNth

LEMMA GetHolds ==
  ASSUME HeapInv, NEW l \in Lists, Get(l)
  PROVE  ret' = Held[l][Len(Held[l])] /\ HeldBecomes(l, SubSeq(Held[l], 1, Len(Held[l]) - 1))
<1> DEFINE num == num_entries[l]
           s == Held[l]
           t == SubSeq(s, 1, num - 1)
<1>1. num \in Nat /\ num > 0
  BY ListFacts DEF Get
<1>2. s \in Seq(EntryValues) /\ Len(s) = num /\ \A i \in 1 .. num : s[i] = Array(l)[i - 1]
  BY HeldIsSeq
<1>3. ret' = s[Len(s)]
  <2>1. num \in 1 .. num
    BY <1>1
  <2> QED
    BY <2>1, <1>2 DEF Get
<1>4. /\ \A k \in Lists : Array(k)' = Array(k)
      /\ num_entries' = [num_entries EXCEPT ![l] = num - 1]
  BY DEF Get, Array
<1>5. ASSUME NEW k \in Lists, k # l PROVE Held'[k] = Held[k]
  <2>1. num_entries'[k] = num_entries[k]
    BY <1>4, <1>5 DEF HeapInv, HeapTyped
  <2> QED
    BY <2>1, <1>4 DEF Held
<1>6. Held'[l] = InUse(Array(l), num - 1)
  <2>1. num_entries'[l] = num - 1
    BY <1>4 DEF HeapInv, HeapTyped
  <2> QED
    BY <2>1, <1>4 DEF Held, InUse
<1>7. InUse(Array(l), num - 1) = t
  <2> DEFINE k == num - 1
             a == Array(l)
             u == InUse(a, k)
  <2>1. k \in Nat /\ k \in 0 .. Len(s) /\ \A i \in 0 .. k - 1 : a[i] \in EntryValues
    <3>1. \A i \in 0 .. k - 1 : i \in 0 .. num - 1
      BY <1>1
    <3>2. \A i \in 0 .. num - 1 : Array(l)[i] \in EntryValues
      BY ListFacts
    <3> QED
      BY <3>1, <3>2, <1>1, <1>2
  <2>2. \A i \in 1 .. k : s[i] = a[i - 1]
    BY <1>1, <1>2
  <2>3. t = SubSeq(s, 1, k)
    OBVIOUS
  <2> HIDE DEF a, k, t, s
  <2>4. u \in Seq(EntryValues) /\ Len(u) = k
    BY <2>1, InUseIsSeq
  <2>5. \A i \in 1 .. k : u[i] = a[i - 1]
    BY DEF InUse
  <2> HIDE DEF u
  <2>6. t \in Seq(EntryValues) /\ Len(t) = k
    BY <2>1, <2>3, <1>2, Parts
  <2>7. \A i \in 1 .. k : t[i] = s[i]
    BY <2>1, <2>3, <1>2, Parts
  <2>8. u = t
    BY <2>2, <2>4, <2>5, <2>6, <2>7, SameSeq
  <2> QED
    BY <2>8 DEF u, a, k
<1>8. HeldBecomes(l, t)
  BY <1>5, <1>6, <1>7 DEF HeldBecomes, Held
<1> QED
  BY <1>2, <1>3, <1>8

LEMMA ReplaceHolds ==
  ASSUME HeapInv, NEW l \in Lists, NEW n, NEW v \in Values, Replace(l, n, v)
  PROVE  ret' = Held[l][n + 1] /\ HeldBecomes(l, [Held[l] EXCEPT ![n + 1] = v])
<1> DEFINE num == num_entries[l]
           a == Array(l)
           s == Held[l]
           h == [a EXCEPT ![n] = v]
<1>1. /\ num \in Nat /\ max_entries[l] \in Nat /\ num <= max_entries[l]
      /\ DOMAIN a = 0 .. max_entries[l] - 1
      /\ max_entries[l] > 0 => entries[l] # NoBlock
  BY ListFacts
<1>2. n \in 0 .. num - 1 /\ Write(l, h) /\ ret' = a[n] /\ num_entries' = num_entries
  BY DEF Replace
<1>3. n + 1 \in 1 .. num /\ (n + 1) - 1 = n /\ entries[l] # NoBlock
  BY <1>1, <1>2
<1>4. s = InUse(a, num) /\ s[n + 1] = a[n]
  BY <1>3, HeldIsSeq
<1>5. num_entries' = [num_entries EXCEPT ![l] = num]
  BY <1>2 DEF HeapInv, HeapTyped
<1>6. HeldBecomes(l, InUse(h, num))
  BY <1>1, <1>2, <1>3, <1>5, WriteHolds
<1>7. InUse(h, num) = [InUse(a, num) EXCEPT ![n + 1] = v]
  <2>1. \A i \in 1 .. num : i - 1 \in DOMAIN a /\ (i - 1 = n <=> i = n + 1)
    BY <1>1, <1>2
  <2>2. \A i \in 1 .. num : h[i - 1] = IF i = n + 1 THEN v ELSE a[i - 1]
    BY <2>1
  <2> HIDE DEF h
  <2> QED
    BY <2>2 DEF InUse
<1> QED
  BY <1>2, <1>4, <1>6, <1>7

(* Replacement beyond the end fills up to the index with null. *)
LEMMA ReplaceBeyondHolds ==
  ASSUME HeapInv, NEW l \in Lists, NEW n \in Nat, NEW v \in Values, ReplaceBeyond(l, n, v)
  PROVE  HeldBecomes(l, Held[l] \o Nulls(n - Len(Held[l])) \o << v >>)
<1> DEFINE num == num_entries[l]
           a == Array(l)
           s == Held[l]
           size == n + 1
           z == Nulls(n - num)
           c == s \o z
           u == c \o << v >>
<1>1. /\ num \in Nat /\ max_entries[l] \in Nat /\ num <= max_entries[l]
      /\ DOMAIN a = 0 .. max_entries[l] - 1
      /\ max_entries[l] > 0 => entries[l] # NoBlock
      /\ \A i \in 0 .. num - 1 : a[i] \in EntryValues
  BY ListFacts
<1>2. s \in Seq(EntryValues) /\ Len(s) = num /\ \A i \in 1 .. num : s[i] = a[i - 1]
  BY HeldIsSeq
<1>3. /\ n >= num /\ num_entries' = [num_entries EXCEPT ![l] = size]
      /\ size \in Nat /\ n - num \in Nat
  BY <1>1 DEF ReplaceBeyond
<1>4. v \in EntryValues /\ nullptr \in EntryValues
  BY DEF EntryValues
<1>5. z \in Seq(EntryValues) /\ Len(z) = n - num /\ \A i \in 1 .. n - num : z[i] = nullptr
  <2> DEFINE k == n - num
  <2>1. k \in Nat /\ z \in [1 .. k -> EntryValues]
    BY <1>3, <1>4 DEF Nulls
  <2>2. z \in Seq(EntryValues)
    BY <2>1, SeqDef
  <2>3. Len(z) = k
    BY <2>1, <2>2, LenProperties
  <2> QED
    BY <2>2, <2>3 DEF Nulls
<1> HIDE DEF z
<1>6. /\ u \in Seq(EntryValues) /\ Len(u) = size
      /\ \A i \in 1 .. num : u[i] = s[i]
      /\ \A i \in num + 1 .. n : u[i] = nullptr
      /\ u[size] = v
  <2> s \in Seq(EntryValues) /\ z \in Seq(EntryValues) /\ num \in Nat
    BY <1>1, <1>2, <1>5
  <2>1. c \in Seq(EntryValues) /\ Len(c) = n
    <3>1. c \in Seq(EntryValues) /\ Len(c) = Len(s) + Len(z)
      BY Join
    <3>2. Len(s) + Len(z) = n
      BY <1>2, <1>3, <1>5
    <3> QED
      BY <3>1, <3>2
  <2>2. \A i \in 1 .. num : c[i] = s[i]
    BY <1>2, Join
  <2>3. \A i \in num + 1 .. n : c[i] = nullptr
    <3>1. \A i \in Len(s) + 1 .. Len(s) + Len(z) : c[i] = z[i - Len(s)]
      BY Join
    <3>2. \A i \in num + 1 .. n : i \in Len(s) + 1 .. Len(s) + Len(z) /\ i - Len(s) \in 1 .. n - num
      BY <1>2, <1>3, <1>5
    <3> HIDE DEF c
    <3> QED
      BY <3>1, <3>2, <1>5
  <2> HIDE DEF c
  <2>4. << v >> \in Seq(EntryValues) /\ Len(<< v >>) = 1 /\ << v >>[1] = v
    BY <1>4
  <2>5. u \in Seq(EntryValues) /\ Len(u) = Len(c) + 1
    BY <2>1, <2>4, Join
  <2>6. \A i \in 1 .. n : u[i] = c[i]
    BY <2>1, <2>4
  <2>7. u[n + 1] = v
    <3>1. \A i \in 1 .. Len(<< v >>) : u[Len(c) + i] = << v >>[i]
      BY <2>1, <2>4, Join
    <3> QED
      BY <3>1, <2>1, <2>4
  <2> HIDE DEF u
  <2>8. (\A i \in 1 .. num : i \in 1 .. n) /\ (\A i \in num + 1 .. n : i \in 1 .. n)
    BY <1>3
  <2> QED
    BY <2>1, <2>2, <2>3, <2>5, <2>6, <2>7, <2>8
<1> HIDE DEF c, u
<1>7. ASSUME NEW g, \A i \in 0 .. num - 1 : g[i] = a[i], DOMAIN g = 0 .. size - 1
      PROVE  InUse(Padded(g, num, n, v), size) = u
  <2> DEFINE h == Padded(g, num, n, v)
             t == InUse(h, size)
  <2>1. /\ \A i \in 0 .. num - 1 : h[i] = a[i]
        /\ \A i \in num .. n - 1 : h[i] = nullptr
        /\ h[n] = v
    BY <1>1, <1>3, <1>7 DEF Padded
  <2> HIDE DEF h
  <2>2. \A i \in 1 .. size : t[i] = h[i - 1]
    BY DEF InUse
  <2>3. \A i \in 1 .. size : t[i] = u[i]
    <3> SUFFICES ASSUME NEW i \in 1 .. size PROVE h[i - 1] = u[i]
      BY <2>2
    <3>1. CASE i \in 1 .. num
      <4>1. i - 1 \in 0 .. num - 1
        BY <3>1, <1>1
      <4> QED
        BY <3>1, <4>1, <2>1, <1>2, <1>6
    <3>2. CASE i \in num + 1 .. n
      <4>1. i - 1 \in num .. n - 1
        BY <3>2, <1>1
      <4> QED
        BY <3>2, <4>1, <2>1, <1>6
    <3>3. CASE i = n + 1
      <4>1. i - 1 = n
        BY <3>3
      <4> QED
        BY <3>3, <4>1, <2>1, <1>6
    <3>4. i \in 1 .. num \/ i \in num + 1 .. n \/ i = n + 1
      BY <1>1, <1>3
    <3> QED
      BY <3>1, <3>2, <3>3, <3>4
  <2>4. \A i \in 0 .. size - 1 : h[i] \in EntryValues
    <3>1. \A i \in 0 .. size - 1 : i \in 0 .. num - 1 \/ i \in num .. n - 1 \/ i = n
      BY <1>1, <1>3
    <3> QED
      BY <3>1, <2>1, <1>1, <1>4
  <2>5. t \in Seq(EntryValues) /\ Len(t) = size
    <3> HIDE DEF size
    <3> QED
      BY <2>4, <1>3, InUseIsSeq
  <2> HIDE DEF t
  <2>6. t = u
    <3> HIDE DEF size
    <3> QED
      BY <2>3, <2>5, <1>6, SameSeq
  <2> QED
    BY <2>6 DEF t, h
<1>8. HeldBecomes(l, u)
  <2>1. CASE size = max_entries[l]
    <3>1. Write(l, Padded(a, num, n, v)) /\ entries[l] # NoBlock /\ DOMAIN a = 0 .. size - 1
      BY <2>1, <1>1, <1>3 DEF ReplaceBeyond
    <3>2. HeldBecomes(l, InUse(Padded(a, num, n, v), size))
      BY <3>1, <1>3, WriteHolds
    <3> QED
      BY <3>1, <3>2, <1>7
  <2>2. CASE size # max_entries[l]
    <3> DEFINE g == Resized(a, size)
    <3>1. DOMAIN g = 0 .. size - 1 /\ \A i \in 0 .. num - 1 : g[i] = a[i]
      <4>1. \A i \in 0 .. num - 1 : i \in 0 .. size - 1 /\ i \in DOMAIN a
        BY <1>1, <1>3
      <4> QED
        BY <4>1 DEF Resized
    <3>2. PICK b \in FreeBlocks \cup ({entries[l]} \ {NoBlock}) :
            Place(l, b, Padded(g, num, n, v))
      BY <2>2 DEF ReplaceBeyond, Realloc
    <3> HIDE DEF g
    <3>3. HeldBecomes(l, InUse(Padded(g, num, n, v), size))
      BY <3>2, <1>3, PlaceHolds
    <3> QED
      BY <3>1, <3>3, <1>7
  <2> QED
    BY <2>1, <2>2
<1> QED
  BY <1>2, <1>8 DEF u, c, z

(* resize drops nothing. *)
LEMMA ResizeHolds ==
  ASSUME HeapInv, NEW l \in Lists, NEW n \in Nat, Resize(l, n)
  PROVE  HeldBecomes(l, Held[l])
<1> DEFINE num == num_entries[l]
           a == Array(l)
           size == FitSize(l, n)
           g == Resized(a, size)
<1>1. /\ num \in Nat /\ max_entries[l] \in Nat /\ num <= max_entries[l]
      /\ DOMAIN a = 0 .. max_entries[l] - 1
  BY ListFacts
<1>2. size \in Nat /\ num <= size
  BY <1>1 DEF FitSize
<1>3. num_entries' = [num_entries EXCEPT ![l] = num]
  BY DEF Resize, HeapInv, HeapTyped
<1>4. Held[l] = InUse(a, num)
  BY HeldIsSeq
<1>5. CASE size = max_entries[l]
  <2>1. Held' = Held
    BY <1>5 DEF Resize, Held, Array
  <2> QED
    BY <2>1 DEF HeldBecomes, Held
<1>6. CASE size # max_entries[l] /\ Realloc(l, g)
  <2>1. PICK b \in FreeBlocks \cup ({entries[l]} \ {NoBlock}) : Place(l, b, g)
    BY <1>6 DEF Realloc
  <2>2. InUse(g, num) = InUse(a, num)
    <3>1. \A i \in 1 .. num : i - 1 \in 0 .. size - 1 /\ i - 1 \in DOMAIN a
      BY <1>1, <1>2
    <3>2. \A i \in 1 .. num : g[i - 1] = a[i - 1]
      BY <3>1 DEF Resized
    <3> HIDE DEF g
    <3> QED
      BY <3>2 DEF InUse
  <2> HIDE DEF g
  <2>3. HeldBecomes(l, InUse(g, num))
    BY <2>1, <1>1, <1>3, PlaceHolds
  <2> QED
    BY <2>2, <2>3, <1>4
<1>7. CASE size # max_entries[l] /\ size = 0 /\ Release(l)
  <2>1. num = 0
    BY <1>1, <1>2, <1>7
  <2>2. Held[l] = << >>
    BY <2>1, <1>4 DEF InUse
  <2> QED
    BY <2>1, <2>2, <1>3, <1>7, ReleaseHolds
<1> QED
  BY <1>5, <1>6, <1>7 DEF Resize

LEMMA SortHolds ==
  ASSUME HeapInv, NEW l \in Lists, Sort(l)
  PROVE  HeldSorted(l, Held[l])
<1> DEFINE num == num_entries[l]
           a == Array(l)
           s == Held[l]
<1>1. /\ num \in Nat /\ max_entries[l] \in Nat /\ num <= max_entries[l]
      /\ DOMAIN a = 0 .. max_entries[l] - 1
  BY ListFacts
<1>2. DOMAIN s = 1 .. num /\ \A i \in 1 .. num : s[i] = a[i - 1]
  BY HeldIsSeq DEF Held
<1>3. PICK q \in [0 .. num - 1 -> 0 .. num - 1] :
        /\ \A i, j \in 0 .. num - 1 : i < j => q[i] # q[j] /\ a[q[i]] <= a[q[j]]
        /\ Write(l, [i \in DOMAIN a |-> IF i < num THEN a[q[i]] ELSE a[i]])
  BY DEF Sort
<1> DEFINE h == [i \in DOMAIN a |-> IF i < num THEN a[q[i]] ELSE a[i]]
           p == [i \in 1 .. num |-> q[i - 1] + 1]
           t == [i \in DOMAIN s |-> s[p[i]]]
<1>4. entries[l] # NoBlock /\ Write(l, h) /\ num_entries' = [num_entries EXCEPT ![l] = num]
  BY <1>3 DEF Sort, HeapInv, HeapTyped
<1>5. \A i \in 1 .. num : i - 1 \in 0 .. num - 1 /\ i - 1 \in DOMAIN a /\ i - 1 < num
  BY <1>1
<1>6. ASSUME NEW i \in 1 .. num
      PROVE  p[i] \in 1 .. num /\ p[i] = q[i - 1] + 1 /\ s[p[i]] = a[q[i - 1]]
  <2>1. p[i] = q[i - 1] + 1
    OBVIOUS
  <2>2. q[i - 1] \in 0 .. num - 1
    BY <1>5
  <2>3. q[i - 1] + 1 \in 1 .. num /\ (q[i - 1] + 1) - 1 = q[i - 1]
    BY <2>2, <1>1
  <2> HIDE DEF p
  <2> QED
    BY <2>1, <2>3, <1>2
<1>7. p \in [DOMAIN s -> DOMAIN s]
  BY <1>2, <1>6
<1>8. ASSUME NEW i \in 1 .. num, NEW j \in 1 .. num, p[i] = p[j] PROVE i = j
  <2>1. q[i - 1] + 1 = q[j - 1] + 1 /\ q[i - 1] \in 0 .. num - 1 /\ q[j - 1] \in 0 .. num - 1
    BY <1>5, <1>6, <1>8
  <2>2. q[i - 1] = q[j - 1]
    BY <2>1
  <2>3. ~(i - 1 < j - 1) /\ ~(j - 1 < i - 1)
    BY <2>2, <1>3, <1>5
  <2> QED
    BY <2>3
<1>9. HeldBecomes(l, InUse(h, num))
  BY <1>1, <1>4, WriteHolds
<1>10. InUse(h, num) = t
  <2>1. \A i \in 1 .. num : h[i - 1] = a[q[i - 1]]
    BY <1>5
  <2>2. \A i \in 1 .. num : s[p[i]] = a[q[i - 1]]
    BY <1>6
  <2> HIDE DEF h, p
  <2>3. \A i \in 1 .. num : h[i - 1] = s[p[i]]
    BY <2>1, <2>2
  <2> HIDE DEF s
  <2> QED
    BY <2>3, <1>2 DEF InUse
<1>11. Held[l]' = t
  BY <1>9, <1>10, HeldAfter
<1>12. ASSUME NEW i \in DOMAIN s, NEW j \in DOMAIN s, i < j PROVE t[i] <= t[j]
  <2>1. i \in 1 .. num /\ j \in 1 .. num /\ i - 1 < j - 1
    BY <1>2, <1>12
  <2>2. t[i] = a[q[i - 1]] /\ t[j] = a[q[j - 1]]
    BY <2>1, <1>6
  <2> QED
    BY <2>1, <2>2, <1>3, <1>5
<1>13. HeldBecomes(l, t)
  BY <1>9, <1>10
<1>14. \A i, j \in DOMAIN s : p[i] = p[j] => i = j
  BY <1>2, <1>8
<1> HIDE DEF p
<1> QED
  BY <1>7, <1>11, <1>12, <1>13, <1>14 DEF HeldSorted

LEMMA CopyHolds ==
  ASSUME HeapInv, NEW l \in Lists, NEW b \in Lists, Copy(l, b)
  PROVE  HeldBecomes(l, Held[b])
<1> DEFINE num == num_entries[b]
           a == Array(b)
           g == Copied(a, num, max_entries[b])
<1>1. num \in Nat /\ max_entries[b] \in Nat /\ num <= max_entries[b]
  BY ListFacts
<1>2. num_entries' = [num_entries EXCEPT ![l] = num]
  BY DEF Copy
<1>3. Held[b] = InUse(a, num)
  BY HeldIsSeq
<1>4. CASE max_entries[b] > 0
  <2>1. PICK new \in FreeBlocks : Place(l, new, g)
    BY <1>4 DEF Copy
  <2>2. \A i \in 1 .. num : g[i - 1] = a[i - 1]
    BY <1>1 DEF Copied
  <2> HIDE DEF g
  <2>3. HeldBecomes(l, InUse(g, num))
    BY <2>1, <1>1, <1>2, PlaceHolds
  <2>4. InUse(g, num) = InUse(a, num)
    BY <2>2 DEF InUse
  <2> QED
    BY <2>3, <2>4, <1>3
<1>5. CASE ~(max_entries[b] > 0)
  <2>1. num = 0
    BY <1>1, <1>5
  <2>2. Held[b] = << >>
    BY <2>1, <1>3 DEF InUse
  <2> QED
    BY <2>1, <2>2, <1>2, <1>5, ReleaseHolds DEF Copy
<1> QED
  BY <1>4, <1>5

LEMMA MoveHolds ==
  ASSUME HeapInv, NEW l \in Lists, NEW b \in Lists, Move(l, b)
  PROVE  Held' = [Held EXCEPT ![l] = Held[b], ![b] = << >>]
<1>1. l # b
  BY DEF Move
<1>2. /\ entries'[l] = entries[b] /\ num_entries'[l] = num_entries[b]
      /\ num_entries'[b] = 0
      /\ \A k \in Lists \ {l, b} : entries'[k] = entries[k] /\ num_entries'[k] = num_entries[k]
  BY <1>1 DEF Move, HeapInv, HeapTyped
<1>3. ASSUME NEW k \in Lists, k # l, entries[k] # NoBlock
      PROVE  memory'[entries[k]] = memory[entries[k]]
  BY <1>3 DEF Move, HeapInv, BlocksOwned
<1>4. Array(l)' = Array(b) /\ \A k \in Lists \ {l, b} : Array(k)' = Array(k)
  BY <1>1, <1>2, <1>3 DEF Array
<1>5. Held'[l] = Held[b]
  BY <1>2, <1>4 DEF Held
<1>6. Held'[b] = << >>
  BY <1>2 DEF Held
<1>7. \A k \in Lists \ {l, b} : Held'[k] = Held[k]
  BY <1>2, <1>4 DEF Held
<1> QED
  BY <1>1, <1>5, <1>6, <1>7 DEF Held

(* Each call makes of the sequences what its name says, whatever array it  *)
(* works on: no entry is lost, shared or out of place after any mixture of *)
(* growing, shrinking, moving and copying.                                 *)
THEOREM CallsOnSequences == Spec => CallsActOnSequences
<1>1. Spec => []HeapInv
  BY HeapInit, HeapStep, PTL DEF Spec
<1>2. HeapInv => SequenceCalls
  <2> SUFFICES ASSUME HeapInv PROVE SequenceCalls
    OBVIOUS
  <2>1. \A l \in Lists : \A n \in Sizes(l) : n \in Nat
    BY DEF Sizes
  <2> QED
    BY <2>1, InsertHolds, SortedInsertHolds, RemoveHolds, ReplaceHolds, ReplaceBeyondHolds,
       ResizeHolds, RemoveNthHolds, GetHolds, SortHolds, CopyHolds, MoveHolds
    DEF SequenceCalls
<1>3. HeapInv /\ [Next]_vars => [SequenceCalls]_vars
  BY <1>2
<1> QED
  BY <1>1, <1>3, PTL DEF Spec, CallsActOnSequences

-----------------------------------------------------------------------------
(* Keys *)

HashKeyOwns(h, b) ==
  h \in DOMAIN k_hash_key /\ k_hash_key[h].is_our_dynamic = TRUE /\ k_hash_key[h].key = b

EntryOwns(n, b) == n \in DOMAIN k_entry /\ k_entry[n] = b

CallerOwns(b) == b \in k_callers

Owned(b) == (\E h : HashKeyOwns(h, b)) \/ (\E n : EntryOwns(n, b)) \/ CallerOwns(b)

(* At most one of all that may own b does. *)
OneOwner(b) ==
  /\ \A h, i : HashKeyOwns(h, b) /\ HashKeyOwns(i, b) => h = i
  /\ \A n, m : EntryOwns(n, b) /\ EntryOwns(m, b) => n = m
  /\ \A h, n : ~ (HashKeyOwns(h, b) /\ EntryOwns(n, b))
  /\ \A h : ~ (HashKeyOwns(h, b) /\ CallerOwns(b))
  /\ \A n : ~ (EntryOwns(n, b) /\ CallerOwns(b))

(* A HashKey keeps the pointer of a key it has handed over; otherwise a    *)
(* pointer into the heap is one it owns.                                   *)
HashKeyTyped(k) ==
  /\ k.is_our_dynamic \in BOOLEAN /\ k.handed \in BOOLEAN
  /\ k.is_our_dynamic = TRUE => k.key \in Blocks /\ k.handed = FALSE /\ k_heap[k.key] = k.name
  /\ k.is_our_dynamic = FALSE /\ k.handed = FALSE => k.key \notin Blocks

KeysInv ==
  /\ DOMAIN k_heap \subseteq Blocks /\ k_callers \subseteq Blocks
  /\ \A h \in DOMAIN k_hash_key : HashKeyTyped(k_hash_key[h])
  /\ \A n \in DOMAIN k_entry : IF n \in ShortKeys THEN k_entry[n] = Inside
                               ELSE k_entry[n] \in Blocks /\ k_heap[k_entry[n]] = n
  /\ \A b \in Blocks : OneOwner(b) /\ (Owned(b) <=> b \in DOMAIN k_heap)

(* The copies queued for NextEntry are of entries that are in the table.   *)
QueuedPresent ==
  /\ k_iterating \in BOOLEAN
  /\ k_iterating = FALSE => k_inserted = {}
  /\ k_inserted \subseteq Keys!Entries

LEMMA KeysInvImplies == ASSUME KeysInv, QueuedPresent PROVE KeysOwned
<1>1. Keys!FreedOnce
  <2> SUFFICES ASSUME NEW b \in Blocks
               PROVE  IF b \in DOMAIN k_heap
                      THEN \E owner \in Keys!Claims(b) : Keys!Claims(b) = {owner}
                      ELSE Keys!Claims(b) = {}
    BY DEF Keys!FreedOnce
  <2>1. OneOwner(b) /\ (Owned(b) <=> b \in DOMAIN k_heap)
    BY DEF KeysInv
  <2>2. \A h \in DOMAIN k_hash_key :
          k_hash_key[h].is_our_dynamic <=> k_hash_key[h].is_our_dynamic = TRUE
    BY DEF KeysInv, HashKeyTyped
  <2>3. \A c : c \in Keys!Claims(b) <=> \/ \E h : HashKeyOwns(h, b) /\ c = << "HashKey", h >>
                                        \/ \E n : EntryOwns(n, b) /\ c = << "DictEntry", n >>
                                        \/ CallerOwns(b) /\ c = << "caller", b >>
    BY <2>2, Zenon DEF Keys!Claims, HashKeyOwns, EntryOwns, CallerOwns
  <2>4. ASSUME NEW c \in Keys!Claims(b), NEW d \in Keys!Claims(b) PROVE c = d
    <3>1. CASE \E h : HashKeyOwns(h, b) /\ c = << "HashKey", h >>
      BY <2>1, <2>3, <3>1, Zenon DEF OneOwner
    <3>2. CASE \E n : EntryOwns(n, b) /\ c = << "DictEntry", n >>
      BY <2>1, <2>3, <3>2, Zenon DEF OneOwner
    <3>3. CASE CallerOwns(b) /\ c = << "caller", b >>
      BY <2>1, <2>3, <3>3, Zenon DEF OneOwner
    <3> QED
      BY <2>3, <3>1, <3>2, <3>3, Zenon
  <2>5. Keys!Claims(b) # {} <=> Owned(b)
    BY <2>3, Zenon DEF Owned
  <2>6. CASE b \in DOMAIN k_heap
    BY <2>1, <2>4, <2>5, <2>6
  <2>7. CASE b \notin DOMAIN k_heap
    BY <2>1, <2>5, <2>7
  <2> QED
    BY <2>6, <2>7
<1>2. Keys!KeysReadable
  <2>1. ASSUME NEW h \in DOMAIN k_hash_key, ~k_hash_key[h].handed, k_hash_key[h].key \in Blocks
        PROVE  /\ k_hash_key[h].key \in DOMAIN k_heap
               /\ k_heap[k_hash_key[h].key] = k_hash_key[h].name
    <3>1. HashKeyTyped(k_hash_key[h])
      BY DEF KeysInv
    <3>2. k_hash_key[h].is_our_dynamic = TRUE
      BY <2>1, <3>1, Zenon DEF HashKeyTyped
    <3>3. HashKeyOwns(h, k_hash_key[h].key)
      BY <3>2 DEF HashKeyOwns
    <3> QED
      BY <2>1, <3>1, <3>2, <3>3 DEF KeysInv, Owned, HashKeyTyped
  <2>2. ASSUME NEW n \in DOMAIN k_entry
        PROVE  IF n \in ShortKeys THEN k_entry[n] = Inside
               ELSE k_entry[n] \in DOMAIN k_heap /\ k_heap[k_entry[n]] = n
    BY DEF KeysInv, Owned, EntryOwns
  <2>3. \A c \in Keys!Entries : Keys!Readable(c)
    BY <2>2 DEF Keys!Entries, Keys!Readable
  <2>4. \A c \in Keys!Entries \cup k_inserted : Keys!Readable(c)
    BY <2>3, Zenon DEF QueuedPresent
  <2> QED
    BY <2>1, <2>4, Zenon DEF Keys!KeysReadable
<1> QED
  BY <1>1, <1>2 DEF KeysOwned

LEMMA KeysInit == ASSUME Keys!Init PROVE KeysInv
BY DEF Keys!Init, KeysInv, OneOwner, Owned, HashKeyOwns, EntryOwns, CallerOwns

(* A new HashKey k. *)
LEMMA ConstructAdds ==
  ASSUME NEW h, NEW k, h \notin DOMAIN k_hash_key, k_hash_key' = Keys!With(k_hash_key, h, k)
  PROVE  /\ DOMAIN k_hash_key' = DOMAIN k_hash_key \cup {h}
         /\ k_hash_key'[h] = k
         /\ \A i \in DOMAIN k_hash_key : k_hash_key'[i] = k_hash_key[i]
         /\ \A i, b : HashKeyOwns(i, b)' <=> \/ HashKeyOwns(i, b)
                                             \/ i = h /\ k.is_our_dynamic = TRUE /\ k.key = b
<1>1. /\ DOMAIN k_hash_key' = DOMAIN k_hash_key \cup {h}
      /\ k_hash_key'[h] = k
      /\ \A i \in DOMAIN k_hash_key : k_hash_key'[i] = k_hash_key[i]
  BY DEF Keys!With
<1>2. \A i, b : HashKeyOwns(i, b)' <=> \/ HashKeyOwns(i, b)
                                       \/ i = h /\ k.is_our_dynamic = TRUE /\ k.key = b
  BY <1>1 DEF HashKeyOwns
<1> QED
  BY <1>1, <1>2

NewHashKey(name, where, dynamic) ==
  [name |-> name, key |-> where, is_our_dynamic |-> dynamic, handed |-> FALSE]

(* Constructors that allocate nothing and own nothing. *)
LEMMA ConstructOwningNothing ==
  ASSUME KeysInv, NEW h, NEW name, NEW where, where \notin Blocks,
         Keys!Construct(h, name, where, FALSE), UNCHANGED << k_heap, k_entry, k_callers >>
  PROVE  KeysInv'
<1> DEFINE k == NewHashKey(name, where, FALSE)
<1>a. h \notin DOMAIN k_hash_key /\ k_hash_key' = Keys!With(k_hash_key, h, k)
  BY DEF Keys!Construct, NewHashKey
<1>b. k.key = where /\ k.is_our_dynamic = FALSE /\ k.handed = FALSE
  BY DEF NewHashKey
<1> HIDE DEF k
<1>1. /\ DOMAIN k_hash_key' = DOMAIN k_hash_key \cup {h}
      /\ k_hash_key'[h].key = where
      /\ k_hash_key'[h].is_our_dynamic = FALSE /\ k_hash_key'[h].handed = FALSE
      /\ \A i \in DOMAIN k_hash_key : k_hash_key'[i] = k_hash_key[i]
      /\ \A i, b : HashKeyOwns(i, b)' <=> HashKeyOwns(i, b)
  BY <1>a, <1>b, ConstructAdds
<1>2. \A i \in DOMAIN k_hash_key' : HashKeyTyped(k_hash_key[i])'
  BY <1>1 DEF KeysInv, HashKeyTyped
<1>3. \A b : OneOwner(b)' <=> OneOwner(b)
  BY <1>1 DEF OneOwner, EntryOwns, CallerOwns
<1>4. \A b : Owned(b)' <=> Owned(b)
  BY <1>1 DEF Owned, EntryOwns, CallerOwns
<1> QED
  BY <1>2, <1>3, <1>4 DEF KeysInv

(* An owner whose block is left alone reads it as before. *)
LEMMA HashKeyStays ==
  ASSUME KeysInv, NEW i \in DOMAIN k_hash_key, k_hash_key'[i] = k_hash_key[i],
         \A c \in DOMAIN k_heap : HashKeyOwns(i, c) => k_heap'[c] = k_heap[c]
  PROVE  HashKeyTyped(k_hash_key[i])'
<1>1. HashKeyTyped(k_hash_key[i])
  BY DEF KeysInv
<1>2. k_hash_key[i].is_our_dynamic = TRUE => 
            k_hash_key[i].key \in DOMAIN k_heap /\ HashKeyOwns(i, k_hash_key[i].key)
  BY <1>1 DEF KeysInv, HashKeyTyped, HashKeyOwns, Owned
<1> QED
  BY <1>1, <1>2 DEF HashKeyTyped

EntryTyped(n) ==
  IF n \in ShortKeys THEN k_entry[n] = Inside
  ELSE k_entry[n] \in Blocks /\ k_heap[k_entry[n]] = n

LEMMA EntryStays ==
  ASSUME KeysInv, NEW n \in DOMAIN k_entry, k_entry'[n] = k_entry[n],
         \A c \in DOMAIN k_heap : EntryOwns(n, c) => k_heap'[c] = k_heap[c]
  PROVE  EntryTyped(n)'
<1>1. EntryTyped(n)
  BY DEF KeysInv, EntryTyped
<1>2. n \notin ShortKeys => 
            k_entry[n] \in DOMAIN k_heap /\ EntryOwns(n, k_entry[n])
  BY <1>1 DEF KeysInv, EntryTyped, EntryOwns, Owned
<1> QED
  BY <1>1, <1>2 DEF EntryTyped

(* The conjuncts of the invariant, after a step. *)
LEMMA KeysInvFrom ==
  ASSUME DOMAIN k_heap' \subseteq Blocks, k_callers' \subseteq Blocks,
         \A h \in DOMAIN k_hash_key' : HashKeyTyped(k_hash_key[h])',
         \A n \in DOMAIN k_entry' : EntryTyped(n)',
         \A b \in Blocks : OneOwner(b)' /\ (Owned(b)' <=> b \in DOMAIN k_heap')
  PROVE  KeysInv'
BY DEF KeysInv, EntryTyped

(* NextEntry and the constructors that copy: a new block, a new owner. *)
LEMMA CopyKeeps ==
  ASSUME KeysInv, NEW h, NEW name, Keys!CopyKey(h, name), UNCHANGED << k_entry, k_callers >>
  PROVE  KeysInv'
<1>1. PICK b \in Keys!Unallocated : /\ k_heap' = Keys!With(k_heap, b, name)
                                    /\ Keys!Construct(h, name, b, TRUE)
  BY DEF Keys!CopyKey
<1>2. b \in Blocks /\ b \notin DOMAIN k_heap /\ TRUE \in BOOLEAN
  BY <1>1 DEF Keys!Unallocated
<1>3. /\ DOMAIN k_heap' = DOMAIN k_heap \cup {b} /\ k_heap'[b] = name
      /\ \A c \in DOMAIN k_heap : k_heap'[c] = k_heap[c]
  BY <1>1, <1>2 DEF Keys!With
<1>4. /\ DOMAIN k_hash_key' = DOMAIN k_hash_key \cup {h}
      /\ k_hash_key'[h].name = name /\ k_hash_key'[h].key = b
      /\ k_hash_key'[h].is_our_dynamic = TRUE /\ k_hash_key'[h].handed = FALSE
      /\ \A i \in DOMAIN k_hash_key : k_hash_key'[i] = k_hash_key[i]
      /\ \A i, c : HashKeyOwns(i, c)' <=> HashKeyOwns(i, c) \/ (i = h /\ c = b)
  <2> DEFINE k == NewHashKey(name, b, TRUE)
  <2>1. h \notin DOMAIN k_hash_key /\ k_hash_key' = Keys!With(k_hash_key, h, k)
    BY <1>1 DEF Keys!Construct, NewHashKey
  <2>2. k.name = name /\ k.key = b /\ k.is_our_dynamic = TRUE /\ k.handed = FALSE
    BY DEF NewHashKey
  <2> HIDE DEF k
  <2> QED
    BY <2>1, <2>2, ConstructAdds
<1>5. UNCHANGED << k_entry, k_callers >>
  OBVIOUS
<1>6. ~Owned(b)
  BY <1>2 DEF KeysInv
<1>7. \A c \in Blocks : OneOwner(c)' /\ (Owned(c)' <=> Owned(c) \/ c = b)
  BY <1>4, <1>5, <1>6 DEF KeysInv, OneOwner, Owned, EntryOwns, CallerOwns
<1>8. HashKeyTyped(k_hash_key[h])'
  BY <1>2, <1>3, <1>4 DEF HashKeyTyped
<1>9. \A i \in DOMAIN k_hash_key : HashKeyTyped(k_hash_key[i])'
  BY <1>3, <1>4, HashKeyStays
<1>10. \A n \in DOMAIN k_entry' : EntryTyped(n)'
  BY <1>3, <1>5, EntryStays
<1>11. /\ DOMAIN k_heap' \subseteq Blocks /\ k_callers' \subseteq Blocks
       /\ \A c \in Blocks : Owned(c)' <=> c \in DOMAIN k_heap'
  BY <1>2, <1>3, <1>5, <1>7 DEF KeysInv
<1> QED
  BY <1>4, <1>7, <1>8, <1>9, <1>10, <1>11, KeysInvFrom

(* TakeKey(): block b, the HashKey's own or a new one, is nobody's yet. *)
LEMMA TakenIsFree ==
  ASSUME KeysInv, NEW h, h \in DOMAIN k_hash_key, NEW b \in Blocks, Keys!Taken(h, b)
  PROVE  /\ DOMAIN k_hash_key' = DOMAIN k_hash_key
         /\ \A i, c : HashKeyOwns(i, c)' <=> HashKeyOwns(i, c) /\ c # b
         /\ \A n : ~EntryOwns(n, b)
         /\ ~CallerOwns(b)
         /\ \A i \in DOMAIN k_hash_key :
              \/ k_hash_key'[i] = k_hash_key[i] /\ ~HashKeyOwns(i, b)
              \/ k_hash_key'[i].is_our_dynamic = FALSE /\ k_hash_key'[i].handed = TRUE
<1> DEFINE k == k_hash_key[h]
<1>1. HashKeyTyped(k) /\ OneOwner(b) /\ (Owned(b) <=> b \in DOMAIN k_heap)
  BY DEF KeysInv
<1>2. CASE k.is_our_dynamic = TRUE
  <2>1. b = k.key /\ k_hash_key' = [k_hash_key EXCEPT ![h].is_our_dynamic = FALSE,
                                                      ![h].handed = TRUE]
    BY <1>2 DEF Keys!Taken
  <2>2. HashKeyOwns(h, b)
    BY <1>2, <2>1 DEF HashKeyOwns
  <2>3. \A i : HashKeyOwns(i, b) => i = h
    BY <1>1, <2>2 DEF OneOwner
  <2>4. /\ DOMAIN k_hash_key' = DOMAIN k_hash_key
        /\ k_hash_key'[h] = [k EXCEPT !.is_our_dynamic = FALSE, !.handed = TRUE]
        /\ \A i \in DOMAIN k_hash_key : i # h => k_hash_key'[i] = k_hash_key[i]
    BY <2>1
  <2>5. k_hash_key'[h].is_our_dynamic = FALSE /\ k_hash_key'[h].handed = TRUE
    <3>1. k.is_our_dynamic \in BOOLEAN /\ k.handed \in BOOLEAN
      BY <1>1 DEF HashKeyTyped
    <3> QED
      BY <2>4, <3>1
  <2>6. \A i, c : HashKeyOwns(i, c)' <=> HashKeyOwns(i, c) /\ c # b
    BY <2>1, <2>2, <2>3, <2>4, <2>5 DEF HashKeyOwns
  <2> QED
    BY <1>1, <2>2, <2>3, <2>4, <2>5, <2>6 DEF OneOwner
<1>3. CASE k.is_our_dynamic = FALSE
  <2>1. b \notin DOMAIN k_heap /\ k_hash_key' = k_hash_key
    BY <1>3 DEF Keys!Taken, Keys!Unallocated
  <2>2. ~Owned(b)
    BY <1>1, <2>1
  <2>3. \A i, c : HashKeyOwns(i, c)' <=> HashKeyOwns(i, c)
    BY <2>1 DEF HashKeyOwns
  <2> QED
    BY <2>1, <2>2, <2>3 DEF Owned
<1> QED
  BY <1>1, <1>2, <1>3 DEF HashKeyTyped

(* Taken from a HashKey or not, b has no owner, and then one or none. *)
LEMMA TakeKeyKeeps ==
  ASSUME KeysInv, NEW h, Keys!TakeKey(h) PROVE KeysInv'
<1>1. PICK b \in Blocks : /\ Keys!Taken(h, b) /\ k_callers' = k_callers \cup {b}
                          /\ k_heap' = Keys!With(k_heap, b, k_hash_key[h].name)
  BY DEF Keys!TakeKey
<1>2. h \in DOMAIN k_hash_key /\ UNCHANGED k_entry
  BY DEF Keys!TakeKey, Keys!Usable, Keys!dictionary
<1>3. /\ DOMAIN k_hash_key' = DOMAIN k_hash_key
      /\ \A i, c : HashKeyOwns(i, c)' <=> HashKeyOwns(i, c) /\ c # b
      /\ \A n : ~EntryOwns(n, b)
      /\ ~CallerOwns(b)
      /\ \A i \in DOMAIN k_hash_key :
           \/ k_hash_key'[i] = k_hash_key[i] /\ ~HashKeyOwns(i, b)
           \/ k_hash_key'[i].is_our_dynamic = FALSE /\ k_hash_key'[i].handed = TRUE
  BY <1>1, <1>2, TakenIsFree
<1>4. /\ DOMAIN k_heap' = DOMAIN k_heap \cup {b}
      /\ \A c \in DOMAIN k_heap : c # b => k_heap'[c] = k_heap[c]
  BY <1>1 DEF Keys!With
<1>5. \A n, c : EntryOwns(n, c)' <=> EntryOwns(n, c)
  BY <1>2 DEF EntryOwns
<1>6. \A c : CallerOwns(c)' <=> CallerOwns(c) \/ c = b
  BY <1>1 DEF CallerOwns
<1>7. \A c \in Blocks : OneOwner(c)' /\ (Owned(c)' <=> Owned(c) \/ c = b)
  BY <1>3, <1>5, <1>6 DEF KeysInv, OneOwner, Owned
<1>8. \A i \in DOMAIN k_hash_key' : HashKeyTyped(k_hash_key[i])'
  <2> TAKE i \in DOMAIN k_hash_key'
  <2>1. CASE k_hash_key'[i] = k_hash_key[i] /\ ~HashKeyOwns(i, b)
    BY <1>3, <1>4, <2>1, HashKeyStays
  <2>2. CASE k_hash_key'[i].is_our_dynamic = FALSE /\ k_hash_key'[i].handed = TRUE
    BY <2>2 DEF HashKeyTyped
  <2> QED
    BY <1>3, <2>1, <2>2
<1>9. \A n \in DOMAIN k_entry' : EntryTyped(n)'
  BY <1>2, <1>3, <1>4, EntryStays
<1>10. /\ DOMAIN k_heap' \subseteq Blocks /\ k_callers' \subseteq Blocks
       /\ \A c \in Blocks : Owned(c)' <=> c \in DOMAIN k_heap'
  BY <1>1, <1>4, <1>7 DEF KeysInv
<1> QED
  BY <1>7, <1>8, <1>9, <1>10, KeysInvFrom

LEMMA InsertKeeps ==
  ASSUME KeysInv, NEW h, Keys!Insert(h) PROVE KeysInv'
<1>0. PICK name : name = k_hash_key[h].name
  OBVIOUS
<1>1. PICK b \in Blocks : Keys!Taken(h, b) /\ Keys!Store(name, b)
  BY <1>0 DEF Keys!Insert
<1>2. h \in DOMAIN k_hash_key /\ UNCHANGED k_callers
  BY DEF Keys!Insert, Keys!Usable
<1>3. /\ DOMAIN k_hash_key' = DOMAIN k_hash_key
      /\ \A i, c : HashKeyOwns(i, c)' <=> HashKeyOwns(i, c) /\ c # b
      /\ \A n : ~EntryOwns(n, b)
      /\ ~CallerOwns(b)
      /\ \A i \in DOMAIN k_hash_key :
           \/ k_hash_key'[i] = k_hash_key[i] /\ ~HashKeyOwns(i, b)
           \/ k_hash_key'[i].is_our_dynamic = FALSE /\ k_hash_key'[i].handed = TRUE
  BY <1>1, <1>2, TakenIsFree
<1>4. \A c : CallerOwns(c)' <=> CallerOwns(c)
  BY <1>2 DEF CallerOwns
<1>5. ASSUME \A c \in DOMAIN k_heap : c # b => k_heap'[c] = k_heap[c]
      PROVE  \A i \in DOMAIN k_hash_key' : HashKeyTyped(k_hash_key[i])'
  <2> TAKE i \in DOMAIN k_hash_key'
  <2>1. CASE k_hash_key'[i] = k_hash_key[i] /\ ~HashKeyOwns(i, b)
    BY <1>3, <1>5, <2>1, HashKeyStays
  <2>2. CASE k_hash_key'[i].is_our_dynamic = FALSE /\ k_hash_key'[i].handed = TRUE
    BY <2>2 DEF HashKeyTyped
  <2> QED
    BY <1>3, <2>1, <2>2
<1>6. CASE name \in DOMAIN k_entry \/ name \in ShortKeys
  <2>1. /\ DOMAIN k_heap' = DOMAIN k_heap \ {b}
        /\ \A c \in DOMAIN k_heap : c # b => k_heap'[c] = k_heap[c]
    BY <1>1, <1>6 DEF Keys!Store, Keys!Without
  <2>2. \A n \in DOMAIN k_entry' : \/ n \in DOMAIN k_entry /\ k_entry'[n] = k_entry[n]
                                   \/ n \in ShortKeys /\ k_entry'[n] = Inside
    BY <1>1, <1>6 DEF Keys!Store, Keys!With
  <2>3. \A n \in DOMAIN k_entry : n \in DOMAIN k_entry' /\ k_entry'[n] = k_entry[n]
    BY <1>1, <1>6 DEF Keys!Store, Keys!With
  <2>4. \A n, c : c \in Blocks => (EntryOwns(n, c)' <=> EntryOwns(n, c))
    BY <2>2, <2>3, KeyAssumption DEF EntryOwns
  <2>5. \A c \in Blocks : OneOwner(c)' /\ (Owned(c)' <=> Owned(c) /\ c # b)
    BY <1>3, <1>4, <2>4 DEF KeysInv, OneOwner, Owned
  <2>6. \A n \in DOMAIN k_entry' : EntryTyped(n)'
    <3> TAKE n \in DOMAIN k_entry'
    <3>1. CASE n \in DOMAIN k_entry /\ k_entry'[n] = k_entry[n]
      BY <1>3, <2>1, <3>1, EntryStays
    <3>2. CASE n \in ShortKeys /\ k_entry'[n] = Inside
      BY <3>2 DEF EntryTyped
    <3> QED
      BY <2>2, <3>1, <3>2
  <2>7. /\ DOMAIN k_heap' \subseteq Blocks /\ k_callers' \subseteq Blocks
        /\ \A c \in Blocks : Owned(c)' <=> c \in DOMAIN k_heap'
    BY <1>2, <2>1, <2>5 DEF KeysInv
  <2> QED
    BY <1>5, <2>1, <2>5, <2>6, <2>7, KeysInvFrom
<1>7. CASE ~ (name \in DOMAIN k_entry \/ name \in ShortKeys)
  <2>1. /\ DOMAIN k_heap' = DOMAIN k_heap \cup {b} /\ k_heap'[b] = name
        /\ \A c \in DOMAIN k_heap : c # b => k_heap'[c] = k_heap[c]
    BY <1>1, <1>7 DEF Keys!Store, Keys!With
  <2>2. /\ DOMAIN k_entry' = DOMAIN k_entry \cup {name} /\ k_entry'[name] = b
        /\ \A n \in DOMAIN k_entry : k_entry'[n] = k_entry[n]
    BY <1>1, <1>7 DEF Keys!Store, Keys!With
  <2>3. \A n, c : EntryOwns(n, c)' <=> EntryOwns(n, c) \/ (n = name /\ c = b)
    BY <1>7, <2>2 DEF EntryOwns
  <2>4. \A c \in Blocks : OneOwner(c)' /\ (Owned(c)' <=> Owned(c) \/ c = b)
    BY <1>3, <1>4, <2>3 DEF KeysInv, OneOwner, Owned
  <2>5. EntryTyped(name)'
    BY <1>7, <2>1, <2>2 DEF EntryTyped
  <2>6. \A n \in DOMAIN k_entry : EntryTyped(n)'
    BY <1>3, <2>1, <2>2, EntryStays
  <2>7. /\ DOMAIN k_heap' \subseteq Blocks /\ k_callers' \subseteq Blocks
        /\ \A c \in Blocks : Owned(c)' <=> c \in DOMAIN k_heap'
    BY <1>2, <2>1, <2>4 DEF KeysInv
  <2> QED
    BY <1>5, <2>1, <2>2, <2>4, <2>5, <2>6, <2>7, KeysInvFrom
<1> QED
  BY <1>6, <1>7

LEMMA TakingKeeps ==
  ASSUME KeysInv, NEW h, NEW b \in Blocks, Keys!ConstructTaking(h, b) PROVE KeysInv'
<1>1. /\ b \in k_callers /\ k_callers' = k_callers \ {b}
      /\ UNCHANGED << k_heap, k_entry >>
  BY DEF Keys!ConstructTaking, Keys!dictionary
<1>0. PICK k : k = NewHashKey(k_heap[b], b, TRUE)
  OBVIOUS
<1>2. h \notin DOMAIN k_hash_key /\ k_hash_key' = Keys!With(k_hash_key, h, k)
  BY <1>0 DEF Keys!ConstructTaking, Keys!Construct, NewHashKey
<1>3. k.name = k_heap[b] /\ k.key = b /\ k.is_our_dynamic = TRUE /\ k.handed = FALSE
  BY <1>0 DEF NewHashKey
<1>4. /\ DOMAIN k_hash_key' = DOMAIN k_hash_key \cup {h} /\ k_hash_key'[h] = k
      /\ \A i \in DOMAIN k_hash_key : k_hash_key'[i] = k_hash_key[i]
      /\ \A i, c : HashKeyOwns(i, c)' <=> HashKeyOwns(i, c) \/ (i = h /\ c = b)
  <2>1. k.key = b /\ k.is_our_dynamic = TRUE
    BY <1>3
  <2> QED
    BY <1>2, <2>1, ConstructAdds
<1>5. \A n, c : EntryOwns(n, c)' <=> EntryOwns(n, c)
  BY <1>1 DEF EntryOwns
<1>6. CallerOwns(b) /\ \A c : CallerOwns(c)' <=> CallerOwns(c) /\ c # b
  BY <1>1 DEF CallerOwns
<1>7. \A c \in Blocks : OneOwner(c)' /\ (Owned(c)' <=> Owned(c))
  BY <1>4, <1>5, <1>6 DEF KeysInv, OneOwner, Owned
<1>8. HashKeyTyped(k_hash_key[h])'
  BY <1>1, <1>3, <1>4 DEF HashKeyTyped
<1>9. \A i \in DOMAIN k_hash_key : HashKeyTyped(k_hash_key[i])'
  BY <1>1, <1>4, HashKeyStays
<1>10. \A n \in DOMAIN k_entry' : EntryTyped(n)'
  BY <1>1, EntryStays
<1>11. /\ DOMAIN k_heap' \subseteq Blocks /\ k_callers' \subseteq Blocks
       /\ \A c \in Blocks : Owned(c)' <=> c \in DOMAIN k_heap'
  BY <1>1, <1>7 DEF KeysInv
<1> QED
  BY <1>4, <1>7, <1>8, <1>9, <1>10, <1>11, KeysInvFrom

(* delete HashKey: it frees what it owns, and what it does not own stays. *)
LEMMA DestroyKeeps ==
  ASSUME KeysInv, NEW h, Keys!Destroy(h) PROVE KeysInv'
<1>1. /\ h \in DOMAIN k_hash_key /\ UNCHANGED << k_entry, k_callers >>
      /\ DOMAIN k_hash_key' = DOMAIN k_hash_key \ {h}
      /\ \A i \in DOMAIN k_hash_key' : k_hash_key'[i] = k_hash_key[i]
  BY DEF Keys!Destroy, Keys!Without, Keys!dictionary
<1>2. HashKeyTyped(k_hash_key[h])
  BY <1>1 DEF KeysInv
<1>3. \A i, c : HashKeyOwns(i, c)' <=> HashKeyOwns(i, c) /\ i # h
  BY <1>1 DEF HashKeyOwns
<1>4. \A n, c : EntryOwns(n, c)' <=> EntryOwns(n, c)
  BY <1>1 DEF EntryOwns
<1>5. \A c : CallerOwns(c)' <=> CallerOwns(c)
  BY <1>1 DEF CallerOwns
<1>6. \A c : /\ c \in DOMAIN k_heap' <=> c \in DOMAIN k_heap /\ ~HashKeyOwns(h, c)
             /\ c \in DOMAIN k_heap /\ ~HashKeyOwns(h, c) => k_heap'[c] = k_heap[c]
  <2>1. CASE k_hash_key[h].is_our_dynamic = TRUE
    BY <1>1, <2>1 DEF Keys!Destroy, Keys!Without, HashKeyOwns
  <2>2. CASE k_hash_key[h].is_our_dynamic = FALSE
    BY <2>2 DEF Keys!Destroy, HashKeyOwns
  <2> QED
    BY <1>2, <2>1, <2>2 DEF HashKeyTyped
<1>7. \A c \in Blocks : OneOwner(c)' /\ (Owned(c)' <=> Owned(c) /\ ~HashKeyOwns(h, c))
  BY <1>3, <1>4, <1>5 DEF KeysInv, OneOwner, Owned
<1>8. \A i, c : i # h /\ HashKeyOwns(i, c) /\ c \in DOMAIN k_heap => ~HashKeyOwns(h, c)
  BY DEF KeysInv, OneOwner
<1>9. \A i \in DOMAIN k_hash_key' : HashKeyTyped(k_hash_key[i])'
  BY <1>1, <1>6, <1>8, HashKeyStays
<1>10. \A n, c : EntryOwns(n, c) /\ c \in DOMAIN k_heap => ~HashKeyOwns(h, c)
  BY DEF KeysInv, OneOwner
<1>11. \A n \in DOMAIN k_entry' : EntryTyped(n)'
  BY <1>1, <1>6, <1>10, EntryStays
<1>12. /\ DOMAIN k_heap' \subseteq Blocks /\ k_callers' \subseteq Blocks
       /\ \A c \in Blocks : Owned(c)' <=> c \in DOMAIN k_heap'
  BY <1>1, <1>6, <1>7 DEF KeysInv
<1> QED
  BY <1>7, <1>9, <1>11, <1>12, KeysInvFrom

LEMMA CallerFreesKeeps ==
  ASSUME KeysInv, NEW b \in Blocks, Keys!CallerFrees(b) PROVE KeysInv'
<1>1. /\ CallerOwns(b) /\ k_callers' = k_callers \ {b} /\ UNCHANGED << k_hash_key, k_entry >>
      /\ DOMAIN k_heap' = DOMAIN k_heap \ {b}
      /\ \A c \in DOMAIN k_heap : c # b => k_heap'[c] = k_heap[c]
  BY DEF Keys!CallerFrees, Keys!Without, Keys!dictionary, CallerOwns
<1>2. /\ \A i, c : HashKeyOwns(i, c)' <=> HashKeyOwns(i, c)
      /\ \A n, c : EntryOwns(n, c)' <=> EntryOwns(n, c)
      /\ \A c : CallerOwns(c)' <=> CallerOwns(c) /\ c # b
  BY <1>1 DEF HashKeyOwns, EntryOwns, CallerOwns
<1>3. (\A i : ~HashKeyOwns(i, b)) /\ (\A n : ~EntryOwns(n, b))
  BY <1>1 DEF KeysInv, OneOwner
<1>4. \A c \in Blocks : OneOwner(c)' /\ (Owned(c)' <=> Owned(c) /\ c # b)
  BY <1>2, <1>3 DEF KeysInv, OneOwner, Owned
<1>5. \A i \in DOMAIN k_hash_key' : HashKeyTyped(k_hash_key[i])'
  BY <1>1, <1>3, HashKeyStays
<1>6. \A n \in DOMAIN k_entry' : EntryTyped(n)'
  BY <1>1, <1>3, EntryStays
<1>7. /\ DOMAIN k_heap' \subseteq Blocks /\ k_callers' \subseteq Blocks
      /\ \A c \in Blocks : Owned(c)' <=> c \in DOMAIN k_heap'
  BY <1>1, <1>4 DEF KeysInv
<1> QED
  BY <1>4, <1>5, <1>6, <1>7, KeysInvFrom

LEMMA InsertCopyingKeeps ==
  ASSUME KeysInv, NEW name, Keys!InsertCopying(name) PROVE KeysInv'
<1>1. UNCHANGED << k_hash_key, k_callers >>
  BY DEF Keys!InsertCopying
<1>2. /\ \A i, c : HashKeyOwns(i, c)' <=> HashKeyOwns(i, c)
      /\ \A c : CallerOwns(c)' <=> CallerOwns(c)
  BY <1>1 DEF HashKeyOwns, CallerOwns
<1>3. CASE name \in DOMAIN k_entry \/ name \in ShortKeys
  <2>1. k_heap' = k_heap
    BY <1>3 DEF Keys!InsertCopying
  <2>2. /\ \A n \in DOMAIN k_entry' : \/ n \in DOMAIN k_entry /\ k_entry'[n] = k_entry[n]
                                      \/ n \in ShortKeys /\ k_entry'[n] = Inside
        /\ \A n \in DOMAIN k_entry : n \in DOMAIN k_entry' /\ k_entry'[n] = k_entry[n]
    BY <1>3 DEF Keys!InsertCopying, Keys!With
  <2>3. \A n, c : c \in Blocks => (EntryOwns(n, c)' <=> EntryOwns(n, c))
    BY <2>2, KeyAssumption DEF EntryOwns
  <2>4. \A c \in Blocks : OneOwner(c)' /\ (Owned(c)' <=> Owned(c))
    BY <1>2, <2>3 DEF KeysInv, OneOwner, Owned
  <2>5. \A i \in DOMAIN k_hash_key' : HashKeyTyped(k_hash_key[i])'
    BY <1>1, <2>1, HashKeyStays
  <2>6. \A n \in DOMAIN k_entry' : EntryTyped(n)'
    <3> TAKE n \in DOMAIN k_entry'
    <3>1. CASE n \in DOMAIN k_entry /\ k_entry'[n] = k_entry[n]
      BY <2>1, <3>1, EntryStays
    <3>2. CASE n \in ShortKeys /\ k_entry'[n] = Inside
      BY <3>2 DEF EntryTyped
    <3> QED
      BY <2>2, <3>1, <3>2
  <2> QED
    BY <1>1, <2>1, <2>4, <2>5, <2>6, KeysInvFrom DEF KeysInv
<1>4. CASE ~ (name \in DOMAIN k_entry \/ name \in ShortKeys)
  <2>1. PICK b \in Keys!Unallocated : /\ k_heap' = Keys!With(k_heap, b, name)
                                      /\ k_entry' = Keys!With(k_entry, name, b)
    BY <1>4 DEF Keys!InsertCopying
  <2>2. /\ b \in Blocks /\ b \notin DOMAIN k_heap
        /\ DOMAIN k_heap' = DOMAIN k_heap \cup {b} /\ k_heap'[b] = name
        /\ \A c \in DOMAIN k_heap : k_heap'[c] = k_heap[c]
        /\ DOMAIN k_entry' = DOMAIN k_entry \cup {name} /\ k_entry'[name] = b
        /\ \A n \in DOMAIN k_entry : k_entry'[n] = k_entry[n]
    BY <1>4, <2>1 DEF Keys!With, Keys!Unallocated
  <2>3. \A n, c : EntryOwns(n, c)' <=> EntryOwns(n, c) \/ (n = name /\ c = b)
    BY <1>4, <2>2 DEF EntryOwns
  <2>4. ~Owned(b)
    BY <2>2 DEF KeysInv
  <2>5. \A c \in Blocks : OneOwner(c)' /\ (Owned(c)' <=> Owned(c) \/ c = b)
    BY <1>2, <2>3, <2>4 DEF KeysInv, OneOwner, Owned
  <2>6. \A i \in DOMAIN k_hash_key' : HashKeyTyped(k_hash_key[i])'
    BY <1>1, <2>2, HashKeyStays
  <2>7. EntryTyped(name)'
    BY <1>4, <2>2 DEF EntryTyped
  <2>8. \A n \in DOMAIN k_entry : EntryTyped(n)'
    BY <2>2, EntryStays
  <2>9. /\ DOMAIN k_heap' \subseteq Blocks /\ k_callers' \subseteq Blocks
        /\ \A c \in Blocks : Owned(c)' <=> c \in DOMAIN k_heap'
    BY <1>1, <2>2, <2>5 DEF KeysInv
  <2> QED
    BY <2>2, <2>5, <2>6, <2>7, <2>8, <2>9, KeysInvFrom
<1> QED
  BY <1>3, <1>4

(* Remove and Clear: the keys N leave the dictionary. *)
LEMMA EntriesFreed ==
  ASSUME KeysInv, NEW N, N \subseteq DOMAIN k_entry,
         k_heap' = Keys!Without(k_heap, {k_entry[n] : n \in N}),
         DOMAIN k_entry' = DOMAIN k_entry \ N,
         \A n \in DOMAIN k_entry \ N : k_entry'[n] = k_entry[n],
         UNCHANGED << k_hash_key, k_callers >>
  PROVE  KeysInv'
<1> DEFINE Gone(c) == \E n \in N : EntryOwns(n, c)
<1>1. \A c : /\ c \in DOMAIN k_heap' <=> c \in DOMAIN k_heap /\ ~Gone(c)
             /\ c \in DOMAIN k_heap /\ ~Gone(c) => k_heap'[c] = k_heap[c]
  <2>1. \A c : c \in {k_entry[n] : n \in N} <=> Gone(c)
    BY DEF EntryOwns
  <2> HIDE DEF Gone
  <2> QED
    BY <2>1 DEF Keys!Without
<1>2. /\ \A i, c : HashKeyOwns(i, c)' <=> HashKeyOwns(i, c)
      /\ \A n, c : EntryOwns(n, c)' <=> EntryOwns(n, c) /\ n \notin N
      /\ \A c : CallerOwns(c)' <=> CallerOwns(c)
  BY DEF HashKeyOwns, EntryOwns, CallerOwns
<1>3. \A c \in Blocks : OneOwner(c)' /\ (Owned(c)' <=> Owned(c) /\ ~Gone(c))
  BY <1>2 DEF KeysInv, OneOwner, Owned
<1>4. /\ \A i, c : HashKeyOwns(i, c) /\ c \in DOMAIN k_heap => ~Gone(c)
      /\ \A n, c : n \notin N /\ EntryOwns(n, c) /\ c \in DOMAIN k_heap => ~Gone(c)
  BY DEF KeysInv, OneOwner
<1>5. \A i \in DOMAIN k_hash_key' : HashKeyTyped(k_hash_key[i])'
  BY <1>1, <1>4, HashKeyStays
<1>6. \A n \in DOMAIN k_entry' : EntryTyped(n)'
  BY <1>1, <1>4, EntryStays
<1> HIDE DEF Gone
<1>7. /\ DOMAIN k_heap' \subseteq Blocks /\ k_callers' \subseteq Blocks
      /\ \A c \in Blocks : Owned(c)' <=> c \in DOMAIN k_heap'
  BY <1>1, <1>3 DEF KeysInv
<1> QED
  BY <1>3, <1>5, <1>6, <1>7, KeysInvFrom

LEMMA KeysStep == ASSUME KeysInv, [Keys!Next]_(Keys!vars) PROVE KeysInv'
<1> USE DEF Keys!dictionary
<1>1. CASE UNCHANGED << k_heap, k_hash_key, k_entry, k_callers >>
  BY <1>1 DEF KeysInv, OneOwner, Owned, HashKeyOwns, EntryOwns, CallerOwns, HashKeyTyped
<1>2. ASSUME NEW h, NEW name, Keys!ConstructInside(h, name) PROVE KeysInv'
  BY <1>2, ConstructOwningNothing, KeyAssumption DEF Keys!ConstructInside
<1>3. ASSUME NEW h, NEW name, Keys!ConstructBorrowing(h, name) PROVE KeysInv'
  BY <1>3, ConstructOwningNothing, KeyAssumption DEF Keys!ConstructBorrowing
<1>4. ASSUME NEW h, NEW name, Keys!ConstructCopying(h, name) PROVE KeysInv'
  BY <1>4, CopyKeeps DEF Keys!ConstructCopying
<1>5. ASSUME NEW h, Keys!NextEntry(h) PROVE KeysInv'
  <2>1. UNCHANGED << k_entry, k_callers >>
    BY <1>5 DEF Keys!NextEntry, Keys!NextInserted, Keys!NextInTable
  <2>2. \E name : Keys!CopyKey(h, name)
    BY <1>5 DEF Keys!NextEntry, Keys!NextInserted, Keys!NextInTable
  <2> QED
    BY <2>1, <2>2, CopyKeeps
<1>6. ASSUME NEW name, Keys!Remove(name) PROVE KeysInv'
  <2>1. /\ {name} \subseteq DOMAIN k_entry
        /\ {k_entry[name]} = {k_entry[n] : n \in {name}}
        /\ DOMAIN k_entry' = DOMAIN k_entry \ {name}
        /\ \A n \in DOMAIN k_entry \ {name} : k_entry'[n] = k_entry[n]
        /\ UNCHANGED << k_hash_key, k_callers >>
    BY <1>6 DEF Keys!Remove, Keys!Without
  <2>2. k_heap' = Keys!Without(k_heap, {k_entry[n] : n \in {name}})
    BY <1>6, <2>1 DEF Keys!Remove
  <2> QED
    BY <2>1, <2>2, EntriesFreed
<1>7. ASSUME Keys!Clear PROVE KeysInv'
  <2>1. /\ k_heap' = Keys!Without(k_heap, {k_entry[n] : n \in DOMAIN k_entry})
        /\ DOMAIN k_entry' = DOMAIN k_entry \ DOMAIN k_entry
        /\ \A n \in DOMAIN k_entry \ DOMAIN k_entry : k_entry'[n] = k_entry[n]
        /\ UNCHANGED << k_hash_key, k_callers >>
    BY <1>7 DEF Keys!Clear
  <2>2. PICK N : N = DOMAIN k_entry
    OBVIOUS
  <2> QED
    BY <2>1, <2>2, EntriesFreed
<1>8. ASSUME Keys!MakeRobustCookie \/ Keys!DeleteCookie PROVE KeysInv'
  <2>1. UNCHANGED << k_heap, k_hash_key, k_entry, k_callers >>
    BY <1>8 DEF Keys!MakeRobustCookie, Keys!DeleteCookie
  <2> QED
    BY <1>1, <2>1
<1>9. CASE UNCHANGED Keys!vars
  BY <1>1, <1>9 DEF Keys!vars
<1> QED
  BY <1>2, <1>3, <1>4, <1>5, <1>6, <1>7, <1>8, <1>9, DestroyKeeps, TakeKeyKeeps,
     InsertKeeps, TakingKeeps, CallerFreesKeeps, InsertCopyingKeeps DEF Keys!Next

-----------------------------------------------------------------------------
(* The queues of the cookies *)

(* Calls that leave the table and the queues, or only take from a queue. *)
LEMMA QueuedSame ==
  ASSUME QueuedPresent, UNCHANGED << k_entry, k_iterating >>, k_inserted' \subseteq k_inserted
  PROVE  QueuedPresent'
BY DEF QueuedPresent, Keys!Entries

(* Insert: the queue gains an entry of the table, and no entry leaves it.  *)
LEMMA QueuedOnInsert ==
  ASSUME QueuedPresent, NEW name, Keys!CopyEntries(name),
         name \in DOMAIN k_entry => k_entry' = k_entry,
         name \notin DOMAIN k_entry => \E where : k_entry' = Keys!With(k_entry, name, where)
  PROVE  QueuedPresent'
<1>1. CASE name \in DOMAIN k_entry
  BY <1>1, QueuedSame DEF Keys!CopyEntries, Keys!copies
<1>2. CASE name \notin DOMAIN k_entry
  <2>1. Keys!Entries \subseteq Keys!Entries'
    BY <1>2 DEF Keys!Entries, Keys!With
  <2>2. PICK e \in Keys!Entries' :
          k_inserted' \in {k_inserted} \cup (IF k_iterating THEN {k_inserted \cup {e}} ELSE {})
    BY <1>2 DEF Keys!CopyEntries
  <2>3. k_iterating' = k_iterating
    BY <1>2 DEF Keys!CopyEntries
  <2>4. k_inserted' \subseteq Keys!Entries'
    BY <2>1, <2>2 DEF QueuedPresent
  <2>5. k_iterating = FALSE => k_inserted' = {}
    BY <2>2 DEF QueuedPresent
  <2> QED
    BY <2>3, <2>4, <2>5 DEF QueuedPresent
<1> QED
  BY <1>1, <1>2

(* Remove: every queued copy of the key compares equal, and goes. *)
LEMMA QueuedOnRemove ==
  ASSUME KeysInv, QueuedPresent, NEW name, Keys!Remove(name)
  PROVE  QueuedPresent'
<1>1. /\ name \in DOMAIN k_entry /\ k_iterating' = k_iterating
      /\ DOMAIN k_entry' = DOMAIN k_entry \ {name}
      /\ \A n \in DOMAIN k_entry' : k_entry'[n] = k_entry[n]
  BY DEF Keys!Remove, Keys!Without
<1>2. PICK moved \in SUBSET Keys!Entries' :
        /\ moved # {} => k_iterating
        /\ k_inserted' = {c \in k_inserted : ~Keys!MayEqual(c, name)} \cup moved
  BY DEF Keys!Remove, Keys!AdjustOnRemove
<1>3. ASSUME NEW c \in k_inserted, c.name = name PROVE Keys!MayEqual(c, name)
  <2>1. PICK n \in DOMAIN k_entry : c = [name |-> n, key |-> k_entry[n]]
    BY DEF QueuedPresent, Keys!Entries
  <2>2. n = name /\ c.key = k_entry[name]
    BY <1>3, <2>1
  <2>3. k_entry[name] \in DOMAIN k_heap => k_heap[k_entry[name]] = name
    BY <1>1, KeyAssumption DEF KeysInv
  <2> QED
    BY <1>3, <2>2, <2>3 DEF Keys!MayEqual
<1>4. \A c \in k_inserted : c.name # name => c \in Keys!Entries'
  BY <1>1 DEF QueuedPresent, Keys!Entries
<1>5. k_inserted' \subseteq Keys!Entries'
  BY <1>2, <1>3, <1>4
<1>6. k_iterating = FALSE => k_inserted' = {}
  BY <1>2 DEF QueuedPresent
<1> QED
  BY <1>1, <1>5, <1>6 DEF QueuedPresent

LEMMA QueuedStep ==
  ASSUME KeysInv, QueuedPresent, [Keys!Next]_(Keys!vars) PROVE QueuedPresent'
<1>1. CASE UNCHANGED Keys!dictionary
  BY <1>1, QueuedSame DEF Keys!dictionary, Keys!copies
<1>2. ASSUME NEW h, Keys!Insert(h) PROVE QueuedPresent'
  <2>1. PICK name : name = k_hash_key[h].name
    OBVIOUS
  <2>2. /\ Keys!CopyEntries(name)
        /\ name \in DOMAIN k_entry => k_entry' = k_entry
        /\ name \notin DOMAIN k_entry => \E where : k_entry' = Keys!With(k_entry, name, where)
    BY <1>2, <2>1 DEF Keys!Insert, Keys!Store
  <2> QED
    BY <2>2, QueuedOnInsert
<1>3. ASSUME NEW name, Keys!InsertCopying(name) PROVE QueuedPresent'
  <2>1. /\ Keys!CopyEntries(name)
        /\ name \in DOMAIN k_entry => k_entry' = k_entry
        /\ name \notin DOMAIN k_entry => \E where : k_entry' = Keys!With(k_entry, name, where)
    BY <1>3 DEF Keys!InsertCopying
  <2> QED
    BY <2>1, QueuedOnInsert
<1>4. ASSUME Keys!Clear PROVE QueuedPresent'
  BY <1>4 DEF Keys!Clear, QueuedPresent
<1>5. ASSUME Keys!MakeRobustCookie PROVE QueuedPresent'
  BY <1>5 DEF Keys!MakeRobustCookie, QueuedPresent, Keys!Entries
<1>6. ASSUME Keys!DeleteCookie PROVE QueuedPresent'
  BY <1>6 DEF Keys!DeleteCookie, QueuedPresent, Keys!Entries
<1>7. ASSUME NEW h, Keys!NextEntry(h) PROVE QueuedPresent'
  <2>1. UNCHANGED << k_entry, k_iterating >> /\ k_inserted' \subseteq k_inserted
    BY <1>7 DEF Keys!NextEntry, Keys!NextInserted, Keys!NextInTable
  <2> QED
    BY <2>1, QueuedSame
<1>8. ASSUME NEW h, NEW name, \/ Keys!ConstructInside(h, name)
                              \/ Keys!ConstructBorrowing(h, name)
                              \/ Keys!ConstructCopying(h, name)
      PROVE  QueuedPresent'
  BY <1>1, <1>8 DEF Keys!ConstructInside, Keys!ConstructBorrowing, Keys!ConstructCopying
<1>9. ASSUME NEW h, NEW b, \/ Keys!Destroy(h) \/ Keys!TakeKey(h)
                           \/ Keys!ConstructTaking(h, b) \/ Keys!CallerFrees(b)
      PROVE  QueuedPresent'
  BY <1>1, <1>9 DEF Keys!Destroy, Keys!TakeKey, Keys!ConstructTaking, Keys!CallerFrees
<1>10. CASE UNCHANGED Keys!vars
  BY <1>1, <1>10 DEF Keys!vars
<1> QED
  BY <1>2, <1>3, <1>4, <1>5, <1>6, <1>7, <1>8, <1>9, <1>10, QueuedOnRemove DEF Keys!Next

(* However a key is made and passed on, its buffer has exactly one owner   *)
(* until that owner frees it, and in it every HashKey that has not handed  *)
(* it over, every entry of the table and every copy that waits to be given *)
(* out by NextEntry finds the bytes it was made with.                      *)
THEOREM KeysHaveOneOwner == Keys!Spec => []KeysOwned
<1>1. Keys!Init => KeysInv /\ QueuedPresent
  BY KeysInit DEF Keys!Init, QueuedPresent
<1>2. KeysInv /\ QueuedPresent /\ [Keys!Next]_(Keys!vars) => (KeysInv /\ QueuedPresent)'
  BY KeysStep, QueuedStep
<1>3. Keys!Spec => [](KeysInv /\ QueuedPresent)
  BY <1>1, <1>2, PTL DEF Keys!Spec
<1> QED
  BY <1>3, KeysInvImplies, PTL
=============================================================================
