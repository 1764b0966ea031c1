-------------------------------- MODULE List --------------------------------
(***************************************************************************)
(* Class List of dict/List.h: an array that grows by a factor and keeps    *)
(* count of the slots in use.  Lists are values whose arrays are blocks of *)
(* the C heap, so that copies, moves, realloc and free can be told apart.  *)
(* Each call is a step.  Slots are numbered from 0.                        *)
(*                                                                         *)
(* An argument passed by reference is taken to lie outside the list.  What *)
(* pop_front and pop_back delete, the object an entry points to, is not    *)
(* modelled; pop_back does not compile.                                    *)
(***************************************************************************)
EXTENDS Integers, Sequences, FiniteSets, TLC

CONSTANTS
  Lists,                \* the List objects
  Blocks,               \* the blocks malloc can hand out
  Values,               \* entries: "nonzero data"
  Junk,                 \* what uninitialized memory holds
  NoBlock,              \* the null pointer of "entries"
  DEFAULT_LIST_SIZE,
  LIST_GROWTH_FACTOR,
  Bounds                \* bound: how long clients may make each list; the
                        \* lists of bound 0 are not used

ASSUME ListAssumption ==
  /\ Values \subseteq Int \ {0}
  /\ NoBlock \notin Blocks
  /\ DEFAULT_LIST_SIZE \in Nat \ {0}
  /\ LIST_GROWTH_FACTOR \in Nat \ {0, 1}
  /\ Bounds \subseteq [Lists -> Nat]
  /\ Junk \notin Values \cup {0}

VARIABLES
  memory,       \* the allocated blocks and their contents
  entries,      \* the block of each list, or NoBlock
  num_entries,
  max_entries,
  ret,          \* what the last call returned
  longest       \* the client's bound of each list

vars == << memory, entries, num_entries, max_entries, ret, longest >>

nullptr == 0

Init ==
  /\ memory = [b \in {} |-> << >>]
  /\ entries = [l \in Lists |-> NoBlock]
  /\ num_entries = [l \in Lists |-> 0]
  /\ max_entries = [l \in Lists |-> 0]
  /\ ret = nullptr
  /\ longest \in Bounds

-----------------------------------------------------------------------------
(* malloc, realloc and free *)

FreeBlocks == Blocks \ DOMAIN memory

(* The array of l; the null pointer has no slots. *)
Array(l) == IF entries[l] = NoBlock THEN [i \in {} |-> Junk] ELSE memory[entries[l]]

(* An array of n slots that keeps what array a has. *)
Resized(a, n) ==
  [i \in 0 .. n - 1 |-> IF i \in DOMAIN a THEN a[i] ELSE Junk]

(* The first n slots of a, in a new array of m. *)
Copied(a, n, m) == [i \in 0 .. m - 1 |-> IF i < n THEN a[i] ELSE Junk]

(* l leaves its block, if it has one, for block b with contents a. *)
Place(l, b, a) ==
  /\ entries' = [entries EXCEPT ![l] = b]
  /\ memory' = [x \in (DOMAIN memory \ {entries[l]}) \cup {b} |->
                  IF x = b THEN a ELSE memory[x]]

(* l leaves its block, if it has one, and has none. *)
Release(l) ==
  /\ entries' = [entries EXCEPT ![l] = NoBlock]
  /\ memory' = [x \in DOMAIN memory \ {entries[l]} |-> memory[x]]

(* l writes a to its block. *)
Write(l, a) ==
  /\ memory' = [memory EXCEPT ![entries[l]] = a]
  /\ UNCHANGED entries

(* realloc keeps the block or moves to a free one. *)
Realloc(l, a) ==
  \E b \in FreeBlocks \cup ({entries[l]} \ {NoBlock}) : Place(l, b, a)

-----------------------------------------------------------------------------
(* Constructors: List(size), List(arr, n) and the initializer list, in the *)
(* place of a list that is destroyed.                                      *)
ConstructEmpty(l) ==
  /\ Release(l)
  /\ num_entries' = [num_entries EXCEPT ![l] = 0]
  /\ max_entries' = [max_entries EXCEPT ![l] = 0]
  /\ ret' = nullptr

ConstructSized(l, size) ==
  /\ size > 0
  /\ \E b \in FreeBlocks : Place(l, b, Resized(<< >>, size))
  /\ num_entries' = [num_entries EXCEPT ![l] = 0]
  /\ max_entries' = [max_entries EXCEPT ![l] = size]
  /\ ret' = nullptr

ConstructFrom(l, n, arr) ==
  /\ \E b \in FreeBlocks : Place(l, b, arr)
  /\ num_entries' = [num_entries EXCEPT ![l] = n]
  /\ max_entries' = [max_entries EXCEPT ![l] = n]
  /\ ret' = nullptr

(* The copy constructor and operator=(const List&). *)
Copy(l, b) ==
  /\ l # b /\ num_entries[b] <= longest[l]
  /\ IF max_entries[b] > 0
     THEN \E new \in FreeBlocks :
            Place(l, new, Copied(Array(b), num_entries[b], max_entries[b]))
     ELSE Release(l)
  /\ num_entries' = [num_entries EXCEPT ![l] = num_entries[b]]
  /\ max_entries' = [max_entries EXCEPT ![l] = max_entries[b]]
  /\ ret' = nullptr

(* Mutant: the list that is moved from keeps its block. *)
MoveSharing(l, b) ==
  /\ l # b /\ num_entries[b] <= longest[l]
  /\ entries' = [entries EXCEPT ![l] = entries[b]]
  /\ memory' = [x \in DOMAIN memory \ {entries[l]} |-> memory[x]]
  /\ num_entries' = [num_entries EXCEPT ![l] = num_entries[b], ![b] = 0]
  /\ max_entries' = [max_entries EXCEPT ![l] = max_entries[b]]
  /\ ret' = nullptr

(* The move constructor and operator=(List&&). *)
Move(l, b) ==
  /\ l # b /\ num_entries[b] <= longest[l]
  /\ entries' = [entries EXCEPT ![l] = entries[b], ![b] = NoBlock]
  /\ memory' = [x \in DOMAIN memory \ {entries[l]} |-> memory[x]]
  /\ num_entries' = [num_entries EXCEPT ![l] = num_entries[b], ![b] = 0]
  /\ max_entries' = [max_entries EXCEPT ![l] = max_entries[b], ![b] = 0]
  /\ ret' = nullptr

-----------------------------------------------------------------------------
(* resize(new_size) never drops an entry.  realloc to size 0 frees, or     *)
(* hands out a block without slots, as the platform likes.                 *)
FitSize(l, new_size) == IF new_size < num_entries[l] THEN num_entries[l] ELSE new_size

Resize(l, new_size) ==
  LET size == FitSize(l, new_size) IN
  /\ IF size = max_entries[l]
     THEN UNCHANGED << memory, entries, max_entries >>
     ELSE /\ \/ Realloc(l, Resized(Array(l), size))
             \/ size = 0 /\ Release(l)
          /\ max_entries' = [max_entries EXCEPT ![l] = size]
  /\ ret' = nullptr
  /\ UNCHANGED num_entries

(* The size insert, append and sortedinsert grow to. *)
GrownSize(l) ==
  IF max_entries[l] > 0
  THEN max_entries[l] * LIST_GROWTH_FACTOR
  ELSE DEFAULT_LIST_SIZE

(* a with v in slot n, and the n .. num - 1 slots moved up. *)
Inserted(a, n, num, v) ==
  [i \in DOMAIN a |-> IF i = n THEN v
                      ELSE IF i \in n + 1 .. num THEN a[i - 1] ELSE a[i]]

(* A call that adds v as entry n, in an array that is grown if it is full. *)
Add(l, n, v) ==
  LET num == num_entries[l] IN
  /\ num < longest[l]
  /\ IF num = max_entries[l]
     THEN /\ Realloc(l, Inserted(Resized(Array(l), GrownSize(l)), n, num, v))
          /\ max_entries' = [max_entries EXCEPT ![l] = GrownSize(l)]
     ELSE Write(l, Inserted(Array(l), n, num, v)) /\ UNCHANGED max_entries
  /\ num_entries' = [num_entries EXCEPT ![l] = num + 1]
  /\ ret' = nullptr

Insert(l, v) == Add(l, 0, v)

PushBack(l, v) == Add(l, num_entries[l], v)

(* The new entry passes those it is greater than, from the end. *)
SortedSlot(a, num, v) ==
  CHOOSE n \in 0 .. num : /\ \A i \in n .. num - 1 : a[i] < v
                          /\ n = 0 \/ a[n - 1] >= v

SortedInsert(l, v) == Add(l, SortedSlot(Array(l), num_entries[l], v), v)

-----------------------------------------------------------------------------
(* Mutant: the slot itself stays. *)
RemovedNext(a, n, num) ==
  [i \in DOMAIN a |-> IF i \in n + 1 .. num - 2 THEN a[i + 1] ELSE a[i]]

(* a with slot n taken out: the slots up to num - 1 move down. *)
Removed(a, n, num) ==
  [i \in DOMAIN a |-> IF i \in n .. num - 2 THEN a[i + 1] ELSE a[i]]

(* remove_nth(n), and pop_front, which is remove_nth(0). *)
RemoveNth(l, n) ==
  /\ n \in 0 .. num_entries[l] - 1
  /\ Write(l, Removed(Array(l), n, num_entries[l]))
  /\ num_entries' = [num_entries EXCEPT ![l] = @ - 1]
  /\ ret' = Array(l)[n]
  /\ UNCHANGED max_entries

member_pos(l, v) ==
  LET at == {i \in 0 .. num_entries[l] - 1 : Array(l)[i] = v}
  IN  IF at = {} THEN -1 ELSE CHOOSE i \in at : \A j \in at : i <= j

Remove(l, v) ==
  /\ member_pos(l, v) # -1
  /\ Write(l, Removed(Array(l), member_pos(l, v), num_entries[l]))
  /\ num_entries' = [num_entries EXCEPT ![l] = @ - 1]
  /\ ret' = nullptr
  /\ UNCHANGED max_entries

RemoveMissing(l, v) ==
  /\ member_pos(l, v) = -1
  /\ ret' = nullptr
  /\ UNCHANGED << memory, entries, num_entries, max_entries >>

Get(l) ==
  /\ num_entries[l] > 0
  /\ num_entries' = [num_entries EXCEPT ![l] = @ - 1]
  /\ ret' = Array(l)[num_entries[l] - 1]
  /\ UNCHANGED << memory, entries, max_entries >>

Replace(l, ent_index, v) ==
  /\ ent_index \in 0 .. num_entries[l] - 1
  /\ Write(l, [Array(l) EXCEPT ![ent_index] = v])
  /\ ret' = Array(l)[ent_index]
  /\ UNCHANGED << num_entries, max_entries >>

(* All slots from num on are null, but the one that is replaced. *)
Padded(a, num, ent_index, v) ==
  [i \in DOMAIN a |-> IF i = ent_index THEN v
                      ELSE IF i >= num THEN nullptr ELSE a[i]]

(* Replacement beyond the end: resize(ent_index + 1), which may also       *)
(* shrink the array, and all of it in use afterwards.                      *)
ReplaceBeyond(l, ent_index, v) ==
  LET size == ent_index + 1 IN
  /\ ent_index >= num_entries[l] /\ size <= longest[l]
  /\ IF size = max_entries[l]
     THEN Write(l, Padded(Array(l), num_entries[l], ent_index, v))
     ELSE Realloc(l, Padded(Resized(Array(l), size), num_entries[l], ent_index, v))
  /\ max_entries' = [max_entries EXCEPT ![l] = size]
  /\ num_entries' = [num_entries EXCEPT ![l] = size]
  /\ ret' = nullptr

(* sort: qsort leaves the entries in ascending order. *)
Sort(l) ==
  LET n == num_entries[l]
      a == Array(l)
  IN  /\ entries[l] # NoBlock
      /\ \E p \in {q \in [0 .. n - 1 -> 0 .. n - 1] :
                     \A i, j \in 0 .. n - 1 :
                       i < j => q[i] # q[j] /\ a[q[i]] <= a[q[j]]} :
           Write(l, [i \in DOMAIN a |-> IF i < n THEN a[p[i]] ELSE a[i]])
      /\ ret' = nullptr
      /\ UNCHANGED << num_entries, max_entries >>

-----------------------------------------------------------------------------
Used == {l \in Lists : longest[l] > 0}

Sizes(l) == 0 .. longest[l]

Next ==
  /\ \/ \E l \in Used : ConstructEmpty(l) \/ Get(l) \/ Sort(l)  \* and clear()
     \/ \E l \in Used : \E n \in Sizes(l) :
          \/ ConstructSized(l, n) \/ Resize(l, n) \/ RemoveNth(l, n)
          \/ \E arr \in [0 .. n - 1 -> Values] : ConstructFrom(l, n, arr)
     \/ \E l \in Used, v \in Values :
          \/ Insert(l, v) \/ PushBack(l, v) \/ SortedInsert(l, v)
          \/ Remove(l, v) \/ RemoveMissing(l, v)
          \/ \E n \in Sizes(l) : Replace(l, n, v) \/ ReplaceBeyond(l, n, v)
     \/ \E l, b \in Used : Copy(l, b) \/ Move(l, b)
  /\ UNCHANGED longest

Spec == Init /\ [][Next]_vars

-----------------------------------------------------------------------------
(* Properties *)

Slots(l) == 0 .. max_entries[l] - 1

(* The C heap: a list has the block it counts the slots of, to itself, and *)
(* no block is left over; slots in use have been written.  So no array is  *)
(* freed twice, leaked, written beyond its end, seen through two lists or  *)
(* read before it is set, whatever is moved, shrunk or replaced.           *)
BlocksOwned ==
  /\ \A l \in Lists : /\ num_entries[l] <= max_entries[l]
                      /\ DOMAIN Array(l) = Slots(l)
                      /\ entries[l] # NoBlock => entries[l] \in DOMAIN memory
                      /\ \A i \in 0 .. num_entries[l] - 1 : Array(l)[i] # Junk
  /\ \A l, m \in Lists : l # m /\ entries[l] # NoBlock => entries[l] # entries[m]
  /\ \A b \in DOMAIN memory : \E l \in Lists : entries[l] = b

(* The lists as sequences, and a call that makes that of l the sequence s. *)
Held == [l \in Lists |-> [i \in 1 .. num_entries[l] |-> Array(l)[i - 1]]]

Ascending(s) == \A i, j \in DOMAIN s : i < j => s[i] <= s[j]

HeldBecomes(l, s) == Held' = [Held EXCEPT ![l] = s]

Without(s, n) == SubSeq(s, 1, n - 1) \o SubSeq(s, n + 1, Len(s))

Nulls(n) == [i \in 1 .. n |-> nullptr]

(* A call that puts the entries of l, the sequence s, in ascending order. *)
HeldSorted(l, s) ==
  /\ \A i, j \in DOMAIN s : i < j => Held[l]'[i] <= Held[l]'[j]
  /\ \E p \in [DOMAIN s -> DOMAIN s] :
       /\ \A i, j \in DOMAIN s : p[i] = p[j] => i = j
       /\ HeldBecomes(l, [i \in DOMAIN s |-> s[p[i]]])

(* What the calls make of the sequences. *)
SequenceCalls ==
  \A l \in Lists :
    LET s == Held[l] IN
    /\ \A v \in Values :
         /\ Insert(l, v) => HeldBecomes(l, << v >> \o s)
         /\ PushBack(l, v) => HeldBecomes(l, Append(s, v))
         /\ SortedInsert(l, v) =>
              \E n \in 0 .. Len(s) :
                HeldBecomes(l, SubSeq(s, 1, n) \o << v >> \o SubSeq(s, n + 1, Len(s)))
         /\ Remove(l, v) => HeldBecomes(l, Without(s, member_pos(l, v) + 1))
         /\ \A n \in Sizes(l) :
              /\ Replace(l, n, v) =>
                   ret' = s[n + 1] /\ HeldBecomes(l, [s EXCEPT ![n + 1] = v])
              /\ ReplaceBeyond(l, n, v) =>
                   HeldBecomes(l, s \o Nulls(n - Len(s)) \o << v >>)
    /\ \A n \in Sizes(l) :
         /\ Resize(l, n) => HeldBecomes(l, s)
         /\ RemoveNth(l, n) =>
              ret' = s[n + 1] /\ HeldBecomes(l, Without(s, n + 1))
    /\ Get(l) => ret' = s[Len(s)] /\ HeldBecomes(l, SubSeq(s, 1, Len(s) - 1))
    /\ Sort(l) => HeldSorted(l, s)
    /\ \A b \in Lists :
         /\ Copy(l, b) => HeldBecomes(l, Held[b])
         /\ Move(l, b) => Held' = [Held EXCEPT ![l] = Held[b], ![b] = << >>]

(* Whatever array, capacity or block they work on, the calls act on one    *)
(* sequence and leave the others alone: a copy is independent of what it   *)
(* was copied from, a list that was moved from is empty, resize drops      *)
(* nothing, sortedinsert puts its entry in and changes no other, and       *)
(* replace beyond the end fills with null up to its index and no further,  *)
(* although it puts the whole capacity to use.  Where sortedinsert puts    *)
(* its entry is left to SortedInsertKeepsOrder.                            *)
CallsActOnSequences == [][SequenceCalls]_vars

(* sortedinsert() puts its entry at the correct position of a sorted list: *)
(* one in the order that sort() leaves by the same comparison, which two   *)
(* different entries show, is in order afterwards.  The loop moves the     *)
(* entry past those it is greater than, from the end, so this fails: it    *)
(* keeps a list in order only if that descends.                            *)
SortedInsertKeepsOrder ==
  [][\A l \in Lists, v \in Values :
       /\ SortedInsert(l, v) /\ Ascending(Held[l])
       /\ \E i, j \in DOMAIN Held[l] : Held[l][i] # Held[l][j]
       => Ascending(Held[l]')]_vars
=============================================================================
