--------------------------- MODULE ClusteredTable ---------------------------
(***************************************************************************)
(* The table of dict/OpenDict.cc: clustered (robin-hood) hashing with      *)
(* incremental resize.  This module has no state.  It holds the functions  *)
(* of class Dictionary that read or rearrange the table, as operators over *)
(* a table value t, the record of the members they touch:                  *)
(*                                                                         *)
(*   t.table         the slots, a function on 0 .. Capacity(t) - 1;        *)
(*                   << >> stands for the null pointer before Init()       *)
(*   t.log2_buckets  the table has 2^log2_buckets buckets                  *)
(*   t.remap_end     last position that may hold entries of older sizes,   *)
(*                   -1 when no remapping is in progress                   *)
(*   t.remaps        how many older sizes such an entry may belong to      *)
(*                                                                         *)
(* An entry's hash is a function of its key.  FibHash multiplies by an odd *)
(* number, a bijection on the low bits, so Hash[k] stands for the whole    *)
(* FibHash value and BucketByHash keeps its low bits.                      *)
(***************************************************************************)
EXTENDS Integers, FiniteSets, FiniteSetsExt, Sequences

CONSTANTS
  Keys,           \* the keys clients use
  Vals,           \* the values clients store
  Hash,           \* Hash[k]: the FibHash of key k
  RemapEntries,   \* DICT_REMAP_ENTRIES: entries moved by one Remap()
  ThresholdBits,  \* DICT_THRESHOLD_BITS
  LoadFactorBits  \* DICT_LOAD_FACTOR_BITS

ASSUME TableAssumption ==
  /\ Hash \in [Keys -> Nat]
  /\ RemapEntries \in Nat \ {0}
  /\ ThresholdBits \in Nat
  /\ LoadFactorBits \in Nat \ {0}

(* The distance that marks an empty slot; real distances stay far below. *)
TOO_FAR_TO_REACH == 65535

EmptySlot == [distance |-> TOO_FAR_TO_REACH]

Entry(k, v, d) == [key |-> k, value |-> v, distance |-> d]

(* Every "while (i < hi && !Stop(i)) i++" of the code, started at lo. *)
First(lo, hi, Stop(_)) ==
  IF lo >= hi THEN lo ELSE Min({i \in lo .. hi : i = hi \/ Stop(i)})

-----------------------------------------------------------------------------
(* Bucket math *)

(* 1 << n *)
Pow2[n \in Nat] == IF n = 0 THEN 1 ELSE 2 * Pow2[n - 1]

CapacityOf(bits) == Pow2[bits] + bits

Capacity(t) == IF t.table = << >> THEN 0 ELSE CapacityOf(t.log2_buckets)

ThresholdEntries(t) ==
  IF t.log2_buckets <= ThresholdBits
  THEN Capacity(t)
  ELSE Capacity(t) - Capacity(t) \div Pow2[LoadFactorBits]

BucketByHash(k, bits) == Hash[k] % Pow2[bits]

Empty(t, p) == t.table[p].distance = TOO_FAR_TO_REACH

BucketByPosition(t, p) == p - t.table[p].distance

(* The positions that hold an entry. *)
Occupied(t) == {p \in DOMAIN t.table : ~Empty(t, p)}

NewTable(bits) == [i \in 0 .. CapacityOf(bits) - 1 |-> EmptySlot]

-----------------------------------------------------------------------------
(* Cluster math *)

EndOfClusterByBucket(t, bucket) ==
  First(bucket, Capacity(t),
        LAMBDA i : Empty(t, i) \/ BucketByPosition(t, i) > bucket)

TailOfClusterByPosition(t, p) ==
  First(p, Capacity(t),
        LAMBDA i : Empty(t, i) \/ BucketByPosition(t, i) # BucketByPosition(t, p)) - 1

(* The backward scan stops at the first position of another bucket or just *)
(* below the bucket itself; the result is one up, except at the bucket.    *)
HeadOfClusterByPosition(t, p) ==
  LET bucket == BucketByPosition(t, p)
      i == Max({bucket - 1} \cup
               {j \in bucket .. p : BucketByPosition(t, j) # bucket})
  IN  IF i = bucket THEN i ELSE i + 1

(* Mutant: Next() without its loop over empty slots. *)
NextSlot(t, p) == p + 1

(* Mutant: Next() that looks at its own position first. *)
NextOccupiedFrom(t, p) ==
  IF p < 0 THEN First(0, Capacity(t), LAMBDA i : ~Empty(t, i))
  ELSE First(p, Capacity(t), LAMBDA i : ~Empty(t, i))

NextOccupied(t, p) == First(p + 1, Capacity(t), LAMBDA i : ~Empty(t, i))

-----------------------------------------------------------------------------
(* Growing: slots are copied without remapping. *)

(* Mutant: remap_end at the end of the new table. *)
SizeUpToNewEnd(t) ==
  [log2_buckets |-> t.log2_buckets + 1,
   table |-> [i \in 0 .. CapacityOf(t.log2_buckets + 1) - 1 |->
                IF i < Capacity(t) THEN t.table[i] ELSE EmptySlot],
   remap_end |-> CapacityOf(t.log2_buckets + 1),
   remaps |-> t.remaps + 1]

(* Mutant: remap_end = prev_capacity - 1, the value the comment in SizeUp warns of. *)
SizeUpShort(t) ==
  [log2_buckets |-> t.log2_buckets + 1,
   table |-> [i \in 0 .. CapacityOf(t.log2_buckets + 1) - 1 |->
                IF i < Capacity(t) THEN t.table[i] ELSE EmptySlot],
   remap_end |-> Capacity(t) - 1,
   remaps |-> t.remaps + 1]

(* Mutant: the last of the old slots is not copied. *)
SizeUpCopyingLess(t) ==
  [log2_buckets |-> t.log2_buckets + 1,
   table |-> [i \in 0 .. CapacityOf(t.log2_buckets + 1) - 1 |->
                IF i < Capacity(t) - 1 THEN t.table[i] ELSE EmptySlot],
   remap_end |-> Capacity(t),
   remaps |-> t.remaps + 1]

SizeUp(t) ==
  [log2_buckets |-> t.log2_buckets + 1,
   table |-> [i \in 0 .. CapacityOf(t.log2_buckets + 1) - 1 |->
                IF i < Capacity(t) THEN t.table[i] ELSE EmptySlot],
   remap_end |-> Capacity(t),
   remaps |-> t.remaps + 1]

(***************************************************************************)
(* Insertion at p0.  Each displaced entry, the head of its cluster, goes   *)
(* to the end of that cluster, down to the first empty slot or past the    *)
(* last one, where the table grows.  The code passes the entry by          *)
(* reference and leaves the last displaced one in it: "entry".             *)
(***************************************************************************)
InsertAndRelocate(t, e, p0) ==
  LET last == First(p0, Capacity(t), LAMBDA i : Empty(t, i))
      chain == {p0} \cup
               {p \in p0 + 1 .. last :
                  p = last \/ BucketByPosition(t, p) # BucketByPosition(t, p - 1)}
      From(p) == Max({q \in chain : q < p})
      Placed(p) == IF p = p0
                   THEN e
                   ELSE [t.table[From(p)] EXCEPT !.distance = @ + p - From(p)]
      grown == IF last = Capacity(t) THEN SizeUp(t) ELSE t
  IN  [t |-> [grown EXCEPT !.table =
                [p \in DOMAIN grown.table |->
                   IF p \in chain THEN Placed(p) ELSE grown.table[p]]],
       entry |-> Placed(last),
       last_affected |-> last]

(* Mutant: the shift goes on over entries that are in their own bucket. *)
RemovePastBucket(t, p0) ==
  LET last == First(p0, Capacity(t) - 1,
                    LAMBDA q : Empty(t, q + 1))
      chain == {p0} \cup
               {q \in p0 + 1 .. last :
                  q = last \/ BucketByPosition(t, q + 1) # BucketByPosition(t, q)}
      From(p) == Min({q \in chain : q > p})
      Filled(p) == IF p = last
                   THEN EmptySlot
                   ELSE [t.table[From(p)] EXCEPT !.distance = @ - (From(p) - p)]
  IN  [t |-> [t EXCEPT !.table =
                [p \in DOMAIN t.table |->
                   IF p \in chain THEN Filled(p) ELSE t.table[p]]],
       entry |-> t.table[p0],
       last_affected |-> last]

(***************************************************************************)
(* Removal at p0: the hole is filled with the tail of the next cluster     *)
(* until the next slot is empty or holds an entry in its own bucket.       *)
(***************************************************************************)
RemoveAndRelocate(t, p0) ==
  LET last == First(p0, Capacity(t) - 1,
                    LAMBDA q : Empty(t, q + 1) \/ t.table[q + 1].distance = 0)
      chain == {p0} \cup
               {q \in p0 + 1 .. last :
                  q = last \/ BucketByPosition(t, q + 1) # BucketByPosition(t, q)}
      From(p) == Min({q \in chain : q > p})
      Filled(p) == IF p = last
                   THEN EmptySlot
                   ELSE [t.table[From(p)] EXCEPT !.distance = @ - (From(p) - p)]
  IN  [t |-> [t EXCEPT !.table =
                [p \in DOMAIN t.table |->
                   IF p \in chain THEN Filled(p) ELSE t.table[p]]],
       entry |-> t.table[p0],
       last_affected |-> last]

-----------------------------------------------------------------------------
(* Remapping one entry to its bucket at the current size. *)

MoveTo(removed, e, bucket, ip) ==
  [t |-> InsertAndRelocate(removed, [e EXCEPT !.distance = ip - bucket], ip).t,
   position |-> ip]

MoveToBucket(removed, e, bucket) ==
  MoveTo(removed, e, bucket, EndOfClusterByBucket(removed, bucket))

RemapAt(t, p) ==
  LET expected == BucketByHash(t.table[p].key, t.log2_buckets)
  IN  IF BucketByPosition(t, p) = expected
      THEN [t |-> t, position |-> p]
      ELSE MoveToBucket(RemoveAndRelocate(t, p).t, t.table[p], expected)

(***************************************************************************)
(* Remap().  The loop walks remap_end down to the next entry that is not   *)
(* in its bucket and remaps it, RemapEntries times or until none is left.  *)
(***************************************************************************)
Misplaced(t) ==
  {p \in Occupied(t) : BucketByPosition(t, p) # BucketByHash(t.table[p].key, t.log2_buckets)}

RemapNext(t) ==
  LET below == {p \in Misplaced(t) : p <= t.remap_end}
  IN  IF below = {}
      THEN [t EXCEPT !.remap_end = -1]
      ELSE RemapAt([t EXCEPT !.remap_end = Max(below)], Max(below)).t

Remap(t) ==
  LET turn[n \in 0 .. RemapEntries] == IF n = 0 THEN t ELSE RemapNext(turn[n - 1])
      done == turn[RemapEntries]
  IN  IF done.remap_end < 0 THEN [done EXCEPT !.remaps = 0] ELSE done

-----------------------------------------------------------------------------
(* Lookup *)

(* The scan of one size, from bucket to end: the position of k, or -1. *)
ScanEnd(t, bucket, end) ==
  First(bucket, end, LAMBDA i : Empty(t, i) \/ BucketByPosition(t, i) > bucket)

ScanFor(t, k, bucket, end) ==
  LET hits == {i \in bucket .. ScanEnd(t, bucket, end) - 1 :
                 BucketByPosition(t, i) = bucket /\ t.table[i].key = k}
  IN  IF hits = {} THEN -1 ELSE Min(hits)

(* The scan at the current size. *)
ScanCurrent(t, k) ==
  ScanFor(t, k, BucketByHash(k, t.log2_buckets), Capacity(t))

(* The scan at the size i doublings ago; skipped above remap_end. *)
ScanOlder(t, k, i) ==
  LET bucket == BucketByHash(k, t.log2_buckets - i)
  IN  IF bucket <= t.remap_end THEN ScanFor(t, k, bucket, t.remap_end + 1) ELSE -1

(* Mutant: Lookup forgets the oldest size. *)
NewerSizesWith(t, k) == {i \in 1 .. t.remaps - 1 : ScanOlder(t, k, i) >= 0}

OlderSizesWith(t, k) == {i \in 1 .. t.remaps : ScanOlder(t, k, i) >= 0}

(* Where the first older size that has it has k. *)
OlderPosition(t, k) == ScanOlder(t, k, Min(OlderSizesWith(t, k)))

(***************************************************************************)
(* LookupIndex.  An entry found at an older size is remapped at once when  *)
(* no iteration is on: r.  The ASSERT that follows calls LookupIndex       *)
(* again, which may remap again when the first Remap grew the table: that  *)
(* second call needs no third, since it finds a table that is half empty.  *)
(***************************************************************************)
AssertFound(k, r) ==
  LET again == RemapAt(r.t, OlderPosition(r.t, k))
  IN  IF ScanCurrent(r.t, k) >= 0
      THEN [t |-> r.t, position |-> r.position,
            asserted |-> ScanCurrent(r.t, k) = r.position]
      ELSE IF OlderSizesWith(r.t, k) = {}
      THEN [t |-> r.t, position |-> r.position, asserted |-> FALSE]
      ELSE [t |-> again.t, position |-> r.position,
            asserted |-> again.position = r.position]

LookupIndex(t, k, iterating) ==
  IF t.table = << >>
  THEN [t |-> t, position |-> -1, asserted |-> TRUE]
  ELSE IF ScanCurrent(t, k) >= 0 \/ OlderSizesWith(t, k) = {}
  THEN [t |-> t, position |-> ScanCurrent(t, k), asserted |-> TRUE]
  ELSE IF iterating
  THEN [t |-> t, position |-> OlderPosition(t, k), asserted |-> TRUE]
  ELSE AssertFound(k, RemapAt(t, OlderPosition(t, k)))

(* LinearLookupIndex, "for verification purposes". *)
LinearLookupIndex(t, k) ==
  LET hits == {p \in Occupied(t) : t.table[p].key = k}
  IN  IF hits = {} THEN -1 ELSE Min(hits)
=============================================================================
