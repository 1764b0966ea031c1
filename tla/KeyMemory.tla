----------------------------- MODULE KeyMemory -----------------------------
(***************************************************************************)
(* Who owns the memory of a key: class HashKey of dict/Hash.cc, struct     *)
(* DictEntry of dict/OpenDict.h and the calls of Dictionary that pass keys *)
(* between them.  A key of at most 8 bytes is kept inside the DictEntry, a *)
(* longer one in a buffer the entry owns.  The copies of a DictEntry that  *)
(* the dictionary keeps beside the table, in "order" and in the robust     *)
(* cookies, have the same pointer and own nothing.                         *)
(*                                                                         *)
(* The table is reduced to the entries it holds, and a key to its bytes, a *)
(* name; a lookup finds what is in the table.  Which copies a call makes   *)
(* depends on positions, and is left open.  That delete and delete[] are   *)
(* both used on new char[] is left out, and so is copying a HashKey, which *)
(* no code does.                                                           *)
(***************************************************************************)
EXTENDS Integers, Sequences

CONSTANTS
  HashKeys,   \* the HashKey objects
  Buffers,    \* what "new char[]" can return
  ShortKeys,  \* keys of at most 8 bytes
  LongKeys,
  Inside,     \* the key is in the object: key_u, key_here
  Elsewhere   \* the key is in memory of the caller that is never freed

KeyNames == ShortKeys \cup LongKeys

VARIABLES
  heap,      \* the allocated buffers and the key each holds
  hash_key,  \* the live HashKeys: key, is_our_dynamic, name, handed over?
  entry,     \* the keys in the dictionary and where each DictEntry has it
  callers,   \* buffers that belong to the caller
  ordered,   \* "order" is not null
  order,     \* the copies in it
  iterating, \* there are robust cookies
  inserted,  \* the copies in their queues "inserted"
  visited    \* and in their lists "visited"

copies == << ordered, order, iterating, inserted, visited >>

dictionary == << entry, copies >>

vars == << heap, hash_key, callers, dictionary >>

Init ==
  /\ heap = << >>
  /\ hash_key = << >>
  /\ entry = << >>
  /\ callers = {}
  /\ ordered \in BOOLEAN /\ order = << >>
  /\ iterating = FALSE /\ inserted = {} /\ visited = {}

Unallocated == Buffers \ DOMAIN heap

(* The function f without the arguments in S, and with x mapped to y. *)
Without(f, S) == [x \in DOMAIN f \ S |-> f[x]]

With(f, x, y) == [z \in DOMAIN f \cup {x} |-> IF z = x THEN y ELSE f[z]]

(* The DictEntry of each key in the table: a copy of it is equal. *)
Entries == {[name |-> n, key |-> entry[n]] : n \in DOMAIN entry}

Dangling(c) == c.key \in Unallocated

(* DictEntry::operator==, with the entry of "name": the hashes, and then   *)
(* the bytes that c.key points to, which may be any in freed memory.       *)
MayEqual(c, name) ==
  c.name = name /\ (c.key \in DOMAIN heap => heap[c.key] = name)

(* A client does not use a HashKey once it has handed its key over. *)
Usable(h) == h \in DOMAIN hash_key /\ ~hash_key[h].handed

-----------------------------------------------------------------------------
(* Constructors *)

Construct(h, name, where, dynamic) ==
  /\ h \notin DOMAIN hash_key
  /\ hash_key' = With(hash_key, h, [name |-> name, key |-> where,
                                    is_our_dynamic |-> dynamic, handed |-> FALSE])

(* From an integer, a double or a pointer: the key is in the object. *)
ConstructInside(h, name) ==
  /\ name \in ShortKeys
  /\ Construct(h, name, Inside, FALSE)
  /\ UNCHANGED << heap, dictionary, callers >>

(* From an array or a string, or with dont_copy. *)
ConstructBorrowing(h, name) ==
  /\ Construct(h, name, Elsewhere, FALSE)
  /\ UNCHANGED << heap, dictionary, callers >>

(* With copy_key, or from bytes. *)
CopyKey(h, name) ==
  \E b \in Unallocated :
    /\ heap' = With(heap, b, name)
    /\ Construct(h, name, b, TRUE)

ConstructCopying(h, name) ==
  /\ CopyKey(h, name)
  /\ UNCHANGED << dictionary, callers >>

(* Without copy_key: a buffer of the caller's now belongs to the HashKey. *)
ConstructTaking(h, b) ==
  /\ b \in callers
  /\ Construct(h, heap[b], b, TRUE)
  /\ callers' = callers \ {b}
  /\ UNCHANGED << heap, dictionary >>

Destroy(h) ==
  /\ h \in DOMAIN hash_key
  /\ heap' = IF hash_key[h].is_our_dynamic
             THEN Without(heap, {hash_key[h].key}) ELSE heap
  /\ hash_key' = Without(hash_key, {h})
  /\ UNCHANGED << dictionary, callers >>

-----------------------------------------------------------------------------
(* TakeKey() hands over buffer b: the HashKey's own, or a copy. *)
Taken(h, b) ==
  IF hash_key[h].is_our_dynamic
  THEN /\ b = hash_key[h].key
       /\ hash_key' = [hash_key EXCEPT ![h].is_our_dynamic = FALSE,
                                       ![h].handed = TRUE]
  ELSE /\ b \in Unallocated
       /\ UNCHANGED hash_key

(* The client calls TakeKey() itself. *)
TakeKey(h) ==
  /\ Usable(h)
  /\ \E b \in Buffers :
       /\ Taken(h, b)
       /\ heap' = With(heap, b, hash_key[h].name)
       /\ callers' = callers \cup {b}
  /\ UNCHANGED dictionary

CallerFrees(b) ==
  /\ b \in callers
  /\ heap' = Without(heap, {b})
  /\ callers' = callers \ {b}
  /\ UNCHANGED << hash_key, dictionary >>

-----------------------------------------------------------------------------
(* Mutant: an overwritten entry does not free the key it was given. *)
StoreNew(name, b) ==
  IF name \in DOMAIN entry
  THEN /\ heap' = With(heap, b, name)
       /\ UNCHANGED entry
  ELSE IF name \in ShortKeys
  THEN /\ heap' = Without(heap, {b})
       /\ entry' = With(entry, name, Inside)
  ELSE /\ heap' = With(heap, b, name)
       /\ entry' = With(entry, name, b)

(* Insert(key, ..., copy_key = 0) owns b: an entry that is there keeps its *)
(* own key, a short key is copied into the entry, a long one stays in b.   *)
Store(name, b) ==
  IF name \in DOMAIN entry
  THEN /\ heap' = Without(heap, {b})
       /\ UNCHANGED entry
  ELSE IF name \in ShortKeys
  THEN /\ heap' = Without(heap, {b})
       /\ entry' = With(entry, name, Inside)
  ELSE /\ heap' = With(heap, b, name)
       /\ entry' = With(entry, name, b)

(***************************************************************************)
(* What the copies do in Insert.  The reference that order and the cookies *)
(* copy from is, after the relocation, the new entry or one it displaced;  *)
(* a cookie in the middle of what moved also notes an entry as visited.    *)
(* An overwritten key has to be found in order: that is asserted.          *)
(***************************************************************************)
CopyEntries(name) ==
  IF name \in DOMAIN entry
  THEN /\ ordered => \E i \in DOMAIN order : MayEqual(order[i], name)
       /\ UNCHANGED copies
  ELSE /\ \E e \in Entries' :
            /\ order' = IF ordered THEN Append(order, e) ELSE order
            /\ inserted' \in {inserted} \cup (IF iterating THEN {inserted \cup {e}} ELSE {})
       /\ \E moved \in SUBSET Entries' :
            /\ visited' = visited \cup moved
            /\ moved # {} => iterating
       /\ UNCHANGED << ordered, iterating >>

(* Insert(HashKey*, val): the key is taken from the HashKey. *)
Insert(h) ==
  /\ Usable(h)
  /\ \E b \in Buffers : Taken(h, b) /\ Store(hash_key[h].name, b)
  /\ CopyEntries(hash_key[h].name)
  /\ UNCHANGED callers

(* Insert(..., copy_key = 1): the caller keeps its key. *)
InsertCopying(name) ==
  /\ IF name \in DOMAIN entry
     THEN UNCHANGED << heap, entry >>
     ELSE IF name \in ShortKeys
     THEN /\ entry' = With(entry, name, Inside)
          /\ UNCHANGED heap
     ELSE \E b \in Unallocated :
            /\ heap' = With(heap, b, name)
            /\ entry' = With(entry, name, b)
  /\ CopyEntries(name)
  /\ UNCHANGED << hash_key, callers >>

-----------------------------------------------------------------------------
(* order->erase(std::remove(...)) on a vector whose elements at "equal"    *)
(* compare equal: one element goes, and the vector keeps its old end.      *)
EraseOne(seq, equal) ==
  LET kept[n \in 0 .. Len(seq)] ==
        IF n = 0 THEN << >>
        ELSE IF n \in equal THEN kept[n - 1]
        ELSE Append(kept[n - 1], seq[n])
  IN  kept[Len(seq)] \o SubSeq(seq, Len(kept[Len(seq)]) + 2, Len(seq))

(* An element that is not in order would be undefined behaviour.           *)
EraseFromOrder(name) ==
  IF ~ordered THEN UNCHANGED order
  ELSE \E equal \in SUBSET {i \in DOMAIN order : MayEqual(order[i], name)} :
         /\ equal # {}
         /\ \A i \in DOMAIN order \ equal : Dangling(order[i]) \/ ~MayEqual(order[i], name)
         /\ order' = EraseOne(order, equal)

(* Mutant: the removed entry stays in the queues of the cookies. *)
AdjustOnRemoveKeeping(name) ==
  \E moved \in SUBSET Entries' :
    /\ moved # {} => iterating
    /\ inserted' = inserted \cup moved

(* AdjustOnRemove at every cookie: the removed entry leaves its queue, and *)
(* one that moved past the cookie may join it.                             *)
AdjustOnRemove(name) ==
  \E moved \in SUBSET Entries' :
    /\ moved # {} => iterating
    /\ inserted' = {c \in inserted : ~MayEqual(c, name)} \cup moved

(* Remove: DictEntry::Clear() releases a long key.  The lists "visited"    *)
(* are not searched for it.                                                *)
Remove(name) ==
  /\ name \in DOMAIN entry
  /\ entry' = Without(entry, {name})
  /\ AdjustOnRemove(name)
  /\ EraseFromOrder(name)
  /\ heap' = Without(heap, {entry[name]})
  /\ UNCHANGED << hash_key, callers, ordered, iterating, visited >>

(* Clear() deletes "order" for good.  It does not tell the cookies, so no  *)
(* client calls it during an iteration.                                    *)
Clear ==
  /\ ~iterating
  /\ heap' = Without(heap, {entry[name] : name \in DOMAIN entry})
  /\ entry' = << >>
  /\ ordered' = FALSE /\ order' = << >>
  /\ UNCHANGED << hash_key, callers, iterating, inserted, visited >>

-----------------------------------------------------------------------------
(* Iteration: what the robust cookies hold, together. *)

MakeRobustCookie ==
  /\ iterating' = TRUE
  /\ UNCHANGED << heap, hash_key, callers, entry, ordered, order, inserted, visited >>

(* StopIteration, or the end in NextEntry: a cookie goes, with its copies. *)
DeleteCookie ==
  /\ iterating
  /\ iterating' \in BOOLEAN
  /\ inserted' \in SUBSET (IF iterating' THEN inserted ELSE {})
  /\ visited' \in SUBSET (IF iterating' THEN visited ELSE {})
  /\ UNCHANGED << heap, hash_key, callers, entry, ordered, order >>

(* NextEntry with return_hash makes a HashKey with a copy of the key, from *)
(* the last copy in the queue, which may be there again, or else from the  *)
(* next entry in the table that is not noted as visited.                   *)
NextInserted(h) ==
  /\ \E c \in inserted :
       /\ CopyKey(h, IF c.key \in DOMAIN heap THEN heap[c.key] ELSE c.name)
       /\ inserted' \in {inserted, inserted \ {c}}
  /\ UNCHANGED << callers, entry, ordered, order, iterating, visited >>

NextInTable(h) ==
  /\ \E e \in Entries : CopyKey(h, e.name)
  /\ visited' \in SUBSET visited
  /\ UNCHANGED << callers, entry, ordered, order, iterating, inserted >>

NextEntry(h) == NextInserted(h) \/ NextInTable(h)

-----------------------------------------------------------------------------
Next ==
  \/ \E h \in HashKeys, name \in KeyNames :
       \/ ConstructInside(h, name) \/ ConstructBorrowing(h, name)
       \/ ConstructCopying(h, name)
  \/ \E h \in HashKeys : Destroy(h) \/ TakeKey(h) \/ Insert(h) \/ NextEntry(h)
  \/ \E h \in HashKeys, b \in Buffers : ConstructTaking(h, b)
  \/ \E b \in Buffers : CallerFrees(b)
  \/ \E name \in KeyNames : InsertCopying(name) \/ Remove(name)
  \/ Clear \/ MakeRobustCookie \/ DeleteCookie

Spec == Init /\ [][Next]_vars

-----------------------------------------------------------------------------
(* Properties *)

Claims(b) ==
  {<< "HashKey", h >> : h \in {k \in DOMAIN hash_key :
                                 hash_key[k].is_our_dynamic /\ hash_key[k].key = b}}
  \cup {<< "DictEntry", n >> : n \in {m \in DOMAIN entry : entry[m] = b}}
  \cup {<< "caller", b >> : c \in {d \in callers : d = b}}

(* Every allocated buffer has exactly one owner, which is the one that     *)
(* will free it, and nobody owns a buffer that has been freed: no key is   *)
(* leaked or freed twice, however it was passed on.                        *)
FreedOnce ==
  \A b \in Buffers : IF b \in DOMAIN heap
                     THEN \E owner \in Claims(b) : Claims(b) = {owner}
                     ELSE Claims(b) = {}

(* c reads the bytes of its key. *)
Readable(c) ==
  IF c.name \in ShortKeys THEN c.key = Inside
  ELSE c.key \in DOMAIN heap /\ heap[c.key] = c.name

(* A HashKey that has not handed its key over, every entry in the table    *)
(* and every copy that waits in the queue of a cookie, which NextEntry     *)
(* will read, has the bytes it was made with: no one frees or replaces     *)
(* them underneath.  The copies in "order" and "visited" are not promised  *)
(* that: Remove frees the key of a copy that is left in them.              *)
KeysReadable ==
  /\ \A h \in DOMAIN hash_key : LET k == hash_key[h] IN
       ~k.handed /\ k.key \in Buffers => k.key \in DOMAIN heap /\ heap[k.key] = k.name
  /\ \A c \in Entries \cup inserted : Readable(c)
=============================================================================
