------------------------------ MODULE OpenDict ------------------------------
(***************************************************************************)
(* Class Dictionary of dict/OpenDict.cc and OpenDict.h as a state machine: *)
(* one action per public operation, each the whole call with the resizing, *)
(* remapping and cookie adjustment it triggers.  The table functions are   *)
(* in ClusteredTable.                                                      *)
(*                                                                         *)
(* Left out: the statistics max_entries and cum_entries, delete_func, key  *)
(* memory (HashKey) and the dump functions.                                *)
(***************************************************************************)
EXTENDS ClusteredTable, Bags

CONSTANTS
  Cookies,                \* identities of iteration cookies
  NULL,                   \* the null pointer a call returns
  Ordered,                \* constructed with dict_order ORDERED?
  InitialSize,            \* the constructor's initial_size
  MaxLog2,                \* bound: no insertion that needs more buckets
  MaxRemaps,              \* bound: no insertion that leaves more resizes unfinished
  MaxQueued,              \* bound: no change that queues more at a cookie
  ChangesWhileIterating   \* what clients do while an iteration is on

ASSUME DictAssumption ==
  /\ Ordered \in BOOLEAN
  /\ InitialSize \in Nat
  /\ MaxLog2 \in Nat /\ MaxRemaps \in Nat /\ MaxQueued \in Nat
  /\ NULL \notin Keys \cup Vals
  /\ ChangesWhileIterating \subseteq {"insert", "remove", "clear"}

VARIABLES
  t,              \* table, log2_buckets, remap_end and remaps: ClusteredTable
  num_entries,
  num_iterators,
  order,          \* the vector "order", or << >> when it is null
  ordered,        \* order is not null
  cookie,         \* the live IterCookie objects, by identity
  cookies,        \* the vector "cookies": the registered robust ones
  ret,            \* what the last call returned
  failed,         \* the ASSERT that aborted the program, or "none"
  owed,           \* history: entries a robust cookie still has to visit
  inserted_order  \* history: the present keys in the order of insertion

vars == << t, num_entries, num_iterators, order, ordered, cookie, cookies,
           ret, failed, owed, inserted_order >>

iteration == << num_iterators, cookie, cookies, owed >>
ordering == << order, ordered, inserted_order >>

(* The function f with x mapped to y. *)
With(f, x, y) == [z \in DOMAIN f \cup {x} |-> IF z = x THEN y ELSE f[z]]

KeysIn(tab) == {tab.table[p].key : p \in Occupied(tab)}

EntriesIn(tab) == {<< tab.table[p].key, tab.table[p].value >> : p \in Occupied(tab)}

Iterating == num_iterators > 0

(* The ASSERT at the head of Insert and Remove: a caller's obligation. *)
OnlyRobustIterators == num_iterators \in {0, Cardinality(cookies)}

May(change) == ~Iterating \/ change \in ChangesWhileIterating

(* The bound on what changes during an iteration pile up at a cookie. *)
QueuesBounded(cs) ==
  \A c \in DOMAIN cs : Len(cs[c].inserted) + BagCardinality(cs[c].visited) <= MaxQueued

Returns(op, k, v) == ret' = [op |-> op, key |-> k, value |-> v]

Abort(where) ==
  /\ failed' = where
  /\ UNCHANGED << t, num_entries, ret, iteration, ordering >>

-----------------------------------------------------------------------------
(* Construction: the table is allocated at once when a size is given. *)
Log2(n) == Max({0} \cup {i \in 0 .. n : Pow2[i] <= n})

Init ==
  /\ t = [log2_buckets |-> IF InitialSize > 0 THEN Log2(InitialSize) ELSE 0,
          table |-> IF InitialSize > 0 THEN NewTable(Log2(InitialSize)) ELSE << >>,
          remap_end |-> -1, remaps |-> 0]
  /\ num_entries = 0 /\ num_iterators = 0
  /\ order = << >> /\ ordered = Ordered
  /\ cookie = << >> /\ cookies = {}
  /\ ret = [op |-> "none", key |-> NULL, value |-> NULL]
  /\ failed = "none"
  /\ owed = << >> /\ inserted_order = << >>

-----------------------------------------------------------------------------
(* Lookup *)

Lookup(k) ==
  \E look \in {LookupIndex(t, k, Iterating)} :
      /\ failed = "none"
      /\ \/ /\ look.asserted
            /\ t' = look.t
            /\ Returns("lookup", k, IF look.position >= 0
                                    THEN look.t.table[look.position].value
                                    ELSE NULL)
            /\ UNCHANGED << num_entries, iteration, ordering, failed >>
         \/ ~look.asserted /\ Abort("LookupIndex:516")

-----------------------------------------------------------------------------
(* Insert *)

(* The table Insert works on: Init() allocates it on the first insertion. *)
Allocated ==
  IF t.table = << >> THEN [t EXCEPT !.table = NewTable(t.log2_buckets)] ELSE t

(* Remap() does nothing while an iteration is on. *)
RemapUnlessIterating(tab) ==
  IF tab.remap_end >= 0 /\ ~Iterating THEN Remap(tab) ELSE tab

(* vector::find compares keys; it finds the first entry. *)
IndexOf(seq, k) == {i \in DOMAIN seq : seq[i].key = k}

SetFirst(seq, k, v) ==
  IF IndexOf(seq, k) = {} THEN seq ELSE [seq EXCEPT ![Min(IndexOf(seq, k))].value = v]

Overwrite(k, v) ==
  \E look \in {LookupIndex(Allocated, k, Iterating)} :
      /\ failed = "none" /\ OnlyRobustIterators /\ May("insert")
      /\ look.position >= 0
      /\ \/ /\ look.asserted
            /\ ordered => IndexOf(order, k) # {}
            /\ t' = RemapUnlessIterating(
                      [look.t EXCEPT !.table[look.position].value = v])
            /\ order' = SetFirst(order, k, v)
            /\ cookie' = [c \in DOMAIN cookie |->
                            IF c \in cookies
                            THEN [cookie[c] EXCEPT !.inserted = SetFirst(@, k, v)]
                            ELSE cookie[c]]
            /\ Returns("insert", k, look.t.table[look.position].value)
            /\ UNCHANGED << num_entries, num_iterators, ordered, cookies, failed,
                            owed, inserted_order >>
         \/ ~look.asserted /\ Abort("LookupIndex:516")
         \/ /\ look.asserted
            /\ ordered /\ IndexOf(order, k) = {}
            /\ Abort("Insert:580")

(* AdjustOnInsert: e is the entry the reference holds after relocation. *)
AdjustOnInsert(c, tab, e, position, last_affected) ==
  [c EXCEPT
     !.inserted = IF position < c.next
                  THEN Append(@, [key |-> e.key, value |-> e.value]) ELSE @,
     !.visited = IF position < c.next /\ c.next <= last_affected
                 THEN @ (+) SetToBag({tab.table[TailOfClusterByPosition(tab, c.next)].key})
                 ELSE @]

(* remap_end steps out to cover old entries pushed past it. *)
CoverRelocated(tab, position, last_affected) ==
  IF position <= tab.remap_end /\ tab.remap_end < last_affected
  THEN [tab EXCEPT !.remap_end = last_affected]
  ELSE tab

InsertNew(k, v) ==
  LET bucket == BucketByHash(k, Allocated.log2_buckets)
      position == ScanEnd(Allocated, bucket, Capacity(Allocated))
      r == InsertAndRelocate(Allocated, Entry(k, v, position - bucket), position)
      relocated == CoverRelocated(r.t, position, r.last_affected)
      grown == IF num_entries + 1 > ThresholdEntries(relocated)
               THEN SizeUp(relocated) ELSE relocated
  IN  /\ failed = "none" /\ OnlyRobustIterators /\ May("insert")
      /\ LookupIndex(Allocated, k, Iterating).position < 0
      /\ t' = RemapUnlessIterating(grown)
      /\ t'.log2_buckets <= MaxLog2
      /\ t'.remaps <= MaxRemaps
      /\ num_entries' = num_entries + 1
      /\ cookie' = [c \in DOMAIN cookie |->
                      IF c \in cookies
                      THEN AdjustOnInsert(cookie[c], r.t, r.entry, position, r.last_affected)
                      ELSE cookie[c]]
      /\ QueuesBounded(cookie')
      /\ order' = IF ordered
                  THEN Append(order, [key |-> r.entry.key, value |-> r.entry.value])
                  ELSE order
      /\ Returns("insert", k, NULL)
      /\ owed' = [c \in DOMAIN owed |-> owed[c] \cup {k}]
      /\ inserted_order' = IF ordered THEN Append(inserted_order, k) ELSE << >>
      /\ UNCHANGED << num_iterators, ordered, cookies, failed >>

Insert(k, v) == Overwrite(k, v) \/ InsertNew(k, v)

-----------------------------------------------------------------------------
(* Remove *)

(* What std::remove keeps: the entries of other keys, in their order. *)
WithoutKey(seq, k) ==
  LET kept[n \in 0 .. Len(seq)] ==
        IF n = 0 THEN << >>
        ELSE IF seq[n].key = k THEN kept[n - 1]
        ELSE Append(kept[n - 1], seq[n])
  IN  kept[Len(seq)]

(* Mutant: the removed entry stays in the queue of the cookie. *)
AdjustOnRemoveKeeping(c, tab, k, position, last_affected, empty) ==
  LET moved == tab.table[Max({HeadOfClusterByPosition(tab, c.next - 1), position})]
      kept == c.inserted
  IN  [c EXCEPT
         !.inserted = IF position < c.next /\ c.next <= last_affected
                      THEN Append(kept, [key |-> moved.key, value |-> moved.value])
                      ELSE kept,
         !.next = IF \/ @ = -1 /\ empty
                     \/ @ >= 0 /\ @ < Capacity(tab) /\ Empty(tab, @)
                  THEN NextOccupied(tab, @) ELSE @]

(* Mutant: the entry that moves in front of the cookie is not queued. *)
AdjustOnRemoveForgetting(c, tab, k, position, last_affected, empty) ==
  LET kept == WithoutKey(c.inserted, k)
  IN  [c EXCEPT
         !.inserted = kept,
         !.next = IF \/ @ = -1 /\ empty
                     \/ @ >= 0 /\ @ < Capacity(tab) /\ Empty(tab, @)
                  THEN NextOccupied(tab, @) ELSE @]

(***************************************************************************)
(* AdjustOnRemove.  For a cookie that has not started, next is -1 and the  *)
(* last test reads the slot before the table: "empty" says what that       *)
(* memory happens to look like.                                            *)
(***************************************************************************)
AdjustOnRemove(c, tab, k, position, last_affected, empty) ==
  LET moved == tab.table[Max({HeadOfClusterByPosition(tab, c.next - 1), position})]
      kept == WithoutKey(c.inserted, k)
  IN  [c EXCEPT
         !.inserted = IF position < c.next /\ c.next <= last_affected
                      THEN Append(kept, [key |-> moved.key, value |-> moved.value])
                      ELSE kept,
         !.next = IF \/ @ = -1 /\ empty
                     \/ @ >= 0 /\ @ < Capacity(tab) /\ Empty(tab, @)
                  THEN NextOccupied(tab, @) ELSE @]

(* order->erase(std::remove(...)): one element goes, whatever remove left. *)
EraseOne(seq, k) ==
  LET kept == WithoutKey(seq, k)
  IN  kept \o SubSeq(seq, Len(kept) + 2, Len(seq))

RemoveMissing(k) ==
  \E look \in {LookupIndex(t, k, Iterating)} :
      /\ failed = "none" /\ OnlyRobustIterators /\ May("remove")
      /\ look.position < 0
      /\ Returns("remove", k, NULL)
      /\ UNCHANGED << t, num_entries, iteration, ordering, failed >>

RemoveFound(k) ==
  \E look \in {LookupIndex(t, k, Iterating)} :
  LET r == RemoveAndRelocate(look.t, look.position)
  IN  /\ failed = "none" /\ OnlyRobustIterators /\ May("remove")
      /\ look.position >= 0
      /\ \/ /\ look.asserted
            /\ ordered => IndexOf(order, k) # {}
            /\ t' = r.t
            /\ num_entries' = num_entries - 1
            /\ \E looksEmpty \in SUBSET {c \in cookies : cookie[c].next = -1} :
                 cookie' = [c \in DOMAIN cookie |->
                              IF c \in cookies
                              THEN AdjustOnRemove(cookie[c], r.t, k, look.position,
                                                  r.last_affected, c \in looksEmpty)
                              ELSE cookie[c]]
            /\ QueuesBounded(cookie')
            /\ order' = IF ordered THEN EraseOne(order, k) ELSE order
            /\ Returns("remove", k, r.entry.value)
            /\ owed' = [c \in DOMAIN owed |-> owed[c] \ {k}]
            /\ inserted_order' = SelectSeq(inserted_order, LAMBDA j : j # k)
            /\ UNCHANGED << num_iterators, ordered, cookies, failed >>
         \/ ~look.asserted /\ Abort("LookupIndex:516")
         \/ /\ look.asserted
            /\ ordered /\ IndexOf(order, k) = {}
            /\ Abort("Remove:722")

Remove(k) == RemoveMissing(k) \/ RemoveFound(k)

-----------------------------------------------------------------------------
(* Clear frees the table, the order and the list of robust cookies.  Like  *)
(* Insert and Remove it is a change, so plain cookies rule it out.         *)
Clear ==
  /\ failed = "none" /\ OnlyRobustIterators /\ May("clear")
  /\ t' = [log2_buckets |-> 0, table |-> << >>, remap_end |-> -1, remaps |-> 0]
  /\ num_entries' = 0 /\ num_iterators' = 0
  /\ order' = << >> /\ ordered' = FALSE
  /\ cookies' = {}
  /\ Returns("clear", NULL, NULL)
  /\ owed' = [c \in DOMAIN owed |-> {}]
  /\ inserted_order' = << >>
  /\ UNCHANGED << cookie, failed >>

-----------------------------------------------------------------------------
(* Iteration *)

InitForIteration(c) ==
  /\ failed = "none"
  /\ c \notin DOMAIN cookie
  /\ num_iterators' = num_iterators + 1
  /\ cookie' = With(cookie, c, [robust |-> FALSE, next |-> -1,
                                inserted |-> << >>, visited |-> EmptyBag])
  /\ owed' = With(owed, c, KeysIn(t))
  /\ Returns("cookie", NULL, NULL)
  /\ UNCHANGED << t, num_entries, cookies, failed, ordering >>

MakeRobustCookie(c) ==
  /\ failed = "none"
  /\ c \in DOMAIN cookie
  /\ ~cookie[c].robust /\ cookie[c].next < 0
  /\ cookie' = [cookie EXCEPT ![c].robust = TRUE]
  /\ cookies' = cookies \cup {c}
  /\ Returns("cookie", NULL, NULL)
  /\ UNCHANGED << t, num_entries, num_iterators, failed, owed, ordering >>

(* Mutant: the iterator stays counted. *)
DeleteCookieUncounted(c) ==
  /\ cookie' = [d \in DOMAIN cookie \ {c} |-> cookie[d]]
  /\ owed' = [d \in DOMAIN owed \ {c} |-> owed[d]]
  /\ cookies' = cookies \ {c}
  /\ num_iterators' = num_iterators

(* delete cookie: a robust one takes itself out of "cookies" first, which  *)
(* is only there to be searched if Clear() has not freed it.               *)
DeleteCookie(c) ==
  /\ cookie' = [d \in DOMAIN cookie \ {c} |-> cookie[d]]
  /\ owed' = [d \in DOMAIN owed \ {c} |-> owed[d]]
  /\ cookies' = cookies \ {c}
  /\ num_iterators' = IF num_iterators > 0 THEN num_iterators - 1 ELSE 0

Deletable(c) == cookie[c].robust => c \in cookies

StopIteration(c) ==
  /\ failed = "none"
  /\ c \in DOMAIN cookie
  /\ \/ /\ num_iterators > 0 /\ Deletable(c)
        /\ DeleteCookie(c)
        /\ Returns("cookie", NULL, NULL)
        /\ UNCHANGED << t, num_entries, failed, ordering >>
     \/ num_iterators = 0 /\ Abort("StopIteration:864")
     \/ num_iterators > 0 /\ ~Deletable(c) /\ Abort("~IterCookie:54")

(* The end of an iteration inside NextEntry. *)
EndOfIteration(c) ==
  \/ /\ Deletable(c)
     /\ DeleteCookie(c)
     /\ Returns("end", NULL, NULL)
     /\ UNCHANGED << t, num_entries, failed, ordering >>
  \/ ~Deletable(c) /\ Abort("~IterCookie:54")

Yield(c, new, k, v) ==
  /\ cookie' = [cookie EXCEPT ![c] = new]
  /\ owed' = [owed EXCEPT ![c] = @ \ {k}]
  /\ Returns("next", k, v)
  /\ UNCHANGED << t, num_entries, num_iterators, cookies, failed, ordering >>

(* Entries queued while iterating are returned first, the last one first.  *)
NextInserted(c) ==
  LET queue == cookie[c].inserted
      e == queue[Len(queue)]
  IN  /\ failed = "none"
      /\ c \in DOMAIN cookie
      /\ t.table # << >> /\ queue # << >>
      /\ Yield(c, [cookie[c] EXCEPT !.inserted = SubSeq(queue, 1, Len(queue) - 1)],
               e.key, e.value)

(* Where the scan of the table goes on: past the visited entries that an   *)
(* insertion pushed ahead of it.                                           *)
NextInTable(c) ==
  LET start == IF cookie[c].next < 0 THEN NextOccupied(t, -1) ELSE cookie[c].next
      Unvisited(p) == ~Empty(t, p) /\ ~BagIn(t.table[p].key, cookie[c].visited)
      p == First(start, Capacity(t), Unvisited)
      skipped == {t.table[q].key : q \in Occupied(t) \cap (start .. p - 1)}
  IN  /\ failed = "none"
      /\ c \in DOMAIN cookie
      /\ t.table # << >> => cookie[c].inserted = << >>
      /\ \/ t.table = << >> /\ EndOfIteration(c)
         \/ /\ t.table # << >>
            /\ start < Capacity(t) /\ Empty(t, start)
            /\ Abort("NextEntry:909")
         \/ /\ t.table # << >>
            /\ start < Capacity(t) => ~Empty(t, start)
            /\ p >= Capacity(t)
            /\ EndOfIteration(c)
         \/ /\ t.table # << >>
            /\ start < Capacity(t) => ~Empty(t, start)
            /\ p < Capacity(t)
            /\ Yield(c, [cookie[c] EXCEPT !.next = NextOccupied(t, p),
                                          !.visited = @ (-) SetToBag(skipped)],
                     t.table[p].key, t.table[p].value)

NextEntry(c) == NextInserted(c) \/ NextInTable(c)

-----------------------------------------------------------------------------
(* The value of NthEntry(n), a pure query; -1 reads past the vector. *)
NthEntry(n) ==
  IF ~ordered \/ n < 0 \/ n >= num_entries THEN NULL ELSE order[n + 1].value

Next ==
  \/ \E k \in Keys : Lookup(k) \/ Remove(k)
  \/ \E k \in Keys, v \in Vals : Insert(k, v)
  \/ Clear
  \/ \E c \in Cookies :
       InitForIteration(c) \/ MakeRobustCookie(c) \/ NextEntry(c) \/ StopIteration(c)

Spec == Init /\ [][Next]_vars

(* A client that iterates goes on calling NextEntry. *)
FairSpec == Spec /\ \A c \in Cookies : WF_vars(NextEntry(c))

-----------------------------------------------------------------------------
(* Properties *)

(* Types: sizes, counters and cookies stay in their ranges. *)
TypeOK ==
  /\ t.log2_buckets \in Nat
  /\ DOMAIN t.table = 0 .. Capacity(t) - 1
  /\ t.remap_end \in -1 .. Capacity(t) - 1
  /\ t.remaps \in 0 .. t.log2_buckets
  /\ num_entries \in Nat /\ num_iterators \in Nat
  /\ DOMAIN cookie \subseteq Cookies /\ DOMAIN owed = DOMAIN cookie
  /\ \A c \in DOMAIN cookie : cookie[c].next \in Nat \cup {-1}

(* What AssertValid() checks in a debug build: num_entries counts the      *)
(* entries, an entry that follows an empty slot is in its own bucket, and  *)
(* buckets never decrease along the table.                                 *)
Clustered ==
  /\ num_entries = Cardinality(Occupied(t))
  /\ \A p \in Occupied(t) :
       /\ BucketByPosition(t, p) \in 0 .. p
       /\ p > 0 => IF Empty(t, p - 1)
                   THEN t.table[p].distance = 0
                   ELSE BucketByPosition(t, p - 1) <= BucketByPosition(t, p)

(* No distance reaches the mark of an empty slot: the table has at most    *)
(* TOO_FAR_TO_REACH slots, what OpenDict.h assumes of its 16-bit distance. *)
FitsDistance == Capacity(t) <= TOO_FAR_TO_REACH

(* At most one resize is unfinished whenever a call may remap entries.     *)
OneOlderSize == Iterating \/ t.remaps <= 1

(* No call loses, invents or alters an entry besides its own, however many *)
(* entries its relocations, growth and remapping move: seen as the set of  *)
(* stored pairs, the table changes by the pair inserted, replaced or       *)
(* removed, and not at all in a lookup or an iteration.                    *)
EntriesKept ==
  [][FitsDistance' =>
       \/ EntriesIn(t') = EntriesIn(t)
       \/ ret'.op = "clear" /\ EntriesIn(t') = {}
       \/ /\ ret'.op = "remove"
          /\ EntriesIn(t) = EntriesIn(t') \cup {<< ret'.key, ret'.value >>}
       \/ /\ ret'.op = "insert" /\ ret'.value = NULL
          /\ \E v \in Vals : EntriesIn(t') = EntriesIn(t) \cup {<< ret'.key, v >>}
       \/ /\ ret'.op = "insert"
          /\ \E v \in Vals : EntriesIn(t') \cup {<< ret'.key, ret'.value >>} =
                             EntriesIn(t) \cup {<< ret'.key, v >>}]_vars

(* The comment in Remap(): past remap_end there are only entries that are  *)
(* in their bucket at the current size.                                    *)
RemapBoundary == \A p \in Misplaced(t) : p <= t.remap_end

(* The debug assertions of LookupIndex: the hashed search over the current *)
(* and the older sizes finds every stored key where a linear search does.  *)
LookupFindsAll ==
  \A k \in KeysIn(t) :
    LinearLookupIndex(t, k) =
      IF ScanCurrent(t, k) >= 0 \/ OlderSizesWith(t, k) = {}
      THEN ScanCurrent(t, k)
      ELSE ScanOlder(t, k, Min(OlderSizesWith(t, k)))

(* Seen through a linear scan of the table, the dictionary is the map of   *)
(* DictSpec: relocation, growth and remapping neither lose, duplicate nor  *)
(* alter an entry, each call returns what the map says, and NextEntry      *)
(* yields only entries that are present, with their present value.         *)
Contents == [k \in KeysIn(t) |-> t.table[LinearLookupIndex(t, k)].value]

Map == INSTANCE DictSpec WITH map <- Contents

RefinesMap == Map!Spec

(* No ASSERT of the code fails. *)
NoAbort == failed = "none"

(* The ASSERT(false) of NextEntry: a started cookie points at an entry or  *)
(* at the end of the table.                                                *)
NextIsOccupied == failed # "NextEntry:909"

(* NthEntry(n) is the n-th entry inserted of those present.                *)
OrderIsInsertionOrder ==
  ordered => [i \in DOMAIN order |-> order[i].key] = inserted_order

(* num_iterators, which holds remapping back, counts the live cookies, and *)
(* every pointer in "cookies", which Insert and Remove follow, is to a     *)
(* live robust one.                                                        *)
CookiesAccounted ==
  /\ num_iterators = Cardinality(DOMAIN cookie)
  /\ \A c \in cookies : c \in DOMAIN cookie /\ cookie[c].robust

(* An iteration that NextEntry ends has visited every entry present since  *)
(* it began, and every one added meanwhile.                                *)
IterationVisitsAll ==
  [][\A c \in DOMAIN cookie :
       c \notin DOMAIN cookie' /\ ret'.op = "end" => owed[c] = {}]_vars

(* No iteration yields an entry twice. *)
IterationVisitsOnce ==
  [][\A c \in DOMAIN cookie :
       ret'.op = "next" /\ c \in DOMAIN cookie' /\ cookie'[c] # cookie[c]
         => ret'.key \in owed[c]]_vars

(* An iteration comes to its end, whatever is removed meanwhile. *)
IterationEnds ==
  \A c \in Cookies : (c \in DOMAIN cookie) ~> (c \notin DOMAIN cookie)

=============================================================================
