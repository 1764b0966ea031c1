# Models and proofs for zeek-snippets

The repository is, in the words of its README, "a collection of snippets of code
from working on Zeek stuff".  Two of them are data structures with real state and
hard invariants: the replacement for Zeek's dictionary (`dict/`) and three variants
of Zeek's priority queue (`queue/`).  They are the core of this project.  The others
are small programs around a library: DNS lookups, event loops, packet rewriting, and
an application that queries Windows.

Almost everything is single threaded.  What makes it hard is the interleaving of
*calls*: an iteration that is in progress while entries are inserted and removed, a
resize that is spread over many later calls, an element taken out of the middle of a
heap, a library that calls back into the program while it works off a list of events.
A state machine with one action per call, callback or round of a loop explores those
sequences.

## Inventory

| Component | State | Operations | Interacts with | Hard part |
|---|---|---|---|---|
| `Dictionary` (`dict/OpenDict.cc`, `.h`) | table of slots, `log2_buckets`, `remap_end`, `remaps`, `num_entries`, `num_iterators`, `order`, `cookies` | `Lookup`, `Insert`, `Remove`, `Clear`, `NthEntry`, iteration (`InitForIteration`, `MakeRobustCookie`, `NextEntry`, `StopIteration`) | its `IterCookie` objects, which it points to and which point back | mixed table sizes during a resize, entries shifting under iterations, growth in the middle of a call |
| `PriorityQueue` (`queue/PriorityQueue.cc`, `.h`, `PQ_Element.h`) | heap array, its sizes, `offset` and `time` in each element | `Add`, `Remove()`, `Remove(e)`, `Top`, `Resize`, `BubbleUp`, `BubbleDown` | elements are owned by clients once removed | unusual root (its own parent), spare slot, offsets, minimized times |
| `PriorityQueueUnrolled` | as `PriorityQueue` | the same with a loop in place of recursion | same | the loop must go on exactly when the recursion would |
| `PriorityQueueVect` | sorted vector, `offset` and `time` in each element | `Add`, `Remove()`, `Remove(e)` | same | offsets after insertion in the middle |
| `List` (`dict/List.h`) | `entries`, `num_entries`, `max_entries` | construction, copy, move, insertion, removal, sorting, replacement | the C heap | growth, sizes at the boundary, ownership |
| `HashKey` (`dict/Hash.cc`) and `DictEntry` | key pointer and who owns it | constructors, `TakeKey`, `Insert`, `Remove`, `Clear`, `NextEntry` | each other | ownership that changes hands |
| c-ares programs (`c-ares/`) | the channel, descriptor sets, kqueue filters | `wait_ares`, `sock_cb`, the callbacks | c-ares, the kernel, a server | callbacks that change what the loop iterates over, timeouts, retries |
| event loops (`ioloop/`, `kqueue-fifos.cc`) | pollers, descriptors | read, idle and poll callbacks | libuv, libevent, asio, epoll, kqueue, pcap, writers at the other end | end of file, errors, read-ahead, stopping |
| `pcap2vxlan`, `pcap2gre` | configuration, packet headers | parse, checksum, encapsulate | pcap, stdio | 16-bit lengths, headers that are used again |
| Windows application (`ConsoleApplication1/`) | handles, buffers, COM objects, position in the event log | glob, processes, sockets, event log, WMI | the Windows API, other processes | release on every path, tables that change between two calls |
| single-file snippets | none | hashing of ssh keys, `dirname`, scripts and others | none | pure functions |

What makes the parts correct:

* *Dictionary*: every stored key is found; no call loses, duplicates or alters an
  entry; the table keeps its clusters; a plain iteration sees each entry exactly
  once; a robust one sees all that was present or added, and ends; no assertion fails.
* *Queues*: `Remove()` gives back an element that is due first; `Remove(e)` gives back
  `e`; offsets are right; `Add` never writes outside the array; calls return.
* *Memory*: every block has one owner and is freed once; a list behaves as a sequence.
* *Loops*: each query's callback runs once; a wait ends when there is nothing to wait
  for; what is to be read is read; the kernel watches what the program thinks it does.
* *Tools*: results are complete, or the call says they are not; handles are closed;
  lengths and checksums are right.

## Modules

| Module | Models | Notes |
|---|---|---|
| `ClusteredTable` | the functions of `Dictionary` that read or rearrange the table | no state; operators over a record of `table`, `log2_buckets`, `remap_end`, `remaps` |
| `OpenDict` | `Dictionary` and `IterCookie` | extends `ClusteredTable`; one action per public call |
| `DictSpec` | what a dictionary promises: a map | implemented by `OpenDict` (`RefinesMap`) |
| `PriorityQueue` | `PriorityQueue`, `PQ_Element` | every `BubbleUp` and `BubbleDown` call is a step |
| `PriorityQueueUnrolled` | `PriorityQueueUnrolled` | extends `PriorityQueue`; every round of the loop is a step |
| `PriorityQueueVect` | `PriorityQueueVect` | one action per call |
| `PQueueSpec` | what a queue promises: a set with times | implemented by both heaps and, for some clients, by the vector |
| `List` | `List<T>` | one action per call, over an explicit C heap |
| `KeyMemory` | `HashKey`, `DictEntry` and the calls that pass keys between them | who owns each buffer |
| `AresLookup` | the ten programs of `c-ares/` | one action per call of the library or event |
| `CaptureLoops` | the loops of `ioloop/` over libpcap | a program is a record of what distinguishes it |
| `PipeLoops` | mode "f" of `ioloop/main.cc`, `ioloop/poll.cc`, `kqueue-fifos.cc` | with the writers at the other end |
| `Glob` | `glob()` and `globfree()` of `Glob.cpp` | |
| `WmiManager` | `WMIManager.cpp` | COM objects as reference counts |
| `EventLog` | `EventLogManager.cpp` | with other processes that append records |
| `SystemTables` | `Processes.cpp`, `Sockets.cpp` | with tables that change between calls |
| `Encapsulate` | `pcap2vxlan.c` | lengths and checksum at 16 bits |
| `OpenDictProofs`, `PriorityQueueProofs`, `PriorityQueueUnrolledProofs`, `MemoryProofs`, `AresProofs`, `EventLoopProofs`, `EncapsulateProofs`, `ToolsProofs` | none | the theorems: one module for each component, or for the components that an MC module puts side by side |
| `MC*` | none | constants for TLC.  `MCQueues`, `MCDictMemory`, `MCEventLoops`, `MCTools` and, over the last two, `MCPrograms` put several modules side by side; a behaviour is that of one of them |

Operators under a comment that begins "Mutant:" are wrong variants of the definition
that follows them; `PROJECT.json` pairs each with a property that it breaks.

### The dictionary

The record `t` holds the members that move together.  A slot is a record of key, value
and distance; the hash of an entry is a function of its key.  The multiplication in
`FibHash` is a bijection of the low bits, so the constant `Hash` gives the hash after
it; `BucketByHash` keeps the low bits, as the code does.  Loops that walk the
table are written as the least position at which they stop (`First`); the two chains
of displacements, `InsertAndRelocate` and `RemoveAndRelocate`, as the set of slots
the loop visits and what it puts in each.  `LookupIndex` returns the table too,
because a lookup may remap the entry it finds, and whether the assertion after that
remapping holds, because the assertion itself calls `LookupIndex` and is compiled in
(`ASSERT` is `assert`).

An action is a whole call.  `Insert`, for instance, allocates the table, looks the key
up (which may remap), overwrites or inserts, adjusts every robust cookie, appends to
the order, grows the table past its threshold and runs one round of `Remap()`.
`failed` names the assertion, or the use of null or out-of-range memory, at which the
program stopped; nothing happens afterwards.  For erasing an iterator that
is the end of its vector (lines 54 and 722) a stop is one of the outcomes
that the standard leaves open.  The read of `table[-1]` in
`AdjustOnRemove` is a free choice of what that memory looks like.

Callers' obligations are guards: `Insert` and `Remove` assert that all iterators are
robust, and the model makes no call that would fail there; `Clear`, which asserts
nothing, is held to the same.  `ChangesWhileIterating` says which changes clients make
while an iteration is on, so that a run can ask about one at a time.
`owed` and `inserted_order` are history variables: what a cookie still has to
visit, and the keys in order of insertion.

Not in this module: key memory, which is in `KeyMemory`; `delete_func`, `max_entries`,
`cum_entries` and the dump functions.  The debug-only checks (`AssertValid`, `LinearLookupIndex`) are
not steps of the program; they are the invariants `Clustered` and `LookupFindsAll`.

### The queues

`pc` says where the running call is, `bin` is the argument of the current `BubbleUp`
or `BubbleDown`, `call` the argument of `Add(e)` or `Remove(e)`, `top` the
local variable of `Remove()`.  Times are integers above `NegInf`, which stands for
`-HUGE_VAL`.  `Construct` is the client that deletes an element which is not queued
and makes another.  `ReAdd` says whether clients add an element that `Remove(e)`
gave back, with the minimal time still in it.  `PriorityQueueUnrolled` adds `old_bin`,
the local variable by which the loop sees whether a round moved.

### The memory

`List` keeps an explicit heap: `memory` maps allocated blocks to their arrays, and
`entries` names the block of each list.  `realloc` may move a block or leave it where
it is, `malloc` hands out any free block, and what nobody has written is `Junk`.
Every public call is one action; `clear()` and the constructor of an empty list are
the same step, since the constructors take the place of a list that is destroyed.
An argument passed by reference is taken to lie outside the list: `insert(l[i])` on a
full list reads freed memory, and no run does that.  `sort()` orders the entries
ascending while the loop of `sortedinsert` is right for a descending list; the model has
both as they are (`list_sortedinsert`).  `pop_back` does not compile when it is instantiated.

`KeyMemory` follows a key from each of the constructors of `HashKey`, by which it is
copied, taken over, borrowed or stored inside, through `TakeKey` and `Insert` into a
`DictEntry`, where short keys move inside the entry, and out again by `Remove`, `Clear`
and iteration.  The dictionary keeps copies of a `DictEntry` in `order` and in the lists
`inserted` and `visited` of each robust cookie, which have the same pointer and own nothing.
The module has them too, the cookies taken together: which copies a call makes depends on
positions and is left open.  `Remove` takes the entry out of every `inserted` and one copy
out of `order`; a comparison with a copy whose key is freed may turn out either way.
`KeysOwned` promises readable bytes to a `HashKey` that has not handed its key over, to
the entries in the table and to what is in `inserted`, which `NextEntry` reads.  It
promises none to the copies in `order` and `visited`, which can outlive their key.  That `delete` is used on memory from `new char[]` is not modelled.

### The loops

`AresLookup` has one action for every call of the library and every event.  A program
is a record: its options, and the stages of queries after each of which it waits.
c-ares is external: `lib` is what the programs can see of a channel (pending queries
with the tries they have left, the sockets, answers that wait to be read).  A query
uses a try up when its time is over or the connection breaks; a truncated answer is
asked for again over TCP, once; answers to queries that have ended are ignored.
`cares_kqueue` is told of its sockets by `sock_cb`, in the middle of
`ares_process_fd`, while events that `kevent` returned earlier are still to be
worked off: `kq` holds its two sets, the filters of the kernel, whether a change was
refused, and the rest of the batch.

`CaptureLoops` keeps the packets left in the file or queued for the interface (`left`),
those in a buffer of the process (`ahead`: stdio's, or libpcap's on an interface with BPF,
where one read fetches all that is queued), and whether the loop has a descriptor (`fd`).
`PipeLoops` keeps bytes and the writers at the other end; a read of `kqueue-fifos` takes
up to 10 bytes.  What is printed is left out.

These are what the models show the loops to do, and the properties say so where they
carve it out:

* `cares_kqueue` gives up at the first timeout, although its options ask for two tries
  (`WaitsForAnswers`).  With `ARES_FLAG_STAYOPEN` and TCP a program waits until the
  server closes the connection (`Parked`).  `get_ttl` leaks a name on two early returns
  (`cares_ttl.c:39` and `:49`); the paths that return 1 leave the channel.
* The loops that wait for a capture file's descriptor leave packets that stdio has read
  ahead.  `kqueue-live` takes one packet for each event: the others that the same read has
  fetched stay in libpcap's buffer, with the descriptor silent, until more arrive, so
  `PacketsAreFetched`, a part of `DataIsRead`, says *fetched* and not *taken*.  epoll refuses regular files.  `kqueue-live` looks at the flags it
  registered with, `epoll-live` compares events for equality: neither stops
  at an error.
* A `read()` of one byte is taken for an error, and a failing one for data
  (`ioloop/main.cc:46`).
* In `kqueue-fifos`, `EV_EOF` of the named pipe leaves the for loop before the events
  behind it, in every round, since the descriptor is never taken out: the thread's pipe
  is not read any more (`DataIsRead` excludes that case, and an event with `EV_ERROR`,
  which does the same).

### The tools

`Glob`, `WmiManager`, `EventLog` and `SystemTables` are parts of the Windows
application; a call of the Windows API that may fail is a choice.  Memory, handles and
COM objects are counted, and a call through a dead pointer ends in `"undefined"`.
What the models show, and the properties carve out:

* *glob*: without `GLOB_LIMIT` the limit is 0 and the loop tests for inequality, so a
  search whose first entry is skipped finds nothing (`glob_first_skipped`; `FindsAll` is
  about the others).  A `realloc` that fails after the
  last entry leaves `buffer` and `gl_pathv` dangling.
* *WMI*: after a failed `ConnectServer` the released locator is used again.  COM is
  never uninitialized; strings and error objects leak.
* *Event log*: a second call finds the same record again, or skips the rest of a buffer
  after a match on the very first record; it may read the last record for ever.
* *Listings*: a list of processes longer than the array of `EnumProcesses` is cut; a
  table of sockets that grew between the call for its size and the call for its contents
  is missing as a whole; `getProcessFromPID` does not close its handle, so that every socket
  of a process that can be opened leaves one open (`kept`).
* *pcap2vxlan*: lengths wrap around beyond 65499 captured bytes; the Ethernet addresses
  are the bytes of pointers; `XLAN_PORT` in the configuration leaves the port 0;
  results of `fwrite` are not looked at.

## Runs

Constants of the code are scaled down so that growth, remapping over several
calls and long clusters occur with a handful of keys: `DICT_REMAP_ENTRIES` is 1 in
place of 16, keys are chosen to collide at the small sizes and to part at
the large ones.  `MaxLog2` bounds the table to 8 buckets (11 slots), `MaxRemaps` the
number of resizes in progress at once, `MaxQueued` the entries queued at a cookie.

| Run | Shows |
|---|---|
| `dict_iterate` | two iterations side by side, with lookups and removals between their steps: every entry that stays is visited exactly once, both end, and the iterators and robust cookies stay counted and registered. Three keys, whose clusters do not meet the case of `dict_robust_remove` |
| `dict_robust` | four keys, growth from 1 to 8 buckets by overflow in the middle of a chain, with and without a robust iteration, and one resize finished before the next: lookups find every key, only slots up to `remap_end` hold old entries, the clusters stay whole, no call loses or alters an entry besides the one it is about (`EntriesKept`), and calls return what a map would; `NextEntry` never gives out a removed entry or a stale value (promise (ii) of `OpenDict.h:209`) |
| `queues` | the invariants of both heaps in the middle of calls, array sizes 1 to 8; the unrolled class implements the recursive one, both implement `PQueueSpec`, and so does the vector for clients that only add and take the top (with `Remove(e)` it does not, see `vect_remove`) |
| `dict_memory` | every block of a list has one owner and nothing unset is in use; the calls of `List` act on sequences as they should; a key is freed once and readable until then for its `HashKey`, its entry and the copies queued for `NextEntry` |
| `programs` | one program at a time.  The ten c-ares programs with answers late, lost, repeated and truncated and `kevent` failing, the capture loops and the pipe loops: a callback runs once, waits end when they should, sets and filters agree, everything is released, what should be read is, and loops end.  glob with every kind of entry and failure, WMI with any call failing, two calls on an event log that grows, the listings with tables that change, three packets of critical lengths through `pcap2vxlan`: `Released` is about libraries, the buffer of glob and COM objects, `ListingsComplete` about the entries of a directory, the rows of queries, processes and sockets, and the handles of the listings |

These runs end in a violation, each of something the repository says of the program:

| Run | What fails |
|---|---|
| `dict_two_resizes` | a resize that begins inside a remapping leaves old entries above `remap_end`; `Lookup` misses a stored key |
| `dict_robust_remove` | a robust iteration visits one entry twice and misses another after a removal: `HeadOfClusterByPosition` is off by one when the cluster begins right after its bucket's own slot, and `AdjustOnRemove` queues the wrong entry |
| `dict_robust_growth` | the assertion at `OpenDict.cc:909` |
| `dict_order` | `NthEntry` is not in order of insertion |
| `vect_remove` | `Remove(e)` does not recognize a queued element |
| `list_sortedinsert` | `sortedinsert` puts an entry in the wrong place of a list that `sort()` has ordered by the same comparison |
| `glob_first_skipped` | `glob()` without `GLOB_LIMIT` returns `GLOB_NOMATCH` although an entry after the first matches |

An assertion that fails is a step (`Abort`) that stops the behaviour; nothing is claimed
beyond it.  The passing runs meet none within their bounds: `NextEntry:909` is the violation
above, and `LookupIndex:516`, where the lookup's own remapping grows the table and the
assertion that looks the key up again moves it a second time, is reached by `dict_robust`
with `Keys = {3, 7, 11, 15}`.

More is visible in the model without a run of its own:

* What makes `dict_order` fail, that `InsertAndRelocate` leaves the last displaced entry in the
  reference it is given, also reaches `AdjustOnInsert` (`OpenDict.cc:635`): a robust iteration
  misses an entry that is added before its position.  `dict_robust_remove` shows it
  instead with `Keys = {1, 2, 3}`, `InitialSize = 0`, `MaxQueued = 9` and
  `ChangesWhileIterating = {"insert"}`.
* `AdjustOnRemove` does not take the entry out of a cookie's `visited`, and `Remove` takes
  one of several equal ones out of `order`, although `OpenDict.cc:720` says "remove it from
  all references".  The copy that stays points to a freed key, which `NthEntry` hands out
  and the searches of `order` and `visited` compare: with `order` or `visited` added to
  the copies that `KeysReadable` is about, `dict_memory` fails.
* `Clear()` in the middle of iterations: `NextEntry` goes on to yield the entries queued
  at a cookie, and a robust cookie that ends then takes itself out of a list that is
  gone (`~IterCookie:54`, `StopIteration:864`).  No run clears during an iteration.
* With `ReAdd` true, `NoInconsistency` fails with three elements: one that `Remove(e)`
  gave back still has the minimal time, ties with the next one to be removed, and
  `Remove(e)` aborts.

**Bounds.** Four keys in tables of up to 8 buckets hold the shapes the table functions
tell apart: an empty slot, a cluster in place, a displaced cluster, a chain of displacements,
one that reaches the end of the table, with and without entries of an older size.
The counterexamples need four keys or fewer, except the one with two resizes (six).
Five elements give a heap in which `BubbleDown` meets a lone left child, both children
and none; the theorems cover every larger number.  Two lists of two entries show
copies and moves, one of four grows twice.  Two descriptors are what a channel with
one server opens at a time; one answer that waits is enough for it to be late, repeated or
truncated, with two tries for a timeout before and after it.  Four packets with two read
ahead, four bytes read three at a time, and two timeouts each leave a round that is
full, one that is not and one that is empty; a pipe of 12 bytes is more than one read of 10
takes.  One `HashKey` at a time, a short and a long key and three buffers give every way a
key changes hands.  Three records and two calls show the event
log found at its beginning, middle and end.  The captured lengths are a small one, the
largest whose lengths do not wrap and one beyond both wraps.

**Symmetry** is used over elements (`queues`), and over blocks, lists and
`HashKey`s (`dict_memory`), which are told apart by identity only, and in no run that
checks liveness.

**Fairness.** `IterationEnds` assumes that a client goes on calling `NextEntry`
(weak fairness of that action for each cookie): this is a loop in the client, not
a duty of the code.  `LoopsEnd`, `DataIsRead` and `FirstCallReturns` assume that the
process is scheduled: weak fairness of the loop's own steps, never of the server, of
writers or of other processes.  Time passes: a `select` with a pending query times out
unless something else happens for ever (weak fairness of `SelectTimesOut`), and
a query whose time is over is noticed if `ares_process_fd` is called again and again
(strong fairness of `ProcessTimeout`, since calls come and go).  That calls of
the queues return is stated without fairness, as a quantity that every recursive call
and every round moves in one direction (`RoundsAdvance`), so that it can be proved.

**Deadlock** is allowed where a run can end: at a failed assertion, at the end of a
program, or where a bound closes the last call.

## Theorems

`PriorityQueueProofs` proves for every set of elements, every set of integer times above
`NegInf` and every initial size of at least one (`QueueAssumption`):

| Theorem | Statement |
|---|---|
| `TypeCorrect` | `Spec => []TypeOK` |
| `AddStaysInside` | `Spec => []HasRoom` |
| `OffsetsRight` | `Spec => []OffsetsConsistent` |
| `HeapRight` | `Spec => []HeapOrdered` |
| `LeavingRight` | `Spec => []LeavingIsFirst` |
| `TopRight` | `Spec => []TopIsFirst` |
| `BubblingEnds` | `Spec => BubblingAdvances` |
| `Consistent` | `Spec => []NoInconsistency`, if `~ReAdd` |
| `CalledRight` | `Spec => []OnlyCalledMinimized`, if `~ReAdd` |
| `ImplementsQueue` | `Spec => RefinesQueue`, if `~ReAdd` |

The inductive invariant `IInv` is the conjunction of `TypeOK`, `HasRoom`,
`OffsetsConsistent`, `HeapOrdered` and `LeavingIsFirst`.  None is inductive alone.
Order is only preserved by a swap because the children of the bubbling element are
not due before its *parent*, the clause `ChildrenDueAfterParentOfBin`: after the swap
they hang under that parent.  Offsets are needed to know that two slots
hold two elements, so that a swap changes nothing else.  `HasRoom` is what
keeps the write of `Add` inside the array.  That the top is due first is not a step of
the induction but a consequence of the order: of the bins due before the root
there would be a least one, whose parent would be due earlier still and have a smaller number.

`Consistent` needs `CInv` besides: of what is queued, only the element being removed has
the minimal time.  It is the part that fails when clients add minimized elements
again, which is why the theorem has its assumption.
The step lemma has one case per action, and under each the conjuncts that the action
can disturb.

`PriorityQueueUnrolledProofs` proves that the class with the loop implements the
recursive one (`UnrolledIsRecursive`, the statement of `RefinesRecursive`): a round that
moves is a call of `BubbleDown` that goes on, one that does not is its last call, and
the test that ends the loop is a stutter.  The invariants of the heap come from there
without an induction of their own (`UnrolledHasRoom`, `UnrolledConsistent`,
`UnrolledImplementsQueue`); `RoundsEnd` shows that the loop ends, and rests on the one
fact about `old_bin` that the recursion does not have.

Its last part proves `VectImplementsQueue`, `MCSpec => VectRefinesQueue`: for clients that only
take the top, the sorted vector is the queue of `PQueueSpec` too, for all elements
and times.  `VectInv` says that the vector holds each element once, from the latest to the
earliest.  Since it is sorted, the slots `std::lower_bound` passes are a prefix (`LowerBound`),
and an insertion behind that prefix leaves it sorted; the back is then due first.
With `Remove(e)` there is no such theorem: `vect_remove` shows why.

`OpenDictProofs` proves for every set of keys, every hash function, every initial size
and any number of cookies (`TableAssumption`, `DictAssumption`):

| Theorem | Statement |
|---|---|
| `TableInvariant` | `Spec => []TableInv` |
| `ClustersKept` | `Spec => [](FitsDistance => Clustered)` |
| `TypesKept` | `Spec => [](FitsDistance => TypeOK)` |
| `NothingLost` | `Spec => EntriesKept` |
| `CookiesCounted` | `Spec => []CookiesAccounted`, if clients do not clear under an iteration |
| `RemapBoundaryKept` | `Spec /\ []OneOlderSize => [](FitsDistance => RemapBoundary)` |
| `LookupFindsEveryKey` | `Spec /\ []OneOlderSize => [](FitsDistance => LookupFindsAll)` |
| `DictionaryIsMap` | `Spec /\ []OneOlderSize /\ []FitsDistance => RefinesMap`, if clients only remove under an iteration |
| `NoAssertFails` | `Spec /\ []OneOlderSize /\ []FitsDistance /\ []LookupsDoNotGrow => []NoAbort`, likewise and if unordered |
| `PlainIterationVisits` | `Spec /\ []OneOlderSize /\ []FitsDistance => IterationVisitsAll /\ IterationVisitsOnce`, if clients change nothing under an iteration |

`FitsDistance` says that the table has no more slots than the 16-bit field `distance` can
name; the code does not check it, and beyond it a displaced entry would read as an empty
slot.  `EntriesKept` has the same condition in its own statement.  `TableInv` says that
the table has as many slots as `Capacity()` computes and `remap_end` and `remaps` are in
range (`Shaped`), that all slots between an entry's bucket and the entry are occupied, by
entries of no later bucket (`Packed`), and that `num_entries` counts the occupied slots.
`Clustered` says `Packed` of neighbours only, which a displacement by more
than one slot does not keep: the chain needs to know every slot it passes over.
The loops are least positions at which they stop (`LeastNatural`, from well-founded induction
on the naturals), and what repeats is an induction over the number of rounds, for a
property given as a set (`SetInduction`), since no operator can be a parameter.
`CookiesCounted` excludes `clear` because `Clear()` empties the list of robust cookies
under them.

The last five theorems are about behaviours without the defects that the violation runs
show, and each hypothesis leaves out one of them:

* `OneOlderSize`: at most one resize is unfinished whenever a call may remap.
  With a second one `LookupFindsAll` fails (`dict_two_resizes`).
* that clients at most remove under an iteration (`ChangesWhileIterating`): an insertion
  can grow the table under a cookie at its end (`dict_robust_growth`) and queues the wrong entry
  (what `dict_order` shows).  `PlainIterationVisits` excludes removals too, because of
  `dict_robust_remove`; `IterationVisitsAll` with removals is checked by `dict_iterate` only.
* `LookupsDoNotGrow`: no lookup would start another resize by remapping the entry it finds.
  Where it does, the lookup asserted after that remaps the key a second time and
  `LookupIndex:516` fails, as it does with four keys in one bucket.
* that the dictionary is unordered: `order` then holds nothing that `Remove` could fail to
  find (`dict_order` shows how it comes to miss a key).

In every reachable state of `dict_iterate` all three state conditions hold, and `dict_robust`
satisfies the first two in its 8 buckets, through growth from 1.

`PlacedInv` adds to `TableInv` that keys are stored once (`Distinct`), that an entry is in its
bucket of the current size or of one of the `remaps` older ones (`Sized`), and that
the entries that wait to be remapped are at or below `remap_end` (`Bounded`).  A displacement
can push such an entry past `remap_end`; that none stays there has three reasons.
After `Insert`, `remap_end` is raised over what was displaced (`InsertCovered`).  One turn of
`Remap()` takes the last waiting entry to a later bucket, behind all that still wait, so its
displacements push none of them (`InsertPastOlder`).  An entry that a lookup finds at the
size before goes to the upper half of the buckets, where nobody waits (`UpperHalf`, since a
bucket of the doubled size is the old one or the old one plus the old size).  The last reason needs
`OneOlderSize`: with two older sizes an entry may go to the second quarter, with waiting ones
behind it.  From
`Distinct` the linear scan that defines `Contents` is a function of the set of entries, and
`EntriesKept`, with the values each call returns, becomes the step of the map.  For `NextEntry`
the refinement needs `Queued`: what is queued at a cookie is in the table,
with the same value, since `AdjustOnRemove` takes removed keys out of each queue
(`WithoutKeyKeeps`).  `NoAssertFails` rests on `CookiesSettled`, that a started cookie
is at an occupied slot or past the last, and on `CountInv`.  `PlainInv` says that a
cookie owes exactly the keys from its position on, and none before; lookups move nothing
while an iteration is on, since `LookupIndex` remaps only without iterators.

`MemoryProofs` proves `ListsOwnBlocks` (`BlocksOwned`) and `KeysHaveOneOwner` (`KeysOwned`)
for any number of blocks, lists and keys, any default size and growth factor above one.
`HeapInv` adds to `BlocksOwned` that the slots in use hold entries, which `sort()` and
`sortedinsert` compare; that a block handed out by `malloc` is nobody's follows from the
ownership itself.  `KeysInv` says of each buffer who owns it, a `HashKey`, an entry or
the caller, never two, that a buffer is allocated exactly when it is owned, and that
a `HashKey` which does not own a buffer points to none, unless it has handed its key over:
`TakeKey` leaves the pointer, and the clause is what tells that case apart.  `QueuedPresent`
adds that the copies queued for `NextEntry` are of entries in the table, since
`AdjustOnRemove` takes the removed one out of every queue; of `order` and `visited` nothing
of the kind holds.
`CallsOnSequences` is `Spec => CallsActOnSequences`: what each call of `List` does to its
array, in place or in a block that `realloc` moved, is the operation on sequences that
the property names, and no other list changes.  `HeapInv` is all it needs: the blocks of other
lists are others (`PlaceHolds`, `WriteHolds`), and slots in use survive a change of capacity.
Of `sortedinsert` it says that the entry is put in where the loop stops
(`SortedSlotStops`) and nothing else changes; whether that is the correct place is what
`list_sortedinsert` is about.

`AresProofs` proves `CallbacksOnce` (`OneCallback`), `StagesWait` (`WaitsForAnswers`),
`SetsFollowKernel` (`SetsMatchKernel`) and `LookupsRelease` (`ReleasedAtExit`) of all ten
programs, for any number of tries and answers and any descriptors as long as one
is free when a socket is opened (`AresAssumption`).
The invariant `AresInv` says that the callback of a query has run, once, exactly when the
program has come as far as asking it and it is not pending (`AresCalled`), that every
pending query has a socket (`AresChannel`), and, for `cares_kqueue`, relates the sets, the
filters and the open sockets (`AresQueue`).  The last is not kept by the calls of `sock_cb` one by one: the library
opens and closes before it calls, so the proof follows the sequence of the calls
that one step of the library makes.

`EventLoopProofs` proves `LoopsRead` (`LoopsReadToTheEnd`) and `LoopTypes` (`TypesOK`) of
the loops side by side, for files and pipes of every size (`LoopAssumption`).  `CapturesInv`
and `PipesInv` add that what is left and what is still to come never exceed what
there was, that a program has no descriptor before it has opened its file, that nothing is
added to a file while it is read, and that a program which counts its last timeout is at its end.

`EncapsulateProofs` proves two theorems for all
configurations with 16-bit address words, every set of captured lengths and any number of
packets (`EncapsulateAssumption`).  `ChecksumsRight` is `EncapSpec => []ChecksumVerifies`.  Ten
words add up to less than ten times 65536, so the first folding
leaves a carry of at most one, the second none, and the sum with its complement
folds to all ones.  The invariant says that the headers kept from packet to packet
consist of words, which is why the old checksum must be cleared and nothing else.
`RecordsFramed` is `EncapSpec => []RecordsRight`.  Its invariant `Layout` gives the place of
every piece of a record in the file by the number of the packet; a record that is
written stays where it is, and a header that is used again differs from the
last only in the words that depend on the length.

`ToolsProofs` proves of the Windows application, each with an invariant of its own, for any
number of rows, libraries and records (`RecordsAssumption`), any process ids and limit of
their buffer (`ProcessesAssumption`), and any sets of directories, flags, limits and socket
tables (`ListingsAssumption` types their entries and rows; `SomeDirectories` and the like
are only what the run uses):

| Theorem | Statement | Invariant |
|---|---|---|
| `PointersDefined` | `ToolsSpec => []DefinedUnlessFailed` | `WmiInv`: which objects are referenced at each step, and that the services are all dead exactly when a `ConnectServer` failed |
| `EverythingReleased` | `ToolsSpec => []Released` | `WmiInv`; `GlobInv`: `gl_pathv` is set exactly when the block lives, until a late `realloc` fails; `LibrariesInv` |
| `FirstRecordFound` | `ToolsSpec => []CallsFindFirst` | `SearchInv`: the buffer holds consecutive records up to the handle's position, the first call has looked at all records before it, and the second seeks the one before the match |
| `ListingsRight` | `ToolsSpec => []ListingsComplete` | `ListingsInv`: the result of a query lacks only the row being read; the paths collected so far are those of the entries passed; the processes looked at are reported or could not be opened, the sockets copied are a prefix of the table, and handles and buffers are closed and freed as the listing goes on, but for one handle at most for each socket listed |

Only model-checked:

* liveness (`IterationEnds`, `LoopsEnd`, `DataIsRead`, `FirstCallReturns`), which is out of
  the prover's reach;
* of the dictionary, what iterations visit while entries are removed under them
  (`IterationVisitsAll`, `IterationVisitsOnce` in `dict_iterate`: true of its clusters, false
  of others), and `RefinesMap` with insertions under an iteration (`dict_robust`).

## Plan

Next, in order:

1. The dictionary with its keys in the C heap: `OpenDict` composed with `KeyMemory`.
2. `IterationVisitsAll` with removals, for tables in which `HeadOfClusterByPosition` finds
   the head of the cluster.

## Not modelled

* The single-file snippets (`ordered_map.cpp`, `sqlite-conflict.c`, `dirname.cc`, hashing
  of ssh keys and others) and the scripts: straight-line programs around a library call.
* Benchmark drivers (`dict/test.cc`, `queue/main.cc`, `hashing/`), vendored containers
  (`fifo_map.hpp`, `prio_queue.hpp`), the generated `zeek-config.h`, patches.
* SipHash and the digest functions: arithmetic on 64-bit words with no states to explore.
* `pcap2gre.c`, an unfinished copy of `pcap2vxlan.c` that does not compile.
* `ioloop/wakeup.cc` and `ioloop/setsignal.c`: a signal that ends a loop, and handlers
  that are installed.
* The listings of IPv6 sockets, which nothing calls.
* Of the dictionary, `delete_func`, the statistics and the dump functions.
