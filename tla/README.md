# A TLA+ model of GreenHashTree

GreenHashTree is an in-memory key-value store in C that is cut into
*substructures*, one per core.  A client thread hashes its key to a
substructure, adds the operation to that substructure's message queue and spins
on a return cell; the substructure's own thread takes operations from its queue,
performs them on a data structure nobody else touches, and sets the cell.  A
second build, the *baseline*, has one data structure that all clients call
directly.  The data structure is a hash map, a B+ tree or a static van Emde Boas
tree, behind a common middleware.

This directory holds TLA+ modules translated from that code, the TLC
configurations that check them on small instances, and theorems about them that
TLAPS checks for every value of the constants.

## The system and its inventory

| Part | State | Operations | What is hard about it | What makes it correct | Status |
|---|---|---|---|---|---|
| Message queue, `msgq.c` | ring `array`, `current`, `lastadded`, mutex, condition variable | `queue_init`, `queue_add`, `queue_read` | several writers, sleep and wakeup, spurious wakeups, full ring, counters that only grow | FIFO; nothing lost, repeated or overwritten; no lost wakeup; every call answered | modelled, proved |
| Store, `gps.c` | a substructure per thread, a return cell per call | `db_put`, `db_get`, `subStructFunc` | three steps on two threads per operation; several queues | linearizability; every call returns | modelled, proved |
| Hash map, `SimpleHashMap/` | buckets, chains, reader-writer lock | `shm_new`, `shm_put`, `shm_get` | find-then-append, seven return paths, pointers returned after the unlock | one record per key, records stay where they are, linearizability, lock given back | modelled, proved |
| Baseline, `baseline.c` | one root | `db_put`, `db_get` | every client writes back the root | linearizability | modelled, with either structure |
| Key routing, `hash`, `simplehash` | none | | 32-bit arithmetic | a function of the key | a constant of the models: the theorems hold for any function |
| B+ tree, `BPT/bpt.c` | nodes with parent and sibling pointers, a lock per node, a global lock | `insert`, `find`, `delete` | searches without locks while leaves shift and split; locks taken bottom up | order, balance, no insertion lost, reachability of every key | modelled, proved |
| Static tree, `SVEB/` | global arrays and cursors, a global spinlock | `insert`, `search_test`, `init_tree` | index arithmetic of the layout, rebalancing densities, a read after the unlock | no key lost by a rebuild; search agrees with the set of keys | modelled |
| Benchmark client, `benchmark/` | counters per thread, `stop` flag | `queries_exec`, `trigger`, `main` | alarm against loop, put after miss, totals | each client runs its own queries; totals final; the program ends | modelled, safety proved |
| Heartbeats and POET, `gps.c` | `heart`, `heartbeatcount`, `stop_heartbeat` | timer thread, job counts, `db_free` | unlocked counter, freeing what threads use | the heart outlives its users | modelled, proved |
| Barrier, `common/barrier.c` | counter, condition variable | `pthread_barrier_wait` | wait without a loop | nobody passes early but by a spurious wakeup, nobody is left | modelled, the first proved |
| Benchmark programs, `common/bench.c`, `SVEB/main.c` | counters per thread, the list of keys | `benchmark`, `testpar`, `testseq` | integer divisions, a barrier shared with `main` | what is printed of insertions and attempts agrees with the tree | modelled, safety proved |
| counters, power meters, macOS spinlocks, dummy store, packaging | | | | | not modelled: measurement, input and output, examples |

How they interact: `bench_client.c` calls `db_put` and `db_get`; `gps.c` calls
`queue_add` on the client's thread and `queue_read` on the substructure's;
`subStructFunc` calls `init_struct`, `insert_into_struct` and `search_struct` of
the middleware that was linked in; the return cell, whose address travels in the
operation, is the only way back.  The list of places where the code is hard to
test is `hazards` in `PROJECT.json`, each with its line and the properties that
watch over it.

`bench_client.c` and the heartbeats are modelled over `KVStore`, which `Gps` and
`Shm` are shown to implement; `Bench` is over a set of keys: the static tree's lock makes
an insertion one step of it, while a search or a delete, which reads after the unlock,
may give either answer as soon as there are several threads.

One thing the store's model does not cover: `make bench_ght_sveb` builds `gps.c` over
the static tree, whose globals all substructures then share, so they are not separate
sets of keys.  `src/README.md` says of this tree that it "is based on sharing global
variables and is therefore not fit for partitioning. We include it however in some
comparisons".  `Gps` is the store over the hash map or the B+ tree.

## Modules

| Module | What it is |
|---|---|
| `FifoQueue` | abstract: a bounded FIFO channel per reader, and the operation each reader holds |
| `MsgQ` | `msgq.c` and its callers' protocol, one action per step between synchronisation calls |
| `MCMsgQ` | instances of `MsgQ` |
| `KVStore` | abstract: an atomic key-value store with invocations and returns |
| `Gps` | `gps.c`: clients, substructures and their threads; extends `MsgQ` |
| `MCGps` | instances of `Gps` |
| `GpsProofs` | the inductive invariants of `MsgQ` and `Gps`, and the refinements of `FifoQueue` and `KVStore` |
| `Shm` | `shm.c` called by any number of threads |
| `MCShm` | instances of `Shm` |
| `BPlusTree` | `insert`, `find` and `delete` of `bpt.c`, called by any number of threads |
| `MCBPlusTree` | instances of `BPlusTree` |
| `BPlusTreeProofs` | the inductive invariant of `BPlusTree`: types, links, locks |
| `BPlusTreeOrderProofs` | the inductive invariant of its order: leaves in order, every key in a leaf within reach, no writer past its key |
| `BPlusTreeShapeProofs` | the inductive invariants of its shape and of what it stores: balance, parents, the refinement of `KVStore`, no insertion lost |
| `ShmProofs` | the inductive invariant of `Shm`, and the refinement of `KVStore` |
| `StaticVeb` | the layout of `staticvebtree.c` and its descents, as functions: addresses, search, walks |
| `Sveb` | its `insert` and `search_test`, called by any number of threads |
| `MCSveb` | instances of `Sveb` |
| `Heartbeat` | the heartbeats of `gps.c` |
| `BenchClient` | `bench_client.c` over `KVStore`; extends `Heartbeat` |
| `MCBenchClient` | instances of `BenchClient` |
| `BenchClientProofs` | the inductive invariant of `BenchClient`: its properties, the heartbeats' among them |
| `Barrier` | `barrier.c` |
| `Bench` | `benchmark`, `testpar` and `testseq` of `bench.c`; extends `Barrier` |
| `MCBench` | instances of `Bench` |
| `BenchProofs` | the inductive invariants of the barrier and of what `Bench` prints |
| `SumTheorems` | what the sums over threads of both benchmarks obey |

### MsgQ

`array`, `current`, `lastadded` and `mutex` are the fields of a `queue_t`, per
queue; `pc` is the place of every thread; `arg` is what a client's call passes,
`data` the local variable of the same name in `queue_read` and the operation of
`subStructFunc` it becomes, `retval` the return cell of each client's current call
(every call allocates its own, so a client stands for it).  The condition
variable's waiters are the threads at `"read_wait"`.  `Slot` is C's `%`, which is
negative for a negative counter, and `Inc` wraps at `IntMax`.

`Call`, `AddLock`, `AddStore`, `AddPublish`, `AddBroadcast`, `AddUnlock`, `Resume`
are the client's steps (`Resume` is the end of the spin and the return);
`Start`, `ReadLock`, `ReadWait`, `SpuriousWake`, `ReadTake`, `ReadUnlock`, `Answer` the
reader's.  `pthread_cond_wait` is `ReadWait` (release and sleep in one step),
`AddBroadcast` or `SpuriousWake`, and `ReadLock` again, after which the test of
the loop is repeated.  The queue has one reader, the thread that owns it, as in
`gps.c`.

The spin `while(*o.retval == 0)` reads a plain `int` that another thread writes.
The cell is heap memory whose address has escaped, and `sleep` is an opaque call,
so the compiled loop reads it every time; the model's `Resume` waits for it.

### Gps

A substructure is the set of its keys; `InitKeys` is what `init_struct` leaves in
it (nothing, or key 0 for the B+ tree) and `Route` the hash modulo the number of
threads.  `Insert` and `Search` perform the operation and decide the `result`;
`Reply` stores it in the cell, as a step of its own, since another thread may run
in between.  A client may make any calls in any order.

### Shm

A bucket is the sequence of its records: `used == false` is the empty one.
`record` is the local variable of `shm_put` and `shm_get`, the position where the
walk stopped.  `PutFind` is the walk, `PutAppend` links behind the record it
stopped at: it is written so that what was linked there meanwhile would be lost, as it
would be in the code if the lock did not prevent it.  `simdata` is `"unwritten"`
until `strncpy` has written it.  The map's `EXAMPLEDATA_W`, which nothing reads,
is left out.

### BPlusTree

A node is a record with the fields of `struct node` that matter, and is named by its
place in `nodes`; `lock` says who holds its lock, `frame` holds the local variables
of `insert`, `find` and what they call.  A leaf's pointers name records by their
keys, and its last pointer is the next leaf.  An action is what a thread does
between two accesses that another thread can tell apart, which is why shifting a
node's entries (`LeafWrite`, `NodeWrite`) and counting the new one (`LeafCount`,
`NodeCount`) are two steps, a leaf is split in three (`LeafSplit`, `LeafLink`,
`LeafCut`) and an inner node in two (`NodeEmpty`, `NodeSplit`).  A finer grain is
possible: the single stores of a shift, and the reads of one node by a descent, are
one step here.  An unlock that is the last thing before or after another step is
part of it.  `global_lock` is held only inside `NewRoot` and the first insertion.

`insert` looks for a duplicate in all `order - 1` slots and the one behind them, not
only in the `num_keys` that were written.  What an unwritten slot may hold is the
constant `MallocKeys`; the runs take a value that is no key.  With a key, `Present`
would drop an insertion, and with memory from `malloc` nothing excludes it.

A deletion locks the leaf as an insertion does, then looks for the record with `find`,
from the root and without locks (`DeleteFind`, the steps of `find`), and takes the
key out of the leaf it holds (`RemoveEntry`, `RemoveCount`).  It never merges nodes, so
leaves may become empty.  `LastKey` of an empty leaf is the word before the array,
`BeforeKeys`, which is 0 with the allocator of glibc.  If `find` saw the key and the
locked leaf did not hold it, the loops of `remove_entry_from_node` would run behind the
entries; `RemoveEntry` is not enabled there, so that the thread would stop for ever with the leaf's
lock.  TLC would not call that a deadlock as long as another thread can go on; that it does not
happen is what `NeverPastKey` says: the leaf that is held is the one of the key.  A leaf's last key
stays in its slot when it is deleted, and the test for duplicates finds it there: putting it
again does nothing.  `InsertionsKept` therefore leaves out the keys that some thread deletes
(`Deletable`) where it says that a put key is in a leaf.  Only the
benchmark that `bpt.c` carries along calls `delete`, with many threads on one tree.

The tree begins with the key 0 (`FirstKey`), which `init_struct` inserts; clients use
other keys here.  A store over it answers the first search of key 0 with a hit,
although nobody put it (`gps.c` 328: 1 is for a value that was not found).

### StaticVeb and Sveb

The tree is an array in van Emde Boas order.  The code walks it with three
globals: `bf`, the node's number in the breadth-first numbering, `h`, the levels from it
to the lowest, and `anc[h]`, its address, computed from the addresses of its
ancestors and `myli`, the table of cuts.  In the model a node *is* its `bf`; `Height`
and `Address` are what `h` and `anc` hold when the code is there.  Walks and searches
are functions of the array; the walks of `test_rec_walk` and `test_it_walk`, which no program calls,
are used in the property `WalksPass`.  (They compare each value with its rank, being meant for the
keys 0, 1, 2, ...; the property says that values ascend and are as many as the counter says.)

In `Sveb` what a thread does under the spinlock is cut where memory is in a state
that `search_test` can see after its own unlock: values taken out
(`InsertCollect`), the array freed (`Grow`), the new one not filled (`Malloc`),
rebuilt (`Rebuild`).  `Ascend` is the way of `insert_rec` back up, which adds a parent and
its other subtree to `helper` until they are not too dense; `Rebuilt` spreads
them.  The density test is in integers, which agrees with the code's floating point
up to five levels (`MaxDepth`); the first resize makes four.  `init_tree` asks for 2000000
nodes, but `init_memory` sets `size` to 7 whatever it is given.

The helper array has `2 * size` elements from index 0.  When the tree is full and the new key
is smaller than all others, everything goes to its right, and the last value is written to
index `2 * size`, one element behind the array.  The code does that, and the run `sveb` reaches it with
the eighth key: `HelperFits` says that what is taken out is inside the array in all states but
these, and which elements it takes in these (`SmallestOfFull`).

### Heartbeat and BenchClient

`main` says where `main` is, `t` its loop variable in both loops, `pc` and `i` the same
of the clients.  A call of `db_put` or `db_get` is `KVStore`'s invocation, effect and
return.  With `USE_POET` the count of a job is a load and a store of
`heartbeatcount` (`JobLoad`, `JobBeat`) between the effect and the return.
`Convert` is the loop that hashes the keys; a key is told apart from others, and -1 is
what `bintointhash` returns when its uninitialised variable happens to hold
`UINT64_MAX`.  The alarm rings at any time after it was set.  `MaxRounds` bounds how
often a client runs its part before the alarm.  A build with `USE_POET` alone would beat a
heart that was never made (`MacrosAssumption` leaves it out, as the README does).

### Barrier and Bench

The barrier's mutex makes each call one step up to its wait.  `at` is
where each participant is.  `pthread_cond_wait` may return unwoken, and `barrier.c` 49 has no
loop around it: `SpuriousWake` lets any waiting participant go on (`Rouse` in `Bench`), and the history
variable `roused` remembers whom.  So a thread may pass early; `EarlyOnlyRoused` says that nobody
else does, and `Ends` that the others still meet.  In `testpar` `main` takes part too, which is what `TripCount` is
about.  `Operate` is a turn of `do_bench` with any of the pool's operations and any key;
`delete` of the static tree only searches, so what is printed as effective deletions
are hits.  Both it and `search_test` read `val[it]` after they have released the lock
(`staticvebtree.c` 659, 670), so `Effects` lets them answer anything when there are several threads;
no property is about these answers (`sveb_race` is, in `Sveb`).  `testseq` is one step, since `main` is alone then.

## Runs

| Run | Instance | Shows |
|---|---|---|
| `msgq` | 3 clients, 1 queue of 3 slots, 5 calls | type invariant, mutual exclusion, no overwrite, no lost wakeup, one operation per call, the FIFO refinement, and that every call is answered |
| `gps` | 2 clients, 2 substructures, keys 0 to 2, 2 calls per queue | type invariant, keys at home, linearizability, and that every call returns |
| `shm` | 3 threads, 2 buckets, 3 keys of which 2 collide, any number of calls | one record per key, records stay, linearizability, every get returns |
| `bpt` | 1 thread, order 3, 6 keys put and got in any order | a key-value store; parents and root; balance and occupancy |
| `bpt_conc` | 2 threads insert 5 keys and delete one, order 3 | locks given back, leaves in order, no insertion lost, every key in a leaf within reach, descents of writers never past their key (so a deletion holds the leaf of its key), no deadlock |
| `sveb` | 2 threads, 10 keys | the array is the van Emde Boas layout; walks, searches and counter agree; nothing is lost by a rebuild or a resize; what is taken out fits, with the one exception |
| `bench_client` | 2 clients, 2 traces of 5 queries, 1 round, heartbeats and POET | own queries, one miss per key, totals, heart alive, count of jobs, the end |
| `bench` | 3 threads, 5 keys to insert | together at the barrier but for spurious wakeups, insertions and attempts reported agree, the end |
| `bpt_find` | a searching and an inserting thread | finding: a key that was put long ago is missed |
| `bpt_parent` | 2 threads, scripted, 8 keys and one | finding: a new leaf with a stale parent |
| `msgq_full` | 3 clients, 2 slots | finding: `queue_add` overwrites when the ring is full |
| `sveb_race` | 2 threads, 4 keys | finding: a search reads its slot without the lock and misses |

Why these bounds are enough to be interesting:

- `msgq`: with as many clients as slots the ring does get full; the fourth and the
  fifth call reuse the first two slots, so a slot that was freed too early or a
  position that was taken for another would show.  All three clients can be
  anywhere in `queue_add` at once.  `MaxAdds` bounds the calls, since the counters
  only grow; `IntMax` is large enough that they do not wrap.
- `gps`: two calls per queue let a put be followed by a get of the same key and of
  another key of the same substructure, while the other client does the same on
  the other substructure (key 2 is left to `c2`, `LeftToC2`, which costs nothing but
  symmetric states).  What a longer run adds is more of the same, and the
  theorem `Linearizable` has no bound.
- `shm`: three threads make two writers and a reader, or two readers and a writer;
  two keys in one bucket make the first chain of more than one record.  Nothing
  bounds the calls, the state space is finite.
- `bpt`: order 3 is the smallest the code allows (`MIN_ORDER`); 6 keys with the first
  one make trees of three levels, with splits of leaves, inner nodes and roots, and
  leaves that are reached only by going right.
- `bpt_conc`: 5 keys are enough for a parent to be split while another thread waits
  for it, so that `FollowParent` and `FollowLock` happen.  They are too few for it to be
  split twice, which is what `bpt_parent` needs: the run says what the locks achieve
  in small trees, not that concurrent insertion is right in every tree.  The
  schedule of `bpt_parent` is scripted (`InTurn`) because an unscripted run of nine
  keys is out of reach.  Deletions are of key 2, which the same thread may put, and of key 6, which nobody
  puts, and begin when all five keys are in the leaves (`DeleteLate`), with the
  splits of the last insertion still under way.  `db_get` is not called in `bpt_conc`:
  `bpt_find` shows that it may miss.  Nor does `bpt_conc` check `ParentLinks`: after two concurrent puts the root that
  `db_put` keeps may be the one from before a split (hazard at `baseline.c` 160), and
  `EveryKeyFound` shows that every key in a leaf can still be found from it, by going right.  Whether what
  was put is in a leaf is `InsertionsKept`: keys 1, 3, 4 and 5 are never deleted, and must be
  in a leaf when their put returns and ever after.

- `sveb`: the first array holds 7 keys and outgrows itself twice within ten, and a
  rebuild of a part needs the ten (`InsertCollect` with a node that is not the root).
  After the first three keys they come from the two ends (`FromTheEnds`), which makes the
  longest paths; two threads are inside at once only around the first resize.
  `AddressesFollowLayout` looks at the arrays of this run, which have three, four and five levels; of
  larger trees it says nothing.
- `bench_client`: five queries for two clients leave one over.  There are two traces (`MCTypes`): in one of them
  a client gets and puts while the other only gets, in the other one deletes (which is skipped) and
  gets while the other only puts.  A part of two can be
  cut by the alarm between its queries, and a miss and its put.  One key is enough for
  both clients to miss it together.  With `MaxRounds` of 1 a client has run its part once
  when it waits for the alarm.  The safety properties are proved for every trace and any
  number of rounds; `Ends` is checked for these two only.
- `bench`: five by three leaves two over, so the last thread's part is longer, and two
  iterations are not done; the pool of four has all three operations.  Any participant may be
  roused at any time while it waits.

Every property has a mutant of the code that breaks it: the definitions marked
`Mutant of` in the modules, each a plausible slip (a lock, a broadcast or an
unlock left out, `if` for `while`, a result that is not reset).  They are part of
no specification.

### Fairness

`MsgQ` and `Gps` assume that no runnable thread is starved (weak fairness), and
that a client that waits for a mutex that is released again and again gets it at
last (strong fairness of `AddLock` alone).  The first is what a preemptive scheduler
gives threads that spin with `sleep(0)`, sleep, or run; the second is more than
POSIX promises of a mutex, and is needed only because other clients and a reader
that is woken spuriously may keep taking it.  The reader needs nothing of the
kind: a client that overtakes it ends up waiting for it.  Calls and spurious
wakeups need not happen.

`BenchClient` and `Bench` assume that no thread is starved and, for the first, that an alarm
that was set rings; spurious wakeups at the barrier need not happen.  `Ends` says nothing of a benchmark whose alarm was never set
(`alarm` takes whole seconds: `-d 0.5` is no alarm at all).

`BPlusTree` and `Sveb` assume no fairness; their properties are about safety, and deadlock.

`Shm` assumes strong fairness for a reader's acquisition only.  The default lock of
glibc lets overlapping readers keep a writer out, so no property says that a put
returns.

## Proofs

`GpsProofs` holds for any finite set of clients, any substructures,
queue lengths, keys and routing; `ShmProofs` for any threads, keys, buckets and hash;
`BPlusTreeProofs` and `BPlusTreeOrderProofs` for any threads, keys, calls (deletions among them) and any order of the tree from 3 on.

Apart from the assumptions on the constants that the modules state, some theorems take
hypotheses, which are about constants as well:

- `CapacityOK` (`GpsProofs`): at most `Lenght` clients, and no
  more calls on a queue than an `int` counts.  It is what the code relies on without
  testing it: the run `msgq_full` shows what happens without the first half, and
  without the second `lastadded` overflows and `lastadded % lenght` becomes negative.
- `NoDeletes` (`StaysBalanced`, `TreeLinearizable`, `PutsAreKept`): nobody calls `delete`.  `db_put` and
  `db_get` of both programs do not, and a deletion merges nothing, so a tree with deletions
  is not half full.
- `OneThread` (`ParentsLinked`): one thread calls the tree, as under `gps.c`.  With several,
  `bpt_parent` shows a stale parent, and the root that `db_put` keeps may be an old one.
- `OneThread \/ NoReads` (`TreeLinearizable`): one thread calls the tree, or the threads only
  put.  A search takes no lock, and `bpt_find` shows what it misses when another thread splits.
- `FreshSlots` (`TreeLinearizable`, `PutsAreKept`): what `malloc` leaves in a slot is no key of a client.
  The code does not see to it (see *BPlusTree* above): with a key there a put may be dropped.
- `FirstKey \notin Keys` (`TreeLinearizable`): the key of `init_struct` is not the clients'.

- **MsgQ.**  The inductive invariant `IInv` is the type invariant, mutual
  exclusion, no lost wakeup and one operation per call, with two additions:
  `Counters` (the counters are naturals, ordered, and `lastadded` plus the calls
  not yet published is the number of calls, so no counter wraps) and `StoredFirst`
  (an operation is in its slot before it is published).  That the ring never
  overflows is then a counting argument: the backlog is in one-to-one
  correspondence with distinct callers, the caller about to store is not among
  them, and there are at most `Lenght`.  This is where `OneOperationPerCall` is
  needed, and `Slot` being injective on a window of `Lenght` positions is
  what keeps an add from disturbing the backlog.  `FifoCorrect` maps each step to
  a send, a receive, a finish or a stutter.
- **Gps.**  Its steps are MsgQ's with the substructures left alone, or leave the
  queues alone, so `GInv` is `IInv` with `TypeOK`, `AtHome`, `RoutedHome` (a call
  asks the substructure of its key) and `Fresh`.  `UsesQueues` says that every behaviour of
  the store is one of its queues.  `Linearizable` takes the linearization point of a
  call to be the step that performs it (`Insert` or `Search`); the result it has
  for the client is found in its cell or, before that, in the hand of the
  substructure.  A search of one substructure answers for the union because keys
  are at home.  It assumes `InitKeys = {}`: with the B+ tree's
  `{0}` the first search of key 0 would find it.
- **Shm.**  The invariant `SInv` adds to the type invariant and `OneRecordPerKey` that
  a writer is alone (`Walked` needs it) and that what a walk found stays true until
  the lock is given back: the record at `record[t]` has the key, or no record has it
  and `record[t]` is the tail.  `OneRecordPerKey` alone is not inductive, since it
  does not say that the chain is still without the key when `PutAppend` links.
  `ShmLinearizable` takes as linearization point the write of a put (`PutReplace`,
  `PutAppend`) and the end of the walk of a get (`GetFind`).
- **BPlusTree.**  `BInv` is about the memory, the locks and each thread's local variables,
  for every interleaving of insertions, searches and deletions.  `Linked` says
  what a node's pointers lead to.  `LockOK` is exact: a thread holds the locks that
  its place in the code names (`Holds`), no other.  `FrameOK` and `RoomOK` are what a
  thread relies on between its steps: the nodes it holds differ from each other; a node
  that had a parent still has one; a node whose new key is about to be counted has room for it; while an inner node has
  its `num_keys` at 0 (`NodeEmpty`), all its pointers are still nodes, since `NodeSplit`
  copies them.  None of these is inductive without the others: that the other
  threads' part survives a step is `OthersOK`, and rests on `Frozen`, which says that a step
  changes `num_keys` and the pointers of the nodes only that the thread itself has
  locked, and gives a node a parent but never takes it away.  `LeafLink`, `LeafSplit` and
  `NodeSplit` are the steps where it matters: the last one writes to the `parent` of
  children whose locks others hold.  `TreeTypeCorrect`, `NoWildPointer` (searches
  without locks follow no wild pointer) and `LocksGivenBack` follow from `TreeInvariance`.
- **BPlusTree, the order.**  `LeavesInOrder`, `EveryKeyFound` and `NeverPastKey` hold with
  any number of threads that insert, delete and search.  The obvious invariant, that each subtree lies between
  two keys of its parent, is false while a split goes up, with stale parents (the run
  `bpt_parent`) and with roots that were written back late.  `OInv` says nothing of where a node is;
  it says that there are three functions that the code does not have: `l[n]`, the least key
  that a descent may bring to node `n`, `r[n]`, the number of leaves to the right of leaf `n`, and
  `h[n]`, the height of `n`.  They never change for a node that exists, but for `r`, which grows by one at and to the left
  of a leaf that is split, and gets its value when the new half is linked.  Every child pointer
  leads one level down and respects `l` (`Routes`), whichever node holds it; the
  chain counts down `r` (`Chained`); and what is in leaf `n`, and `l[n]`, is above everything that is in a leaf with a
  greater `r` (`Ascends`).  What is *in* a leaf while it is changed takes care: `Count`
  and `Contents` give it the entries it has before they are counted and after a deletion has
  shifted them, and both halves of a leaf whose new half is not linked yet.  Each
  thread brings a fact about the node it is at (`WayOrder`: a descent of an
  insertion or a deletion has `l[left] <= key`; at a leaf, all leaves to the left have less) and about the split it is
  in (`SplitOrder`: the key that goes up is no less than `l` of the new node).  There is one lemma per action; the
  longest are `LeafSplitOrder`, `LeafLinkOrder`, `NodeWriteOrder` and `NodeSplitOrder`.  A node whose parent pointer
  is stale loses no key by it, as the chain is walked to the right.  But `get_left_index` may then run behind
  its array (`bpt_parent`), where the model stops: the theorems are about what comes before that.  That
  `LeavesFrom`, `RightOf` and `Reach` compute what `r`, `l` and `h` promise is by
  induction over `r` and `h`; `EndsExist` shows that such a walk has an end.
  The proof needs `BeforeKeys` to be no greater than any key
  (`BeforeKeysAssumption`; it is 0 with glibc, where `keys[-1]` is the upper half of the size of a
  chunk).  TLC cannot evaluate `OInv`, which is over all such functions; it checks what follows from it.
- **BPlusTree, the shape.**  `StaysBalanced` and `ParentsLinked` are about the tree between calls; what
  is true between calls is not inductive, so each has an invariant of every moment.
  That all leaves are equally deep is the height `h` of the order (`LevelTree`).  `Filled` adds the occupancy: every
  node that has a parent, every child of an inner node, and both halves of a node that is being split have at
  least half of what fits, where `Count` says what counts as an entry while a node is written or
  emptied.  The halves are there because the new one gets its parent before the parent points
  to it, or the other way round, and because a split leaves enough in both of them (`cut`).
  `LinkedUp`: for one thread every child of an inner node has it as its parent, and no two
  entries lead to the same child, so `NodeSplit`, which re-parents the children of the new half,
  takes none from another node; the only nodes without a parent are the root and, while a
  split goes up, its right half.
- **BPlusTree, the store.**  `TreeLinearizable` is the refinement of `KVStore`, the same abstraction that `Gps`
  and `Shm` implement.  What is stored at a moment is `Stored`, which the proof replaces by
  `Counted` (`StoredIs`): a key in a leaf that is being written or split counts from the one step that
  writes it.  `KInv` adds what makes `Present` right (a slot in use or not has what malloc left or a
  key that is stored, so a key that is found in an unused slot has only moved to the other half), that each entry
  has its record, and that while a leaf is split no key is outside both of its halves.  Then every step
  stores no key (`Rearranges`, `RearrangesLeaves`) or one (`LeafWriteStored`, `LeafSplitStored`), and a put takes
  effect at `Present`, `LeafWrite` or `LeafSplit`.  A get takes effect where it compares the keys of its
  last leaf (`FindScan`, `FindRead`), and needs that the search did not go past its key: `RInv`, with
  `ReadsMiss`, which says that a key that is not in the leaf where a search ends is in no leaf.
  `PutsAreKept` (`InsertionsKept`) needs no `RInv`, and holds with several threads that search as well:
  `Kept` says that the key of a put that is decided counts, and what counts only grows.  `LeavesReachable` (of the
  order) is the other half: what is in a leaf is found when the tree is quiet.
- **SumTheorems.**  The counters of the benchmarks are added up over their threads with the
  community modules' `SumFunction`, a fold.  The fold is shown to exist and to be unique for every finite set,
  and from that come the facts the other proofs cite: taking one element out, changing one summand,
  adding two sums, comparing them.  The inductions are over sets of numbers and of subsets
  (`AllNaturals`, `AllOfFinite`), from the well-foundedness of `<`, since a
  theorem that takes an operator cannot be used.
- **Bench.**  `BInv` is about the barrier alone: its trip count is the number of those who
  take part; until the last one comes its count is the number of those who have come, roused
  sleepers included, and only the roused are awake; after that nobody sleeps.  The step that matters
  is the last comer's: a counting argument (`LastFindsAllCome`) shows that all others have
  come by then, and asleep or roused they go on.
  `EarlyOnesWereRoused` holds for any number of threads and of spurious wakeups, in both programs.  `ResultsTrue` needs
  three things more: `Places`, what `main`'s place says about the workers; `Counted`, that the effective
  insertions of all workers are the keys the tree has gained, and that `main` adds up
  counters that are final; and `Inserted`, that a worker of `testpar` has put its part of the list in the tree
  as far as it has come.  That `testseq` then finds every key is arithmetic: the parts
  `start(w) .. end(w)` cover the list, the remainder of the division included (`EveryPart`).
- **BenchClient.**  `CInv` adds to the type invariant `Phases`, what `main`'s place says about
  the threads: not yet created ones are off, joined ones done, a job is being counted
  only inside a call, an index inside the loop is below `num_ops`, and the heart is
  live from `db_new` to the end of `db_free`.  `HeartStaysAlive` and `ClientsRunTheirOwn` follow; the
  second needs the arithmetic of the parts (`InOwnPart`), for any number of clients and queries.
  `MissesOnceOnly` needs to know which keys a client has missed: `Misses` says there is a set of its
  keys, as many as `num_miss`, that are in the store but for the one it is filling, so the next
  miss is a new key.  `TotalsFinal` is from `Totals`, the sums over the threads that were joined, and the fact
  that a thread that was joined takes no step.  `CountsBounded` needs `HeartCounts`: `heartbeatcount` is not
  the sum of what the clients counted, but neither it nor any value of it that a client has loaded is
  more, whatever the order of their loads and stores.

Only model-checked, and why: liveness and fairness (`EveryCallAnswered`,
`EveryCallReturns`, `EveryGetReturns`, `Ends`), which the prover does not reach; and `Sveb`,
whose definitions are recursive, as the code is, and whose properties are about what
the recursion computes.

## Not modelled

- `coalesce_nodes`, `redistribute_nodes` and `adjust_root` of `bpt.c`, which nothing calls (its
  `delete` does not merge); its printing and range searches; and `maintest`, which
  nothing calls either, with the older copy of `common/bench.c` in it.
- `hash`, `unhash`, `simplehash`: functions without state, for which the models take any function.
- gps.c over the static tree (`make bench_ght_sveb`), which `src/README.md` calls not fit for
  partitioning but includes in some comparisons: every substructure's
  `init_struct` resets the one tree's globals while others insert.
- `impl_fill` of the static tree, and the `test_` functions that fill trees with it: nothing calls them.
- `initial_add` with more keys than the range has: it looks for new ones for ever
  (`RangeAssumption`).
- Times, throughput, pinning, power meters, printing, the spinlock shim, the
  dummy store, packaging.

## Running

    tlc -config MCMsgQ.cfg MCMsgQ
    tlc -config MCGps.cfg MCGps
    tlc -config MCShm.cfg MCShm
    tlc -config MCBPlusTree.cfg MCBPlusTree
    tlc -config MCBPlusTreeConc.cfg MCBPlusTree
    tlc -config MCSveb.cfg MCSveb
    tlc -config MCBenchClient.cfg MCBenchClient
    tlc -config MCBench.cfg MCBench
    tlapm GpsProofs.tla
    tlapm ShmProofs.tla
    tlapm BPlusTreeProofs.tla
    tlapm BPlusTreeOrderProofs.tla
    tlapm BPlusTreeShapeProofs.tla
    tlapm SumTheorems.tla
    tlapm BenchProofs.tla
    tlapm BenchClientProofs.tla

The runs that end in a violation are `MCMsgQFull.cfg` of `MCMsgQ`,
`MCBPlusTreeFind.cfg` and `MCBPlusTreeParent.cfg` of `MCBPlusTree`, and
`MCSvebRace.cfg` of `MCSveb`.
