# Verification of zhi-cache

TLA+ models of the cache server under `src/cache/`: a key-value store and
sorted sets behind an HTTP interface, kept in memory, with the key-value half
also saved in LevelDB; and of what the server uses of the flare fiber library
under `src/flare/`. The models are checked by TLC on small instances. For every
value of the constants, TLAPS proves the safety properties and the refinements, all
but one: of the hash map, the key-value server, the skip list, the sorted sets, the
shared mutex, the futures and the nodes' memory ([Proofs](#proofs)).

## The system

A request runs in a fiber of its own (flare runs fibers on several threads).

| Part | Source | Operations that change state |
|---|---|---|
| `HashKv<V>` | `storage/memory/concurrent_hash_map.h` | `GetOrCreate`, `Add`, `Del`; `Get` returns a pointer into the map |
| `KvManager` | `manager/kv_manager.cc` | `Add`, `Del` on one `HashKv<string>` |
| `LocaldbManager` | `manager/localdb_manager.cc` | `Init` (open, load everything into `KvManager`), `Add`, `Batch` |
| key-value handlers | `handler/kv_handler.cc` | `query`, `add`, `del`, `list`, `batch`, and the fibers they start with `Async` |
| init handler | `handler/init_handler.cc` | none; answers whether loading is over |
| `SkipList` | `storage/memory/skip_list.h` | `Insert`; iterators and `Contains` read without a lock |
| `Zset` | `storage/memory/zset.h` | `Add` (map and list), `Del` (map only); `Range` |
| `ZsetManager` | `manager/zset_manager.cc` | `Add` (creates the zset when missing), `Del` |
| sorted-set handlers | `handler/zsert_handler.cc` | `zadd`, `zrmv`; `zrange` |
| server | `server.cc` | starts listening, then starts the loader; quits |
| `Arena`, `Random` | `utils/` | `AllocateAligned` for the nodes of all skip lists; `Next` for a list's heights |
| `ParamParse` | `utils/param_parse.cc` | none (pure) |
| `HashTable` | `storage/memory/atomic_hash_table.h` | unused, does not compile |
| `SharedMutex` | `flare/fiber/shared_mutex.{h,cc}` | locking and trying, shared and exclusive; one per partition of a `HashKv` |
| `Mutex`, `ConditionVariable`, `Event` | `flare/fiber/detail/waitable.{h,cc}` | what a fiber sleeps on |
| futures | `flare/fiber/{async,future}.h`, `flare/base/future/` | `Async`, `WhenAll`, `BlockingGet`, used by `list` and `batch` |

How they interact: `/add` and `/batch` write to the map, answer, and leave the
saving to another fiber. `/del` only changes the map. The loader writes into the
same map while requests are already served. A zset keeps each member's score in
a `HashKv` and appends a node to its skip list at every `Add`; a node counts
while its score is the one in the map. No lock protects `SkipList::Insert`, nor
the one arena from which all zsets take their nodes.

## Modules

| Module | Models | State and actions |
|---|---|---|
| `AtomicMap` | what `HashKv` promises | a function; each call is invoked, applied in one step, returned |
| `HashKv` | `concurrent_hash_map.h` | `map` and `heap` are the nodes of the `unordered_map`s, `Ops` says which calls are made on a key, `readers`/`writer` the partition mutexes; a call is `Invoke`, lock, lookup, commit, `Unlock`, and `Deref` is the caller's read through the returned pointer |
| `HashKvProofs` | | the theorems about `HashKv` |
| `KvServer` | kv and init handlers, `KvManager`, `LocaldbManager`, the process | `memdb` is the map, `disk` LevelDB, `req` the handlers' local state, `tasks` the fibers that will save; `Kill`, `PersistNull` and `Restart` are the process |
| `KvServerProofs` | | the theorems about `KvServer` |
| `OrderedList` | what `SkipList` promises | a sorted sequence of nodes, one step per operation |
| `SkipList` | `skip_list.h` | links, heights, and the local variables of each search and `Insert`; one step per load or store of a shared atomic |
| `SkipListProofs` | | the inductive invariant of `SkipList`, the theorems, and what its users can rely on |
| `Zset` | sorted-set handlers, `ZsetManager`, `Zset` | uses `SkipList`'s own actions for `Insert`, `Seek` and `Next` |
| `SkipListView`, `ZsetSteps`, `ZsetProofs` | | the list as its users see it; the inductive invariant of `Zset` and its steps, given what they do to the list; the theorems, on those about `SkipList` |
| `Arena` | `arena.{h,cc}` | the pointer, the count, the blocks, and what was handed out; one step per load or store of a member |
| `Random` | `random.h` | `Seeded` and `NextSeed`, for words of `Bits` bits |
| `NodeMemory` | `SkipList::RandomHeight`, `NewNode` | several lists with generators of their own on one `Arena` |
| `NodeMemoryProofs` | | the theorems about `NodeMemory`, `Arena` and `Random` |
| `FiberSync` | `waitable.{h,cc}`, `Halt`, `ReadyFiber`, `AcquireFiber` | wait chains, `count_`, `slow_path_lock_`, each fiber's state and `scheduler_lock`; a stack of frames says where in these calls a fiber is |
| `RwLock` | what `SharedMutex` promises | who holds the lock in which mode |
| `SharedMutex` | `shared_mutex.{h,cc}` | the quota and the two counters, on the actions of `FiberSync` |
| `SharedMutexProofs` | | the theorems about `SharedMutex` |
| `ForkJoin` | what `BlockingGet` and `WhenAll` promise | which fibers have run, which results the handler has |
| `Futures` | `Async`, `Core`, `WhenAll`, `BlockingGet` | one core per future, `WhenAll`'s values and countdown, the receiver and the event on the handler's stack, on the actions of `FiberSync` |
| `FuturesProofs` | | the theorems about `Futures` |

The modules whose names begin with `MC` hold the small sets that the
configurations use. `PROJECT.json` maps each definition to its source lines.
Definitions marked *Mutant* are plausible bugs: each is put in the place of the
definition it stands before, to see the property of a run fail.

The layers are composed by their abstractions. `SharedMutex` implements `RwLock`,
so `HashKv` takes a partition's mutex in one step, when the mode allows it.
`HashKv` implements `AtomicMap`, so `KvServer` and `Zset` treat the maps' calls
as single steps. `Futures` implements `ForkJoin`, so in `KvServer` a handler goes
on once the fiber it waits for has run. What `AtomicMap`
does not cover, the pointer that outlives the lock, is kept in both: in
`KvServer` a pointer whose node was assigned to or erased is *raced* and reading
it may yield any value or garbage; in `Zset` a pointer to an erased score may
compare either way. `Zset` includes the skip list itself, not its abstraction; the read
of `*score` in `Range` and the `Next` of the iterator after it are one step.

## Runs

| Run | Instance | Shows |
|---|---|---|
| `hash_map` | 2 fibers; 3 keys in 2 partitions, one with `Get` and `GetOrCreate`, two with `Get`, `Add` and `Del`; 3 nodes, 2 values | `TypeOK`, `NodesOwned`, refinement of `AtomicMap`; `PointersStayValid`, `CreatedOnce`: fibers that race to create a zset share it, and keep it while keys of the same partition come and go |
| `kv_safety` | 3 requests, 2 keys, 1 I/O error, 1 restart | nothing stays only in memory; answered writes are visible; an inited server has its data (no I/O error) and from then on only clients change it; answers pair keys and values; batches are atomic on disk |
| `kv_live` | 2 requests, 2 keys, 1 I/O error, 1 restart | answered writes get saved; every request is answered; loading ends |
| `skip_list` | 1 writer, 1 reader, 3 nodes, 2 keys, height 2 | levels nested and sorted at every step, refinement of `OrderedList`, every operation ends |
| `zset` | 1 `zadd`, 1 `zrange`, 1 `zrmv` at a time, 3 nodes, 2 members, 2 scores | `zrange` is sorted, within bounds, and misses no member that nobody touches |
| `shared_mutex` | 2 readers, 2 writers, each calling again and again, quota 5 | refinement of `RwLock`; the counters account for every fiber; the inner mutexes exclude; no `FLARE_CHECK` fails; writers are served, and readers unless writers keep coming |
| `futures` | up to 4 fibers, awaited one by one or with `WhenAll` | refinement of `ForkJoin`; cores and receivers are filled once; nobody touches the handler's stack after `BlockingGet`; the handler returns |
| `node_memory` | 2 lists taking turns, 4 blocks, generator modulo 31 with every seed | nodes are disjoint, aligned and inside their block; at most a quarter of a block is wasted; `Next` multiplies modulo `M` and goes through every number |

Runs that refute what the repository says of itself (`findings` in
`PROJECT.json` quotes the lines):

| Run | Refuted | Why |
|---|---|---|
| `undelete` | `DeletedStaysDeleted` | a delete is not saved; a key whose delete was answered before the process ended is loaded again by the next start |
| `member_twice` | `MembersOnce` | adding a member with the same score leaves two nodes that count |
| `two_zadds` | `RangeComplete` | two unsynchronized `Insert`s lose a node of a `zadd` that was answered |
| `shared_arena` | `PiecesDisjoint` | `AllocateAligned` has no lock, and zsets share the arena: one call uses the pointer of one block with the count of another |

### Bounds

Two fibers on one partition and a key in another exercise every conflict of the
hash map; a key that is only created shares its partition with one that is added
and deleted. As many nodes as keys are enough, because a map never needs more. In `kv_safety`
three requests are the smallest number with a write, a write or delete that
interferes, and a reader; one restart is the smallest with something to recover.
`MaxRestarts` and `MaxIOErrors` bound the starts and errors, `MaxNodes` the
insertions; two levels are the smallest with nesting (the skip list was also
checked with three). Requests that are refused at once (no key, empty value,
empty list) are in `kv_live` only, where they are cheap. Symmetry is used for
nodes, values, requests and members, never with a liveness property, and no
definition tells these apart.

Two readers and two writers are the smallest instance in which a writer waits for
a reader while another writer and another reader arrive, and a grant can be taken
by a reader other than the one it was meant for; the quota only has to exceed the
number of fibers (`QuotaAssumption`; the code has 2^30 - 1 and checks it). Four
fibers in `futures` give `WhenAll` a first, a last and two in the middle. In
`node_memory` blocks of 24 bytes with nodes of 4 to 10 bytes give nodes that fit,
that just fit, that start a new block and that get a block of their own; words of
5 bits with multiplier 13 keep what makes the generator work (`M` is prime and 13
a primitive root, as 16807 is for 2^31 - 1), and one of two instead of one of four
draws raises a height, so that `kMaxHeight` is reached. `shared_arena` differs
from it only in `MaxCallers`.

Deadlock is checked in `hash_map`, where a fiber that waits for a lock must always
get it in the end. In `shared_mutex` a state without a next step would have every
fiber asleep, which `WritersServed` and `ReadersServed` exclude; the separate check
is off there so that a lost wake-up is reported as the property it breaks. In the
others the run may stop: requests, restarts, nodes, blocks or results are used up.

### Fairness

`FairSpec` of `KvServer` asks that a handler, a saving fiber or the loader that
can take a step eventually takes one; flare's scheduler takes ready fibers from
its run queue in turn. Starting requests, crashes and restarts are not fair.
`FairSpec` of `SkipList` asks the same of a search and of an `Insert` once it is
called, that of `SharedMutex` of every fiber that is inside a call or holds the
lock (its holder does unlock; calling is not fair), and that of `Futures` of every
fiber. The runs show that weak fairness is enough, also for the spinlocks: no
spinlock has to be fair among the fibers that spin. In the skip list no fairness
is asked of another fiber for a reader's sake: readers never
wait.

## Proofs

Each theorem holds for every value of the constants that satisfies the named
assumptions of the modules; TLC evaluates these on every run. Each rests on an
inductive invariant `IInv`, with `Init => IInv`, one lemma per action that the
action keeps it, and the theorem `Invariant` (`Invariance` in `HashKvProofs`), `Spec => []IInv`
(`Inv` in `ZsetProofs`).
`TypeCorrect` is each module's type invariant. The other theorems follow.

### HashKvProofs

For all fibers, keys, values, nodes, hash functions and numbers of partitions
(`PartitionAssumption`: at least one; `SentinelAssumption`; `OwnerAssumption`):

* `NodesOwnedAlways`: `Spec => []NodesOwned`;
* `Refinement`: `Spec => LinearizableMap`;
* `ZsetPointersStayValid` and `ZsetCreatedOnce`: for the keys on which only `Get`
  and `GetOrCreate` are called, as `ZsetManager` does, whatever is called on the
  other keys of the map.

`NodesOwned` is not inductive: that an insertion does not lose a
node depends on the key still being absent when the fiber commits. `IInv` adds
what the partition mutex gives: a fiber between lock and unlock holds the mutex
of its key's partition in the mode of its call; a writer excludes all others; so
the iterator of a fiber at `commit` is still the key's node; and a node is `Torn`
only while the writer of its partition is assigning to it. Keys of different
partitions cannot share a node. The mapped map ascribes to an `Add` its new value
from the start of the assignment, which no lookup can see because of the mutex.

The two theorems about entries that are only created rest on `IInv`: the only step
that frees a node or assigns to it is the commit of an `Add` or a `Del`, which holds
the mutex of its own key and reaches that key's node only. `PtrInv` adds that the
pointer a call returns is the node of its key.

### KvServerProofs

For any number of requests of any menu, any keys and values, any database at the
first start, and any number of restarts and of LevelDB errors
(`MenuAssumption`: a request has the items its handler expects;
`SentinelAssumption`; `BoundAssumption`):

* `MemoryIsSaved` (`NothingOnlyInMemory`), `AckedCanBeQueried` (`AckedVisible`),
  `InitedIsLoaded` (`LoadedUnlessFailed`), `AnswersBelong` (`AnswersAligned`),
  `BatchesAtomic` (`BatchAllOrNothing`);
* `LoadedDataIsClients`: the action property `ClientsOwnLoadedData`.

The properties lean on one another and on more. `AckedVisible` needs that a handler
which has written but not answered is visible too, item by item of a batch
(`VisibleInv`), and that what the loader stores is never nothing. `LoadedUnlessFailed`
needs that the loader still has to store whatever is on disk and not in the map
(`LoadInv`). `NothingOnlyInMemory` needs the same of the loader's snapshot: what it
has yet to store is on disk, or a client's write is (`SnapInv`). `AnswersAligned`
needs that a pointer which was not raced is still the node of its key (`PointerInv`),
and where the values of a key can come from (`OriginInv`). `BatchAllOrNothing` needs
that the disk differs from its first state only where a request has saved, and has
all or nothing of what only one request writes (`DiskInv`).

### SkipListProofs

For one `Insert` at a time (`OneWriter`, a hypothesis of each theorem) and any number
of readers, for all keys, heights and numbers of nodes (`OrderAssumption`: the
comparator is a strict weak order; `HeightAssumption`, `SentinelAssumption`):

* `LevelsStayNested` (`LevelsNested`);
* `SkipListIsOrderedList`: `Spec => LinearizableList`.

`OneWriter` is what `skip_list.h` asks of its callers. The server does not ensure it;
`two_zadds` shows what is lost without it.

`IInv` speaks of the nodes that are linked on a level, `InList(l)`, and of the order of
the list, `Ahead`: by key, and of equal keys the newest first. A link leads to the first
linked node that comes after its own (`Links`); a node is linked from the bottom
(`NodeInv`); a search stands at a linked node that comes before its target
(`Standing`); what `Insert` has noted in `prev` is where the new node belongs, until it
is linked there (`Spot`). Every property follows from `Links`. For the two that speak of
the whole list, the sequence `Chain(l)` that is got by following the links is shown to
be the linked nodes in the order `Ahead`; as `Chain` is a recursive function over the
number of links followed, this is argued with the least number at which it would fail.
The last section shows what a user of the list can rely on: a node that is in the list
stays (`Grows`), `Insert` brings a node with its key before it ends (`Progress`), `Seek`
ends at the first node that is not before its target (`Lands`), `Next` at the first node
after (`Moves`).

### SkipListView, ZsetSteps, ZsetProofs

For one `/zadd` at a time (`OneWriter`) and any number of `/zrange` and `/zrmv`, for all
members, scores, heights and numbers of nodes (`ScoreAssumption`: scores are integers;
`BoundAssumption`, `SentinelAssumption`):

* `RangeStaysSorted` (`RangeSorted`);
* `RangeStaysComplete` (`RangeComplete`).

The invariant, `Inv`, is that of the skip list and one of the zset itself (`IInv`). A
step of the zset is a step of the list or leaves it alone: `ZsetSteps` takes what it does
to the list, in the terms of `SkipListView`, as a hypothesis (`ListKeeps`), and
`ZsetProofs` discharges it with the lemmas of `SkipListProofs`, which it instantiates.
`IInv` relates the two halves of a zset: a member with a score has
its node in the list, or the `Add` that stored the score has yet to link it (`MapInv`);
so a member on which no `Add` is at work has its node (`Stored`). For a `Range` that is
iterating, each member it owes (`Due`) is answered or the iterator still comes to its
node (`Ahead`): a new node does not move the old ones, `Next` passes over no node, and
the pointer to the score of a member that nobody touches is not raced.

### NodeMemoryProofs

For any number of lists, any sizes of blocks, nodes and links, and no bound on the
blocks (`ArenaAssumption`, `NodeAssumption`: positive, aligned sizes):

* `PiecesAreDisjoint` and `WasteIsBounded`, under `MaxCallers = 1`: one list is in
  `AllocateAligned` at a time. The hypothesis is needed; `shared_arena` refutes
  `PiecesDisjoint` without it, and the server does not ensure it. `IInv` says that
  the current block is filled without gaps up to the pointer and free after it
  (`RoomInv`, with the step between the two stores spelled out), and that a block
  which was left is filled up to its last quarter (`WasteInv`);
* `DrawsAreProducts`: `Next` is multiplication modulo `M` for every `Bits`, `M` and
  `A` with `BitsAssumption` and `RandomAssumption` (`M = 2^Bits - 1`, and no seed
  but 0 gives 0), for any number of callers. The product is split at bit `Bits`,
  the sum of the parts is congruent to it, and one subtraction brings it into range.

### SharedMutexProofs

For any finite number of fibers below the quota (`QuotaAssumption`, as the code
checks; `FiberAssumption`, `MemberAssumption`), down to each atomic access of the
two mutexes, the condition variable and the scheduler:

* `CountersAreRight` (`ReadersAccounted`), `SectionsExclude` (`MutexesExclude`),
  `ChecksNeverFail` (`ChecksHold`);
* `SharedMutexIsRwLock`: `Spec => ImplementsRwLock`.

`IInv` has two parts. `SyncInv` is about the primitives: a mutex has one token, which
is with its owner, with the fiber that is to pass it on, or with one it was passed
to (`MutexInv`); `count_` counts the owner and the waiters; a fiber that waits is
once in the wait chain of what it waits for, or was taken from it by one fiber that
will make it ready, or is ready (`ChainInv`). `CounterInv` relates `reader_quota_`,
`exited_readers_` and `newly_granted_readers_` to the numbers of fibers that read,
wait and leave. The second part uses of the first only that the two mutexes exclude
and that a `wait` returns with its mutex.

### FuturesProofs

For any number of fibers that a handler starts, awaited one by one or with `WhenAll`
(`TaskAssumption`):

* `ChecksNeverFail` (`ChecksHold`): a core is satisfied once and given one
  continuation, a receiver is filled once, only a fiber that sleeps is made ready;
* `ReceiverStaysAlive` (`ReceiverAlive`): no fiber touches the receiver or the event
  of a `BlockingGet` that has returned;
* `FuturesForkAndJoin`: `Spec => ImplementsForkJoin`.

`IInv` says what is true of the core a fiber works on (`FrameInv`), so that at the
receiver and the event it is the core the handler waits for; one fiber satisfies a
core and runs its continuation (`OneProducer`); a core has a continuation only when
the handler has come that far (`CoreInv`); an event is set once, after its receiver
was filled, and only the handler waits for it (`EventInv`). `LeftInv`: `WhenAll`'s countdown is the number of fibers whose
result is not yet stored.

### Only model-checked

* Liveness (`kv_live`, and the liveness properties of `skip_list`, `shared_mutex`,
  `futures`): TLAPS has no rules for fairness and `ENABLED` here.
* `DrawsCycle`: that every number is drawn depends on the primitive root, not on a
  step of the model.

## Abstractions

* LevelDB (external) is a function from keys to values that survives the end of
  the process; a write batch is atomic and an iterator is a snapshot. A machine
  crash that loses unsynced writes is not modelled. A call may fail, up to
  `MaxIOErrors` times. The order in which the loader meets the keys is left open.
* `_db` is null until `Open` succeeds (the singleton lies in zeroed static
  storage); saving through it ends the process (`PersistNull`).
* The loader overwrites what clients add while it runs, and reports ready also when
  the iterator has failed; both are in the model. The properties about loading
  speak of a server that has answered ready, and of one without I/O errors. So a
  key that is deleted while the loader runs can come back at once;
  `DeletedStaysDeleted` leaves that case out and speaks of deletes that were
  answered by a process that has ended.
* Atomic counters of the mutexes and futures are single steps; what the code orders
  with acquire and release is modelled as sequentially consistent. `Waitable`'s own
  spinlock and the `std::mutex` of a core are held within one step.
* `Arena`: the plain members are read and written in the order of the source, one
  access at a time, but each is loaded once in a call, although the source names
  `alloc_ptr_` again where it is advanced: an optimizing compiler merges the plain
  loads. The trace of `shared_arena` relies on this; a compiler may reorder more.
* Skip list: links are stored with release and loaded with acquire order; they
  are modelled as sequentially consistent, which one writer justifies, since a
  reader only ever follows a link to a node whose fields were written before.
  `max_height_` is relaxed, and a reader may see any value it has held. Asserts
  are compiled out. Memory never written is `Uninit`, and following it is an
  error that `TypeOK` excludes.
* One writer at a time in `skip_list` and `zset` is what `skip_list.h` requires;
  the server does not ensure it, which is what `two_zadds` shows.
* JSON, URIs and logging are left out: a request is a parsed record of a menu.
  The answers of the sorted-set handlers to a URI without a key are left out.

## Not modelled

* `ParamParse` and routing: regular expressions over a URI, without state. Their
  outcome is part of a request.
* `HashTable`: dead code. `Arena::Allocate`, `Random::Uniform`, `OneIn`, `Skewed`:
  no caller.
* Waits with a timeout (`wait_until`, `AsyncWaker`), `notify_one`, `WaitableTimer`,
  `ExitBarrier`, `OneshotTimedEvent`, `WhenAny` and executors other than the inline
  one: the server never uses them.
* flare's workers (run queue, sleeping and waking threads, work stealing), its HTTP
  server, I/O and RPC. What the models take from them is that a request gets one
  fiber, and that a ready fiber is run at last.
* LevelDB and xpack are third-party libraries.
* Destruction of zsets, maps and the arena: the singletons live as long as the
  process.
