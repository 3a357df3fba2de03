# WaveDB verification

TLA+ models of WaveDB, the TLC runs that check them on small instances and TLAPS
proofs. WaveDB is an embedded hierarchical key-value database in C with a graph, a
vector and a GraphQL layer on top. Source paths below are relative to the
repository; `PROJECT.json` maps every definition to the lines it models.

## 1. Inventory

| Component | State it keeps | Operations | What is hard |
|---|---|---|---|
| Transaction IDs (`src/Workers/transaction_id.c`) | global counter, high-water time | get_next, compare, advance_to | clock steps back, restart, two-step draw |
| Transaction manager (`src/HBTrie/mvcc.c`) | 64 shards of active transactions, shard minima, min_active, last_committed | begin, commit, abort, get_min_active, gc | interleaving of commits, cutoff computed without a lock |
| Version chains (`src/HBTrie/bnode.c`) | chain of versions per key | add, find_visible, gc | snapshot reads racing GC |
| HBTrie (`src/HBTrie/hbtrie.c`) | trie nodes, write locks, seqlocks | find, insert, delete, gc, lazy load, eviction | optimistic reads, lock crabbing, a lock released for I/O |
| B+tree pages (`src/HBTrie/hbtrie.c`, `bnode.c`) | pages of each trie node | search, insert, split, delete, gc | splits that propagate, separators |
| Database (`src/Database/database.c`) | trie, WAL, LRU, write-lock shards, page file | put, get, delete, increment, batch, snapshot, vacuum, open, destroy | order of WAL, trie, commit and cache steps; vacuum against writers; teardown |
| WAL (`src/Database/wal_manager.c`) | a log per thread, manifest, sequence numbers | write, rotate, seal, recover, compact, flush | crash at every step, replay order |
| LRU cache (`src/Database/database_lru.c`) | sharded map and list, memory budget | put, get, delete | budget, agreement of list, table and counters |
| Page file (`src/Storage/page_file.c`, `stale_region.c`) | append position, superblock slots, stale regions | open, write_node, read_node, write_superblock, mark_stale, vacuum_file_swap | crash between writes, torn superblock |
| B-node cache (`src/Storage/bnode_cache.c`) and eviction (`src/Database/eviction_queue.c`) | page cache with pins and dirty counts, eviction queue | read, write, release, invalidate, evict, flush | pins against eviction, vacuum and teardown |
| Work pool (`src/Workers/pool.c`, `queue.c`, `work.c`, `join.c`, `promise.c`) | job queue, workers, idle count | enqueue, wait_for_idle, shutdown, join_all | lost wake-ups, shutdown races |
| Timers (`src/Time/wheel.c`, `debouncer.c`, `ticker.c`) | hierarchical wheel, timer map | set, cancel, tick, stop, debounce, flush | cancel against fire |
| Memory pool (`src/Util/memory_pool.c`) | free lists, caches per thread | alloc, free | a block in two places, or in none |
| Reference counting (`src/RefCounter/refcounter.c`) | count, yield | reference, dereference, yield, consume | destroy by two threads |
| Iterator and scans (`src/Database/database_iterator.c`) | stack of positions | start, next, end, in both directions | bounds, prefix keys, tombstones |
| Subtrees (`src/Database/database_subtree.c`) | prefix, parent database | the database's operations below a prefix | ranges that end where the prefix does |
| Graph layer (`src/Layers/graph`) | four indexes, schema, statistics, morphisms | insert, delete, define, query | queries rewritten by an optimizer, schema and indexes that drift apart |
| Vector layer (`src/Layers/vector`) | vectors, index entries, centroids or projections | insert, delete, search, train, rebuild, migrate | maintenance of many writes cut short; reads before writes without a lock |
| GraphQL layer (`src/Layers/graphql`) | schema in memory and stored, counters, entities | parse, query, mutate | plans, unbounded scans, requests on workers |
| Bindings (`bindings`) | handles | marshalling | foreign-language glue |

### How the parts interact

A call of the C interface runs either on the caller's thread (`database_*_sync`)
or as a job of the work pool. A write begins a transaction at the transaction
manager, logs the operation to the WAL of its thread, takes the write-lock shard
of its path, puts a version at the head of the entry's chain in the trie, commits,
and puts the value into the LRU cache. A read looks into the LRU cache, takes
`last_committed_txn_id` as its read point, walks the trie without locks
(seqlocks) and returns the newest version at or below the read point. Nodes that are
on disk only are loaded on the way through the B-node cache; pages the cache evicts go
through a queue, a debounced timer and a job of the pool that takes them out of the
trie. A snapshot flushes the WAL buffers, asks the transaction manager for the oldest
active transaction, removes older versions, and writes the dirty nodes and a
superblock to the page file. Destroying the database does the same and then drops the
log. Opening it reads the newest superblock with a valid CRC, and replays the log.
Vacuum keeps writers, cursors and the eviction job away, writes the whole trie into a
second page file and renames it over the first. The layers are clients of the
database's batch, scan and increment operations, and of the pool.

### What makes each part correct

- *Transaction manager.* IDs are unique; the read point rises and is always a
  committed transaction; whoever returns from commit can read what it wrote; shard lists hold
  the running transactions, and it is known when a shard's minimum is their least.
- *Version chains and database operations.* A get never returns a state older
  than a write that returned before it; collection of old versions is invisible.
- *Trie.* Every insertion and deletion takes effect once, at one moment between its
  call and its return; a lookup tells something its key held; writers return.
- *B+tree, iterator, subtrees.* Every key is found where a descent looks for it, and a
  scan gives exactly the keys of its range.
- *WAL.* What an fsync has covered can be recovered at every moment, and comes back
  in an order in which the newest write of a key wins.
- *Page file.* The checkpoint behind the superblock that an open would choose is
  complete at every moment; a clean close keeps everything; the list of stale
  regions is exact; the flush loop ends.
- *Caches, allocator.* Pinned pages are not freed, lists, tables and counters agree,
  memory stays within the budget, a block is in one place.
- *Work pool.* A queued job runs or is aborted, promises settle once, closing ends.
- *Timers.* A timer that is set and not cancelled calls back once, and not late.
- *Vacuum and teardown.* It is known who may be in the trie beside the walk; nothing
  runs on a freed database; whoever waits for a vacuum wakes up.
- *Layers.* Indexes agree with what is stored, queries and searches answer what
  their definition says, interrupted maintenance converges, and what is stored
  survives a reopening.

The hazards, each at its line and with the properties that cover it, are in
`PROJECT.json`.

## 2. Modules

| Module | Models | State | Actions |
|---|---|---|---|
| `TxManager` | `mvcc.c` with the ID draw of `transaction_id.c` | shards, minima, cutoff, read point, a program counter per thread | one per atomic step: the two steps of a draw, registration, each read and CAS of the commit loop, each shard of the cutoff scan |
| `TransactionId` | `transaction_id.c` over several lives of the process | wall clock, the two atomics, IDs in the log | each step of `get_next` and of the two CAS loops of `advance_to`; the clock, crash, restart, another database opening |
| `MvccStore` | put, get, delete, increment, batch, scan, snapshot of `database.c`; ends of insert, delete, find and GC of `hbtrie.c`; chains of `bnode.c`; what they do to the LRU | chains, LRU, write locks, active transactions | one per step between two points where another thread may run |
| `HbTrie` | `hbtrie_insert`, `hbtrie_delete`, `hbtrie_find`, `hbtrie_gc`, lazy loading, eviction of clean children | nodes with lock and sequence number, children in memory and on disk, a program counter and path per thread | each lock, test, load, unlock, use of a child pointer after the unlock, write, validation and read of a walk |
| `KeyMap` | what the trie promises (abstract) | a map, and per caller pending, applied or returned | an operation takes effect; it returns |
| `BTree` | pages of a trie node: search, insert, split, find, delete, gc of the sync-only mode | none (operators on a heap of pages) | used by `Iterator` |
| `Iterator` | `database_iterator.c`, both directions | none (operators on a stack of frames) | used by `Subtree` |
| `Subtree` | a client that puts, deletes, collects, scans and uses subtrees (`database_subtree.c`) | the heap, and the map the calls amount to | one per call |
| `WalManager` | `wal_manager.c`, and what `database.c` does around it | files with a synced prefix, manifest, checkpoint, thread WALs and their buffers, compaction in progress | append, rotation, sealing, compaction in its steps, drain timer (where there is a wheel), snapshot, destroy, power failure, recovery |
| `PageFile` | `page_file.c`, the flush and the vacuum rewrite of `database.c` | files as cells, superblock slots, dirty flags and offsets of the trie | one per write to the file and per change of flags; failing writes, crash, open |
| `StaleRegion` | `stale_region.c` | none (operators on a sorted list) | used by `PageFile` |
| `DatabaseLife` | vacuum protocol, eviction pipeline and teardown of `database.c`, `eviction_queue.c`, `debouncer.c` | flag, counts and condition variables of vacuum and cursors; queue, timer, works; what is freed | each test, wait, wake-up and hand-over of writers that test the flag and of those that do not, a cursor, the vacuum, a pool worker, the timer and the destroying thread; the load and the store of a queue push |
| `WorkPool` | `src/Workers` without transaction IDs; reference counts of a work | queue shards, wait sets, workers, jobs, promises, a join | what happens between two acquisitions of a lock, or one lock-free access |
| `BnodeCache`, `LruCache`, `MemoryPool`, `TimingWheel` | `bnode_cache.c`; `database_lru.c`; one size class of `memory_pool.c`; two of the wheels of `wheel.c` | tables, lists in order of use, counters, pins; free list and thread caches; slots, plans, timer map | one per operation under its lock; the wheel's tick and stop in their steps |
| `PrefixSums` | the memory of the entries of a list, summed in its order | none (operators) | used by `BnodeCache`, `LruCache` |
| `Services` | these four side by side, one per behaviour | | |
| `Base` | `Services` and `TransactionId`, one per behaviour | | |
| `Runtime` | `TxManager` and `WorkPool`, one per behaviour | | |
| `Store` | the two modes of the database: `MvccStore` (concurrent) and `Subtree` (sync-only) | mode | |
| `GraphQuery` | parser, optimizer and execution of graph queries, and what a query means | none (operators) | used by `Graph` |
| `Graph` | `graph.c`, `graph_schema_parser.c`, `graph_stats.c` | indexes, schema in memory and stored, statistics, morphisms, open works | insert, delete, batch, define, compute statistics, query, reopen |
| `Vector` | `vector_layer.c` and the index types | vectors, entries, centroids, stored type, works | insert and delete in their read and write; each write of train, rebuild and migrate; crash, failure, reopen |
| `GraphQl` | schema, plans and resolution of `src/Layers/graphql` | database, registry, references, requests of workers | parse, open and close, submit and abort, each read of a query, the steps of a mutation |
| `Layers` | the three layers, one per behaviour | | |
| `TxManagerProofs`, `TransactionIdProofs`, `WalManagerProofs`, `WorkPoolProofs`, `DatabaseLifeProofs`, `ServicesProofs`, `PageFileProofs`, `HbTrieProofs` | theorems about the module of that name (`ServicesProofs`: the four parts of `Services`), section 4 | | |

`MC...` modules hold the instances for TLC. Definitions with a comment "Mutant:" are
plausible bugs, listed in `PROJECT.json`; no specification uses them.

**Composition and refinement.** `HbTrie` implements `KeyMap`: its property `Implements`
is `KeyMap`'s specification under the mapping that reads the map off the nodes a
lookup would reach and the status off the program counters. `MvccStore` takes the trie
to be such a map and adds versions; `BTree` has the pages of what `HbTrie` takes to be
one function per node; `Iterator` and `Subtree` extend `BTree`. `PageFile` extends
`StaleRegion`. `DatabaseLife` takes the page work of a vacuum from `PageFile` as one
step, and `WalManager` the whole checkpoint.

`Services`, `Base`, `Runtime`, `Store` and `Layers` put parts beside each other that share
no state in the code. A behaviour chooses one part at the start and exercises that one;
the others rest. So a run of such a module asks of each part what a run of its own would,
and the theorems about a part are about the part's own specification. Fairness is asked
only of the part that runs.

**Histories.** Some variables only record what has happened, so that a property can say
up to which event the code keeps a promise. No guard reads them, except where a step that has
gone wrong ends the behaviour:

| Variable | Records |
|---|---|
| `TxManager!late` | shards in which a smaller ID registered after the minimum was set |
| `TransactionId!behind` | the clock was behind the recovered ID at a draw |
| `MvccStore!overlapped` | counters that two increments were counting up at once |
| `HbTrie!torn` | an entry was used through a pointer after another thread had changed it |
| `WalManager!reused` | a file was opened under a name the manifest already knew |
| `PageFile!lost`, `marked` | an open has not found the list of stale regions; what was ever marked |
| `PageFile!odd` | which rare events have happened: a writer beside a flush, a failure late in one, a failed vacuum, a torn lone superblock, a crash before an `IndexBlkMeta` |
| `DatabaseLife!crossed`, `gap` | two pushes stored over each other; who stood between test and registration |
| `TimingWheel!twLate` | timers set after the stop |
| `Graph!gLoose` | types defined twice or not stored |
| `GraphQl!qHist` | entities of acknowledged mutations; types whose counting overlapped or failed |

Abstractions worth knowing:

- In `TxManager` a seqlock-protected 24-byte ID is read and written in one step,
  and seconds and nanoseconds are one tick; `TransactionId` has all three fields.
- `MvccStore` takes a lookup, an insertion, and a call of the transaction manager
  as one step each, draws IDs in order, and gives every key its own write-lock
  shard. An increment reads its old value in a step of its own, before it takes the lock.
  Keys are model values; `Under` says which keys lie below which in the trie.
- In `HbTrie` chains are reduced to their newest version; failing allocations and failing
  reads are left out. A writer that descends unlocks the node and then reads the child
  from the entry once more; a reader validates the sequence number and then reads flags
  and value. When another thread has changed the entry in between, the pointer or the union may
  mean anything: `UseTorn` records this in `torn` and the behaviour ends there.
- `BTree`, `Iterator` and `Subtree` are sequential: the sync-only mode, or one client.
  A chunk is a number.
- In `WalManager` an entry is its key and transaction ID. A power failure keeps the
  synced prefix of a file and any longer prefix of it. A configuration without `drain` is
  a database without a timer wheel (sync-only). Failing system calls,
  encryption and the migration of the old log are left out.
- In `PageFile` a block is a few cells, the last one for `IndexBlkMeta`; a node
  has a version, the offsets of its children, and one of a few sizes. Writes
  reach the disk in order.
- `WorkPool` leaves out spurious wake-ups; each job has a submitting thread.
- `TimingWheel` leaves out a delay of zero. The stop takes the hierarchy's lock and then
  that of each wheel; a maintenance that holds its wheel's lock waits for the hierarchy's,
  so both can wait for ever, as in the code.
- In `DatabaseLife` the writers of `Testing` test the flag of a vacuum
  (`database_put_sync`, `_get_sync`, `_delete_sync`); the others are the asynchronous
  operations, batches and increments, which do not. A work or an arm of the timer on a
  freed database is not continued.
- `GraphQuery` numbers vertices and predicates in key order; a query sees one state
  of the database. In `Graph` the store of a type may fail, which the parser ignores.
  `Vector` has one coordinate; k-means may choose any centroids. The left neighbours of a
  search by hash are what the reverse scan of `Iterator` sees (`SeenBelow`).
- `GraphQl` starts from the syntax tree of a request. The selections below a field
  of an entity are resolved in one step. A creation reads its counter and writes it in two
  steps, the second of which may fail (the identifier is then 1). A deletion deletes key
  after key while its scan goes on. A refused request stays unanswered.
  Custom resolvers, directives and default values are left out.

## 3. Runs

| Run | Question | Instance |
|---|---|---|
| `runtime_safe` | Are IDs unique, the read point monotone and committed, shards exact, and does a commit return? Is every accepted job settled once, and does closing end? | 2 threads, 2 shards, 2 clock values, 3 transactions; or 2 workers, 2 queue shards, 2 jobs of four kinds, closed at any moment |
| `base_safe` | Are IDs of one life distinct and above the recovered ones? Do pins, lists, counters, free lists and timers keep their promises? | 2 threads, batches of 2, 2 seconds of 2 nanoseconds, 2 draws in each of 2 lives; page cache of 2 pages, 2 threads, 1 or 2 shards; value cache of 3 keys and 2 sizes; 3 blocks, 2 threads; 2 timers of 3 durations, 3 ticks |
| `store_safe` | Does a get ever miss a write that returned before it? Does GC beside a writer and counters change what is read in the end? Sync-only: is every key found, and does every scan give exactly its range? | three programs of 3 threads over 2 keys, 3 or 4 transactions; pages of 3 entries, trees of up to 3 levels, every order of 4 keys, prefix keys, names of two chunks, 3 changes |
| `wal_safe` | Is every synced write recoverable at every moment, and replayed in order? Is every buffer drained? | 2 writers, then another life with a third; all sync modes, and no wheel; at most 1 sealed file; 3 writes; 1 snapshot; power failures and destroy |
| `page_safe` | Does a crash at any write keep the last checkpoint? Does a close keep everything, is the stale list exact while it is found, does the flush end? | chain of 3 nodes, blocks of 5 cells, nodes of 1 or 4 cells, 2 superblocks, 1 inline region, 2 updates, 3 flushes, 2 faults |
| `trie_safe` | Does the trie under concurrent use implement an atomic map, and do its writers return? | 3 threads over 4 keys, two of them prefixes of others; about 240 scenarios, in memory and on disk |
| `life_safe` | Who can be in the trie during a vacuum's walk, what outlives the database, and do sleepers wake? | two writers (one that tests the flag), a cursor, a pool worker, 1 vacuum, 2 evictions by two threads, a queue of 1, own or borrowed pool |
| `layers_safe` | Do indexes, queries, searches, maintenance and GraphQL requests tell what was stored? | 3 triples, 2 predicates, 12 queries, 4 operations; 2 vectors, 2 workers, 2 maintenance calls; 4 types, 2 workers with up to a few requests, 1 reopening |
| `shard_min`, `increments`, `trie_torn`, `scan_lost` | (violations, below) | the instances of `runtime_safe`, `store_safe` and `trie_safe` (a writer pair and readers); 6 keys in descending order |

Between 170,000 and 4.8 million states each, in up to four minutes with two workers.

Why the bounds are enough for the cases that matter:

- *runtime_safe*: two threads suffice for a lost or stale CAS, for a scan that a
  registration overtakes and for two transactions in one shard, registered in either
  order; three transactions put two into one of the two shards. With two workers one can
  sleep while the other takes its signal; jobs are an operation with a promise, an
  eviction, a raw work and a batch whose abort is NULL.
- *base_safe*: batches of two make a recovery that ends inside and at the end of a
  batch; two lives are a recovery and what follows it. The clock may step back while the
  process is down, which puts it behind the recovered IDs; the theorems of section 4 hold
  for steps at any moment. Counters wrap at 4, budgets hold two pages or two values, the
  thread cache holds one block, and delays are shorter than, equal to and longer
  than one turn of the first wheel.
- *store_safe*: a writer, a second writer, and a reader or collector; the
  fourth transaction is what the collector's cutoff needs to be above two old versions.
  One program has two threads that increment the same counter. With three entries per page twelve
  keys make three levels, so that a split propagates through an inner page to the root.
- *wal_safe*: files of one or two entries rotate at every or every other write, and
  one sealed file is the limit, so three writes reach compaction, its wait, and
  compaction of compacted files. The two writers of the first life are symmetric: no
  definition chooses between threads, and the one temporal property is an action
  property.
- *page_safe*: prefix 2 and sizes 1 and 4 in blocks with 4 usable cells end nodes
  before, at and behind a block's end, split the size prefix over two blocks and
  need up to three blocks; two faults are a crash in the recovery from another. One inline
  region sends a list of two to the end of the file, where the next node overwrites it.
- *trie_safe*: keys of one, two and three chunks give walks that end at, above and
  below the node another thread locks, and insertions that turn a value into a
  value with a child; a third thread reads, collects or evicts.
- *life_safe*: two evictions against a queue of one leave an offset
  in the queue when a vacuum begins, put a task into its body, and can be pushed at once.
- *layers_safe*: two workers suffice for a batch, or a counting, between another's read and
  write; the queries contain every kind of step and every rewriting of the optimizer. The
  workers of the vector layer are symmetric; the others are not permuted.

`CHECK_DEADLOCK FALSE` stands where a behaviour ends when its bounded supply of
writes, faults, changes, draws or requests is used up, when every call has returned (trie), the
pool is closed (runtime), or stop and tick wait for each other (base: the wheel's deadlock is
a real one, `StopGetsLocks` below). `life_safe` checks for deadlock.

Composite properties are conjunctions of named parts, each with its comment in the
module: `TrieSound`, `PoolSound`, `PagesSound`, `ValuesSound`, `BlocksSound`,
`CallbacksSound`, `ServiceSteps` and `GraphqlSound`.

**Fairness.** Only of threads that are inside a call, and weak except for one lock:

- `Runtime!RtFairness`: a thread in commit or in the cutoff scan is scheduled, and so are the
  workers of the pool and the closing thread, not the submitters. Strong fairness is not
  needed: a CAS fails only if another commit succeeded.
- `HbTrie`: a writer that holds or awaits node locks is scheduled; locks are released
  in a bounded number of steps. Readers, which retry, get no fairness.
- `DatabaseLife`: writers, cursor, worker, evicting threads, vacuum and destroying thread
  while they are inside a call, and the debouncer's timer. The vacuum's barrier takes each
  shard lock once; it gets strong fairness, since writers that make no test may
  take the lock again and again and a mutex does not keep a waiter out for ever.

Nothing is assumed about threads between calls, which may never call again.

### Runs and configurations that end in a violation

Each compares the code with a sentence in the repository. Four are runs. The others are
obtained from the configuration of the passing run of the component by the changes in the
first column, with the property in place of the others; the definitions they name are in the
component's module and in the `MC...` modules. TLC finds each of them violated.

| Configuration | Property | What happens | Against |
|---|---|---|---|
| run `shard_min` | `ShardMinBelow` | the ID is drawn before the shard lock is taken: of two threads the one with the smaller ID registers second, and the shard's minimum stays above it (`mvcc.c:213`) | comments at `mvcc.c:210`, `446` |
| run `increments` | `IncrementsAtomic` | two increments read the same old value before either takes the lock (`database.c:2918`); one is lost | `database.h:286` |
| run `trie_torn` | `NeverTorn` | a writer or a reader uses an entry after another thread has changed it: the child is read again after the unlock (`hbtrie.c:2692`), the value after the validation (`hbtrie.c:2199`) | `README.md` of the repository, see `PROJECT.json` |
| run `scan_lost` | `EveryKeyFound` | keys put in descending order: the second split of the leftmost page files its right half before its left half (`hbtrie.c:62`), and a key is not found any more | see `PROJECT.json` |
| base: nothing but the property | `StrictlyAbove` | the clock is behind after a restart: the clamp sets the nanoseconds to 0, and a new ID is below the recovered one (`transaction_id.c:91`) | comment at `transaction_id.c:190` |
| base: nothing but the property | `StopGetsLocks` | the stop holds the hierarchy's lock and waits for a wheel's, a tick holds the wheel's and waits for the hierarchy's (`wheel.c:516` against `207`, `287`); neither goes on | comment at `database.c:1536` |
| page file: nothing but the property | `StaleRestored` | a list that does not fit the superblock is overwritten by the next node; the open finds none (`page_file.c:801`) | `tests/test_page_file.cpp:436` |
| life: nothing but the property | `WalkAlone` | a put that is asynchronous, a batch or an increment changes the trie during the walk: it does not test the flag (`database.c:1711`) | comment at `database.c:2364` |
| life: `MaxEvict = 3`, `Capacity = 2` | `NeverUnderflows` | a push that loaded the tail before two others stores it behind the head (`eviction_queue.c:11`) | comment at `eviction_queue.c:38` |
| layers: nothing but the property | `LeftComplete` | the reverse scan from an absent bucket goes into the subtree of a smaller one and does not see what lies there beyond the rest of the key (`database_iterator.c:708`) | comment at `vector_slsh.c:317` |
| layers: nothing but the property | `IdsAtomic` | two workers read one counter, and two creations get one identifier (`graphql_resolve.c:1492`) | comment at `graphql_resolve.c:1484` |
| store: `Keys = {a}`, `Programs <- Vanish` | `FreshRead` | the snapshot's cutoff may exceed the read point while two writers run; collection leaves only versions no reader may see, and a committed key is reported missing (`bnode.c:654`) | `README.md:100` |
| store: `Programs <- Prefix`, `Under <- Nested` | `QuietNewest` | GC removes the entry of an old tombstone together with the subtree below it (`hbtrie.c:3754`) | `tests/test_scan_tombstone_descend.cpp:9` |
| WAL: `LifeThreads <- OneEach`, `Configs <- Immediate`, `Sizes = {"small"}`, `Allowed = {"destroy"}`, `MaxSnapshots = 0`, no symmetry | `ReopenNewest` | the log of a crashed process stays ACTIVE in the manifest; after a later clean close it is replayed over newer values (`wal_manager.c:1893`) | `wal_manager.h:200` |
| the same with `Allowed = {"same_second"}`, `MaxWrites = 5` | `Durable` | file names repeat within a second, and compaction unlinks the file it has just written (`wal_manager.c:1985`) | `wal_manager.h:192` |
| page file: `Nodes = {top, mid}`, `Allowed = {"overlap"}`, `MaxFaults = 1` | `CloseKeeps` | a put during a snapshot's flush has its dirty flag cleared unseen, and the close does not write it (`database.c:721`) | `database.c:1563` |
| page file: `Nodes = {top, mid}`, `Allowed = {"late_failure"}`, `MaxFaults = 1` | `ConvergesByDepth` | a flush that failed after its first node leaves a dirty trie node over a clean page; the next flush never ends (`database.c:713`) | `database.c:645` |
| page file: `Allowed = {"vacuum", "lone_slot"}`, `MaxFaults = 1` | `CheckpointIntact` | the file that a vacuum renames into place has one superblock; the next one is written over it and not into the other slot, so a torn write loses both | comment at `page_file.c:1000` |
| trie: `Scenarios <- MCPrefix` | `RetriesWhenDisturbed` | while a prefix key is put over a node, a reader of a key below it is told that the key is absent, without a retry (`hbtrie.c:2233`) | comment at `hbtrie.c:2144` |
| scans: `MaxUpdates = 2`, `Jobs <- MCHyphen` | `EveryKeyFound` | prefix deletion of "a" also deletes the neighbour "a-..." (`database_subtree.c:105`) | `database_subtree.h:72` |
| life: nothing but the property | `AbortsHaveHandlers` | a job without abort handler is aborted by a shutdown (`pool.c:145`) | `wheel.c:425` |

The switches `Allowed`, `BackSteps`, `Programs`, `Scenarios` and `Jobs` say in each
`.cfg` what the environment may do; a passing run leaves out exactly what the
violations above and the observations below need.

### Observations

Met while modelling. They are not runs: nothing in the repository promises
otherwise, or the case lies outside what the passing runs exercise.

*Transactions and store*
- A transaction may register below the `min_active_txn_id` that a scan publishes
  (`mvcc.c:447`), and the value is not refreshed when the last transaction ends.
- Counts that were drawn and never logged are reissued (`transaction_id.h:45`).
- The first value of an entry has no chain and is returned to every reader, before its
  commit (`hbtrie.c:2207`). A batch becomes visible key by key (`database.c:3131`,
  against `batch.h:33`). A get that was overtaken by a put or a batch fills the LRU with
  the older value (`database.c:2737`).
- A batch whose log write fails frees its descriptor without abort (`database.c:3121`).

*Trie, scans, subtrees*
- Left out of `trie_safe` because they lose or misread values: a reader beside a writer
  on a child that is on disk only; a prefix insertion while another writer has released
  the lock for I/O; eviction of dirty or used nodes; failed lazy loads.
- Paths alias: names of full chunks join up, so `["abcd","efgh"]` and `["abcdefgh"]` are
  one key. Scan order differs from `path_compare` for names of mixed lengths. A reverse
  scan whose end has several chunks and is not followed exactly drops keys.
- Subtree iterators compare stripped paths with full bounds; unbounded subtree scans
  return keys of other subtrees (against `README.md:322`). `delete_prefix` and `count`
  include the key equal to the prefix. `hbtrie_cursor` skips below entries with value
  and child (used by tests only). `hbtrie_gc_unsafe` does not go below chained entries.

*WAL and page file*
- A thread's log is named after `platform_self()` (`wal_manager.c:1076`). If that ID
  recurs in a later life of the process, the new log takes the old name; compaction,
  which lists every SEALED record ever written (`wal_manager.c:1990`), then merges and
  unlinks the file that is being written to, and synced writes are lost. TLC shows it
  with `LifeThreads = <<{A}, {A, B}>>`, `Immediate`, small entries, no switch, 6 writes,
  1 second; in `wal_safe` every life has threads of its own, and the theorems about the WAL
  speak of the time before a name has been used again (`reused`).
- At the limit of sealed files a put is applied and acknowledged although its log write
  failed (`wal_manager.c:1283`, `database.c:2610`). A torn manifest record hides
  `compacted_*` files (`wal_manager.c:523`); entries behind a torn tail are not read
  (`wal_manager.c:321`). A buffer flushed when half full in DEBOUNCED mode arms no fsync
  timer (`wal_manager.c:1372`). `database_increment_sync` does not log in the
  concurrent mode.
- A crash or failed write between a full block and its `IndexBlkMeta` makes the next
  node's offset unreadable (`page_file.c:361`; switch "gap"). A vacuum that fails in its
  walk leaves offsets into the deleted file (`database.c:2266`; switch
  "vacuum_failure"). An old node is marked stale with its new length
  (`database.c:690`). The CRC of a superblock does not cover its inline
  regions (`page_file.c:80`). A snapshot does not fsync (`page_file.c:835`).

*Pool, timers, caches, vacuum and teardown*
- Aborted or refused asynchronous operations never settle their promise;
  `database_write_batch`'s work has a NULL abort (`database.c:3654`);
  `wait_for_idle` can miss its signal, and `enqueue` signals without the lock.
- Timers longer than one turn of a wheel fire a turn early, a delay of 0 never fires, a
  timer past its first step cannot be cancelled, timers on later steps at a stop are
  neither fired nor aborted, and a timer set on a stopped wheel can be aborted twice
  (`AlwaysCalledOnce` is violated in `base_safe`'s instance; `CalledOnce` speaks of the timers
  set before the stop).
- `item_count` of the page cache is decremented twice per removal, underflows and makes
  the table double at every insertion; `dirty_count` leaks on a deferred invalidation;
  `current_memory` is updated under different shard locks. `class_free` may take a used
  block for a free one and drop it. An update in place exceeds the LRU's budget until
  the next insertion.
- Two vacuums clear each other's flag. Writers, cursors and the eviction task that have
  passed the test before the flag is set are in the trie during the walk
  (`WalkIntruders` states which ones). With a borrowed pool the arm work is not counted and may run on a freed
  database; destroy cancels only the latest debouncer timer; a full eviction queue
  drops offsets.

*Layers*
- Graph: the optimizer folds `Or(g.Has...)` and `And(g.Out...)` behind other steps into
  the chain and changes the answer (`graph_optimizer.c:79`). And, Or and Not on an
  empty set return the sub-query's. A type whose name is a prefix of the first stored
  one is not listed and is lost at a reopening, and so is one whose store failed
  (`graph_schema_parser.c:270`); a redefinition takes effect only then,
  and leaves stale index entries. `OUT("p")` also follows predicates that continue "p"
  with a byte below '0'. A morphism defined again is never found.
- Vector: ids from byte 0x7f on are outside the scans. Inserting an id again counts it
  twice and, in IVF and SLSH, leaves its old entry; deleting an absent id from a FLAT
  index decrements the count; the count is read and written without a lock. A crash in
  a migration's deletions leaves the old type with centroids and no members. Train on
  an empty IVF index does not rebuild.
- GraphQL: a deletion scans from `plural/id` without an end and deletes every later key,
  later entities, counters, types and the schema included (`graphql_resolve.c:1660`);
  `EntitiesStored` therefore claims only what is sorted before every deleted entity.
  List scans are unbounded as well and tell ids of later types
  (`graphql_resolve.c:371`). Parsing a schema again sets every counter to 1
  (`graphql_schema.c:778`). A type with `@plural` is not found at a reopening
  (`graphql_schema.c:868`), values of an enum are looked up under another name, and
  loaded types pick up untyped fields of later ones. Selections below a reference, and
  list references after the first entity, are null or empty (`graphql_plan.c:231`); a
  missing reference tells later values of the database. An update or delete without id
  reports an error with `success` true. When the counter cannot be counted up a creation
  takes the identifier 1 (`graphql_resolve.c:1490`), and a refused request is never answered
  and keeps its reference (`graphql_resolve.c:1822`). A request that returns the last reference does
  not free the layer.

## 4. Proofs

TLAPS checks the proofs with Z3, Zenon and LS4.

**`TxManagerProofs`** proves, for every number of threads, shards, clock readings and
transactions: `TypeCorrect`, `UniqueIds`, `ReadYourWrites`, `ReadsCommitted`,
`ShardsExact` (`TxSpec => []P` for the type invariant and the safety properties of
`runtime_safe`) and `MonotonicReads` (the action property). The only assumption is `TxManagerAssumption`: the bounds and
the number of shards are positive and `NoThread` is not a thread.

None of the invariants is inductive alone. `IInv` adds two parts:

- `IdInv`: a thread past its draw has an ID whose count is below the global counter,
  so the next draw differs from all that are in use;
- `CasInv`: in the commit loop the transaction is already marked committed, and the
  value the thread compares with was a read point once and is not above the present
  one. So a CAS that succeeds raises the read point to a committed ID, and one that
  gives up has found a read point at or above its own ID.

`IInv` is preserved in four groups of lemmas (types, IDs, commit, shards), one case
per action; `RecomputingFrame` deals at once with the actions of the cutoff scan,
which change nothing that `IInv` speaks about. `MinOfMember` shows that the new
minimum of a shard is one of its members and the least, by the least-number lemma
`LeastNat`; so after every commit or abort that recomputes it a minimum is exact again, and
only a late registration (`late`) makes it less than that.

**`PageFileProofs`** proves `StaleAddExact`: for every canonical list (sorted, with
gaps, no empty region), offset and length, `StaleAdd` returns a canonical list that
covers exactly the old cells and the new ones. The two search loops end at a least
index (`LeftOfSpec`, `RightOfSpec`), `SpliceSpec` says what cutting and joining the
sequence does to its elements, and `MergeBounds` that the merged region begins and
ends where the extreme regions it replaces do, or where the new one does.

From it, `StaleIsExact` (`StaleExact`) for every finite tree, block size, number of
superblocks and inline regions: the list is exact until a file's only superblock is torn
(`lone_slot` in `odd`; section 3 has the violation of the comment it leads to), and after an open that has
not found the list (`lost`) it still has nothing that was not marked. A crash may
restore any superblock's list, so the invariant `StaleInv` says that the list is right in
memory and in every readable superblock of both files, and that one is readable. What
`Open` reads back has the types of nodes by induction on the depth (`LoadedSpec`,
`LoadedType`); the total equals the number of cells by induction on the list
(`RegionSumSpec`, `TotalIsCovered`). Induction is by `SetInduction`:
over a set of natural numbers, which needs no operator as a parameter.

The same module proves `CheckpointIsIntact` (`CheckpointIntact`), `CloseKeepsAll`
(`CloseKeeps`) and `FlushConverges` (`ConvergesByDepth`) for every finite tree, set of node
sizes, block size, size of the prefix, number of superblocks and every set of switches. They say that
the property holds as long as `odd` is empty: until a writer overlaps a flush, a flush
fails after its first node, a vacuum fails in its walk, a lone superblock is torn or the process dies before
an `IndexBlkMeta`. Each of these breaks one of the three properties (section 3), and from
then on nothing is claimed; up to then nothing is assumed. The
invariant is `SafeInv` with `StaleInv`:

- The file only grows. `Grows(f, g, lim)` says that what is below `lim` in `f` is also in
  `g`; every write goes to the position of the page file or after it, or puts the stale
  list into a new block at the end (`WriteGrows`, `BlobGrows`). A node whose cells lie on a
  path of blocks below the position (`Stored`) is therefore read as it was written
  (`StoredRead`, `StoredGrows`), and so is all that is behind a superblock (`Checkpoint`,
  `SameLoaded`). `Positions` adds that the file ends where the next write goes or at a
  block, never before an IndexBlkMeta; so a life after a crash continues at a good place.
- While a node is written, `Current` and `Partial` hold the path of the part that is in
  the file; `ChunkPath` continues it, and an IndexBlkMeta leads it into the next block.
- Superblocks are written with rising revisions (`Revisions`): a new one wins
  (`BestNew`), a torn one leaves the old winner in place (`BestTorn`).
- `Memory`: a clean node has the version in the file and is stored there, and a parent
  knows where its children are (`Links`). So when all is clean, a superblock with the root's
  place is a checkpoint of what is in memory (`TreeCheckpoint`, by induction on the depth).
- `Flags`: between flushes the flags of the two levels agree. A turn's list has
  the parent of each of its nodes, later in the list (`HbDirtySpec`, `DeepestAll`): writing
  a node makes its parent dirty again, but the parent is still to come. After one turn
  everything is clean, and the second finds nothing.
- During the vacuum the list position splits the nodes: those before it are stored in the
  new file, and the live file with its checkpoint is untouched until the swap.
- `Open` gives back nodes that are clean, stored and linked (`LoadedPlace`), by what
  `Checkpoint` says of the superblock it has chosen.

There is one lemma `...Safe` per action.

**`WalManagerProofs`** proves, for every number of threads, keys, files, lives,
compactions and every configuration: `SafeWritesStay` (`Durable`), `NewestIsReplayed`
(`ReplayNewest`) and `BuffersAreCovered` (`BufferCovered`). The first two hold as long
as no file has been opened under a name that the manifest already knows (`reused`). The code
does not exclude that: a thread ID may recur in a later process and two files may be named in one
second, and section 3 has the loss that follows. Power failures, destroy and all sync modes
are included. The argument:

- `Durable` is not inductive: it says nothing of a write before its fsync, nor of the
  files a compaction is about to unlink. `Kept` does: the write is in the safe part of a
  file that recovery reads and that no compaction in its unlink phase has on its list, or
  in the checkpoint of a destroy that has dropped log files.
- `AckedReached`, `LoggedReached`: until it is kept, an acknowledged or logged write is in
  the buffer of its thread or in the file behind its descriptor, and that file is neither
  sealed nor unlinked (`Descriptors`). So the flush with fsync that promises it keeps it.
- `Moved`: between the merged file and the unlinks, whatever the sources hold is in the
  merged file or in one that a later compaction made from it; names rise with the second
  (`Lists`, `NamesKnown`), so the chain of merges ends in a file that nobody deletes.
- `Memory` and `Destroy`: a destroy runs alone, has flushed every thread before it writes
  the checkpoint, and the checkpoint has all the trie has; so what it unlinks is there.
- `OneKey`: an ID belongs to one write of one key wherever it is found. With it, replay
  in the order of IDs puts the newest safe write of a key in front.
- `Calls`, `Registered` and the types tie program counters, descriptors and the list of
  thread WALs together.

Each part has a lemma `...Step` with one case per action.

**`TransactionIdProofs`** proves `TypeCorrect`, `DrawsAreDistinct` (`DistinctDraws`) and
`FloorKept` (`AboveRecovered`) for every finite set of threads, every clock, every time at
which it steps back and every number of lives. The invariant says that the log has a largest ID while the process is down, that
recovery runs alone and raises the counter and the high-water time above all of it, and
that a thread between the two halves of a draw holds a count below the counter
(`CountsBelow`) and a stamp at or above the floor (`StampsClamped`), and above the
recovered one unless `behind`.

**`WorkPoolProofs`** proves `PoolIsSound` (`PoolSound`) and `JobsAreSettled`
(`JobsSettled`) for every set of workers, shards and jobs. The invariant counts: who
holds the lock, idle workers against waiting ones (`IdleCounted`), shards left to a scan;
and it places every job: not yet sent, in one queue position, in one hand, or settled
(`HandsApart`, `QueuedWaits`, `AcceptedKept`), up to the end of closing and joining.

**`DatabaseLifeProofs`** proves `IntrudersAreKnown` (`WalkIntruders`: who may be in the trie
while a vacuum walks it) and `TeardownIsLast` (`Teardown`: nothing runs on freed memory)
for any finite, pairwise disjoint sets of writers, cursors and workers. The first needs
that the counters equal the number of threads past their test, the second that tasks in
flight are counted and that each branch of the teardown has waited for them.

**`ServicesProofs`** proves the invariants and the action property of `base_safe` about the services, each
for any number of its objects. A behaviour of `Services` is one of a single part, so the
parts have invariants of their own:

- `BlocksAreSound` (`BlocksSound`), any blocks, threads and sizes of the thread caches: a
  block occurs once in one list, one cache or one hand, or is dropped.
- `CallbacksAreSound` (`CallbacksSound`), any timers and ticks: a timer is in the map, on
  one list of a tick, or over, and one that was set before the stop has been told at most
  once, also while the stop goes from lock to lock.
- `PagesAreSound` (`PagesSound`), any pages, threads and shards (`PageInv`): a page that a
  thread holds is in the table, so the eviction loop, which stops at pages with references,
  and `bnode_cache_invalidate` leave it there. What the loop does is proved by induction
  over its rounds, from the end of the list (`RoundsOf`); every round keeps list and table
  equal and takes a page's length off the counter.
- `ValuesAreSound` (`ValuesSound`), any paths, sizes and budget (`LruInv`): the history of
  use has no key twice and the cached keys are its first elements; a use moves the key to
  the front of both, an eviction shortens only the list. The sums of a list without one
  node, or cut at an index, are computed by induction over its length.
- `ServiceStepsAreRight` (`ServiceSteps`), any timers, durations, slots and ticks
  (`WheelInv`): a timer in a slot is due at a tick that is congruent to its slot and at
  most as many turns away as its circles say, so the visit that finds none left is the one
  its delay names, or one turn before for a longer delay. For the value cache the eviction of an insertion stops only when the
  entry fits or nothing is left.

**`HbTrieProofs`** proves `TrieIsSound` (`TrieSound`) and `TrieImplementsMap`
(`Implements`, the refinement of `KeyMap`) for every set of threads, keys and chunks, every
key length and number of nodes. The hypothesis is `InMemory`, about the scenario alone: the
calls are insertions, deletions and lookups, and the trie starts as a tree of nodes that
are in memory. `TrieIsSound` and the refinement cover the steps behind an unlock and behind a
validation: a thread whose entry is unchanged finds what it left (`Walkers`), and one whose
entry has changed ends the behaviour with `torn`, about which the theorems say nothing more.
The other scenarios of `trie_safe` stay with TLC: a lazily loaded child
gives a key its value through the file and not through the walk; the collector drops nodes
and with them the fact that links only appear; eviction frees nodes that a lock-free reader
may hold. The invariant `TrieInv` was checked by TLC on the scenarios of `MCHbTrie`, as
`InMemory => TrieInv`. Its parts:

- `Heap` (in `Types`): the nodes form a tree. No node is below two entries, the root is
  below none, unused nodes are empty. So two walks that meet have come the same way
  (`OneWay`), and the end of a walk belongs to one key.
- `Walkers`: a thread stands where the walk of its key leads, and the child it has read is
  the next node of the walk. This holds without a lock too, since a link is never changed
  once it is there (`WalkGrows`). It is what a reader relies on between its look and its
  validation, and a writer between its unlock and its use of the child.
- `Halves`: an entry with a `trie_child` and no value exists only while the writer that
  moves the child aside holds the node, between its two stores (`SaveChild`, `FirstValue`).
  For that moment `Go` says where the walk continues.
- `LockDiscipline`, `Calls` and `Firsts` tie program counters to calls, lock owners and odd
  sequence counters. `ReadsItsKey` is carried along with `Walkers`: the entry at the end of
  a reader's walk holds what its key has at that moment. `InTurn` is for serial scenarios,
  where a lookup may not answer "nothing" by mistake.

The refinement then needs three facts about values: a store at the end of a walk changes
the value of that key only (`PutValue`), a new node changes none (`ChildValue`), and
`PlaceOf`, by which the mapping reads the map, is the end of the walk (`PlaceIsTable`,
`TableValue`). With them `NewValue`, `FirstValue`, `AddVersion`, `AddTombstone` and
`NoWayOn` are the moment of effect, `Release` is the return, and every other step is a
stutter of `KeyMap` (`EffectRefines`, `ReleaseRefines`, `OtherRefines`, `NextRefines`).

**Assumptions.** Each module states its own: constants are of the right kind and bounds
positive; sets of actors are finite where they are counted, and disjoint where they stand
for different threads. No assumption restricts their size. All are evaluated by TLC on
the passing runs. Every inductive invariant was checked by TLC before it was proved.

**Only model-checked.**

- Liveness (`CommitReturns`, `WritersReturn`, `CloseEnds`, `Progress`): out of the
  prover's reach under fairness.
- What recursive definitions over tries, pages, plans and queries compute: `BTree`,
  `Iterator`, `GraphQuery`, `GraphQl`, the scans of `Vector`, and with them
  `SyncKeysFound`, `SyncScansExact`, `GraphAnswers`, `VectorAnswers`, `GraphqlSound`.
- Not attempted yet: `FreshRead`, `QuietNewest`, `CountExact`; `TrieSound` and `Implements` outside
  `InMemory`; `IndexExact`, `SchemaSurvives`, `MaintenanceExact`.

## 5. Not modelled

`PROJECT.json` lists every component with its status and reason. In short:

- lexers, parsers of GraphQL text, byte layouts, configuration, logging, visualisation
  and bindings are text or data processing without protocol; encryption is OpenSSL;
- `wal_compactor.c`, `get_reusable_blocks`, `offset_remap.c` and
  `work_pool_wait_for_shutdown_signal` have no caller or no reader; `wal.c` is only
  read once, for migration;
- failing allocations everywhere, failing system calls in the WAL, failing reads in the
  trie, and database failures below the layers except of a type's store, a counter and maintenance;
- scans with writes between two of their calls, and iterators over lazily loaded nodes;
- graph queries interleaved with insertions, vector maintenance overlapping
  insertions, a GraphQL schema parsed while requests run: the code has no protection
  there and no property could be claimed;
- the sync-only mode of the store (its trie is in `BTree`), the raw interface.

## 6. Plan

Modelled so far: every component of the inventory except the bindings and the parts
above. Next, by weight:

1. Proofs: `Implements` with lazily loaded children, where the walk continues in the
   file; `CountExact` and `FreshRead`; `IndexExact`.
2. `Iterator` with writes between two calls, over the nodes of `HbTrie`.
3. An abstract key-value specification that `MvccStore` implements for one key without
   collection, composed with `KeyMap`.
4. Open: lock, old log, page file and replay in one module with `WalManager` and
   `PageFile`, so that a crash between checkpoint and log truncation is one behaviour.
