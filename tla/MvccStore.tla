------------------------------ MODULE MvccStore ------------------------------
(***************************************************************************)
(* The operations of the database (src/Database/database.c) over the       *)
(* version chains of the trie (src/HBTrie/hbtrie.c, bnode.c), the LRU      *)
(* cache and the transaction manager, in the concurrent mode.  Callers of  *)
(* the _sync operations and workers that run the asynchronous ones execute *)
(* the same steps.                                                         *)
(*                                                                         *)
(* The trie maps a key to an entry; the walk to the entry, the node locks  *)
(* and the seqlocks make one insertion, one deletion and one lookup atomic *)
(* here.  begin, commit and the GC cutoff are the transaction manager of   *)
(* module TxManager with its locks and CAS loops taken as atomic, and IDs  *)
(* are drawn in the order of their counts.  What the WAL keeps is the      *)
(* subject of module WalManager.                                           *)
(***************************************************************************)
EXTENDS Integers, Sequences, FiniteSets, SequencesExt

CONSTANTS
  Threads, Keys,
  Programs,   \* what callers do in a behaviour: [work, faults, txns], where
              \* work holds the jobs they may start, <<thread, kind, set of
              \* keys>>, faults tells whether a WAL write or an allocation of
              \* a batch may fail, and txns bounds the transactions begun
  Under,      \* key -> keys stored below it in the trie (trie_child)
  MaxTxns,    \* bound: the largest txns
  NoValue,    \* "not found"
  NoThread    \* owner of a free write lock

Kinds == {"put", "delete", "batch", "increment", "get", "scan", "snapshot"}

ASSUME MvccStoreAssumption ==
  /\ \A p \in Programs : /\ p.work \subseteq Threads \X Kinds \X SUBSET Keys
                         /\ p.faults \in BOOLEAN /\ p.txns \in 1 .. MaxTxns
  /\ Under \in [Keys -> SUBSET Keys]
  /\ MaxTxns \in Nat \ {0}
  /\ NoValue \notin Nat /\ NoThread \notin Threads

Ids == 1 .. MaxTxns
SENTINEL == MaxTxns + 1
Versions == [id : Ids, val : Nat, del : BOOLEAN]

VARIABLES
  program,         \* what the callers of this behaviour do; never changes
  chain,           \* key -> versions of its entry, newest insertion first
  legacy,          \* key -> has_versions = 0: one value, and no visibility test
  lru,             \* key -> cached value
  write_locks,     \* key -> holder of the write-lock shard of the key
  next_id,         \* the ID of the next transaction
  active,          \* IDs begun and not ended
  last_committed, min_active,
  pc, job, id,     \* thread -> step, job, transaction
  todo,            \* thread -> keys the job has still to visit
  point,           \* thread -> read point or GC cutoff in use
  got,             \* thread -> key -> version found by the lookup
  order,           \* history: key -> writes in the order they were applied
  finished,        \* history: IDs whose operation has returned
  floor,           \* history: thread -> key -> writes to it that had returned
                   \* when the read started
  overlapped       \* history: keys with two increments under way at a time

tm == <<next_id, active, last_committed, min_active>>
vars == <<program, chain, legacy, lru, write_locks, tm, pc, job, id, todo, point, got,
          order, finished, floor, overlapped>>

Idle == <<>>
None == [id |-> 0, val |-> 0, del |-> TRUE]
Kind(t) == job[t][2]

\* The operation a write or batch is at, in the order of the batch.
Current(t) == CHOOSE k \in todo[t] : TRUE

TypeOK ==
  /\ chain \in [Keys -> Seq(Versions)]
  /\ legacy \in [Keys -> BOOLEAN]
  /\ lru \in [Keys -> Nat \cup {NoValue}]
  /\ write_locks \in [Keys -> Threads \cup {NoThread}]
  /\ next_id \in 1 .. (MaxTxns + 1)
  /\ active \subseteq Ids
  /\ last_committed \in 0 .. MaxTxns
  /\ min_active \in 0 .. SENTINEL
  /\ \A k \in Keys : legacy[k] => Len(chain[k]) = 1 /\ ~chain[k][1].del

Init ==
  /\ program \in Programs
  /\ chain = [k \in Keys |-> <<>>]
  /\ legacy = [k \in Keys |-> FALSE]
  /\ lru = [k \in Keys |-> NoValue]
  /\ write_locks = [k \in Keys |-> NoThread]
  /\ next_id = 1 /\ active = {} /\ last_committed = 0 /\ min_active = SENTINEL
  /\ pc = [t \in Threads |-> "idle"]
  /\ job = [t \in Threads |-> Idle]
  /\ id = [t \in Threads |-> 0]
  /\ todo = [t \in Threads |-> {}]
  /\ point = [t \in Threads |-> 0]
  /\ got = [t \in Threads |-> [k \in Keys |-> None]]
  /\ order = [k \in Keys |-> <<>>]
  /\ finished = {}
  /\ overlapped = {}
  /\ floor = [t \in Threads |-> [k \in Keys |-> {}]]

-----------------------------------------------------------------------------
(* Version chains: bnode.c, and the ends of hbtrie_insert, _delete, _find *)

\* version_entry_add puts the new version in front; the first value of an
\* entry is kept without a chain.
Insert(k, v) ==
  /\ chain' = [chain EXCEPT ![k] = <<v>> \o @]
  /\ legacy' = [legacy EXCEPT ![k] = chain[k] = <<>>]

\* hbtrie_delete adds a tombstone, and does nothing for a key without entry.
Tombstone(k, x) ==
  IF chain[k] = <<>> THEN UNCHANGED <<chain, legacy>>
  ELSE /\ chain' = [chain EXCEPT ![k] = <<[id |-> x, val |-> 0, del |-> TRUE]>> \o @]
       /\ legacy' = [legacy EXCEPT ![k] = FALSE]

\* Mutant: the walk starts behind the head.
VisibleSkipsHead(c, p) ==
  IF Len(c) < 2 \/ \A i \in 2 .. Len(c) : c[i].id > p THEN None
  ELSE c[CHOOSE i \in 2 .. Len(c) : c[i].id <= p /\ \A j \in 2 .. (i - 1) : c[j].id > p]

\* version_entry_find_visible: the first version from the head whose ID is not
\* above the read point; None stands for "no visible version".
Visible(c, p) ==
  IF \A i \in 1 .. Len(c) : c[i].id > p THEN None
  ELSE c[CHOOSE i \in 1 .. Len(c) : c[i].id <= p /\ \A j \in 1 .. (i - 1) : c[j].id > p]

\* hbtrie_find: a single value without chain is returned to every reader.
Find(k, p) == IF legacy[k] THEN chain[k][1] ELSE Visible(chain[k], p)

ValueOf(v) == IF v.del THEN NoValue ELSE v.val

\* Mutant: the head goes as well.
CollectHead(c, cutoff) ==
  LET keep == {i \in 1 .. Len(c) : c[i].id >= cutoff}
      last == IF keep = {} THEN 0 ELSE CHOOSE i \in keep : \A j \in keep : j <= i
  IN SubSeq(c, 1, last)

\* version_entry_gc: from the tail, versions below the cutoff, never the head.
Collect(c, cutoff) ==
  LET keep == {i \in 1 .. Len(c) : i = 1 \/ c[i].id >= cutoff}
      last == CHOOSE i \in keep : \A j \in keep : j <= i
  IN SubSeq(c, 1, last)

\* One versioned leaf entry in hbtrie_gc: a single value loses its chain, a
\* single old tombstone is removed with its entry and what the entry holds.
GcEntry(k, cutoff) ==
  LET c == Collect(chain[k], cutoff)
      gone == Len(c) = 1 /\ c[1].del /\ c[1].id < cutoff
      lost == IF gone THEN {k} \cup Under[k] ELSE {}
  IN /\ chain' = [j \in Keys |-> IF j \in lost THEN <<>> ELSE IF j = k THEN c ELSE chain[j]]
     /\ legacy' = [j \in Keys |-> IF j \in lost THEN FALSE
                                  ELSE IF j = k THEN Len(c) = 1 /\ ~c[1].del
                                  ELSE legacy[j]]

-----------------------------------------------------------------------------
(* The transaction manager, one action per call *)

MinOrCommitted(S, lc) == IF S = {} THEN lc ELSE CHOOSE x \in S : \A y \in S : x <= y

Begin(t) ==
  /\ next_id <= program.txns
  /\ id' = [id EXCEPT ![t] = next_id]
  /\ active' = active \cup {next_id}
  /\ next_id' = next_id + 1

CommitTxn(t) ==
  LET rest == active \ {id[t]} IN
  /\ active' = rest
  /\ last_committed' = IF id[t] > last_committed THEN id[t] ELSE last_committed
  /\ min_active' = IF min_active \in {id[t], SENTINEL}
                   THEN MinOrCommitted(rest, last_committed') ELSE min_active
  /\ UNCHANGED next_id

-----------------------------------------------------------------------------
(* Operations *)

Goto(t, to) == pc' = [pc EXCEPT ![t] = to]

Return(t) ==
  /\ Goto(t, "idle")
  /\ job' = [job EXCEPT ![t] = Idle]
  /\ finished' = finished \cup ({id[t]} \ {0})
  /\ id' = [id EXCEPT ![t] = 0]

Writers == {"put", "delete", "batch"}

\* put, delete and batch begin a transaction (and write it to the WAL) first.
StartWrite(t) ==
  /\ pc[t] = "idle"
  /\ \E w \in program.work : /\ w[1] = t /\ w[2] \in Writers
                     /\ job' = [job EXCEPT ![t] = w]
                     /\ todo' = [todo EXCEPT ![t] = w[3]]
  /\ Begin(t)
  /\ Goto(t, "apply")
  /\ UNCHANGED <<chain, legacy, lru, write_locks, last_committed, min_active,
                 point, got, order, finished, floor>>

\* The operations of a batch are put and delete.
Deletes(t) == CASE Kind(t) = "put" -> {FALSE} [] Kind(t) = "delete" -> {TRUE}
                [] Kind(t) = "batch" -> BOOLEAN

\* Under the write lock of the key: hbtrie_insert or hbtrie_delete.
Apply(t) ==
  LET k == Current(t) IN
  /\ pc[t] = "apply"
  /\ write_locks[k] = NoThread
  /\ \E del \in Deletes(t) :
       /\ IF del THEN Tombstone(k, id[t])
          ELSE Insert(k, [id |-> id[t], val |-> id[t], del |-> FALSE])
       /\ order' = [order EXCEPT ![k] =
                      Append(@, [id |-> id[t], val |-> id[t], del |-> del])]
  /\ Goto(t, IF Kind(t) = "batch" THEN "invalidate" ELSE "commit")
  /\ UNCHANGED <<lru, write_locks, tm, job, id, todo, point, got, finished, floor>>

\* database_lru_cache_delete after each operation of a batch.
Invalidate(t) ==
  /\ pc[t] = "invalidate"
  /\ lru' = [lru EXCEPT ![Current(t)] = NoValue]
  /\ todo' = [todo EXCEPT ![t] = @ \ {Current(t)}]
  /\ Goto(t, IF todo[t] = {Current(t)} THEN "commit" ELSE "apply")
  /\ UNCHANGED <<chain, legacy, write_locks, tm, job, id, point, got, order,
                 finished, floor>>

\* A failed WAL write or hbtrie_insert ends a batch: the descriptor is freed and
\* the transaction neither committed nor aborted.
BatchFail(t) ==
  /\ program.faults /\ pc[t] = "apply" /\ Kind(t) = "batch"
  /\ Goto(t, "idle")
  /\ job' = [job EXCEPT ![t] = Idle]
  /\ id' = [id EXCEPT ![t] = 0]
  /\ todo' = [todo EXCEPT ![t] = {}]
  /\ UNCHANGED <<chain, legacy, lru, write_locks, tm, point, got, order, finished, floor>>

Commit(t) ==
  /\ pc[t] = "commit"
  /\ CommitTxn(t)
  /\ IF Kind(t) \in {"put", "delete"}
     THEN Goto(t, "cache") /\ UNCHANGED <<job, id, finished>>
     ELSE Return(t)
  /\ UNCHANGED <<chain, legacy, lru, write_locks, todo, point, got, order, floor>>

\* database_lru_cache_put may evict other entries to stay in its budget.
LruPut(k, v) ==
  \E out \in SUBSET (Keys \ {k}) :
    lru' = [j \in Keys |-> IF j = k THEN v ELSE IF j \in out THEN NoValue ELSE lru[j]]

\* After the commit, put stores its value in the cache and delete removes the key.
Cache(t) ==
  LET k == Current(t) IN
  /\ pc[t] = "cache"
  /\ IF Kind(t) = "put" THEN LruPut(k, id[t]) ELSE lru' = [lru EXCEPT ![k] = NoValue]
  /\ todo' = [todo EXCEPT ![t] = {}]
  /\ Return(t)
  /\ UNCHANGED <<chain, legacy, write_locks, tm, point, got, order, floor>>

\* database_increment_sync takes the read point ...
StartIncrement(t) ==
  /\ pc[t] = "idle"
  /\ \E w \in program.work : /\ w[1] = t /\ w[2] = "increment"
                     /\ job' = [job EXCEPT ![t] = w]
                     /\ todo' = [todo EXCEPT ![t] = w[3]]
  /\ point' = [point EXCEPT ![t] = last_committed]
  /\ Goto(t, "old")
  /\ UNCHANGED <<chain, legacy, lru, write_locks, tm, id, got, order, finished, floor>>

\* Mutant: the read stops below the read point.
IncrementReadBelow(t) ==
  LET k == Current(t) IN
  /\ pc[t] = "old"
  /\ got' = [got EXCEPT ![t][k] = Find(k, point[t] - 1)]
  /\ point' = [point EXCEPT ![t] = 0]
  /\ Goto(t, "begin")
  /\ UNCHANGED <<chain, legacy, lru, write_locks, tm, job, id, todo, order, finished, floor>>

\* ... reads the old value with no lock held ...
IncrementRead(t) ==
  LET k == Current(t) IN
  /\ pc[t] = "old"
  /\ got' = [got EXCEPT ![t][k] = Find(k, point[t])]
  /\ point' = [point EXCEPT ![t] = 0]
  /\ Goto(t, "begin")
  /\ UNCHANGED <<chain, legacy, lru, write_locks, tm, job, id, todo, order, finished, floor>>

\* ... begins its transaction ...
IncrementBegin(t) ==
  /\ pc[t] = "begin"
  /\ Begin(t)
  /\ Goto(t, "add")
  /\ UNCHANGED <<chain, legacy, lru, write_locks, last_committed, min_active, job,
                 todo, point, got, order, finished, floor>>

\* ... and inserts old value plus delta, still holding the write lock when it
\* updates the cache.
IncrementApply(t) ==
  LET k == Current(t)
      v == [id |-> id[t], val |-> got[t][k].val + 1, del |-> FALSE]
  IN
  /\ pc[t] = "add"
  /\ write_locks[k] = NoThread
  /\ write_locks' = [write_locks EXCEPT ![k] = t]
  /\ Insert(k, v)
  /\ order' = [order EXCEPT ![k] = Append(@, v)]
  /\ Goto(t, "add_cache")
  /\ UNCHANGED <<lru, tm, job, id, todo, point, got, finished, floor>>

IncrementCache(t) ==
  LET k == Current(t) IN
  /\ pc[t] = "add_cache"
  /\ LruPut(k, got[t][k].val + 1)
  /\ write_locks' = [write_locks EXCEPT ![k] = NoThread]
  /\ todo' = [todo EXCEPT ![t] = {}]
  /\ got' = [got EXCEPT ![t] = [j \in Keys |-> None]]
  /\ Goto(t, "commit")
  /\ UNCHANGED <<chain, legacy, tm, job, id, point, order, finished, floor>>

\* get looks in the cache first.  A scan reads the trie only.
StartRead(t) ==
  /\ pc[t] = "idle"
  /\ \E w \in program.work :
       /\ w[1] = t /\ w[2] \in {"get", "scan"}
       /\ job' = [job EXCEPT ![t] = w]
       /\ todo' = [todo EXCEPT ![t] = w[3]]
       /\ floor' = [floor EXCEPT ![t] = [k \in Keys |->
                      {i \in 1 .. Len(order[k]) : k \in w[3] /\ order[k][i].id \in finished}]]
       /\ Goto(t, IF w[2] = "scan" THEN "point" ELSE "lookup")
  /\ UNCHANGED <<chain, legacy, lru, write_locks, tm, id, point, got, order, finished>>

\* A hit is returned as it is.
ReadCache(t) ==
  /\ pc[t] = "lookup"
  /\ IF lru[Current(t)] # NoValue
     THEN /\ Return(t)
          /\ todo' = [todo EXCEPT ![t] = {}]
          /\ floor' = [floor EXCEPT ![t] = [j \in Keys |-> {}]]
     ELSE Goto(t, "point") /\ UNCHANGED <<todo, job, id, finished, floor>>
  /\ UNCHANGED <<chain, legacy, lru, write_locks, tm, point, got, order>>

\* tx_manager_get_last_committed: the read point of this get or scan.
ReadPoint(t) ==
  /\ pc[t] = "point"
  /\ point' = [point EXCEPT ![t] = last_committed]
  /\ Goto(t, "find")
  /\ UNCHANGED <<chain, legacy, lru, write_locks, tm, job, id, todo, got, order,
                 finished, floor>>

\* hbtrie_find, or one entry of a scan.
ReadFind(t) ==
  /\ pc[t] = "find"
  /\ \E k \in todo[t] :
       /\ got' = [got EXCEPT ![t][k] = Find(k, point[t])]
       /\ todo' = [todo EXCEPT ![t] = @ \ {k}]
       /\ Goto(t, IF todo[t] # {k} THEN "find"
                  ELSE IF Kind(t) = "get" /\ ValueOf(got'[t][k]) # NoValue THEN "fill" ELSE "done")
  /\ UNCHANGED <<chain, legacy, lru, write_locks, tm, job, id, point, order,
                 finished, floor>>

\* get puts what it found into the cache.
ReadFill(t) ==
  LET k == CHOOSE x \in job[t][3] : TRUE IN
  /\ pc[t] = "fill"
  /\ LruPut(k, ValueOf(got[t][k]))
  /\ Goto(t, "done")
  /\ UNCHANGED <<chain, legacy, write_locks, tm, job, id, todo, point, got, order,
                 finished, floor>>

ReadDone(t) ==
  /\ pc[t] = "done"
  /\ Return(t)
  /\ got' = [got EXCEPT ![t] = [k \in Keys |-> None]]
  /\ point' = [point EXCEPT ![t] = 0]
  /\ floor' = [floor EXCEPT ![t] = [k \in Keys |-> {}]]
  /\ UNCHANGED <<chain, legacy, lru, write_locks, tm, todo, order>>

\* database_snapshot runs tx_manager_gc with the cutoff of tx_manager_get_min_active.
StartSnapshot(t) ==
  /\ pc[t] = "idle"
  /\ \E w \in program.work : w[1] = t /\ w[2] = "snapshot" /\ job' = [job EXCEPT ![t] = w]
  /\ min_active' = IF min_active = SENTINEL THEN MinOrCommitted(active, last_committed)
                   ELSE min_active
  /\ point' = [point EXCEPT ![t] = min_active']
  /\ todo' = [todo EXCEPT ![t] = {k \in Keys : \A j \in Keys : k \notin Under[j]}]
  /\ Goto(t, "gc")
  /\ UNCHANGED <<chain, legacy, lru, write_locks, next_id, active, last_committed,
                 id, got, order, finished, floor>>

\* One entry of hbtrie_gc.  Below an entry that has a chain it does not descend.
GcVisit(t) ==
  /\ pc[t] = "gc"
  /\ \E k \in todo[t] :
       IF chain[k] # <<>> /\ ~legacy[k]
       THEN /\ GcEntry(k, point[t])
            /\ todo' = [todo EXCEPT ![t] = @ \ {k}]
       ELSE /\ todo' = [todo EXCEPT ![t] = (@ \ {k}) \cup Under[k]]
            /\ UNCHANGED <<chain, legacy>>
  /\ UNCHANGED <<lru, write_locks, tm, pc, job, id, point, got, order, finished, floor>>

GcDone(t) ==
  /\ pc[t] = "gc" /\ todo[t] = {}
  /\ Return(t)
  /\ point' = [point EXCEPT ![t] = 0]
  /\ UNCHANGED <<chain, legacy, lru, write_locks, tm, todo, got, order, floor>>

ThreadStep(t) ==
  \/ StartWrite(t) \/ Apply(t) \/ Invalidate(t) \/ BatchFail(t) \/ Commit(t) \/ Cache(t)
  \/ StartIncrement(t) \/ IncrementRead(t) \/ IncrementBegin(t) \/ IncrementApply(t) \/ IncrementCache(t)
  \/ StartRead(t) \/ ReadCache(t) \/ ReadPoint(t) \/ ReadFind(t) \/ ReadFill(t) \/ ReadDone(t)
  \/ StartSnapshot(t) \/ GcVisit(t) \/ GcDone(t)

Counting(t, k) == job[t] # Idle /\ Kind(t) = "increment" /\ k \in job[t][3]
Overlapping(k) == \E t, u \in Threads : t # u /\ Counting(t, k) /\ Counting(u, k)

Next ==
  /\ \E t \in Threads : ThreadStep(t)
  /\ overlapped' = overlapped \cup {k \in Keys : Overlapping(k)'}
  /\ UNCHANGED program

Spec == Init /\ [][Next]_vars

-----------------------------------------------------------------------------
(* Properties *)

Quiet == \A t \in Threads : pc[t] = "idle"

\* The writes to k at or after the last one that had returned when t started.
NotOlder(t, k) == {i \in 1 .. Len(order[k]) : \A j \in floor[t][k] : i >= j}

\* A read that goes to the trie never returns a state of the key older than a
\* write that had returned before the read started, whatever other writers are
\* half-way through: the version it finds was applied no earlier, and "not
\* found" means a deletion that was applied no earlier (or no write at all).
FreshRead ==
  \A t \in Threads : pc[t] \in {"fill", "done"} /\ Kind(t) = "get" =>
    \A k \in job[t][3] :
      \/ \E i \in NotOlder(t, k) : IF got[t][k].del THEN order[k][i].del
                                   ELSE order[k][i].id = got[t][k].id
      \/ got[t][k].del /\ floor[t][k] = {}

\* With nobody inside the database and no transaction left open, a reader of
\* the trie sees for every key the write that was applied last, however chains
\* were collected, turned into single values or removed.
QuietNewest ==
  Quiet /\ active = {} => \A k \in Keys : order[k] # <<>> =>
             ValueOf(Find(k, last_committed)) = ValueOf(Last(order[k]))

Counters == {k \in Keys : order[k] # <<>> /\ \A w \in program.work : k \in w[3] => w[2] \notin Writers}
Tells(k) == Find(k, last_committed).val

\* Increments by several threads that come one after the other all count,
\* whatever is written, collected and cached beside them (the read point, the
\* lookup, the insertion and the commit of database_increment_sync are steps
\* of their own); and overlapping ones never count more than they are.
CountExact ==
  Quiet => \A k \in Counters : /\ Tells(k) \in 1 .. Len(order[k])
                              /\ k \notin overlapped => Tells(k) = Len(order[k])

\* database.h on database_increment_sync: "Uses sharded write locks for
\* atomicity under concurrent access": after n increments the counter is n.
\* The value is read before the lock is taken, and this does not hold.
IncrementsAtomic == Quiet => \A k \in Counters : Tells(k) = Len(order[k])

=============================================================================
