---------------------------- MODULE DatabaseLife ----------------------------
(***************************************************************************)
(* The life of an open database around its two background activities: the  *)
(* vacuum, which must have the trie to itself while it copies the live     *)
(* pages, and the eviction pipeline (bnode cache -> eviction queue ->      *)
(* debouncer -> arm work -> eviction task), and the teardown that has to   *)
(* outlive both.                                                           *)
(*                                                                         *)
(* Every actor is a small program counter: database_put_sync and           *)
(* database_delete_sync test the vacuum flag and then take their shard     *)
(* lock, the other writers (asynchronous operations, batches, increments)  *)
(* take it without a test; cursors test the flag under                     *)
(* cursor_count_mutex and count themselves afterwards; a vacuum is manual  *)
(* or automatic; several threads evict pages at once, each under the lock  *)
(* of its cache shard; pool workers run arm works and eviction tasks.  A   *)
(* wait on a condition variable is the pc "asleep"; the test that precedes *)
(* it is made under the lock the broadcast takes, so test-and-sleep is one *)
(* step.                                                                   *)
(* The page work of flush, rewrite and swap is modelled in PageFile, the   *)
(* queue and the wake-ups of the pool in WorkPool.                         *)
(***************************************************************************)
EXTENDS Naturals, Sequences, FiniteSets

CONSTANTS
    Writers,      \* threads that write, one write-lock shard each
    Testing,      \* of these, the ones that test the vacuum flag first
    Cursors,      \* threads that open, read and close a cursor
    Workers,      \* threads of the work pool
    Evictors,     \* threads that may evict, one cache shard each
    Casts,        \* the sets of writers, cursors and evictors that may be about
    MaxEvict,     \* bound: cache evictions in one behaviour
    MaxVacuums,   \* bound: vacuums in one behaviour
    MaxTimers,    \* bound: timers of the debouncer pending at once
    Capacity,     \* EVICTION_QUEUE_CAPACITY
    Batch         \* offsets taken from the queue by one drain (64)

ASSUME LifeAssumption ==
    /\ Capacity \in Nat \ {0} /\ Batch \in Nat \ {0}
    /\ MaxTimers \in Nat \ {0} /\ MaxEvict \in Nat /\ MaxVacuums \in Nat
    /\ Testing \subseteq Writers
    /\ IsFiniteSet(Writers) /\ IsFiniteSet(Cursors) /\ IsFiniteSet(Workers)
    /\ Writers \cap Cursors = {} /\ Writers \cap Workers = {} /\ Cursors \cap Workers = {}

VARIABLES
    flag,      \* vacuum_in_progress
    opened,    \* open_cursor_count
    wpc, cpc,  \* where each writer and each cursor thread stands
    lock,      \* writers (and the vacuum's barrier) that hold a shard lock
    vpc,       \* where the vacuum stands
    vdrain,    \* the head and the offsets the vacuum's drain has read
    vacuums,   \* vacuums begun
    gap,       \* actors between their test and their registration when the
               \* flag was raised (history)
    head, tail, ring,   \* eviction_queue_t
    epc, push, \* where each evicting thread stands; its offset and the tail it read
    crossed,   \* whether a push has stored over another one (history)
    evicted,   \* offsets handed to on_evict
    lost,      \* of these, the ones the full queue refused
    done,      \* of these, the ones whose entries are nulled and freed
    inflight,  \* eviction_in_flight
    timers,    \* timers of the eviction debouncer that are pending
    pool,      \* works queued in the pool: "arm" or "task"
    stop,      \* the pool's stop flag
    kpc, kread,\* where each worker stands; the head and offsets it has read
    dpc,       \* where database_destroy stands
    owned,     \* owns_pool and owns_wheel
    cast       \* the callers of this behaviour

vars == <<flag, opened, wpc, cpc, lock, vpc, vdrain, vacuums, gap, head, tail,
          ring, epc, push, crossed, evicted, lost, done, inflight, timers, pool,
          stop, kpc, kread, dpc, owned, cast>>
appVars   == <<flag, opened, wpc, cpc, lock, vpc, vdrain, vacuums, gap>>
queueVars == <<head, tail, ring>>
pushVars  == <<epc, push, crossed>>
evictVars == <<pushVars, evicted, lost, done, inflight, timers, pool, kpc, kread>>
downVars  == <<stop, dpc>>
fixed     == <<owned, cast>>

Nothing == [at |-> 0, offs |-> <<>>]
NoPush  == [off |-> 0, tail |-> 0]

Init ==
    /\ flag = FALSE /\ opened = 0 /\ lock = {}
    /\ wpc = [w \in Writers |-> "idle"]
    /\ cpc = [c \in Cursors |-> "idle"]
    /\ vpc = "idle" /\ vdrain = Nothing /\ vacuums = 0 /\ gap = {}
    /\ head = 0 /\ tail = 0 /\ ring = [i \in 0 .. Capacity - 1 |-> 0]
    /\ epc = [e \in Evictors |-> "idle"] /\ push = [e \in Evictors |-> NoPush]
    /\ crossed = FALSE /\ evicted = {} /\ lost = {} /\ done = {}
    /\ inflight = 1 /\ pool = <<"task">>   \* the first task is queued at open
    /\ timers = 0 /\ stop = FALSE
    /\ kpc = [k \in Workers |-> "idle"] /\ kread = [k \in Workers |-> Nothing]
    /\ dpc = "no"
    /\ owned \in BOOLEAN /\ cast \in Casts

destroying == dpc # "no"

-----------------------------------------------------------------------------
(***************************************************************************)
(* Writers.                                                                *)
(***************************************************************************)

\* _database_put, _database_delete, database_write_batch_sync and
\* database_increment_sync go to their shard lock without a look at the flag.
StartWrite(w) ==
    /\ w \in cast \ Testing /\ wpc[w] = "idle" /\ ~destroying
    /\ wpc' = [wpc EXCEPT ![w] = "past"]
    /\ UNCHANGED <<flag, opened, cpc, lock, vpc, vdrain, vacuums, gap,
                   queueVars, evictVars, downVars, fixed>>

\* database_put_sync and database_delete_sync: the first look at the flag,
\* without a lock.
TestFlag(w) ==
    /\ w \in cast \cap Testing /\ wpc[w] = "idle" /\ ~destroying
    /\ wpc' = [wpc EXCEPT ![w] = IF flag THEN "slow" ELSE "past"]
    /\ UNCHANGED <<flag, opened, cpc, lock, vpc, vdrain, vacuums, gap,
                   queueVars, evictVars, downVars, fixed>>

\* The wait loop, under vacuum_writer_lock.
BlockWhileVacuum(w) ==
    /\ wpc[w] = "slow"
    /\ wpc' = [wpc EXCEPT ![w] = IF flag THEN "asleep" ELSE "past"]
    /\ UNCHANGED <<flag, opened, cpc, lock, vpc, vdrain, vacuums, gap,
                   queueVars, evictVars, downVars, fixed>>

\* The wait times out, when a timeout is configured: put returns -ETIMEDOUT.
WriterTimeout(w) ==
    /\ wpc[w] = "asleep"
    /\ wpc' = [wpc EXCEPT ![w] = "idle"]
    /\ UNCHANGED <<flag, opened, cpc, lock, vpc, vdrain, vacuums, gap,
                   queueVars, evictVars, downVars, fixed>>

TakeShard(w) ==
    /\ wpc[w] = "past" /\ w \notin lock
    /\ wpc' = [wpc EXCEPT ![w] = "in"]
    /\ lock' = lock \cup {w}
    /\ UNCHANGED <<flag, opened, cpc, vpc, vdrain, vacuums, gap, queueVars,
                   evictVars, downVars, fixed>>

LeaveShard(w) ==
    /\ wpc[w] = "in"
    /\ wpc' = [wpc EXCEPT ![w] = "idle"]
    /\ lock' = lock \ {w} /\ gap' = gap \ {w}
    /\ UNCHANGED <<flag, opened, cpc, vpc, vdrain, vacuums, queueVars,
                   evictVars, downVars, fixed>>

-----------------------------------------------------------------------------
(***************************************************************************)
(* Cursors.                                                                *)
(***************************************************************************)

\* database_scan_start's wait loop, under cursor_count_mutex.
ScanWait(c) ==
    /\ c \in cast /\ cpc[c] \in {"idle", "wanted"} /\ ~destroying
    /\ cpc' = [cpc EXCEPT ![c] = IF flag THEN "asleep" ELSE "granted"]
    /\ UNCHANGED <<flag, opened, wpc, lock, vpc, vdrain, vacuums, gap,
                   queueVars, evictVars, downVars, fixed>>

\* The cursor is counted only after the mutex is released; an allocation
\* that fails takes the count back.
ScanStart(c) ==
    /\ cpc[c] = "granted"
    /\ \/ cpc' = [cpc EXCEPT ![c] = "open"] /\ opened' = opened + 1 /\ gap' = gap
       \/ cpc' = [cpc EXCEPT ![c] = "idle"] /\ gap' = gap \ {c} /\ opened' = opened
    /\ UNCHANGED <<flag, wpc, lock, vpc, vdrain, vacuums, queueVars, evictVars,
                   downVars, fixed>>

ScanEnd(c) ==
    /\ cpc[c] = "open"
    /\ opened' = opened - 1
    /\ cpc' = [cpc EXCEPT ![c] = IF opened = 1 THEN "last" ELSE "idle"]
    /\ gap' = gap \ {c}
    /\ UNCHANGED <<flag, wpc, lock, vpc, vdrain, vacuums, queueVars, evictVars,
                   downVars, fixed>>

\* Everyone who sleeps on cursor_cvar looks again.
CursorsAwake(pc) == [c \in Cursors |-> IF pc[c] = "asleep" THEN "wanted" ELSE pc[c]]
VacuumAwake(pc)  == IF pc = "asleep" THEN "auto" ELSE pc

ScanEndBroadcast(c) ==
    /\ cpc[c] = "last"
    /\ cpc' = CursorsAwake([cpc EXCEPT ![c] = "idle"])
    /\ vpc' = VacuumAwake(vpc)
    /\ UNCHANGED <<flag, opened, wpc, lock, vdrain, vacuums, gap, queueVars,
                   evictVars, downVars, fixed>>

-----------------------------------------------------------------------------
(***************************************************************************)
(* The eviction queue, the debouncer and the pool.                         *)
(***************************************************************************)

\* debouncer_debounce: the pending timer is replaced, or, when max_wait has
\* passed, left to fire beside the new one.
Debounce(n) == {IF n = 0 THEN 1 ELSE n} \cup {m \in 1 .. MaxTimers : m = n + 1}

\* tail - head as unsigned numbers: behind the head it is larger than any bound.
Fewer(t, n) == t >= head /\ t - head < n

\* eviction_queue_drain, first half: the indices and the offsets are read.
Read == LET n == IF Fewer(tail, Batch) THEN tail - head ELSE Batch
        IN  [at   |-> head,
             offs |-> [i \in 1 .. n |-> ring[(head + i - 1) % Capacity]]]

Offsets(read) == {read.offs[i] : i \in DOMAIN read.offs}

\* The cache evicts a page, under the lock of its shard: eviction_queue_push loads
\* the tail, ...
Evict(e) ==
    /\ e \in cast /\ ~destroying /\ epc[e] = "idle"
    /\ \E o \in 1 .. MaxEvict :
        /\ o = Cardinality(evicted) + 1
        /\ evicted' = evicted \cup {o}
        /\ push' = [push EXCEPT ![e] = [off |-> o, tail |-> tail]]
    /\ epc' = [epc EXCEPT ![e] = "load"]
    /\ UNCHANGED <<appVars, queueVars, crossed, lost, done, inflight, timers, pool,
                   kpc, kread, downVars, fixed>>

\* database_on_bnode_evict debounces, whatever has become of the push (nobody
\* evicts while the database is destroyed: its users have left).
Pushed(e) ==
    /\ epc' = [epc EXCEPT ![e] = "idle"] /\ push' = [push EXCEPT ![e] = NoPush]
    /\ timers' \in Debounce(timers)

\* ... then the head, and refuses the offset when the queue is full, ...
PushTest(e) ==
    /\ epc[e] = "load"
    /\ IF Fewer(push[e].tail, Capacity)
         THEN epc' = [epc EXCEPT ![e] = "store"] /\ UNCHANGED <<push, lost, timers>>
         ELSE lost' = lost \cup {push[e].off} /\ Pushed(e)
    /\ UNCHANGED <<appVars, queueVars, crossed, evicted, done, inflight, pool,
                   kpc, kread, downVars, fixed>>

\* ... and stores the offset and the new tail, over those of any push between.
PushStore(e) ==
    /\ epc[e] = "store"
    /\ ring' = [ring EXCEPT ![push[e].tail % Capacity] = push[e].off]
    /\ tail' = push[e].tail + 1
    /\ crossed' = (crossed \/ tail # push[e].tail)
    /\ Pushed(e)
    /\ UNCHANGED <<appVars, head, evicted, lost, done, inflight, pool, kpc, kread,
                   downVars, fixed>>

\* The timer fires: the wheel queues the callback as a work of its own.  A
\* stopped pool refuses it and the refusal is not looked at.
TimerFires ==
    /\ timers > 0
    /\ timers' = timers - 1
    /\ pool' = IF stop THEN pool ELSE Append(pool, "arm")
    /\ UNCHANGED <<appVars, queueVars, pushVars, evicted, lost, done, inflight, kpc,
                   kread, downVars, fixed>>

\* What an arm work comes to: its handler looks at destroying, in the memory of
\* the database, which a borrowed pool may outlive.
Armed == IF dpc = "freed" THEN "stray" ELSE IF destroying THEN "idle" ELSE "arm"

\* A worker takes a work.  A stopped pool aborts it: an eviction task gives
\* its count back, an arm work has no abort handler to call.
TakeWork(k) ==
    /\ kpc[k] = "idle" /\ pool # <<>>
    /\ pool' = Tail(pool)
    /\ \/ /\ stop /\ Head(pool) = "task"
          /\ inflight' = inflight - 1 /\ UNCHANGED <<kpc, timers>>
       \/ /\ stop /\ Head(pool) = "arm"
          /\ kpc' = [kpc EXCEPT ![k] = "null"] /\ UNCHANGED <<inflight, timers>>
       \/ /\ ~stop /\ Head(pool) = "arm"
          /\ kpc' = [kpc EXCEPT ![k] = Armed]
          /\ UNCHANGED <<inflight, timers>>
       \/ /\ ~stop /\ Head(pool) = "task" /\ (destroying \/ flag)
          /\ inflight' = inflight - 1
          /\ timers' \in IF destroying THEN {timers} ELSE Debounce(timers)
          /\ UNCHANGED kpc
       \/ /\ ~stop /\ Head(pool) = "task" /\ ~destroying /\ ~flag
          /\ kpc' = [kpc EXCEPT ![k] = "task"]
          /\ UNCHANGED <<inflight, timers>>
    /\ UNCHANGED <<appVars, queueVars, pushVars, evicted, lost, done, kread, downVars, fixed>>

\* A work is created, counted and queued; a stopped pool refuses it and the
\* count is taken back.
Queued == /\ inflight' = IF stop THEN inflight ELSE inflight + 1
          /\ pool' = IF stop THEN pool ELSE Append(pool, "task")

EvictionArm(k) ==
    /\ kpc[k] = "arm"
    /\ IF dpc = "freed" THEN UNCHANGED <<inflight, pool>> ELSE Queued
    /\ kpc' = [kpc EXCEPT ![k] = IF dpc = "freed" THEN "stray" ELSE "idle"]
    /\ UNCHANGED <<appVars, queueVars, pushVars, evicted, lost, done, timers, kread,
                   downVars, fixed>>

TaskRead(k) ==
    /\ kpc[k] = "task"
    /\ kpc' = [kpc EXCEPT ![k] = "drain"]
    /\ kread' = [kread EXCEPT ![k] = Read]
    /\ UNCHANGED <<appVars, queueVars, pushVars, evicted, lost, done, inflight, timers,
                   pool, downVars, fixed>>

\* The new head is stored; the entries are nulled and the pages freed.
TaskDrain(k) ==
    /\ kpc[k] = "drain"
    /\ head' = kread[k].at + Len(kread[k].offs)
    /\ done' = done \cup Offsets(kread[k])
    /\ kpc' = [kpc EXCEPT ![k] = "more"]
    /\ kread' = [kread EXCEPT ![k] = Nothing]
    /\ UNCHANGED <<appVars, tail, ring, pushVars, evicted, lost, inflight, timers, pool,
                   downVars, fixed>>

\* Another task is queued while the queue holds offsets, before this one
\* gives its count back.
TaskResched(k) ==
    /\ kpc[k] = "more"
    /\ IF ~destroying /\ tail # head THEN Queued ELSE UNCHANGED <<inflight, pool>>
    /\ kpc' = [kpc EXCEPT ![k] = "end"]
    /\ UNCHANGED <<appVars, queueVars, pushVars, evicted, lost, done, timers, kread,
                   downVars, fixed>>

TaskEnd(k) ==
    /\ kpc[k] = "end"
    /\ inflight' = inflight - 1
    /\ kpc' = [kpc EXCEPT ![k] = "idle"]
    /\ gap' = gap \ {k}
    /\ UNCHANGED <<flag, opened, wpc, cpc, lock, vpc, vdrain, vacuums,
                   queueVars, pushVars, evicted, lost, done, timers, pool, kread,
                   downVars, fixed>>

-----------------------------------------------------------------------------
(***************************************************************************)
(* The vacuum.                                                             *)
(***************************************************************************)

\* The actors that have made their test and are not registered yet, or are
\* inside without a registration the vacuum waits for.
Unregistered == {w \in Writers : wpc[w] = "past"}
                \cup {c \in Cursors : cpc[c] = "granted"}
                \cup {k \in Workers : kpc[k] \in {"task", "drain", "more", "end"}}

\* database_vacuum: the count of cursors is tested first ...
VacuumManual ==
    /\ vpc = "idle" /\ vacuums < MaxVacuums /\ ~destroying
    /\ opened = 0
    /\ vpc' = "tested" /\ vacuums' = vacuums + 1
    /\ UNCHANGED <<flag, opened, wpc, cpc, lock, vdrain, gap, queueVars,
                   evictVars, downVars, fixed>>

\* ... and the flag raised in a later step: a cursor may open in between.
VacuumRaise ==
    /\ vpc = "tested"
    /\ flag' = TRUE /\ vpc' = "drain"
    /\ gap' = Unregistered \cup {c \in Cursors : cpc[c] = "open"}
    /\ UNCHANGED <<opened, wpc, cpc, lock, vdrain, vacuums, queueVars,
                   evictVars, downVars, fixed>>

\* database_vacuum_auto (a snapshot over the threshold) comes to its wait.
VacuumAuto ==
    /\ vpc = "idle" /\ vacuums < MaxVacuums /\ ~destroying
    /\ vpc' = "auto" /\ vacuums' = vacuums + 1
    /\ UNCHANGED <<flag, opened, wpc, cpc, lock, vdrain, gap, queueVars,
                   evictVars, downVars, fixed>>

\* The wait for open cursors and the raising of the flag, both under
\* cursor_count_mutex.
VacuumAutoWait ==
    /\ vpc = "auto"
    /\ IF opened > 0
         THEN vpc' = "asleep" /\ UNCHANGED <<flag, gap>>
         ELSE flag' = TRUE /\ vpc' = "drain" /\ gap' = Unregistered
    /\ UNCHANGED <<opened, wpc, cpc, lock, vdrain, vacuums, queueVars,
                   evictVars, downVars, fixed>>

\* cursor_close_wait_ms passes: -EBUSY.
VacuumTimeout ==
    /\ vpc = "asleep"
    /\ vpc' = "idle"
    /\ UNCHANGED <<flag, opened, wpc, cpc, lock, vdrain, vacuums, gap,
                   queueVars, evictVars, downVars, fixed>>

\* database_vacuum_drain: read and free until the queue is empty.
VacuumRead ==
    /\ vpc = "drain"
    /\ vdrain' = Read
    /\ vpc' = IF tail = head THEN "flush" ELSE "drained"
    /\ UNCHANGED <<flag, opened, wpc, cpc, lock, vacuums, gap, queueVars,
                   evictVars, downVars, fixed>>

VacuumDrain ==
    /\ vpc = "drained"
    /\ head' = vdrain.at + Len(vdrain.offs)
    /\ done' = done \cup Offsets(vdrain)
    /\ vdrain' = Nothing /\ vpc' = "drain"
    /\ UNCHANGED <<flag, opened, wpc, cpc, lock, vacuums, gap, tail, ring,
                   pushVars, evicted, lost, inflight, timers, pool, kpc, kread, downVars, fixed>>

\* database_flush_dirty_bnodes; a failure ends the vacuum.
VacuumFlush ==
    /\ vpc = "flush"
    /\ vpc' \in {"barrier", "clear"} /\ vdrain' = Nothing
    /\ UNCHANGED <<flag, opened, wpc, cpc, lock, vacuums, gap, queueVars,
                   evictVars, downVars, fixed>>

\* Mutant: the barrier does not wait for the writers that hold a lock.
MutVacuumBarrier ==
    /\ vpc = "barrier"
    /\ vpc' = "walk"
    /\ UNCHANGED <<flag, opened, wpc, cpc, lock, vdrain, vacuums, gap,
                   queueVars, evictVars, downVars, fixed>>

\* The write barrier: the shard locks are taken in order, those of the
\* writers that are inside one after the other, and all released at the end.
VacuumBarrier ==
    /\ vpc = "barrier"
    /\ \/ \E w \in Writers : w \notin lock /\ lock' = lock \cup {w} /\ vpc' = vpc
       \/ /\ \A w \in Writers : w \in lock /\ wpc[w] # "in"
          /\ lock' = {} /\ vpc' = "walk"
    /\ UNCHANGED <<flag, opened, wpc, cpc, vdrain, vacuums, gap, queueVars,
                   evictVars, downVars, fixed>>

\* database_vacuum_rewrite and the swap of the files.
VacuumWalk ==
    /\ vpc = "walk"
    /\ vpc' = "clear"
    /\ UNCHANGED <<flag, opened, wpc, cpc, lock, vdrain, vacuums, gap,
                   queueVars, evictVars, downVars, fixed>>

\* The epilogue: the flag is lowered, ...
VacuumClear ==
    /\ vpc = "clear"
    /\ flag' = FALSE /\ vpc' = "poke" /\ gap' = {}
    /\ UNCHANGED <<opened, wpc, cpc, lock, vdrain, vacuums, queueVars,
                   evictVars, downVars, fixed>>

\* ... the debouncer poked and the blocked writers woken, ...
VacuumWakeWriters ==
    /\ vpc = "poke"
    /\ timers' \in Debounce(timers)
    /\ wpc' = [w \in Writers |-> IF wpc[w] = "asleep" THEN "slow" ELSE wpc[w]]
    /\ vpc' = "wake"
    /\ UNCHANGED <<flag, opened, cpc, lock, vdrain, vacuums, gap, queueVars,
                   pushVars, evicted, lost, done, inflight, pool, kpc, kread, downVars, fixed>>

\* Mutant: the epilogue wakes the writers only.
MutVacuumWakeCursors ==
    /\ vpc = "wake"
    /\ vpc' = "idle"
    /\ UNCHANGED <<flag, opened, wpc, cpc, lock, vdrain, vacuums, gap,
                   queueVars, evictVars, downVars, fixed>>

\* ... and the cursors that wait to be opened.
VacuumWakeCursors ==
    /\ vpc = "wake"
    /\ cpc' = CursorsAwake(cpc) /\ vpc' = "idle"
    /\ UNCHANGED <<flag, opened, wpc, lock, vdrain, vacuums, gap, queueVars,
                   evictVars, downVars, fixed>>

-----------------------------------------------------------------------------
(***************************************************************************)
(* Teardown.  The caller's threads have left the database.                 *)
(***************************************************************************)

DestroyBegin ==
    /\ dpc = "no" /\ vpc = "idle" /\ \A e \in Evictors : epc[e] = "idle"
    /\ \A w \in Writers : wpc[w] = "idle"
    /\ \A c \in Cursors : cpc[c] = "idle"
    /\ dpc' = "flag"
    /\ UNCHANGED <<appVars, queueVars, evictVars, stop, fixed>>

\* The callback is unregistered, the debouncer flushed and destroyed: its
\* latest timer is cancelled (an earlier one left by max_wait is not).
DestroyUnhook ==
    /\ dpc = "flag"
    /\ timers' = IF timers > 0 THEN timers - 1 ELSE 0
    /\ dpc' = "unhooked"
    /\ UNCHANGED <<appVars, queueVars, pushVars, evicted, lost, done, inflight, pool,
                   kpc, kread, stop, fixed>>

\* An owned wheel drops every timer and an owned pool is told to stop.
DestroyStop ==
    /\ dpc = "unhooked" /\ owned
    /\ timers' = 0 /\ stop' = TRUE /\ dpc' = "stopping"
    /\ UNCHANGED <<appVars, queueVars, pushVars, evicted, lost, done, inflight, pool,
                   kpc, kread, fixed>>

DestroyJoin ==
    /\ dpc = "stopping" /\ pool = <<>> /\ \A k \in Workers : kpc[k] = "idle"
    /\ dpc' = "quiet"
    /\ UNCHANGED <<appVars, queueVars, evictVars, stop, fixed>>

\* Pool and wheel belong to the caller: one drain, whose offsets are dropped.
DestroyDrain ==
    /\ dpc = "unhooked" /\ ~owned
    /\ head' = Read.at + Len(Read.offs) /\ dpc' = "draining"
    /\ UNCHANGED <<appVars, tail, ring, evictVars, stop, fixed>>

\* Mutant: the count of eviction tasks is not waited for.
MutDestroyWait ==
    /\ dpc = "draining"
    /\ dpc' = "quiet"
    /\ UNCHANGED <<appVars, queueVars, evictVars, stop, fixed>>

\* The spin on eviction_in_flight.
DestroyWait ==
    /\ dpc = "draining" /\ inflight = 0
    /\ dpc' = "quiet"
    /\ UNCHANGED <<appVars, queueVars, evictVars, stop, fixed>>

\* Persist, seal, the last drain, and everything is freed.
DestroyFree ==
    /\ dpc = "quiet"
    /\ head' = tail /\ done' = evicted /\ dpc' = "freed"
    /\ UNCHANGED <<appVars, tail, ring, pushVars, evicted, lost, inflight, timers, pool,
                   kpc, kread, stop, fixed>>

\* The database is freed, or a worker has called a null abort handler.
Finished == /\ dpc = "freed" \/ \E k \in Workers : kpc[k] = "null"
            /\ UNCHANGED vars

WriterRuns(w) == BlockWhileVacuum(w) \/ TakeShard(w) \/ LeaveShard(w)
CursorRuns(c) == (cpc[c] = "wanted" /\ ScanWait(c)) \/ ScanEndBroadcast(c)
WorkerRuns(k) == TakeWork(k) \/ EvictionArm(k) \/ TaskRead(k) \/ TaskDrain(k)
                 \/ TaskResched(k) \/ TaskEnd(k)
EvictorRuns(e) == PushTest(e) \/ PushStore(e)
VacuumRuns == VacuumRaise \/ VacuumAutoWait \/ VacuumRead \/ VacuumDrain
              \/ VacuumFlush \/ VacuumBarrier \/ VacuumWalk \/ VacuumClear
              \/ VacuumWakeWriters \/ VacuumWakeCursors
DestroyRuns == DestroyUnhook \/ DestroyStop \/ DestroyJoin \/ DestroyDrain
               \/ DestroyWait \/ DestroyFree

Next == \/ \E w \in Writers : StartWrite(w) \/ TestFlag(w) \/ WriterRuns(w) \/ WriterTimeout(w)
        \/ \E c \in Cursors : ScanWait(c) \/ ScanStart(c) \/ ScanEnd(c)
                              \/ ScanEndBroadcast(c)
        \/ \E k \in Workers : WorkerRuns(k)
        \/ \E e \in Evictors : Evict(e) \/ EvictorRuns(e)
        \/ TimerFires
        \/ VacuumManual \/ VacuumAuto \/ VacuumTimeout \/ VacuumRuns
        \/ DestroyBegin \/ DestroyRuns \/ Finished

\* Threads that have begun a call are scheduled; nobody is obliged to call.  The
\* barrier gets a shard lock that is free again and again.
Fairness == /\ \A w \in Writers : WF_vars(WriterRuns(w))
            /\ \A c \in Cursors : WF_vars(CursorRuns(c))
            /\ \A k \in Workers : WF_vars(WorkerRuns(k))
            /\ \A e \in Evictors : WF_vars(EvictorRuns(e))
            /\ WF_vars(TimerFires) /\ WF_vars(VacuumRuns) /\ SF_vars(VacuumBarrier) /\ WF_vars(DestroyRuns)

Spec == Init /\ [][Next]_vars /\ Fairness

-----------------------------------------------------------------------------
Reads == [at : Nat, offs : UNION {[1 .. n -> 0 .. MaxEvict] : n \in 0 .. Batch}]

\* Every variable has its type.
TypeOK ==
    /\ flag \in BOOLEAN /\ opened \in 0 .. Cardinality(Cursors)
    /\ wpc \in [Writers -> {"idle", "slow", "asleep", "past", "in"}]
    /\ cpc \in [Cursors -> {"idle", "wanted", "asleep", "granted", "open", "last"}]
    /\ lock \subseteq Writers
    /\ vpc \in {"idle", "tested", "auto", "asleep", "drain", "drained", "flush",
                "barrier", "walk", "clear", "poke", "wake"}
    /\ vdrain \in Reads /\ vacuums \in 0 .. MaxVacuums
    /\ gap \subseteq Writers \cup Cursors \cup Workers
    /\ head \in Nat /\ tail \in Nat
    /\ ring \in [0 .. Capacity - 1 -> 0 .. MaxEvict]
    /\ epc \in [Evictors -> {"idle", "load", "store"}]
    /\ push \in [Evictors -> [off : 0 .. MaxEvict, tail : Nat]] /\ crossed \in BOOLEAN
    /\ evicted \subseteq 1 .. MaxEvict /\ lost \subseteq evicted /\ done \subseteq 0 .. MaxEvict
    /\ inflight \in Nat /\ timers \in 0 .. MaxTimers /\ stop \in BOOLEAN
    /\ pool \in Seq({"arm", "task"})
    /\ kpc \in [Workers -> {"idle", "null", "stray", "arm", "task", "drain", "more", "end"}]
    /\ kread \in [Workers -> Reads]
    /\ dpc \in {"no", "flag", "unhooked", "stopping", "draining", "quiet", "freed"}
    /\ owned \in BOOLEAN /\ cast \in Casts

\* While the vacuum copies the trie, the only actors inside it are those
\* that stood between their test and their registration when the flag was
\* raised (database.c 102, 813, 2409; database_iterator.c 850) and the
\* writers that make no test: the barrier and the wait for cursors keep
\* everyone else out.
WalkIntruders ==
    vpc = "walk" =>
        {w \in Testing : wpc[w] = "in"} \cup {c \in Cursors : cpc[c] = "open"}
        \cup {k \in Workers : kpc[k] \in {"task", "drain"}} \subseteq gap

\* What database_vacuum_run says of its barrier (database.c 2364): "The walk then
\* proceeds without concurrent trie modifications."
WalkAlone == vpc = "walk" => \A w \in Writers : wpc[w] # "in"

\* What eviction_queue_size says of the indices (eviction_queue.c 38): "tail - head
\* never underflows".
NeverUnderflows == head <= tail

\* When the database is freed, no worker is in the body of an eviction task,
\* and a pool it owns has no work queued or running at all
\* (database_destroy's comment on the drain and the join).
Teardown ==
    dpc = "freed" =>
        /\ \A k \in Workers : kpc[k] \notin {"task", "drain", "more", "end"}
        /\ owned => pool = <<>> /\ \A k \in Workers : kpc[k] = "idle"

\* Whoever sleeps on the vacuum's condition variables is woken: again and
\* again there is a moment at which nobody sleeps.
SleepersWake ==
    []<>(/\ \A w \in Writers : wpc[w] # "asleep"
         /\ \A c \in Cursors : cpc[c] # "asleep")

\* The pages the cache has evicted and the queue has accepted are all freed
\* in the end, with the entries that point to them nulled, whatever vacuums
\* and skipped tasks come between (unless the process has called a null
\* abort handler).
EvictionsFinish ==
    []<>(evicted \ lost \subseteq done \/ \E k \in Workers : kpc[k] = "null")

\* Every abort of a queued work calls a handler (wheel.c 425: "Existing
\* callers pass NULL abort, so this is a no-op for them").
AbortsHaveHandlers == \A k \in Workers : kpc[k] # "null"

\* Vacuum starves nobody: its sleepers wake and the evictions it makes wait get
\* done, as long as no two pushes store over each other (eviction_queue_push has
\* no lock of its own).
Progress == <>crossed \/ (SleepersWake /\ EvictionsFinish)
=============================================================================
