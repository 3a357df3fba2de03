------------------------------ MODULE WorkPool ------------------------------
(***************************************************************************)
(* The worker threads (src/src/Workers): the sharded job queue, the pool's *)
(* lock and conditions, the life of a job (work.c), the promise that the   *)
(* asynchronous operations of the database settle (promise.c) and the      *)
(* counter a caller may wait on (join.c).                                  *)
(*                                                                         *)
(* Each job is submitted by a thread of its own.  One step is what happens *)
(* between two acquisitions of a lock, or one lock free access of a shared *)
(* field.  A wait on a condition releases the lock in the step that enters *)
(* the wait set; a signal takes one thread out of it.  Spurious wake-ups   *)
(* are left out.                                                           *)
(***************************************************************************)
EXTENDS Integers, Sequences, FiniteSets

CONSTANTS
  Workers,     \* the threads of the pool
  Jobs,        \* the jobs that are submitted
  KindSets,    \* what the jobs may be: a set of functions from Jobs to Kinds
  NumShards,   \* QUEUE_SHARDS
  Free         \* no holder of the pool's lock, no job

ASSUME ShardsAssumption == NumShards \in Nat \ {0}

ASSUME PoolAssumption ==
  IsFiniteSet(Workers) /\ IsFiniteSet(Jobs) /\ Free \notin Workers \cup Jobs

\* A typed operation (database_put, get, delete), one on raw keys, a batch, or
\* a run of the eviction task.
Kinds == {"op", "raw", "batch", "evict"}
ASSUME KindsAssumption == KindSets \subseteq [Jobs -> Kinds]

VARIABLES
  kind,      \* what each job is
  sync_only, \* db->sync_only: there is no pool
  dead,      \* the process has called through a null pointer
  stop,      \* pool->stop
  lock,      \* holder of pool->lock
  idleCount, \* pool->idleCount
  sleeping,  \* workers in the wait set of pool->condition
  queues,    \* sharded_queue.queues
  next,      \* sharded_queue.next_shard
  wpc,       \* where each worker is
  scan,      \* per worker: the shards it still visits in this dequeue
  hand,      \* per worker: the job it has dequeued
  spc,       \* where the submitter of each job is
  early,     \* jobs whose enqueue returned before the pool was stopped
  ref,       \* per job: its reference counter and whether it was freed
  fate,      \* per job: "none", "executed" or "aborted"
  fired,     \* per job: what its promise was settled with, in order
  pending,   \* join->pending
  joiner,    \* the thread in async_join_wait
  closer,    \* the thread that stops, joins and destroys the pool
  idler      \* the thread in work_pool_wait_for_idle_signal

vars == <<kind, sync_only, dead, stop, lock, idleCount, sleeping, queues, next, wpc, scan, hand,
          spc, early, ref, fate, fired, pending, joiner, closer, idler>>

queueVars == <<queues, next>>
workerVars == <<wpc, scan, hand>>
jobVars == <<spc, early, ref, fate, fired>>
waiterVars == <<pending, joiner, closer, idler>>
config == <<kind, sync_only>>

Shards == 0 .. NumShards - 1

(***************************************************************************)
(* The reference counter.  A yield is a reference on its way to somebody:  *)
(* reference and dereference both consume one before they touch the count. *)
(***************************************************************************)
NewRef == [count |-> 1, yield |-> 0, freed |-> 0]

Yield(r) == [r EXCEPT !.yield = @ + 1]

\* Mutant: a dereference that leaves the yields alone.
MutDereference(r) == IF r.count > 0 THEN [r EXCEPT !.count = @ - 1] ELSE r

Reference(r) ==
  IF r.yield > 0 THEN [r EXCEPT !.yield = @ - 1] ELSE [r EXCEPT !.count = @ + 1]

Dereference(r) ==
  IF r.yield > 0 THEN [r EXCEPT !.yield = @ - 1]
  ELSE IF r.count > 0 THEN [r EXCEPT !.count = @ - 1] ELSE r

\* work_destroy: one reference less, and the memory back with the last one.
WorkDestroy(r) ==
  LET d == Dereference(r)
  IN  IF d.count = 0 THEN [d EXCEPT !.freed = @ + 1] ELSE d

\* promise_resolve and promise_reject: only the first call reaches the caller.
Settle(f, j, how) == IF f[j] = << >> THEN [f EXCEPT ![j] = <<how>>] ELSE f

\* Without a pool a typed operation runs in the caller's thread; an operation
\* on raw keys and a batch settle their promise with an error; an eviction task
\* is never armed.
SyncOp(j) ==
  /\ sync_only /\ spc[j] = "new" /\ kind[j] = "op"
  /\ fate' = [fate EXCEPT ![j] = "executed"]
  /\ fired' = Settle(fired, j, "result")
  /\ pending' = pending - 1
  /\ spc' = [spc EXCEPT ![j] = "refused"]
  /\ UNCHANGED <<config, dead, stop, lock, idleCount, sleeping, queueVars,
                 workerVars, early, ref, joiner, closer, idler>>

SyncRaw(j) ==
  /\ sync_only /\ spc[j] = "new" /\ kind[j] \in {"raw", "batch"}
  /\ fired' = Settle(fired, j, "error")
  /\ spc' = [spc EXCEPT ![j] = "refused"]
  /\ UNCHANGED <<config, dead, stop, lock, idleCount, sleeping, queueVars,
                 workerVars, early, ref, fate, waiterVars>>

\* work_create, refcounter_yield, and the first part of work_pool_enqueue, which
\* reads stop under the lock and refuses the job when it is set.
Submit(j, refused) ==
  /\ ~sync_only /\ ~dead /\ spc[j] = "new" /\ lock = Free
  /\ spc' = [spc EXCEPT ![j] = IF stop THEN "refused" ELSE "push"]
  /\ ref' = [ref EXCEPT ![j] = IF stop THEN refused ELSE Yield(NewRef)]
  /\ UNCHANGED <<config, dead, stop, lock, idleCount, sleeping, queueVars,
                 workerVars, early, fate, fired, waiterVars>>

\* The asynchronous operations ignore the refusal: job and promise are dropped.
SubmitOp(j) == kind[j] = "op" /\ Submit(j, Yield(NewRef))
SubmitRaw(j) == kind[j] = "raw" /\ Submit(j, Yield(NewRef))
SubmitBatch(j) == kind[j] = "batch" /\ Submit(j, Yield(NewRef))

\* The eviction task's submitters destroy a refused job twice, once for the
\* yield and once for the count.
SubmitEviction(j) ==
  kind[j] = "evict" /\ Submit(j, WorkDestroy(WorkDestroy(Yield(NewRef))))

\* sharded_work_enqueue: the next shard in turn, at its tail.
Push(j) ==
  /\ ~dead /\ spc[j] = "push" /\ closer # "closed"
  /\ queues' = [queues EXCEPT ![next % NumShards] = Append(@, j)]
  /\ next' = next + 1
  /\ spc' = [spc EXCEPT ![j] = "signal"]
  /\ UNCHANGED <<config, dead, stop, lock, idleCount, sleeping, workerVars, early, ref, fate,
                 fired, waiterVars>>

\* platform_signal_condition, without the lock: it may find nobody waiting.
Signal(j) ==
  /\ ~dead /\ spc[j] = "signal"
  /\ IF sleeping = {} THEN UNCHANGED sleeping
     ELSE \E w \in sleeping : sleeping' = sleeping \ {w}
  /\ spc' = [spc EXCEPT ![j] = "accepted"]
  /\ early' = IF stop THEN early ELSE early \cup {j}
  /\ UNCHANGED <<config, dead, stop, lock, idleCount, queueVars, workerVars, ref, fate, fired,
                 waiterVars>>

(***************************************************************************)
(* A worker.                                                               *)
(***************************************************************************)
\* sharded_work_dequeue begins: all shards in turn from start_shard, which is
\* thread local and rotates with each call; here it is any shard.
Visit(from) == [i \in 1 .. NumShards |-> (from + i - 1) % NumShards]

BeginScan(w, at) ==
  /\ wpc' = [wpc EXCEPT ![w] = at]
  /\ \E from \in Shards : scan' = [scan EXCEPT ![w] = Visit(from)]

\* Where a worker goes on after a dequeue that found a job, or none.
AfterHit(at) == IF at = "fast" THEN "run" ELSE "leave"
AfterMiss(at) == CASE at = "fast" -> "lock" [] at = "look" -> "decide"
                   [] at = "retry" -> "leave"

\* One shard, under the shard's lock.
Dequeue(w) ==
  /\ ~dead /\ wpc[w] \in {"fast", "look", "retry"}
  /\ LET s == Head(scan[w])
     IN IF queues[s] # << >>
        THEN /\ hand' = [hand EXCEPT ![w] = Head(queues[s])]
             /\ queues' = [queues EXCEPT ![s] = Tail(@)]
             /\ wpc' = [wpc EXCEPT ![w] = AfterHit(@)]
             /\ scan' = [scan EXCEPT ![w] = << >>]
        ELSE /\ scan' = [scan EXCEPT ![w] = Tail(@)]
             /\ wpc' = IF Len(scan[w]) = 1 THEN [wpc EXCEPT ![w] = AfterMiss(@)]
                                           ELSE wpc
             /\ UNCHANGED <<hand, queues>>
  /\ UNCHANGED <<config, dead, stop, lock, idleCount, sleeping, next, jobVars, waiterVars>>

TakeLock(w) ==
  /\ ~dead /\ wpc[w] = "lock" /\ lock = Free
  /\ lock' = w
  /\ BeginScan(w, "look")
  /\ UNCHANGED <<config, dead, stop, idleCount, sleeping, queueVars, hand, jobVars, waiterVars>>

\* Nothing found under the lock.  Not stopped: the worker counts itself idle,
\* the last one to do so signals the idle condition, and it waits.
Decide(w) ==
  /\ ~dead /\ wpc[w] = "decide"
  /\ IF stop THEN /\ wpc' = [wpc EXCEPT ![w] = "leave"]
                  /\ UNCHANGED <<lock, idleCount, sleeping, idler>>
     ELSE /\ idleCount' = idleCount + 1
          /\ idler' = IF idleCount + 1 = Cardinality(Workers) /\ idler = "waiting"
                      THEN "woken" ELSE idler
          /\ sleeping' = sleeping \cup {w}
          /\ lock' = Free
          /\ wpc' = [wpc EXCEPT ![w] = "asleep"]
  /\ UNCHANGED <<config, dead, stop, queueVars, scan, hand, jobVars, pending, joiner, closer>>

WakeUp(w) ==
  /\ ~dead /\ wpc[w] = "asleep" /\ w \notin sleeping /\ lock = Free
  /\ lock' = w
  /\ idleCount' = idleCount - 1
  /\ BeginScan(w, "retry")
  /\ UNCHANGED <<config, dead, stop, sleeping, queueVars, hand, jobVars, waiterVars>>

\* should_stop is read, the lock released; without a job and stopped it exits.
Leave(w) ==
  /\ ~dead /\ wpc[w] = "leave"
  /\ lock' = Free
  /\ IF hand[w] # Free
     THEN /\ wpc' = [wpc EXCEPT ![w] = "run"] /\ UNCHANGED scan
     ELSE IF stop THEN /\ wpc' = [wpc EXCEPT ![w] = "exited"]
                       /\ UNCHANGED scan
          ELSE BeginScan(w, "fast")
  /\ UNCHANGED <<config, dead, stop, idleCount, sleeping, queueVars, hand, jobVars, waiterVars>>

\* What an executed job may settle its promise with: an operation on raw keys
\* rejects when it cannot build the path; an eviction task has no promise.
Outcomes(j) == CASE kind[j] \in {"op", "batch"} -> {"result"}
                 [] kind[j] = "raw" -> {"result", "error"}
                 [] kind[j] = "evict" -> {"none"}

\* work->execute: it settles the promise, and the caller's join is told.
Execute(j) ==
  /\ fate' = [fate EXCEPT ![j] = "executed"]
  /\ \E how \in Outcomes(j) :
       fired' = IF how = "none" THEN fired ELSE Settle(fired, j, how)
  /\ pending' = pending - 1
  /\ UNCHANGED dead

\* work->abort: the handlers free the context and leave the promise alone; a
\* batch has no handler at all.
Abort(j) ==
  /\ fate' = [fate EXCEPT ![j] = "aborted"]
  /\ dead' = (kind[j] = "batch")
  /\ UNCHANGED <<fired, pending>>

\* The job is referenced, which consumes the submitter's yield, and executed,
\* or aborted when the pool has been stopped; stop is read without the lock.
Run(w) ==
  /\ wpc[w] = "run" /\ ~dead
  /\ ref' = [ref EXCEPT ![hand[w]] = Reference(@)]
  /\ IF stop THEN Abort(hand[w]) ELSE Execute(hand[w])
  /\ wpc' = [wpc EXCEPT ![w] = "notify"]
  /\ UNCHANGED <<config, stop, lock, idleCount, sleeping, queueVars, scan, hand,
                 spc, early, joiner, closer, idler>>

\* Mutant: the wait returns at the first signal.
MutJoinWait ==
  /\ ~dead /\ joiner \in {"start", "woken"}
  /\ joiner' = IF pending > 0 /\ joiner = "start" THEN "waiting" ELSE "returned"
  /\ UNCHANGED <<config, dead, stop, lock, idleCount, sleeping, queueVars, workerVars, jobVars,
                 pending, closer, idler>>

\* async_join_complete signals after it has released the join's lock; then the
\* job is destroyed and the worker looks for the next one.
Notify(w) ==
  /\ ~dead /\ wpc[w] = "notify"
  /\ joiner' = IF fate[hand[w]] = "executed" /\ joiner = "waiting" THEN "woken"
               ELSE joiner
  /\ ref' = [ref EXCEPT ![hand[w]] = WorkDestroy(@)]
  /\ hand' = [hand EXCEPT ![w] = Free]
  /\ BeginScan(w, "fast")
  /\ UNCHANGED <<config, dead, stop, lock, idleCount, sleeping, queueVars, spc, early, fate,
                 fired, pending, closer, idler>>

(***************************************************************************)
(* The threads that wait.                                                  *)
(***************************************************************************)
\* async_join_wait: while pending > 0, wait.
JoinWait ==
  /\ ~dead /\ joiner \in {"start", "woken"}
  /\ joiner' = IF pending > 0 THEN "waiting" ELSE "returned"
  /\ UNCHANGED <<config, dead, stop, lock, idleCount, sleeping, queueVars, workerVars, jobVars,
                 pending, closer, idler>>

\* Mutant: shutdown wakes one worker only.
MutShutdown ==
  /\ ~dead /\ closer = "open" /\ lock = Free
  /\ stop' = TRUE
  /\ IF sleeping = {} THEN UNCHANGED sleeping
     ELSE \E w \in sleeping : sleeping' = sleeping \ {w}
  /\ closer' = "joining"
  /\ UNCHANGED <<config, dead, lock, idleCount, queueVars, workerVars, jobVars, pending, joiner,
                 idler>>

\* work_pool_wait_for_idle_signal: one wait, not a loop.
IdleWait ==
  /\ ~dead /\ ~sync_only /\ idler \in {"start", "woken"} /\ lock = Free
  /\ idler' = IF idler = "start" /\ idleCount # Cardinality(Workers)
              THEN "waiting" ELSE "returned"
  /\ UNCHANGED <<config, dead, stop, lock, idleCount, sleeping, queueVars, workerVars, jobVars,
                 pending, joiner, closer>>

\* work_pool_shutdown: stop and a broadcast, both under the lock.
Shutdown ==
  /\ ~dead /\ closer = "open" /\ lock = Free
  /\ stop' = TRUE
  /\ sleeping' = {}
  /\ closer' = "joining"
  /\ UNCHANGED <<config, dead, lock, idleCount, queueVars, workerVars, jobVars, pending, joiner,
                 idler>>

\* work_pool_join_all: every worker has left its loop.
JoinAll ==
  /\ ~dead /\ closer = "joining" /\ \A w \in Workers : wpc[w] = "exited"
  /\ closer' = "draining"
  /\ UNCHANGED <<config, dead, stop, lock, idleCount, sleeping, queueVars, workerVars, jobVars,
                 pending, joiner, idler>>

\* sharded_work_queue_destroy: what is still queued is aborted and destroyed.
DrainOne(s) ==
  LET j == Head(queues[s])
  IN /\ closer = "draining" /\ queues[s] # << >> /\ ~dead
     /\ queues' = [queues EXCEPT ![s] = Tail(@)]
     /\ Abort(j)
     /\ ref' = [ref EXCEPT ![j] = WorkDestroy(Reference(@))]
     /\ UNCHANGED <<config, stop, lock, idleCount, sleeping, next, workerVars, spc,
                    early, joiner, closer, idler>>

\* work_pool_destroy releases the pool.
PoolDestroy ==
  /\ ~dead /\ closer = "draining" /\ \A s \in Shards : queues[s] = << >>
  /\ closer' = "closed"
  /\ UNCHANGED <<config, dead, stop, lock, idleCount, sleeping, queueVars, workerVars, jobVars,
                 pending, joiner, idler>>

(***************************************************************************)
(* work_pool_create and work_pool_launch: everyone is past the barrier.    *)
(* The client waits for its join or for the idle signal, not for both.     *)
(***************************************************************************)
Init ==
  /\ kind \in KindSets /\ sync_only \in BOOLEAN /\ dead = FALSE
  /\ stop = FALSE /\ lock = Free /\ idleCount = 0 /\ sleeping = {}
  /\ queues = [s \in Shards |-> << >>] /\ next = 0
  /\ wpc = [w \in Workers |-> IF sync_only THEN "exited" ELSE "fast"]
  /\ scan = [w \in Workers |-> Visit(0)]
  /\ hand = [w \in Workers |-> Free]
  /\ spc = [j \in Jobs |-> "new"] /\ early = {}
  /\ ref = [j \in Jobs |-> NewRef]
  /\ fate = [j \in Jobs |-> "none"] /\ fired = [j \in Jobs |-> << >>]
  /\ pending = Cardinality(Jobs)
  /\ closer = IF sync_only THEN "absent" ELSE "open"
  /\ \/ joiner = "start" /\ idler = "absent"
     \/ joiner = "absent" /\ idler = "start"

SubmitterStep(j) == \/ SyncOp(j) \/ SyncRaw(j)
                    \/ SubmitOp(j) \/ SubmitRaw(j) \/ SubmitBatch(j) \/ SubmitEviction(j)
                    \/ Push(j) \/ Signal(j)

WorkerStep(w) == \/ Dequeue(w) \/ TakeLock(w) \/ Decide(w) \/ WakeUp(w)
                 \/ Leave(w) \/ Run(w) \/ Notify(w)

CloserStep == Shutdown \/ JoinAll \/ (\E s \in Shards : DrainOne(s)) \/ PoolDestroy

Next == \/ \E j \in Jobs : SubmitterStep(j)
        \/ \E w \in Workers : WorkerStep(w)
        \/ JoinWait \/ IdleWait \/ CloserStep

\* Weak fairness of each worker and of the thread that has begun to close the
\* pool: the scheduler runs a thread that stays runnable.  The lock needs no
\* more, as a worker takes it finitely often once the pool is stopped.
Fairness ==
  /\ \A w \in Workers : WF_vars(WorkerStep(w))
  /\ WF_vars(CloserStep)

Spec == Init /\ [][Next]_vars /\ Fairness

(***************************************************************************)
(* Properties.                                                             *)
(***************************************************************************)
TypeOK ==
  /\ stop \in BOOLEAN /\ lock \in Workers \cup {Free}
  /\ idleCount \in 0 .. Cardinality(Workers) /\ sleeping \subseteq Workers
  /\ queues \in [Shards -> Seq(Jobs)] /\ next \in 0 .. Cardinality(Jobs)
  /\ wpc \in [Workers -> {"fast", "look", "retry", "lock", "decide", "asleep",
                          "leave", "run", "notify", "exited"}]
  /\ hand \in [Workers -> Jobs \cup {Free}]
  /\ scan \in [Workers -> Seq(Shards)]
  /\ spc \in [Jobs -> {"new", "push", "signal", "accepted", "refused"}]
  /\ early \subseteq Jobs
  /\ \A j \in Jobs : ref[j].count \in 0 .. 2 /\ ref[j].yield \in 0 .. 1
                      /\ fired[j] \in Seq({"result", "error"})
  /\ fate \in [Jobs -> {"none", "executed", "aborted"}]
  /\ kind \in [Jobs -> Kinds] /\ sync_only \in BOOLEAN /\ dead \in BOOLEAN
  /\ pending \in 0 .. Cardinality(Jobs)

Queued(j) == \E s \in Shards : \E i \in 1 .. Len(queues[s]) : queues[s][i] = j

\* The life of a job: while it is queued or in a worker's hands its memory is
\* there; it is freed once, and only after it was executed, aborted or refused;
\* and no two workers hold the same job.
JobLife ==
  /\ \A j \in Jobs :
       /\ ref[j].freed \in 0 .. 1
       /\ Queued(j) => ref[j].freed = 0 /\ fate[j] = "none"
       /\ ref[j].freed = 1 => fate[j] # "none" \/ spc[j] = "refused"
  /\ \A v, w \in Workers :
       hand[w] # Free => ref[hand[w]].freed = 0 /\ (v # w => hand[v] # hand[w])

\* idleCount, which wait_for_idle compares with the size of the pool, is the
\* number of workers inside the wait, at every moment the lock is free.
IdleExact ==
  lock = Free => idleCount = Cardinality({w \in Workers : wpc[w] = "asleep"})

\* The pool's destruction leaves nothing behind of what was accepted before
\* the stop: each such job was executed or aborted and its memory is freed.
NothingLeft ==
  closer = "closed" => \A j \in early : fate[j] # "none" /\ ref[j].freed = 1

\* A join returns to its caller only when every operation has completed.
JoinComplete == joiner = "returned" => \A j \in Jobs : fate[j] = "executed"

\* What the caller of an asynchronous operation gets: its promise is settled at
\* most once; by the time the memory of an executed job is gone it has been;
\* and only a refusal at stop or an abort leaves it unsettled for good.
PromiseSettled ==
  \A j \in Jobs :
    /\ Len(fired[j]) <= 1
    /\ fired[j] = << >> /\ kind[j] # "evict" /\ closer = "closed" /\ j \in early
         => fate[j] = "aborted"

\* The workers leave: whatever each of them was doing when stop was set, the
\* owner's join returns and the pool is destroyed, unless an aborted batch has
\* killed the process.  With NothingLeft: a job accepted before the stop ends,
\* although its enqueue's signal may be lost.
CloseEnds == stop ~> (closer = "closed" \/ dead)

\* A job's memory is there as long as a queue or a worker has the job, one worker
\* at most has it, and the count that wait_for_idle relies on is exact.
PoolSound == TypeOK /\ JobLife /\ IdleExact

\* Who waits for the pool gets what was promised: destruction leaves no accepted
\* job behind, a join returns after the last one, a promise is settled once, and
\* never only when its job was refused or aborted.
JobsSettled == NothingLeft /\ JoinComplete /\ PromiseSettled
=============================================================================
