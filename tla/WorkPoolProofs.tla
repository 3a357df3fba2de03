--------------------------- MODULE WorkPoolProofs ---------------------------
(***************************************************************************)
(* Proofs about the work pool, for every number of workers, jobs and       *)
(* shards and every mix of jobs: PoolSound and JobsSettled.  The invariant *)
(* that carries them says where a job is.  From its enqueue on it is in    *)
(* one place of one queue, or in the hands of one worker, or finished, and *)
(* its reference counter follows from that place alone.                    *)
(***************************************************************************)
EXTENDS WorkPool, FiniteSetTheorems, TLAPS

USE ShardsAssumption, KindsAssumption, PoolAssumption

\* The three values a job's counter takes: created, or taken by a worker; on its
\* way to a worker, with the submitter's yield; and freed.
Sent == [count |-> 1, yield |-> 1, freed |-> 0]
Gone == [count |-> 0, yield |-> 0, freed |-> 1]

Promises == {<< >>, <<"result">>, <<"error">>}

\* The types, without the counters, whose ranges follow from what they count.
Types ==
  /\ stop \in BOOLEAN /\ lock \in Workers \cup {Free} /\ sleeping \subseteq Workers
  /\ queues \in [Shards -> Seq(Jobs)]
  /\ wpc \in [Workers -> {"fast", "look", "retry", "lock", "decide", "asleep",
                          "leave", "run", "notify", "exited"}]
  /\ hand \in [Workers -> Jobs \cup {Free}]
  /\ scan \in [Workers -> Seq(Shards)]
  /\ spc \in [Jobs -> {"new", "push", "signal", "accepted", "refused"}]
  /\ early \subseteq Jobs
  /\ ref \in [Jobs -> {NewRef, Sent, Gone}]
  /\ fired \in [Jobs -> Promises]
  /\ fate \in [Jobs -> {"none", "executed", "aborted"}]
  /\ kind \in [Jobs -> Kinds] /\ sync_only \in BOOLEAN /\ dead \in BOOLEAN

\* The pool's lock is held exactly between its acquisition and its release.
Locked == {"look", "decide", "retry", "leave"}
LockHeld == \A w \in Workers : lock = w <=> wpc[w] \in Locked

Asleep == {w \in Workers : wpc[w] = "asleep"}
IdleCounted == idleCount = Cardinality(Asleep)

\* A worker that is inside a dequeue has a shard left to visit.
ScanLeft == \A w \in Workers : wpc[w] \in {"fast", "look", "retry"} => scan[w] # << >>

\* In(Q, j): a queue of Q holds j; Once(Q): no job is twice in the queues.
In(Q, j) == \E s \in Shards : \E i \in DOMAIN Q[s] : Q[s][i] = j
Once(Q) ==
  \A s, u \in Shards : \A i \in DOMAIN Q[s] : \A k \in DOMAIN Q[u] :
    Q[s][i] = Q[u][k] => s = u /\ i = k

\* A queued job waits: nobody has it, and it is as its submitter left it.
Accepted == {"signal", "accepted"}
QueuedWaits ==
  \A j \in Jobs : In(queues, j) =>
    /\ spc[j] \in Accepted /\ ref[j] = Sent /\ fate[j] = "none"
    /\ \A w \in Workers : hand[w] # j

\* A worker has a job from its dequeue to its destruction, and at no other time.
HandFull(w) ==
  /\ wpc[w] \in {"run", "notify"} => hand[w] # Free
  /\ hand[w] # Free =>
       /\ wpc[w] \in {"leave", "run", "notify"}
       /\ spc[hand[w]] \in Accepted
       /\ wpc[w] # "notify" => ref[hand[w]] = Sent /\ fate[hand[w]] = "none"
       /\ wpc[w] = "notify" => ref[hand[w]] = NewRef /\ fate[hand[w]] # "none"
HandsFull == \A w \in Workers : HandFull(w)

HandsApart ==
  \A v, w \in Workers : v # w /\ hand[w] # Free => hand[v] # hand[w]

\* What has been enqueued is queued, held or finished; what has not been is as new.
AcceptedKept ==
  \A j \in Jobs : spc[j] \in Accepted =>
    \/ In(queues, j)
    \/ \E w \in Workers : hand[w] = j
    \/ ref[j] = Gone /\ fate[j] # "none"

NotYetSent ==
  \A j \in Jobs : /\ spc[j] = "new" => ref[j] = NewRef /\ fate[j] = "none"
                  /\ spc[j] = "push" => ref[j] = Sent /\ fate[j] = "none"

\* The counters of the join and of the queue count jobs.
Unexecuted == {j \in Jobs : fate[j] # "executed"}
Enqueued == {j \in Jobs : spc[j] \in Accepted}
Counted == pending = Cardinality(Unexecuted) /\ next = Cardinality(Enqueued)

\* An executed operation has settled its promise.
ExecutedSettled ==
  \A j \in Jobs : fate[j] = "executed" /\ kind[j] # "evict" => fired[j] # << >>

\* The owner drains the queues when every worker is gone, and releases the pool
\* when they are empty; by then each early job had been enqueued.
Closing ==
  /\ closer \in {"draining", "closed"} => \A w \in Workers : wpc[w] = "exited"
  /\ closer = "closed" => \A s \in Shards : queues[s] = << >>
EarlyEnqueued == \A j \in early : spc[j] = "accepted"

IInv ==
  /\ Types
  /\ LockHeld
  /\ IdleCounted
  /\ ScanLeft
  /\ Once(queues)
  /\ QueuedWaits
  /\ HandsFull
  /\ HandsApart
  /\ AcceptedKept
  /\ NotYetSent
  /\ Counted
  /\ ExecutedSettled
  /\ Closing
  /\ EarlyEnqueued
  /\ JoinComplete

-----------------------------------------------------------------------------
(* The queues *)

\* R is Q with j at the tail of shard s, or without the head of shard s.
Appended(Q, R, s, j) ==
  /\ R \in [Shards -> Seq(Jobs)] /\ R[s] = Append(Q[s], j)
  /\ \A u \in Shards \ {s} : R[u] = Q[u]
Shortened(Q, R, s) ==
  /\ R \in [Shards -> Seq(Jobs)] /\ R[s] = Tail(Q[s])
  /\ \A u \in Shards \ {s} : R[u] = Q[u]

\* sharded_work_enqueue puts a job that is in no queue in one place.
LEMMA EnqueueOnce ==
  ASSUME NEW Q \in [Shards -> Seq(Jobs)], Once(Q), NEW j \in Jobs, ~ In(Q, j),
         NEW s \in Shards, NEW R, Appended(Q, R, s, j)
  PROVE  /\ Once(R)
         /\ \A k \in Jobs : In(R, k) <=> In(Q, k) \/ k = j
<1> DEFINE n == Len(Q[s]) + 1
<1>1. /\ DOMAIN R[s] = DOMAIN Q[s] \cup {n} /\ n \notin DOMAIN Q[s]
      /\ \A i \in DOMAIN Q[s] : R[s][i] = Q[s][i]
      /\ R[s][n] = j
  BY DEF Appended
<1>2. \A u \in Shards : u # s => R[u] = Q[u]
  BY DEF Appended
<1> HIDE DEF n
<1>3. ASSUME NEW k \in Jobs PROVE In(R, k) <=> In(Q, k) \/ k = j
  <2>1. ASSUME In(R, k) PROVE In(Q, k) \/ k = j
    <3>1. PICK u \in Shards : \E i \in DOMAIN R[u] : R[u][i] = k
      BY <2>1 DEF In
    <3> QED BY <1>1, <1>2, <3>1 DEF In
  <2>2. ASSUME In(Q, k) PROVE In(R, k)
    <3>1. PICK u \in Shards : \E i \in DOMAIN Q[u] : Q[u][i] = k
      BY <2>2 DEF In
    <3> QED BY <1>1, <1>2, <3>1 DEF In
  <2>3. ASSUME k = j PROVE In(R, k)
    BY <1>1, <2>3 DEF In
  <2> QED BY <2>1, <2>2, <2>3
<1>4. Once(R)
  <2> SUFFICES ASSUME NEW a \in Shards, NEW b \in Shards,
                      NEW i \in DOMAIN R[a], NEW k \in DOMAIN R[b], R[a][i] = R[b][k]
               PROVE  a = b /\ i = k
    BY DEF Once
  <2>1. (i \in DOMAIN Q[a] /\ R[a][i] = Q[a][i]) \/ (a = s /\ i = n)
    BY <1>1, <1>2
  <2>2. (k \in DOMAIN Q[b] /\ R[b][k] = Q[b][k]) \/ (b = s /\ k = n)
    BY <1>1, <1>2
  <2> QED BY <1>1, <2>1, <2>2 DEF Once, In
<1> QED BY <1>3, <1>4

\* A dequeue takes the head of one shard, which then is in no queue.
LEMMA DequeueOnce ==
  ASSUME NEW Q \in [Shards -> Seq(Jobs)], Once(Q), NEW s \in Shards, Q[s] # << >>,
         NEW R, Shortened(Q, R, s)
  PROVE  /\ Once(R)
         /\ Head(Q[s]) \in Jobs /\ In(Q, Head(Q[s])) /\ ~ In(R, Head(Q[s]))
         /\ \A k \in Jobs : In(R, k) <=> In(Q, k) /\ k # Head(Q[s])
<1>1. /\ \A i \in DOMAIN R[s] : /\ i + 1 \in DOMAIN Q[s] /\ i + 1 # 1
                                /\ R[s][i] = Q[s][i + 1]
      /\ \A i \in DOMAIN Q[s] : i # 1 => /\ i - 1 \in DOMAIN R[s]
                                         /\ R[s][i - 1] = Q[s][i]
      /\ \A i, k \in DOMAIN R[s] : i + 1 = k + 1 => i = k
  BY DEF Shortened
<1>2. Head(Q[s]) = Q[s][1] /\ Head(Q[s]) \in Jobs /\ 1 \in DOMAIN Q[s]
  OBVIOUS
<1>3. \A u \in Shards : u # s => R[u] = Q[u]
  BY DEF Shortened
<1>4. In(Q, Head(Q[s]))
  BY <1>2 DEF In
<1>5. ASSUME NEW k \in Jobs PROVE In(R, k) <=> In(Q, k) /\ k # Head(Q[s])
  <2>1. ASSUME In(R, k) PROVE In(Q, k) /\ k # Head(Q[s])
    <3>1. PICK u \in Shards : \E i \in DOMAIN R[u] : R[u][i] = k
      BY <2>1 DEF In
    <3>2. PICK i \in DOMAIN R[u] : R[u][i] = k
      BY <3>1
    <3>3. CASE u = s
      <4>1. i + 1 \in DOMAIN Q[s] /\ Q[s][i + 1] = k /\ i + 1 # 1
        BY <1>1, <3>2, <3>3
      <4>2. k # Q[s][1]
        BY <1>2, <4>1 DEF Once
      <4> QED BY <1>2, <4>1, <4>2 DEF In
    <3>4. CASE u # s
      <4>1. i \in DOMAIN Q[u] /\ Q[u][i] = k
        BY <1>3, <3>2, <3>4
      <4> QED BY <1>2, <3>4, <4>1 DEF In, Once
    <3> QED BY <3>3, <3>4
  <2>2. ASSUME In(Q, k), k # Head(Q[s]) PROVE In(R, k)
    <3>1. PICK u \in Shards : \E i \in DOMAIN Q[u] : Q[u][i] = k
      BY <2>2 DEF In
    <3>2. PICK i \in DOMAIN Q[u] : Q[u][i] = k
      BY <3>1
    <3> QED BY <1>1, <1>2, <1>3, <2>2, <3>2 DEF In
  <2> QED BY <2>1, <2>2
<1>6. Once(R)
  <2> SUFFICES ASSUME NEW a \in Shards, NEW b \in Shards,
                      NEW i \in DOMAIN R[a], NEW k \in DOMAIN R[b], R[a][i] = R[b][k]
               PROVE  a = b /\ i = k
    BY DEF Once
  <2> DEFINE at(u, p) == IF u = s THEN p + 1 ELSE p
  <2>1. at(a, i) \in DOMAIN Q[a] /\ Q[a][at(a, i)] = R[a][i]
    BY <1>1, <1>3
  <2>2. at(b, k) \in DOMAIN Q[b] /\ Q[b][at(b, k)] = R[b][k]
    BY <1>1, <1>3
  <2>3. a = b /\ at(a, i) = at(b, k)
    <3> HIDE DEF at
    <3> QED BY <2>1, <2>2 DEF Once
  <2> QED BY <1>1, <2>3
<1> QED BY <1>2, <1>4, <1>5, <1>6

\* A dequeue visits every shard, from whichever it starts.
LEMMA VisitShards ==
  ASSUME NEW from \in Shards
  PROVE  Visit(from) \in Seq(Shards) /\ Visit(from) # << >>
<1>1. \A i \in 1 .. NumShards : (from + i - 1) % NumShards \in Shards
  BY DEF Shards
<1>2. Visit(from) \in [1 .. NumShards -> Shards]
  BY <1>1 DEF Visit
<1>3. Visit(from) \in Seq(Shards) /\ Len(Visit(from)) = NumShards
  BY <1>2
<1> QED BY <1>3

-----------------------------------------------------------------------------
(* Counting and the reference counter *)

\* The size of a part of a finite set, and how one element changes it.
LEMMA PartCount ==
  ASSUME NEW D, IsFiniteSet(D), NEW A \in SUBSET D
  PROVE  /\ Cardinality(A) \in 0 .. Cardinality(D)
         /\ \A x : x \notin A => Cardinality(A \cup {x}) = Cardinality(A) + 1
         /\ \A x \in A : Cardinality(A \ {x}) = Cardinality(A) - 1
         /\ Cardinality(A) = 0 <=> A = {}
<1>1. IsFiniteSet(A) /\ Cardinality(A) <= Cardinality(D)
  BY FS_Subset
<1>2. Cardinality(A) \in Nat /\ Cardinality(D) \in Nat
  BY <1>1, FS_CardinalityType
<1>3. \A x : x \notin A => Cardinality(A \cup {x}) = Cardinality(A) + 1
  BY <1>1, FS_AddElement
<1>4. \A x \in A : Cardinality(A \ {x}) = Cardinality(A) - 1
  BY <1>1, FS_RemoveElement
<1>5. Cardinality(A) = 0 <=> A = {}
  BY <1>1, FS_EmptySet
<1> QED BY <1>1, <1>2, <1>3, <1>4, <1>5

\* The sets that the pool counts have the sizes the type invariant allows.
LEMMA CountsTyped ==
  /\ Cardinality(Unexecuted) \in 0 .. Cardinality(Jobs)
  /\ Cardinality(Enqueued) \in 0 .. Cardinality(Jobs)
  /\ Cardinality(Asleep) \in 0 .. Cardinality(Workers)
  /\ Cardinality(Unexecuted') \in 0 .. Cardinality(Jobs)
  /\ Cardinality(Enqueued') \in 0 .. Cardinality(Jobs)
  /\ Cardinality(Asleep') \in 0 .. Cardinality(Workers)
<1>1. Unexecuted \in SUBSET Jobs /\ Enqueued \in SUBSET Jobs /\ Asleep \in SUBSET Workers
  BY DEF Unexecuted, Enqueued, Asleep
<1>2. Unexecuted' \in SUBSET Jobs /\ Enqueued' \in SUBSET Jobs /\ Asleep' \in SUBSET Workers
  BY DEF Unexecuted, Enqueued, Asleep
<1> QED BY <1>1, <1>2, PartCount

\* What each operation on the counter makes of the three values.
LEMMA RefSteps ==
  /\ Yield(NewRef) = Sent /\ Reference(Sent) = NewRef /\ WorkDestroy(NewRef) = Gone
  /\ WorkDestroy(WorkDestroy(Sent)) = Gone
  /\ NewRef # Sent /\ NewRef # Gone /\ Sent # Gone
<1>1. Yield(NewRef) = Sent /\ Reference(Sent) = NewRef
  BY DEF Yield, NewRef, Sent, Reference
<1>2. Dereference(NewRef) = [count |-> 0, yield |-> 0, freed |-> 0]
  BY DEF Dereference, NewRef
<1>3. WorkDestroy(NewRef) = Gone
  BY <1>2 DEF WorkDestroy, Gone
<1>4. Dereference(Sent) = NewRef
  BY DEF Dereference, NewRef, Sent
<1>5. WorkDestroy(Sent) = NewRef
  BY <1>4 DEF WorkDestroy, NewRef
<1>6. NewRef # Sent /\ NewRef # Gone /\ Sent # Gone
  BY DEF NewRef, Sent, Gone
<1> QED BY <1>1, <1>3, <1>5, <1>6

\* The type invariant's part on the counters follows from the three values.
LEMMA RefTyped ==
  ASSUME NEW r \in {NewRef, Sent, Gone}
  PROVE  /\ r.count \in 0 .. 2 /\ r.yield \in 0 .. 1 /\ r.freed \in 0 .. 1
         /\ r.freed = 1 <=> r = Gone
  BY DEF NewRef, Sent, Gone

\* So does its part on the promises.
LEMMA FiredTyped ==
  ASSUME NEW f \in Promises
  PROVE  f \in Seq({"result", "error"}) /\ Len(f) <= 1
<1>1. CASE f = << >>
  BY <1>1
<1>2. CASE f = <<"result">>
  BY <1>2
<1>3. CASE f = <<"error">>
  BY <1>3
<1> QED BY <1>1, <1>2, <1>3 DEF Promises

\* A promise that is settled stays settled as it was.
LEMMA SettleOnce ==
  ASSUME NEW f \in [Jobs -> Promises], NEW j \in Jobs,
         NEW how \in {"result", "error"}
  PROVE  /\ Settle(f, j, how) \in [Jobs -> Promises]
         /\ Settle(f, j, how)[j] # << >>
         /\ \A k \in Jobs : f[k] # << >> => Settle(f, j, how)[k] # << >>
  BY DEF Settle, Promises

-----------------------------------------------------------------------------
(* The initial state *)

\* Everyone is past the barrier, and no job has been submitted.
LEMMA InitIInv == Init => IInv
<1> SUFFICES ASSUME Init PROVE IInv
  OBVIOUS
<1>1. Unexecuted = Jobs /\ Enqueued = {} /\ Asleep = {}
  BY DEF Init, Unexecuted, Enqueued, Asleep, Accepted
<1>2. Counted /\ IdleCounted
  BY <1>1, FS_EmptySet DEF Init, Counted, IdleCounted
<1>3. 0 \in Shards
  BY DEF Shards
<1>4. Types
  <2>1. scan \in [Workers -> Seq(Shards)]
    BY <1>3, VisitShards DEF Init
  <2>2. queues \in [Shards -> Seq(Jobs)] /\ kind \in [Jobs -> Kinds]
    BY DEF Init
  <2> QED BY <2>1, <2>2 DEF Init, Types, Promises
<1>5. LockHeld /\ ScanLeft
  BY <1>3, VisitShards DEF Init, LockHeld, Locked, ScanLeft
<1>6. Once(queues) /\ \A j \in Jobs : ~ In(queues, j)
  BY DEF Init, Once, In
<1>7. QueuedWaits /\ HandsFull /\ HandsApart /\ AcceptedKept
  BY <1>6 DEF Init, QueuedWaits, HandsFull, HandFull, HandsApart, AcceptedKept, Accepted
<1>8. NotYetSent /\ ExecutedSettled /\ Closing /\ EarlyEnqueued /\ JoinComplete
  BY DEF Init, NotYetSent, ExecutedSettled, Closing, EarlyEnqueued, JoinComplete
<1> QED BY <1>2, <1>4, <1>5, <1>6, <1>7, <1>8 DEF IInv

-----------------------------------------------------------------------------
(* The submitters *)

\* Without a pool the caller runs the operation, or gets an error.
LEMMA SyncIInv ==
  ASSUME IInv, NEW j \in Jobs, SyncOp(j) \/ SyncRaw(j)
  PROVE  IInv'
<1> USE DEF IInv
<1>1. /\ spc[j] = "new" /\ spc' = [spc EXCEPT ![j] = "refused"]
      /\ UNCHANGED <<kind, sync_only, dead, stop, lock, idleCount, sleeping, queues, next,
                     wpc, scan, hand, early, ref, joiner, closer, idler>>
      /\ fate[j] = "none" /\ fate' \in {fate, [fate EXCEPT ![j] = "executed"]}
  BY DEF SyncOp, SyncRaw, config, queueVars, workerVars, waiterVars, NotYetSent
<1>2. /\ fired' \in [Jobs -> Promises]
      /\ \A k \in Jobs : fired[k] # << >> => fired'[k] # << >>
      /\ fired'[j] # << >>
  <2>1. fired \in [Jobs -> Promises]
    BY DEF Types
  <2>2. fired' = Settle(fired, j, "result") \/ fired' = Settle(fired, j, "error")
    BY DEF SyncOp, SyncRaw
  <2> HIDE DEF IInv
  <2> QED BY <2>1, <2>2, SettleOnce
<1>3. ~ In(queues, j) /\ \A w \in Workers : hand[w] # j
  BY <1>1 DEF QueuedWaits, HandsFull, HandFull, Accepted
<1>4. Types'
  BY <1>1, <1>2 DEF Types
<1>5. LockHeld' /\ IdleCounted' /\ ScanLeft' /\ Once(queues)' /\ HandsApart'
  BY <1>1 DEF LockHeld, IdleCounted, Asleep, ScanLeft, HandsApart
<1>6. QueuedWaits'
  BY <1>1, <1>3 DEF QueuedWaits, Types
<1>7. HandsFull'
  BY <1>1, <1>3 DEF HandsFull, HandFull, Types
<1>8. AcceptedKept' /\ NotYetSent'
  BY <1>1 DEF AcceptedKept, NotYetSent, Types, Accepted
<1>9. Counted'
  <2>1. Enqueued' = Enqueued
    BY <1>1 DEF Enqueued, Types, Accepted
  <2>2. CASE SyncOp(j)
    <3>1. Unexecuted' = Unexecuted \ {j} /\ j \in Unexecuted
      BY <1>1, <2>2 DEF SyncOp, Unexecuted, Types
    <3>2. Unexecuted \in SUBSET Jobs
      BY DEF Unexecuted
    <3>3. Cardinality(Unexecuted') = Cardinality(Unexecuted) - 1
      BY <3>1, <3>2, PartCount
    <3> QED BY <1>1, <2>1, <2>2, <3>3 DEF SyncOp, Counted
  <2>3. CASE SyncRaw(j)
    BY <1>1, <2>1, <2>3 DEF SyncRaw, jobVars, waiterVars, Counted, Unexecuted
  <2> QED BY <2>2, <2>3
<1>10. ExecutedSettled'
  BY <1>1, <1>2 DEF ExecutedSettled, Types
<1>11. Closing' /\ EarlyEnqueued' /\ JoinComplete'
  BY <1>1 DEF Closing, EarlyEnqueued, JoinComplete, Types
<1> QED BY <1>4, <1>5, <1>6, <1>7, <1>8, <1>9, <1>10, <1>11

\* A submission gives the job the yield, or refuses it.
LEMMA SubmitIInv ==
  ASSUME IInv, NEW j \in Jobs, NEW refused \in {Sent, Gone}, Submit(j, refused)
  PROVE  IInv'
<1> USE DEF IInv
<1>1. /\ spc[j] = "new" /\ fate[j] = "none"
      /\ UNCHANGED <<kind, sync_only, dead, stop, lock, idleCount, sleeping, queues, next,
                     wpc, scan, hand, early, fate, fired, pending, joiner, closer, idler>>
      /\ \/ spc' = [spc EXCEPT ![j] = "refused"] /\ ref' = [ref EXCEPT ![j] = refused]
         \/ spc' = [spc EXCEPT ![j] = "push"] /\ ref' = [ref EXCEPT ![j] = Sent]
  BY RefSteps DEF Submit, config, queueVars, workerVars, waiterVars, NotYetSent
<1>2. ~ In(queues, j) /\ \A w \in Workers : hand[w] # j
  BY <1>1 DEF QueuedWaits, HandsFull, HandFull, Accepted
<1>3. Types'
  <2>1. ref' \in [Jobs -> {NewRef, Sent, Gone}]
    BY <1>1 DEF Types
  <2>2. spc' \in [Jobs -> {"new", "push", "signal", "accepted", "refused"}]
    <3>1. spc \in [Jobs -> {"new", "push", "signal", "accepted", "refused"}]
      BY DEF Types
    <3> HIDE DEF IInv
    <3> QED BY <1>1, <3>1
  <2> QED BY <1>1, <2>1, <2>2 DEF Types
<1>4. LockHeld' /\ IdleCounted' /\ ScanLeft' /\ Once(queues)' /\ HandsApart'
  BY <1>1 DEF LockHeld, IdleCounted, Asleep, ScanLeft, HandsApart
<1>5. QueuedWaits'
  BY <1>1, <1>2 DEF QueuedWaits, Types
<1>6. HandsFull'
  BY <1>1, <1>2 DEF HandsFull, HandFull, Types
<1>7. AcceptedKept' /\ NotYetSent'
  <2>1. \A k \in Jobs \ {j} : spc'[k] = spc[k] /\ ref'[k] = ref[k]
    BY <1>1 DEF Types
  <2>2. spc'[j] = "refused" \/ (spc'[j] = "push" /\ ref'[j] = Sent)
    BY <1>1 DEF Types
  <2>3. AcceptedKept'
    BY <1>1, <2>1, <2>2 DEF AcceptedKept, Accepted
  <2>4. NotYetSent'
    BY <1>1, <2>1, <2>2 DEF NotYetSent
  <2> QED BY <2>3, <2>4
<1>8. Counted'
  <2>1. Enqueued' = Enqueued /\ Unexecuted' = Unexecuted
    BY <1>1 DEF Enqueued, Unexecuted, Types, Accepted
  <2> QED BY <1>1, <2>1 DEF Counted
<1>9. ExecutedSettled' /\ Closing' /\ JoinComplete'
  BY <1>1 DEF ExecutedSettled, Closing, JoinComplete
<1>10. EarlyEnqueued'
  BY <1>1 DEF EarlyEnqueued, Types
<1> QED BY <1>3, <1>4, <1>5, <1>6, <1>7, <1>8, <1>9, <1>10

\* The job goes to the tail of one queue.
LEMMA PushIInv ==
  ASSUME IInv, NEW j \in Jobs, Push(j)
  PROVE  IInv'
<1> USE DEF IInv
<1> DEFINE s == next % NumShards
<1>1. /\ spc[j] = "push" /\ spc' = [spc EXCEPT ![j] = "signal"] /\ closer # "closed"
      /\ queues' = [queues EXCEPT ![s] = Append(@, j)] /\ next' = next + 1
      /\ UNCHANGED <<kind, sync_only, dead, stop, lock, idleCount, sleeping, wpc, scan,
                     hand, early, ref, fate, fired, pending, joiner, closer, idler>>
      /\ ref[j] = Sent /\ fate[j] = "none"
  BY DEF Push, config, workerVars, waiterVars, NotYetSent
<1>2. s \in Shards
  <2>1. next \in Nat
    BY CountsTyped DEF Counted
  <2> QED BY <2>1 DEF Shards
<1> HIDE DEF s
<1>3. ~ In(queues, j) /\ \A w \in Workers : hand[w] # j
  BY <1>1 DEF QueuedWaits, HandsFull, HandFull, Accepted
<1>4. /\ queues' \in [Shards -> Seq(Jobs)] /\ Once(queues')
      /\ \A k \in Jobs : In(queues', k) <=> In(queues, k) \/ k = j
  <2>1. queues \in [Shards -> Seq(Jobs)] /\ Once(queues)
    BY DEF Types
  <2>2. Appended(queues, queues', s, j)
    BY <1>1, <1>2, <2>1 DEF Appended
  <2>3. queues' \in [Shards -> Seq(Jobs)]
    BY <2>2 DEF Appended
  <2> HIDE DEF IInv
  <2> QED BY <1>2, <1>3, <2>1, <2>2, <2>3, EnqueueOnce
<1>5. Types'
  BY <1>1, <1>4 DEF Types
<1>6. LockHeld' /\ IdleCounted' /\ ScanLeft' /\ HandsApart'
  BY <1>1 DEF LockHeld, IdleCounted, Asleep, ScanLeft, HandsApart
<1>7. QueuedWaits'
  BY <1>1, <1>3, <1>4, ZenonT(60) DEF QueuedWaits, Types, Accepted
<1>8. HandsFull'
  BY <1>1, <1>3 DEF HandsFull, HandFull, Types
<1>9. AcceptedKept' /\ NotYetSent'
  BY <1>1, <1>4 DEF AcceptedKept, NotYetSent, Types, Accepted
<1>10. Counted'
  <2>1. Unexecuted' = Unexecuted
    BY <1>1 DEF Unexecuted
  <2>2. Enqueued' = Enqueued \cup {j} /\ j \notin Enqueued /\ Enqueued \in SUBSET Jobs
    BY <1>1 DEF Enqueued, Types, Accepted
  <2>3. Cardinality(Enqueued') = Cardinality(Enqueued) + 1
    BY <2>2, PartCount
  <2> QED BY <1>1, <2>1, <2>3 DEF Counted
<1>11. ExecutedSettled' /\ JoinComplete'
  BY <1>1 DEF ExecutedSettled, JoinComplete
<1>12. Closing'
  BY <1>1 DEF Closing
<1>13. EarlyEnqueued'
  BY <1>1 DEF EarlyEnqueued, Types
<1> QED BY <1>4, <1>5, <1>6, <1>7, <1>8, <1>9, <1>10, <1>11, <1>12, <1>13

\* The signal wakes at most one sleeper.
LEMMA SignalIInv ==
  ASSUME IInv, NEW j \in Jobs, Signal(j)
  PROVE  IInv'
<1> USE DEF IInv
<1>1. /\ spc[j] = "signal" /\ spc' = [spc EXCEPT ![j] = "accepted"]
      /\ sleeping' \subseteq sleeping /\ early' \in {early, early \cup {j}}
      /\ UNCHANGED <<kind, sync_only, dead, stop, lock, idleCount, queues, next, wpc, scan,
                     hand, ref, fate, fired, pending, joiner, closer, idler>>
  BY DEF Signal, config, queueVars, workerVars, waiterVars
<1>2. Types'
  BY <1>1 DEF Types
<1>3. LockHeld' /\ IdleCounted' /\ ScanLeft' /\ Once(queues)' /\ HandsApart'
  BY <1>1 DEF LockHeld, IdleCounted, Asleep, ScanLeft, HandsApart
<1>4. \A k \in Jobs : spc'[k] \in Accepted <=> spc[k] \in Accepted
  BY <1>1 DEF Types, Accepted
<1>5. QueuedWaits' /\ AcceptedKept'
  BY <1>1, <1>4 DEF QueuedWaits, AcceptedKept
<1>6. HandsFull'
  BY <1>1, <1>4 DEF HandsFull, HandFull, Types
<1>7. NotYetSent' /\ EarlyEnqueued'
  BY <1>1 DEF NotYetSent, EarlyEnqueued, Types
<1>8. Counted'
  <2>1. Enqueued' = Enqueued /\ Unexecuted' = Unexecuted
    BY <1>1, <1>4 DEF Enqueued, Unexecuted
  <2> QED BY <1>1, <2>1 DEF Counted
<1>9. ExecutedSettled' /\ Closing' /\ JoinComplete'
  BY <1>1 DEF ExecutedSettled, Closing, JoinComplete
<1> QED BY <1>2, <1>3, <1>5, <1>6, <1>7, <1>8, <1>9

-----------------------------------------------------------------------------
(* The workers *)

\* A shard that has a job gives its head to the worker.
LEMMA DequeueHitIInv ==
  ASSUME IInv, NEW w \in Workers, Dequeue(w), queues[Head(scan[w])] # << >>
  PROVE  IInv'
<1> USE DEF IInv
<1> DEFINE s == Head(scan[w])
           j == Head(queues[s])
<1>1. /\ wpc[w] \in {"fast", "look", "retry"} /\ scan[w] # << >> /\ s \in Shards
      /\ scan[w] \in Seq(Shards)
  BY DEF Dequeue, ScanLeft, Types
<1>2. /\ hand' = [hand EXCEPT ![w] = j] /\ queues' = [queues EXCEPT ![s] = Tail(@)]
      /\ wpc' = [wpc EXCEPT ![w] = IF wpc[w] = "fast" THEN "run" ELSE "leave"]
      /\ scan' = [scan EXCEPT ![w] = << >>]
      /\ UNCHANGED <<kind, sync_only, dead, stop, lock, idleCount, sleeping, next, spc,
                     early, ref, fate, fired, pending, joiner, closer, idler>>
  <2>1. queues[s] # << >>
    OBVIOUS
  <2>2. wpc' = [wpc EXCEPT ![w] = AfterHit(wpc[w])]
    BY <2>1 DEF Dequeue
  <2>3. wpc' = [wpc EXCEPT ![w] = IF wpc[w] = "fast" THEN "run" ELSE "leave"]
    BY <2>2 DEF AfterHit
  <2>4. /\ hand' = [hand EXCEPT ![w] = j] /\ queues' = [queues EXCEPT ![s] = Tail(@)]
        /\ scan' = [scan EXCEPT ![w] = << >>]
    BY <2>1 DEF Dequeue
  <2> QED BY <2>3, <2>4 DEF Dequeue, config, jobVars, waiterVars
<1>3. /\ queues' \in [Shards -> Seq(Jobs)] /\ Once(queues')
      /\ j \in Jobs /\ In(queues, j) /\ ~ In(queues', j)
      /\ \A k \in Jobs : In(queues', k) <=> In(queues, k) /\ k # j
  <2>1. queues \in [Shards -> Seq(Jobs)] /\ Once(queues)
    BY DEF Types
  <2>2. queues[s] # << >>
    OBVIOUS
  <2> HIDE DEF s
  <2>3. Shortened(queues, queues', s)
    BY <1>1, <1>2, <2>1, <2>2 DEF Shortened
  <2>4. queues' \in [Shards -> Seq(Jobs)]
    BY <2>3 DEF Shortened
  <2> HIDE DEF IInv
  <2>5. /\ Once(queues') /\ Head(queues[s]) \in Jobs
        /\ In(queues, Head(queues[s])) /\ ~ In(queues', Head(queues[s]))
        /\ \A k \in Jobs : In(queues', k) <=> In(queues, k) /\ k # Head(queues[s])
    BY <1>1, <2>1, <2>2, <2>3, DequeueOnce, Zenon
  <2> QED BY <2>4, <2>5
<1> HIDE DEF s, j
<1>4. /\ spc[j] \in Accepted /\ ref[j] = Sent /\ fate[j] = "none"
      /\ \A v \in Workers : hand[v] # j
  BY <1>3 DEF QueuedWaits
<1>5. hand[w] = Free
  BY <1>1 DEF HandsFull, HandFull
<1>6. Types'
  <2>1. scan' \in [Workers -> Seq(Shards)]
    BY <1>2 DEF Types
  <2>2. wpc' \in [Workers -> {"fast", "look", "retry", "lock", "decide", "asleep",
                          "leave", "run", "notify", "exited"}]
    BY <1>2 DEF Types
  <2>3. hand' \in [Workers -> Jobs \cup {Free}]
    BY <1>2, <1>3 DEF Types
  <2> QED BY <1>2, <1>3, <2>1, <2>2, <2>3 DEF Types
<1>7. LockHeld'
  BY <1>1, <1>2 DEF LockHeld, Locked, Types
<1>8. IdleCounted'
  <2>1. Asleep' = Asleep
    BY <1>1, <1>2 DEF Asleep, Types
  <2> QED BY <1>2, <2>1 DEF IdleCounted
<1>9. ScanLeft'
  BY <1>2 DEF ScanLeft, Types
<1>10. QueuedWaits'
  <2>1. \A v \in Workers : hand'[v] = j \/ hand'[v] = hand[v]
    BY <1>2 DEF Types
  <2>2. ASSUME NEW k \in Jobs, In(queues', k)
        PROVE  /\ spc[k] \in Accepted /\ ref[k] = Sent /\ fate[k] = "none"
               /\ \A v \in Workers : hand'[v] # k
    BY <1>3, <2>1, <2>2 DEF QueuedWaits
  <2> QED BY <1>2, <2>2 DEF QueuedWaits
<1>11. HandsFull'
  <2>1. \A v \in Workers : v # w => hand'[v] = hand[v] /\ wpc'[v] = wpc[v]
    BY <1>2 DEF Types
  <2>2. hand'[w] = j /\ wpc'[w] \in {"leave", "run"}
    BY <1>2 DEF Types
  <2>3. j # Free
    BY <1>3
  <2> SUFFICES ASSUME NEW v \in Workers PROVE HandFull(v)'
    BY DEF HandsFull
  <2>4. CASE v = w
    BY <1>2, <1>4, <2>2, <2>3, <2>4 DEF HandFull
  <2>5. CASE v # w
    BY <1>2, <2>1, <2>5 DEF HandsFull, HandFull
  <2> QED BY <2>4, <2>5
<1>12. HandsApart'
  BY <1>2, <1>4 DEF HandsApart, Types
<1>13. AcceptedKept'
  <2>1. ASSUME NEW k \in Jobs, spc[k] \in Accepted
        PROVE  \/ In(queues', k) \/ \E v \in Workers : hand'[v] = k
               \/ ref[k] = Gone /\ fate[k] # "none"
    <3>1. CASE k = j
      BY <1>2, <3>1 DEF Types
    <3>2. CASE k # j
      <4>1. \A v \in Workers : hand[v] = k => hand'[v] = k
        BY <1>2, <1>5, <3>2 DEF Types
      <4> QED BY <1>3, <2>1, <3>2, <4>1 DEF AcceptedKept
    <3> QED BY <3>1, <3>2
  <2> QED BY <1>2, <2>1 DEF AcceptedKept
<1>14. NotYetSent' /\ ExecutedSettled' /\ EarlyEnqueued' /\ JoinComplete'
  BY <1>2 DEF NotYetSent, ExecutedSettled, EarlyEnqueued, JoinComplete
<1>15. Counted'
  BY <1>2 DEF Counted, Unexecuted, Enqueued
<1>16. Closing'
  BY <1>1, <1>2 DEF Closing
<1> QED BY <1>3, <1>6, <1>7, <1>8, <1>9, <1>10, <1>11, <1>12, <1>13, <1>14, <1>15, <1>16

\* What the steps of a worker that leave the jobs alone preserve.
LEMMA WorkerMovesIInv ==
  ASSUME IInv, NEW w \in Workers, hand[w] = Free,
         NEW to \in {"fast", "look", "retry", "lock", "decide", "asleep", "leave", "exited"},
         wpc' = [wpc EXCEPT ![w] = to], wpc[w] # "exited",
         UNCHANGED <<kind, sync_only, dead, stop, queues, next, hand, spc, early, ref,
                     fate, fired, pending, joiner, closer>>,
         Types', LockHeld', IdleCounted', ScanLeft'
  PROVE  IInv'
<1> USE DEF IInv
<1>1. Once(queues)' /\ QueuedWaits' /\ HandsApart'
  BY DEF QueuedWaits, HandsApart
<1>2. HandsFull'
  BY DEF HandsFull, HandFull, Types
<1>3. AcceptedKept' /\ NotYetSent' /\ ExecutedSettled' /\ EarlyEnqueued' /\ JoinComplete'
  BY DEF AcceptedKept, NotYetSent, ExecutedSettled, EarlyEnqueued, JoinComplete
<1>4. Counted'
  BY DEF Counted, Unexecuted, Enqueued
<1>5. Closing'
  BY DEF Closing
<1> QED BY <1>1, <1>2, <1>3, <1>4, <1>5

\* An empty shard sends the worker to the next one, or out of the dequeue.
LEMMA DequeueMissIInv ==
  ASSUME IInv, NEW w \in Workers, Dequeue(w), queues[Head(scan[w])] = << >>
  PROVE  IInv'
<1> USE DEF IInv
<1>1. /\ wpc[w] \in {"fast", "look", "retry"} /\ scan[w] # << >> /\ scan[w] \in Seq(Shards)
      /\ hand[w] = Free
  BY DEF Dequeue, ScanLeft, Types, HandsFull, HandFull
<1>2. /\ scan' = [scan EXCEPT ![w] = Tail(@)]
      /\ wpc' = IF Len(scan[w]) = 1 THEN [wpc EXCEPT ![w] = AfterMiss(wpc[w])] ELSE wpc
      /\ UNCHANGED <<kind, sync_only, dead, stop, lock, idleCount, sleeping, queues, next,
                     hand, spc, early, ref, fate, fired, pending, joiner, closer>>
  BY DEF Dequeue, config, jobVars, waiterVars
<1>3. PICK to \in {"fast", "look", "retry", "lock", "decide", "leave"} :
        /\ wpc' = [wpc EXCEPT ![w] = to]
        /\ to \in Locked <=> wpc[w] \in Locked
        /\ to \in {"fast", "look", "retry"} => Len(scan[w]) # 1
  <2>1. CASE Len(scan[w]) = 1
    <3>1. /\ AfterMiss(wpc[w]) \in {"lock", "decide", "leave"}
          /\ AfterMiss(wpc[w]) \in Locked <=> wpc[w] \in Locked
      BY <1>1 DEF AfterMiss, Locked
    <3> QED BY <1>2, <2>1, <3>1
  <2>2. CASE Len(scan[w]) # 1
    <3>1. wpc' = [wpc EXCEPT ![w] = wpc[w]]
      BY <1>2, <2>2 DEF Types
    <3> QED BY <1>1, <2>2, <3>1
  <2> QED BY <2>1, <2>2
<1>4. Types'
  <2>1. scan' \in [Workers -> Seq(Shards)]
    BY <1>1, <1>2 DEF Types
  <2>2. wpc' \in [Workers -> {"fast", "look", "retry", "lock", "decide", "asleep",
                          "leave", "run", "notify", "exited"}]
    BY <1>3 DEF Types
  <2> QED BY <1>2, <2>1, <2>2 DEF Types
<1>5. LockHeld'
  BY <1>2, <1>3 DEF LockHeld, Types
<1>6. IdleCounted'
  <2>1. Asleep' = Asleep
    BY <1>1, <1>3 DEF Asleep, Types
  <2> QED BY <1>2, <2>1 DEF IdleCounted
<1>7. ScanLeft'
  <2>1. Len(scan[w]) # 1 => scan'[w] # << >>
    <3>1. scan'[w] = Tail(scan[w])
      BY <1>2 DEF Types
    <3>2. Len(scan[w]) # 1 => Len(Tail(scan[w])) # 0
      BY <1>1
    <3>3. Len(<< >>) = 0
      OBVIOUS
    <3> QED BY <3>1, <3>2, <3>3
  <2>2. \A v \in Workers : v # w => scan'[v] = scan[v] /\ wpc'[v] = wpc[v]
    BY <1>2, <1>3 DEF Types
  <2>3. wpc'[w] = to
    BY <1>3 DEF Types
  <2> QED BY <1>3, <2>1, <2>2, <2>3 DEF ScanLeft
<1> QED BY <1>1, <1>2, <1>3, <1>4, <1>5, <1>6, <1>7, WorkerMovesIInv

\* A dequeue begins with every shard to visit.
LEMMA BeginScanLeft ==
  ASSUME IInv, NEW w \in Workers, NEW at \in {"fast", "look", "retry"}, BeginScan(w, at)
  PROVE  /\ wpc' = [wpc EXCEPT ![w] = at]
         /\ scan' \in [Workers -> Seq(Shards)] /\ ScanLeft'
<1>1. PICK from \in Shards : scan' = [scan EXCEPT ![w] = Visit(from)]
  BY DEF BeginScan
<1>2. Visit(from) \in Seq(Shards) /\ Visit(from) # << >>
  BY VisitShards
<1>3. wpc' = [wpc EXCEPT ![w] = at]
  BY DEF BeginScan
<1>4. scan \in [Workers -> Seq(Shards)] /\ ScanLeft
  BY DEF IInv, Types
<1>5. \A v \in Workers : v # w => scan'[v] = scan[v] /\ wpc'[v] = wpc[v]
  BY <1>1, <1>3, <1>4 DEF IInv, Types
<1>6. scan'[w] # << >>
  BY <1>1, <1>2, <1>4
<1> QED BY <1>1, <1>2, <1>3, <1>4, <1>5, <1>6 DEF ScanLeft

\* The pool's lock goes to one worker at a time.
LEMMA TakeLockIInv ==
  ASSUME IInv, NEW w \in Workers, TakeLock(w)
  PROVE  IInv'
<1> USE DEF IInv
<1>1. /\ wpc[w] = "lock" /\ lock = Free /\ lock' = w /\ hand[w] = Free
      /\ UNCHANGED <<kind, sync_only, dead, stop, idleCount, sleeping, queues, next, hand,
                     spc, early, ref, fate, fired, pending, joiner, closer>>
  BY DEF TakeLock, config, queueVars, jobVars, waiterVars, HandsFull, HandFull
<1>2. wpc' = [wpc EXCEPT ![w] = "look"] /\ scan' \in [Workers -> Seq(Shards)] /\ ScanLeft'
  BY BeginScanLeft DEF TakeLock
<1>3. Types'
  BY <1>1, <1>2 DEF Types
<1>4. LockHeld'
  BY <1>1, <1>2 DEF LockHeld, Locked, Types
<1>5. IdleCounted'
  <2>1. Asleep' = Asleep
    BY <1>1, <1>2 DEF Asleep, Types
  <2> QED BY <1>1, <2>1 DEF IdleCounted
<1> QED BY <1>1, <1>2, <1>3, <1>4, <1>5, WorkerMovesIInv

\* A worker counts itself idle in the step in which it goes to sleep.
LEMMA DecideIInv ==
  ASSUME IInv, NEW w \in Workers, Decide(w)
  PROVE  IInv'
<1> USE DEF IInv
<1>1. /\ wpc[w] = "decide" /\ hand[w] = Free
      /\ UNCHANGED <<kind, sync_only, dead, stop, queues, next, scan, hand,
                     spc, early, ref, fate, fired, pending, joiner, closer>>
  BY DEF Decide, config, queueVars, jobVars, HandsFull, HandFull
<1>2. lock = w
  BY <1>1 DEF LockHeld, Locked
<1>3. CASE stop
  <2>1. wpc' = [wpc EXCEPT ![w] = "leave"] /\ UNCHANGED <<lock, idleCount, sleeping>>
    BY <1>3 DEF Decide
  <2>2. Types' /\ LockHeld' /\ ScanLeft'
    BY <1>1, <2>1 DEF Types, LockHeld, Locked, ScanLeft
  <2>3. IdleCounted'
    <3>1. Asleep' = Asleep
      BY <1>1, <2>1 DEF Asleep, Types
    <3> QED BY <2>1, <3>1 DEF IdleCounted
  <2> QED BY <1>1, <2>1, <2>2, <2>3, WorkerMovesIInv
<1>4. CASE ~ stop
  <2>1. /\ wpc' = [wpc EXCEPT ![w] = "asleep"] /\ lock' = Free
        /\ idleCount' = idleCount + 1 /\ sleeping' = sleeping \cup {w}
    BY <1>4 DEF Decide
  <2>2. Types' /\ LockHeld' /\ ScanLeft'
    BY <1>1, <1>2, <2>1 DEF Types, LockHeld, Locked, ScanLeft
  <2>3. IdleCounted'
    <3>1. Asleep' = Asleep \cup {w} /\ w \notin Asleep /\ Asleep \in SUBSET Workers
      BY <1>1, <2>1 DEF Asleep, Types
    <3>2. Cardinality(Asleep') = Cardinality(Asleep) + 1
      BY <3>1, PartCount
    <3> QED BY <2>1, <3>2 DEF IdleCounted
  <2> QED BY <1>1, <2>1, <2>2, <2>3, WorkerMovesIInv
<1> QED BY <1>3, <1>4

\* A woken worker takes the lock and itself out of the idle ones.
LEMMA WakeUpIInv ==
  ASSUME IInv, NEW w \in Workers, WakeUp(w)
  PROVE  IInv'
<1> USE DEF IInv
<1>1. /\ wpc[w] = "asleep" /\ lock = Free /\ lock' = w /\ hand[w] = Free
      /\ idleCount' = idleCount - 1
      /\ UNCHANGED <<kind, sync_only, dead, stop, sleeping, queues, next, hand,
                     spc, early, ref, fate, fired, pending, joiner, closer>>
  BY DEF WakeUp, config, queueVars, jobVars, waiterVars, HandsFull, HandFull
<1>2. wpc' = [wpc EXCEPT ![w] = "retry"] /\ scan' \in [Workers -> Seq(Shards)] /\ ScanLeft'
  BY BeginScanLeft DEF WakeUp
<1>3. Types'
  BY <1>1, <1>2 DEF Types
<1>4. LockHeld'
  BY <1>1, <1>2 DEF LockHeld, Locked, Types
<1>5. IdleCounted'
  <2>1. Asleep' = Asleep \ {w} /\ w \in Asleep /\ Asleep \in SUBSET Workers
    BY <1>1, <1>2 DEF Asleep, Types
  <2>2. Cardinality(Asleep') = Cardinality(Asleep) - 1
    BY <2>1, PartCount
  <2> QED BY <1>1, <2>2 DEF IdleCounted
<1> QED BY <1>1, <1>2, <1>3, <1>4, <1>5, WorkerMovesIInv

\* The lock is released; a worker with a job goes to run it.
LEMMA LeaveIInv ==
  ASSUME IInv, NEW w \in Workers, Leave(w)
  PROVE  IInv'
<1> USE DEF IInv
<1>1. /\ wpc[w] = "leave" /\ lock' = Free
      /\ UNCHANGED <<kind, sync_only, dead, stop, idleCount, sleeping, queues, next, hand,
                     spc, early, ref, fate, fired, pending, joiner, closer>>
  BY DEF Leave, config, queueVars, jobVars, waiterVars
<1>2. lock = w
  BY <1>1 DEF LockHeld, Locked
<1>3. PICK to \in {"run", "exited", "fast"} :
        /\ wpc' = [wpc EXCEPT ![w] = to] /\ (to = "run" <=> hand[w] # Free)
        /\ scan' \in [Workers -> Seq(Shards)] /\ ScanLeft'
  <2>1. CASE hand[w] # Free
    <3>1. wpc' = [wpc EXCEPT ![w] = "run"] /\ scan' = scan
      BY <2>1 DEF Leave
    <3> QED BY <2>1, <3>1 DEF ScanLeft, Types
  <2>2. CASE hand[w] = Free /\ stop
    <3>1. wpc' = [wpc EXCEPT ![w] = "exited"] /\ scan' = scan
      BY <2>2 DEF Leave
    <3> QED BY <2>2, <3>1 DEF ScanLeft, Types
  <2>3. CASE hand[w] = Free /\ ~ stop
    <3>1. BeginScan(w, "fast")
      BY <2>3 DEF Leave
    <3> QED BY <2>3, <3>1, BeginScanLeft
  <2> QED BY <2>1, <2>2, <2>3
<1>4. Types'
  BY <1>1, <1>3 DEF Types
<1>5. LockHeld'
  BY <1>1, <1>2, <1>3 DEF LockHeld, Locked, Types
<1>6. IdleCounted'
  <2>1. Asleep' = Asleep
    BY <1>1, <1>3 DEF Asleep, Types
  <2> QED BY <1>1, <2>1 DEF IdleCounted
<1>7. CASE hand[w] = Free
  BY <1>1, <1>3, <1>4, <1>5, <1>6, <1>7, WorkerMovesIInv
<1>8. CASE hand[w] # Free
  <2>1. wpc' = [wpc EXCEPT ![w] = "run"]
    BY <1>3, <1>8
  <2>2. Once(queues)' /\ QueuedWaits' /\ HandsApart'
    BY <1>1 DEF QueuedWaits, HandsApart
  <2>3. HandsFull'
    BY <1>1, <1>8, <2>1 DEF HandsFull, HandFull, Types
  <2>4. AcceptedKept' /\ NotYetSent' /\ ExecutedSettled' /\ EarlyEnqueued' /\ JoinComplete'
    BY <1>1 DEF AcceptedKept, NotYetSent, ExecutedSettled, EarlyEnqueued, JoinComplete
  <2>5. Counted'
    BY <1>1 DEF Counted, Unexecuted, Enqueued
  <2>6. Closing'
    BY <1>1, <2>1 DEF Closing
  <2> QED BY <1>3, <1>4, <1>5, <1>6, <2>2, <2>3, <2>4, <2>5, <2>6
<1> QED BY <1>7, <1>8

\* A job in a worker's hands is executed or aborted, once.
LEMMA RunIInv ==
  ASSUME IInv, NEW w \in Workers, Run(w)
  PROVE  IInv'
<1> USE DEF IInv
<1> DEFINE j == hand[w]
<1>1. /\ wpc[w] = "run" /\ j \in Jobs /\ spc[j] \in Accepted
      /\ ref[j] = Sent /\ fate[j] = "none"
  BY DEF Run, HandsFull, HandFull, Types
<1>2. /\ wpc' = [wpc EXCEPT ![w] = "notify"]
      /\ UNCHANGED <<kind, sync_only, stop, lock, idleCount, sleeping, queues, next, scan,
                     hand, spc, early, joiner, closer>>
  BY DEF Run, config, queueVars
<1>3. ref' = [ref EXCEPT ![j] = NewRef]
  BY <1>1, RefSteps DEF Run
<1>4. /\ fate' = [fate EXCEPT ![j] = IF stop THEN "aborted" ELSE "executed"]
      /\ dead' \in BOOLEAN /\ pending' = IF stop THEN pending ELSE pending - 1
  <2>1. CASE stop
    BY <2>1 DEF Run, Abort
  <2>2. CASE ~ stop
    BY <2>2 DEF Run, Execute, Types
  <2> QED BY <2>1, <2>2
<1>5. /\ fired' \in [Jobs -> Promises]
      /\ \A k \in Jobs : fired[k] # << >> => fired'[k] # << >>
      /\ ~ stop /\ kind[j] # "evict" => fired'[j] # << >>
  <2>1. fired \in [Jobs -> Promises] /\ kind \in [Jobs -> Kinds]
    BY DEF Types
  <2>2. CASE stop
    BY <2>1, <2>2 DEF Run, Abort
  <2>3. CASE ~ stop
    <3>1. PICK how \in Outcomes(j) :
            fired' = IF how = "none" THEN fired ELSE Settle(fired, j, how)
      BY <2>3 DEF Run, Execute
    <3>2. how \in {"result", "error", "none"} /\ (kind[j] # "evict" => how # "none")
      BY <1>1, <2>1 DEF Outcomes, Kinds
    <3> QED BY <1>1, <2>1, <3>1, <3>2, SettleOnce
  <2> QED BY <2>2, <2>3
<1> HIDE DEF j
<1>6. ~ In(queues, j) /\ \A v \in Workers : v # w => hand[v] # j
  <2>1. hand[w] = j /\ j # Free
    BY <1>1 DEF j
  <2> QED BY <1>1, <2>1 DEF QueuedWaits, HandsApart
<1>7. Types'
  <2>1. ref' \in [Jobs -> {NewRef, Sent, Gone}]
    BY <1>3 DEF Types
  <2>2. fate' \in [Jobs -> {"none", "executed", "aborted"}]
    BY <1>4 DEF Types
  <2>3. wpc' \in [Workers -> {"fast", "look", "retry", "lock", "decide", "asleep",
                          "leave", "run", "notify", "exited"}]
    BY <1>2 DEF Types
  <2> QED BY <1>2, <1>4, <1>5, <2>1, <2>2, <2>3 DEF Types
<1>8. LockHeld' /\ ScanLeft'
  BY <1>1, <1>2 DEF LockHeld, Locked, ScanLeft, Types
<1>9. IdleCounted'
  <2>1. Asleep' = Asleep
    BY <1>1, <1>2 DEF Asleep, Types
  <2> QED BY <1>2, <2>1 DEF IdleCounted
<1>10. \A k \in Jobs : k # j => ref'[k] = ref[k] /\ fate'[k] = fate[k]
  BY <1>3, <1>4 DEF Types
<1>11. ref'[j] = NewRef /\ fate'[j] # "none" /\ (fate'[j] = "executed" => ~ stop)
  BY <1>1, <1>3, <1>4 DEF Types
<1>12. Once(queues)' /\ QueuedWaits' /\ HandsApart'
  BY <1>2, <1>6, <1>10 DEF QueuedWaits, HandsApart
<1>13. HandsFull'
  <2> SUFFICES ASSUME NEW v \in Workers PROVE HandFull(v)'
    BY DEF HandsFull
  <2>1. CASE v = w
    <3>1. wpc'[v] = "notify" /\ hand'[v] = j /\ j # Free
      BY <1>1, <1>2, <2>1 DEF Types, j
    <3> QED BY <1>1, <1>2, <1>11, <3>1 DEF HandFull
  <2>2. CASE v # w
    <3>1. wpc'[v] = wpc[v] /\ hand'[v] = hand[v] /\ hand[v] # j
      BY <1>2, <1>6, <2>2 DEF Types
    <3>2. hand[v] # Free => ref'[hand[v]] = ref[hand[v]] /\ fate'[hand[v]] = fate[hand[v]]
      BY <1>10, <3>1 DEF Types
    <3> QED BY <1>2, <3>1, <3>2 DEF HandsFull, HandFull
  <2> QED BY <2>1, <2>2
<1>14. AcceptedKept'
  <2>1. hand'[w] = j
    BY <1>2 DEF j
  <2> QED BY <1>2, <1>10, <2>1 DEF AcceptedKept
<1>15. NotYetSent'
  BY <1>1, <1>2, <1>10 DEF NotYetSent, Accepted
<1>16. Counted'
  <2>1. Enqueued' = Enqueued
    BY <1>2 DEF Enqueued
  <2>2. CASE stop
    <3>1. Unexecuted' = Unexecuted
      BY <1>1, <1>10, <1>11, <2>2 DEF Unexecuted
    <3> QED BY <1>2, <1>4, <2>1, <2>2, <3>1 DEF Counted
  <2>3. CASE ~ stop
    <3>1. fate'[j] = "executed"
      BY <1>1, <1>4, <2>3 DEF Types
    <3>2. Unexecuted' = Unexecuted \ {j} /\ j \in Unexecuted /\ Unexecuted \in SUBSET Jobs
      BY <1>1, <1>10, <3>1 DEF Unexecuted
    <3>3. Cardinality(Unexecuted') = Cardinality(Unexecuted) - 1
      BY <3>2, PartCount
    <3> QED BY <1>2, <1>4, <2>1, <2>3, <3>3 DEF Counted
  <2> QED BY <2>2, <2>3
<1>17. ExecutedSettled'
  BY <1>2, <1>5, <1>10, <1>11 DEF ExecutedSettled
<1>18. Closing' /\ EarlyEnqueued'
  BY <1>1, <1>2 DEF Closing, EarlyEnqueued
<1>19. JoinComplete'
  BY <1>1, <1>2, <1>10 DEF JoinComplete
<1> QED BY <1>7, <1>8, <1>9, <1>12, <1>13, <1>14, <1>15, <1>16, <1>17, <1>18, <1>19

\* The worker gives up its reference, the last one, and its hands are free.
LEMMA NotifyIInv ==
  ASSUME IInv, NEW w \in Workers, Notify(w)
  PROVE  IInv'
<1> USE DEF IInv
<1> DEFINE j == hand[w]
<1>1. /\ wpc[w] = "notify" /\ j \in Jobs /\ spc[j] \in Accepted
      /\ ref[j] = NewRef /\ fate[j] # "none"
  BY DEF Notify, HandsFull, HandFull, Types
<1>2. /\ hand' = [hand EXCEPT ![w] = Free] /\ joiner' \in {joiner, "woken"}
      /\ UNCHANGED <<kind, sync_only, dead, stop, lock, idleCount, sleeping, queues, next,
                     spc, early, fate, fired, pending, closer>>
  BY DEF Notify, config, queueVars
<1>3. ref' = [ref EXCEPT ![j] = Gone]
  BY <1>1, RefSteps DEF Notify
<1>4. wpc' = [wpc EXCEPT ![w] = "fast"] /\ scan' \in [Workers -> Seq(Shards)] /\ ScanLeft'
  BY BeginScanLeft DEF Notify
<1> HIDE DEF j
<1>5. ~ In(queues, j) /\ \A v \in Workers : v # w => hand[v] # j
  <2>1. hand[w] = j /\ j # Free
    BY <1>1 DEF j
  <2> QED BY <1>1, <2>1 DEF QueuedWaits, HandsApart
<1>6. Types'
  <2>1. ref' \in [Jobs -> {NewRef, Sent, Gone}]
    BY <1>3 DEF Types
  <2>2. hand' \in [Workers -> Jobs \cup {Free}]
    BY <1>2 DEF Types
  <2>3. wpc' \in [Workers -> {"fast", "look", "retry", "lock", "decide", "asleep",
                          "leave", "run", "notify", "exited"}]
    BY <1>4 DEF Types
  <2> QED BY <1>2, <1>4, <2>1, <2>2, <2>3 DEF Types
<1>7. LockHeld'
  BY <1>1, <1>2, <1>4 DEF LockHeld, Locked, Types
<1>8. IdleCounted'
  <2>1. Asleep' = Asleep
    BY <1>1, <1>4 DEF Asleep, Types
  <2> QED BY <1>2, <2>1 DEF IdleCounted
<1>9. (\A k \in Jobs : k # j => ref'[k] = ref[k]) /\ ref'[j] = Gone
  BY <1>1, <1>3 DEF Types
<1>10. (\A v \in Workers : v # w => hand'[v] = hand[v]) /\ hand'[w] = Free
  BY <1>2 DEF Types
<1>11. Once(queues)' /\ QueuedWaits'
  BY <1>2, <1>5, <1>9, <1>10 DEF QueuedWaits
<1>12. HandsApart'
  BY <1>10 DEF HandsApart
<1>13. HandsFull'
  <2> SUFFICES ASSUME NEW v \in Workers PROVE HandFull(v)'
    BY DEF HandsFull
  <2>1. CASE v = w
    <3>1. wpc'[v] = "fast"
      BY <1>4, <2>1 DEF Types
    <3> QED BY <1>10, <2>1, <3>1 DEF HandFull
  <2>2. CASE v # w
    <3>1. wpc'[v] = wpc[v] /\ hand'[v] = hand[v] /\ hand[v] # j
      BY <1>4, <1>5, <1>10, <2>2 DEF Types
    <3>2. hand[v] # Free => ref'[hand[v]] = ref[hand[v]]
      BY <1>9, <3>1 DEF Types
    <3> QED BY <1>2, <3>1, <3>2 DEF HandsFull, HandFull
  <2> QED BY <2>1, <2>2
<1>14. AcceptedKept'
  <2>1. ASSUME NEW k \in Jobs, spc[k] \in Accepted, k # j
        PROVE  \/ In(queues, k) \/ \E v \in Workers : hand'[v] = k
               \/ ref'[k] = Gone /\ fate[k] # "none"
    <3>1. \A v \in Workers : hand[v] = k => hand'[v] = k
      BY <1>10, <2>1 DEF j
    <3> QED BY <1>9, <2>1, <3>1 DEF AcceptedKept
  <2> QED BY <1>1, <1>2, <1>9, <2>1 DEF AcceptedKept
<1>15. NotYetSent'
  BY <1>1, <1>2, <1>9 DEF NotYetSent, Accepted
<1>16. Counted' /\ ExecutedSettled' /\ EarlyEnqueued' /\ JoinComplete'
  BY <1>2 DEF Counted, Unexecuted, Enqueued, ExecutedSettled, EarlyEnqueued, JoinComplete
<1>17. Closing'
  BY <1>1, <1>2 DEF Closing
<1> QED BY <1>4, <1>6, <1>7, <1>8, <1>11, <1>12, <1>13, <1>14, <1>15, <1>16, <1>17

-----------------------------------------------------------------------------
(* The threads that wait *)

\* A join returns when nothing is pending, which is when everything is executed.
LEMMA WaitersIInv ==
  ASSUME IInv, JoinWait \/ IdleWait \/ Shutdown \/ JoinAll \/ PoolDestroy
  PROVE  IInv'
<1> USE DEF IInv
<1>1. /\ UNCHANGED <<kind, sync_only, dead, lock, idleCount, queues, next, wpc, scan, hand,
                     spc, early, ref, fate, fired, pending>>
      /\ stop' \in BOOLEAN /\ sleeping' \subseteq sleeping
  BY DEF JoinWait, IdleWait, Shutdown, JoinAll, PoolDestroy, config, queueVars,
         workerVars, jobVars, Types
<1>2. Types'
  BY <1>1 DEF Types
<1>3. LockHeld' /\ IdleCounted' /\ ScanLeft' /\ Once(queues)' /\ QueuedWaits'
  BY <1>1 DEF LockHeld, IdleCounted, Asleep, ScanLeft, QueuedWaits
<1>4. HandsFull' /\ HandsApart' /\ AcceptedKept' /\ NotYetSent'
  BY <1>1 DEF HandsFull, HandFull, HandsApart, AcceptedKept, NotYetSent
<1>5. Counted' /\ ExecutedSettled' /\ EarlyEnqueued'
  BY <1>1 DEF Counted, Unexecuted, Enqueued, ExecutedSettled, EarlyEnqueued
<1>6. Closing'
  BY <1>1 DEF Closing, JoinWait, IdleWait, Shutdown, JoinAll, PoolDestroy
<1>7. JoinComplete'
  <2>1. CASE JoinWait
    <3>1. pending \in Nat /\ pending = Cardinality(Unexecuted)
      BY CountsTyped DEF Counted
    <3>2. Unexecuted \in SUBSET Jobs
      BY DEF Unexecuted
    <3>3. joiner' = "returned" => Unexecuted = {}
      BY <2>1, <3>1, <3>2, PartCount DEF JoinWait
    <3> QED BY <1>1, <3>3 DEF JoinComplete, Unexecuted
  <2>2. CASE ~ JoinWait
    BY <1>1, <2>2 DEF JoinComplete, IdleWait, Shutdown, JoinAll, PoolDestroy
  <2> QED BY <2>1, <2>2
<1> QED BY <1>2, <1>3, <1>4, <1>5, <1>6, <1>7

\* The owner aborts and frees what is still queued.
LEMMA DrainIInv ==
  ASSUME IInv, NEW s \in Shards, DrainOne(s)
  PROVE  IInv'
<1> USE DEF IInv
<1> DEFINE j == Head(queues[s])
<1>1. /\ closer = "draining" /\ queues[s] # << >>
      /\ queues' = [queues EXCEPT ![s] = Tail(@)]
      /\ fate' = [fate EXCEPT ![j] = "aborted"] /\ dead' \in BOOLEAN
      /\ ref' = [ref EXCEPT ![j] = WorkDestroy(Reference(@))]
      /\ UNCHANGED <<kind, sync_only, stop, lock, idleCount, sleeping, next, wpc, scan, hand,
                     spc, early, fired, pending, joiner, closer>>
  BY DEF DrainOne, Abort, config, workerVars
<1>2. /\ queues' \in [Shards -> Seq(Jobs)] /\ Once(queues')
      /\ j \in Jobs /\ In(queues, j) /\ ~ In(queues', j)
      /\ \A k \in Jobs : In(queues', k) <=> In(queues, k) /\ k # j
  <2>1. queues \in [Shards -> Seq(Jobs)] /\ Once(queues)
    BY DEF Types
  <2>2. Shortened(queues, queues', s)
    BY <1>1, <2>1 DEF Shortened
  <2>3. queues' \in [Shards -> Seq(Jobs)]
    BY <2>2 DEF Shortened
  <2> HIDE DEF IInv
  <2>4. /\ Once(queues') /\ Head(queues[s]) \in Jobs
        /\ In(queues, Head(queues[s])) /\ ~ In(queues', Head(queues[s]))
        /\ \A k \in Jobs : In(queues', k) <=> In(queues, k) /\ k # Head(queues[s])
    <3>1. queues[s] # << >>
      BY <1>1
    <3> QED BY <2>1, <2>2, <3>1, DequeueOnce, Zenon
  <2> QED BY <2>3, <2>4
<1> HIDE DEF j
<1>3. /\ spc[j] \in Accepted /\ ref[j] = Sent /\ fate[j] = "none"
      /\ \A v \in Workers : hand[v] # j
  BY <1>2 DEF QueuedWaits
<1>4. ref' = [ref EXCEPT ![j] = Gone]
  BY <1>1, <1>3, RefSteps
<1>5. /\ \A k \in Jobs : k # j => ref'[k] = ref[k] /\ fate'[k] = fate[k]
      /\ ref'[j] = Gone /\ fate'[j] = "aborted"
  BY <1>1, <1>2, <1>4 DEF Types
<1>6. Types'
  <2>1. ref' \in [Jobs -> {NewRef, Sent, Gone}]
    BY <1>4 DEF Types
  <2>2. fate' \in [Jobs -> {"none", "executed", "aborted"}]
    BY <1>1 DEF Types
  <2> QED BY <1>1, <1>2, <2>1, <2>2 DEF Types
<1>7. LockHeld' /\ IdleCounted' /\ ScanLeft' /\ HandsApart'
  BY <1>1 DEF LockHeld, IdleCounted, Asleep, ScanLeft, HandsApart
<1>8. QueuedWaits'
  BY <1>1, <1>2, <1>5 DEF QueuedWaits
<1>9. HandsFull'
  <2> SUFFICES ASSUME NEW v \in Workers PROVE HandFull(v)'
    BY DEF HandsFull
  <2>1. hand[v] # Free => ref'[hand[v]] = ref[hand[v]] /\ fate'[hand[v]] = fate[hand[v]]
    BY <1>3, <1>5 DEF Types
  <2> QED BY <1>1, <2>1 DEF HandsFull, HandFull
<1>10. AcceptedKept'
  BY <1>1, <1>2, <1>5 DEF AcceptedKept
<1>11. NotYetSent'
  BY <1>1, <1>3, <1>5 DEF NotYetSent, Accepted
<1>12. Counted'
  <2>1. Unexecuted' = Unexecuted /\ Enqueued' = Enqueued
    BY <1>1, <1>3, <1>5 DEF Unexecuted, Enqueued
  <2> QED BY <1>1, <2>1 DEF Counted
<1>13. ExecutedSettled' /\ EarlyEnqueued'
  BY <1>1, <1>5 DEF ExecutedSettled, EarlyEnqueued
<1>14. Closing'
  BY <1>1 DEF Closing
<1>15. JoinComplete'
  BY <1>1, <1>2, <1>3 DEF JoinComplete
<1> QED BY <1>2, <1>6, <1>7, <1>8, <1>9, <1>10, <1>11, <1>12, <1>13, <1>14, <1>15

-----------------------------------------------------------------------------
(* The theorems *)

\* Every step of the submitters, the workers and the waiting threads keeps it.
LEMMA NextIInv == IInv /\ [Next]_vars => IInv'
<1> SUFFICES ASSUME IInv, [Next]_vars PROVE IInv'
  OBVIOUS
<1>1. ASSUME NEW j \in Jobs, SubmitterStep(j) PROVE IInv'
  <2>1. ASSUME SubmitOp(j) \/ SubmitRaw(j) \/ SubmitBatch(j) \/ SubmitEviction(j)
        PROVE  IInv'
    <3>1. Submit(j, Sent) \/ Submit(j, Gone)
      BY <2>1, RefSteps DEF SubmitOp, SubmitRaw, SubmitBatch, SubmitEviction
    <3> QED BY <3>1, SubmitIInv
  <2> QED BY <1>1, <2>1, SyncIInv, PushIInv, SignalIInv DEF SubmitterStep
<1>2. ASSUME NEW w \in Workers, WorkerStep(w) PROVE IInv'
  <2>1. CASE Dequeue(w)
    BY <2>1, DequeueHitIInv, DequeueMissIInv
  <2> QED BY <1>2, <2>1, TakeLockIInv, DecideIInv, WakeUpIInv, LeaveIInv, RunIInv,
             NotifyIInv DEF WorkerStep
<1>3. CASE JoinWait \/ IdleWait \/ CloserStep
  BY <1>3, WaitersIInv, DrainIInv DEF CloserStep
<1>4. CASE UNCHANGED vars
  BY <1>4 DEF vars, IInv, Types, LockHeld, IdleCounted, Asleep, ScanLeft, QueuedWaits,
     HandsFull, HandFull, HandsApart, AcceptedKept, NotYetSent, Counted, Unexecuted,
     Enqueued, ExecutedSettled, Closing, EarlyEnqueued, JoinComplete
<1> QED BY <1>1, <1>2, <1>3, <1>4 DEF Next

\* A queued job of the model is a queued job of the invariant.
LEMMA QueuedIsIn ==
  ASSUME IInv, NEW j \in Jobs
  PROVE  Queued(j) => In(queues, j)
<1>1. \A s \in Shards : DOMAIN queues[s] = 1 .. Len(queues[s])
  BY DEF IInv, Types
<1> QED BY <1>1 DEF Queued, In

\* What the invariant says of memory, hands and idleness.
LEMMA IInvPoolSound == IInv => PoolSound
<1> SUFFICES ASSUME IInv PROVE PoolSound
  OBVIOUS
<1> USE DEF IInv
<1>1. \A j \in Jobs : /\ ref[j].count \in 0 .. 2 /\ ref[j].yield \in 0 .. 1
                      /\ ref[j].freed \in 0 .. 1 /\ (ref[j].freed = 1 <=> ref[j] = Gone)
                      /\ fired[j] \in Seq({"result", "error"})
  BY RefTyped, FiredTyped DEF Types
<1>2. TypeOK
  <2>1. /\ pending \in 0 .. Cardinality(Jobs) /\ next \in 0 .. Cardinality(Jobs)
        /\ idleCount \in 0 .. Cardinality(Workers)
    BY CountsTyped DEF Counted, IdleCounted
  <2> QED BY <1>1, <2>1 DEF TypeOK, Types
<1>3. \A j \in Jobs : ref[j] # Gone => ref[j].freed = 0
  BY <1>1
<1>4. JobLife
  <2>1. ASSUME NEW j \in Jobs, Queued(j) PROVE ref[j].freed = 0 /\ fate[j] = "none"
    BY <1>3, <2>1, QueuedIsIn, RefSteps DEF QueuedWaits
  <2>2. ASSUME NEW j \in Jobs, ref[j].freed = 1
        PROVE  fate[j] # "none" \/ spc[j] = "refused"
    <3>1. ref[j] = Gone
      BY <1>1, <2>2
    <3>2. ~ In(queues, j)
      BY <3>1, RefSteps DEF QueuedWaits
    <3>3. \A w \in Workers : hand[w] # j
      BY <3>1, RefSteps DEF HandsFull, HandFull
    <3>4. spc[j] \in Accepted \/ spc[j] = "refused" \/ spc[j] = "new" \/ spc[j] = "push"
      BY DEF Types, Accepted
    <3> QED BY <3>1, <3>2, <3>3, <3>4, RefSteps DEF AcceptedKept, NotYetSent
  <2>3. ASSUME NEW v \in Workers, NEW w \in Workers, hand[w] # Free
        PROVE  ref[hand[w]].freed = 0 /\ (v # w => hand[v] # hand[w])
    <3>1. hand[w] \in Jobs /\ ref[hand[w]] # Gone
      BY <2>3, RefSteps DEF HandsFull, HandFull, Types
    <3> QED BY <1>3, <2>3, <3>1 DEF HandsApart
  <2> QED BY <1>1, <2>1, <2>2, <2>3 DEF JobLife
<1>5. IdleExact
  BY DEF IdleExact, IdleCounted, Asleep
<1> QED BY <1>2, <1>4, <1>5 DEF PoolSound

\* What it says of the threads that wait.
LEMMA IInvJobsSettled == IInv => JobsSettled
<1> SUFFICES ASSUME IInv PROVE JobsSettled
  OBVIOUS
<1> USE DEF IInv
<1>1. ASSUME closer = "closed", NEW j \in early
      PROVE  fate[j] # "none" /\ ref[j] = Gone
  <2>1. j \in Jobs /\ spc[j] \in Accepted
    BY DEF Types, EarlyEnqueued, Accepted
  <2>2. ~ In(queues, j)
    BY <1>1 DEF Closing, In
  <2>3. \A w \in Workers : hand[w] # j
    BY <1>1, <2>1 DEF Closing, HandsFull, HandFull
  <2> QED BY <2>1, <2>2, <2>3 DEF AcceptedKept
<1>2. NothingLeft
  BY <1>1 DEF NothingLeft, Gone
<1>3. PromiseSettled
  <2> SUFFICES ASSUME NEW j \in Jobs
               PROVE  /\ Len(fired[j]) <= 1
                      /\ fired[j] = << >> /\ kind[j] # "evict" /\ closer = "closed" /\ j \in early
                           => fate[j] = "aborted"
    BY DEF PromiseSettled
  <2>1. Len(fired[j]) <= 1
    BY FiredTyped DEF Types
  <2>2. fate[j] \in {"none", "executed", "aborted"}
    BY DEF Types
  <2> QED BY <1>1, <2>1, <2>2 DEF ExecutedSettled
<1> QED BY <1>2, <1>3 DEF JobsSettled

\* The strengthened invariant holds of every behaviour.
THEOREM InductiveInvariant == Spec => []IInv
  BY InitIInv, NextIInv, PTL DEF Spec

\* A job's memory is there as long as a queue or a worker has it, it is freed
\* once, no two workers have one job, and idleCount is the number of sleepers.
THEOREM PoolIsSound == Spec => []PoolSound
  BY InductiveInvariant, IInvPoolSound, PTL

\* work_pool_destroy leaves no accepted job behind, async_join_wait returns after
\* the last operation, and a promise is settled at most once, and unless its job
\* was aborted by the time the pool is gone.
THEOREM JobsAreSettled == Spec => []JobsSettled
  BY InductiveInvariant, IInvJobsSettled, PTL
=============================================================================
