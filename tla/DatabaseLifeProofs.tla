------------------------- MODULE DatabaseLifeProofs -------------------------
(***************************************************************************)
(* Proofs about vacuum and teardown, for every number of writers, cursors  *)
(* and pool workers and any number of evictions, timers and vacuums.       *)
(* WalkIntruders rests on one fact about the flag: from the moment it is   *)
(* raised nobody passes a test, so whoever is past one was past it then    *)
(* (or belongs to the writers that make none).                             *)
(* Teardown rests on eviction_in_flight being the number of tasks that are *)
(* queued or in a worker's hands, and on no worker entering the body of a  *)
(* task once the database is being destroyed.                              *)
(***************************************************************************)
EXTENDS DatabaseLife, FiniteSetTheorems, TLAPS

USE LifeAssumption

\* Where the flag is up, and where a worker is in the body of a task.
Raised == {"drain", "drained", "flush", "barrier", "walk", "clear"}
InBody == {"task", "drain", "more", "end"}
Open == {c \in Cursors : cpc[c] = "open"}
Body == {k \in Workers : kpc[k] \in InBody}
Tasks(works) == {i \in DOMAIN works : works[i] = "task"}

-----------------------------------------------------------------------------
(* The vacuum has the trie to itself *)

VacuumTypes ==
    /\ flag \in BOOLEAN
    /\ wpc \in [Writers -> {"idle", "slow", "asleep", "past", "in"}]
    /\ cpc \in [Cursors -> {"idle", "wanted", "asleep", "granted", "open", "last"}]
    /\ kpc \in [Workers -> {"idle", "null", "stray", "arm", "task", "drain", "more", "end"}]

FlagUp == vpc \in Raised => flag

OpenCounted == opened = Cardinality(Open)

\* Under the flag, whoever is past a test without the barrier's knowledge was so
\* when the flag was raised.
WritersPast == flag => \A w \in Testing : wpc[w] = "past" => w \in gap
CursorsPast == flag => \A c \in Cursors : cpc[c] \in {"granted", "open"} => c \in gap
WorkersPast == flag => \A k \in Workers : kpc[k] \in InBody => k \in gap

\* After the barrier a writer that is inside has come from there.
WritersInside == vpc = "walk" => \A w \in Testing : wpc[w] = "in" => w \in gap

VInv ==
    /\ VacuumTypes
    /\ FlagUp
    /\ OpenCounted
    /\ WritersPast
    /\ CursorsPast
    /\ WorkersPast
    /\ WritersInside

\* The number of open cursors, and how one cursor changes it.
LEMMA OpenCount ==
    /\ Cardinality(Open) \in Nat
    /\ Cardinality(Open) = 0 <=> Open = {}
    /\ \A c : c \notin Open => Cardinality(Open \cup {c}) = Cardinality(Open) + 1
    /\ \A c \in Open : Cardinality(Open \ {c}) = Cardinality(Open) - 1
<1>1. Open \subseteq Cursors
  BY DEF Open
<1>2. IsFiniteSet(Open)
  BY <1>1, FS_Subset
<1> QED BY <1>2, FS_CardinalityType, FS_EmptySet, FS_AddElement, FS_RemoveElement

\* At first nobody is anywhere.
LEMMA InitVInv == Init => VInv
<1> SUFFICES ASSUME Init PROVE VInv
  OBVIOUS
<1>1. Open = {}
  BY DEF Init, Open
<1>2. OpenCounted
  BY <1>1, FS_EmptySet DEF Init, OpenCounted
<1>3. VacuumTypes /\ FlagUp /\ WritersPast /\ CursorsPast /\ WorkersPast /\ WritersInside
  BY DEF Init, VacuumTypes, FlagUp, Raised, WritersPast, CursorsPast, WorkersPast,
         WritersInside
<1> QED BY <1>2, <1>3 DEF VInv

\* A writer passes its test only while the flag is down.
LEMMA WriterVInv ==
  ASSUME VInv, NEW w \in Writers, StartWrite(w) \/ TestFlag(w) \/ WriterRuns(w) \/ WriterTimeout(w)
  PROVE  VInv'
<1> USE DEF VInv
<1>1. /\ UNCHANGED <<flag, opened, cpc, vpc, kpc>>
      /\ \A x \in Workers \cup Cursors : x \in gap => x \in gap'
      /\ \A v \in Writers : v # w => wpc'[v] = wpc[v] /\ (v \in gap => v \in gap')
  BY DEF StartWrite, TestFlag, WriterRuns, BlockWhileVacuum, TakeShard, LeaveShard, WriterTimeout,
         evictVars, VacuumTypes
<1>2. /\ wpc' \in [Writers -> {"idle", "slow", "asleep", "past", "in"}]
      /\ wpc'[w] = "past" => ~ flag \/ w \notin Testing
      /\ wpc'[w] = "in" => wpc[w] = "past" /\ gap' = gap
  BY DEF StartWrite, TestFlag, WriterRuns, BlockWhileVacuum, TakeShard, LeaveShard, WriterTimeout,
         VacuumTypes
<1>3. VacuumTypes' /\ FlagUp'
  BY <1>1, <1>2 DEF VacuumTypes, FlagUp
<1>4. OpenCounted'
  BY <1>1 DEF OpenCounted, Open
<1>5. CursorsPast' /\ WorkersPast'
  BY <1>1 DEF CursorsPast, WorkersPast
<1>6. WritersPast'
  BY <1>1, <1>2 DEF WritersPast
<1>7. WritersInside'
  BY <1>1, <1>2 DEF WritersInside, WritersPast, FlagUp, Raised
<1> QED BY <1>3, <1>4, <1>5, <1>6, <1>7

\* So does a cursor; once open it is counted.
LEMMA CursorVInv ==
  ASSUME VInv, NEW c \in Cursors, ScanWait(c) \/ ScanStart(c) \/ ScanEnd(c)
  PROVE  VInv'
<1> USE DEF VInv
<1>1. /\ UNCHANGED <<flag, wpc, vpc, kpc>>
      /\ \A x \in Workers \cup Writers : x \in gap => x \in gap'
      /\ \A d \in Cursors : d # c => cpc'[d] = cpc[d] /\ (d \in gap => d \in gap')
  BY DEF ScanWait, ScanStart, ScanEnd, evictVars, VacuumTypes
<1>2. /\ cpc' \in [Cursors -> {"idle", "wanted", "asleep", "granted", "open", "last"}]
      /\ cpc'[c] = "granted" => ~ flag
      /\ cpc'[c] = "open" => cpc[c] = "granted" /\ gap' = gap
  BY DEF ScanWait, ScanStart, ScanEnd, VacuumTypes
<1>3. VacuumTypes' /\ FlagUp'
  BY <1>1, <1>2 DEF VacuumTypes, FlagUp
<1>4. OpenCounted'
  <2>1. CASE cpc[c] # "open" /\ cpc'[c] # "open"
    <3>1. Open' = Open /\ opened' = opened
      BY <1>1, <2>1 DEF Open, ScanWait, ScanStart, ScanEnd, VacuumTypes
    <3> QED BY <3>1 DEF OpenCounted
  <2>2. CASE cpc'[c] = "open"
    <3>1. Open' = Open \cup {c} /\ c \notin Open /\ opened' = opened + 1
      BY <1>1, <2>2 DEF Open, ScanWait, ScanStart, ScanEnd, VacuumTypes
    <3> QED BY <3>1, OpenCount DEF OpenCounted
  <2>3. CASE cpc[c] = "open" /\ cpc'[c] # "open"
    <3>1. Open' = Open \ {c} /\ c \in Open /\ opened' = opened - 1
      BY <1>1, <2>3 DEF Open, ScanWait, ScanStart, ScanEnd, VacuumTypes
    <3> QED BY <3>1, OpenCount DEF OpenCounted
  <2> QED BY <2>1, <2>2, <2>3
<1>5. WritersPast' /\ WorkersPast' /\ WritersInside'
  BY <1>1 DEF WritersPast, WorkersPast, WritersInside
<1>6. CursorsPast'
  BY <1>1, <1>2 DEF CursorsPast
<1> QED BY <1>3, <1>4, <1>5, <1>6

\* A broadcast only sends sleepers back to their test.
LEMMA BroadcastVInv ==
  ASSUME VInv, \/ \E c \in Cursors : ScanEndBroadcast(c)
               \/ VacuumWakeWriters \/ VacuumWakeCursors
  PROVE  VInv'
<1> USE DEF VInv
<1>1. /\ UNCHANGED <<flag, opened, gap, kpc>>
      /\ vpc' \notin Raised \/ vpc' = vpc
      /\ vpc' = "walk" => vpc = "walk"
  BY DEF ScanEndBroadcast, VacuumWakeWriters, VacuumWakeCursors, evictVars, VacuumAwake, Raised
<1>2. /\ wpc' \in [Writers -> {"idle", "slow", "asleep", "past", "in"}]
      /\ \A w \in Writers : wpc'[w] \in {"past", "in"} => wpc'[w] = wpc[w]
  BY DEF ScanEndBroadcast, VacuumWakeWriters, VacuumWakeCursors, VacuumTypes
<1>3. /\ cpc' \in [Cursors -> {"idle", "wanted", "asleep", "granted", "open", "last"}]
      /\ \A c \in Cursors : cpc'[c] \in {"granted", "open"} => cpc'[c] = cpc[c]
      /\ \A c \in Cursors : cpc[c] = "open" => cpc'[c] = "open"
  BY DEF ScanEndBroadcast, VacuumWakeWriters, VacuumWakeCursors, CursorsAwake, VacuumTypes
<1>4. VacuumTypes' /\ FlagUp'
  BY <1>1, <1>2, <1>3 DEF VacuumTypes, FlagUp
<1>5. OpenCounted'
  <2>1. Open' = Open
    BY <1>3 DEF Open
  <2> QED BY <1>1, <2>1 DEF OpenCounted
<1>6. WritersPast' /\ WorkersPast' /\ WritersInside'
  BY <1>1, <1>2 DEF WritersPast, WorkersPast, WritersInside
<1>7. CursorsPast'
  BY <1>1, <1>3 DEF CursorsPast
<1> QED BY <1>4, <1>5, <1>6, <1>7

\* An eviction task's body begins only while the flag is down.
LEMMA WorkerVInv ==
  ASSUME VInv, NEW k \in Workers, WorkerRuns(k)
  PROVE  VInv'
<1> USE DEF VInv
<1>1. /\ UNCHANGED <<flag, opened, wpc, cpc, vpc>>
      /\ \A x \in Cursors \cup Writers : x \in gap => x \in gap'
      /\ \A j \in Workers : j # k => kpc'[j] = kpc[j] /\ (j \in gap => j \in gap')
  BY DEF WorkerRuns, TakeWork, EvictionArm, TaskRead, TaskDrain, TaskResched, TaskEnd,
         appVars, VacuumTypes
<1>2. /\ kpc' \in [Workers -> {"idle", "null", "stray", "arm", "task", "drain", "more", "end"}]
      /\ kpc'[k] \in InBody => \/ ~ flag
                               \/ kpc[k] \in InBody /\ gap' = gap
  BY DEF WorkerRuns, TakeWork, Armed, EvictionArm, TaskRead, TaskDrain, TaskResched, TaskEnd,
         appVars, VacuumTypes, InBody
<1>3. VacuumTypes' /\ FlagUp' /\ OpenCounted'
  BY <1>1, <1>2 DEF VacuumTypes, FlagUp, OpenCounted, Open
<1>4. WritersPast' /\ CursorsPast' /\ WritersInside'
  BY <1>1 DEF WritersPast, CursorsPast, WritersInside
<1>5. WorkersPast'
  BY <1>1, <1>2 DEF WorkersPast
<1> QED BY <1>3, <1>4, <1>5

\* The flag goes up together with the record of who is past a test.
LEMMA RaiseVInv ==
  ASSUME VInv, VacuumRaise \/ VacuumAutoWait
  PROVE  VInv'
<1> USE DEF VInv
<1>1. UNCHANGED <<opened, wpc, cpc, kpc>>
  BY DEF VacuumRaise, VacuumAutoWait, evictVars
<1>2. \/ /\ flag' = TRUE /\ vpc' = "drain" /\ Unregistered \subseteq gap'
         /\ Open \subseteq gap'
      \/ /\ flag' = flag /\ gap' = gap /\ vpc' = "asleep"
  <2>1. CASE VacuumRaise
    BY <2>1 DEF VacuumRaise, Open
  <2>2. CASE VacuumAutoWait
    <3>1. ~ (opened > 0) => Open = {}
      BY OpenCount DEF OpenCounted
    <3> QED BY <2>2, <3>1 DEF VacuumAutoWait
  <2> QED BY <2>1, <2>2
<1>3. VacuumTypes' /\ FlagUp' /\ OpenCounted'
  BY <1>1, <1>2 DEF VacuumTypes, FlagUp, OpenCounted, Open, Raised
<1>4. WritersPast' /\ CursorsPast' /\ WorkersPast' /\ WritersInside'
  BY <1>1, <1>2 DEF WritersPast, CursorsPast, WorkersPast, WritersInside, Unregistered,
         Open, InBody
<1> QED BY <1>3, <1>4

\* The barrier ends when no writer is inside; the other steps change no test.
LEMMA VacuumVInv ==
  ASSUME VInv, \/ VacuumManual \/ VacuumAuto \/ VacuumTimeout \/ VacuumRead \/ VacuumDrain
               \/ VacuumFlush \/ VacuumBarrier \/ VacuumWalk \/ VacuumClear
  PROVE  VInv'
<1> USE DEF VInv
<1>1. UNCHANGED <<opened, wpc, cpc, kpc>>
  BY DEF VacuumManual, VacuumAuto, VacuumTimeout, VacuumRead, VacuumDrain, VacuumFlush,
         VacuumBarrier, VacuumWalk, VacuumClear, evictVars
<1>2. \/ flag' = FALSE /\ vpc' \notin Raised
      \/ flag' = flag /\ gap' = gap /\ (vpc' \in Raised => vpc \in Raised)
  BY DEF VacuumManual, VacuumAuto, VacuumTimeout, VacuumRead, VacuumDrain, VacuumFlush,
         VacuumBarrier, VacuumWalk, VacuumClear, Raised
<1>3. vpc' = "walk" => \A w \in Writers : wpc[w] # "in"
  BY DEF VacuumManual, VacuumAuto, VacuumTimeout, VacuumRead, VacuumDrain, VacuumFlush,
         VacuumBarrier, VacuumWalk, VacuumClear
<1>4. VacuumTypes' /\ FlagUp' /\ OpenCounted'
  BY <1>1, <1>2 DEF VacuumTypes, FlagUp, OpenCounted, Open
<1>5. WritersPast' /\ CursorsPast' /\ WorkersPast' /\ WritersInside'
  BY <1>1, <1>2, <1>3 DEF WritersPast, CursorsPast, WorkersPast, WritersInside
<1> QED BY <1>4, <1>5

\* Evictions, timers and the teardown leave the vacuum's state alone.
LEMMA NextVInv == VInv /\ [Next]_vars => VInv'
<1> SUFFICES ASSUME VInv, [Next]_vars PROVE VInv'
  OBVIOUS
<1>1. ASSUME UNCHANGED <<appVars, kpc>> PROVE VInv'
  BY <1>1 DEF VInv, VacuumTypes, FlagUp, OpenCounted, Open, WritersPast, CursorsPast,
     WorkersPast, WritersInside, appVars
<1>2. (\E e \in Evictors : Evict(e) \/ EvictorRuns(e))
      \/ TimerFires \/ DestroyBegin \/ DestroyRuns \/ Finished
        => UNCHANGED <<appVars, kpc>>
  BY DEF Evict, EvictorRuns, PushTest, PushStore, TimerFires, DestroyBegin, DestroyRuns,
     DestroyUnhook, DestroyStop, DestroyJoin, DestroyDrain, DestroyWait, DestroyFree, Finished, evictVars, vars, appVars
<1>3. CASE UNCHANGED vars
  BY <1>1, <1>3 DEF vars, appVars
<1> QED BY <1>1, <1>2, <1>3, WriterVInv, CursorVInv, BroadcastVInv, WorkerVInv, RaiseVInv,
           VacuumVInv DEF Next, VacuumRuns

-----------------------------------------------------------------------------
(* Nothing runs when the database is freed *)

TeardownTypes ==
    /\ kpc \in [Workers -> {"idle", "null", "stray", "arm", "task", "drain", "more", "end"}]
    /\ pool \in Seq({"arm", "task"})

\* eviction_in_flight counts the tasks that are queued and those in their body.
TasksCounted == inflight = Cardinality(Tasks(pool)) + Cardinality(Body)

\* The way to "quiet" goes over the pool's stop or over a pool that stays.
Branches == (dpc = "stopping" => stop) /\ (dpc = "draining" => ~ owned)

\* From "quiet" on no task is in its body, and an owned pool is empty and stopped.
Quiet ==
    dpc \in {"quiet", "freed"} =>
        /\ Body = {}
        /\ owned => stop /\ pool = << >> /\ \A k \in Workers : kpc[k] = "idle"

DInv ==
    /\ TeardownTypes
    /\ TasksCounted
    /\ Branches
    /\ Quiet

\* The number of queued tasks, when a work is queued or taken.
LEMMA TasksAppend ==
  ASSUME NEW p \in Seq({"arm", "task"})
  PROVE  /\ IsFiniteSet(Tasks(p)) /\ Cardinality(Tasks(p)) \in Nat
         /\ Cardinality(Tasks(Append(p, "task"))) = Cardinality(Tasks(p)) + 1
         /\ Tasks(Append(p, "arm")) = Tasks(p)
<1>1. IsFiniteSet(Tasks(p)) /\ Cardinality(Tasks(p)) \in Nat
  <2>1. IsFiniteSet(1 .. Len(p))
    BY FS_Interval
  <2>2. Tasks(p) \in SUBSET (1 .. Len(p))
    BY DEF Tasks
  <2> QED BY <2>1, <2>2, FS_Subset, FS_CardinalityType
<1>2. Tasks(Append(p, "task")) = Tasks(p) \cup {Len(p) + 1} /\ Len(p) + 1 \notin Tasks(p)
  BY DEF Tasks
<1>3. Tasks(Append(p, "arm")) = Tasks(p)
  BY DEF Tasks
<1> QED BY <1>1, <1>2, <1>3, FS_AddElement

\* Taking the head leaves the other tasks, one place further up.
LEMMA TasksTail ==
  ASSUME NEW p \in Seq({"arm", "task"}), p # << >>
  PROVE  /\ Head(p) \in {"arm", "task"} /\ Tail(p) \in Seq({"arm", "task"})
         /\ Cardinality(Tasks(Tail(p))) = IF Head(p) = "task" THEN Cardinality(Tasks(p)) - 1
                                          ELSE Cardinality(Tasks(p))
<1> DEFINE S == Tasks(Tail(p))
           T == Tasks(p) \ {1}
           f == [i \in S |-> i + 1]
<1>1. Head(p) \in {"arm", "task"} /\ Tail(p) \in Seq({"arm", "task"})
  OBVIOUS
<1>2. \A i \in S : i \in Nat /\ i + 1 \in T
  BY DEF Tasks
<1>3. \A i \in T : i - 1 \in S /\ (i - 1) + 1 = i
  BY DEF Tasks
<1>4. ExistsBijection(S, T)
  <2>1. f \in [S -> T]
    BY <1>2
  <2>2. \A x, y \in S : f[x] = f[y] => x = y
    BY <1>2
  <2>3. \A y \in T : \E x \in S : f[x] = y
    BY <1>3
  <2>4. f \in Bijection(S, T)
    BY <2>1, <2>2, <2>3 DEF Bijection, Injection, Surjection, IsInjective
  <2> QED BY <2>4 DEF ExistsBijection
<1>5. IsFiniteSet(S)
  BY <1>1, TasksAppend
<1> HIDE DEF S, T
<1>6. Cardinality(T) = Cardinality(S)
  BY <1>4, <1>5, FS_Bijection
<1>7. 1 \in Tasks(p) <=> Head(p) = "task"
  BY DEF Tasks
<1>8. IsFiniteSet(Tasks(p))
  BY TasksAppend
<1>9. Cardinality(T) = IF 1 \in Tasks(p) THEN Cardinality(Tasks(p)) - 1 ELSE Cardinality(Tasks(p))
  BY <1>8, FS_RemoveElement DEF T
<1> QED BY <1>1, <1>6, <1>7, <1>9 DEF S

\* The number of workers in a task's body, when one enters or leaves.
LEMMA BodyCount ==
    /\ IsFiniteSet(Body) /\ Cardinality(Body) \in Nat
    /\ Cardinality(Body) = 0 <=> Body = {}
    /\ \A k : k \notin Body => Cardinality(Body \cup {k}) = Cardinality(Body) + 1
    /\ \A k \in Body : Cardinality(Body \ {k}) = Cardinality(Body) - 1
<1>1. Body \subseteq Workers
  BY DEF Body
<1>2. IsFiniteSet(Body)
  BY <1>1, FS_Subset
<1> QED BY <1>2, FS_CardinalityType, FS_EmptySet, FS_AddElement, FS_RemoveElement

\* At open one task is queued and counted.
LEMMA InitDInv == Init => DInv
<1> SUFFICES ASSUME Init PROVE DInv
  OBVIOUS
<1>1. Body = {} /\ Tasks(pool) = {1}
  BY DEF Init, Body, InBody, Tasks
<1>2. Cardinality(Body) = 0 /\ Cardinality(Tasks(pool)) = 1
  BY <1>1, FS_EmptySet, FS_Singleton
<1>3. inflight = 1
  BY DEF Init
<1>4. TasksCounted
  BY <1>2, <1>3 DEF TasksCounted
<1>5. TeardownTypes /\ Branches /\ Quiet
  BY DEF Init, TeardownTypes, Branches, Quiet
<1> QED BY <1>4, <1>5 DEF DInv

\* A worker takes a work: the task's count goes with it, or back.
LEMMA TakeWorkDInv ==
  ASSUME DInv, NEW k \in Workers, TakeWork(k)
  PROVE  DInv'
<1> USE DEF DInv
<1>1. /\ kpc[k] = "idle" /\ pool # << >> /\ pool' = Tail(pool) /\ UNCHANGED <<stop, dpc, owned>>
      /\ pool \in Seq({"arm", "task"})
  BY DEF TakeWork, downVars, fixed, TeardownTypes
<1>2. /\ Head(pool) \in {"arm", "task"} /\ pool' \in Seq({"arm", "task"})
      /\ Cardinality(Tasks(pool')) = IF Head(pool) = "task" THEN Cardinality(Tasks(pool)) - 1
                                     ELSE Cardinality(Tasks(pool))
  BY <1>1, TasksTail
<1>3. \/ Head(pool) = "task" /\ inflight' = inflight - 1 /\ kpc' = kpc
      \/ /\ Head(pool) = "arm" /\ inflight' = inflight
         /\ \E to \in {"null", "stray", "idle", "arm"} : kpc' = [kpc EXCEPT ![k] = to]
      \/ /\ Head(pool) = "task" /\ inflight' = inflight /\ ~ destroying
         /\ kpc' = [kpc EXCEPT ![k] = "task"]
  BY DEF TakeWork, Armed
<1>4. k \notin Body
  BY <1>1 DEF Body, InBody
<1>5. TeardownTypes'
  BY <1>2, <1>3 DEF TeardownTypes
<1>6. \/ /\ Head(pool) = "task" /\ inflight' = inflight - 1 /\ Body' = Body
      \/ /\ Head(pool) = "arm" /\ inflight' = inflight /\ Body' = Body
      \/ /\ Head(pool) = "task" /\ inflight' = inflight /\ Body' = Body \cup {k}
         /\ ~ destroying
  BY <1>3, <1>4 DEF Body, InBody, TeardownTypes
<1>7. TasksCounted'
  <2>1. Cardinality(Tasks(pool)) \in Nat
    BY <1>1, TasksAppend
  <2> QED BY <1>2, <1>4, <1>6, <2>1, BodyCount DEF TasksCounted
<1>8. Branches' /\ Quiet'
  BY <1>1, <1>6 DEF Branches, Quiet, destroying
<1> QED BY <1>5, <1>7, <1>8

\* A task is counted in the step that queues it; a stopped pool does neither.
LEMMA QueuedCounted ==
  ASSUME DInv, Queued
  PROVE  /\ pool' \in Seq({"arm", "task"})
         /\ inflight' - Cardinality(Tasks(pool')) = inflight - Cardinality(Tasks(pool))
         /\ inflight' \in Int /\ inflight \in Int
         /\ stop => pool' = pool
<1>1. pool \in Seq({"arm", "task"})
  BY DEF DInv, TeardownTypes
<1>2. /\ Cardinality(Tasks(Append(pool, "task"))) = Cardinality(Tasks(pool)) + 1
      /\ Cardinality(Tasks(pool)) \in Nat
  BY <1>1, TasksAppend
<1>3. inflight \in Int
  BY <1>2, BodyCount DEF DInv, TasksCounted
<1>4. CASE stop
  BY <1>1, <1>2, <1>3, <1>4 DEF Queued
<1>5. CASE ~ stop
  BY <1>1, <1>2, <1>3, <1>5 DEF Queued
<1> QED BY <1>4, <1>5

\* The other steps of a worker.
LEMMA WorkerDInv ==
  ASSUME DInv, NEW k \in Workers,
         EvictionArm(k) \/ TaskRead(k) \/ TaskDrain(k) \/ TaskResched(k) \/ TaskEnd(k)
  PROVE  DInv'
<1> USE DEF DInv
<1>1. UNCHANGED <<stop, dpc, owned>> /\ kpc[k] # "idle"
  BY DEF EvictionArm, TaskRead, TaskDrain, TaskResched, TaskEnd, downVars, fixed
<1>2. /\ Cardinality(Tasks(pool)) \in Nat /\ inflight \in Int /\ pool \in Seq({"arm", "task"})
  BY TasksAppend, BodyCount DEF TeardownTypes, TasksCounted
<1>3. PICK to \in {"idle", "stray", "drain", "more", "end"} :
        /\ kpc' = [kpc EXCEPT ![k] = to]
        /\ to \in InBody <=> kpc[k] \in InBody \ {"end"}
        /\ Queued \/ UNCHANGED <<inflight, pool>>
             \/ (kpc[k] = "end" /\ inflight' = inflight - 1 /\ pool' = pool)
        /\ kpc[k] = "end" => inflight' = inflight - 1 /\ pool' = pool
  BY DEF EvictionArm, TaskRead, TaskDrain, TaskResched, TaskEnd, InBody
<1>4. TeardownTypes'
  <2>1. pool' \in Seq({"arm", "task"})
    BY <1>2, <1>3, QueuedCounted
  <2> QED BY <1>3, <2>1 DEF TeardownTypes
<1>5. CASE kpc[k] = "end"
  <2>1. Body' = Body \ {k} /\ k \in Body
    BY <1>3, <1>5 DEF Body, InBody, TeardownTypes
  <2>2. TasksCounted'
    BY <1>2, <1>3, <1>5, <2>1, BodyCount DEF TasksCounted
  <2>3. Branches' /\ Quiet'
    BY <1>1, <1>3, <1>5, <2>1 DEF Branches, Quiet
  <2> QED BY <1>4, <2>2, <2>3
<1>6. CASE kpc[k] # "end"
  <2>1. Body' = Body
    BY <1>3, <1>6 DEF Body, TeardownTypes
  <2>2. pool' \in Seq({"arm", "task"})
    BY <1>4 DEF TeardownTypes
  <2>3. Cardinality(Tasks(pool')) \in Nat
    BY <2>2, TasksAppend
  <2>4. inflight' - Cardinality(Tasks(pool')) = inflight - Cardinality(Tasks(pool)) /\ inflight' \in Int
    BY <1>2, <1>3, <1>6, QueuedCounted
  <2>5. TasksCounted'
    BY <1>2, <2>1, <2>3, <2>4, BodyCount DEF TasksCounted
  <2>6. Branches' /\ Quiet'
    BY <1>1, <2>1 DEF Branches, Quiet
  <2> QED BY <1>4, <2>5, <2>6
<1> QED BY <1>5, <1>6

\* A timer adds an arm work, which is no task.
LEMMA TimerDInv == DInv /\ TimerFires => DInv'
<1> SUFFICES ASSUME DInv, TimerFires PROVE DInv'
  OBVIOUS
<1> USE DEF DInv
<1>1. /\ UNCHANGED <<inflight, kpc, stop, dpc, owned>>
      /\ pool' = IF stop THEN pool ELSE Append(pool, "arm")
  BY DEF TimerFires, downVars, fixed
<1>2. pool \in Seq({"arm", "task"})
  BY DEF TeardownTypes
<1>3. Tasks(pool') = Tasks(pool) /\ pool' \in Seq({"arm", "task"})
  BY <1>1, <1>2, TasksAppend
<1>4. TeardownTypes' /\ TasksCounted'
  BY <1>1, <1>3 DEF TeardownTypes, TasksCounted, Body
<1>5. Branches' /\ Quiet'
  BY <1>1 DEF Branches, Quiet, Body
<1> QED BY <1>4, <1>5

\* The spin on eviction_in_flight and the join of an owned pool lead to "quiet".
LEMMA DestroyDInv == DInv /\ (DestroyBegin \/ DestroyRuns) => DInv'
<1> SUFFICES ASSUME DInv, DestroyBegin \/ DestroyRuns PROVE DInv'
  OBVIOUS
<1> USE DEF DInv
<1>1. UNCHANGED <<inflight, kpc, pool, owned>>
  BY DEF DestroyBegin, DestroyRuns, DestroyUnhook, DestroyStop, DestroyJoin, DestroyDrain,
     DestroyWait, DestroyFree, evictVars, fixed
<1>2. TeardownTypes' /\ TasksCounted'
  BY <1>1 DEF TeardownTypes, TasksCounted, Body
<1>3. Branches'
  BY <1>1 DEF Branches, DestroyBegin, DestroyRuns, DestroyUnhook, DestroyStop, DestroyJoin,
     DestroyDrain, DestroyWait, DestroyFree
<1>4. Body' = Body
  BY <1>1 DEF Body
<1>5. Quiet'
  <2>1. CASE DestroyJoin
    <3>1. Body = {}
      BY <2>1 DEF DestroyJoin, Body, InBody
    <3> QED BY <1>1, <1>4, <2>1, <3>1 DEF DestroyJoin, Quiet, Branches
  <2>2. CASE DestroyWait
    <3>1. Cardinality(Tasks(pool)) \in Nat
      BY TasksAppend DEF TeardownTypes
    <3>2. Body = {}
      BY <2>2, <3>1, BodyCount DEF DestroyWait, TasksCounted
    <3> QED BY <1>1, <1>4, <2>2, <3>2 DEF DestroyWait, Quiet, Branches
  <2>3. CASE DestroyFree
    BY <1>1, <1>4, <2>3 DEF DestroyFree, Quiet
  <2>4. CASE DestroyBegin \/ DestroyUnhook \/ DestroyStop \/ DestroyDrain
    BY <2>4 DEF DestroyBegin, DestroyUnhook, DestroyStop, DestroyDrain, Quiet
  <2> QED BY <2>1, <2>2, <2>3, <2>4 DEF DestroyRuns
<1> QED BY <1>2, <1>3, <1>5

\* Writers, cursors, evictions and the vacuum queue no work and take none.
LEMMA NextDInv == DInv /\ [Next]_vars => DInv'
<1> SUFFICES ASSUME DInv, [Next]_vars PROVE DInv'
  OBVIOUS
<1>1. ASSUME UNCHANGED <<inflight, pool, kpc, stop, dpc, owned>> PROVE DInv'
  BY <1>1 DEF DInv, TeardownTypes, TasksCounted, Body, Branches, Quiet
<1>2. ASSUME NEW w \in Writers, StartWrite(w) \/ TestFlag(w) \/ WriterRuns(w) \/ WriterTimeout(w)
      PROVE  UNCHANGED <<inflight, pool, kpc, stop, dpc, owned>>
  BY <1>2 DEF StartWrite, TestFlag, WriterRuns, BlockWhileVacuum, TakeShard, LeaveShard, WriterTimeout,
     evictVars, downVars, fixed
<1>3. ASSUME NEW c \in Cursors, ScanWait(c) \/ ScanStart(c) \/ ScanEnd(c) \/ ScanEndBroadcast(c)
      PROVE  UNCHANGED <<inflight, pool, kpc, stop, dpc, owned>>
  BY <1>3 DEF ScanWait, ScanStart, ScanEnd, ScanEndBroadcast, evictVars, downVars, fixed
<1>4. (\E e \in Evictors : Evict(e) \/ EvictorRuns(e))
      \/ Finished \/ VacuumManual \/ VacuumAuto \/ VacuumTimeout
        => UNCHANGED <<inflight, pool, kpc, stop, dpc, owned>>
  BY DEF Evict, EvictorRuns, PushTest, PushStore, Finished, VacuumManual, VacuumAuto,
     VacuumTimeout, evictVars, downVars, fixed, vars
<1>5. VacuumRuns => UNCHANGED <<inflight, pool, kpc, stop, dpc, owned>>
  BY DEF VacuumRuns, VacuumRaise, VacuumAutoWait, VacuumRead, VacuumDrain, VacuumFlush,
     VacuumBarrier, VacuumWalk, VacuumClear, VacuumWakeWriters, VacuumWakeCursors,
     evictVars, downVars, fixed
<1>6. CASE UNCHANGED vars
  BY <1>1, <1>6 DEF vars
<1> QED BY <1>1, <1>2, <1>3, <1>4, <1>5, <1>6, TakeWorkDInv, WorkerDInv, TimerDInv,
           DestroyDInv DEF Next, WorkerRuns

-----------------------------------------------------------------------------
(* The theorems *)

\* While database_vacuum_rewrite copies the trie, nobody is in it but the actors
\* that stood between a test and its registration when the flag was raised, and the
\* writers that make no test.
THEOREM IntrudersAreKnown == Spec => []WalkIntruders
<1>1. VInv => WalkIntruders
  BY DEF VInv, WalkIntruders, WritersInside, CursorsPast, WorkersPast, FlagUp, Raised, InBody
<1> QED BY <1>1, InitVInv, NextVInv, PTL DEF Spec

\* database_destroy frees the database when no eviction task is in its body, and,
\* with a pool of its own, when that pool has no work queued or running.
THEOREM TeardownIsLast == Spec => []Teardown
<1>1. DInv => Teardown
  BY DEF DInv, Teardown, Quiet, Body, InBody
<1> QED BY <1>1, InitDInv, NextDInv, PTL DEF Spec
=============================================================================
