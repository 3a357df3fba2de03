---------------------------- MODULE TransactionId ----------------------------
(***************************************************************************)
(* The generator of transaction IDs (src/Workers/transaction_id.c) through *)
(* several lives of a process.  An ID has three fields: seconds and        *)
(* nanoseconds of the wall clock, and a global count.  The two atomics of  *)
(* the generator live in memory; a restart sets them to zero, and WAL      *)
(* recovery (wal_manager_recover) raises them with                         *)
(* transaction_id_advance_to above the largest ID it finds in the log.     *)
(* Other databases opened by the same process do so too, at any moment.    *)
(***************************************************************************)
EXTENDS Integers, FiniteSets

CONSTANTS
  Threads,       \* callers of the generator
  Opener,        \* the thread that runs recovery before the others start
  BatchSize,     \* TXN_ID_BATCH_SIZE (1000 in the code)
  ForeignIds,    \* largest IDs of other databases this process may open
  BackSteps,     \* when the wall clock may step back: subset of {"open", "down"}
  MaxTime,       \* bound: seconds 1..MaxTime
  MaxNano,       \* bound: nanoseconds 0..MaxNano
  MaxDraws,      \* bound: IDs drawn in one life of the process
  MaxLives       \* bound: lives of the process

Ids == [time : Nat, nanos : Nat, count : Nat]
ZeroId == [time |-> 0, nanos |-> 0, count |-> 0]

ASSUME TransactionIdAssumption ==
  /\ IsFiniteSet(Threads) /\ Opener \in Threads
  /\ BatchSize \in Nat \ {0}
  /\ ForeignIds \subseteq Ids
  /\ BackSteps \subseteq {"open", "down"}
  /\ MaxTime \in Nat \ {0} /\ MaxNano \in Nat
  /\ MaxDraws \in Nat \ {0} /\ MaxLives \in Nat \ {0}

\* transaction_id_compare: time, then nanos, then count.
IdLess(a, b) ==
  \/ a.time < b.time
  \/ a.time = b.time /\ a.nanos < b.nanos
  \/ a.time = b.time /\ a.nanos = b.nanos /\ a.count < b.count

VARIABLES
  wall,               \* CLOCK_REALTIME, [time, nanos]
  g_global_count,     \* the count of the next ID
  g_high_water_time,  \* no ID is stamped below it
  mode,               \* "recover", "open" or "down"
  lives,              \* lives of the process so far
  persisted,          \* IDs in the log of this database
  recovered,          \* the largest of them at the last start
  issued,             \* history: IDs drawn in this life
  draws,              \* history: how many were drawn in this life
  behind,             \* history: the clock was behind the recovered ID when an
                      \* ID of this life was stamped
  pc, my, seen        \* thread -> position, ID or target, loaded word

tidVars == <<wall, g_global_count, g_high_water_time, mode, lives, persisted,
          recovered, issued, draws, behind, pc, my, seen>>

Clock == [time : 1 .. MaxTime, nanos : 0 .. MaxNano]

TidTypeOK ==
  /\ wall \in Clock
  /\ g_global_count \in Nat
  /\ g_high_water_time \in Nat
  /\ mode \in {"recover", "open", "down"}
  /\ lives \in 1 .. MaxLives
  /\ persisted \subseteq Ids
  /\ recovered \in Ids
  /\ issued \subseteq Ids
  /\ draws \in 0 .. MaxDraws
  /\ behind \in BOOLEAN
  /\ pc \in [Threads -> {"idle", "stamped", "clamped",
                         "adv_load", "adv_count", "adv_load_time", "adv_time"}]
  /\ my \in [Threads -> Ids]
  /\ seen \in [Threads -> Nat]

TidInit ==
  /\ wall = [time |-> 1, nanos |-> 0]
  /\ g_global_count = 0
  /\ g_high_water_time = 0
  /\ mode = "open"
  /\ lives = 1
  /\ persisted = {}
  /\ recovered = ZeroId
  /\ issued = {}
  /\ draws = 0
  /\ behind = FALSE
  /\ pc = [t \in Threads |-> "idle"]
  /\ my = [t \in Threads |-> ZeroId]
  /\ seen = [t \in Threads |-> 0]

memory == <<g_global_count, g_high_water_time>>
history == <<lives, persisted, recovered, issued, draws, behind>>

Goto(t, to) == pc' = [pc EXCEPT ![t] = to]

\* External: the clock runs, and steps back where BackSteps allows it.
Later(a, b) == a.time < b.time \/ (a.time = b.time /\ a.nanos < b.nanos)
Tick ==
  /\ \E c \in Clock : /\ c # wall
                      /\ Later(wall, c) \/ mode \in BackSteps
                      /\ wall' = c
  /\ UNCHANGED <<memory, mode, history, pc, my, seen>>

-----------------------------------------------------------------------------
(* transaction_id_get_next *)

NextStamp(t) ==
  /\ mode = "open" /\ pc[t] = "idle"
  /\ draws + Cardinality({u \in Threads : pc[u] \in {"stamped", "clamped"}}) < MaxDraws
  /\ my' = [my EXCEPT ![t] = [time |-> wall.time, nanos |-> wall.nanos, count |-> 0]]
  /\ behind' = (behind \/ Later(wall, recovered))
  /\ Goto(t, "stamped")
  /\ UNCHANGED <<wall, memory, mode, lives, persisted, recovered, issued, draws, seen>>

\* Mutant: no high-water mark.
NextClampNever(t) ==
  /\ pc[t] = "stamped"
  /\ Goto(t, "clamped")
  /\ UNCHANGED <<wall, memory, mode, history, my, seen>>

\* Below the high-water mark the stamp becomes (mark, 0 nanoseconds).
NextClamp(t) ==
  /\ pc[t] = "stamped"
  /\ my' = IF my[t].time < g_high_water_time
           THEN [my EXCEPT ![t].time = g_high_water_time, ![t].nanos = 0]
           ELSE my
  /\ Goto(t, "clamped")
  /\ UNCHANGED <<wall, memory, mode, history, seen>>

\* Mutant: load, then store, instead of fetch_add: lost increments.
NextCountTorn(t) ==
  /\ pc[t] = "clamped"
  /\ LET x == [my[t] EXCEPT !.count = g_global_count] IN
     /\ my' = [my EXCEPT ![t] = x]
     /\ issued' = issued \cup {x}
  /\ draws' = draws + 1
  /\ g_global_count' \in {g_global_count, g_global_count + 1}
  /\ Goto(t, "idle")
  /\ UNCHANGED <<wall, g_high_water_time, mode, lives, persisted, recovered, behind, seen>>

NextCount(t) ==
  /\ pc[t] = "clamped"
  /\ LET x == [my[t] EXCEPT !.count = g_global_count] IN
     /\ my' = [my EXCEPT ![t] = x]
     /\ issued' = issued \cup {x}
  /\ draws' = draws + 1
  /\ g_global_count' = g_global_count + 1
  /\ Goto(t, "idle")
  /\ UNCHANGED <<wall, g_high_water_time, mode, lives, persisted, recovered, behind, seen>>

-----------------------------------------------------------------------------
(* transaction_id_advance_to: two CAS loops, each on one atomic *)

AdvanceTo(t, target) ==
  /\ my' = [my EXCEPT ![t] = target]
  /\ Goto(t, "adv_load")

\* database_create_with_config of another database in this process.
OpenForeign(t) ==
  /\ mode = "open" /\ pc[t] = "idle"
  /\ \E x \in ForeignIds : AdvanceTo(t, x)
  /\ UNCHANGED <<wall, memory, mode, history, seen>>

AdvanceLoadCount(t) ==
  /\ pc[t] = "adv_load"
  /\ seen' = [seen EXCEPT ![t] = g_global_count]
  /\ Goto(t, "adv_count")
  /\ UNCHANGED <<wall, memory, mode, history, my>>

\* The counter continues beyond the batch the recovered ID may belong to.
NewCount(t) == my[t].count + BatchSize

\* A failed compare-exchange loads the current value into seen.
AdvanceCount(t) ==
  /\ pc[t] = "adv_count"
  /\ \/ /\ NewCount(t) <= seen[t]
        /\ Goto(t, "adv_load_time")
        /\ UNCHANGED <<g_global_count, seen>>
     \/ /\ NewCount(t) > seen[t] /\ g_global_count = seen[t]
        /\ g_global_count' = NewCount(t)
        /\ Goto(t, "adv_load_time")
        /\ UNCHANGED seen
     \/ /\ NewCount(t) > seen[t] /\ g_global_count # seen[t]
        /\ seen' = [seen EXCEPT ![t] = g_global_count]
        /\ UNCHANGED <<g_global_count, pc>>
  /\ UNCHANGED <<wall, g_high_water_time, mode, history, my>>

AdvanceLoadTime(t) ==
  /\ pc[t] = "adv_load_time"
  /\ seen' = [seen EXCEPT ![t] = g_high_water_time]
  /\ Goto(t, "adv_time")
  /\ UNCHANGED <<wall, memory, mode, history, my>>

AdvanceDone(t) ==
  /\ Goto(t, "idle")
  /\ mode' = IF mode = "recover" THEN "open" ELSE mode

AdvanceTime(t) ==
  /\ pc[t] = "adv_time"
  /\ \/ /\ my[t].time <= seen[t]
        /\ AdvanceDone(t)
        /\ UNCHANGED <<g_high_water_time, seen>>
     \/ /\ my[t].time > seen[t] /\ g_high_water_time = seen[t]
        /\ g_high_water_time' = my[t].time
        /\ AdvanceDone(t)
        /\ UNCHANGED seen
     \/ /\ my[t].time > seen[t] /\ g_high_water_time # seen[t]
        /\ seen' = [seen EXCEPT ![t] = g_high_water_time]
        /\ UNCHANGED <<g_high_water_time, pc, mode>>
  /\ UNCHANGED <<wall, g_global_count, history, my>>

-----------------------------------------------------------------------------
(* The process *)

\* The WAL keeps an entry with the ID (module WalManager).
Persist ==
  /\ mode = "open"
  /\ \E x \in issued \ persisted : persisted' = persisted \cup {x}
  /\ UNCHANGED <<wall, memory, mode, lives, recovered, issued, draws, behind, pc, my, seen>>

Crash ==
  /\ mode # "down" /\ lives < MaxLives
  /\ mode' = "down"
  /\ g_global_count' = 0 /\ g_high_water_time' = 0
  /\ issued' = {} /\ draws' = 0 /\ behind' = FALSE
  /\ pc' = [t \in Threads |-> "idle"]
  /\ my' = [t \in Threads |-> ZeroId]
  /\ seen' = [t \in Threads |-> 0]
  /\ UNCHANGED <<wall, lives, persisted, recovered>>

\* wal_manager_recover: the largest ID of the log, if the log has entries.
Start ==
  /\ mode = "down"
  /\ lives' = lives + 1
  /\ IF persisted = {}
     THEN /\ recovered' = ZeroId
          /\ mode' = "open"
          /\ UNCHANGED <<pc, my>>
     ELSE /\ recovered' = CHOOSE x \in persisted : \A y \in persisted : ~IdLess(x, y)
          /\ mode' = "recover"
          /\ AdvanceTo(Opener, recovered')
  /\ UNCHANGED <<wall, memory, persisted, issued, draws, behind, seen>>

ThreadStep(t) ==
  \/ NextStamp(t) \/ NextClamp(t) \/ NextCount(t)
  \/ OpenForeign(t) \/ AdvanceLoadCount(t) \/ AdvanceCount(t)
  \/ AdvanceLoadTime(t) \/ AdvanceTime(t)

TidNext == Tick \/ Persist \/ Crash \/ Start \/ \E t \in Threads : ThreadStep(t)

TidSpec == TidInit /\ [][TidNext]_tidVars

-----------------------------------------------------------------------------
(* Properties *)

\* Concurrent get_next and advance_to never issue one ID twice in one life.
DistinctDraws == Cardinality(issued) = draws

\* An ID drawn after recovery is above the recovered one in the order of
\* transaction_id_compare as long as the clock is not behind it; when it is,
\* the clamp still keeps the seconds and the count from falling below, even if
\* other databases advance the generator at the same time.
AboveRecovered ==
  recovered # ZeroId =>
    \A x \in issued : /\ x.time >= recovered.time /\ x.count > recovered.count
                      /\ ~ behind => IdLess(recovered, x)

\* The comment in transaction_id_advance_to: "even if the wall clock is behind
\* the pre-reboot time [...] new IDs are strictly greater than recovered ones".
\* The clamp sets the nanoseconds to 0, and this does not hold.
StrictlyAbove == recovered # ZeroId => \A x \in issued : IdLess(recovered, x)

=============================================================================
