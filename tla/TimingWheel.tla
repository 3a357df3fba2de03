---------------------------- MODULE TimingWheel ----------------------------
(***************************************************************************)
(* The hierarchical timing wheel (wheel.c), with two of its five wheels:   *)
(* wheel 1 is turned by works of the pool, wheel 2 by a timer that it sets *)
(* on wheel 1 at each of its ticks.  A timer has a plan, one step per      *)
(* wheel, and moves down when a step has elapsed.                          *)
(*                                                                         *)
(* The wheel's lock covers one tick's maintenance; the lock of the         *)
(* hierarchy covers the map of timers.  Maintenance looks at a timer's     *)
(* removed flag first and takes it out of the map later: a cancellation    *)
(* fits between.  The expired timers of a tick are fired without a lock,   *)
(* while the next tick may already run on another worker.                  *)
(*                                                                         *)
(* Maintenance takes the hierarchy's lock while it holds its wheel's; the  *)
(* stop holds the hierarchy's lock while it takes those of the wheels, one *)
(* after the other.  When the two meet, neither ever goes on.              *)
(*                                                                         *)
(* A delay of zero is left out: circle wraps and the timer never fires.    *)
(***************************************************************************)
EXTENDS Naturals, Sequences, FiniteSets, SequencesExt

CONSTANTS TwTimers,   \* the timers users set, each once
          Durations,  \* the durations in ticks of wheel 1
          Slots,      \* slot_count
          Interval,   \* ticks of wheel 1 in one of wheel 2 (Time_Seconds)
          MaxTicks    \* bound on the ticks of wheel 1

VARIABLES
    twTimer,   \* timer -> its record, see NewTimer; TickTimer turns wheel 2
    twMap,     \* timers: the timers that can be cancelled
    twPos,     \* wheel -> position
    twTick,    \* wheel -> ticks so far (history)
    twLists,   \* the lists of expired timers being worked on
    twBegun,   \* the wheels whose next tick has passed its test of stopped
    twHalted,  \* the wheels whose stopped flag is set
    twPhase,   \* runs, stopping (the stop holds the hierarchy's lock), stopped,
               \* aborted (so has been the turn of wheel 1, by the pool)
    twLate,    \* the timers that were set on a stopped hierarchy (history)
    twWaiting  \* a thread sleeps in wait_for_idle_signal
twStopVars == <<twBegun, twHalted, twPhase, twLate>>
twVars == <<twTimer, twMap, twPos, twTick, twLists, twStopVars, twWaiting>>

TickTimer == "tick"
Wheels == 1 .. 2

\* Users cannot reach the timer that turns wheel 2.
ASSUME TimerAssumption == IsFiniteSet(TwTimers) /\ TickTimer \notin TwTimers

\* The wheels have slots, and no duration is zero.
ASSUME WheelAssumption == /\ Slots \in Nat \ {0} /\ Interval \in Nat \ {0}
                          /\ Durations \subseteq Nat \ {0}

\* place: unset, mapped (in the map, not in a slot), slot, expired, queued
\* (its callback is a work of the pool), over.
\* plan: the steps [wheel, delay] left; calls and aborts: callbacks made.
NewTimer == [place |-> "unset", plan |-> <<>>, slot |-> 0, circle |-> 0,
             born |-> 0, removed |-> FALSE, calls |-> 0, aborts |-> 0]
\* A timer that is freed keeps only what its user has seen of it.
Freed(rec) == [NewTimer EXCEPT !.place = "over", !.removed = rec.removed,
                               !.calls = rec.calls, !.aborts = rec.aborts]
\* Its callback was executed, or aborted, and the timer freed.
Called(rec)  == [Freed(rec) EXCEPT !.calls = @ + 1]
Aborted(rec) == [Freed(rec) EXCEPT !.aborts = @ + 1]
Step(w, d) == [wheel |-> w, delay |-> d]

\* Mutant: the slot after the one that the delay leads to.
MutInSlot(rec) ==
    LET w == Head(rec.plan).wheel
        steps == Head(rec.plan).delay
    IN  [rec EXCEPT !.place = "slot",
                    !.slot = (twPos[w] + steps + 1) % Slots,
                    !.circle = (steps - 1) \div Slots,
                    !.born = twTick[w]]

\* timing_wheel_set_timer: the timer enters the slot of its current step.
InSlot(rec) ==
    LET w == Head(rec.plan).wheel
        steps == Head(rec.plan).delay
    IN  [rec EXCEPT !.place = "slot",
                    !.slot = (twPos[w] + steps) % Slots,
                    !.circle = (steps - 1) \div Slots,
                    !.born = twTick[w]]

\* The wheel's lock is free: no maintenance is under way.
Unlocked(w) == \A l \in twLists : l.wheel = w => l.todo = <<>>

\* The hierarchy's lock is free.
MapUnlocked == twPhase # "stopping"

\* hierarchical_timing_wheel_stop has returned.
twStopped == twPhase \in {"stopped", "aborted"}

\* hierarchical_timing_wheel_create and _run.
TwInit ==
    /\ twPos = [w \in Wheels |-> Slots - 1]
    /\ twTick = [w \in Wheels |-> 0]
    /\ twTimer = [t \in TwTimers \cup {TickTimer} |->
                    IF t = TickTimer
                      THEN InSlot([NewTimer EXCEPT !.plan = <<Step(1, Interval)>>])
                      ELSE NewTimer]
    /\ twMap = {} /\ twLists = {} /\ twWaiting = FALSE
    /\ twBegun = {} /\ twHalted = {} /\ twPhase = "runs" /\ twLate = {}

-----------------------------------------------------------------------------
\* timer_duration_rectify, and the plan that set_timer makes of the result.
timer_duration_rectify(d) ==
    IF d > Interval THEN [high |-> d \div Interval, low |-> d % Interval]
                    ELSE [high |-> 0, low |-> d]
PlanOf(d) ==
    LET r == timer_duration_rectify(d)
    IN  IF r.high > 0 THEN <<Step(2, r.high), Step(1, r.low)>> ELSE <<Step(1, r.low)>>

\* hierarchical_timing_wheel_set_timer, first under the hierarchy's lock,
\* then under the wheel's.  It has no test for a stopped wheel.
SetTimer(t, d) ==
    /\ twTimer[t].place = "unset" /\ MapUnlocked
    /\ twTimer' = [twTimer EXCEPT ![t].place = "mapped", ![t].plan = PlanOf(d)]
    /\ twMap' = twMap \cup {t}
    /\ twLate' = IF twStopped THEN twLate \cup {t} ELSE twLate
    /\ UNCHANGED <<twPos, twTick, twLists, twBegun, twHalted, twPhase, twWaiting>>

EnterSlot(t) ==
    /\ twTimer[t].place = "mapped" /\ Unlocked(Head(twTimer[t].plan).wheel)
    /\ twTimer' = [twTimer EXCEPT ![t] = InSlot(@)]
    /\ UNCHANGED <<twMap, twPos, twTick, twLists, twStopVars, twWaiting>>

\* hierarchical_timing_wheel_cancel_timer: nothing happens to a timer that is
\* not in the map.
CancelTimer(t) ==
    /\ t \in twMap /\ twTimer[t].place # "mapped" /\ MapUnlocked
    /\ twTimer' = [twTimer EXCEPT ![t].removed = TRUE, ![t].aborts = @ + 1]
    /\ twMap' = twMap \ {t}
    /\ twWaiting' = (twWaiting /\ twMap' # {})
    /\ UNCHANGED <<twPos, twTick, twLists, twStopVars>>

-----------------------------------------------------------------------------
NextPos(w) == (twPos[w] + 1) % Slots

\* The timers in the slot of wheel w that its next tick looks at.
Visited(w) == {t \in DOMAIN twTimer :
                 /\ twTimer[t].place = "slot" /\ Head(twTimer[t].plan).wheel = w
                 /\ twTimer[t].slot = NextPos(w)}

\* The visit takes one turn off; the timer that has none left expires.
Expires(t) == twTimer[t].circle <= 1

\* timing_wheel_on_tick begins: the flag is tested before the lock is taken.
TickBegin(w) ==
    /\ w \notin twBegun \cup twHalted
    /\ IF w = 1 THEN twTick[1] < MaxTicks ELSE twTimer[TickTimer].place = "queued"
    /\ twBegun' = twBegun \cup {w}
    /\ UNCHANGED <<twTimer, twMap, twPos, twTick, twLists, twHalted, twPhase, twLate, twWaiting>>

\* timing_wheel_on_tick up to the unlocking, without the map: the position
\* moves, removed timers are dropped, turns counted, the rest has expired.
\* wheel 2 sets the timer of its next tick (timing_wheel_run).
OnTick(w) ==
    LET gone == {t \in Visited(w) : twTimer[t].removed}
        due  == {t \in Visited(w) \ gone : Expires(t)}
    IN  /\ w \in twBegun /\ Unlocked(w) /\ (w = 2 => Unlocked(1))
        /\ twBegun' = twBegun \ {w}
        /\ twPos' = [twPos EXCEPT ![w] = NextPos(w)]
        /\ twTick' = [twTick EXCEPT ![w] = @ + 1]
        /\ twTimer' = [t \in DOMAIN twTimer |->
             CASE t \in gone -> Freed(twTimer[t])
               [] t \in due -> [twTimer[t] EXCEPT !.place = "expired", !.circle = 0]
               [] t \in Visited(w) \ (gone \cup due) -> [twTimer[t] EXCEPT !.circle = @ - 1]
               [] t = TickTimer /\ w = 2 ->
                    InSlot([NewTimer EXCEPT !.plan = <<Step(1, Interval)>>])
               [] OTHER -> twTimer[t]]
        /\ \E order \in IF due = {} THEN {<<>>} ELSE SetToSeqs(due) :
             twLists' = IF due = {} THEN twLists
                        ELSE twLists \cup {[wheel |-> w, no |-> twTick[w],
                                            todo |-> order, ids |-> order]}
        /\ UNCHANGED <<twMap, twHalted, twPhase, twLate, twWaiting>>

\* timing_wheel_maintenance takes an expired timer out of the map.
Unmap(l) ==
    /\ l.todo # <<>> /\ MapUnlocked
    /\ twMap' = twMap \ {Head(l.todo)}
    /\ twLists' = (twLists \ {l}) \cup {[l EXCEPT !.todo = Tail(@)]}
    /\ UNCHANGED <<twTimer, twPos, twTick, twStopVars, twWaiting>>

\* The steps that are left when the current one has elapsed, from the first
\* with a delay on.
NextSteps(plan) ==
    LET later == {i \in 2 .. Len(plan) : plan[i].delay # 0}
    IN  IF later = {} THEN <<>> ELSE SubSeq(plan, Min(later), Len(plan))

\* Mutant: a timer that was cancelled meanwhile fires all the same.
MutSkips(t) == FALSE

\* The test for a cancellation in the meantime.
Skips(t) == twTimer[t].removed

\* timing_wheel_fire_expired for the first timer of the list: the next step
\* of its plan, or its callback as a work.
FireHead(l) ==
    /\ l.todo = <<>> /\ l.ids # <<>>
    /\ LET t == Head(l.ids)
           rest == NextSteps(twTimer[t].plan)
       IN  IF Skips(t) THEN twTimer' = [twTimer EXCEPT ![t] = Freed(@)]
           ELSE IF rest # <<>>
             THEN /\ Unlocked(Head(rest).wheel)
                  /\ twTimer' = [twTimer EXCEPT ![t] = InSlot([@ EXCEPT !.plan = rest])]
             ELSE twTimer' = [twTimer EXCEPT ![t].place = "queued"]
    /\ twLists' = (twLists \ {l}) \cup {[l EXCEPT !.ids = Tail(@)]}
    /\ UNCHANGED <<twMap, twPos, twTick, twStopVars, twWaiting>>

\* Its end: with no timer in the map the waiting thread is signalled.
FireEnd(l) ==
    /\ l.todo = <<>> /\ l.ids = <<>> /\ MapUnlocked
    /\ twLists' = twLists \ {l}
    /\ twWaiting' = (twWaiting /\ twMap # {})
    /\ UNCHANGED <<twTimer, twMap, twPos, twTick, twStopVars>>

\* A worker runs the callback of a user's timer.
RunCallback(t) ==
    /\ t # TickTimer /\ twTimer[t].place = "queued"
    /\ twTimer' = [twTimer EXCEPT ![t] = Called(@)]
    /\ UNCHANGED <<twMap, twPos, twTick, twLists, twStopVars, twWaiting>>

-----------------------------------------------------------------------------
\* hierarchical_timing_wheel_stop takes the hierarchy's lock ...
StopLock ==
    /\ twPhase = "runs" /\ twPhase' = "stopping"
    /\ UNCHANGED <<twTimer, twMap, twPos, twTick, twLists, twBegun, twHalted, twLate, twWaiting>>

\* ... and, under it, the lock of each wheel, from the first on, to set its flag.
StopWheel(w) ==
    /\ twPhase = "stopping" /\ w \notin twHalted /\ (\A v \in Wheels : v < w => v \in twHalted)
    /\ Unlocked(w)
    /\ twHalted' = twHalted \cup {w}
    /\ UNCHANGED <<twTimer, twMap, twPos, twTick, twLists, twBegun, twPhase, twLate, twWaiting>>

\* Every timer in the map is marked and its abort callback called; those on a
\* later step of their plan are not there.
StopTimers ==
    /\ twPhase = "stopping" /\ twHalted = Wheels
    /\ twPhase' = "stopped"
    /\ twTimer' = [t \in DOMAIN twTimer |->
         IF t \in twMap THEN [twTimer[t] EXCEPT !.removed = TRUE, !.aborts = @ + 1]
                        ELSE twTimer[t]]
    /\ twMap' = {} /\ twWaiting' = FALSE
    /\ UNCHANGED <<twPos, twTick, twLists, twBegun, twHalted, twLate>>

\* Timers whose abort callback was made already.
Spared(t) == twTimer[t].removed

\* timing_wheel_worker_abort of the wheels in ws: their slots are emptied.
AbortWheels(ws) ==
    twTimer' = [t \in DOMAIN twTimer |->
        IF twTimer[t].place = "slot" /\ Head(twTimer[t].plan).wheel \in ws
          THEN IF Spared(t) \/ t = TickTimer THEN Freed(twTimer[t]) ELSE Aborted(twTimer[t])
        ELSE IF t = TickTimer /\ twTimer[t].place = "queued" /\ 2 \in ws
          THEN Freed(twTimer[t])
        ELSE twTimer[t]]

\* The pool, shut down after the stop, aborts the works it still has: the
\* callback of a timer, ...
AbortCallback(t) ==
    /\ twStopped /\ t # TickTimer /\ twTimer[t].place = "queued"
    /\ twTimer' = [twTimer EXCEPT ![t] = Aborted(@)]
    /\ UNCHANGED <<twMap, twPos, twTick, twLists, twStopVars, twWaiting>>

\* ... the tick of wheel 2, unless it was run in vain on the stopped wheel, ...
AbortTick ==
    /\ twTimer[TickTimer].place = "queued" /\ 2 \notin twBegun
    /\ \/ 2 \in twHalted /\ twTimer' = [twTimer EXCEPT ![TickTimer] = Freed(@)]
       \/ twStopped /\ Unlocked(2) /\ AbortWheels({2})
    /\ UNCHANGED <<twMap, twPos, twTick, twLists, twStopVars, twWaiting>>

\* ... and the turn of wheel 1 (which aborts wheel 2 when its tick is a timer on
\* wheel 1).
AbortTurn ==
    /\ twPhase = "stopped" /\ 1 \notin twBegun /\ \A w \in Wheels : Unlocked(w)
    /\ twPhase' = "aborted"
    /\ AbortWheels(IF twTimer[TickTimer].place = "slot" THEN {1, 2} ELSE {1})
    /\ UNCHANGED <<twMap, twPos, twTick, twLists, twBegun, twHalted, twLate, twWaiting>>

\* hierarchical_timing_wheel_wait_for_idle_signal sleeps.
WaitForIdle ==
    /\ ~twWaiting /\ twMap # {} /\ MapUnlocked
    /\ twWaiting' = TRUE
    /\ UNCHANGED <<twTimer, twMap, twPos, twTick, twLists, twStopVars>>

TwNext ==
    \/ \E w \in Wheels : TickBegin(w) \/ OnTick(w) \/ StopWheel(w)
    \/ StopLock \/ StopTimers \/ AbortTick \/ AbortTurn \/ WaitForIdle
    \/ \E l \in twLists : Unmap(l) \/ FireHead(l) \/ FireEnd(l)
    \/ \E t \in TwTimers : \/ EnterSlot(t) \/ CancelTimer(t)
                           \/ RunCallback(t) \/ AbortCallback(t)
                           \/ \E d \in Durations : SetTimer(t, d)

-----------------------------------------------------------------------------
\* The context of a timer that was set before the stop is handed to one
\* callback, execute or abort, and to it once, in every order of ticks,
\* cancellations, stop and the pool's aborts.  (One that is set later stays in
\* the map when the pool aborts it, and a cancellation aborts it again.)
CalledOnce == \A t \in TwTimers \ twLate : twTimer[t].calls + twTimer[t].aborts <= 1

\* What "a timer's context" would be without the exception.
AlwaysCalledOnce == \A t \in TwTimers : twTimer[t].calls + twTimer[t].aborts <= 1

\* No step of a plan takes longer than its delay, and one of at most a turn of
\* its wheel takes exactly that.  (Maintenance counts the first visit as a turn:
\* longer steps are a turn short.)
StepOnTime ==
    [][\A t \in TwTimers :
         twTimer[t].place = "slot" /\ twTimer'[t].place = "expired" =>
           LET d == Head(twTimer[t].plan).delay
               took == twTick'[Head(twTimer[t].plan).wheel] - twTimer[t].born
           IN  took <= d /\ (d <= Slots => took = d)]_twVars

\* No lost wake-up: whoever waits for the wheel to be idle waits while there
\* are timers to cancel or expired ones still to fire.
IdleHeard == twWaiting => twMap # {} \/ twLists # {}

\* One call per timer, and no waiter left behind by the last one.
CallbacksSound == CalledOnce /\ IdleHeard

\* The stop gets the locks it waits for (database.c 1536: "The wheel stop cancels
\* all timers and the pool join ensures all workers complete."): no wheel it has
\* still to halt is in a maintenance that waits for the hierarchy's lock.
StopGetsLocks == twPhase = "stopping" => \A w \in Wheels \ twHalted : Unlocked(w)
=============================================================================
