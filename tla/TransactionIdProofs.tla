------------------------- MODULE TransactionIdProofs -------------------------
(***************************************************************************)
(* Proofs about the generator of transaction IDs, for every number of      *)
(* threads, every batch size, every behaviour of the clock and any number  *)
(* of lives of the process: the type invariant, DistinctDraws and          *)
(* AboveRecovered.  Neither of the two is inductive.  What makes an ID new is   *)
(* that the counter is above every count issued; what keeps the floor is   *)
(* that both atomics only grow within a life, so that the word a CAS loop  *)
(* has loaded is never above the atomic, and that recovery has raised both *)
(* before any other thread runs.                                           *)
(***************************************************************************)
EXTENDS TransactionId, FiniteSetTheorems, TLAPS

USE TransactionIdAssumption

Drawing == {u \in Threads : pc[u] \in {"stamped", "clamped"}}

Advancing == {"adv_load", "adv_count", "adv_load_time", "adv_time"}

HasLargest(P) == \E x \in P : \A y \in P : ~ IdLess(x, y)

\* The log is empty or has a largest ID, so wal_manager_recover finds one.
LogHasLargest == persisted # {} => HasLargest(persisted)

\* While the process is down nothing of the last life is left.
DownIsEmpty ==
  mode = "down" => /\ lives < MaxLives
                   /\ issued = {} /\ draws = 0
                   /\ pc = [t \in Threads |-> "idle"]

\* Recovery runs alone, and raises the count before the time.
RecoveryAlone ==
  mode = "recover" =>
    /\ issued = {} /\ draws = 0
    /\ my[Opener] = recovered
    /\ pc[Opener] \in Advancing
    /\ \A t \in Threads \ {Opener} : pc[t] = "idle"
    /\ pc[Opener] \in {"adv_load_time", "adv_time"} => g_global_count > recovered.count

\* Once the process is open both atomics are beyond the recovered ID.
OpenIsRaised ==
  mode = "open" => /\ g_high_water_time >= recovered.time
                   /\ recovered # ZeroId => g_global_count > recovered.count

\* A loaded word is never above its atomic.
SeenBelow ==
  \A t \in Threads : /\ pc[t] = "adv_count" => seen[t] <= g_global_count
                     /\ pc[t] = "adv_time" => seen[t] <= g_high_water_time

\* An ID is drawn in an open process only, and its clamped time is final.
StampsClamped ==
  \A t \in Threads : /\ pc[t] \in {"stamped", "clamped"} => mode = "open"
                     /\ pc[t] = "clamped" => my[t].time >= recovered.time

\* A stamp that no clock behind the recovered ID gave is not behind it either,
\* also when the clamp has changed it.
StampsAhead ==
  \A t \in Threads : (pc[t] \in {"stamped", "clamped"} /\ ~ behind) => ~ Later(my[t], recovered)

\* Every count issued is below the counter.
CountsBelow ==
  /\ IsFiniteSet(issued)
  /\ \A x \in issued : x.count < g_global_count

DrawsBounded == draws + Cardinality(Drawing) <= MaxDraws

IInv ==
  /\ TidTypeOK
  /\ LogHasLargest
  /\ DownIsEmpty
  /\ RecoveryAlone
  /\ OpenIsRaised
  /\ SeenBelow
  /\ StampsClamped
  /\ StampsAhead
  /\ CountsBelow
  /\ DistinctDraws
  /\ AboveRecovered
  /\ DrawsBounded

-----------------------------------------------------------------------------
(* The order of IDs and the threads that draw one *)

\* transaction_id_compare is a strict order in which every two IDs compare.
LEMMA IdLessOrder ==
  ASSUME NEW a \in Ids, NEW b \in Ids, NEW c \in Ids
  PROVE  /\ ~ IdLess(a, a)
         /\ IdLess(a, b) => ~ IdLess(b, a)
         /\ IdLess(a, b) /\ ~ IdLess(c, b) => ~ IdLess(c, a)
  BY DEF IdLess, Ids

\* A log with a largest ID has one after an ID is added.
LEMMA LargestKept ==
  ASSUME NEW P \in SUBSET Ids, NEW z \in Ids,
         P # {} => HasLargest(P)
  PROVE  HasLargest(P \cup {z})
<1> USE DEF HasLargest
<1>1. CASE P = {}
  BY <1>1, IdLessOrder
<1>2. CASE P # {}
  <2>1. PICK x \in P : \A y \in P : ~ IdLess(x, y)
    BY <1>2
  <2>2. CASE IdLess(x, z)
    <3>1. \A y \in P \cup {z} : ~ IdLess(z, y)
      BY <2>1, <2>2, IdLessOrder
    <3> QED BY <3>1
  <2>3. CASE ~ IdLess(x, z)
    BY <2>1, <2>3
  <2> QED BY <2>2, <2>3
<1> QED BY <1>1, <1>2

\* The drawing threads are finitely many.
LEMMA DrawingFinite ==
  ASSUME TidTypeOK
  PROVE  IsFiniteSet(Drawing) /\ Cardinality(Drawing) \in Nat
<1>1. Drawing \subseteq Threads
  BY DEF Drawing
<1>2. IsFiniteSet(Drawing)
  BY <1>1, FS_Subset
<1> QED BY <1>2, FS_CardinalityType

\* Their number when one thread enters or leaves.
LEMMA DrawingStep ==
  ASSUME TidTypeOK, NEW t \in Threads, NEW to, Goto(t, to)
  PROVE  /\ pc[t] = "idle" /\ to = "stamped" =>
              Cardinality(Drawing') = Cardinality(Drawing) + 1
         /\ pc[t] = "stamped" /\ to = "clamped" => Drawing' = Drawing
         /\ pc[t] = "clamped" /\ to = "idle" =>
              Cardinality(Drawing') = Cardinality(Drawing) - 1
         /\ pc[t] \notin {"stamped", "clamped"} /\ to \notin {"stamped", "clamped"} =>
              Drawing' = Drawing
<1>1. ASSUME pc[t] = "idle", to = "stamped"
      PROVE  Cardinality(Drawing') = Cardinality(Drawing) + 1
  <2>1. Drawing' = Drawing \cup {t} /\ t \notin Drawing
    BY <1>1 DEF Drawing, Goto, TidTypeOK
  <2> QED BY <2>1, DrawingFinite, FS_AddElement
<1>2. ASSUME pc[t] = "clamped", to = "idle"
      PROVE  Cardinality(Drawing') = Cardinality(Drawing) - 1
  <2>1. Drawing' = Drawing \ {t} /\ t \in Drawing
    BY <1>2 DEF Drawing, Goto, TidTypeOK
  <2> QED BY <2>1, DrawingFinite, FS_RemoveElement
<1>3. pc[t] = "stamped" /\ to = "clamped" => Drawing' = Drawing
  BY DEF Drawing, Goto, TidTypeOK
<1>4. pc[t] \notin {"stamped", "clamped"} /\ to \notin {"stamped", "clamped"} =>
        Drawing' = Drawing
  BY DEF Drawing, Goto, TidTypeOK
<1> QED BY <1>1, <1>2, <1>3, <1>4

-----------------------------------------------------------------------------
(* The initial state *)

\* The first life starts with nothing issued and nothing to recover.
LEMMA InitIInv == TidInit => IInv
<1> SUFFICES ASSUME TidInit PROVE IInv
  OBVIOUS
<1>1. TidTypeOK
  <2>1. behind \in BOOLEAN
    BY DEF TidInit
  <2> QED BY <2>1 DEF TidInit, TidTypeOK, Clock, Ids, ZeroId
<1>2. Drawing = {}
  BY DEF TidInit, Drawing
<1>3. DrawsBounded /\ CountsBelow /\ DistinctDraws
  BY <1>2, FS_EmptySet DEF TidInit, DrawsBounded, CountsBelow, DistinctDraws
<1>4. LogHasLargest /\ DownIsEmpty /\ RecoveryAlone /\ OpenIsRaised
  BY DEF TidInit, LogHasLargest, DownIsEmpty, RecoveryAlone, OpenIsRaised, ZeroId
<1>5. SeenBelow /\ StampsClamped /\ StampsAhead /\ AboveRecovered
  BY DEF TidInit, SeenBelow, StampsClamped, StampsAhead, AboveRecovered, ZeroId
<1> QED BY <1>1, <1>3, <1>4, <1>5 DEF IInv

-----------------------------------------------------------------------------
(* transaction_id_get_next *)

\* Taking a stamp leaves the atomics and the IDs alone.
LEMMA NextStampIInv ==
  ASSUME IInv, NEW t \in Threads, NextStamp(t)
  PROVE  IInv'
<1> USE DEF IInv, NextStamp, memory, history
<1>1. TidTypeOK'
  BY DEF TidTypeOK, Goto, Ids, Clock
<1>2. DrawsBounded'
  <2>1. Cardinality(Drawing') = Cardinality(Drawing) + 1
    BY DrawingStep
  <2>2. draws + Cardinality(Drawing) < MaxDraws
    BY DEF Drawing
  <2> QED BY <2>1, <2>2, DrawingFinite DEF DrawsBounded, TidTypeOK
<1>3. LogHasLargest' /\ DownIsEmpty' /\ RecoveryAlone' /\ OpenIsRaised'
  BY DEF LogHasLargest, DownIsEmpty, RecoveryAlone, OpenIsRaised
<1>4. SeenBelow' /\ StampsClamped'
  BY DEF SeenBelow, StampsClamped, TidTypeOK, Goto
<1>5. CountsBelow' /\ DistinctDraws' /\ AboveRecovered'
  BY DEF CountsBelow, DistinctDraws, AboveRecovered
<1>6. StampsAhead'
  <2> SUFFICES ASSUME NEW u \in Threads, pc'[u] \in {"stamped", "clamped"}, ~ behind'
               PROVE  ~ Later(my'[u], recovered)
    BY DEF StampsAhead
  <2>1. CASE u = t
    BY <2>1 DEF Later, TidTypeOK
  <2>2. CASE u # t
    BY <2>2 DEF StampsAhead, TidTypeOK, Goto
  <2> QED BY <2>1, <2>2
<1> QED BY <1>1, <1>2, <1>3, <1>4, <1>5, <1>6 DEF IInv

\* The clamped time is at or above the mark, which is above the floor.
LEMMA NextClampIInv ==
  ASSUME IInv, NEW t \in Threads, NextClamp(t)
  PROVE  IInv'
<1> USE DEF IInv, NextClamp, memory, history
<1>1. TidTypeOK'
  BY DEF TidTypeOK, Goto, Ids, Clock
<1>2. DrawsBounded'
  <2>1. Drawing' = Drawing
    BY DrawingStep
  <2> QED BY <2>1 DEF DrawsBounded
<1>3. mode = "open"
  BY DEF StampsClamped
<1>4. LogHasLargest' /\ DownIsEmpty' /\ RecoveryAlone' /\ OpenIsRaised'
  BY <1>3 DEF LogHasLargest, DownIsEmpty, RecoveryAlone, OpenIsRaised
<1>5. SeenBelow'
  BY DEF SeenBelow, TidTypeOK, Goto
<1>6. my'[t].time >= recovered.time
  BY <1>3 DEF TidTypeOK, OpenIsRaised, Ids
<1>7. StampsClamped'
  BY <1>3, <1>6 DEF StampsClamped, TidTypeOK, Goto
<1>8. CountsBelow' /\ DistinctDraws' /\ AboveRecovered'
  BY DEF CountsBelow, DistinctDraws, AboveRecovered
<1>9. StampsAhead'
  <2> SUFFICES ASSUME NEW u \in Threads, pc'[u] \in {"stamped", "clamped"}, ~ behind
               PROVE  ~ Later(my'[u], recovered)
    BY DEF StampsAhead
  <2>1. CASE u = t
    <3>1. ~ Later(my[t], recovered) /\ my[t] \in Ids /\ recovered \in Ids
      BY DEF StampsAhead, TidTypeOK
    <3>2. my'[t] = my[t] \/ (my'[t].time = g_high_water_time /\ my[t].time < g_high_water_time)
      BY DEF TidTypeOK, Ids
    <3> QED BY <2>1, <3>1, <3>2 DEF Later, Ids, TidTypeOK
  <2>2. CASE u # t
    BY <2>2 DEF StampsAhead, TidTypeOK, Goto
  <2> QED BY <2>1, <2>2
<1> QED BY <1>1, <1>2, <1>4, <1>5, <1>7, <1>8, <1>9 DEF IInv

\* The fetch_add gives the ID a count that no issued ID has.
LEMMA NextCountIInv ==
  ASSUME IInv, NEW t \in Threads, NextCount(t)
  PROVE  IInv'
<1> USE DEF IInv, NextCount
<1> DEFINE x == [my[t] EXCEPT !.count = g_global_count]
<1>1. /\ x \in Ids /\ x.count = g_global_count /\ x.time = my[t].time
      /\ issued' = issued \cup {x}
  BY DEF TidTypeOK, Ids
<1>2. mode = "open"
  BY DEF StampsClamped
<1> HIDE DEF x
<1>3. /\ Cardinality(Drawing') = Cardinality(Drawing) - 1
      /\ Cardinality(Drawing) \in Nat /\ Cardinality(Drawing') \in Nat
  <2>1. IsFiniteSet(Drawing')
    <3>1. Drawing' \subseteq Threads
      BY DEF Drawing
    <3> QED BY <3>1, FS_Subset
  <2> QED BY <2>1, DrawingStep, DrawingFinite, FS_CardinalityType
<1>4. draws' <= MaxDraws /\ DrawsBounded'
  BY <1>3 DEF DrawsBounded, TidTypeOK
<1>5. TidTypeOK'
  <2>1. my' \in [Threads -> Ids]
    BY <1>1 DEF TidTypeOK, x
  <2> QED BY <1>1, <1>4, <2>1 DEF TidTypeOK, Goto
<1>6. x \notin issued
  BY <1>1 DEF CountsBelow, TidTypeOK, Ids
<1>7. IsFiniteSet(issued') /\ Cardinality(issued') = Cardinality(issued) + 1
  <2>1. IsFiniteSet(issued)
    BY DEF CountsBelow
  <2> HIDE DEF IInv, NextCount
  <2> QED BY <1>1, <1>6, <2>1, FS_AddElement
<1>8. CountsBelow' /\ DistinctDraws'
  <2>1. \A y \in issued' : y.count < g_global_count'
    BY <1>1 DEF CountsBelow, TidTypeOK, Ids
  <2> QED BY <1>7, <2>1 DEF CountsBelow, DistinctDraws
<1>9. AboveRecovered'
  <2>1. recovered # ZeroId => x.count > recovered.count
    BY <1>1, <1>2 DEF OpenIsRaised
  <2>2. x.time >= recovered.time
    BY <1>1 DEF StampsClamped
  <2>3. x.nanos = my[t].nanos
    BY DEF TidTypeOK, Ids, x
  <2>4. ~ behind => ~ Later(my[t], recovered)
    BY DEF StampsAhead
  <2>5. (~ behind /\ recovered # ZeroId) => IdLess(recovered, x)
    BY <1>1, <2>1, <2>2, <2>3, <2>4 DEF Later, IdLess, TidTypeOK, Ids
  <2> QED BY <1>1, <2>1, <2>2, <2>5 DEF AboveRecovered
<1>10. LogHasLargest' /\ DownIsEmpty' /\ RecoveryAlone' /\ OpenIsRaised'
  BY <1>2 DEF LogHasLargest, DownIsEmpty, RecoveryAlone, OpenIsRaised, TidTypeOK, Ids
<1>11. SeenBelow'
  BY DEF SeenBelow, TidTypeOK, Goto
<1>12. StampsClamped' /\ StampsAhead'
  BY <1>2 DEF StampsClamped, StampsAhead, TidTypeOK, Goto
<1> QED BY <1>4, <1>5, <1>8, <1>9, <1>10, <1>11, <1>12 DEF IInv

-----------------------------------------------------------------------------
(* transaction_id_advance_to *)

\* Another database is opened once this one is.
LEMMA OpenForeignIInv ==
  ASSUME IInv, NEW t \in Threads, OpenForeign(t)
  PROVE  IInv'
<1> USE DEF IInv, OpenForeign, AdvanceTo, memory, history
<1>1. TidTypeOK'
  BY DEF TidTypeOK, Goto
<1>2. DrawsBounded'
  <2>1. Drawing' = Drawing
    BY DrawingStep
  <2> QED BY <2>1 DEF DrawsBounded
<1>3. LogHasLargest' /\ DownIsEmpty' /\ RecoveryAlone' /\ OpenIsRaised'
  BY DEF LogHasLargest, DownIsEmpty, RecoveryAlone, OpenIsRaised
<1>4. SeenBelow' /\ StampsClamped' /\ StampsAhead'
  BY DEF SeenBelow, StampsClamped, StampsAhead, TidTypeOK, Goto
<1>5. CountsBelow' /\ DistinctDraws' /\ AboveRecovered'
  BY DEF CountsBelow, DistinctDraws, AboveRecovered
<1> QED BY <1>1, <1>2, <1>3, <1>4, <1>5 DEF IInv

\* A load gives a word equal to the atomic.
LEMMA AdvanceLoadIInv ==
  ASSUME IInv, NEW t \in Threads, AdvanceLoadCount(t) \/ AdvanceLoadTime(t)
  PROVE  IInv'
<1> USE DEF IInv, AdvanceLoadCount, AdvanceLoadTime, memory, history
<1>1. TidTypeOK'
  BY DEF TidTypeOK, Goto
<1>2. DrawsBounded'
  <2>1. Drawing' = Drawing
    BY DrawingStep
  <2> QED BY <2>1 DEF DrawsBounded
<1>3. LogHasLargest' /\ OpenIsRaised'
  BY DEF LogHasLargest, OpenIsRaised
<1>4. DownIsEmpty'
  BY DEF DownIsEmpty, TidTypeOK
<1>5. RecoveryAlone'
  BY DEF RecoveryAlone, TidTypeOK, Goto, Advancing
<1>6. SeenBelow' /\ StampsClamped' /\ StampsAhead'
  BY DEF SeenBelow, StampsClamped, StampsAhead, TidTypeOK, Goto
<1>7. CountsBelow' /\ DistinctDraws' /\ AboveRecovered'
  BY DEF CountsBelow, DistinctDraws, AboveRecovered
<1> QED BY <1>1, <1>2, <1>3, <1>4, <1>5, <1>6, <1>7 DEF IInv

\* The first CAS loop only raises the counter, and leaves it beyond the target.
LEMMA AdvanceCountIInv ==
  ASSUME IInv, NEW t \in Threads, AdvanceCount(t)
  PROVE  IInv'
<1> USE DEF IInv, AdvanceCount, history
<1>1. /\ g_global_count' \in Nat /\ g_global_count' >= g_global_count
      /\ pc' = pc \/ Goto(t, "adv_load_time")
      /\ pc'[t] = "adv_load_time" => g_global_count' > my[t].count
  BY DEF TidTypeOK, Goto, NewCount, Ids, SeenBelow
<1>2. TidTypeOK'
  BY <1>1 DEF TidTypeOK, Goto
<1>3. DrawsBounded'
  <2>1. Drawing' = Drawing
    BY <1>1 DEF Drawing, Goto, TidTypeOK
  <2> QED BY <2>1 DEF DrawsBounded
<1>4. LogHasLargest' /\ OpenIsRaised'
  BY <1>1 DEF LogHasLargest, OpenIsRaised, TidTypeOK, Ids
<1>5. DownIsEmpty'
  BY <1>1 DEF DownIsEmpty, TidTypeOK
<1>6. RecoveryAlone'
  BY <1>1 DEF RecoveryAlone, TidTypeOK, Goto, Advancing, Ids
<1>7. SeenBelow'
  BY <1>1 DEF SeenBelow, TidTypeOK, Goto
<1>8. StampsClamped' /\ StampsAhead'
  BY <1>1 DEF StampsClamped, StampsAhead, TidTypeOK, Goto
<1>9. CountsBelow'
  BY <1>1 DEF CountsBelow, TidTypeOK, Ids
<1>10. DistinctDraws' /\ AboveRecovered'
  BY DEF DistinctDraws, AboveRecovered
<1> QED BY <1>2, <1>3, <1>4, <1>5, <1>6, <1>7, <1>8, <1>9, <1>10 DEF IInv

\* The second raises the mark; when recovery leaves it, both are raised.
LEMMA AdvanceTimeIInv ==
  ASSUME IInv, NEW t \in Threads, AdvanceTime(t)
  PROVE  IInv'
<1> USE DEF IInv, AdvanceTime, AdvanceDone, history
<1>1. /\ g_high_water_time' \in Nat /\ g_high_water_time' >= g_high_water_time
      /\ \/ pc' = pc /\ mode' = mode
         \/ /\ Goto(t, "idle") /\ g_high_water_time' >= my[t].time
            /\ mode' = IF mode = "recover" THEN "open" ELSE mode
  BY DEF TidTypeOK, Ids, SeenBelow
<1>2. TidTypeOK'
  BY <1>1 DEF TidTypeOK, Goto
<1>3. DrawsBounded'
  <2>1. Drawing' = Drawing
    BY <1>1 DEF Drawing, Goto, TidTypeOK
  <2> QED BY <2>1 DEF DrawsBounded
<1>4. mode = "recover" => t = Opener
  BY DEF RecoveryAlone
<1>5. LogHasLargest' /\ DownIsEmpty'
  BY <1>1 DEF LogHasLargest, DownIsEmpty, TidTypeOK
<1>6. RecoveryAlone'
  BY <1>1 DEF RecoveryAlone
<1>7. OpenIsRaised'
  BY <1>1, <1>4 DEF OpenIsRaised, RecoveryAlone, TidTypeOK, Ids, Goto
<1>8. SeenBelow'
  BY <1>1 DEF SeenBelow, TidTypeOK, Goto
<1>9. StampsClamped' /\ StampsAhead'
  BY <1>1 DEF StampsClamped, StampsAhead, TidTypeOK, Goto
<1>10. CountsBelow' /\ DistinctDraws' /\ AboveRecovered'
  BY DEF CountsBelow, DistinctDraws, AboveRecovered
<1> QED BY <1>2, <1>3, <1>5, <1>6, <1>7, <1>8, <1>9, <1>10 DEF IInv

-----------------------------------------------------------------------------
(* The clock and the process *)

\* The clock and the log touch neither the atomics nor the issued IDs.
LEMMA TickPersistIInv == IInv /\ (Tick \/ Persist) => IInv'
<1> SUFFICES ASSUME IInv, Tick \/ Persist PROVE IInv'
  OBVIOUS
<1> USE DEF IInv, Tick, Persist, memory, history
<1>1. TidTypeOK'
  BY DEF TidTypeOK
<1>2. LogHasLargest'
  <2>1. CASE Tick
    BY <2>1 DEF LogHasLargest
  <2>2. CASE Persist
    <3>1. PICK x \in issued : persisted' = persisted \cup {x}
      BY <2>2
    <3>2. x \in Ids /\ persisted \in SUBSET Ids
      BY DEF TidTypeOK
    <3>3. persisted # {} => HasLargest(persisted)
      BY DEF LogHasLargest
    <3>4. HasLargest(persisted \cup {x})
      BY <3>2, <3>3, LargestKept
    <3> QED BY <3>1, <3>4 DEF LogHasLargest
  <2> QED BY <2>1, <2>2
<1>3. DownIsEmpty' /\ RecoveryAlone' /\ OpenIsRaised'
  BY DEF DownIsEmpty, RecoveryAlone, OpenIsRaised
<1>4. SeenBelow' /\ StampsClamped' /\ StampsAhead'
  BY DEF SeenBelow, StampsClamped, StampsAhead
<1>6. CountsBelow' /\ DistinctDraws' /\ AboveRecovered'
  BY DEF CountsBelow, DistinctDraws, AboveRecovered
<1>5. DrawsBounded'
  BY DEF DrawsBounded, Drawing
<1> QED BY <1>1, <1>2, <1>3, <1>4, <1>5, <1>6 DEF IInv

\* A crash empties the memory of the generator and keeps the log.
LEMMA CrashIInv == IInv /\ Crash => IInv'
<1> SUFFICES ASSUME IInv, Crash PROVE IInv'
  OBVIOUS
<1> USE DEF IInv, Crash
<1>1. TidTypeOK'
  <2>1. behind' \in BOOLEAN
    OBVIOUS
  <2> QED BY <2>1 DEF TidTypeOK, Ids, ZeroId
<1>2. Drawing' = {}
  BY DEF Drawing
<1>3. DrawsBounded' /\ CountsBelow' /\ DistinctDraws'
  BY <1>2, FS_EmptySet DEF DrawsBounded, CountsBelow, DistinctDraws
<1>4. LogHasLargest' /\ DownIsEmpty' /\ RecoveryAlone' /\ OpenIsRaised'
  BY DEF LogHasLargest, DownIsEmpty, RecoveryAlone, OpenIsRaised
<1>5. SeenBelow' /\ StampsClamped' /\ StampsAhead' /\ AboveRecovered'
  BY DEF SeenBelow, StampsClamped, StampsAhead, AboveRecovered
<1> QED BY <1>1, <1>3, <1>4, <1>5 DEF IInv

\* A start hands the largest ID of the log to the opener, alone.
LEMMA StartIInv == IInv /\ Start => IInv'
<1> SUFFICES ASSUME IInv, Start PROVE IInv'
  OBVIOUS
<1> USE DEF IInv
<1>1. /\ pc = [t \in Threads |-> "idle"] /\ issued = {} /\ draws = 0 /\ lives < MaxLives
      /\ mode = "down" /\ lives' = lives + 1 /\ issued' = issued /\ draws' = draws
      /\ g_global_count' = g_global_count /\ g_high_water_time' = g_high_water_time
      /\ wall' = wall /\ persisted' = persisted /\ seen' = seen /\ behind' = behind
  BY DEF Start, DownIsEmpty, memory
<1>2. LogHasLargest' /\ CountsBelow' /\ DistinctDraws' /\ AboveRecovered'
  BY <1>1 DEF LogHasLargest, CountsBelow, DistinctDraws, AboveRecovered
<1>3. CASE persisted = {}
  <2>1. recovered' = ZeroId /\ mode' = "open" /\ pc' = pc /\ my' = my
    BY <1>3 DEF Start
  <2>2. TidTypeOK'
    BY <1>1, <2>1 DEF TidTypeOK, Ids, ZeroId
  <2>3. DownIsEmpty' /\ RecoveryAlone' /\ OpenIsRaised'
    BY <1>1, <2>1 DEF DownIsEmpty, RecoveryAlone, OpenIsRaised, ZeroId, TidTypeOK
  <2>4. SeenBelow' /\ StampsClamped' /\ StampsAhead' /\ DrawsBounded'
    BY <1>1, <2>1 DEF SeenBelow, StampsClamped, StampsAhead, DrawsBounded, Drawing
  <2> QED BY <1>2, <2>2, <2>3, <2>4 DEF IInv
<1>4. CASE persisted # {}
  <2> DEFINE r == CHOOSE x \in persisted : \A y \in persisted : ~ IdLess(x, y)
  <2>1. /\ recovered' = r /\ mode' = "recover"
        /\ my' = [my EXCEPT ![Opener] = recovered'] /\ pc' = [pc EXCEPT ![Opener] = "adv_load"]
    BY <1>4 DEF Start, AdvanceTo, Goto
  <2>2. r \in Ids
    <3>1. r \in persisted
      BY <1>4 DEF LogHasLargest, HasLargest
    <3> QED BY <3>1 DEF TidTypeOK
  <2> HIDE DEF r
  <2>3. TidTypeOK'
    BY <1>1, <2>1, <2>2 DEF TidTypeOK
  <2>4. DownIsEmpty' /\ RecoveryAlone' /\ OpenIsRaised'
    BY <1>1, <2>1, <2>2 DEF DownIsEmpty, RecoveryAlone, OpenIsRaised, TidTypeOK, Advancing
  <2>5. SeenBelow' /\ StampsClamped' /\ StampsAhead'
    BY <1>1, <2>1 DEF SeenBelow, StampsClamped, StampsAhead
  <2>6. Drawing' = {} /\ Drawing = {}
    BY <1>1, <2>1 DEF Drawing
  <2>7. DrawsBounded'
    BY <1>1, <2>6 DEF DrawsBounded
  <2> QED BY <1>2, <2>3, <2>4, <2>5, <2>7 DEF IInv
<1> QED BY <1>3, <1>4

-----------------------------------------------------------------------------
(* The theorems *)

\* Every step of the generator, the clock and the process keeps the invariant.
LEMMA NextIInv == IInv /\ [TidNext]_tidVars => IInv'
<1> SUFFICES ASSUME IInv, [TidNext]_tidVars PROVE IInv'
  OBVIOUS
<1>1. CASE Tick \/ Persist
  BY <1>1, TickPersistIInv
<1>2. CASE Crash
  BY <1>2, CrashIInv
<1>3. CASE Start
  BY <1>3, StartIInv
<1>4. ASSUME NEW t \in Threads, ThreadStep(t) PROVE IInv'
  BY <1>4, NextStampIInv, NextClampIInv, NextCountIInv, OpenForeignIInv,
     AdvanceLoadIInv, AdvanceCountIInv, AdvanceTimeIInv DEF ThreadStep
<1>5. CASE UNCHANGED tidVars
  BY <1>5 DEF tidVars, IInv, TidTypeOK, LogHasLargest, DownIsEmpty, RecoveryAlone,
     OpenIsRaised, SeenBelow, StampsClamped, StampsAhead, CountsBelow, DistinctDraws, AboveRecovered,
     DrawsBounded, Drawing
<1> QED BY <1>1, <1>2, <1>3, <1>4, <1>5 DEF TidNext

\* The strengthened invariant holds of every behaviour.
THEOREM InductiveInvariant == TidSpec => []IInv
  BY InitIInv, NextIInv, PTL DEF TidSpec

\* The words, stamps and counts of the generator keep their types, and a life
\* draws no more IDs than the bound allows.
THEOREM TypeCorrect == TidSpec => []TidTypeOK
<1>1. IInv => TidTypeOK
  BY DEF IInv
<1> QED BY <1>1, InductiveInvariant, PTL

\* transaction_id_get_next never gives out one ID twice in a life of the
\* process, whatever runs transaction_id_advance_to at the same time.
THEOREM DrawsAreDistinct == TidSpec => []DistinctDraws
<1>1. IInv => DistinctDraws
  BY DEF IInv
<1> QED BY <1>1, InductiveInvariant, PTL

\* After a restart every ID drawn is above the largest ID of the log, unless the
\* clock was behind that; it is then still not below in seconds and count.
THEOREM FloorKept == TidSpec => []AboveRecovered
<1>1. IInv => AboveRecovered
  BY DEF IInv
<1> QED BY <1>1, InductiveInvariant, PTL
=============================================================================
