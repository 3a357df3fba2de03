------------------------------ MODULE Runtime ------------------------------
(***************************************************************************)
(* What every operation runs on: the transaction manager (TxManager) and   *)
(* the worker pool (WorkPool).  The two share no state, so a behaviour     *)
(* exercises one of them, chosen at the start, while the other rests in    *)
(* its initial state; fairness is asked only of the threads of the part    *)
(* that runs.                                                              *)
(***************************************************************************)
EXTENDS TxManager, WorkPool

VARIABLE rtPart  \* "transactions" or "pool"
rtVars == <<txVars, vars, rtPart>>

InTx == rtPart = "transactions"
InPool == rtPart = "pool"

\* One setting stands for all in the part that rests.
OneSetting == kind = (CHOOSE k \in KindSets : TRUE) /\ ~sync_only /\ joiner = "start"
RtInit == TxInit /\ Init /\ (InPool \/ (InTx /\ OneSetting))
RtNext ==
  \/ InTx /\ TxNext /\ UNCHANGED <<vars, rtPart>>
  \/ InPool /\ Next /\ UNCHANGED <<txVars, rtPart>>

\* A call that has been entered and waits for nobody keeps running, and so do
\* the workers of the pool and the thread that closes it: the operating system
\* schedules every runnable thread.
RtFairness ==
  /\ \A t \in Threads : WF_txVars(InTx /\ (CommitSteps(t) \/ RecomputeSteps(t)))
  /\ \A w \in Workers : WF_vars(InPool /\ WorkerStep(w))
  /\ WF_vars(InPool /\ CloserStep)
RtSpec == RtInit /\ [][RtNext]_rtVars /\ RtFairness
=============================================================================
