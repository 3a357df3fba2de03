------------------------------- MODULE Store -------------------------------
(***************************************************************************)
(* The database as its callers see it, in its two modes.  In the           *)
(* concurrent mode several threads work on version chains (MvccStore); in  *)
(* the sync-only mode one client works on the B+trees themselves, with     *)
(* scans and subtrees (Subtree).  A behaviour is of one mode, chosen when  *)
(* the database is opened; the state of the other rests.                   *)
(***************************************************************************)
EXTENDS MvccStore, Subtree

VARIABLE mode  \* "concurrent" or "sync_only"
storeVars == <<vars, subVars, mode>>

\* In the mode that rests one job, or one program, stands for all.
Smallest == CHOOSE j \in Jobs : \A i \in Jobs : Len(j.start) <= Len(i.start)
StoreInit ==
  /\ Init /\ SubInit
  /\ \/ mode = "concurrent" /\ subJob = Smallest
     \/ mode = "sync_only" /\ program = CHOOSE p \in Programs : TRUE
StoreNext ==
  \/ mode = "concurrent" /\ Next /\ UNCHANGED <<subVars, mode>>
  \/ mode = "sync_only" /\ SubNext /\ UNCHANGED <<vars, mode>>
StoreSpec == StoreInit /\ [][StoreNext]_storeVars

\* In the sync-only mode a get finds the newest value of every key, after any
\* sequence of puts, deletes, batches, prefix deletions and collections.
SyncKeysFound == mode = "sync_only" => EveryKeyFound
\* In the sync-only mode a scan tells exactly the live keys of its range.
SyncScansExact == mode = "sync_only" => ScanExact
=============================================================================
