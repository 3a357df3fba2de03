-------------------------------- MODULE Base --------------------------------
(***************************************************************************)
(* Everything the engine is built on that shares no state with the rest:   *)
(* the services of module Services and the generator of transaction IDs    *)
(* (TransactionId).  A behaviour exercises one part, chosen at the start.  *)
(***************************************************************************)
EXTENDS Services, TransactionId

VARIABLE baPart  \* "services" or "ids"
baVars == <<svVars, tidVars, baPart>>

\* One service stands for all while the generator runs.
BaInit ==
  /\ Init /\ TidInit
  /\ baPart = "services" \/ (baPart = "ids" /\ svPart = "blocks")
BaNext ==
  \/ baPart = "services" /\ Next /\ UNCHANGED <<tidVars, baPart>>
  \/ baPart = "ids" /\ TidNext /\ UNCHANGED <<svVars, baPart>>
BaSpec == BaInit /\ [][BaNext]_baVars
=============================================================================
