------------------------------ MODULE MCPageFile ------------------------------
(* Model-checking instances of PageFile. *)
EXTENDS PageFile

CONSTANTS top, mid, low

\* A chain: top, mid below it, low below mid.
Chain == [n \in Nodes |-> IF n = low THEN mid ELSE top]
ChainDepth == [n \in Nodes |-> IF n = low THEN 2 ELSE IF n = mid THEN 1 ELSE 0]
=============================================================================
