------------------------------- MODULE KeyMap -------------------------------
(***************************************************************************)
(* What the trie promises its callers: a map from keys to values on which  *)
(* every insertion and every deletion takes effect once, at one moment     *)
(* between its call and its return, and which nothing else changes.        *)
(***************************************************************************)
CONSTANTS
  Keys, Values, NoValue,
  Callers      \* threads

VARIABLES
  call,        \* caller -> [key, val]: what it stores, NoValue for a deletion
  map,         \* key -> value or NoValue
  status       \* caller -> "pending", "applied" or "returned"

vars == <<call, map, status>>

Init == /\ map \in [Keys -> Values \cup {NoValue}]
        /\ call \in [Callers -> [key : Keys, val : Values \cup {NoValue}]]
        /\ status \in [Callers -> {"pending", "returned"}]

TakeEffect(c) ==
  /\ status[c] = "pending"
  /\ map' = [map EXCEPT ![call[c].key] = call[c].val]
  /\ status' = [status EXCEPT ![c] = "applied"]
  /\ UNCHANGED call

Return(c) ==
  /\ status[c] = "applied"
  /\ status' = [status EXCEPT ![c] = "returned"]
  /\ UNCHANGED <<call, map>>

Next == \E c \in Callers : TakeEffect(c) \/ Return(c)

Spec == Init /\ [][Next]_vars
=============================================================================
