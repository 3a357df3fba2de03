---------------------------- MODULE MCWalManager ----------------------------
(* Model-checking instances of WalManager. *)
EXTENDS WalManager

CONSTANTS A, B, C

\* Thread IDs are addresses: another life of the process has other ones.
TwoThenOne == <<{A, B}, {C}, {}>>
\* The last one is a database without a timer wheel.
AllModes == {[sync_mode |-> "IMMEDIATE", max_file_size |-> 1, drain |-> TRUE],
             [sync_mode |-> "DEBOUNCED", max_file_size |-> 1, drain |-> TRUE],
             [sync_mode |-> "ASYNC", max_file_size |-> 2, drain |-> TRUE],
             [sync_mode |-> "DEBOUNCED", max_file_size |-> 1, drain |-> FALSE]}
Immediate == {[sync_mode |-> "IMMEDIATE", max_file_size |-> 1, drain |-> TRUE]}
OneEach == <<{A}, {B}, {}>>

\* In TwoThenOne the writers of the first life can be exchanged.
FirstLife == Permutations({A, B})
=============================================================================
