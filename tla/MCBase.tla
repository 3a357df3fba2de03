------------------------------ MODULE MCBase ------------------------------
(* Small instances of the services and of the generator of IDs. *)
EXTENDS Base
CONSTANTS b1, b2, b3
MCBlocks == <<b1, b2, b3>>
\* The largest ID of another database, stamped by a clock that was ahead.
ForeignAhead == {[time |-> 2, nanos |-> 0, count |-> 2]}
=============================================================================
