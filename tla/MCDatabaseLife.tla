--------------------------- MODULE MCDatabaseLife ---------------------------
(* A writer that tests the flag and one that does not, a cursor and a pool *)
(* worker beside the vacuum and the destroying thread; two evictions, by   *)
(* two threads, against a queue of one, so that one may be dropped and a   *)
(* vacuum meets a queued offset and a task in its body.                    *)
EXTENDS DatabaseLife
CONSTANTS w1, w2, c1, k1, e1, e2
MCWriters == {w1, w2}
MCTesting == {w1}
MCCursors == {c1}
MCWorkers == {k1}
MCEvictors == {e1, e2}
MCCasts == {{w1, w2, c1}, {w1, e1, e2}, {c1, e1}}
=============================================================================
