----------------------------- MODULE MCRuntime -----------------------------
(* Two threads with three transactions on two shards; a pool of two workers *)
(* with two jobs of two kinds.                                              *)
EXTENDS Runtime, TLC
CONSTANTS w1, w2, j1, j2
MCWorkers == {w1, w2}
MCJobs == {j1, j2}
MCKindSets == {(j1 :> "op" @@ j2 :> "evict"), (j1 :> "raw" @@ j2 :> "batch")}
=============================================================================
