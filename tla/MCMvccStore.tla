----------------------------- MODULE MCMvccStore -----------------------------
(* Model-checking instance of MvccStore: who may call what. *)
EXTENDS MvccStore

CONSTANTS t1, t2, t3, a, b

MCUnder == [k \in Keys |-> {}]
\* b is stored below a, as "users/alice/name" is below "users/alice".
Nested == [k \in Keys |-> IF k = a THEN {b} ELSE {}]

\* Puts, deletions and gets of one key by two threads, and batches that may fail.
Readers == [work |-> {<<t1, "put", {a}>>, <<t1, "delete", {a}>>, <<t1, "batch", {a, b}>>,
                      <<t2, "put", {a}>>, <<t2, "batch", {a}>>,
                      <<t3, "get", {a}>>},
            faults |-> TRUE, txns |-> 3]
\* Garbage collection against one writer and one counter.
Collection == [work |-> {<<t1, "put", {a}>>, <<t1, "delete", {a}>>, <<t2, "increment", {b}>>,
                         <<t3, "snapshot", {}>>, <<t3, "scan", {a}>>},
               faults |-> FALSE, txns |-> 4]
\* One counter of two threads, and its collection.
Counter == [work |-> {<<t1, "increment", {a}>>, <<t2, "increment", {a}>>, <<t2, "put", {b}>>,
                      <<t3, "snapshot", {}>>, <<t3, "get", {a}>>},
            faults |-> FALSE, txns |-> 3]
MCPrograms == {Readers, Collection, Counter}

\* Collection beside two batches and a reader; deletion of a key with one below.
Vanish == {[work |-> {<<t1, "batch", {a}>>, <<t2, "batch", {a}>>, <<t3, "get", {a}>>,
                      <<t3, "snapshot", {}>>}, faults |-> FALSE, txns |-> 4]}
Prefix == {[work |-> {<<t1, "put", {a}>>, <<t2, "put", {b}>>, <<t3, "delete", {a}>>,
                      <<t2, "snapshot", {}>>}, faults |-> FALSE, txns |-> 4]}
=============================================================================
