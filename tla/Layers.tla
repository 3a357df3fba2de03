------------------------------- MODULE Layers -------------------------------
(***************************************************************************)
(* The layers on top of the database: graph, vector and GraphQL.  Each     *)
(* keeps its keys under its own prefix and they share no other state, so   *)
(* that a behaviour exercises one of them, chosen at the start.            *)
(***************************************************************************)
EXTENDS Graph, Vector, GraphQl

VARIABLE lyPart  \* the layer this behaviour is about
lyVars == <<gVars, vlVars, qVars, lyPart>>

Init == /\ GInit /\ VlInit /\ QlInit
        /\ lyPart \in {"graph", "vector", "graphql"}
        /\ lyPart # "graphql" => qProgram = 1
Next == \/ lyPart = "graph" /\ GNext /\ UNCHANGED <<vlVars, qVars, lyPart>>
        \/ lyPart = "vector" /\ VlNext /\ UNCHANGED <<gVars, qVars, lyPart>>
        \/ lyPart = "graphql" /\ QlNext /\ UNCHANGED <<gVars, vlVars, lyPart>>
Spec == Init /\ [][Next]_lyVars

\* Where graphs are at work, every query tells what its steps mean
\* (graph_query_execute_sync); elsewhere the graph is empty.
GraphAnswers == lyPart = "graph" => QueryAnswers
\* Where vectors are at work, every search tells the nearest stored vectors.
VectorAnswers == lyPart = "vector" => SearchAnswers
=============================================================================
