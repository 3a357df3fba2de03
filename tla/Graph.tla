------------------------------- MODULE Graph -------------------------------
(***************************************************************************)
(* The graph layer (graph.c, graph_schema_parser.c, graph_stats.c): the    *)
(* four indexes of its triples in the database, the schema that says which *)
(* of them a predicate has, in memory and as stored, the statistics        *)
(* computed once, and the morphisms.  A batch is atomic in the database    *)
(* (MvccStore); the operations below take the layer's lock, inserts and    *)
(* queries to read, schema and morphisms to write, and are one step each.  *)
(* Work given to the pool, and ops that a caller expands to put them into  *)
(* a batch of its own, are applied in a later step.                        *)
(***************************************************************************)
EXTENDS GraphQuery

CONSTANTS
    Triples,      \* the triples <<s, p, o>> that are inserted and deleted
    LaterTriples, \* those among them that are also queued or expanded
    TypeDefs,     \* the type definitions of schemas, see SchemaParse
    Morphisms,    \* name -> the steps of its definition
    TextQueries,  \* queries given as text
    BuiltQueries, \* queries put together with graph_query_...
    MaxOps,       \* the room callers of graph_triple_expand_ops have
    MaxTypes      \* bound: type definitions in memory

VARIABLES
    gIdx,      \* the four indexes, sets of triples
    gSchema,   \* the types in memory, in order; <<>> is no schema
    gDisk,     \* the stored schema: its list of types and their definitions
    gStats,    \* {} or a set of one: predicate -> statistics
    gMorphs,   \* name -> steps
    gPending,  \* an operation not applied yet, or NoOp
    gPresent,  \* the triples inserted and not deleted (history)
    gExact,    \* <<index, predicate>>: maintained from the start (history)
    gLoose,    \* names of types that were defined again, or whose definition
               \* was not stored, since the layer was opened (history)
    gLives     \* how often the layer was opened
gVars == <<gIdx, gSchema, gDisk, gStats, gMorphs, gPending, gPresent, gExact, gLoose, gLives>>

Indexes == {"spo", "pos", "osp", "pso"}
Predicates == {t[2] : t \in Triples}
NoOp == [type |-> "none"]

GInit ==
    /\ gIdx = [i \in Indexes |-> {}]
    /\ gSchema = <<>> /\ gDisk = [types |-> <<>>, defs |-> {}]
    /\ gStats = {} /\ gMorphs = <<>> /\ gPending = NoOp
    /\ gPresent = {} /\ gExact = Indexes \X Predicates /\ gLoose = {} /\ gLives = 0

\* graph_schema_needs_index: the first field of that name decides; a
\* predicate that no type has is in every index.
graph_schema_needs_index(schema, p, i) ==
    LET fields == FlattenSeq([k \in DOMAIN schema |-> schema[k].fields])
        found  == {k \in DOMAIN fields : fields[k].name = p}
    IN  found = {} \/ i \in fields[CHOOSE k \in found : \A j \in found : k <= j].indices

NeededBy(schema, p) == {i \in Indexes : graph_schema_needs_index(schema, p, i)}

\* The history of exact indexes under a new schema in force.
ExactUnder(schema) == gExact' = {x \in gExact : graph_schema_needs_index(schema, x[2], x[1])}

-----------------------------------------------------------------------------
\* Mutant: the index by object is forgotten in deletions.
MutApplyOps(type, t, indexes) ==
    /\ gIdx' = [i \in Indexes |->
         IF i \notin indexes THEN gIdx[i]
         ELSE IF type = "put" THEN gIdx[i] \cup {t}
         ELSE IF i = "osp" THEN gIdx[i] ELSE gIdx[i] \ {t}]
    /\ gPresent' = IF type = "put" THEN gPresent \cup {t} ELSE gPresent \ {t}

\* One batch: the triple enters or leaves these indexes.
ApplyOps(type, t, indexes) ==
    /\ gIdx' = [i \in Indexes |->
         IF i \notin indexes THEN gIdx[i]
         ELSE IF type = "put" THEN gIdx[i] \cup {t} ELSE gIdx[i] \ {t}]
    /\ gPresent' = IF type = "put" THEN gPresent \cup {t} ELSE gPresent \ {t}

graph_insert_sync(t) ==
    /\ ApplyOps("put", t, NeededBy(gSchema, t[2]))
    /\ UNCHANGED <<gSchema, gDisk, gStats, gMorphs, gPending, gExact, gLoose, gLives>>
graph_delete_sync(t) ==
    /\ ApplyOps("delete", t, NeededBy(gSchema, t[2]))
    /\ UNCHANGED <<gSchema, gDisk, gStats, gMorphs, gPending, gExact, gLoose, gLives>>

\* graph_insert and graph_delete: a work of the pool; the indexes are those
\* of the schema when the work runs.  It may be aborted instead.
GraphAsync(type, t) ==
    /\ gPending = NoOp
    /\ gPending' = [type |-> type, t |-> t, work |-> TRUE, indexes |-> {}]
    /\ UNCHANGED <<gIdx, gSchema, gDisk, gStats, gMorphs, gPresent, gExact, gLoose, gLives>>
triple_work_execute ==
    /\ gPending # NoOp /\ gPending.work
    /\ ApplyOps(gPending.type, gPending.t, NeededBy(gSchema, gPending.t[2]))
    /\ gPending' = NoOp
    /\ UNCHANGED <<gSchema, gDisk, gStats, gMorphs, gExact, gLoose, gLives>>
triple_work_abort ==
    /\ gPending # NoOp /\ gPending.work
    /\ gPending' = NoOp
    /\ UNCHANGED <<gIdx, gSchema, gDisk, gStats, gMorphs, gPresent, gExact, gLoose, gLives>>

\* graph_triple_expand_ops: the ops for the schema of now, all or none, which
\* the caller runs in a batch of its own.
graph_triple_expand_ops(type, t) ==
    /\ gPending = NoOp
    /\ LET need == NeededBy(gSchema, t[2]) IN
        /\ need # {} /\ Cardinality(need) <= MaxOps
        /\ gPending' = [type |-> type, t |-> t, work |-> FALSE, indexes |-> need]
    /\ UNCHANGED <<gIdx, gSchema, gDisk, gStats, gMorphs, gPresent, gExact, gLoose, gLives>>
RunExpanded ==
    /\ gPending # NoOp /\ ~gPending.work
    /\ ApplyOps(gPending.type, gPending.t, gPending.indexes)
    /\ gPending' = NoOp
    /\ UNCHANGED <<gSchema, gDisk, gStats, gMorphs, gExact, gLoose, gLives>>

-----------------------------------------------------------------------------
(***************************************************************************)
(* Schemas.  A definition has a name, default indexes ({} when it gives    *)
(* none) and fields with their own indexes ({} likewise); one with a       *)
(* mistake in it has ok = FALSE.                                           *)
(***************************************************************************)
\* parse_type_def: fields without indexes inherit those of the type.
ParsedType(def) ==
    LET default == IF def.indices = {} THEN {"spo", "pos"} ELSE def.indices
    IN  [name |-> def.name, indices |-> default,
         fields |-> [k \in DOMAIN def.fields |->
            [def.fields[k] EXCEPT !.indices = IF @ = {} THEN default ELSE @]]]

\* The test whether a name is on the stored list: as one of its names, or as
\* the beginning of the list (without the comma that follows a name).
AlreadyListed(types, name) ==
    Contains(types, name) \/ (types # <<>> /\ IsPrefix(name, types[1]))

\* Mutant: the fields' own indexes are not stored.
MutStored(disk, type) ==
    [types |-> IF AlreadyListed(disk.types, type.name) THEN disk.types
               ELSE Append(disk.types, type.name),
     defs |-> {d \in disk.defs : d.name # type.name} \cup
              {[type EXCEPT !.fields = [k \in DOMAIN @ |-> [@[k] EXCEPT !.indices = type.indices]]]}]

\* graph_schema_store_type: the list and everything of the type in one batch.
Stored(disk, type) ==
    [types |-> IF AlreadyListed(disk.types, type.name) THEN disk.types
               ELSE Append(disk.types, type.name),
     defs |-> {d \in disk.defs : d.name # type.name} \cup {type}]

\* graph_schema_parse of a text of some definitions: those before a mistake
\* stay defined, also where storing them fails (which nobody looks at).  A type
\* may be defined again: the first definition stays in force, the last is stored.
SchemaParse(text) ==
    LET good  == SelectSeq(text, LAMBDA d : \A k \in DOMAIN text :
                             (text[k] = d => \A j \in 1 .. k : text[j].ok))
        types == [k \in DOMAIN good |-> ParsedType(good[k])]
        names(S) == {types[k].name : k \in S}
    IN  /\ types # <<>> /\ Len(gSchema) + Len(types) <= MaxTypes
        /\ gSchema' = gSchema \o types
        /\ \E stored \in SUBSET DOMAIN types :
             /\ gDisk' = FoldLeft(Stored, gDisk, [k \in 1 .. Cardinality(stored) |->
                           types[CHOOSE i \in stored : Cardinality({j \in stored : j < i}) = k - 1]])
             /\ gLoose' = gLoose \cup names(DOMAIN types \ stored)
                           \cup (names(DOMAIN types) \cap {gSchema[j].name : j \in DOMAIN gSchema})
        /\ ExactUnder(gSchema \o types)
        /\ UNCHANGED <<gIdx, gStats, gMorphs, gPending, gPresent, gLives>>

\* graph_schema_load: the listed types in the order of the list.
graph_schema_load(disk) ==
    [k \in DOMAIN disk.types |-> CHOOSE d \in disk.defs : d.name = disk.types[k]]

\* graph_layer_create, the second time after a graph_layer_destroy with no work
\* of this layer in the pool: statistics and morphisms are gone.
graph_layer_create ==
    /\ gPending = NoOp /\ gLives < 2
    /\ gSchema' = graph_schema_load(gDisk)
    /\ gStats' = {} /\ gMorphs' = <<>>
    /\ ExactUnder(graph_schema_load(gDisk))
    /\ gLoose' = {} /\ gLives' = gLives + 1
    /\ UNCHANGED <<gIdx, gDisk, gPending, gPresent>>

\* graph_morphism_define: a second definition of a name is stored and never
\* found.
graph_morphism_define(m) ==
    /\ m \notin DOMAIN gMorphs
    /\ LET parsed == ParseSteps(Tail(Tail(TextOf(Morphisms[m]))), 1, gMorphs, <<>>) IN
        /\ parsed.pos # 0
        /\ gMorphs' = [n \in DOMAIN gMorphs \cup {m} |-> IF n = m THEN parsed.steps ELSE gMorphs[n]]
    /\ UNCHANGED <<gIdx, gSchema, gDisk, gStats, gPending, gPresent, gExact, gLoose, gLives>>

-----------------------------------------------------------------------------
\* graph_stats_compute: the predicates of the schema that have an index to
\* count with, from the scan of pso (which they need not have).
StatsNow ==
    LET fields == FlattenSeq([k \in DOMAIN gSchema |-> gSchema[k].fields])
        counted == {fields[k].name : k \in {j \in DOMAIN fields :
                      fields[j].indices \cap {"pos", "pso"} # {}}}
        of(p) == {t \in gIdx.pso : t[2] = p}
    IN  [p \in counted |-> [triples |-> Cardinality(of(p)),
                            subjects |-> Cardinality({t[1] : t \in of(p)})]]

StatsUsed == IF gStats = {} THEN StatsNow ELSE CHOOSE s \in gStats : TRUE

\* graph_query_execute_sync: the first query computes the statistics, which
\* stay as they are until the layer is opened again.
graph_query_execute_sync ==
    /\ gStats = {}
    /\ gStats' = {StatsNow}
    /\ UNCHANGED <<gIdx, gSchema, gDisk, gMorphs, gPending, gPresent, gExact, gLoose, gLives>>

Answer(steps) ==
    execute_child_steps(gIdx, gMorphs, <<>>, TRUE, graph_optimize(StatsUsed, steps))
ParsedAnswer(steps) ==
    LET p == parse_query(TextOf(steps), 1, gMorphs)
    IN  IF p.pos = 0 THEN <<-1>> ELSE Answer(p.steps)

GNext ==
    \/ graph_layer_create
    \/ /\ gLives > 0
       /\ \/ \E t \in Triples :
               \/ graph_insert_sync(t) \/ graph_delete_sync(t)
               \/ /\ t \in LaterTriples
                  /\ \E type \in {"put", "delete"} : \/ GraphAsync(type, t)
                                                     \/ graph_triple_expand_ops(type, t)
          \/ triple_work_execute \/ triple_work_abort \/ RunExpanded
          \/ \E text \in TypeDefs : SchemaParse(text)
          \/ graph_query_execute_sync
          \/ \E m \in DOMAIN Morphisms : graph_morphism_define(m)
GSpec == GInit /\ [][GNext]_gVars

-----------------------------------------------------------------------------
\* An index that the schemas in force have always given a predicate holds
\* exactly its triples, however sync, queued and expanded operations and
\* schema changes alternate (graph_insert_sync, graph_delete_sync,
\* graph_triple_expand_ops).
IndexExact ==
    \A x \in gExact :
        {t \in gIdx[x[1]] : t[2] = x[2]} = {t \in gPresent : t[2] = x[2]}

\* The predicates and morphisms that a query uses.
RECURSIVE Uses(_)
Uses(steps) ==
    UNION {CASE s.type = "out" -> {<<"spo", s.n>>} [] s.type = "in" -> {<<"pos", s.n>>}
             [] s.type = "has" -> {<<"pos", s.has.p>>} [] s.type = "morphism" -> Uses(Morphisms[s.n])
             [] OTHER -> UNION {Uses(s.kids[k]) : k \in DOMAIN s.kids} : s \in Range(steps)}
RECURSIVE Follows(_)
Follows(steps) ==
    UNION {IF s.type = "morphism" THEN {s.n} ELSE UNION {Follows(s.kids[k]) : k \in DOMAIN s.kids} :
             s \in Range(steps)}
Answerable(steps) == Uses(steps) \subseteq gExact /\ Follows(steps) \subseteq DOMAIN gMorphs

\* A query whose indexes are exact answers what it means, as text and as
\* built, after the four passes of the optimizer with statistics that may be
\* out of date (graph_query_execute_sync).
QueryAnswers ==
    gLives > 0 /\ gPending = NoOp =>
      /\ \A q \in TextQueries : Answerable(q) =>
           Range(ParsedAnswer(q)) \in Meaning(gPresent, Morphisms, {}, TRUE, q)
      /\ \A q \in BuiltQueries : Answerable(q) =>
           Range(Answer(q)) \in Meaning(gPresent, Morphisms, {}, TRUE, q)

\* Opening the layer again leaves every predicate the indexes it had, where the
\* types that have it were defined once and their definitions stored (the
\* layer neither refuses a second definition nor looks at a failed store).
SchemaSurvives ==
    [][gLives' # gLives =>
         \A p \in Predicates :
            (\A k \in DOMAIN gSchema : gSchema[k].name \in gLoose =>
                                       \A f \in Range(gSchema[k].fields) : f.name # p)
              => NeededBy(gSchema', p) = NeededBy(gSchema, p)]_gVars
=============================================================================
