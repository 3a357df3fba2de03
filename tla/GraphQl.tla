------------------------------ MODULE GraphQl ------------------------------
(***************************************************************************)
(* The GraphQL layer: src/Layers/graphql.  A schema text defines types,    *)
(* which are kept in memory and stored under the keys of the database;     *)
(* mutations write the fields of an entity at plural/id/field and queries  *)
(* are compiled into plans that read them back.  Requests run on workers   *)
(* of the pool.  Parsing of the text is left out: a request is its syntax  *)
(* tree.  A path is a sequence of names, a value is a text.                *)
(***************************************************************************)
EXTENDS Naturals, FiniteSets, FiniteSetsExt, Sequences, SequencesExt, TLC

CONSTANTS
    QlNames,     \* every name used in a path, in the order of their bytes
    QlPrograms,  \* what the callers may do: sequence of [worker -> requests]
    QlText,      \* the schema text: its definitions
    QlMaxId,     \* bound: the largest value of a counter
    QlReopens,   \* bound: how often the layer is opened again
    MAX_RESOLVE_DEPTH

VARIABLES
    qDb,      \* path -> value
    qTypes,   \* registry: the types in memory, in order
    qLayer,   \* [open, refs, handle, reopens]: handle is the user's reference
    qProgram, \* the program of this behaviour; never changes
    qGiven,   \* worker -> how many of its requests it has been given
    qWork,    \* worker -> the request it has, see NoWork
    qHist     \* history: [ent, made, cut, gone, raced, failed], see QlInit
qVars == <<qDb, qTypes, qLayer, qProgram, qGiven, qWork, qHist>>

Requests(w) == QlPrograms[qProgram][w]
QlWorkers == DOMAIN QlPrograms[qProgram]

(***************************************************************************)
(* The database as the layer sees it.                                      *)
(***************************************************************************)
RankOf == [n \in ToSet(QlNames) |-> CHOOSE i \in DOMAIN QlNames : QlNames[i] = n]
PathBefore(p, q) ==
    \E i \in DOMAIN q :
        /\ \A j \in 1 .. i - 1 : j <= Len(p) /\ p[j] = q[j]
        /\ i <= Len(p) => RankOf[p[i]] < RankOf[q[i]]

\* The value at a path as a sequence: empty when there is none.
layer_get_string(db, path) == IF path \in DOMAIN db THEN <<db[path]>> ELSE <<>>
\* A scan without an end: every path that is not before the start.
ScanFrom(db, start) ==
    LET found == {p \in DOMAIN db : ~ PathBefore(p, start)}
    IN  SortSeq(FoldSet(LAMBDA p, seq : Append(seq, p), <<>>, found), PathBefore)
\* The n-th name of each path that is that long, without repetitions.
NthNames(paths, n) ==
    FoldLeft(LAMBDA names, p : IF Len(p) < n \/ p[n] \in ToSet(names) THEN names ELSE Append(names, p[n]),
             <<>>, paths)
NoPath == [p \in {} |-> ""]
Without(db, paths) == [p \in DOMAIN db \ paths |-> db[p]]

(***************************************************************************)
(* Types and their storage.  A field without type has base "".             *)
(***************************************************************************)
NoField == [name |-> "", base |-> "", list |-> FALSE, req |-> FALSE]
NoQlType == [name |-> "", kind |-> "none", plural |-> "", fields |-> <<>>, values |-> <<>>]

FirstNamed(seq, name, none) ==
    LET named == SelectSeq(seq, LAMBDA x : x.name = name) IN IF named = <<>> THEN none ELSE named[1]
graphql_schema_get_type(types, name) == FirstNamed(types, name, NoQlType)
make_plural(name) == name \o "s"
graphql_type_get_plural(t) == IF t.plural = "" THEN t.name ELSE t.plural

MergedFields(old, new) == old \o SelectSeq(new, LAMBDA f : FirstNamed(old, f.name, NoField) = NoField)

NewType(def) ==
    [name |-> def.name, fields |-> def.fields, values |-> def.values,
     kind |-> IF def.kind = "extend" THEN "object" ELSE def.kind,
     plural |-> CASE def.kind = "enum" -> ""
                  [] def.kind = "object" /\ def.plural # "" -> def.plural
                  [] OTHER -> make_plural(def.name)]

\* A definition of a known type is merged into it, except enums and scalars.
convert_ast_to_types(types, text) ==
    LET known(ts, def) == def.kind \in {"object", "extend"}
                          /\ graphql_schema_get_type(ts, def.name) # NoQlType
        merged(t, def) == [t EXCEPT !.fields = MergedFields(@, def.fields),
                                    !.values = @ \o def.values,
                                    !.plural = IF def.kind = "object" THEN NewType(def).plural ELSE @]
        at(ts, def) == CHOOSE i \in DOMAIN ts : ts[i] = graphql_schema_get_type(ts, def.name)
        one(ts, def) ==
          IF def.kind = "schema" THEN ts
          ELSE IF known(ts, def) THEN [ts EXCEPT ![at(ts, def)] = merged(@, def)]
          ELSE Append(ts, NewType(def))
    IN  FoldLeft(one, types, text)

\* The names of the query and the mutation type go to the database only.
convert_schema_definition(text) ==
    LET defs == {text[i] : i \in {j \in DOMAIN text : text[j].kind = "schema"}}
        pairs == UNION {ToSet(d.fields) : d \in defs}
    IN  [p \in {<<"__schema", f.name \o "_type">> : f \in pairs} |->
            (CHOOSE f \in pairs : p[2] = f.name \o "_type").base]

FieldKeys(top, f) ==
    LET at(attr) == <<top, "__schema", "fields", f.name, attr>>
    IN  at("type") :> (IF f.base = "" THEN "Unknown" ELSE f.base)
        @@ at("required") :> (IF f.req THEN "true" ELSE "false")
        @@ (IF f.list THEN at("is_list") :> "true" ELSE NoPath)

\* Storing a type sets its counter to 1, whatever it was.
graphql_schema_store_type(db, t) ==
    LET top == graphql_type_get_plural(t)
        head == <<top, "__schema", "type">> :> t.kind
                @@ <<"__schema", "types", t.name>> :> t.name
                @@ (IF t.plural = "" THEN NoPath ELSE <<top, "__schema", "plural">> :> t.plural)
                @@ (IF t.kind = "object" THEN <<top, "__meta", "next_id">> :> "1" ELSE NoPath)
                @@ [p \in {<<top, "__schema", "enum", t.values[i]>> : i \in DOMAIN t.values} |-> p[4]]
    IN  FoldLeft(LAMBDA d, f : FieldKeys(top, f) @@ d, head @@ db, t.fields)

LoadedField(db, top, name) ==
    LET get(attr) == layer_get_string(db, <<top, "__schema", "fields", name, attr>>)
        type == get("type")
    IN  [name |-> name, base |-> IF type = <<>> THEN "" ELSE type[1],
         list |-> get("is_list") = <<"true">>, req |-> get("required") = <<"true">>]

\* The scans for fields and enum values run past the type into later keys.
load_type_from_database(db, name) ==
    LET custom == layer_get_string(db, <<name, "__schema", "plural">>)
        top == IF custom = <<>> THEN make_plural(name) ELSE custom[1]
        kinds == layer_get_string(db, <<top, "__schema", "type">>)
                 \o layer_get_string(db, <<name, "__schema", "type">>)
        fields == NthNames(ScanFrom(db, <<top, "__schema", "fields">>), 4)
        enums == SelectSeq(ScanFrom(db, <<top, "__schema", "enum">>), LAMBDA p : Len(p) >= 4)
    IN  IF kinds = <<>> THEN <<>>
        ELSE <<[name |-> name, kind |-> kinds[1], plural |-> top,
                fields |-> [i \in DOMAIN fields |-> LoadedField(db, top, fields[i])],
                values |-> IF kinds[1] = "enum" THEN [i \in DOMAIN enums |-> enums[i][4]] ELSE <<>>]>>

graphql_schema_load(db) ==
    LET listed == SelectSeq(ScanFrom(db, <<"__schema", "types">>), LAMBDA p : Len(p) >= 3)
    IN  FlattenSeq([i \in DOMAIN listed |-> load_type_from_database(db, listed[i][3])])

(***************************************************************************)
(* Compilation.  A node of the syntax tree is [what, name, args, kids,     *)
(* cond, skip]: what is field, spread or inline, cond the type condition   *)
(* of an inline fragment.  A context is [types, frags, strict]; strict is  *)
(* FALSE where the caller collects no errors.  The result has at most one  *)
(* plan, and the number of errors.                                         *)
(***************************************************************************)
NoFragment == [name |-> "", cond |-> "", kids |-> <<>>]

PlanKind(list, scalar, scanned, args) ==
    IF list /\ args # <<>> THEN "BATCH_GET"
    ELSE IF scanned /\ scalar THEN "RESOLVE_FIELD"
    ELSE IF scanned /\ ~ list THEN "RESOLVE_REF"
    ELSE IF list THEN "SCAN" ELSE "GET"

\* The types a name may stand for at the root.
RootTypes(types, name) ==
    SelectSeq(types, LAMBDA t : t.name = name \/ graphql_type_get_plural(t) = name)

Compiled(plans, errors) == [plans |-> plans, errors |-> errors]
Together(parts) ==
    Compiled(FlattenSeq([i \in DOMAIN parts |-> parts[i].plans]),
             FoldLeft(LAMBDA n, c : n + c.errors, 0, parts))
ErrorOf(c) == Compiled(<<>>, IF c.strict THEN 1 ELSE 0)

\* The type a field of a parent leads to; a field without a known type may
\* be the name of a type, and is then a list.
Target(c, parent, name) ==
    LET field == FirstNamed(parent.fields, name, NoField)
        typed == field.base # ""
        roots == RootTypes(c.types, name)
    IN  [known |-> field # NoField,
         type |-> IF typed THEN graphql_schema_get_type(c.types, field.base)
                  ELSE IF roots = <<>> THEN NoQlType ELSE roots[1],
         base |-> IF typed THEN field.base ELSE IF roots = <<>> THEN "" ELSE roots[1].name,
         list |-> IF typed THEN field.list ELSE roots # <<>>]

\* Mutant: the path of a list is the name in the query, not the plural.
MutScanPath(path, to, name) == Append(path, name)

\* A root name leads to the plural of its type, a field below its parent.
ScanPath(path, to, name) ==
    IF ~ to.known /\ to.type # NoQlType THEN <<graphql_type_get_plural(to.type)>>
    ELSE Append(path, name)

RECURSIVE compile_field(_, _, _, _, _, _)
\* The selections below a field: fields, fragments by name, inline fragments.
RECURSIVE CompileKid(_, _, _, _, _, _, _)

CompileKid(c, kid, type, plural, path, scanned, seen) ==
    LET all(ast, under, at, names) ==
          Together([i \in DOMAIN ast |-> compile_field(c, ast[i], under, at, scanned, names)])
        frag == FirstNamed(c.frags, kid.name, NoFragment)
        cond == graphql_schema_get_type(c.types, IF kid.what = "spread" THEN frag.cond ELSE kid.cond)
        under == IF cond = NoQlType THEN type ELSE cond
    IN  CASE kid.what = "field" -> compile_field(c, kid, type, <<plural>>, scanned, seen)
          [] kid.what = "spread" ->
               IF frag = NoFragment THEN ErrorOf(c)
               ELSE IF kid.name \in seen THEN Compiled(<<>>, 0)
               ELSE all(frag.kids, under, path, seen \cup {kid.name})
          [] kid.what = "inline" ->
               IF under = NoQlType THEN all(kid.kids, NoQlType, path, seen)
               ELSE all(kid.kids, under, Append(path, graphql_type_get_plural(under)), seen)

compile_field(c, node, parent, path, scanned, seen) ==
    LET to == Target(c, parent, node.name)
        scalar == to.type.kind # "object"
        kind == PlanKind(to.list, scalar, scanned, node.args)
        plural == IF to.type = NoQlType THEN node.name ELSE graphql_type_get_plural(to.type)
        below == Together([i \in DOMAIN node.kids |->
                    CompileKid(c, node.kids[i], to.type, plural, path, kind \in {"SCAN", "BATCH_GET"}, seen)])
        plan == [kind |-> kind, type |-> to.base, field |-> node.name, args |-> node.args,
                 path |-> ScanPath(path, to, node.name), kids |-> below.plans]
    IN  CASE node.skip -> Compiled(<<>>, 0)
          [] ~ node.skip /\ node.name = "__typename" ->
               Compiled(<<[plan EXCEPT !.kind = "RESOLVE_FIELD", !.type = parent.name, !.kids = <<>>]>>, 0)
          [] OTHER ->
               IF \/ parent # NoQlType /\ ~ to.known /\ to.type = NoQlType /\ c.strict
                  \/ scalar /\ node.kids # <<>> /\ c.strict
                 THEN ErrorOf(c)
                 ELSE Compiled(<<plan>>, below.errors)

graphql_compile_query(types, query) ==
    LET c == [types |-> types, frags |-> query.frags, strict |-> TRUE]
        one(node) ==
          LET roots == RootTypes(types, node.name)
          IN  IF roots = <<>> THEN compile_field(c, node, NoQlType, <<node.name>>, FALSE, {})
              ELSE compile_field(c, node, roots[1], <<graphql_type_get_plural(roots[1])>>, FALSE, {})
        fields == SelectSeq(query.fields, LAMBDA node : node.what = "field")
    IN  Together([i \in DOMAIN fields |-> one(fields[i])])

\* The selection of a mutation: no fragments, and nobody counts errors.
graphql_compile_mutation_selection(types, name, kids) ==
    LET c == [types |-> types, frags |-> <<>>, strict |-> FALSE]
        type == graphql_schema_get_type(types, name)
        fields == SelectSeq(kids, LAMBDA node : node.what = "field")
    IN  IF type = NoQlType THEN <<>>
        ELSE Together([i \in DOMAIN fields |->
               compile_field(c, fields[i], type, <<graphql_type_get_plural(type)>>, TRUE, {})]).plans

(***************************************************************************)
(* Resolution of a plan against the database s.db and the types s.types.   *)
(* `fresh' says that a plan is executed for the first time: a scan gives   *)
(* its start away and is empty the next time.                              *)
(***************************************************************************)
QlNode(kind, name, val, kids) == [kind |-> kind, name |-> name, val |-> val, kids |-> kids]
Null(plan) == QlNode("NULL", plan.field, "", <<>>)
TooDeep(plan) == QlNode("NULL", plan.field, "Maximum query depth exceeded", <<>>)
InternalNames == {"__meta", "__schema"}
TopOf(type) == IF type = NoQlType THEN "Unknown" ELSE graphql_type_get_plural(type)

execute_get(s, plan) ==
    LET value == layer_get_string(s.db, plan.path)
    IN  IF value = <<>> THEN Null(plan) ELSE QlNode("STRING", plan.field, value[1], <<>>)

\* The identifiers a scan meets: of every later type as well.
ScannedIds(db, start) ==
    SelectSeq(NthNames(ScanFrom(db, start), 2), LAMBDA n : n \notin InternalNames)
ArgIds(args) ==
    LET ids == SelectSeq(args, LAMBDA a : a.name = "id") IN [i \in DOMAIN ids |-> ids[i].val]

ScalarKind(type, name) ==
    LET base == FirstNamed(type.fields, name, NoField).base
    IN  IF base \in {"Int", "Float", "Boolean", "ID"} THEN base ELSE "STRING"

RECURSIVE resolve_field(_, _, _, _, _, _)
\* One object per identifier, with the selected fields of each.
ObjectFor(s, plan, type, id, depth, fresh) ==
    QlNode("OBJECT", plan.field, id,
           [j \in DOMAIN plan.kids |-> resolve_field(s, plan.kids[j], type, <<id>>, depth + 1, fresh)])
ObjectList(s, plan, type, ids, depth, fresh) ==
    QlNode("LIST", plan.field, "",
           [i \in DOMAIN ids |-> ObjectFor(s, plan, type, ids[i], depth, fresh /\ i = 1)])

execute_scan(s, plan, type, depth, fresh) ==
    LET of == IF type = NoQlType THEN graphql_schema_get_type(s.types, plan.type) ELSE type
    IN  ObjectList(s, plan, of, IF fresh THEN ScannedIds(s.db, plan.path) ELSE <<>>, depth, fresh)

ResolveScalar(s, plan, type, id, depth, fresh) ==
    LET value == layer_get_string(s.db, <<TopOf(type)>> \o id \o <<plan.field>>)
        ref == graphql_schema_get_type(s.types, plan.type)
    IN  IF plan.field = "__typename"
          THEN QlNode("STRING", plan.field, IF plan.type = "" THEN "Unknown" ELSE plan.type, <<>>)
        ELSE IF value = <<>> THEN Null(plan)
        ELSE IF plan.kids # <<>> THEN ObjectFor(s, plan, ref, value[1], depth, fresh)
        ELSE QlNode(ScalarKind(type, plan.field), plan.field, value[1], <<>>)

\* Without a value at the field, every value of a later key is taken.
ResolveRef(s, plan, type, id, depth, fresh) ==
    LET ref == graphql_schema_get_type(s.types, plan.type)
        at == <<TopOf(type)>> \o id \o <<plan.field>>
        value == layer_get_string(s.db, at)
        later == ScanFrom(s.db, at)
    IN  IF id = <<>> THEN Null(plan)
        ELSE IF value # <<>> THEN ObjectFor(s, plan, ref, value[1], depth, fresh)
        ELSE ObjectList(s, plan, ref, [i \in DOMAIN later |-> s.db[later[i]]], depth, fresh)

ResolveBatch(s, plan, type, depth, fresh) ==
    LET of == IF type = NoQlType THEN graphql_schema_get_type(s.types, plan.type) ELSE type
    IN  ObjectList(s, plan, of, ArgIds(plan.args), depth, fresh)

resolve_field(s, plan, type, id, depth, fresh) ==
    IF depth > MAX_RESOLVE_DEPTH THEN TooDeep(plan)
    ELSE CASE plan.kind = "GET" -> execute_get(s, plan)
           [] plan.kind = "SCAN" -> execute_scan(s, plan, type, depth, fresh)
           [] plan.kind = "RESOLVE_FIELD" -> ResolveScalar(s, plan, type, id, depth, fresh)
           [] plan.kind = "RESOLVE_REF" -> ResolveRef(s, plan, type, id, depth, fresh)
           [] plan.kind = "BATCH_GET" -> ResolveBatch(s, plan, type, depth, fresh)

\* The answers to introspection show the registry.
introspect_type(types, name) ==
    LET t == graphql_schema_get_type(types, name)
        leaf(n, v) == QlNode("STRING", n, v, <<>>)
        fields == [i \in DOMAIN t.fields |->
                     QlNode("OBJECT", "", "", <<leaf("name", t.fields[i].name)>>)]
    IN  IF t = NoQlType THEN QlNode("NULL", "__type", "", <<>>)
        ELSE QlNode("OBJECT", "__type", "",
               <<leaf("name", t.name), leaf("kind", t.kind), QlNode("LIST", "fields", "", fields)>>)
introspect_schema(types) ==
    LET leaf(n, v) == QlNode("STRING", n, v, <<>>)
        field(f) == QlNode("OBJECT", "", "",
                           <<leaf("name", f.name), leaf("type", IF f.base = "" THEN "Unknown" ELSE f.base)>>)
        type(t) == QlNode("OBJECT", "", "",
                     <<leaf("name", t.name), leaf("kind", t.kind), leaf("__typename", "__Type"),
                       QlNode("LIST", "fields", "", [i \in DOMAIN t.fields |-> field(t.fields[i])])>>)
    IN  QlNode("OBJECT", "__schema", "", [i \in DOMAIN types |-> type(types[i])])

(***************************************************************************)
(* The life of the layer.                                                  *)
(***************************************************************************)
NoWork == [pc |-> "idle", op |-> 1, plans |-> <<>>, tasks |-> <<>>,
           id |-> "", at |-> <<>>, keys |-> {}, errors |-> 0, info |-> <<>>, cells |-> {}, lists |-> {},
           since |-> {}]
LayerKeys == <<"__meta", "layer">> :> "graphql" @@ <<"__meta", "version">> :> "1"
             @@ <<"__meta", "created">> :> "now"

\* ent: entity -> field -> value as the mutations left it; made: entity ->
\* how many creations got it; cut: entities a deletion was started for;
\* gone: those of them nobody wrote since; raced: the types with creations
\* that counted at the same time; failed: those where counting failed.
QlInit ==
    /\ qDb = LayerKeys /\ qTypes = <<>>
    /\ qLayer = [open |-> TRUE, handle |-> TRUE, refs |-> 1, parsed |-> FALSE, reopens |-> 0]
    /\ qProgram \in DOMAIN QlPrograms
    /\ qGiven = [w \in QlWorkers |-> 0]
    /\ qWork = [w \in QlWorkers |-> NoWork]
    /\ qHist = [ent |-> NoPath, made |-> NoPath, cut |-> {}, gone |-> {},
                raced |-> {}, failed |-> {}]

graphql_schema_parse ==
    /\ qLayer.handle /\ ~ qLayer.parsed /\ \A w \in QlWorkers : qWork[w] = NoWork
    /\ qTypes' = convert_ast_to_types(qTypes, QlText)
    /\ qDb' = FoldLeft(graphql_schema_store_type, convert_schema_definition(QlText) @@ qDb, qTypes')
    /\ qLayer' = [qLayer EXCEPT !.parsed = TRUE]
    /\ UNCHANGED <<qProgram, qGiven, qWork, qHist>>

\* Only the user's own call frees the layer: a request that gives back the
\* last reference does not.
graphql_layer_destroy ==
    /\ qLayer.handle /\ qLayer.parsed /\ qLayer.reopens < QlReopens
    /\ qLayer' = [qLayer EXCEPT !.handle = FALSE, !.refs = @ - 1, !.open = @ /\ qLayer.refs > 1]
    /\ qTypes' = IF qLayer.refs > 1 THEN qTypes ELSE <<>>
    /\ UNCHANGED <<qDb, qProgram, qGiven, qWork, qHist>>

graphql_layer_create ==
    LET known == layer_get_string(qDb, <<"__meta", "layer">>) # <<>>
    IN  /\ ~ qLayer.open
        /\ qTypes' = IF known THEN graphql_schema_load(qDb) ELSE <<>>
        /\ qDb' = IF known THEN qDb ELSE LayerKeys @@ qDb
        /\ qLayer' = [qLayer EXCEPT !.open = TRUE, !.handle = TRUE, !.refs = 1, !.reopens = @ + 1]
        /\ UNCHANGED <<qProgram, qGiven, qWork, qHist>>

(***************************************************************************)
(* Requests.  The reference to the layer is taken with the request and     *)
(* given back once its promise is settled.                                 *)
(***************************************************************************)
Request(w) == Requests(w)[qGiven[w]]
SetWork(w, new) == qWork' = [qWork EXCEPT ![w] = new]

\* A pool that is stopped refuses the request, which nobody looks at: the
\* reference stays taken and the promise is never settled.
QlSubmit(w) ==
    /\ qLayer.handle /\ qLayer.parsed /\ qWork[w].pc = "idle" /\ qGiven[w] < Len(Requests(w))
    /\ \/ SetWork(w, [NoWork EXCEPT !.pc = "queued", !.since = {qHist.ent}])
       \/ UNCHANGED qWork
    /\ qGiven' = [qGiven EXCEPT ![w] = @ + 1]
    /\ qLayer' = [qLayer EXCEPT !.refs = @ + 1]
    /\ UNCHANGED <<qDb, qTypes, qProgram, qHist>>

QlSettle(w) ==
    /\ SetWork(w, NoWork)
    /\ qLayer' = [qLayer EXCEPT !.refs = @ - 1]
    /\ UNCHANGED <<qDb, qTypes, qProgram, qGiven, qHist>>

QlAbort(w) == qWork[w].pc = "queued" /\ QlSettle(w)

graphql_query_impl(w) ==
    LET r == Request(w)
        built == graphql_compile_query(qTypes, r)
    IN  /\ qWork[w].pc = "queued"
        /\ \/ /\ r.what = "query"
              /\ SetWork(w, [qWork[w] EXCEPT !.pc = "plan", !.plans = built.plans,
                                      !.errors = built.errors + IF built.plans = <<>> THEN 1 ELSE 0])
           \/ /\ r.what = "schema"
              /\ SetWork(w, [qWork[w] EXCEPT !.pc = "plan", !.info = <<introspect_schema(qTypes)>>])
           \/ /\ r.what = "type"
              /\ SetWork(w, [qWork[w] EXCEPT !.pc = "plan", !.info = <<introspect_type(qTypes, r.name)>>])
        /\ UNCHANGED <<qDb, qTypes, qLayer, qProgram, qGiven, qHist>>

\* execute_plan takes the plans below the root one by one: a list is told
\* entity by entity, and each selected field is read on its own.
ExecuteTop(w) ==
    LET plan == Head(qWork[w].plans)
        type == graphql_schema_get_type(qTypes, plan.type)
        ids == IF plan.kind = "SCAN" THEN ScannedIds(qDb, plan.path) ELSE ArgIds(plan.args)
        n == Len(plan.kids)
        task(i) == [kid |-> plan.kids[((i - 1) % n) + 1], type |-> type,
                    id |-> ids[((i - 1) \div n) + 1], fresh |-> i <= n]
        rest == [qWork[w] EXCEPT !.plans = Tail(@)]
    IN  /\ qWork[w].pc = "plan" /\ qWork[w].plans # <<>> /\ qWork[w].tasks = <<>>
        /\ IF plan.kind \in {"SCAN", "BATCH_GET"}
             THEN SetWork(w, [rest EXCEPT !.tasks = [i \in 1 .. n * Len(ids) |-> task(i)],
                                          !.lists = @ \cup {[scan |-> plan.kind = "SCAN", top |-> TopOf(type),
                                                             ids |-> ToSet(ids)]}])
             ELSE SetWork(w, [rest EXCEPT !.info = Append(@, execute_get([db |-> qDb], plan))])
        /\ UNCHANGED <<qDb, qTypes, qLayer, qProgram, qGiven, qHist>>

CellOf(t, node) == [top |-> TopOf(t.type), id |-> t.id, field |-> t.kid.field, kind |-> node.kind,
                    val |-> IF node.kind = "LIST" THEN "" ELSE node.val]
ReadField(w) ==
    LET t == Head(qWork[w].tasks)
        node == resolve_field([db |-> qDb, types |-> qTypes], t.kid, t.type, <<t.id>>, 2, t.fresh)
    IN  /\ qWork[w].tasks # <<>>
        /\ SetWork(w, [qWork[w] EXCEPT !.tasks = Tail(@), !.cells = @ \cup {CellOf(t, node)}])
        /\ UNCHANGED <<qDb, qTypes, qLayer, qProgram, qGiven, qHist>>

(***************************************************************************)
(* Mutations: [op, type, args, kids], one after the other.                 *)
(***************************************************************************)
graphql_mutate_impl(w) ==
    /\ qWork[w].pc = "queued" /\ Request(w).what = "mutation"
    /\ SetWork(w, [qWork[w] EXCEPT !.pc = "ops"])
    /\ UNCHANGED <<qDb, qTypes, qLayer, qProgram, qGiven, qHist>>

TypeTop(types, name) ==
    LET t == graphql_schema_get_type(types, name) IN IF t = NoQlType THEN name ELSE graphql_type_get_plural(t)
validate_required_fields(t, args) ==
    t.kind = "object" =>
        \A i \in DOMAIN t.fields : t.fields[i].req => \E j \in DOMAIN args : args[j].name = t.fields[i].name
\* The types as the text declares them: the histories name entities by them.
DeclaredTypes == convert_ast_to_types(<<>>, QlText)
DeclaredTop(name) == TypeTop(DeclaredTypes, name)
OpsDone(w) == qWork[w].op > Len(Request(w).ops)
OpOf(w) == Request(w).ops[qWork[w].op]
OpIs(w, op) == qWork[w].pc = "ops" /\ ~ OpsDone(w) /\ OpOf(w).op = op
OpTop(w) == TypeTop(qTypes, OpOf(w).type)
NextOp(work) == [work EXCEPT !.pc = "ops", !.op = @ + 1]
OpFails(w) == SetWork(w, [NextOp(qWork[w]) EXCEPT !.errors = @ + 1])

\* The counter before the increment is the identifier; a missing counter
\* counts from 0.
Counter(db, top) ==
    LET stored == layer_get_string(db, <<top, "__meta", "next_id">>)
    IN  IF stored = <<>> THEN 0 ELSE CHOOSE n \in 0 .. QlMaxId : ToString(n) = stored[1]

CreateId(w) ==
    LET op == OpOf(w)
        valid == validate_required_fields(graphql_schema_get_type(qTypes, op.type), op.args)
        rivals == {v \in QlWorkers : qWork[v].pc = "count" /\ OpTop(v) = OpTop(w)}
    IN  /\ OpIs(w, "create")
        /\ \/ ~ valid /\ OpFails(w) /\ UNCHANGED qHist
           \/ /\ valid
              /\ SetWork(w, [qWork[w] EXCEPT !.pc = "count", !.id = ToString(Counter(qDb, OpTop(w)))])
              /\ qHist' = [qHist EXCEPT !.raced = @ \cup {DeclaredTop(OpOf(v).type) : v \in rivals}]
        /\ UNCHANGED <<qDb, qTypes, qLayer, qProgram, qGiven>>

\* The counter is written later, from the value read, whatever it is by then.
\* When counting fails the identifier is 1.
CountUp(w) ==
    LET n == CHOOSE i \in 0 .. QlMaxId : ToString(i) = qWork[w].id
    IN  /\ qWork[w].pc = "count"
        /\ \/ /\ qDb' = <<OpTop(w), "__meta", "next_id">> :> ToString(n + 1) @@ qDb
              /\ SetWork(w, [qWork[w] EXCEPT !.pc = "create"])
              /\ UNCHANGED qHist
           \/ /\ SetWork(w, [qWork[w] EXCEPT !.pc = "create", !.id = "1"])
              /\ qHist' = [qHist EXCEPT !.failed = @ \cup {DeclaredTop(OpOf(w).type)}]
              /\ UNCHANGED qDb
        /\ UNCHANGED <<qTypes, qLayer, qProgram, qGiven>>

QlFields(args) == FoldLeft(LAMBDA f, a : a.name :> a.val @@ f, NoPath, args)
BatchPuts(top, id, args) ==
    LET fields == QlFields(args)
    IN  [p \in {<<top, id, f>> : f \in DOMAIN fields} |-> fields[p[3]]]

\* The history of a write.
QlWritten(e, fields, creates) ==
    LET old == IF e \in DOMAIN qHist.ent THEN qHist.ent[e] ELSE NoPath
        count == IF e \in DOMAIN qHist.made THEN qHist.made[e] ELSE 0
    IN  [qHist EXCEPT !.ent = e :> (fields @@ old) @@ @,
                      !.made = IF creates THEN e :> count + 1 @@ @ ELSE @,
                      !.gone = @ \ {e}]
\* Every running request has met the new contents.
Meet(work, ent) == [w \in DOMAIN work |->
    IF work[w].pc = "idle" THEN work[w] ELSE [work[w] EXCEPT !.since = @ \cup {ent}]]
AfterWrite(w, id) ==
    IF OpOf(w).kids = <<>> THEN NextOp(qWork[w])
    ELSE [qWork[w] EXCEPT !.pc = "select", !.id = id]

WriteEntity(w, id, args, creates) ==
    /\ qDb' = BatchPuts(OpTop(w), id, args) @@ qDb
    /\ qHist' = QlWritten(<<DeclaredTop(OpOf(w).type), id>>, QlFields(args), creates)
    /\ qWork' = Meet([qWork EXCEPT ![w] = AfterWrite(w, id)], qHist'.ent)
    /\ UNCHANGED <<qTypes, qLayer, qProgram, qGiven>>

CreateBatch(w) ==
    /\ qWork[w].pc = "create"
    /\ WriteEntity(w, qWork[w].id, OpOf(w).args, TRUE)

UpdateBatch(w) ==
    LET args == OpOf(w).args
        ids == ArgIds(args)
    IN  /\ OpIs(w, "update")
        /\ \/ ids = <<>> /\ OpFails(w) /\ UNCHANGED <<qDb, qTypes, qLayer, qProgram, qGiven, qHist>>
           \/ ids # <<>> /\ WriteEntity(w, ids[1], SelectSeq(args, LAMBDA a : a.name # "id"), FALSE)

\* The selected fields of the entity just written.
resolve_mutation_selection(w) ==
    LET op == OpOf(w)
        plans == graphql_compile_mutation_selection(qTypes, op.type, op.kids)
        type == graphql_schema_get_type(qTypes, op.type)
        cell(i) == CellOf([type |-> type, id |-> qWork[w].id, kid |-> plans[i]],
                          resolve_field([db |-> qDb, types |-> qTypes], plans[i], type, <<qWork[w].id>>, 1, TRUE))
    IN  /\ qWork[w].pc = "select"
        /\ SetWork(w, [NextOp(qWork[w]) EXCEPT !.cells = @ \cup {cell(i) : i \in DOMAIN plans}])
        /\ UNCHANGED <<qDb, qTypes, qLayer, qProgram, qGiven, qHist>>

\* A deletion scans from the entity on without an end, and deletes each key
\* it comes to before it goes on to the next.
DeleteScan(w) ==
    LET ids == ArgIds(OpOf(w).args)
        e == <<DeclaredTop(OpOf(w).type), ids[1]>>
        start == <<OpTop(w), ids[1]>>
    IN  /\ OpIs(w, "delete")
        /\ \/ ids = <<>> /\ OpFails(w) /\ UNCHANGED qHist
           \/ /\ ids # <<>>
              /\ qHist' = [qHist EXCEPT !.ent = Without(@, {e}), !.cut = @ \cup {e}, !.gone = @ \cup {e}]
              /\ qWork' = Meet([qWork EXCEPT ![w] =
                   [@ EXCEPT !.pc = "delete", !.at = start, !.keys = ToSet(ScanFrom(qDb, start))]], qHist'.ent)
        /\ UNCHANGED <<qDb, qTypes, qLayer, qProgram, qGiven>>

\* The scan tells the keys of its start, and a key written since then ahead
\* of it: as long as that has one version only, it is shown to every reader.
Ahead(w) == qWork[w].keys \cup {p \in DOMAIN qDb : PathBefore(qWork[w].at, p)}
DeleteKey(w) ==
    /\ qWork[w].pc = "delete"
    /\ \/ \E p \in Ahead(w) :
             /\ \A k \in qWork[w].keys : ~ PathBefore(k, p)
             /\ qDb' = Without(qDb, {p})
             /\ SetWork(w, [qWork[w] EXCEPT !.at = p, !.keys = @ \ {p}])
       \/ qWork[w].keys = {} /\ SetWork(w, [NextOp(qWork[w]) EXCEPT !.at = <<>>]) /\ UNCHANGED qDb
    /\ UNCHANGED <<qTypes, qLayer, qProgram, qGiven, qHist>>

\* The answer is complete; the promise is resolved and the reference dropped.
Answered(w) ==
    \/ qWork[w].pc = "ops" /\ OpsDone(w)
    \/ qWork[w].pc = "plan" /\ qWork[w].plans = <<>> /\ qWork[w].tasks = <<>>
QlResolve(w) == Answered(w) /\ QlSettle(w)

QlNext ==
    \/ graphql_schema_parse \/ graphql_layer_destroy \/ graphql_layer_create
    \/ \E w \in QlWorkers :
          \/ QlSubmit(w) \/ QlAbort(w) \/ graphql_query_impl(w) \/ ExecuteTop(w) \/ ReadField(w)
          \/ graphql_mutate_impl(w) \/ CreateId(w) \/ CountUp(w) \/ CreateBatch(w) \/ UpdateBatch(w)
          \/ resolve_mutation_selection(w) \/ DeleteScan(w) \/ DeleteKey(w) \/ QlResolve(w)

(***************************************************************************)
(* Properties.                                                             *)
(***************************************************************************)
\* The entities no deletion has touched: a deletion goes on to the last key
\* of the database, so that only what is sorted before it is claimed.
Untouched(e) == \A c \in qHist.cut : PathBefore(e, c)
Told(ent, e, f) == IF e \in DOMAIN ent /\ f \in DOMAIN ent[e] THEN ent[e][f] ELSE ""

\* Two creations never get the same entity, whether or not the layer was
\* opened again in between, where those of a type did not count at the same
\* time and none failed to count.
IdsDistinct ==
    \A e \in DOMAIN qHist.made :
        (Untouched(e) /\ e[1] \notin qHist.raced \cup qHist.failed) => qHist.made[e] = 1

\* "Atomically generate next ID" (graphql_resolve.c): two creations never get
\* the same entity, on whatever workers they run.  The increment is not
\* atomic, and this does not hold.
IdsAtomic ==
    \A e \in DOMAIN qHist.made :
        (Untouched(e) /\ e[1] \notin qHist.failed) => qHist.made[e] = 1

\* The database holds the fields the acknowledged mutations gave an entity,
\* and nothing of an entity that was deleted and not written since.
EntitiesStored ==
    /\ \A e \in DOMAIN qHist.ent : Untouched(e) =>
          \A f \in DOMAIN qHist.ent[e] : layer_get_string(qDb, e \o <<f>>) = <<qHist.ent[e][f]>>
    /\ \A e \in qHist.gone :
          (\A w \in QlWorkers : qWork[w].pc # "delete") => \A p \in DOMAIN qDb : ~ IsPrefix(e, p)

\* A field that a query or a selection tells had the value told at some time
\* since the request was given.
FieldsTold ==
    \A w \in QlWorkers : \A c \in qWork[w].cells :
        (c.kind # "LIST" /\ c.field # "__typename" /\ Untouched(<<c.top, c.id>>)) =>
            \E ent \in qWork[w].since : Told(ent, <<c.top, c.id>>, c.field) = c.val

\* A list names every entity of its type that was there all the time.
ListsCover ==
    \A w \in QlWorkers : \A l \in qWork[w].lists : l.scan =>
        \A e \in DOMAIN qHist.ent :
            (/\ e[1] = l.top /\ Untouched(e)
             /\ \A ent \in qWork[w].since : e \in DOMAIN ent /\ DOMAIN ent[e] # {}) => e[2] \in l.ids

\* Object types with the usual plural keep their fields across a restart.
SchemaReloads ==
    (qLayer.open /\ qLayer.parsed /\ qHist.cut = {}) =>
        \A t \in ToSet(DeclaredTypes) :
            (t.kind = "object" /\ t.plural = make_plural(t.name)) =>
                ToSet(t.fields) \subseteq ToSet(graphql_schema_get_type(qTypes, t.name).fields)

\* The layer is not closed under a request.
NoLateRequest == ~ qLayer.open => \A w \in QlWorkers : qWork[w] = NoWork

\* The GraphQL layer: identifiers that are counted one after the other are
\* never shared, entities and schema are kept, queries tell what mutations
\* wrote, and no request meets a closed layer.
GraphqlSound == /\ IdsDistinct /\ EntitiesStored /\ FieldsTold /\ ListsCover
                /\ SchemaReloads /\ NoLateRequest
=============================================================================
