------------------------------ MODULE MCLayers -----------------------------
(* Graph: three vertices, two predicates (1 and 2) and two type definitions. *)
EXTENDS Layers
CONSTANTS w1, w2
MCWorkers == {w1, w2}
WorkerSymmetry == Permutations(MCWorkers)

MCVertexOrder == <<1, 2, 3>>
MCTriples == {<<1, 1, 2>>, <<2, 1, 3>>, <<2, 2, 1>>}
MCLaterTriples == {<<2, 1, 3>>}
MCMorphisms == [m \in {1} |-> <<Out(1), Has(2, 1, "eq")>>]

Field(n, idx) == [name |-> n, indices |-> idx]
TypeA == [ok |-> TRUE, name |-> <<1>>, indices |-> {},
          fields |-> <<Field(1, {"spo", "pos", "pso"}), Field(2, {})>>]
TypeB == [ok |-> TRUE, name |-> <<2>>, indices |-> {"pos", "pso"},
          fields |-> <<Field(1, {})>>]
Wrong == [ok |-> FALSE, name |-> <<3>>, indices |-> {}, fields |-> <<>>]
MCTypeDefs == {<<TypeA>>, <<TypeB, Wrong, TypeA>>}

MCTextQueries == {
    <<V(1), Out(1), In(1)>>,
    <<Has(1, 2, "gte"), Has(2, 1, "eq"), Out(1)>>,
    <<Has(2, 1, "eq"), Has(1, 3, "lt")>>,
    <<V(1), Out(1), Has(2, 2, "eq"), Has(1, 2, "gt"), Out(1)>>,
    <<V(2), With("intersect", <<Has(1, 1, "gt")>>)>>,
    <<V(1), With("union", <<V(2), Out(1)>>), Out(2), Limit(1)>>,
    <<V(2), With("difference", <<Has(2, 1, "lte")>>), Out(1)>>,
    <<V(1), Follow(1), Out(2)>> }
MCBuiltQueries == {
    <<Both("intersect", <<Has(1, 1, "gt")>>, <<V(1), Out(1)>>), Limit(1)>>,
    <<Both("intersect", <<V(1), Out(1)>>, <<Both("intersect", <<Has(1, 1, "gt")>>, <<Has(2, 1, "eq")>>)>>)>>,
    <<Both("union", <<Has(2, 1, "eq"), Out(1)>>, <<V(3)>>), Out(2)>>,
    <<Both("difference", <<Has(2, 1, "eq")>>, <<V(1), Out(1)>>)>>,
    <<V(1), Follow(1)>> }

(* Vectors: two are stored, a third is searched for as well; by the second  *)
(* hash it lies between them, by the first behind both.                     *)
MCLshHash == [t \in 0 .. 1 |-> IF t = 0 THEN [v \in 0 .. 3 |-> IF v = 2 THEN 1 ELSE 0]
                                        ELSE [v \in 0 .. 3 |-> CASE v = 0 -> 0 [] v = 2 -> 1 [] OTHER -> 2]]

(* GraphQL: two types that refer to each other, one with its own plural, an *)
(* enumeration; creations race, and a deletion comes last.                  *)
MCQlNames == <<"0", "1", "2", "3", "Color", "Colors", "People", "Person", "Persons",
    "Post", "Posts", "User", "Users", "__meta", "__schema", "author", "created", "enum",
    "fields", "is_list", "layer", "name", "next_id", "plural", "posts", "query_type", "red",
    "required", "title", "type", "types", "version">>
QlF(n, base, list, req) == [name |-> n, base |-> base, list |-> list, req |-> req]
QlDef(kind, n, plural, fields, values) ==
    [kind |-> kind, name |-> n, plural |-> plural, fields |-> fields, values |-> values]
MCQlText == <<
    QlDef("object", "User", "", <<QlF("name", "String", FALSE, TRUE), QlF("posts", "Post", TRUE, FALSE)>>, <<>>),
    QlDef("extend", "Post", "", <<QlF("title", "String", FALSE, FALSE)>>, <<>>),
    QlDef("object", "Post", "", <<QlF("author", "User", FALSE, FALSE), QlF("title", "Int", FALSE, FALSE)>>, <<>>),
    QlDef("object", "Person", "People", <<QlF("name", "String", FALSE, FALSE)>>, <<>>),
    QlDef("enum", "Color", "", <<>>, <<"red">>),
    QlDef("schema", "", "", <<QlF("query", "User", FALSE, FALSE)>>, <<>>) >>
QlSel(what, n, args, kids) ==
    [what |-> what, name |-> n, args |-> args, kids |-> kids, cond |-> "", skip |-> FALSE]
QlArg(n, v) == [name |-> n, val |-> v]
Op(op, type, args, kids) == [op |-> op, type |-> type, args |-> args, kids |-> kids]
Mutation(ops) == [what |-> "mutation", ops |-> ops]
Query(fields, frags) == [what |-> "query", fields |-> fields, frags |-> frags]
Leaf(n) == QlSel("field", n, <<>>, <<>>)
NewUser(v) == Op("create", "User", <<QlArg("name", v)>>, <<Leaf("name")>>)
UserOne == QlSel("field", "User", <<QlArg("id", "1")>>, 
    <<Leaf("name"), Leaf("__typename"), QlSel("field", "posts", <<>>, <<Leaf("title")>>)>>)
AllUsers == QlSel("field", "Users", <<>>, <<Leaf("name")>>)
Inline == [QlSel("inline", "", <<>>, <<Leaf("title")>>) EXCEPT !.cond = "Post"]
Spread(n) == QlSel("spread", n, <<>>, <<>>)
AllPosts == QlSel("field", "Post", <<>>,
    <<Spread("F"), Spread("G"), Inline, QlSel("field", "author", <<>>, <<Leaf("name")>>),
      [Leaf("title") EXCEPT !.skip = TRUE], Leaf("nothing")>>)
Fragments == <<[name |-> "F", cond |-> "Post", kids |-> <<Leaf("title"), Spread("F")>>]>>
MCQlPrograms == <<
    << <<Mutation(<<NewUser("a"), Op("update", "User", <<QlArg("id", "1"), QlArg("name", "b")>>, <<>>)>>)>>,
       <<Mutation(<<NewUser("c")>>), Query(<<UserOne, AllUsers, Leaf("version")>>, <<>>)>> >>,
    << <<Mutation(<<Op("create", "Post", <<QlArg("title", "a"), QlArg("author", "1")>>, <<Leaf("author")>>),
                    Op("create", "User", <<>>, <<>>), NewUser("d"), NewUser("e")>>),
         Mutation(<<Op("delete", "User", <<QlArg("id", "1")>>, <<>>), Op("delete", "User", <<>>, <<>>),
                    Op("update", "User", <<>>, <<>>)>>)>>,
       <<Query(<<AllPosts>>, Fragments), [what |-> "schema"], [what |-> "type", name |-> "Post"]>> >> >>
=============================================================================
