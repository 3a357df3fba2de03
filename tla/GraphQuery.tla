----------------------------- MODULE GraphQuery -----------------------------
(***************************************************************************)
(* The queries of the graph layer as functions: the text parser            *)
(* (graph_parser.c), the optimizer (graph_optimizer.c, graph_stats.c) and  *)
(* the execution of a chain of steps over the indexes (graph_ops.c,        *)
(* graph_set.c), and what a query means.                                   *)
(*                                                                         *)
(* Vertices, predicates and names are numbers, in the order of their keys; *)
(* the range scan of a prefix finds the keys with these components (a name *)
(* that continues another one with a byte below '0' is left out).  A       *)
(* vertex set is a sequence without repetition, in the order of insertion, *)
(* which Limit depends on.                                                 *)
(***************************************************************************)
EXTENDS Integers, Sequences, FiniteSets, SequencesExt

CONSTANT VertexOrder  \* the vertices in key order

\* A step: its type, its operand (vertex, predicate, limit or morphism), its
\* filter (also of a traversal, once fused) and its sub-queries.
NoHas == [p |-> 0, v |-> 0, cmp |-> "none"]
MkStep(type, n) == [type |-> type, n |-> n, has |-> NoHas, kids |-> <<>>]
V(n)   == MkStep("vertex", n)
Out(p) == MkStep("out", p)
In(p)  == MkStep("in", p)
Limit(n)  == MkStep("limit", n)
Follow(m) == MkStep("morphism", m)
Has(p, v, cmp) == [MkStep("has", 0) EXCEPT !.has = [p |-> p, v |-> v, cmp |-> cmp]]
\* graph_query_intersect, _union, _difference with two sub-queries; the text
\* has And, Or and Not with one.
Both(type, left, right) == [MkStep(type, 0) EXCEPT !.kids = <<left, right>>]
With(type, sub)         == [MkStep(type, 0) EXCEPT !.kids = <<sub>>]
SetOps == {"intersect", "union", "difference"}

-----------------------------------------------------------------------------
(* Vertex sets. *)
vertex_set_add(s, v) == IF Contains(s, v) THEN s ELSE Append(s, v)
AddAll(s, vs) == FoldLeft(vertex_set_add, s, vs)
vertex_set_intersect(a, b) ==
    LET smaller == IF Len(a) <= Len(b) THEN a ELSE b
        larger  == IF Len(a) <= Len(b) THEN b ELSE a
    IN  SelectSeq(smaller, LAMBDA v : Contains(larger, v))
vertex_set_union(a, b) == AddAll(a, b)
vertex_set_difference(a, b) == SelectSeq(a, LAMBDA v : ~Contains(b, v))
Apply(type, a, b) == CASE type = "intersect" -> vertex_set_intersect(a, b)
                       [] type = "union" -> vertex_set_union(a, b)
                       [] type = "difference" -> vertex_set_difference(a, b)

-----------------------------------------------------------------------------
(* Scans.  idx has the four indexes, each a set of triples <<s, p, o>>. *)
Ordered(S) == SelectSeq(VertexOrder, LAMBDA v : v \in S)

graph_execute_out(idx, input, p) ==
    FoldLeft(LAMBDA acc, s : AddAll(acc, Ordered({t[3] : t \in {u \in idx.spo : u[1] = s /\ u[2] = p}})),
             <<>>, input)
graph_execute_in(idx, input, p) ==
    FoldLeft(LAMBDA acc, o : AddAll(acc, Ordered({t[1] : t \in {u \in idx.pos : u[3] = o /\ u[2] = p}})),
             <<>>, input)

cmp_strings(a, b, cmp) == CASE cmp = "eq" -> a = b  [] cmp = "gt" -> a > b
                            [] cmp = "gte" -> a >= b [] cmp = "lt" -> a < b
                            [] cmp = "lte" -> a <= b

\* Without input (the first step of a chain) everything matches.
graph_execute_has(idx, input, first, h) ==
    LET objects  == SelectSeq(VertexOrder, LAMBDA o : cmp_strings(o, h.v, h.cmp))
        subjects == graph_execute_in(idx, objects, h.p)
    IN  IF first THEN subjects ELSE SelectSeq(subjects, LAMBDA s : Contains(input, s))

\* A traversal, of the filtered vertices when a filter was fused into it.
Traverse(idx, input, first, s) ==
    LET from == IF s.has = NoHas THEN input ELSE graph_execute_has(idx, input, first, s.has)
    IN  IF s.type = "out" THEN graph_execute_out(idx, from, s.n)
                          ELSE graph_execute_in(idx, from, s.n)

RECURSIVE execute_child_steps(_, _, _, _, _), ExecuteStep(_, _, _, _, _)
RECURSIVE RunMorphism(_, _, _, _, _)

\* The sub-queries one after the other, then the set they apply to: an empty
\* one counts as none, whatever step it comes from.
Combine(idx, morphs, cur, s) ==
    LET results == [i \in DOMAIN s.kids |-> execute_child_steps(idx, morphs, <<>>, TRUE, s.kids[i])]
        combined == FoldLeft(LAMBDA acc, r : Apply(s.type, acc, r), Head(results), Tail(results))
    IN  IF cur = <<>> THEN combined ELSE Apply(s.type, cur, combined)

\* The steps of a morphism on the set that the chain has reached.
RunMorphism(idx, morphs, cur, first, steps) ==
    IF steps = <<>> THEN cur
    ELSE LET s == Head(steps)
             next == IF s.type = "vertex" THEN <<s.n>> ELSE ExecuteStep(idx, morphs, cur, first, s)
         IN  RunMorphism(idx, morphs, next, FALSE, Tail(steps))

\* A step of a chain.  A vertex only starts one.
ExecuteStep(idx, morphs, cur, first, s) ==
    CASE s.type = "vertex" -> IF first THEN <<s.n>> ELSE <<>>
      [] s.type \in {"out", "in"} -> Traverse(idx, cur, first, s)
      [] s.type = "has" -> graph_execute_has(idx, cur, first, s.has)
      [] s.type = "limit" -> SubSeq(cur, 1, IF Len(cur) < s.n THEN Len(cur) ELSE s.n)
      [] s.type = "morphism" -> RunMorphism(idx, morphs, cur, first, morphs[s.n])
      [] s.type \in SetOps -> Combine(idx, morphs, cur, s)

execute_child_steps(idx, morphs, cur, first, steps) ==
    IF steps = <<>> THEN cur
    ELSE execute_child_steps(idx, morphs, ExecuteStep(idx, morphs, cur, first, Head(steps)),
                             FALSE, Tail(steps))

-----------------------------------------------------------------------------
(***************************************************************************)
(* The optimizer.  stats is a function on the predicates with statistics,  *)
(* to [triples, subjects].                                                 *)
(***************************************************************************)
CeilDiv(a, b) == (a + b - 1) \div b
graph_stats_estimate_has(stats, h) ==
    IF h.p \notin DOMAIN stats THEN 10
    ELSE LET st == stats[h.p] IN
         IF st.subjects = 0 THEN 1
         ELSE IF h.cmp = "eq" THEN CeilDiv(st.triples, st.subjects) ELSE st.subjects \div 2

graph_stats_estimate_out(stats, p, size) ==
    IF p \notin DOMAIN stats THEN size * 5
    ELSE LET st == stats[p] IN
         IF st.subjects = 0 THEN size
         ELSE IF st.triples = 0 THEN size ELSE size * CeilDiv(st.triples, st.subjects)

Lower(a, b) == IF a < b THEN a ELSE b
RECURSIVE EstimateFrom(_, _, _)
graph_stats_estimate_chain(stats, steps) ==
    LET e == EstimateFrom(stats, 0, steps) IN IF e > 0 THEN e ELSE 1
EstimateFrom(stats, size, steps) ==
    IF steps = <<>> THEN size
    ELSE LET s == Head(steps)
             kids == [i \in DOMAIN s.kids |-> graph_stats_estimate_chain(stats, s.kids[i])]
             now == CASE s.type = "vertex" -> 1
                      [] s.type = "has" -> LET e == graph_stats_estimate_has(stats, s.has)
                                           IN  IF size = 0 THEN e ELSE Lower(e, size)
                      [] s.type \in {"out", "in"} -> graph_stats_estimate_out(stats, s.n, size)
                      [] s.type = "limit" -> Lower(s.n, size)
                      [] s.type = "intersect" -> FoldLeft(Lower, Head(kids), Tail(kids))
                      [] s.type = "union" -> FoldLeft(LAMBDA a, b : a + b, 0, kids)
                      [] s.type = "difference" -> Head(kids)
                      [] s.type = "morphism" -> size
         IN  EstimateFrom(stats, now, Tail(steps))

\* The exchange sort of both passes, by ascending estimate.
SortedBy(seq, est(_)) ==
    LET n == Len(seq)
        Exchange(q, i, j) == IF est(q[j]) < est(q[i])
                               THEN [q EXCEPT ![i] = q[j], ![j] = q[i]] ELSE q
        inner[i \in 0 .. n, j \in 0 .. n] ==
          CASE i = 0 -> seq
            [] i > 0 /\ j <= i -> inner[i - 1, n]
            [] OTHER -> Exchange(inner[i, j - 1], i, j)
    IN  inner[n, n]

RECURSIVE fuse_has_traversal(_), fold_single_child_ops(_, _), reorder_has(_, _)

\* Mutant: the filter is lost when it is moved to the traversal.
MutFused(has, trav) == trav
Fused(has, trav) == [trav EXCEPT !.has = has.has]
fuse_has_traversal(steps) ==
    IF Len(steps) < 2 THEN steps
    ELSE IF steps[1].type = "has" /\ steps[2].type \in {"out", "in"}
      THEN fuse_has_traversal(<<Fused(steps[1], steps[2])>> \o SubSeq(steps, 3, Len(steps)))
      ELSE <<steps[1]>> \o fuse_has_traversal(Tail(steps))

\* A sub-query of its own is put in place of And or Or, except that a vertex
\* is not put behind other steps.
fold_single_child_ops(prev, steps) ==
    IF steps = <<>> THEN <<>>
    ELSE LET s == Head(steps) IN
         IF /\ Len(s.kids) = 1 /\ s.type \in {"intersect", "union"}
            /\ ~(prev /\ s.kids[1][1].type = "vertex")
           THEN fold_single_child_ops(prev, s.kids[1] \o Tail(steps))
           ELSE <<s>> \o fold_single_child_ops(TRUE, Tail(steps))

reorder_has(stats, steps) ==
    IF steps = <<>> THEN <<>>
    ELSE IF steps[1].type # "has" THEN <<steps[1]>> \o reorder_has(stats, Tail(steps))
    ELSE LET ends == {n \in DOMAIN steps : \A i \in 1 .. n : steps[i].type = "has"}
             n == CHOOSE n \in ends : n + 1 \notin ends
         IN  SortedBy(SubSeq(steps, 1, n), LAMBDA s : graph_stats_estimate_has(stats, s.has))
             \o reorder_has(stats, SubSeq(steps, n + 1, Len(steps)))

\* The children of each intersection, the most selective first, and of the
\* intersections among the steps of those children.
reorder_intersect_children(stats, steps) ==
    LET Each(chain, Op(_)) ==
          [i \in DOMAIN chain |-> IF chain[i].type = "intersect" THEN Op(chain[i]) ELSE chain[i]]
        InStep(s) == [s EXCEPT !.kids = SortedBy(@, LAMBDA k : graph_stats_estimate_chain(stats, k))]
        Nested(s) == [InStep(s) EXCEPT !.kids = [k \in DOMAIN @ |-> Each(@[k], InStep)]]
    IN  Each(steps, Nested)

graph_optimize(stats, steps) ==
    reorder_intersect_children(stats,
        reorder_has(stats, fold_single_child_ops(FALSE, fuse_has_traversal(steps))))

-----------------------------------------------------------------------------
(***************************************************************************)
(* The text of a query as tokens, and the parser.  A parse result has the  *)
(* steps and the position behind them; position 0 is an error.             *)
(***************************************************************************)
Id(w) == [k |-> "id", w |-> w]
Str(n) == [k |-> "str", n |-> n]
Num(n) == [k |-> "num", n |-> n]
Sym(c) == [k |-> c]
At(tok, i, t) == i \in DOMAIN tok /\ tok[i] = t
Failed == [steps |-> <<>>, pos |-> 0]
SetOpWord == [intersect |-> "And", union |-> "Or", difference |-> "Not"]
CmpOps == {"gt", "gte", "lt", "lte"}

\* The words with one name as their operand.
Method(w) == CASE w = "V" -> "vertex" [] w = "Out" -> "out" [] w = "In" -> "in"
               [] w = "Limit" -> "limit" [] w = "Follow" -> "morphism" [] OTHER -> "none"

RECURSIVE parse_query(_, _, _), ParseSteps(_, _, _, _)

\* Has("p", "v") and Has("p", op, "v").
ParseHas(tok, i) ==
    IF ~(i + 3 \in DOMAIN tok /\ tok[i].k = "(" /\ tok[i + 1].k = "str" /\ tok[i + 2].k = ",") THEN Failed
    ELSE LET op == tok[i + 3].k IN
         IF op = "str" /\ At(tok, i + 4, Sym(")"))
           THEN [steps |-> <<Has(tok[i + 1].n, tok[i + 3].n, "eq")>>, pos |-> i + 5]
         ELSE IF op \in CmpOps /\ At(tok, i + 4, Sym(",")) /\ i + 5 \in DOMAIN tok
                 /\ tok[i + 5].k = "str" /\ At(tok, i + 6, Sym(")"))
           THEN [steps |-> <<Has(tok[i + 1].n, tok[i + 5].n, op)>>, pos |-> i + 7]
           ELSE Failed

\* And, Or, Not and Difference: a query in parentheses.
ParseSub(tok, i, morphs, type) ==
    LET sub == IF At(tok, i, Sym("(")) THEN parse_query(tok, i + 1, morphs) ELSE Failed
    IN  IF sub.pos = 0 \/ ~At(tok, sub.pos, Sym(")")) THEN Failed
        ELSE [steps |-> <<With(type, sub.steps)>>, pos |-> sub.pos + 1]

\* Follow copies the steps of a known morphism (copy_steps).
parse_step(tok, i, morphs) ==
    LET w == IF i \in DOMAIN tok /\ tok[i].k = "id" THEN tok[i].w ELSE ""
        arg(kind) == /\ At(tok, i + 1, Sym("(")) /\ i + 2 \in DOMAIN tok
                     /\ tok[i + 2].k = kind /\ At(tok, i + 3, Sym(")"))
    IN  CASE w = "" -> Failed
          [] w = "Has" -> ParseHas(tok, i + 1)
          [] w \in {"All", "Count"} -> IF At(tok, i + 1, Sym("(")) /\ At(tok, i + 2, Sym(")"))
                                         THEN [steps |-> <<>>, pos |-> i + 3] ELSE Failed
          [] w = "And" -> ParseSub(tok, i + 1, morphs, "intersect")
          [] w = "Or" -> ParseSub(tok, i + 1, morphs, "union")
          [] w \in {"Not", "Difference"} -> ParseSub(tok, i + 1, morphs, "difference")
          [] w = "Follow" -> IF arg("str") /\ tok[i + 2].n \in DOMAIN morphs
                               THEN [steps |-> morphs[tok[i + 2].n], pos |-> i + 4] ELSE Failed
          [] w = "Limit" -> IF arg("num") THEN [steps |-> <<Limit(tok[i + 2].n)>>, pos |-> i + 4]
                                          ELSE Failed
          [] w \in {"V", "Out", "In"} -> IF arg("str")
                THEN [steps |-> <<MkStep(Method(w), tok[i + 2].n)>>, pos |-> i + 4] ELSE Failed
          [] OTHER -> Failed

\* Steps up to the end or a closing parenthesis, with dots between them (and
\* one allowed at the end).
ParseSteps(tok, i, morphs, sofar) ==
    IF i \notin DOMAIN tok \/ At(tok, i, Sym(")")) THEN [steps |-> sofar, pos |-> i]
    ELSE LET s == parse_step(tok, i, morphs) IN
         IF s.pos = 0 THEN Failed
         ELSE IF At(tok, s.pos, Sym(".")) THEN ParseSteps(tok, s.pos + 1, morphs, sofar \o s.steps)
         ELSE IF s.pos \in DOMAIN tok /\ ~At(tok, s.pos, Sym(")")) THEN Failed
         ELSE [steps |-> sofar \o s.steps, pos |-> s.pos]

parse_query(tok, i, morphs) ==
    IF At(tok, i, Id("g")) /\ At(tok, i + 1, Sym(".")) THEN ParseSteps(tok, i + 2, morphs, <<>>)
                                                       ELSE Failed

\* The text of a chain of steps, as its author writes it.
RECURSIVE TextOf(_)
StepText(s) ==
    CASE s.type = "vertex" -> <<Id("V"), Sym("("), Str(s.n), Sym(")")>>
      [] s.type = "out" -> <<Id("Out"), Sym("("), Str(s.n), Sym(")")>>
      [] s.type = "in" -> <<Id("In"), Sym("("), Str(s.n), Sym(")")>>
      [] s.type = "limit" -> <<Id("Limit"), Sym("("), Num(s.n), Sym(")")>>
      [] s.type = "morphism" -> <<Id("Follow"), Sym("("), Str(s.n), Sym(")")>>
      [] s.type = "has" -> <<Id("Has"), Sym("("), Str(s.has.p), Sym(",")>>
            \o (IF s.has.cmp = "eq" THEN <<>> ELSE <<Sym(s.has.cmp), Sym(",")>>)
            \o <<Str(s.has.v), Sym(")")>>
      [] s.type \in SetOps -> <<Id(SetOpWord[s.type]), Sym("(")>> \o TextOf(s.kids[1]) \o <<Sym(")")>>
TextOf(steps) ==
    FoldLeft(LAMBDA acc, s : acc \o <<Sym(".")>> \o StepText(s), <<Id("g")>>, steps)

-----------------------------------------------------------------------------
(***************************************************************************)
(* What a query means over a set of triples: the sets it may answer with   *)
(* (Limit chooses any of its input).                                       *)
(***************************************************************************)
RECURSIVE Meaning(_, _, _, _, _), StepMeaning(_, _, _, _, _)
StepMeaning(T, morphs, C, first, s) ==
    CASE s.type = "vertex" -> {{s.n}}
      [] s.type = "out" -> {{t[3] : t \in {u \in T : u[1] \in C /\ u[2] = s.n}}}
      [] s.type = "in" -> {{t[1] : t \in {u \in T : u[3] \in C /\ u[2] = s.n}}}
      [] s.type = "has" ->
           {{t[1] : t \in {u \in T : /\ u[2] = s.has.p /\ cmp_strings(u[3], s.has.v, s.has.cmp)
                                     /\ (first \/ u[1] \in C)}}}
      [] s.type = "limit" -> {D \in SUBSET C : Cardinality(D) = Lower(s.n, Cardinality(C))}
      [] s.type = "morphism" -> Meaning(T, morphs, C, first, morphs[s.n])
      [] s.type \in SetOps ->
           LET Op(a, b) == CASE s.type = "intersect" -> a \cap b [] s.type = "union" -> a \cup b
                             [] s.type = "difference" -> a \ b
               left  == Meaning(T, morphs, {}, TRUE, s.kids[1])
               subs  == IF Len(s.kids) = 1 THEN left
                        ELSE {Op(a, b) : a \in left, b \in Meaning(T, morphs, {}, TRUE, s.kids[2])}
           IN  IF first THEN subs ELSE {Op(C, D) : D \in subs}
Meaning(T, morphs, C, first, steps) ==
    IF steps = <<>> THEN {C}
    ELSE UNION {Meaning(T, morphs, D, FALSE, Tail(steps)) : D \in StepMeaning(T, morphs, C, first, Head(steps))}
=============================================================================
