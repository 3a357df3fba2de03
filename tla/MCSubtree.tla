----------------------------- MODULE MCSubtree -----------------------------
(***************************************************************************)
(* Jobs that make B+trees of three levels, prefix keys with subtrees of    *)
(* their own, and names of two chunks.                                     *)
(***************************************************************************)
EXTENDS Subtree

\* Keys of one name of one chunk, and of names under them.
K(c) == <<<<c>>>>
KK(c, d) == <<<<c>>, <<d>>>>

Job(start, keys, gc) ==
  [start |-> start, value |-> "v", keys |-> keys, prefix |-> <<>>, batches |-> {}, gc |-> gc,
   prefixes |-> {}, ranges |-> {}, bounds |-> {}]

\* Twelve keys in ascending order (a tree of three levels) and three that come late.
Ascending == [i \in 1 .. 12 |-> K(4 * i)]
Tall == [Job(Ascending, {K(6), K(22), K(50)}, TRUE) EXCEPT !.bounds = {K(8), K(23), K(60)}]

\* The smallest key first, the others in any order.
Mixed ==
  {[Job(<<K(2)>> \o s, {K(2), K(7)}, TRUE) EXCEPT !.bounds = {K(6)}] :
     s \in {t \in [1 .. 4 -> {K(c) : c \in {4, 6, 8, 10}}] : \A i, j \in 1 .. 4 : t[i] = t[j] => i = j}}

\* Keys that are prefixes of keys, in both orders; names of two chunks.
Levels ==
  {[Job(s, {K(4), KK(4, 4), KK(6, 2)}, FALSE) EXCEPT
      !.bounds = {K(4), KK(4, 3), KK(4, 4), K(7)}, !.prefixes = {K(4)},
      !.ranges = {<<K(4), K(2), K(6)>>}] :
     s \in {<<K(2), KK(4, 2), K(4), KK(4, 4), KK(8, 2)>>,
            <<KK(2, 2), K(4), KK(4, 6), KK(4, 4), K(8), K(6)>>}}
  \cup {[Job(<<<<<<2, 2>>>>, <<<<4, 2>>, <<2>>>>, <<<<4, 4>>, <<2>>>>, <<<<4, 4>>>>>>, {<<<<4, 4>>, <<4>>>>}, FALSE) EXCEPT
           !.bounds = {<<<<4, 4>>>>, <<<<4, 4>>, <<2>>>>}, !.prefixes = {<<<<4, 2>>>>}]}

\* A subtree beside its neighbours, written with single calls and batches.
Scoped ==
  [Job(<<K(2), KK(4, 2), KK(8, 2), K(6)>>, {K(2), K(4)}, FALSE) EXCEPT
     !.prefix = K(4), !.prefixes = {K(4), K(2)}, !.ranges = {<<K(4), K(2), K(4)>>},
     !.batches = {<<[key |-> K(2), val |-> NoVal], [key |-> K(4), val |-> "w"]>>,
                  <<[key |-> K(4), val |-> "w"], [key |-> K(4), val |-> NoVal]>>}]

MCJobs == {Tall, Scoped} \cup Mixed \cup Levels

\* Keys in descending order.
MCDescending == {Job(<<K(12), K(10), K(8), K(6)>>, {K(2), K(4)}, FALSE)}

\* A neighbour whose name is the prefix's with a hyphen behind it.
MCHyphen == {[Job(<<KK(4, 2), KK(5, 2), K(8)>>, {K(8)}, FALSE) EXCEPT !.prefixes = {K(4)}]}
=============================================================================
