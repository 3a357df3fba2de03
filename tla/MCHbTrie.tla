------------------------------ MODULE MCHbTrie ------------------------------
(***************************************************************************)
(* Three threads over the keys <<1>>, <<1, 2>>, <<1, 1>> and <<1, 2, 1>>,  *)
(* of which <<1, 2>> is stored at the start.                               *)
(***************************************************************************)
EXTENDS HbTrie, TLC

A == <<1>>
AB == <<1, 2>>
AA == <<1, 1>>
ABA == <<1, 2, 1>>

MCKeys == {A, AB, AA, ABA}
MCChunks == {1, 2}

Ins(k, v) == [op |-> "insert", key |-> k, val |-> v, off |-> 0]
Del(k) == [op |-> "delete", key |-> k, val |-> NoValue, off |-> 0]
Fnd(k) == [op |-> "find", key |-> k, val |-> NoValue, off |-> 0]
Gc == [op |-> "gc", key |-> A, val |-> NoValue, off |-> 0]
Evict(o) == [Gc EXCEPT !.op = "evict", !.off = o]
None == [Gc EXCEPT !.op = "none"]

\* The node that holds <<1, 2>>, and a root with it in memory, on disk, or both.
Leaf == [Empty EXCEPT ![2] = [NoEntry EXCEPT !.hv = TRUE, !.val = "old"]]
RootWith(n, o) == [Empty EXCEPT ![1] = [NoEntry EXCEPT !.child = n, !.off = o]]
Warm == <<RootWith(2, 0), Leaf>>
Cold == <<RootWith(Null, 1)>>
Both == <<RootWith(2, 1), Leaf>>
DiskNodes == <<Leaf>>

Scenario(calls, heap0, serial) ==
  [call |-> calls, heap |-> heap0, disk |-> DiskNodes, serial |-> serial]

\* Two writers and a reader in a trie that is in memory.
Concurrent ==
  {Scenario(<<a, b, c>>, Warm, FALSE) :
     a \in {Ins(k, "new") : k \in MCKeys} \cup {Del(k) : k \in MCKeys},
     b \in {Ins(k, "two") : k \in MCKeys} \cup {Del(AB)},
     c \in {Fnd(k) : k \in MCKeys}}

\* The collector beside a writer and a reader; <<1, 2>> is nobody's prefix.
Collected ==
  {Scenario(<<a, Gc, c>>, Warm, FALSE) : a \in {Ins(AA, "new"), Ins(AB, "new"), Del(AB)},
                                         c \in {Fnd(AB), Fnd(AA)}}

\* Writers, or readers, that all have to load the child.
Loaded ==
  {Scenario(<<a, b, None>>, Cold, FALSE) : a \in {Ins(AA, "new"), Ins(AB, "new"), Del(AB)},
                                           b \in {Ins(ABA, "two"), Ins(AB, "two"), Del(AA)}}
  \cup {Scenario(<<Fnd(AB), Fnd(AA), Fnd(AB)>>, Cold, FALSE)}

\* One call after the other: a clean child is evicted, comes back with the next
\* call, and the prefix key is put over it.
InTurn ==
  {Scenario(<<Evict(1), b, c>>, Both, TRUE) :
     b \in {Ins(k, "new") : k \in MCKeys} \cup {Del(AB), Gc},
     c \in {Fnd(k) : k \in {AB, ABA}} \cup {Del(AB)}}
  \cup {Scenario(<<a, b, Fnd(k)>>, h, TRUE) :
          a \in {Ins(A, "new"), Ins(ABA, "new"), Del(AB)},
          b \in {Ins(A, "two"), Ins(ABA, "two"), Gc}, k \in {AB, ABA, A}, h \in {Warm, Cold}}

\* The collector drops what is below a deleted prefix (see module MvccStore).
Tombstoned(s) == \E i, j, k \in 1 .. 3 : s.call[i] = Del(AB) /\ s.call[j].key = ABA /\ s.call[k] = Gc

MCScenarios == {s \in Concurrent \cup Collected \cup Loaded \cup InTurn : ~Tombstoned(s)}

\* A reader and the writer of one key.
MCTorn == {Scenario(<<Ins(AB, "new"), Fnd(AB), None>>, Warm, FALSE)}

\* The prefix of a key that is there is inserted beside a reader of that key.
MCPrefix == {Scenario(<<Ins(A, "new"), Fnd(AB), None>>, Warm, FALSE)}
=============================================================================
