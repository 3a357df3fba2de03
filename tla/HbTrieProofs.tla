---------------------------- MODULE HbTrieProofs ----------------------------
(***************************************************************************)
(* Proofs about the trie under concurrent insertions, deletions and        *)
(* lookups, for any number of threads, keys, chunks and nodes, in a trie   *)
(* that is in memory: TrieSound, and that it implements the map of KeyMap. *)
(*                                                                         *)
(* The trie is a tree (Heap): a node is the child of one entry at most, so *)
(* two walks that meet have come the same way and belong to keys with the  *)
(* same prefix (OneWay).  Links are only added, never changed, while their *)
(* entries are written (Grows): where a thread stands, the walk of its key *)
(* still leads (Walkers), with or without locks.  A write at the end of a  *)
(* walk is therefore one for that key and no other (PutValue).             *)
(*                                                                         *)
(* What a thread reads through a pointer after its node has changed is no  *)
(* part of this: a behaviour ends with such a read (UseTorn), and the      *)
(* theorems say what holds until then, also of the threads that are        *)
(* between the unlock of a node and the second read of its entry.          *)
(***************************************************************************)
EXTENDS HbTrie, SequenceTheorems, WellFoundedInduction, TLAPS

-----------------------------------------------------------------------------
(* Natural numbers *)

\* A non-empty set of natural numbers has a least element.
LEMMA LeastNat ==
  ASSUME NEW T \in SUBSET Nat, T # {}
  PROVE  \E x \in T : \A y \in T : x <= y
<1> DEFINE R == OpToRel(<, Nat)
<1>1. \A x, y \in Nat : y < x => <<y, x>> \in R
  BY DEF OpToRel
<1>2. IsWellFoundedOn(R, Nat)
  BY NatLessThanWellFounded
<1> HIDE DEF R
<1>3. PICK x \in T : \A y \in T : ~ (<<y, x>> \in R)
  BY <1>2, WFMin
<1>4. \A y \in T : ~ (y < x)
  BY <1>1, <1>3
<1>5. x \in Nat /\ \A y \in T : y \in Nat
  BY <1>3
<1> QED
  BY <1>3, <1>4, <1>5

\* A set of natural numbers with 0 and with the successor of each of its members has
\* all of them.
LEMMA SetInduction ==
  ASSUME NEW T \in SUBSET Nat, 0 \in T, \A n \in T : n + 1 \in T
  PROVE  \A n \in Nat : n \in T
<1> SUFFICES ASSUME Nat \ T # {} PROVE FALSE
  OBVIOUS
<1>1. PICK x \in Nat \ T : \A y \in Nat \ T : x <= y
  BY LeastNat
<1>2. x # 0 /\ x - 1 \in Nat
  BY <1>1
<1>3. x - 1 \in T
  BY <1>1, <1>2
<1>4. (x - 1) + 1 \in T
  BY <1>3
<1> QED
  BY <1>1, <1>4

-----------------------------------------------------------------------------
(* Walks *)

\* The node below an entry, in the moment of SaveChild too, when the entry that gets a value
\* has its child in trie_child already.
Go(e) == IF e.trie_child # Null THEN e.trie_child ELSE IF e.hv THEN Null ELSE e.child

\* The node below the entry of chunk c in node m.
Kid(en, m, c) == Go(en[m][c])

\* The entries of a trie that is in memory, with n nodes.
Entries(n) ==
  {e \in [hv : BOOLEAN, mv : BOOLEAN, child : 0 .. n, val : Values \cup {NoValue},
          trie_child : 0 .. n, off : {0}] :
     /\ e.hv => e.child = Null
     /\ ~e.hv => e.val = NoValue
     /\ e.trie_child # Null => e.child = Null}

\* A trie in memory with n nodes: no node is the child of two entries, the root of none, and
\* those above n are unused.
Heap(en, n) ==
  /\ n \in Nodes
  /\ en \in [Nodes -> [Chunks -> Entries(n)]]
  /\ \A m \in Nodes : m > n => en[m] = Empty
  /\ \A m, p \in Nodes, c, d \in Chunks :
       Kid(en, m, c) # Null =>
         Kid(en, m, c) # Root /\ (Kid(en, m, c) = Kid(en, p, d) => m = p /\ c = d)

\* The nodes on the way of a key: w[i] holds its chunk i.
IsWalk(en, k, w) ==
  w = [i \in 1 .. Len(k) |-> IF i = 1 THEN Root
                             ELSE IF w[i - 1] = Null THEN Null ELSE Kid(en, w[i - 1], k[i - 1])]
Walk(en, k) ==
  LET w[i \in 1 .. Len(k)] == IF i = 1 THEN Root
                              ELSE IF w[i - 1] = Null THEN Null ELSE Kid(en, w[i - 1], k[i - 1])
  IN  w

\* The same in tables, as PlaceOf has it.
GoTable(en, disk, e) ==
  IF Go(e) # Null THEN en[Go(e)] ELSE IF e.off # 0 THEN disk[e.off] ELSE Empty
IsTable(en, disk, k, w) ==
  w = [i \in 1 .. Len(k) |-> IF i = 1 THEN en[Root] ELSE GoTable(en, disk, w[i - 1][k[i - 1]])]
Table(en, disk, k) == CHOOSE w : IsTable(en, disk, k, w)

\* The value of a key.
ValueIn(en, k) ==
  IF Walk(en, k)[Len(k)] = Null THEN NoValue ELSE en[Walk(en, k)[Len(k)]][k[Len(k)]].val

\* A key has a first and a last chunk.
LEMMA KeyIs ==
  ASSUME NEW k \in Keys
  PROVE  /\ k \in Seq(Chunks) /\ Len(k) \in Nat \ {0} /\ 1 \in 1 .. Len(k) /\ Len(k) \in 1 .. Len(k)
         /\ \A i \in 1 .. Len(k) : k[i] \in Chunks
<1>1. k \in Seq(Chunks) /\ k # << >>
  BY TrieAssumption
<1> QED  BY <1>1

\* Induction along a key.
LEMMA AlongKey ==
  ASSUME NEW n \in Nat \ {0}, NEW T \in SUBSET (1 .. n), 1 \in T,
         \A i \in T : i + 1 \in 1 .. n => i + 1 \in T
  PROVE  \A i \in 1 .. n : i \in T
<1> DEFINE S == {j \in Nat : j + 1 \in 1 .. n => j + 1 \in T}
<1>1. 0 \in S
  OBVIOUS
<1>2. ASSUME NEW j \in S PROVE j + 1 \in S
  <2>1. ASSUME (j + 1) + 1 \in 1 .. n PROVE (j + 1) + 1 \in T
    <3>1. j \in Nat /\ j + 1 \in 1 .. n
      BY <2>1
    <3>2. j + 1 \in T
      BY <3>1
    <3> QED  BY <2>1, <3>2
  <2> QED  BY <2>1
<1>3. \A j \in Nat : j \in S
  <2>1. S \in SUBSET Nat
    OBVIOUS
  <2> HIDE DEF S
  <2> QED  BY <1>1, <1>2, <2>1, SetInduction
<1>4. ASSUME NEW i \in 1 .. n PROVE i \in T
  <2>1. i - 1 \in Nat /\ (i - 1) + 1 = i
    OBVIOUS
  <2>2. i - 1 \in S
    BY <2>1, <1>3
  <2> QED  BY <2>1, <2>2
<1> QED  BY <1>4

\* Every key has its walk.
LEMMA WalkExists ==
  ASSUME NEW en, NEW k, Len(k) \in Nat \ {0}
  PROVE  \E w : IsWalk(en, k, w)
<1> DEFINE Value(g, i) == IF i = 1 THEN Root
                          ELSE IF g[i - 1] = Null THEN Null ELSE Kid(en, g[i - 1], k[i - 1])
           Part(n, g) == g = [i \in 1 .. n |-> Value(g, i)]
           T == {n \in 1 .. Len(k) : \E g : Part(n, g)}
<1>1. 1 \in T
  <2> DEFINE g == [i \in 1 .. 1 |-> Root]
  <2>1. Part(1, g) /\ 1 \in 1 .. Len(k)
    OBVIOUS
  <2> HIDE DEF Part, g
  <2> QED  BY <2>1
<1>2. ASSUME NEW n \in T, n + 1 \in 1 .. Len(k) PROVE n + 1 \in T
  <2>1. PICK g : Part(n, g)
    OBVIOUS
  <2> DEFINE v == IF g[n] = Null THEN Null ELSE Kid(en, g[n], k[n])
             h == [i \in 1 .. (n + 1) |-> IF i = n + 1 THEN v ELSE g[i]]
  <2>2. n \in Nat \ {0} /\ \A i \in 1 .. n : g[i] = Value(g, i)
    BY <2>1
  <2>3. ASSUME NEW i \in 1 .. (n + 1) PROVE h[i] = Value(h, i)
    <3>1. CASE i = n + 1
      <4>1. h[i] = v /\ h[i - 1] = g[n] /\ i # 1 /\ i - 1 = n
        BY <3>1, <2>2
      <4> QED  BY <4>1
    <3>2. CASE i \in 1 .. n
      <4>1. h[i] = g[i] /\ g[i] = Value(g, i)
        BY <3>2, <2>2
      <4>2. i # 1 => h[i - 1] = g[i - 1]
        BY <3>2, <2>2
      <4> QED  BY <4>1, <4>2
    <3> QED  BY <3>1, <3>2, <2>2
  <2>4. Part(n + 1, h)
    <3> HIDE DEF v
    <3> QED  BY <2>3
  <2> HIDE DEF Part, h
  <2> QED  BY <1>2, <2>4
<1>3. Len(k) \in T
  <2>1. T \in SUBSET (1 .. Len(k)) /\ Len(k) \in 1 .. Len(k)
    OBVIOUS
  <2> HIDE DEF T
  <2> QED  BY <2>1, <1>1, <1>2, AlongKey
<1> QED  BY <1>3 DEF IsWalk

\* What a walk is, chunk by chunk.
LEMMA WalkIs ==
  ASSUME NEW en, NEW k \in Keys
  PROVE  /\ Walk(en, k)[1] = Root
         /\ \A i \in 1 .. Len(k) - 1 :
              Walk(en, k)[i + 1] = IF Walk(en, k)[i] = Null THEN Null ELSE Kid(en, Walk(en, k)[i], k[i])
<1> DEFINE w == Walk(en, k)
<1>1. Len(k) \in Nat \ {0}
  BY KeyIs
<1>2. IsWalk(en, k, w)
  BY <1>1, WalkExists DEF Walk, IsWalk
<1> HIDE DEF w
<1>3. \A i \in 1 .. Len(k) : w[i] = IF i = 1 THEN Root
            ELSE IF w[i - 1] = Null THEN Null ELSE Kid(en, w[i - 1], k[i - 1])
  BY <1>2 DEF IsWalk
<1>4. w[1] = Root
  BY <1>1, <1>3
<1>5. ASSUME NEW i \in 1 .. Len(k) - 1
      PROVE  w[i + 1] = IF w[i] = Null THEN Null ELSE Kid(en, w[i], k[i])
  <2>1. i + 1 \in 1 .. Len(k) /\ i + 1 # 1 /\ (i + 1) - 1 = i
    BY <1>1
  <2> QED  BY <2>1, <1>3
<1> QED  BY <1>4, <1>5 DEF w

\* A walk stays within the nodes, and what is below no node is no node.
LEMMA WalkRange ==
  ASSUME NEW en, NEW n, Heap(en, n), NEW k \in Keys
  PROVE  \A i \in 1 .. Len(k) : Walk(en, k)[i] \in 0 .. n
<1> DEFINE w == Walk(en, k)
           T == {i \in 1 .. Len(k) : w[i] \in 0 .. n}
<1>0. /\ w[1] = Root
      /\ \A i \in 1 .. Len(k) - 1 : w[i + 1] = IF w[i] = Null THEN Null ELSE Kid(en, w[i], k[i])
  BY WalkIs
<1> HIDE DEF w
<1>1. n \in Nodes /\ n \in Nat /\ 0 .. n \subseteq Nodes \cup {Null}
  BY TrieAssumption DEF Heap, Nodes, Null
<1>2. 1 \in T
  BY <1>0, <1>1, KeyIs DEF Root, Nodes
<1>3. ASSUME NEW i \in T, i + 1 \in 1 .. Len(k) PROVE i + 1 \in T
  <2>1. Len(k) \in Nat /\ i \in 1 .. Len(k) - 1 /\ k[i] \in Chunks /\ w[i] \in 0 .. n
    BY <1>3, KeyIs
  <2>2. CASE w[i] = Null
    <3>1. w[i + 1] = Null
      BY <2>1, <2>2, <1>0
    <3> QED  BY <3>1, <1>1, <1>3 DEF Null
  <2>3. CASE w[i] # Null
    <3>1. w[i] \in Nodes /\ w[i + 1] = Kid(en, w[i], k[i])
      BY <2>1, <2>3, <1>0, <1>1
    <3>2. en[w[i]][k[i]] \in Entries(n)
      BY <3>1, <2>1 DEF Heap
    <3>3. Kid(en, w[i], k[i]) \in 0 .. n
      BY <3>2, <1>1 DEF Entries, Kid, Go, Null
    <3> QED  BY <3>1, <3>3, <1>3
  <2> QED  BY <2>2, <2>3
<1>4. Len(k) \in Nat \ {0} /\ T \in SUBSET (1 .. Len(k))
  BY KeyIs
<1>5. \A i \in 1 .. Len(k) : i \in T
  <2> HIDE DEF T
  <2> QED  BY <1>2, <1>3, <1>4, AlongKey
<1> QED  BY <1>5 DEF w

\* Where a walk has ended it does not go on.
LEMMA NullStays ==
  ASSUME NEW en, NEW k \in Keys, NEW j \in 1 .. Len(k), Walk(en, k)[j] = Null
  PROVE  \A i \in 1 .. Len(k) : i >= j => Walk(en, k)[i] = Null
<1> DEFINE w == Walk(en, k)
           T == {i \in 1 .. Len(k) : i >= j => w[i] = Null}
<1>0. /\ w[1] = Root /\ w[j] = Null
      /\ \A i \in 1 .. Len(k) - 1 : w[i + 1] = IF w[i] = Null THEN Null ELSE Kid(en, w[i], k[i])
  BY WalkIs
<1> HIDE DEF w
<1>1. Len(k) \in Nat \ {0} /\ T \in SUBSET (1 .. Len(k)) /\ j # 1 /\ 1 \in 1 .. Len(k)
  BY KeyIs, <1>0 DEF Root, Null
<1>2. 1 \in T
  BY <1>1
<1>3. ASSUME NEW i \in T, i + 1 \in 1 .. Len(k) PROVE i + 1 \in T
  <2>1. i \in 1 .. Len(k) - 1
    BY <1>3, <1>1
  <2>2. ASSUME i + 1 >= j PROVE w[i + 1] = Null
    <3>1. CASE i + 1 = j
      BY <3>1, <1>0
    <3>2. CASE i >= j
      BY <3>2, <2>1, <1>0
    <3> QED  BY <3>1, <3>2, <2>1, <2>2
  <2> QED  BY <2>2, <1>3
<1>4. \A i \in 1 .. Len(k) : i \in T
  <2> HIDE DEF T
  <2> QED  BY <1>1, <1>2, <1>3, AlongKey
<1> QED  BY <1>4 DEF w

\* Two walks that meet have come the same way.
LEMMA OneWay ==
  ASSUME NEW en, NEW n, Heap(en, n), NEW k \in Keys, NEW l \in Keys
  PROVE  \A i \in 1 .. Len(k), j \in 1 .. Len(l) :
           Walk(en, k)[i] # Null /\ Walk(en, k)[i] = Walk(en, l)[j] =>
             i = j /\ \A h \in 1 .. i - 1 : k[h] = l[h]
<1> DEFINE w == Walk(en, k)
           v == Walk(en, l)
           Met(i, j) == i = j /\ \A h \in 1 .. i - 1 : k[h] = l[h]
           T == {i \in 1 .. Len(k) : \A j \in 1 .. Len(l) : w[i] # Null /\ w[i] = v[j] => Met(i, j)}
<1>0. /\ w[1] = Root
      /\ \A i \in 1 .. Len(k) - 1 : w[i + 1] = IF w[i] = Null THEN Null ELSE Kid(en, w[i], k[i])
      /\ v[1] = Root
      /\ \A i \in 1 .. Len(l) - 1 : v[i + 1] = IF v[i] = Null THEN Null ELSE Kid(en, v[i], l[i])
  BY WalkIs
<1>1. /\ \A i \in 1 .. Len(k) : w[i] \in 0 .. n
      /\ \A j \in 1 .. Len(l) : v[j] \in 0 .. n
  BY WalkRange
<1> HIDE DEF w, v
<1>2. /\ Len(k) \in Nat \ {0} /\ Len(l) \in Nat \ {0}
      /\ \A i \in 1 .. Len(k) : k[i] \in Chunks
      /\ \A j \in 1 .. Len(l) : l[j] \in Chunks
  BY KeyIs
<1>3. n \in Nodes /\ n \in Nat /\ 0 .. n \subseteq Nodes \cup {Null}
  BY TrieAssumption DEF Heap, Nodes, Null
<1>4. /\ \A m \in Nodes, c \in Chunks : Kid(en, m, c) # Null => Kid(en, m, c) # Root
      /\ \A m \in Nodes, c \in Chunks, p \in Nodes, d \in Chunks :
           Kid(en, m, c) # Null /\ Kid(en, m, c) = Kid(en, p, d) => m = p /\ c = d
  BY DEF Heap
\* A step of the second walk does not lead to the root.
<1>5. ASSUME NEW j \in 1 .. Len(l), v[j] = Root PROVE j = 1
  <2> SUFFICES ASSUME j # 1 PROVE FALSE
    OBVIOUS
  <2>1. j - 1 \in 1 .. Len(l) - 1 /\ j - 1 \in 1 .. Len(l) /\ (j - 1) + 1 = j
    BY <1>2
  <2>2. v[j - 1] \in Nodes /\ v[j] = Kid(en, v[j - 1], l[j - 1])
    BY <2>1, <1>0, <1>1, <1>3, <1>5 DEF Root, Null
  <2>3. l[j - 1] \in Chunks
    BY <2>1, <1>2
  <2>4. Kid(en, v[j - 1], l[j - 1]) # Null => Kid(en, v[j - 1], l[j - 1]) # Root
    BY <2>2, <2>3, <1>4
  <2> QED  BY <2>2, <2>4, <1>5 DEF Root, Null
<1>6. 1 \in T
  <2>1. ASSUME NEW j \in 1 .. Len(l), w[1] = v[j] PROVE Met(1, j)
    <3>1. v[j] = Root
      BY <2>1, <1>0
    <3>2. 1 = j
      BY <3>1, <1>5
    <3> QED  BY <3>2
  <2> HIDE DEF Met
  <2> QED  BY <2>1, <1>2
<1>7. ASSUME NEW i \in T, i + 1 \in 1 .. Len(k) PROVE i + 1 \in T
  <2>1. i \in 1 .. Len(k) - 1 /\ i \in 1 .. Len(k) /\ i \in Nat
    BY <1>7, <1>2
  <2>2. ASSUME NEW j \in 1 .. Len(l), w[i + 1] # Null, w[i + 1] = v[j] PROVE Met(i + 1, j)
    <3>1. w[i] # Null /\ w[i] \in Nodes /\ w[i + 1] = Kid(en, w[i], k[i]) /\ k[i] \in Chunks
      BY <2>1, <2>2, <1>0, <1>1, <1>2, <1>3
    <3>2. v[j] # Root
      <4>1. Kid(en, w[i], k[i]) # Null => Kid(en, w[i], k[i]) # Root
        BY <3>1, <1>4
      <4> QED  BY <4>1, <3>1, <2>2
    <3>3. j # 1
      BY <3>2, <1>0
    <3>4. j - 1 \in 1 .. Len(l) - 1 /\ j - 1 \in 1 .. Len(l) /\ (j - 1) + 1 = j
      BY <3>3, <1>2
    <3>5. v[j - 1] \in Nodes /\ v[j] = Kid(en, v[j - 1], l[j - 1]) /\ l[j - 1] \in Chunks
      BY <3>4, <2>2, <1>0, <1>1, <1>2, <1>3
    <3>6. w[i] = v[j - 1] /\ k[i] = l[j - 1]
      BY <3>1, <3>5, <2>2, <1>4
    <3>7. Met(i, j - 1)
      BY <3>1, <3>4, <3>6, <1>7
    <3>8. i + 1 = j
      BY <3>7, <2>1
    <3>9. ASSUME NEW h \in 1 .. (i + 1) - 1 PROVE k[h] = l[h]
      <4>1. CASE h = i
        BY <4>1, <3>6, <3>7
      <4>2. CASE h \in 1 .. i - 1
        BY <4>2, <3>7
      <4> QED  BY <4>1, <4>2, <2>1
    <3> QED  BY <3>8, <3>9
  <2> HIDE DEF Met
  <2> QED  BY <2>2, <1>7
<1>8. \A i \in 1 .. Len(k) : i \in T
  <2>1. T \in SUBSET (1 .. Len(k))
    OBVIOUS
  <2> HIDE DEF T
  <2> QED  BY <2>1, <1>2, <1>6, <1>7, AlongKey
<1> QED  BY <1>8 DEF w, v

-----------------------------------------------------------------------------
(* Changes of the trie *)

\* Links are only added, or are the same.
Grows(en, en2) ==
  \A m \in Nodes, c \in Chunks : Kid(en, m, c) # Null => Kid(en2, m, c) = Kid(en, m, c)
SameKids(en, en2) == \A m \in Nodes, c \in Chunks : Kid(en2, m, c) = Kid(en, m, c)

\* One entry is written; a node is added below one.
Put(en, m, c, e) == [en EXCEPT ![m][c] = e]
Child(en, q, m, c, e) == [en EXCEPT ![q] = Empty, ![m][c] = e]

\* A node of the trie is a node.
LEMMA HeapNodes ==
  ASSUME NEW en, NEW n, Heap(en, n)
  PROVE  /\ n \in Nodes /\ n \in Nat \ {0} /\ 0 .. n \subseteq Nodes \cup {Null}
         /\ 1 .. n \subseteq Nodes /\ Root \in 1 .. n
BY TrieAssumption DEF Heap, Nodes, Null, Root

\* Walks that have got somewhere stay.
LEMMA WalkGrows ==
  ASSUME NEW en, NEW n, Heap(en, n), NEW en2, Grows(en, en2), NEW k \in Keys
  PROVE  \A i \in 1 .. Len(k) : Walk(en, k)[i] # Null => Walk(en2, k)[i] = Walk(en, k)[i]
<1> DEFINE w == Walk(en, k)
           v == Walk(en2, k)
           T == {i \in 1 .. Len(k) : w[i] # Null => v[i] = w[i]}
<1>0. /\ w[1] = Root
      /\ \A i \in 1 .. Len(k) - 1 : w[i + 1] = IF w[i] = Null THEN Null ELSE Kid(en, w[i], k[i])
      /\ v[1] = Root
      /\ \A i \in 1 .. Len(k) - 1 : v[i + 1] = IF v[i] = Null THEN Null ELSE Kid(en2, v[i], k[i])
  BY WalkIs
<1>1. \A i \in 1 .. Len(k) : w[i] \in 0 .. n
  BY WalkRange
<1> HIDE DEF w, v
<1>2. /\ Len(k) \in Nat \ {0} /\ T \in SUBSET (1 .. Len(k)) /\ 1 \in 1 .. Len(k)
      /\ \A i \in 1 .. Len(k) : k[i] \in Chunks
  BY KeyIs
<1>3. 1 \in T
  BY <1>0, <1>2
<1>4. ASSUME NEW i \in T, i + 1 \in 1 .. Len(k) PROVE i + 1 \in T
  <2>1. i \in 1 .. Len(k) - 1 /\ i \in 1 .. Len(k)
    BY <1>4, <1>2
  <2>2. ASSUME w[i + 1] # Null PROVE v[i + 1] = w[i + 1]
    <3>1. w[i] # Null /\ w[i + 1] = Kid(en, w[i], k[i]) /\ v[i] = w[i]
      BY <2>1, <2>2, <1>0, <1>4
    <3>2. w[i] \in Nodes /\ k[i] \in Chunks
      BY <3>1, <2>1, <1>1, <1>2, HeapNodes
    <3>3. v[i + 1] = Kid(en2, w[i], k[i])
      BY <3>1, <2>1, <1>0
    <3>4. Kid(en, w[i], k[i]) # Null => Kid(en2, w[i], k[i]) = Kid(en, w[i], k[i])
      BY <3>2 DEF Grows
    <3> QED  BY <3>1, <3>3, <3>4, <2>2
  <2> QED  BY <2>2, <1>4
<1>5. \A i \in 1 .. Len(k) : i \in T
  <2> HIDE DEF T
  <2> QED  BY <1>2, <1>3, <1>4, AlongKey
<1> QED  BY <1>5 DEF w, v

\* With the same links walks are the same.
LEMMA SameWalk ==
  ASSUME NEW en, NEW n, Heap(en, n), NEW en2, SameKids(en, en2), NEW k \in Keys
  PROVE  \A i \in 1 .. Len(k) : Walk(en2, k)[i] = Walk(en, k)[i]
<1> DEFINE w == Walk(en, k)
           v == Walk(en2, k)
           T == {i \in 1 .. Len(k) : v[i] = w[i]}
<1>0. /\ w[1] = Root
      /\ \A i \in 1 .. Len(k) - 1 : w[i + 1] = IF w[i] = Null THEN Null ELSE Kid(en, w[i], k[i])
      /\ v[1] = Root
      /\ \A i \in 1 .. Len(k) - 1 : v[i + 1] = IF v[i] = Null THEN Null ELSE Kid(en2, v[i], k[i])
  BY WalkIs
<1>1. \A i \in 1 .. Len(k) : w[i] \in 0 .. n
  BY WalkRange
<1> HIDE DEF w, v
<1>2. /\ Len(k) \in Nat \ {0} /\ T \in SUBSET (1 .. Len(k)) /\ 1 \in 1 .. Len(k)
      /\ \A i \in 1 .. Len(k) : k[i] \in Chunks
  BY KeyIs
<1>3. 1 \in T
  BY <1>0, <1>2
<1>4. ASSUME NEW i \in T, i + 1 \in 1 .. Len(k) PROVE i + 1 \in T
  <2>1. i \in 1 .. Len(k) - 1 /\ i \in 1 .. Len(k) /\ v[i] = w[i]
    BY <1>4, <1>2
  <2>2. CASE w[i] = Null
    BY <2>1, <2>2, <1>0, <1>4
  <2>3. CASE w[i] # Null
    <3>1. w[i] \in Nodes /\ k[i] \in Chunks
      BY <2>3, <2>1, <1>1, <1>2, HeapNodes
    <3>2. Kid(en2, w[i], k[i]) = Kid(en, w[i], k[i])
      BY <3>1 DEF SameKids
    <3> QED  BY <3>2, <2>1, <2>3, <1>0, <1>4
  <2> QED  BY <2>2, <2>3
<1>5. \A i \in 1 .. Len(k) : i \in T
  <2> HIDE DEF T
  <2> QED  BY <1>2, <1>3, <1>4, AlongKey
<1> QED  BY <1>5 DEF w, v

\* The entries after one is written.
LEMMA PutAt ==
  ASSUME NEW en, NEW n, Heap(en, n), NEW m \in 1 .. n, NEW c \in Chunks, NEW e \in Entries(n)
  PROVE  /\ Put(en, m, c, e) \in [Nodes -> [Chunks -> Entries(n)]]
         /\ Put(en, m, c, e)[m][c] = e
         /\ \A p \in Nodes : p # m => Put(en, m, c, e)[p] = en[p]
         /\ \A d \in Chunks : d # c => Put(en, m, c, e)[m][d] = en[m][d]
<1>1. m \in Nodes
  BY HeapNodes
<1>2. en \in [Nodes -> [Chunks -> Entries(n)]]
  BY DEF Heap
<1> DEFINE E == Entries(n)
<1>3. e \in E /\ en \in [Nodes -> [Chunks -> E]]
  BY <1>2
<1> HIDE DEF E
<1>4. /\ Put(en, m, c, e) \in [Nodes -> [Chunks -> E]]
      /\ Put(en, m, c, e)[m][c] = e
      /\ \A p \in Nodes : p # m => Put(en, m, c, e)[p] = en[p]
      /\ \A d \in Chunks : d # c => Put(en, m, c, e)[m][d] = en[m][d]
  BY <1>1, <1>3 DEF Put
<1> QED  BY <1>4 DEF E

\* An entry that leads where the old one led leaves the trie a trie.
LEMMA PutHeap ==
  ASSUME NEW en, NEW n, Heap(en, n), NEW m \in 1 .. n, NEW c \in Chunks, NEW e \in Entries(n),
         Go(e) = Kid(en, m, c)
  PROVE  Heap(Put(en, m, c, e), n) /\ SameKids(en, Put(en, m, c, e))
<1> DEFINE en2 == Put(en, m, c, e)
<1>1. /\ en2 \in [Nodes -> [Chunks -> Entries(n)]]
      /\ en2[m][c] = e
      /\ \A p \in Nodes : p # m => en2[p] = en[p]
      /\ \A d \in Chunks : d # c => en2[m][d] = en[m][d]
  BY PutAt
<1> HIDE DEF en2
<1>2. n \in Nodes /\ n \in Nat /\ m \in Nodes
  BY HeapNodes
<1>3. ASSUME NEW p \in Nodes, NEW d \in Chunks PROVE Kid(en2, p, d) = Kid(en, p, d)
  <2>1. CASE p = m /\ d = c
    BY <2>1, <1>1 DEF Kid
  <2>2. CASE p = m /\ d # c
    <3>1. en2[p][d] = en[p][d]
      BY <2>2, <1>1
    <3> QED  BY <3>1 DEF Kid
  <2>3. CASE p # m
    <3>1. en2[p][d] = en[p][d]
      BY <2>3, <1>1
    <3> QED  BY <3>1 DEF Kid
  <2> QED  BY <2>1, <2>2, <2>3
<1>4. SameKids(en, en2)
  BY <1>3 DEF SameKids
<1>5. \A p \in Nodes : p > n => en2[p] = Empty
  <2>1. ASSUME NEW p \in Nodes, p > n PROVE p # m
    BY <2>1, <1>2
  <2> QED  BY <2>1, <1>1 DEF Heap
<1>6. \A p, q \in Nodes, a, d \in Chunks :
        Kid(en2, p, a) # Null =>
          Kid(en2, p, a) # Root /\ (Kid(en2, p, a) = Kid(en2, q, d) => p = q /\ a = d)
  BY <1>3 DEF Heap
<1>7. Heap(en2, n)
  BY <1>1, <1>2, <1>5, <1>6 DEF Heap
<1> QED  BY <1>4, <1>7 DEF en2

\* Two keys of the same length with the same chunks are the same key.
LEMMA SameKey ==
  ASSUME NEW k \in Keys, NEW l \in Keys, Len(k) = Len(l), \A i \in 1 .. Len(k) : k[i] = l[i]
  PROVE  k = l
<1>1. k \in Seq(Chunks) /\ l \in Seq(Chunks)
  BY KeyIs
<1> QED  BY <1>1, SeqEqual

\* Only the key whose walk ends at the entry sees what is written there.
LEMMA PutValue ==
  ASSUME NEW en, NEW n, Heap(en, n), NEW m \in 1 .. n, NEW c \in Chunks, NEW e \in Entries(n),
         Go(e) = Kid(en, m, c), NEW l \in Keys, m = Walk(en, l)[Len(l)], c = l[Len(l)]
  PROVE  \A k \in Keys : ValueIn(Put(en, m, c, e), k) = IF k = l THEN e.val ELSE ValueIn(en, k)
<1> DEFINE en2 == Put(en, m, c, e)
<1>1. /\ en2[m][c] = e
      /\ \A p \in Nodes : p # m => en2[p] = en[p]
      /\ \A d \in Chunks : d # c => en2[m][d] = en[m][d]
  BY PutAt
<1>2. SameKids(en, en2)
  BY PutHeap
<1> HIDE DEF en2
<1>3. m \in Nodes /\ m # Null
  BY HeapNodes DEF Null
<1>4. ASSUME NEW k \in Keys PROVE ValueIn(en2, k) = IF k = l THEN e.val ELSE ValueIn(en, k)
  <2> DEFINE w == Walk(en, k)[Len(k)]
  <2>1. Len(k) \in 1 .. Len(k) /\ Len(k) \in Nat \ {0} /\ k[Len(k)] \in Chunks
    BY KeyIs
  <2>2. Walk(en2, k)[Len(k)] = w
    BY <2>1, <1>2, SameWalk
  <2>3. w \in 0 .. n
    BY <2>1, WalkRange
  <2>4. CASE k = l
    BY <2>4, <2>2, <1>1, <1>3 DEF ValueIn
  <2>5. CASE k # l /\ w = Null
    BY <2>5, <2>2 DEF ValueIn
  <2>6. CASE k # l /\ w # Null
    <3>1. w \in Nodes
      BY <2>3, <2>6, HeapNodes
    <3>2. ~(w = m /\ k[Len(k)] = c)
      <4> SUFFICES ASSUME w = m, k[Len(k)] = c PROVE FALSE
        OBVIOUS
      <4>1. Len(l) \in 1 .. Len(l)
        BY KeyIs
      <4>2. Walk(en, k)[Len(k)] # Null /\ Walk(en, k)[Len(k)] = Walk(en, l)[Len(l)]
        BY <2>6
      <4>3. Len(k) = Len(l) /\ \A h \in 1 .. Len(k) - 1 : k[h] = l[h]
        BY <4>1, <4>2, <2>1, OneWay
      <4>4. k[Len(k)] = l[Len(k)]
        BY <4>3
      <4>5. \A h \in 1 .. Len(k) : k[h] = l[h]
        <5>1. \A h \in 1 .. Len(k) : h \in 1 .. Len(k) - 1 \/ h = Len(k)
          BY <2>1
        <5> QED  BY <5>1, <4>3, <4>4
      <4> QED  BY <4>3, <4>5, <2>6, SameKey
    <3>3. en2[w][k[Len(k)]] = en[w][k[Len(k)]]
      BY <3>1, <3>2, <2>1, <1>1
    <3> HIDE DEF w
    <3>4. Walk(en, k)[Len(k)] = w
      BY DEF w
    <3> QED  BY <3>3, <3>4, <2>2, <2>6 DEF ValueIn
  <2> QED  BY <2>4, <2>5, <2>6
<1> QED  BY <1>4 DEF en2

\* The entries after a node is added below one that leads nowhere.
LEMMA ChildAt ==
  ASSUME NEW en, NEW n, Heap(en, n), n + 1 \in Nodes, NEW m \in 1 .. n, NEW c \in Chunks,
         NEW e \in Entries(n + 1)
  PROVE  /\ Child(en, n + 1, m, c, e) \in [Nodes -> [Chunks -> Entries(n + 1)]]
         /\ Child(en, n + 1, m, c, e)[m][c] = e
         /\ Child(en, n + 1, m, c, e)[n + 1] = Empty
         /\ \A p \in Nodes : p # m /\ p # n + 1 => Child(en, n + 1, m, c, e)[p] = en[p]
         /\ \A d \in Chunks : d # c => Child(en, n + 1, m, c, e)[m][d] = en[m][d]
<1>1. m \in Nodes /\ m # n + 1 /\ n \in Nat
  BY HeapNodes
<1>2. en \in [Nodes -> [Chunks -> Entries(n)]]
  BY DEF Heap
<1>3. Entries(n) \subseteq Entries(n + 1)
  BY <1>1 DEF Entries
<1> DEFINE E == Entries(n + 1)
           q == n + 1
<1>4. en \in [Nodes -> [Chunks -> E]]
  BY <1>2, <1>3
<1>5. NoEntry \in E
  BY <1>1 DEF NoEntry, Entries, Null
<1>6. Empty \in [Chunks -> E]
  BY <1>5 DEF Empty
<1>7. q \in Nodes /\ m # q /\ e \in E
  BY <1>1
<1> HIDE DEF E, q
<1>8. /\ Child(en, q, m, c, e) \in [Nodes -> [Chunks -> E]]
      /\ Child(en, q, m, c, e)[m][c] = e
      /\ Child(en, q, m, c, e)[q] = Empty
      /\ \A p \in Nodes : p # m /\ p # q => Child(en, q, m, c, e)[p] = en[p]
      /\ \A d \in Chunks : d # c => Child(en, q, m, c, e)[m][d] = en[m][d]
  BY <1>1, <1>4, <1>6, <1>7 DEF Child
<1> QED  BY <1>8 DEF E, q

\* Links into the nodes that there are.
LEMMA KidRange ==
  ASSUME NEW en, NEW n, Heap(en, n), NEW m \in Nodes, NEW c \in Chunks
  PROVE  Kid(en, m, c) \in 0 .. n /\ (m > n => Kid(en, m, c) = Null)
<1>1. n \in Nat
  BY HeapNodes
<1>2. en[m][c] \in Entries(n)
  BY DEF Heap
<1>3. Kid(en, m, c) \in 0 .. n
  BY <1>1, <1>2 DEF Kid, Go, Entries, Null
<1>4. ASSUME m > n PROVE Kid(en, m, c) = Null
  <2>1. en[m][c] = NoEntry
    BY <1>4 DEF Heap, Empty
  <2> QED  BY <2>1 DEF Kid, Go, NoEntry, Null
<1> QED  BY <1>3, <1>4

\* The trie with the new node is a trie, and what led somewhere still leads there.
LEMMA ChildHeap ==
  ASSUME NEW en, NEW n, Heap(en, n), n + 1 \in Nodes, NEW m \in 1 .. n, NEW c \in Chunks,
         NEW e \in Entries(n + 1), Go(e) = n + 1, Kid(en, m, c) = Null
  PROVE  /\ Heap(Child(en, n + 1, m, c, e), n + 1)
         /\ Grows(en, Child(en, n + 1, m, c, e))
         /\ Kid(Child(en, n + 1, m, c, e), m, c) = n + 1
         /\ \A p \in Nodes, d \in Chunks :
              p # m \/ d # c => Kid(Child(en, n + 1, m, c, e), p, d) = Kid(en, p, d)
<1> DEFINE en2 == Child(en, n + 1, m, c, e)
<1>1. /\ en2 \in [Nodes -> [Chunks -> Entries(n + 1)]]
      /\ en2[m][c] = e
      /\ en2[n + 1] = Empty
      /\ \A p \in Nodes : p # m /\ p # n + 1 => en2[p] = en[p]
      /\ \A d \in Chunks : d # c => en2[m][d] = en[m][d]
  BY ChildAt
<1> HIDE DEF en2
<1>2. n \in Nat \ {0} /\ m \in Nodes
  BY HeapNodes
<1>3. Kid(en2, m, c) = n + 1
  BY <1>1 DEF Kid
<1>4. ASSUME NEW p \in Nodes, NEW d \in Chunks, p # m \/ d # c PROVE Kid(en2, p, d) = Kid(en, p, d)
  <2>1. CASE p = m
    <3>1. en2[p][d] = en[p][d]
      BY <2>1, <1>1, <1>4
    <3> QED  BY <3>1 DEF Kid
  <2>2. CASE p = n + 1
    <3>1. en2[p][d] = NoEntry
      BY <2>2, <1>1 DEF Empty
    <3>2. Kid(en2, p, d) = Null
      BY <3>1 DEF Kid, Go, NoEntry, Null
    <3>3. Kid(en, p, d) = Null
      BY <2>2, <1>2, KidRange
    <3> QED  BY <3>2, <3>3
  <2>3. CASE p # m /\ p # n + 1
    <3>1. en2[p][d] = en[p][d]
      BY <2>3, <1>1
    <3> QED  BY <3>1 DEF Kid
  <2> QED  BY <2>1, <2>2, <2>3
<1>5. Grows(en, en2)
  <2>1. ASSUME NEW p \in Nodes, NEW d \in Chunks, Kid(en, p, d) # Null PROVE Kid(en2, p, d) = Kid(en, p, d)
    BY <2>1, <1>4
  <2> QED  BY <2>1 DEF Grows
<1>6. \A p \in Nodes : p > n + 1 => en2[p] = Empty
  <2>1. ASSUME NEW p \in Nodes, p > n + 1 PROVE p # m /\ p # n + 1 /\ p > n
    BY <2>1, <1>2 DEF Nodes
  <2> QED  BY <2>1, <1>1 DEF Heap
<1>7. ASSUME NEW p \in Nodes, NEW a \in Chunks, Kid(en2, p, a) # Null PROVE Kid(en2, p, a) # Root
  <2>1. CASE p = m /\ a = c
    BY <2>1, <1>2, <1>3 DEF Root
  <2>2. CASE p # m \/ a # c
    <3>1. Kid(en2, p, a) = Kid(en, p, a)
      BY <2>2, <1>4
    <3> QED  BY <3>1, <1>7 DEF Heap
  <2> QED  BY <2>1, <2>2
<1>8. ASSUME NEW p \in Nodes, NEW a \in Chunks, NEW q \in Nodes, NEW d \in Chunks,
             Kid(en2, p, a) # Null, Kid(en2, p, a) = Kid(en2, q, d)
      PROVE  p = q /\ a = d
  <2>1. CASE (p = m /\ a = c) /\ (q # m \/ d # c)
    <3>1. Kid(en, q, d) = n + 1
      BY <2>1, <1>3, <1>4, <1>8
    <3>2. Kid(en, q, d) \in 0 .. n
      BY KidRange
    <3> QED  BY <3>1, <3>2, <1>2
  <2>2. CASE (q = m /\ d = c) /\ (p # m \/ a # c)
    <3>1. Kid(en, p, a) = n + 1
      BY <2>2, <1>3, <1>4, <1>8
    <3>2. Kid(en, p, a) \in 0 .. n
      BY KidRange
    <3> QED  BY <3>1, <3>2, <1>2
  <2>3. CASE (p # m \/ a # c) /\ (q # m \/ d # c)
    <3>1. Kid(en2, p, a) = Kid(en, p, a) /\ Kid(en2, q, d) = Kid(en, q, d)
      BY <2>3, <1>4
    <3>2. Kid(en, p, a) # Null /\ Kid(en, p, a) = Kid(en, q, d)
      BY <3>1, <1>8
    <3> QED  BY <3>2 DEF Heap
  <2> QED  BY <2>1, <2>2, <2>3
<1>9. Heap(en2, n + 1)
  BY <1>1, <1>6, <1>7, <1>8 DEF Heap
<1> QED  BY <1>3, <1>4, <1>5, <1>9 DEF en2

\* The new node is empty: no key has another value.
LEMMA ChildValue ==
  ASSUME NEW en, NEW n, Heap(en, n), n + 1 \in Nodes, NEW m \in 1 .. n, NEW c \in Chunks,
         NEW e \in Entries(n + 1), Go(e) = n + 1, Kid(en, m, c) = Null, e.val = en[m][c].val
  PROVE  \A k \in Keys : ValueIn(Child(en, n + 1, m, c, e), k) = ValueIn(en, k)
<1> DEFINE en2 == Child(en, n + 1, m, c, e)
<1>1. /\ en2[m][c] = e
      /\ en2[n + 1] = Empty
      /\ \A p \in Nodes : p # m /\ p # n + 1 => en2[p] = en[p]
      /\ \A d \in Chunks : d # c => en2[m][d] = en[m][d]
  BY ChildAt
<1>2. /\ Kid(en2, m, c) = n + 1
      /\ \A p \in Nodes, d \in Chunks : p # m \/ d # c => Kid(en2, p, d) = Kid(en, p, d)
  BY ChildHeap
<1> HIDE DEF en2
<1>3. n \in Nat \ {0} /\ m \in Nodes /\ m # n + 1
  BY HeapNodes
<1>4. ASSUME NEW k \in Keys PROVE ValueIn(en2, k) = ValueIn(en, k)
  <2> DEFINE w == Walk(en, k)
             v == Walk(en2, k)
             T == {i \in 1 .. Len(k) : v[i] = w[i] \/ (w[i] = Null /\ v[i] = n + 1)}
  <2>0. /\ w[1] = Root
        /\ \A i \in 1 .. Len(k) - 1 : w[i + 1] = IF w[i] = Null THEN Null ELSE Kid(en, w[i], k[i])
        /\ v[1] = Root
        /\ \A i \in 1 .. Len(k) - 1 : v[i + 1] = IF v[i] = Null THEN Null ELSE Kid(en2, v[i], k[i])
    BY WalkIs
  <2>1. \A i \in 1 .. Len(k) : w[i] \in 0 .. n
    BY WalkRange
  <2>2. /\ Len(k) \in Nat \ {0} /\ T \in SUBSET (1 .. Len(k)) /\ 1 \in 1 .. Len(k)
        /\ Len(k) \in 1 .. Len(k)
        /\ \A i \in 1 .. Len(k) : k[i] \in Chunks
    BY KeyIs
  <2>a. ValueIn(en, k) = IF w[Len(k)] = Null THEN NoValue ELSE en[w[Len(k)]][k[Len(k)]].val
    BY DEF ValueIn
  <2>b. ValueIn(en2, k) = IF v[Len(k)] = Null THEN NoValue ELSE en2[v[Len(k)]][k[Len(k)]].val
    BY DEF ValueIn
  <2> HIDE DEF w, v
  <2>3. 1 \in T
    BY <2>0, <2>2
  <2>4. ASSUME NEW i \in T, i + 1 \in 1 .. Len(k) PROVE i + 1 \in T
    <3>1. i \in 1 .. Len(k) - 1 /\ i \in 1 .. Len(k) /\ k[i] \in Chunks
      BY <2>4, <2>2
    <3>2. CASE v[i] = Null
      <4>1. w[i] = Null
        BY <3>2, <2>4, <1>3 DEF Null
      <4> QED  BY <4>1, <3>1, <3>2, <2>0, <2>4
    <3>3. CASE w[i] = Null /\ v[i] = n + 1
      <4>1. v[i] # Null
        BY <3>3, <1>3 DEF Null
      <4>2. Kid(en2, n + 1, k[i]) = Kid(en, n + 1, k[i])
        BY <1>2, <1>3, <3>1
      <4>3. Kid(en, n + 1, k[i]) = Null
        BY <3>1, <1>3, KidRange
      <4>4. v[i + 1] = Null /\ w[i + 1] = Null
        BY <4>1, <4>2, <4>3, <3>1, <3>3, <2>0
      <4> QED  BY <4>4, <2>4
    <3>4. CASE v[i] = w[i] /\ w[i] # Null
      <4>1. w[i] \in Nodes
        BY <3>1, <3>4, <2>1, HeapNodes
      <4>2. v[i + 1] = Kid(en2, w[i], k[i]) /\ w[i + 1] = Kid(en, w[i], k[i])
        BY <3>1, <3>4, <2>0
      <4>3. CASE w[i] = m /\ k[i] = c
        <5>1. v[i + 1] = n + 1 /\ w[i + 1] = Null
          BY <4>2, <4>3, <1>2
        <5> QED  BY <5>1, <2>4
      <4>4. CASE w[i] # m \/ k[i] # c
        <5>1. Kid(en2, w[i], k[i]) = Kid(en, w[i], k[i])
          BY <4>1, <4>4, <3>1, <1>2
        <5> QED  BY <5>1, <4>2, <2>4
      <4> QED  BY <4>3, <4>4
    <3>5. v[i] = w[i] \/ (w[i] = Null /\ v[i] = n + 1)
      BY <2>4
    <3> QED  BY <3>2, <3>3, <3>4, <3>5
  <2>5. Len(k) \in T
    <3> HIDE DEF T
    <3> QED  BY <2>2, <2>3, <2>4, AlongKey
  <2> DEFINE x == w[Len(k)]
             y == v[Len(k)]
             d == k[Len(k)]
  <2>6. d \in Chunks /\ x \in 0 .. n /\ (y = x \/ (x = Null /\ y = n + 1))
    BY <2>1, <2>2, <2>5
  <2>7. /\ ValueIn(en, k) = IF x = Null THEN NoValue ELSE en[x][d].val
        /\ ValueIn(en2, k) = IF y = Null THEN NoValue ELSE en2[y][d].val
    BY <2>a, <2>b
  <2> HIDE DEF x, y, d
  <2>8. CASE x = Null /\ y = n + 1
    <3>1. en2[y][d].val = NoValue
      BY <2>8, <2>6, <1>1 DEF Empty, NoEntry
    <3> QED  BY <3>1, <2>7, <2>8
  <2>9. CASE x = Null /\ y = Null
    BY <2>7, <2>9
  <2>10. CASE y = x /\ x # Null
    <3>1. x \in Nodes /\ x # n + 1
      BY <2>6, <2>10, <1>3, HeapNodes
    <3>2. en2[x][d].val = en[x][d].val
      <4>1. CASE x = m /\ d = c
        BY <4>1, <1>1
      <4>2. CASE x = m /\ d # c
        BY <4>2, <1>1, <2>6
      <4>3. CASE x # m
        BY <4>3, <1>1, <3>1
      <4> QED  BY <4>1, <4>2, <4>3
    <3> QED  BY <3>2, <2>7, <2>10
  <2> QED  BY <2>6, <2>8, <2>9, <2>10
<1> QED  BY <1>4 DEF en2

\* Nothing is on disk: PlaceOf finds the entry at the end of the walk.
LEMMA TableValue ==
  ASSUME NEW en, NEW n, Heap(en, n), NEW disk, NEW k \in Keys
  PROVE  Table(en, disk, k)[Len(k)][k[Len(k)]].val = ValueIn(en, k)
<1> DEFINE w == Walk(en, k)
           Tab(i) == IF w[i] = Null THEN Empty ELSE en[w[i]]
           T0 == [i \in 1 .. Len(k) |-> Tab(i)]
<1>0. /\ w[1] = Root
      /\ \A i \in 1 .. Len(k) - 1 : w[i + 1] = IF w[i] = Null THEN Null ELSE Kid(en, w[i], k[i])
  BY WalkIs
<1>1. \A i \in 1 .. Len(k) : w[i] \in 0 .. n
  BY WalkRange
<1>2. /\ Len(k) \in Nat \ {0} /\ 1 \in 1 .. Len(k) /\ Len(k) \in 1 .. Len(k)
      /\ \A i \in 1 .. Len(k) : k[i] \in Chunks
  BY KeyIs
<1>a. ValueIn(en, k) = IF w[Len(k)] = Null THEN NoValue ELSE en[w[Len(k)]][k[Len(k)]].val
  BY DEF ValueIn
<1> HIDE DEF w
<1>3. Tab(1) = en[Root]
  BY <1>0 DEF Root, Null
<1>4. ASSUME NEW i \in 1 .. Len(k) - 1 PROVE Tab(i + 1) = GoTable(en, disk, Tab(i)[k[i]])
  <2>1. i \in 1 .. Len(k) /\ i + 1 \in 1 .. Len(k) /\ k[i] \in Chunks
    BY <1>2
  <2>2. CASE w[i] = Null
    <3>1. w[i + 1] = Null
      BY <2>2, <1>0
    <3>2. Tab(i)[k[i]] = NoEntry
      BY <2>1, <2>2 DEF Empty
    <3>3. GoTable(en, disk, NoEntry) = Empty
      BY DEF GoTable, Go, NoEntry, Null
    <3> QED  BY <3>1, <3>2, <3>3
  <2>3. CASE w[i] # Null
    <3>1. w[i] \in Nodes
      BY <2>1, <2>3, <1>1, HeapNodes
    <3>2. en[w[i]][k[i]] \in Entries(n)
      BY <3>1, <2>1 DEF Heap
    <3>3. en[w[i]][k[i]].off = 0
      BY <3>2 DEF Entries
    <3>4. w[i + 1] = Go(en[w[i]][k[i]])
      BY <2>3, <1>0 DEF Kid
    <3>5. Tab(i) = en[w[i]]
      BY <2>3
    <3>6. GoTable(en, disk, en[w[i]][k[i]]) = IF w[i + 1] # Null THEN en[w[i + 1]] ELSE Empty
      BY <3>3, <3>4 DEF GoTable
    <3> QED  BY <3>5, <3>6
  <2> QED  BY <2>2, <2>3
<1> HIDE DEF Tab
<1>5. IsTable(en, disk, k, T0)
  <2>1. ASSUME NEW i \in 1 .. Len(k)
        PROVE  T0[i] = IF i = 1 THEN en[Root] ELSE GoTable(en, disk, T0[i - 1][k[i - 1]])
    <3>1. CASE i = 1
      BY <3>1, <1>3
    <3>2. CASE i # 1
      <4>1. i - 1 \in 1 .. Len(k) - 1 /\ i - 1 \in 1 .. Len(k) /\ (i - 1) + 1 = i
        BY <3>2, <1>2
      <4>2. T0[i] = Tab(i) /\ T0[i - 1] = Tab(i - 1)
        BY <4>1
      <4>3. Tab(i) = GoTable(en, disk, Tab(i - 1)[k[i - 1]])
        BY <4>1, <1>4
      <4> QED  BY <3>2, <4>2, <4>3
    <3> QED  BY <3>1, <3>2
  <2> QED  BY <2>1 DEF IsTable
<1> DEFINE U == Table(en, disk, k)
           T == {i \in 1 .. Len(k) : U[i] = Tab(i)}
<1> HIDE DEF T0
<1>6. IsTable(en, disk, k, U)
  BY <1>5 DEF Table
<1> HIDE DEF U
<1>7. \A i \in 1 .. Len(k) : U[i] = IF i = 1 THEN en[Root] ELSE GoTable(en, disk, U[i - 1][k[i - 1]])
  BY <1>6 DEF IsTable
<1>8. 1 \in T
  BY <1>2, <1>3, <1>7
<1>9. ASSUME NEW i \in T, i + 1 \in 1 .. Len(k) PROVE i + 1 \in T
  <2>1. i \in 1 .. Len(k) - 1 /\ i + 1 # 1 /\ (i + 1) - 1 = i /\ U[i] = Tab(i)
    BY <1>9, <1>2
  <2>2. U[i + 1] = GoTable(en, disk, U[i][k[i]])
    BY <2>1, <1>7, <1>9
  <2>3. U[i + 1] = Tab(i + 1)
    BY <2>1, <2>2, <1>4
  <2> QED  BY <2>3, <1>9
<1>10. Len(k) \in T
  <2>1. T \in SUBSET (1 .. Len(k))
    OBVIOUS
  <2> HIDE DEF T
  <2> QED  BY <2>1, <1>2, <1>8, <1>9, AlongKey
<1>11. U[Len(k)] = Tab(Len(k))
  BY <1>10
<1>12. k[Len(k)] \in Chunks
  BY <1>2
<1>13. Tab(Len(k))[k[Len(k)]].val = ValueIn(en, k)
  <2>1. CASE w[Len(k)] = Null
    <3>1. Tab(Len(k))[k[Len(k)]] = NoEntry
      BY <2>1, <1>12 DEF Tab, Empty
    <3> QED  BY <3>1, <2>1, <1>a DEF NoEntry
  <2>2. CASE w[Len(k)] # Null
    BY <2>2, <1>a DEF Tab
  <2> QED  BY <2>1, <2>2
<1> QED  BY <1>11, <1>13 DEF U

\* What the keys have, from the walks.
LEMMA PlaceIsTable ==
  ASSUME NEW k \in Keys
  PROVE  PlaceOf(k) = Table(ent, scn.disk, k)[Len(k)][k[Len(k)]]
BY DEF PlaceOf, Table, IsTable, GoTable, Go, Disk

-----------------------------------------------------------------------------
(* The invariant *)

\* The nodes that a scenario starts with.
Start(s) == [n \in Nodes |-> IF n <= Len(s.heap) THEN s.heap[n] ELSE Empty]

\* The scenario is about insertions, deletions and lookups in a trie that is in memory.
InMemory ==
  /\ \A t \in Threads :
       /\ Job(t).op \in {"insert", "delete", "find", "none"}
       /\ Key(t) \in Keys
       /\ Job(t).val \in Values \cup {NoValue}
       /\ Job(t).op = "delete" => Job(t).val = NoValue
  /\ Heap(Start(scn), Len(scn.heap))
  /\ \A n \in Nodes, c \in Chunks : Start(scn)[n][c].trie_child # Null => Start(scn)[n][c].hv

Active(t) == pc[t] \notin {"idle", "done"}

\* The steps of the three operations: those with the lock of the node, those of a lookup, and
\* those on the way to the next node.
Locking == {"at", "first", "enter", "crab", "release"}
Rereading == {"totrie", "tochild"}
Finding == {"seq", "look", "compare", "flags", "chain", "single", "validate"}
Leaving == {"enter", "crab", "validate"} \cup Rereading
Steps == {"idle", "done"} \cup Locking \cup Rereading \cup Finding
USE DEF Locking, Rereading, Finding, Leaving, Steps

Types ==
  /\ Heap(ent, used) /\ freed = {} /\ ~broken
  /\ seq \in [Nodes -> Nat] /\ lock \in [Nodes -> Threads \cup {Free}]
  /\ pc \in [Threads -> Steps]
  /\ cur \in [Threads -> Nodes] /\ pos \in [Threads -> Nat] /\ nxt \in [Threads -> 0 .. used]
  /\ seen \in [Threads -> Nat] /\ got \in [Threads -> Values \cup {NoValue}]
  /\ held \in [Threads -> SUBSET Chunks]

\* Who is at a step has the call for it.
Calls ==
  \A t \in Threads :
    /\ pc[t] \in {"at", "enter", "crab", "totrie", "tochild", "release"} => Writer(t)
    /\ pc[t] = "first" => Job(t).op = "insert"
    /\ pc[t] \in Finding => Job(t).op = "find"

\* A thread is on the way of its key, and goes on along it.
Walkers ==
  \A t \in Threads :
    /\ Active(t) => pos[t] \in 1 .. Len(Key(t)) /\ cur[t] = Walk(ent, Key(t))[pos[t]]
    /\ pc[t] \in Leaving =>
         /\ pos[t] # Len(Key(t)) /\ nxt[t] # Null
         /\ nxt[t] = Walk(ent, Key(t))[pos[t] + 1]

\* A trie_child without a value is seen only between SaveChild and FirstValue ...
Halves ==
  \A n \in Nodes, c \in Chunks :
    ent[n][c].trie_child # Null /\ ~ent[n][c].hv =>
      \E t \in Threads : pc[t] = "first" /\ cur[t] = n /\ Chunk(t) = c

\* ... where the union is free for the value.
Firsts ==
  \A t \in Threads : pc[t] = "first" => AtEnd(t) /\ ~Entry(t).hv /\ Entry(t).child = Null

\* Who has looked for the entry that his key ends with is still at the end, and in a serial
\* scenario an entry that was not there has not come.
Looks ==
  \A t \in Threads :
    /\ pc[t] \in {"compare", "flags", "chain", "single"} => AtEnd(t)
    /\ scn.serial /\ pc[t] \in {"compare", "flags"} /\ Chunk(t) \notin held[t] => ~Entry(t).hv

\* In a serial scenario the calls before the one that runs have returned.
InTurn ==
  scn.serial => \A t, u \in Threads : Active(t) /\ u < t => pc[u] = "done"

TrieInv == /\ Types /\ Calls /\ LockDiscipline /\ Walkers
           /\ Halves /\ Firsts /\ Looks /\ InTurn /\ ReadsItsKey

\* The steps of insertions, deletions and lookups in memory.
MemoryStep(t) ==
  \/ StartWrite(t) \/ Release(t) \/ NewValue(t) \/ SaveChild(t) \/ FirstValue(t)
  \/ AddVersion(t) \/ AddTombstone(t) \/ NewChild(t) \/ NoWayOn(t) \/ Descend(t)
  \/ Enter(t) \/ Crab(t) \/ Reread(t) \/ StartFind(t) \/ ReadSeq(t) \/ FindEntry(t)
  \/ CompareSeq(t) \/ ReadFlags(t) \/ ReadValue(t) \/ ReadChild(t) \/ Validate(t)

\* The other threads, and what a step never changes.
Frame(t) ==
  /\ scn' = scn /\ freed' = freed
  /\ \A u \in Threads : u # t => /\ pc'[u] = pc[u] /\ cur'[u] = cur[u] /\ pos'[u] = pos[u]
                                 /\ nxt'[u] = nxt[u] /\ got'[u] = got[u] /\ held'[u] = held[u]

\* A call is one of the four.
LEMMA JobIs ==
  ASSUME InMemory, Types, NEW t \in Threads
  PROVE  /\ Key(t) \in Keys /\ Job(t).op \in {"insert", "delete", "find", "none"}
         /\ Job(t).val \in Values \cup {NoValue} /\ (Job(t).op = "delete" => Job(t).val = NoValue)
BY DEF InMemory

\* Where a thread that is under way stands.
LEMMA AtNode ==
  ASSUME InMemory, Types, Walkers, NEW t \in Threads, Active(t)
  PROVE  /\ Key(t) \in Keys /\ Len(Key(t)) \in Nat \ {0} /\ pos[t] \in 1 .. Len(Key(t))
         /\ Chunk(t) \in Chunks /\ cur[t] \in 1 .. used /\ cur[t] \in Nodes
         /\ cur[t] = Walk(ent, Key(t))[pos[t]]
         /\ Entry(t) \in Entries(used) /\ Go(Entry(t)) = Kid(ent, cur[t], Chunk(t))
         /\ ~AtEnd(t) => /\ pos[t] + 1 \in 1 .. Len(Key(t))
                         /\ Walk(ent, Key(t))[pos[t] + 1] = Go(Entry(t))
<1>1. Key(t) \in Keys
  BY JobIs
<1>2. Len(Key(t)) \in Nat \ {0} /\ \A i \in 1 .. Len(Key(t)) : Key(t)[i] \in Chunks
  BY <1>1, KeyIs
<1>3. pos[t] \in 1 .. Len(Key(t)) /\ cur[t] = Walk(ent, Key(t))[pos[t]]
  BY DEF Walkers
<1>4. Chunk(t) \in Chunks
  BY <1>2, <1>3 DEF Chunk
<1>5. Heap(ent, used) /\ cur[t] \in Nodes
  BY DEF Types
<1>6. cur[t] \in 0 .. used /\ cur[t] \in Nat \ {0}
  BY <1>1, <1>3, <1>5, WalkRange DEF Nodes
<1>7. cur[t] \in 1 .. used
  <2>1. used \in Nat
    BY <1>5, HeapNodes
  <2> QED  BY <2>1, <1>6
<1>8. Entry(t) \in Entries(used)
  BY <1>4, <1>5 DEF Entry, Heap
<1>9. Go(Entry(t)) = Kid(ent, cur[t], Chunk(t))
  BY DEF Kid, Entry
<1>10. ASSUME ~AtEnd(t)
       PROVE  /\ pos[t] + 1 \in 1 .. Len(Key(t))
              /\ Walk(ent, Key(t))[pos[t] + 1] = Go(Entry(t))
  <2>1. pos[t] \in 1 .. Len(Key(t)) - 1 /\ pos[t] + 1 \in 1 .. Len(Key(t))
    BY <1>2, <1>3, <1>10 DEF AtEnd
  <2>2. cur[t] # Null
    BY <1>6 DEF Null
  <2>3. Walk(ent, Key(t))[pos[t] + 1] = Kid(ent, cur[t], Chunk(t))
    BY <2>1, <2>2, <1>1, <1>3, WalkIs DEF Chunk
  <2> QED  BY <2>1, <2>3, <1>9
<1> QED  BY <1>1, <1>2, <1>3, <1>4, <1>5, <1>7, <1>8, <1>9, <1>10

\* Nobody loads, collects or evicts.
LEMMA OnlyMemory ==
  ASSUME InMemory, TrieInv, NEW t \in Threads, Step(t)
  PROVE  MemoryStep(t)
<1>1. WriterStep(t) \/ ReaderStep(t) \/ WalkStep(t)
  BY DEF Step
<1>2. /\ pc[t] \in Steps
      /\ Types /\ Walkers
  BY DEF TrieInv, Types
<1>3. Job(t).op \in {"insert", "delete", "find", "none"}
  BY <1>2, JobIs
<1>4. ASSUME Active(t) PROVE Entry(t).off = 0
  <2>1. Entry(t) \in Entries(used)
    BY <1>2, <1>4, AtNode, SMTT(60)
  <2> QED  BY <2>1 DEF Entries
<1>5. /\ ~LoadNode(t) /\ ~Reattach(t) /\ ~ReadStore(t) /\ ~GcNode(t) /\ ~EvictNode(t) /\ ~EndWalk(t)
  BY <1>2 DEF LoadNode, Reattach, ReadStore, GcNode, EvictNode, EndWalk
<1>6. ~StartWalk(t)
  BY <1>3 DEF StartWalk
<1>7. ~UnlockForIo(t) /\ ~ReadLoad(t)
  <2>1. pc[t] = "at" \/ pc[t] = "look" => Entry(t).off = 0
    BY <1>4 DEF Active
  <2> QED  BY <2>1 DEF UnlockForIo, ReadLoad
<1> QED  BY <1>1, <1>5, <1>6, <1>7 DEF WriterStep, ReaderStep, WalkStep, MemoryStep

\* A step is one of theirs, or an entry is used through a pointer that has gone astray, and
\* nothing of the trie or of the threads changes.
Astray ==
  /\ scn' = scn /\ ent' = ent /\ seq' = seq /\ lock' = lock /\ used' = used /\ freed' = freed
  /\ pc' = pc /\ cur' = cur /\ pos' = pos /\ nxt' = nxt /\ seen' = seen /\ got' = got
  /\ held' = held /\ broken' = broken
  /\ \A t \in Threads : pc[t] = "done" => may'[t] = may[t]

LEMMA StepOrAstray ==
  ASSUME InMemory, TrieInv, [Next]_vars
  PROVE  Astray \/ (Observe /\ \E t \in Threads : MemoryStep(t))
<1>1. CASE UNCHANGED vars
  BY <1>1 DEF vars, heap, locals, Astray
<1>2. ASSUME NEW t \in Threads, UseTorn(t), Observe PROVE Astray
  <2>1. /\ scn' = scn /\ ent' = ent /\ seq' = seq /\ lock' = lock /\ used' = used /\ freed' = freed
        /\ pc' = pc /\ cur' = cur /\ pos' = pos /\ nxt' = nxt /\ seen' = seen /\ got' = got
        /\ held' = held /\ broken' = broken
    BY <1>2 DEF UseTorn, heap, locals
  <2>2. \A u \in Threads : pc[u] = "done" => may'[u] = may[u]
    BY <1>2, <2>1 DEF Observe
  <2> QED  BY <2>1, <2>2 DEF Astray
<1>3. CASE Next
  <2>1. Observe
    BY <1>3 DEF Next
  <2>2. PICK t \in Threads : Step(t) \/ UseTorn(t)
    BY <1>3 DEF Next
  <2> QED  BY <2>1, <2>2, <1>2, OnlyMemory
<1> QED  BY <1>1, <1>3

\* An entry that a writer or a lookup in turn looks at leads where the walk goes.
LEMMA BelowIsGo ==
  ASSUME InMemory, TrieInv, NEW t \in Threads, pc[t] = "at" \/ (pc[t] = "look" /\ scn.serial)
  PROVE  Below(Entry(t)) = Go(Entry(t)) /\ (~Entry(t).hv => Entry(t).trie_child = Null)
<1>1. Types /\ Walkers /\ Active(t) /\ Halves /\ LockDiscipline /\ InTurn
  BY DEF TrieInv, Active
<1>2. Chunk(t) \in Chunks /\ cur[t] \in Nodes /\ Entry(t) \in Entries(used)
  BY <1>1, AtNode
<1>3. ASSUME ~Entry(t).hv, Entry(t).trie_child # Null PROVE FALSE
  <2>1. PICK u \in Threads : pc[u] = "first" /\ cur[u] = cur[t] /\ Chunk(u) = Chunk(t)
    BY <1>1, <1>2, <1>3 DEF Halves, Entry
  <2>2. u # t /\ Active(u)
    BY <2>1 DEF Active
  <2>3. CASE pc[t] = "at"
    <3>1. lock[cur[u]] = u /\ lock[cur[t]] = t
      BY <2>1, <2>3, <1>1 DEF LockDiscipline
    <3> QED  BY <3>1, <2>1, <2>2
  <2>4. CASE pc[t] = "look" /\ scn.serial
    <3>1. u < t \/ t < u
      BY <2>2, TrieAssumption
    <3>2. u < t => pc[u] = "done"
      BY <2>4, <1>1 DEF InTurn
    <3>3. t < u => pc[t] = "done"
      BY <2>2, <2>4, <1>1 DEF InTurn
    <3> QED  BY <3>1, <3>2, <3>3, <2>1, <2>4
  <2> QED  BY <2>3, <2>4
<1>4. CASE Entry(t).hv
  <2>1. Entry(t).child = Null
    BY <1>2, <1>4 DEF Entries
  <2> QED  BY <2>1, <1>4 DEF Below, Go
<1>5. CASE ~Entry(t).hv
  BY <1>3, <1>5 DEF Below, Go
<1> QED  BY <1>4, <1>5

-----------------------------------------------------------------------------
(* What the steps write *)

\* What a step does to the trie: nothing, another entry that leads to the same node, or a new
\* node below an entry that led to none.
Writes(t, e) ==
  /\ pc[t] \in {"at", "first"} /\ used' = used
  /\ e \in Entries(used) /\ Go(e) = Go(Entry(t))
  /\ ent' = Put(ent, cur[t], Chunk(t), e)
Extends(t, e) ==
  /\ pc[t] = "at" /\ ~AtEnd(t) /\ used' = used + 1 /\ used + 1 \in Nodes
  /\ Go(Entry(t)) = Null /\ e \in Entries(used + 1) /\ Go(e) = used + 1 /\ e.val = Entry(t).val
  /\ (~e.hv => e.trie_child = Null)
  /\ ent' = Child(ent, used + 1, cur[t], Chunk(t), e)
Change(t) ==
  \/ ent' = ent /\ used' = used
  \/ \E e : Writes(t, e)
  \/ \E e : Extends(t, e)

\* The entries that the writers make.
FirstOf(e, v) == [e EXCEPT !.hv = TRUE, !.mv = FALSE, !.child = Null, !.val = v]
LegacyOf(e, v) == [e EXCEPT !.hv = TRUE, !.val = v]
VersionOf(e, v) == [e EXCEPT !.mv = TRUE, !.val = v]

\* An entry that gets its first value leads where it led.
LEMMA ValueEntry ==
  ASSUME NEW n \in Nat, NEW e \in Entries(n), NEW v \in Values \cup {NoValue}, e.child = Null
  PROVE  /\ FirstOf(e, v) \in Entries(n) /\ Go(FirstOf(e, v)) = Go(e)
         /\ FirstOf(e, v).hv /\ FirstOf(e, v).val = v
         /\ LegacyOf(e, v) \in Entries(n) /\ Go(LegacyOf(e, v)) = Go(e)
         /\ LegacyOf(e, v).hv /\ LegacyOf(e, v).val = v
BY DEF Entries, Go, Null, FirstOf, LegacyOf

\* So does one that gets another version, or a tombstone.
LEMMA VersionEntry ==
  ASSUME NEW n \in Nat, NEW e \in Entries(n), NEW v \in Values \cup {NoValue}, e.hv
  PROVE  /\ VersionOf(e, v) \in Entries(n) /\ Go(VersionOf(e, v)) = Go(e)
         /\ VersionOf(e, v).hv /\ VersionOf(e, v).val = v
BY DEF Entries, Go, Null, VersionOf

\* So does one whose child moves to trie_child.
LEMMA SavedEntry ==
  ASSUME NEW n \in Nat, NEW e \in Entries(n), ~e.hv, e.child # Null
  PROVE  /\ [e EXCEPT !.trie_child = e.child, !.child = Null] \in Entries(n)
         /\ Go([e EXCEPT !.trie_child = e.child, !.child = Null]) = Go(e)
         /\ ~[e EXCEPT !.trie_child = e.child, !.child = Null].hv
         /\ [e EXCEPT !.trie_child = e.child, !.child = Null].child = Null
         /\ [e EXCEPT !.trie_child = e.child, !.child = Null].val = e.val
BY DEF Entries, Go, Null

\* An entry that led nowhere leads to the new child, and has the value it had.
LEMMA LinkEntry ==
  ASSUME NEW n \in Nat \ {0}, NEW e \in Entries(n), Below(e) = Null, Go(e) = Null
  PROVE  /\ WithBelow(e, n + 1) \in Entries(n + 1)
         /\ Go(WithBelow(e, n + 1)) = n + 1
         /\ WithBelow(e, n + 1).val = e.val
         /\ ~WithBelow(e, n + 1).hv => WithBelow(e, n + 1).trie_child = Null
BY DEF Entries, Go, Null, Below, WithBelow

\* NewValue stores the caller's value.
LEMMA NewValueWrites ==
  ASSUME InMemory, TrieInv, NEW t \in Threads, NewValue(t)
  PROVE  \E e : Writes(t, e) /\ e.hv /\ e.val = Job(t).val
<1> DEFINE e == LegacyOf(NoEntry, Job(t).val)
<1>1. /\ pc[t] = "at" /\ Entry(t) = NoEntry /\ used' = used
      /\ ent' = Put(ent, cur[t], Chunk(t), e)
  BY DEF NewValue, SetEntry, Put, Present, LegacyOf
<1>2. Types /\ Walkers /\ Active(t)
  BY <1>1 DEF TrieInv, Active
<1>3. Entry(t) \in Entries(used) /\ used \in Nat /\ Job(t).val \in Values \cup {NoValue}
  <2>1. Heap(ent, used)
    BY <1>2 DEF Types
  <2> QED  BY <2>1, <1>2, AtNode, HeapNodes, JobIs
<1>4. NoEntry \in Entries(used) /\ NoEntry.child = Null
  BY <1>1, <1>3 DEF NoEntry
<1>5. e \in Entries(used) /\ Go(e) = Go(NoEntry) /\ e.hv /\ e.val = Job(t).val
  BY <1>3, <1>4, ValueEntry
<1> HIDE DEF e
<1> QED  BY <1>1, <1>5 DEF Writes

\* FirstValue stores the caller's value.
LEMMA FirstValueWrites ==
  ASSUME InMemory, TrieInv, NEW t \in Threads, FirstValue(t)
  PROVE  \E e : Writes(t, e) /\ e.hv /\ e.val = Job(t).val
<1> DEFINE E == Entry(t)
           v == Job(t).val
           e == FirstOf(E, v)
<1>1. /\ pc[t] = "first" /\ used' = used
      /\ ent' = Put(ent, cur[t], Chunk(t), e)
  BY DEF FirstValue, SetEntry, Put, FirstOf
<1>2. Types /\ Walkers /\ Active(t) /\ E.child = Null
  BY <1>1 DEF TrieInv, Active, Firsts
<1>3. E \in Entries(used) /\ used \in Nat /\ v \in Values \cup {NoValue}
  <2>1. Heap(ent, used)
    BY <1>2 DEF Types
  <2> QED  BY <2>1, <1>2, AtNode, HeapNodes, JobIs
<1>4. e \in Entries(used) /\ Go(e) = Go(E) /\ e.hv /\ e.val = v
  <2> HIDE DEF E, v
  <2> QED  BY <1>2, <1>3, ValueEntry
<1> HIDE DEF e
<1> QED  BY <1>1, <1>4 DEF Writes

\* AddVersion stores the caller's value.
LEMMA AddVersionWrites ==
  ASSUME InMemory, TrieInv, NEW t \in Threads, AddVersion(t)
  PROVE  \E e : Writes(t, e) /\ e.hv /\ e.val = Job(t).val
<1> DEFINE E == Entry(t)
           v == Job(t).val
           e == VersionOf(E, v)
<1>1. /\ pc[t] = "at" /\ used' = used /\ E.hv
      /\ ent' = Put(ent, cur[t], Chunk(t), e)
  BY DEF AddVersion, SetEntry, Put, VersionOf
<1>2. Types /\ Walkers /\ Active(t)
  BY <1>1 DEF TrieInv, Active
<1>3. E \in Entries(used) /\ used \in Nat /\ v \in Values \cup {NoValue}
  <2>1. Heap(ent, used)
    BY <1>2 DEF Types
  <2> QED  BY <2>1, <1>2, AtNode, HeapNodes, JobIs
<1>4. e \in Entries(used) /\ Go(e) = Go(E) /\ e.hv /\ e.val = v
  <2> HIDE DEF E, v
  <2> QED  BY <1>1, <1>3, VersionEntry
<1> HIDE DEF e
<1> QED  BY <1>1, <1>4 DEF Writes

\* AddTombstone takes the value away, where there is one.
LEMMA AddTombstoneWrites ==
  ASSUME InMemory, TrieInv, NEW t \in Threads, AddTombstone(t)
  PROVE  \/ ~Entry(t).hv /\ ent' = ent /\ used' = used
         \/ \E e : Writes(t, e) /\ e.hv /\ e.val = NoValue
<1> DEFINE E == Entry(t)
           v == NoValue
           e == VersionOf(E, v)
<1>1. pc[t] = "at" /\ used' = used
  BY DEF AddTombstone
<1>2. Types /\ Walkers /\ Active(t)
  BY <1>1 DEF TrieInv, Active
<1>3. E \in Entries(used) /\ used \in Nat /\ v \in Values \cup {NoValue}
  <2>1. Heap(ent, used)
    BY <1>2 DEF Types
  <2> QED  BY <2>1, <1>2, AtNode, HeapNodes
<1>4. CASE E.hv
  <2>1. ent' = Put(ent, cur[t], Chunk(t), e)
    BY <1>4 DEF AddTombstone, SetEntry, Put, VersionOf
  <2>2. e \in Entries(used) /\ Go(e) = Go(E) /\ e.hv /\ e.val = v
    <3> HIDE DEF E, v
    <3> QED  BY <1>4, <1>3, VersionEntry
  <2> HIDE DEF e
  <2> QED  BY <1>1, <2>1, <2>2 DEF Writes
<1>5. CASE ~E.hv
  BY <1>1, <1>5 DEF AddTombstone
<1> QED  BY <1>4, <1>5

\* SaveChild makes room for the value and changes none.
LEMMA SaveChildWrites ==
  ASSUME InMemory, TrieInv, NEW t \in Threads, SaveChild(t)
  PROVE  \E e : Writes(t, e) /\ ~e.hv /\ e.child = Null /\ e.val = Entry(t).val
<1> DEFINE E == Entry(t)
           e == IF E.child = Null THEN E ELSE [E EXCEPT !.trie_child = E.child, !.child = Null]
<1>1. /\ pc[t] = "at" /\ used' = used /\ ~E.hv
      /\ ent' = Put(ent, cur[t], Chunk(t), e)
  BY DEF SaveChild, SetEntry, Put
<1>2. Types /\ Walkers /\ Active(t)
  BY <1>1 DEF TrieInv, Active
<1>3. E \in Entries(used) /\ used \in Nat
  <2>1. Heap(ent, used)
    BY <1>2 DEF Types
  <2> QED  BY <2>1, <1>2, AtNode, HeapNodes
<1>4. e \in Entries(used) /\ Go(e) = Go(E) /\ ~e.hv /\ e.child = Null /\ e.val = E.val
  <2> HIDE DEF E
  <2>1. CASE E.child = Null
    BY <2>1, <1>1, <1>3
  <2>2. CASE E.child # Null
    BY <2>2, <1>1, <1>3, SavedEntry
  <2> QED  BY <2>1, <2>2
<1> HIDE DEF e
<1> QED  BY <1>1, <1>4 DEF Writes

\* NewChild adds a node.
LEMMA NewChildExtends ==
  ASSUME InMemory, TrieInv, NEW t \in Threads, NewChild(t)
  PROVE  \E e : Extends(t, e)
<1> DEFINE E == Entry(t)
           e == WithBelow(E, used + 1)
<1>1. /\ pc[t] = "at" /\ ~AtEnd(t) /\ used' = used + 1 /\ Below(E) = Null /\ used < MaxNode
      /\ ent' = Child(ent, used + 1, cur[t], Chunk(t), e)
  BY DEF NewChild, MakeChild, Child
<1>2. Types /\ Walkers /\ Active(t)
  BY <1>1 DEF TrieInv, Active
<1>3. E \in Entries(used) /\ used \in Nat \ {0}
  <2>1. Heap(ent, used)
    BY <1>2 DEF Types
  <2> QED  BY <2>1, <1>2, AtNode, HeapNodes
<1>4. Go(E) = Null
  BY <1>1, BelowIsGo
<1>5. used + 1 \in Nodes
  BY <1>1, <1>3, TrieAssumption DEF Nodes
<1>6. /\ e \in Entries(used + 1) /\ Go(e) = used + 1 /\ e.val = E.val
      /\ ~e.hv => e.trie_child = Null
  <2> HIDE DEF E
  <2> QED  BY <1>1, <1>3, <1>4, LinkEntry
<1> HIDE DEF e
<1> QED  BY <1>1, <1>4, <1>5, <1>6 DEF Extends

\* Every step is one of the three kinds.
LEMMA StepChanges ==
  ASSUME InMemory, TrieInv, NEW t \in Threads, MemoryStep(t)
  PROVE  Change(t)
<1>1. CASE NewValue(t)
  BY <1>1, NewValueWrites DEF Change
<1>2. CASE FirstValue(t)
  BY <1>2, FirstValueWrites DEF Change
<1>3. CASE AddVersion(t)
  BY <1>3, AddVersionWrites DEF Change
<1>4. CASE AddTombstone(t)
  BY <1>4, AddTombstoneWrites DEF Change
<1>5. CASE SaveChild(t)
  BY <1>5, SaveChildWrites DEF Change
<1>6. CASE NewChild(t)
  BY <1>6, NewChildExtends DEF Change
<1>7. CASE \/ StartWrite(t) \/ Release(t) \/ NoWayOn(t) \/ Descend(t) \/ Enter(t) \/ Crab(t)
           \/ Reread(t) \/ StartFind(t) \/ ReadSeq(t) \/ FindEntry(t) \/ CompareSeq(t)
           \/ ReadFlags(t) \/ ReadValue(t) \/ ReadChild(t) \/ Validate(t)
  <2>1. ent' = ent /\ used' = used
    BY <1>7 DEF StartWrite, Release, NoWayOn, Descend, Enter, Crab, Reread,
         HandOver, Onward, StartFind, ReadSeq, FindEntry, CompareSeq, ReadFlags, ReadValue,
         ReadChild, Validate, heap
  <2> QED  BY <2>1 DEF Change
<1> QED  BY <1>1, <1>2, <1>3, <1>4, <1>5, <1>6, <1>7 DEF MemoryStep

\* The trie after a step.
LEMMA HeapStep ==
  ASSUME InMemory, TrieInv, NEW t \in Threads, Change(t)
  PROVE  /\ Heap(ent', used') /\ Grows(ent, ent') /\ used \in 1 .. used'
         /\ \A n \in Nodes : n # cur[t] /\ n # used + 1 => ent'[n] = ent[n]
         /\ Active(t) => \A c \in Chunks : c # Chunk(t) => ent'[cur[t]][c] = ent[cur[t]][c]
<1>1. Types /\ Walkers /\ Heap(ent, used)
  BY DEF TrieInv, Types
<1>2. used \in Nat \ {0}
  BY <1>1, HeapNodes
<1>3. CASE ent' = ent /\ used' = used
  BY <1>1, <1>2, <1>3 DEF Grows
<1>4. ASSUME NEW e, Writes(t, e)
      PROVE  /\ Heap(ent', used') /\ Grows(ent, ent') /\ used \in 1 .. used'
             /\ \A n \in Nodes : n # cur[t] /\ n # used + 1 => ent'[n] = ent[n]
             /\ \A c \in Chunks : c # Chunk(t) => ent'[cur[t]][c] = ent[cur[t]][c]
  <2>1. /\ Active(t) /\ used' = used /\ e \in Entries(used) /\ Go(e) = Go(Entry(t))
        /\ ent' = Put(ent, cur[t], Chunk(t), e)
    BY <1>4 DEF Writes, Active
  <2>2. cur[t] \in 1 .. used /\ Chunk(t) \in Chunks /\ Go(e) = Kid(ent, cur[t], Chunk(t))
    BY <2>1, <1>1, AtNode
  <2>3. Heap(ent', used) /\ SameKids(ent, ent')
    BY <2>1, <2>2, <1>1, PutHeap
  <2>4. /\ \A n \in Nodes : n # cur[t] => ent'[n] = ent[n]
        /\ \A c \in Chunks : c # Chunk(t) => ent'[cur[t]][c] = ent[cur[t]][c]
    BY <2>1, <2>2, <1>1, PutAt
  <2>5. Grows(ent, ent')
    BY <2>3 DEF Grows, SameKids
  <2> QED  BY <2>1, <2>3, <2>4, <2>5, <1>2
<1>5. ASSUME NEW e, Extends(t, e)
      PROVE  /\ Heap(ent', used') /\ Grows(ent, ent') /\ used \in 1 .. used'
             /\ \A n \in Nodes : n # cur[t] /\ n # used + 1 => ent'[n] = ent[n]
             /\ \A c \in Chunks : c # Chunk(t) => ent'[cur[t]][c] = ent[cur[t]][c]
  <2>1. /\ Active(t) /\ used' = used + 1 /\ used + 1 \in Nodes /\ e \in Entries(used + 1)
        /\ Go(e) = used + 1 /\ Go(Entry(t)) = Null
        /\ ent' = Child(ent, used + 1, cur[t], Chunk(t), e)
    BY <1>5 DEF Extends, Active
  <2>2. cur[t] \in 1 .. used /\ Chunk(t) \in Chunks /\ Kid(ent, cur[t], Chunk(t)) = Null
    BY <2>1, <1>1, AtNode
  <2>3. Heap(ent', used + 1) /\ Grows(ent, ent')
    BY <2>1, <2>2, <1>1, ChildHeap
  <2>4. /\ \A n \in Nodes : n # cur[t] /\ n # used + 1 => ent'[n] = ent[n]
        /\ \A c \in Chunks : c # Chunk(t) => ent'[cur[t]][c] = ent[cur[t]][c]
    BY <2>1, <2>2, <1>1, ChildAt
  <2> QED  BY <2>1, <2>3, <2>4, <1>2
<1> QED  BY <1>3, <1>4, <1>5 DEF Change

-----------------------------------------------------------------------------
(* The invariant is kept *)

\* Only the thread that steps moves.
LEMMA StepFrames ==
  ASSUME Types, NEW t \in Threads, MemoryStep(t)
  PROVE  Frame(t)
<1> USE DEF Types, Frame, Goto
<1>1. CASE StartWrite(t)
  BY <1>1 DEF StartWrite
<1>2. CASE Release(t)
  BY <1>2 DEF Release
<1>3. CASE NewValue(t)
  BY <1>3 DEF NewValue
<1>4. CASE SaveChild(t)
  BY <1>4 DEF SaveChild
<1>5. CASE FirstValue(t)
  BY <1>5 DEF FirstValue
<1>6. CASE AddVersion(t)
  BY <1>6 DEF AddVersion
<1>7. CASE AddTombstone(t)
  BY <1>7 DEF AddTombstone
<1>8. CASE NewChild(t)
  BY <1>8 DEF NewChild, MakeChild
<1>9. CASE NoWayOn(t)
  BY <1>9 DEF NoWayOn, heap
<1>10. CASE Descend(t)
  BY <1>10 DEF Descend, heap
<1>11. CASE Enter(t) \/ Crab(t)
  BY <1>11 DEF Enter, Crab, HandOver
<1>12. CASE StartFind(t)
  BY <1>12 DEF StartFind, heap
<1>13. CASE ReadSeq(t)
  BY <1>13 DEF ReadSeq, heap, Retry
<1>14. CASE ReadFlags(t) \/ ReadValue(t)
  BY <1>14 DEF ReadFlags, ReadValue, heap, Return
<1>15. CASE ReadChild(t)
  BY <1>15 DEF ReadChild, heap, Return
<1>16. CASE Validate(t)
  BY <1>16 DEF Validate, heap, Retry
<1>17. CASE Reread(t)
  BY <1>17 DEF Reread, heap
<1>18. CASE FindEntry(t) \/ CompareSeq(t)
  BY <1>18 DEF FindEntry, CompareSeq, heap, Retry
<1> QED  BY <1>1, <1>2, <1>3, <1>4, <1>5, <1>6, <1>7, <1>8, <1>9, <1>10, <1>11, <1>12, <1>13,
            <1>14, <1>15, <1>16, <1>17, <1>18 DEF MemoryStep

\* The types after a step.
LEMMA TypesStep ==
  ASSUME InMemory, TrieInv, NEW t \in Threads, MemoryStep(t)
  PROVE  Types'
<1>1. Types /\ Walkers /\ Heap(ent, used) /\ freed = {} /\ ~broken
  BY DEF TrieInv, Types
<1>2. Heap(ent', used') /\ used \in 1 .. used'
  BY StepChanges, HeapStep
<1>3. freed' = {}
  BY <1>1, StepFrames DEF Types, Frame
<1>4. used \in Nat \ {0} /\ used' \in Nat \ {0} /\ Root \in Nodes
  BY <1>1, <1>2, HeapNodes
<1>5. ~broken'
  BY <1>1 DEF MemoryStep, StartWrite, Release, NewValue, SaveChild, FirstValue, AddVersion, AddTombstone,
              NewChild, NoWayOn, Descend, Enter, Crab, Reread,
         HandOver, Onward, StartFind, ReadSeq, FindEntry, CompareSeq, ReadFlags, ReadValue,
         ReadChild, Validate
<1>6. seq' \in [Nodes -> Nat]
  <2>1. seq \in [Nodes -> Nat] /\ cur[t] \in Nodes
    BY <1>1 DEF Types
  <2>2. CASE StartWrite(t)
    BY <2>1, <2>2, <1>4 DEF StartWrite
  <2>3. CASE Release(t)
    BY <2>1, <2>3 DEF Release
  <2>4. CASE Enter(t) \/ Crab(t)
    BY <2>1, <2>4 DEF Enter, Crab, HandOver
  <2>5. CASE ~StartWrite(t) /\ ~Release(t) /\ ~Enter(t) /\ ~Crab(t)
    <3>1. seq' = seq
      BY <2>5 DEF MemoryStep, NewValue, SaveChild, FirstValue, AddVersion, AddTombstone, NewChild,
              NoWayOn, Descend, Onward, Reread, StartFind, ReadSeq, FindEntry, CompareSeq,
              ReadFlags, ReadValue, ReadChild, Validate, heap
    <3> QED  BY <3>1, <2>1
  <2> QED  BY <2>2, <2>3, <2>4, <2>5
<1>7. lock' \in [Nodes -> Threads \cup {Free}]
  <2>1. lock \in [Nodes -> Threads \cup {Free}]
    BY <1>1 DEF Types
  <2>2. CASE StartWrite(t)
    BY <2>1, <2>2 DEF StartWrite
  <2>3. CASE Release(t)
    BY <2>1, <2>3 DEF Release
  <2>4. CASE Enter(t) \/ Crab(t)
    BY <2>1, <2>4 DEF Enter, Crab, HandOver
  <2>5. CASE ~StartWrite(t) /\ ~Release(t) /\ ~Enter(t) /\ ~Crab(t)
    <3>1. lock' = lock
      BY <2>5 DEF MemoryStep, NewValue, SaveChild, FirstValue, AddVersion, AddTombstone, NewChild,
              NoWayOn, Descend, Onward, Reread, StartFind, ReadSeq, FindEntry, CompareSeq,
              ReadFlags, ReadValue, ReadChild, Validate, heap
    <3> QED  BY <3>1, <2>1
  <2> QED  BY <2>2, <2>3, <2>4, <2>5
<1>8. pc' \in [Threads -> Steps]
  <2>1. pc \in [Threads -> Steps]
    BY <1>1 DEF Types
  <2>2. \E p \in Steps :
          pc' = [pc EXCEPT ![t] = p]
    BY DEF MemoryStep, StartWrite, Release, NewValue, SaveChild, FirstValue, AddVersion, AddTombstone,
              NewChild, NoWayOn, Descend, Enter, Crab, Reread,
         HandOver, Onward, StartFind, ReadSeq, FindEntry, CompareSeq, ReadFlags, ReadValue,
         ReadChild, Validate,
         Goto, Retry, Return
  <2> QED  BY <2>1, <2>2
<1>9. nxt' \in [Threads -> 0 .. used']
  <2>1. nxt \in [Threads -> 0 .. used] /\ 0 .. used \subseteq 0 .. used'
    BY <1>1, <1>2, <1>4 DEF Types
  <2>2. CASE NewChild(t)
    <3>1. nxt' = [nxt EXCEPT ![t] = used + 1] /\ used' = used + 1
      BY <2>2 DEF NewChild, MakeChild
    <3> QED  BY <3>1, <2>1, <1>4
  <2>3. CASE Descend(t) \/ ReadChild(t)
    <3>1. Active(t)
      BY <2>3 DEF Active, Descend, ReadChild
    <3>2. Entry(t) \in Entries(used)
      BY <3>1, <1>1, AtNode
    <3>3. Below(Entry(t)) \in 0 .. used
      BY <3>2 DEF Entries, Below
    <3>4. nxt' = nxt \/ nxt' = [nxt EXCEPT ![t] = Below(Entry(t))]
      BY <2>3 DEF Descend, ReadChild
    <3> QED  BY <3>3, <3>4, <2>1
  <2>4. CASE ~NewChild(t) /\ ~Descend(t) /\ ~ReadChild(t)
    <3>1. nxt' = nxt
      BY <2>4 DEF MemoryStep, StartWrite, Release, NewValue, SaveChild, FirstValue, AddVersion, AddTombstone,
              NoWayOn, Enter, Crab, Reread, StartFind, ReadSeq, FindEntry, CompareSeq, ReadFlags,
              ReadValue, Validate
    <3> QED  BY <3>1, <2>1
  <2> QED  BY <2>2, <2>3, <2>4
<1>10. cur' \in [Threads -> Nodes]
  <2>1. cur \in [Threads -> Nodes]
    BY <1>1 DEF Types
  <2>2. CASE Enter(t) \/ Reread(t) \/ Validate(t)
    <3>1. nxt[t] # Null /\ nxt[t] \in 0 .. used
      BY <2>2, <1>1 DEF Enter, Reread, Validate, Walkers, Types
    <3>2. nxt[t] \in Nodes
      BY <3>1, <1>1, HeapNodes
    <3>3. cur' = [cur EXCEPT ![t] = nxt[t]] \/ cur' = [cur EXCEPT ![t] = Root]
      BY <2>2 DEF Enter, Reread, Validate, Retry
    <3> QED  BY <3>2, <3>3, <2>1, <1>4
  <2>3. CASE ~Enter(t) /\ ~Reread(t) /\ ~Validate(t)
    <3>1. cur' = cur \/ cur' = [cur EXCEPT ![t] = Root]
      BY <2>3 DEF MemoryStep, StartWrite, Release, NewValue, SaveChild, FirstValue, AddVersion, AddTombstone,
              NewChild, NoWayOn, Descend, Crab, StartFind, ReadSeq, FindEntry, CompareSeq, ReadFlags,
              ReadValue, ReadChild, Retry
    <3> QED  BY <3>1, <2>1, <1>4
  <2> QED  BY <2>2, <2>3
<1>11. pos' \in [Threads -> Nat]
  <2>1. pos \in [Threads -> Nat]
    BY <1>1 DEF Types
  <2>2. pos' = pos \/ pos' = [pos EXCEPT ![t] = 1] \/ pos' = [pos EXCEPT ![t] = @ + 1]
    BY DEF MemoryStep, StartWrite, Release, NewValue, SaveChild, FirstValue, AddVersion, AddTombstone,
              NewChild, NoWayOn, Descend, Enter, Crab, Reread,
         HandOver, Onward, StartFind, ReadSeq, FindEntry, CompareSeq, ReadFlags, ReadValue,
         ReadChild, Validate, Retry
  <2> QED  BY <2>1, <2>2
<1>12. seen' \in [Threads -> Nat]
  <2>1. seen \in [Threads -> Nat] /\ seq[cur[t]] \in Nat
    BY <1>1 DEF Types
  <2>2. seen' = seen \/ seen' = [seen EXCEPT ![t] = seq[cur[t]]]
    BY DEF MemoryStep, StartWrite, Release, NewValue, SaveChild, FirstValue, AddVersion, AddTombstone,
              NewChild, NoWayOn, Descend, Enter, Crab, Reread,
         HandOver, Onward, StartFind, ReadSeq, FindEntry, CompareSeq, ReadFlags, ReadValue,
         ReadChild, Validate
  <2> QED  BY <2>1, <2>2
<1>13. got' \in [Threads -> Values \cup {NoValue}]
  <2>1. got \in [Threads -> Values \cup {NoValue}]
    BY <1>1 DEF Types
  <2>2. CASE ReadValue(t)
    <3>1. Active(t)
      BY <2>2 DEF Active, ReadValue
    <3>2. Entry(t).val \in Values \cup {NoValue}
      BY <3>1, <1>1, AtNode DEF Entries
    <3>3. got' = got \/ got' = [got EXCEPT ![t] = Entry(t).val]
      BY <2>2 DEF ReadValue, Return
    <3> QED  BY <2>1, <3>2, <3>3
  <2>3. CASE ~ReadValue(t)
    <3>1. got' = got \/ got' = [got EXCEPT ![t] = NoValue]
      BY <2>3 DEF MemoryStep, StartWrite, Release, NewValue, SaveChild, FirstValue, AddVersion, AddTombstone,
              NewChild, NoWayOn, Descend, Enter, Crab, Reread, StartFind, ReadSeq, FindEntry,
              CompareSeq, ReadFlags, ReadChild, Validate, Return
    <3> QED  BY <2>1, <3>1
  <2> QED  BY <2>2, <2>3
<1>14. held' \in [Threads -> SUBSET Chunks]
  <2>1. held \in [Threads -> SUBSET Chunks] /\ Shape(cur[t]) \in SUBSET Chunks
    BY <1>1 DEF Types, Shape
  <2>2. held' = held \/ held' = [held EXCEPT ![t] = Shape(cur[t])]
    BY DEF MemoryStep, StartWrite, Release, NewValue, SaveChild, FirstValue, AddVersion, AddTombstone,
         NewChild, NoWayOn, Descend, Enter, Crab, Reread, StartFind, ReadSeq, FindEntry, CompareSeq,
         ReadFlags, ReadValue, ReadChild, Validate
  <2> QED  BY <2>1, <2>2
<1> QED  BY <1>2, <1>3, <1>5, <1>6, <1>7, <1>8, <1>9, <1>10, <1>11, <1>12, <1>13, <1>14 DEF Types

\* The calls after a step.
LEMMA CallsStep ==
  ASSUME InMemory, TrieInv, NEW t \in Threads, MemoryStep(t)
  PROVE  Calls'
<1>1. Types /\ Calls /\ Frame(t)
  BY StepFrames DEF TrieInv
<1>2. pc \in [Threads -> Steps]
  BY <1>1 DEF Types
<1>3. \A u \in Threads : Job(u)' = Job(u) /\ (Writer(u))' = Writer(u)
  BY <1>1 DEF Frame, Job, Writer
<1>4. /\ pc'[t] \in {"at", "enter", "crab", "totrie", "tochild", "release"} => Writer(t)
      /\ pc'[t] = "first" => Job(t).op = "insert"
      /\ pc'[t] \in Finding => Job(t).op = "find"
  <2> USE <1>1, <1>2 DEF Goto, Calls, Writer
  <2>1. CASE StartWrite(t) \/ Release(t) \/ NewValue(t) \/ SaveChild(t) \/ FirstValue(t) \/ AddVersion(t)
    BY <2>1 DEF StartWrite, Release, NewValue, SaveChild, FirstValue, AddVersion
  <2>2. CASE AddTombstone(t) \/ NewChild(t) \/ NoWayOn(t) \/ Descend(t)
    BY <2>2 DEF AddTombstone, NewChild, NoWayOn, Descend, Onward
  <2>5. CASE Enter(t) \/ Crab(t) \/ Reread(t)
    BY <2>5 DEF Enter, Crab, Reread
  <2>3. CASE StartFind(t) \/ ReadSeq(t)
    BY <2>3 DEF StartFind, ReadSeq, Retry
  <2>4. CASE FindEntry(t) \/ CompareSeq(t) \/ ReadFlags(t) \/ ReadValue(t) \/ ReadChild(t) \/ Validate(t)
    BY <2>4 DEF FindEntry, CompareSeq, ReadFlags, ReadValue, ReadChild, Validate, Retry, Return
  <2> QED  BY <2>1, <2>2, <2>3, <2>4, <2>5 DEF MemoryStep
<1>5. ASSUME NEW u \in Threads
      PROVE  /\ pc'[u] \in {"at", "enter", "crab", "totrie", "tochild", "release"} => Writer(u)'
             /\ pc'[u] = "first" => Job(u)'.op = "insert"
             /\ pc'[u] \in Finding => Job(u)'.op = "find"
  <2>1. CASE u = t
    BY <2>1, <1>3, <1>4
  <2>2. CASE u # t
    BY <2>2, <1>1, <1>3 DEF Calls, Frame
  <2> QED  BY <2>1, <2>2
<1> QED  BY <1>5 DEF Calls

\* A reader that has lost its way, or anybody at the start, is at the root.
LEMMA AtRoot ==
  ASSUME NEW en, NEW k \in Keys
  PROVE  1 \in 1 .. Len(k) /\ Root = Walk(en, k)[1]
BY KeyIs, WalkIs

\* The walks after a step.
LEMMA WalkersStep ==
  ASSUME InMemory, TrieInv, NEW t \in Threads, MemoryStep(t)
  PROVE  Walkers'
<1>1. Types /\ Walkers /\ Frame(t) /\ Heap(ent, used)
  BY StepFrames DEF TrieInv, Types
<1>2. Heap(ent', used') /\ Grows(ent, ent')
  BY StepChanges, HeapStep
<1>3. \A u \in Threads : Key(u)' = Key(u) /\ Key(u) \in Keys
  BY <1>1, JobIs DEF Frame, Key, Job
\* Where somebody is, and where he goes, the walk still leads.
<1>4. ASSUME NEW u \in Threads, Active(u)
      PROVE  /\ pos[u] \in 1 .. Len(Key(u)) /\ cur[u] = Walk(ent', Key(u))[pos[u]]
             /\ \A i \in 1 .. Len(Key(u)) :
                  Walk(ent, Key(u))[i] # Null => Walk(ent', Key(u))[i] = Walk(ent, Key(u))[i]
  <2>1. pos[u] \in 1 .. Len(Key(u)) /\ cur[u] = Walk(ent, Key(u))[pos[u]] /\ cur[u] \in 1 .. used
    BY <1>1, <1>4, AtNode
  <2>2. cur[u] # Null
    BY <2>1 DEF Null
  <2>3. \A i \in 1 .. Len(Key(u)) :
          Walk(ent, Key(u))[i] # Null => Walk(ent', Key(u))[i] = Walk(ent, Key(u))[i]
    BY <1>1, <1>2, <1>3, WalkGrows
  <2> QED  BY <2>1, <2>2, <2>3
<1>5. ASSUME NEW u \in Threads, u # t
      PROVE  /\ Active(u)' => pos'[u] \in 1 .. Len(Key(u)) /\ cur'[u] = Walk(ent', Key(u))[pos'[u]]
             /\ pc'[u] \in Leaving =>
                  /\ pos'[u] # Len(Key(u)) /\ nxt'[u] # Null
                  /\ nxt'[u] = Walk(ent', Key(u))[pos'[u] + 1]
  <2>1. /\ pc'[u] = pc[u] /\ cur'[u] = cur[u] /\ pos'[u] = pos[u] /\ nxt'[u] = nxt[u]
        /\ Active(u)' = Active(u)
    BY <1>1, <1>5 DEF Frame, Active
  <2>2. Active(u) => pos'[u] \in 1 .. Len(Key(u)) /\ cur'[u] = Walk(ent', Key(u))[pos'[u]]
    BY <2>1, <1>4
  <2>3. ASSUME pc[u] \in Leaving
        PROVE  pos[u] # Len(Key(u)) /\ nxt[u] # Null /\ nxt[u] = Walk(ent', Key(u))[pos[u] + 1]
    <3>1. Active(u) /\ pos[u] # Len(Key(u)) /\ nxt[u] # Null /\ nxt[u] = Walk(ent, Key(u))[pos[u] + 1]
      BY <2>3, <1>1 DEF Active, Walkers
    <3>2. pos[u] + 1 \in 1 .. Len(Key(u))
      BY <3>1, <1>1, AtNode DEF AtEnd
    <3> QED  BY <3>1, <3>2, <1>4
  <2> QED  BY <2>1, <2>2, <2>3
<1>6. /\ pc \in [Threads -> Steps]
      /\ cur \in [Threads -> Nodes] /\ pos \in [Threads -> Nat] /\ nxt \in [Threads -> 0 .. used]
  BY <1>1 DEF Types
<1> DEFINE k == Key(t)
           Here == Active(t)' => pos'[t] \in 1 .. Len(k) /\ cur'[t] = Walk(ent', k)[pos'[t]]
           There == pc'[t] \in Leaving =>
                      /\ pos'[t] # Len(k) /\ nxt'[t] # Null
                      /\ nxt'[t] = Walk(ent', k)[pos'[t] + 1]
<1>7. k \in Keys /\ Len(k) \in Nat \ {0} /\ 1 \in 1 .. Len(k) /\ Root = Walk(ent', k)[1]
  BY <1>3, KeyIs, AtRoot
<1>8. ASSUME Active(t) PROVE pos[t] \in 1 .. Len(k) /\ cur[t] = Walk(ent', k)[pos[t]]
  BY <1>8, <1>4
<1>9. Here /\ There
  <2>1. CASE StartWrite(t)
    <3>1. pc'[t] = "at" /\ pos'[t] = 1 /\ cur'[t] = Root
      BY <2>1, <1>6 DEF StartWrite, Goto
    <3> HIDE DEF k
    <3> QED  BY <3>1, <1>7
  <2>2. CASE StartFind(t)
    <3>1. pc'[t] = "seq" /\ pos'[t] = 1 /\ cur'[t] = Root
      BY <2>2, <1>6 DEF StartFind, Goto
    <3> HIDE DEF k
    <3> QED  BY <3>1, <1>7
  <2>3. CASE \/ Release(t) \/ NewValue(t) \/ SaveChild(t) \/ FirstValue(t) \/ AddVersion(t) \/ AddTombstone(t)
             \/ NoWayOn(t)
    <3>1. Active(t) /\ pc'[t] \in {"done", "release", "first"} /\ pos' = pos /\ cur' = cur
      BY <2>3, <1>6 DEF Release, NewValue, SaveChild, FirstValue, AddVersion, AddTombstone,
                             NoWayOn, Goto, Active
    <3> HIDE DEF k
    <3> QED  BY <3>1, <1>8
  <2>4. CASE ReadSeq(t) \/ FindEntry(t) \/ CompareSeq(t) \/ ReadFlags(t) \/ ReadValue(t)
    <3>1. /\ Active(t) /\ pc'[t] \in {"seq", "look", "compare", "flags", "chain", "single", "done"}
          /\ (pos' = pos /\ cur' = cur) \/ (pos'[t] = 1 /\ cur'[t] = Root)
      BY <2>4, <1>6 DEF ReadSeq, FindEntry, CompareSeq, ReadFlags, ReadValue, Goto, Retry, Return, Active
    <3> HIDE DEF k
    <3> QED  BY <3>1, <1>7, <1>8
  <2>5. CASE Descend(t) \/ ReadChild(t)
    <3>1. Active(t) /\ pos' = pos /\ cur' = cur /\ ~AtEnd(t)
      BY <2>5 DEF Descend, ReadChild, Active
    <3>2. pc'[t] = "done" \/ (nxt'[t] = Below(Entry(t)) /\ Below(Entry(t)) # Null)
      BY <2>5, <1>6 DEF Descend, ReadChild, Return, Goto
    <3>3. /\ pos[t] + 1 \in 1 .. Len(k) /\ Walk(ent, k)[pos[t] + 1] = Go(Entry(t))
          /\ Entry(t) \in Entries(used)
      BY <3>1, <1>1, AtNode
    <3>4. Below(Entry(t)) # Null => Below(Entry(t)) = Go(Entry(t))
      BY <3>3 DEF Below, Go, Entries
    <3>5. Below(Entry(t)) # Null => Walk(ent', k)[pos[t] + 1] = Below(Entry(t))
      BY <3>1, <3>3, <3>4, <1>4
    <3>6. Here
      BY <3>1, <1>8
    <3>7. There
      BY <3>1, <3>2, <3>5 DEF AtEnd
    <3> QED  BY <3>6, <3>7
  <2>6. CASE NewChild(t)
    <3>1. Active(t) /\ pos' = pos /\ cur' = cur /\ ~AtEnd(t) /\ nxt'[t] = used + 1
      BY <2>6, <1>6 DEF NewChild, MakeChild, Active
    <3>2. PICK e : Extends(t, e)
      BY <2>6, NewChildExtends
    <3>3. /\ pos[t] + 1 \in 1 .. Len(k) /\ pos[t] \in 1 .. Len(k) 
          /\ cur[t] \in 1 .. used /\ Chunk(t) \in Chunks
          /\ Kid(ent, cur[t], Chunk(t)) = Go(Entry(t)) /\ Chunk(t) = k[pos[t]]
      BY <3>1, <1>1, AtNode DEF Chunk
    <3>4. Kid(ent', cur[t], Chunk(t)) = used + 1
      BY <3>2, <3>3, <1>1, ChildHeap DEF Extends
    <3>5. used + 1 # Null /\ cur[t] # Null
      BY <3>3, <1>1, HeapNodes DEF Null
    <3>6. Walk(ent', k)[pos[t] + 1] = used + 1
      <4>1. pos[t] \in 1 .. Len(k) - 1
        BY <3>3, <1>7
      <4>2. cur[t] = Walk(ent', k)[pos[t]]
        BY <3>1, <1>8
      <4> QED  BY <4>1, <4>2, <3>3, <3>4, <3>5, <1>7, WalkIs
    <3>7. Here
      BY <3>1, <1>8
    <3>8. There
      BY <3>1, <3>5, <3>6 DEF AtEnd
    <3> QED  BY <3>7, <3>8
  <2>8. CASE Crab(t)
    <3>1. Active(t) /\ pc[t] \in Leaving /\ pos' = pos /\ cur' = cur /\ nxt' = nxt
      BY <2>8 DEF Crab, Active
    <3>2. pos[t] # Len(k) /\ nxt[t] # Null /\ nxt[t] = Walk(ent, k)[pos[t] + 1]
      BY <3>1, <1>1 DEF Walkers
    <3>3. pos[t] + 1 \in 1 .. Len(k)
      BY <3>1, <3>2, <1>1, AtNode DEF AtEnd
    <3>4. nxt[t] = Walk(ent', k)[pos[t] + 1]
      BY <3>1, <3>2, <3>3, <1>4
    <3> HIDE DEF k
    <3> QED  BY <3>1, <3>2, <3>3, <3>4, <1>8
  <2>7. CASE Enter(t) \/ Reread(t) \/ Validate(t)
    <3>1. /\ Active(t) /\ pc[t] \in Leaving /\ pc'[t] \in {"at", "seq"}
          /\ (pos'[t] = pos[t] + 1 /\ cur'[t] = nxt[t]) \/ (pos'[t] = 1 /\ cur'[t] = Root)
      BY <2>7, <1>6 DEF Enter, Reread, Validate, Goto, Retry, Active
    <3>2. pos[t] # Len(k) /\ nxt[t] # Null /\ nxt[t] = Walk(ent, k)[pos[t] + 1]
      BY <3>1, <1>1 DEF Walkers
    <3>3. pos[t] + 1 \in 1 .. Len(k)
      BY <3>1, <3>2, <1>1, AtNode DEF AtEnd
    <3>4. nxt[t] = Walk(ent', k)[pos[t] + 1]
      BY <3>1, <3>2, <3>3, <1>4
    <3> HIDE DEF k
    <3> QED  BY <3>1, <3>3, <3>4, <1>7
  <2> QED  BY <2>1, <2>2, <2>3, <2>4, <2>5, <2>6, <2>7, <2>8 DEF MemoryStep
<1>10. ASSUME NEW u \in Threads
       PROVE  /\ Active(u)' => pos'[u] \in 1 .. Len(Key(u)) /\ cur'[u] = Walk(ent', Key(u))[pos'[u]]
              /\ pc'[u] \in Leaving =>
                   /\ pos'[u] # Len(Key(u)) /\ nxt'[u] # Null
                   /\ nxt'[u] = Walk(ent', Key(u))[pos'[u] + 1]
  <2>1. CASE u = t
    BY <2>1, <1>9
  <2>2. CASE u # t
    BY <2>2, <1>5
  <2> QED  BY <2>1, <2>2
<1> QED  BY <1>3, <1>10 DEF Walkers

\* One more makes odd of even and even of odd.
LEMMA Parity ==
  ASSUME NEW x \in Nat
  PROVE  ((x + 1) % 2 = 1) <=> ~(x % 2 = 1)
OBVIOUS

\* The node that a thread goes to is another one.
LEMMA GoesOn ==
  ASSUME InMemory, TrieInv, NEW t \in Threads, pc[t] \in Leaving
  PROVE  nxt[t] \in Nodes /\ nxt[t] # cur[t]
<1>1. Types /\ Walkers /\ Active(t) /\ Heap(ent, used)
  BY DEF TrieInv, Types, Active
<1>2. pos[t] # Len(Key(t)) /\ nxt[t] # Null /\ nxt[t] = Walk(ent, Key(t))[pos[t] + 1] /\ nxt[t] \in 0 .. used
  BY <1>1 DEF Walkers, Types
<1>3. /\ Key(t) \in Keys /\ pos[t] \in 1 .. Len(Key(t)) /\ pos[t] + 1 \in 1 .. Len(Key(t))
      /\ cur[t] = Walk(ent, Key(t))[pos[t]]
  BY <1>1, <1>2, AtNode DEF AtEnd
<1>4. nxt[t] \in Nodes
  BY <1>1, <1>2, HeapNodes
<1>5. ASSUME nxt[t] = cur[t] PROVE FALSE
  <2>1. \A i, j \in 1 .. Len(Key(t)) :
          Walk(ent, Key(t))[i] # Null /\ Walk(ent, Key(t))[i] = Walk(ent, Key(t))[j] => i = j
    BY <1>1, <1>3, OneWay
  <2>2. pos[t] + 1 = pos[t]
    BY <2>1, <1>2, <1>3, <1>5
  <2> QED  BY <2>2, <1>3
<1> QED  BY <1>4, <1>5

\* The locks after a step.
LEMMA LocksStep ==
  ASSUME InMemory, TrieInv, NEW t \in Threads, MemoryStep(t)
  PROVE  LockDiscipline'
<1>1. Types /\ Frame(t) /\ LockDiscipline
  BY StepFrames DEF TrieInv
<1>2. /\ pc \in [Threads -> Steps] /\ nxt \in [Threads -> 0 .. used]
      /\ cur \in [Threads -> Nodes] /\ seq \in [Nodes -> Nat] /\ lock \in [Nodes -> Threads \cup {Free}]
      /\ Root \in Nodes
  <2>1. Heap(ent, used)
    BY <1>1 DEF Types
  <2>2. Root \in Nodes
    BY <2>1, HeapNodes
  <2> QED  BY <1>1, <2>2 DEF Types
<1>3. /\ \A n \in Nodes : (seq[n] % 2 = 1) <=> (lock[n] # Free)
      /\ \A u \in Threads : pc[u] \in Locking => lock[cur[u]] = u
      /\ \A u \in Threads : pc[u] \in Rereading => lock[nxt[u]] = u
  BY <1>1 DEF LockDiscipline
<1>4. \A u \in Threads : u # Free
  BY TrieAssumption
<1>5. \A u \in Threads : u # t => pc'[u] = pc[u] /\ cur'[u] = cur[u] /\ nxt'[u] = nxt[u]
  BY <1>1 DEF Frame
<1>6. \A u \in Threads : pc[u] \in Rereading => nxt[u] \in Nodes
  BY GoesOn
\* What is left to show: the others keep their locks, and the thread has the lock it should.
<1> DEFINE Even == \A n \in Nodes : (seq'[n] % 2 = 1) <=> (lock'[n] # Free)
           Kept == \A n \in Nodes, u \in Threads : u # t /\ lock[n] = u => lock'[n] = u
           Own == /\ pc'[t] \in Locking => lock'[cur'[t]] = t
                  /\ pc'[t] \in Rereading => lock'[nxt'[t]] = t
<1>7. ASSUME Even, Kept, Own PROVE LockDiscipline'
  <2>1. ASSUME NEW u \in Threads PROVE /\ pc'[u] \in Locking => lock'[cur'[u]] = u
                                       /\ pc'[u] \in Rereading => lock'[nxt'[u]] = u
    <3>1. CASE u = t
      BY <3>1, <1>7
    <3>2. CASE u # t
      <4>1. pc[u] \in Locking => lock'[cur[u]] = u
        BY <3>2, <1>2, <1>3, <1>7
      <4>2. pc[u] \in Rereading => lock'[nxt[u]] = u
        BY <3>2, <1>3, <1>6, <1>7
      <4> QED  BY <4>1, <4>2, <3>2, <1>5
    <3> QED  BY <3>1, <3>2
  <2> QED  BY <2>1, <1>7 DEF LockDiscipline
<1>8. CASE StartWrite(t)
  <2>1. /\ lock[Root] = Free /\ lock' = [lock EXCEPT ![Root] = t] /\ seq' = [seq EXCEPT ![Root] = @ + 1]
        /\ cur'[t] = Root /\ pc'[t] = "at"
    BY <1>8, <1>2 DEF StartWrite, Goto
  <2>2. ASSUME NEW n \in Nodes PROVE (seq'[n] % 2 = 1) <=> (lock'[n] # Free)
    <3>1. CASE n = Root
      <4>1. seq'[n] = seq[n] + 1 /\ lock'[n] = t /\ lock[n] = Free /\ seq[n] \in Nat
        BY <3>1, <2>1, <1>2
      <4> QED  BY <4>1, <1>3, <1>4, Parity
    <3>2. CASE n # Root
      <4>1. seq'[n] = seq[n] /\ lock'[n] = lock[n]
        BY <3>2, <2>1, <1>2
      <4> QED  BY <4>1, <1>3
    <3> QED  BY <3>1, <3>2
  <2>3. Kept /\ Own
    BY <2>1, <1>2, <1>4
  <2> QED  BY <2>2, <2>3, <1>7
<1>9. CASE Release(t)
  <2>1. /\ lock[cur[t]] = t /\ lock' = [lock EXCEPT ![cur[t]] = Free] /\ pc'[t] = "done"
        /\ seq' = [seq EXCEPT ![cur[t]] = @ + 1]
    BY <1>9, <1>2, <1>3 DEF Release, Goto
  <2>2. ASSUME NEW n \in Nodes PROVE (seq'[n] % 2 = 1) <=> (lock'[n] # Free)
    <3>1. CASE n = cur[t]
      <4>1. seq'[n] = seq[n] + 1 /\ lock'[n] = Free /\ lock[n] = t /\ seq[n] \in Nat
        BY <3>1, <2>1, <1>2
      <4> QED  BY <4>1, <1>3, <1>4, Parity
    <3>2. CASE n # cur[t]
      <4>1. seq'[n] = seq[n] /\ lock'[n] = lock[n]
        BY <3>2, <2>1, <1>2
      <4> QED  BY <4>1, <1>3
    <3> QED  BY <3>1, <3>2
  <2>3. Kept /\ Own
    BY <2>1, <1>2
  <2> QED  BY <2>2, <2>3, <1>7
<1>10. CASE Enter(t) \/ Crab(t)
  <2>1. /\ pc[t] \in {"enter", "crab"} /\ lock[nxt[t]] = Free /\ lock[cur[t]] = t /\ nxt' = nxt
        /\ lock' = [lock EXCEPT ![nxt[t]] = t, ![cur[t]] = Free]
        /\ seq' = [seq EXCEPT ![nxt[t]] = @ + 1, ![cur[t]] = @ + 1]
    BY <1>10, <1>2, <1>3 DEF Enter, Crab, HandOver
  <2>2. nxt[t] \in Nodes /\ nxt[t] # cur[t] /\ cur[t] \in Nodes
    BY <2>1, <1>2, GoesOn
  <2>3. /\ lock'[nxt[t]] = t /\ lock'[cur[t]] = Free
        /\ seq'[nxt[t]] = seq[nxt[t]] + 1 /\ seq'[cur[t]] = seq[cur[t]] + 1
        /\ \A n \in Nodes : n # nxt[t] /\ n # cur[t] => lock'[n] = lock[n] /\ seq'[n] = seq[n]
    BY <2>1, <2>2, <1>2
  <2>4. ASSUME NEW n \in Nodes PROVE (seq'[n] % 2 = 1) <=> (lock'[n] # Free)
    <3>1. CASE n = cur[t]
      <4>1. seq'[n] = seq[n] + 1 /\ lock'[n] = Free /\ lock[n] = t /\ seq[n] \in Nat
        BY <3>1, <2>1, <2>3, <1>2
      <4> QED  BY <4>1, <1>3, <1>4, Parity
    <3>2. CASE n = nxt[t]
      <4>1. seq'[n] = seq[n] + 1 /\ lock'[n] = t /\ lock[n] = Free /\ seq[n] \in Nat
        BY <3>2, <2>1, <2>3, <1>2
      <4> QED  BY <4>1, <1>3, <1>4, Parity
    <3>3. CASE n # cur[t] /\ n # nxt[t]
      BY <3>3, <2>3, <1>3
    <3> QED  BY <3>1, <3>2, <3>3
  <2>5. Kept
    BY <2>1, <2>3, <1>4
  <2>6. Own
    <3>1. (pc'[t] = "at" /\ cur'[t] = nxt[t]) \/ pc'[t] \in Rereading
      BY <1>10, <1>2 DEF Enter, Crab, Goto
    <3> QED  BY <3>1, <2>1, <2>3
  <2> QED  BY <2>4, <2>5, <2>6, <1>7
<1>11. CASE Reread(t)
  <2>1. lock' = lock /\ seq' = seq
    BY <1>11 DEF Reread, heap
  <2>2. pc[t] \in Rereading /\ pc'[t] = "at" /\ cur'[t] = nxt[t]
    BY <1>11, <1>2 DEF Reread, Goto
  <2>3. Own
    BY <2>1, <2>2, <1>3
  <2> QED  BY <2>1, <2>3, <1>3, <1>7
<1>12. CASE ~StartWrite(t) /\ ~Release(t) /\ ~Enter(t) /\ ~Crab(t) /\ ~Reread(t)
  <2>1. lock' = lock /\ seq' = seq
    BY <1>12 DEF MemoryStep, NewValue, SaveChild, FirstValue, AddVersion, AddTombstone, NewChild,
              NoWayOn, Descend, StartFind, ReadSeq, FindEntry, CompareSeq,
              ReadFlags, ReadValue, ReadChild, Validate, heap
  <2>2. \/ cur' = cur /\ pc[t] \in Locking /\ pc'[t] \notin Rereading
        \/ pc'[t] \in Finding \cup {"done"}
    BY <1>2, <1>12 DEF MemoryStep, NewValue, SaveChild, FirstValue, AddVersion, AddTombstone, NewChild,
              NoWayOn, Descend, Onward, StartFind, ReadSeq, FindEntry, CompareSeq,
              ReadFlags, ReadValue, ReadChild, Validate, Goto, Retry, Return
  <2>3. Own
    BY <2>1, <2>2, <1>3
  <2> QED  BY <2>1, <2>3, <1>3, <1>7
<1> QED  BY <1>8, <1>9, <1>10, <1>11, <1>12

\* Nobody else writes in the node of a thread that has its lock.
LEMMA OthersKeep ==
  ASSUME InMemory, TrieInv, NEW t \in Threads, MemoryStep(t), NEW u \in Threads, u # t,
         pc[u] \in Locking
  PROVE  /\ ent'[cur[u]] = ent[cur[u]] /\ Entry(u)' = Entry(u) /\ Chunk(u)' = Chunk(u)
         /\ (AtEnd(u))' = AtEnd(u)
<1>1. Types /\ Walkers /\ Frame(t) /\ LockDiscipline /\ Active(u) /\ Heap(ent, used)
  BY StepFrames DEF TrieInv, Types, Active
<1>2. Change(t)
  BY StepChanges
<1>3. \A n \in Nodes : n # cur[t] /\ n # used + 1 => ent'[n] = ent[n]
  BY <1>2, HeapStep
<1>4. cur[u] \in Nodes /\ cur[u] # used + 1
  BY <1>1, AtNode, HeapNodes
<1>5. ent'[cur[u]] = ent[cur[u]]
  <2>1. CASE ent' = ent
    BY <2>1
  <2>2. CASE ent' # ent
    <3>1. pc[t] \in {"at", "first"}
      BY <2>2, <1>2 DEF Change, Writes, Extends
    <3>2. lock[cur[t]] = t /\ lock[cur[u]] = u
      BY <3>1, <1>1 DEF LockDiscipline
    <3> QED  BY <3>2, <1>3, <1>4
  <2> QED  BY <2>1, <2>2
<1>6. Chunk(u)' = Chunk(u) /\ (AtEnd(u))' = AtEnd(u) /\ cur'[u] = cur[u]
  BY <1>1 DEF Frame, Chunk, AtEnd, Key, Job
<1> QED  BY <1>5, <1>6 DEF Entry

\* The entries between SaveChild and FirstValue.
LEMMA FirstsStep ==
  ASSUME InMemory, TrieInv, NEW t \in Threads, MemoryStep(t)
  PROVE  Firsts'
<1>1. Types /\ Walkers /\ Frame(t) /\ Firsts /\ Heap(ent, used)
  BY StepFrames DEF TrieInv, Types
<1>2. pc \in [Threads -> Steps]
  BY <1>1 DEF Types
<1>3. ASSUME NEW u \in Threads, pc'[u] = "first" PROVE (AtEnd(u) /\ ~Entry(u).hv /\ Entry(u).child = Null)'
  <2>1. CASE u # t
    <3>1. pc[u] = "first"
      BY <2>1, <1>1, <1>3 DEF Frame
    <3>2. Entry(u)' = Entry(u) /\ (AtEnd(u))' = AtEnd(u)
      BY <2>1, <3>1, OthersKeep
    <3> QED  BY <3>1, <3>2, <1>1 DEF Firsts
  <2>2. CASE u = t
    <3>1. SaveChild(t)
      BY <1>2, <1>3, <2>2 DEF MemoryStep, StartWrite, Release, NewValue, FirstValue, AddVersion, AddTombstone,
         NewChild, NoWayOn, Descend, Enter, Crab, Reread,
         HandOver, Onward, StartFind, ReadSeq, FindEntry, CompareSeq, ReadFlags, ReadValue,
         ReadChild, Validate,
         Goto, Retry, Return
    <3>2. PICK e : Writes(t, e) /\ ~e.hv /\ e.child = Null
      BY <3>1, SaveChildWrites
    <3>3. pc[t] = "at" /\ AtEnd(t) /\ cur' = cur /\ pos' = pos /\ scn' = scn
      BY <3>1 DEF SaveChild
    <3>4. cur[t] \in 1 .. used /\ Chunk(t) \in Chunks
      BY <3>3, <1>1, AtNode DEF Active
    <3>5. Chunk(t)' = Chunk(t) /\ (AtEnd(t))' = AtEnd(t)
      BY <3>3 DEF Chunk, AtEnd, Key, Job
    <3>6. ent'[cur[t]][Chunk(t)] = e
      BY <3>2, <3>4, <1>1, PutAt DEF Writes
    <3>7. Entry(t)' = e
      BY <3>3, <3>5, <3>6 DEF Entry
    <3> QED  BY <3>2, <3>3, <3>5, <3>7, <2>2
  <2> QED  BY <2>1, <2>2
<1> QED  BY <1>3 DEF Firsts

\* A trie_child without a value is left only where a thread goes on to FirstValue.
LEMMA HalvesStep ==
  ASSUME InMemory, TrieInv, NEW t \in Threads, MemoryStep(t)
  PROVE  Halves'
<1>1. Types /\ Walkers /\ Frame(t) /\ Halves /\ Heap(ent, used)
  BY StepFrames DEF TrieInv, Types
<1>2. pc \in [Threads -> Steps]
  BY <1>1 DEF Types
<1>3. Change(t)
  BY StepChanges
<1>4. /\ \A n \in Nodes : n # cur[t] /\ n # used + 1 => ent'[n] = ent[n]
      /\ Active(t) => \A c \in Chunks : c # Chunk(t) => ent'[cur[t]][c] = ent[cur[t]][c]
  BY <1>3, HeapStep
<1>5. ASSUME NEW n \in Nodes, NEW c \in Chunks, ent'[n][c].trie_child # Null, ~ent'[n][c].hv
      PROVE  \E u \in Threads : pc'[u] = "first" /\ cur'[u] = n /\ Chunk(u)' = c
  \* The entry was so before, and its writer is still there.
  <2>1. CASE ent'[n][c] = ent[n][c] /\ ~(pc[t] = "first" /\ cur[t] = n /\ Chunk(t) = c)
    <3>1. PICK u \in Threads : pc[u] = "first" /\ cur[u] = n /\ Chunk(u) = c
      BY <2>1, <1>1, <1>5 DEF Halves
    <3>2. u # t
      BY <2>1, <3>1
    <3>3. pc'[u] = "first" /\ cur'[u] = n /\ Chunk(u)' = c
      BY <3>1, <3>2, <1>1, OthersKeep DEF Frame
    <3> QED  BY <3>3
  <2>2. CASE Active(t) /\ cur[t] = n /\ Chunk(t) = c
    <3>1. cur[t] \in 1 .. used
      BY <2>2, <1>1, AtNode
    <3>2. ASSUME NEW e, Writes(t, e) PROVE ent'[n][c] = e
      BY <2>2, <3>1, <3>2, <1>1, PutAt DEF Writes
    <3>3. CASE FirstValue(t) \/ NewValue(t) \/ AddVersion(t)
      <4>1. PICK e : Writes(t, e) /\ e.hv
        BY <3>3, FirstValueWrites, NewValueWrites, AddVersionWrites
      <4> QED  BY <4>1, <3>2, <1>5
    <3>4. CASE SaveChild(t)
      <4>1. pc'[t] = "first" /\ cur' = cur /\ Chunk(t)' = Chunk(t)
        BY <3>4, <1>2 DEF SaveChild, Goto, Chunk, Key, Job
      <4> QED  BY <4>1, <2>2
    <3>5. CASE AddTombstone(t)
      <4>1. CASE ent' = ent
        <5>1. pc[t] = "at"
          BY <3>5 DEF AddTombstone
        <5>2. ent'[n][c] = ent[n][c] /\ pc[t] # "first"
          BY <4>1, <5>1
        <5> QED  BY <5>2, <2>1
      <4>2. CASE ent' # ent
        <5>1. PICK e : Writes(t, e) /\ e.hv
          BY <4>2, <3>5, AddTombstoneWrites
        <5> QED  BY <5>1, <3>2, <1>5
      <4> QED  BY <4>1, <4>2
    <3>6. CASE NewChild(t)
      <4>1. PICK e : Extends(t, e)
        BY <3>6, NewChildExtends
      <4>2. ent'[n][c] = e
        BY <4>1, <3>1, <2>2, <1>1, ChildAt DEF Extends
      <4> QED  BY <4>1, <4>2, <1>5 DEF Extends
    <3>7. CASE \/ StartWrite(t) \/ Release(t) \/ NoWayOn(t) \/ Descend(t) \/ Enter(t) \/ Crab(t)
               \/ Reread(t) \/ StartFind(t) \/ ReadSeq(t) \/ FindEntry(t) \/ CompareSeq(t)
               \/ ReadFlags(t) \/ ReadValue(t) \/ ReadChild(t) \/ Validate(t)
      <4>1. ent' = ent /\ pc[t] # "first"
        BY <3>7 DEF StartWrite, Release, NoWayOn, Descend, Enter, Crab, Reread,
         HandOver, Onward, StartFind, ReadSeq, FindEntry, CompareSeq, ReadFlags, ReadValue,
         ReadChild, Validate, MayStart, heap
      <4> QED  BY <4>1, <2>1
    <3> QED  BY <3>3, <3>4, <3>5, <3>6, <3>7 DEF MemoryStep
  <2>3. CASE ~(Active(t) /\ cur[t] = n /\ Chunk(t) = c)
    <3>1. pc[t] = "first" => Active(t)
      BY DEF Active
    <3>2. CASE ent' = ent
      BY <3>1, <3>2, <2>1, <2>3
    <3>3. CASE ent' # ent
      <4>1. Active(t)
        BY <3>3, <1>3 DEF Change, Writes, Extends, Active
      <4>2. CASE n = used + 1 /\ ent'[n] # ent[n]
        <5>1. PICK e : Extends(t, e)
          <6>1. ASSUME NEW e, Writes(t, e) PROVE ent'[n] = ent[n]
            <7>1. cur[t] \in 1 .. used /\ Chunk(t) \in Chunks /\ n # cur[t]
              BY <4>1, <4>2, <1>1, AtNode, HeapNodes
            <7> QED  BY <7>1, <6>1, <1>1, PutAt DEF Writes
          <6> QED  BY <6>1, <4>2, <3>3, <1>3 DEF Change
        <5>2. cur[t] \in 1 .. used /\ Chunk(t) \in Chunks
          BY <4>1, <1>1, AtNode
        <5>3. ent'[n] = Empty
          BY <5>1, <5>2, <4>2, <1>1, ChildAt DEF Extends
        <5>4. ent'[n][c] = NoEntry
          BY <5>3 DEF Empty
        <5> QED  BY <5>4, <1>5 DEF NoEntry
      <4>3. CASE ent'[n] = ent[n]
        BY <4>3, <3>1, <2>1, <2>3
      <4>4. CASE n # used + 1
        <5>1. ent'[n][c] = ent[n][c]
          BY <4>1, <4>4, <2>3, <1>4
        <5> QED  BY <5>1, <3>1, <2>1, <2>3
      <4> QED  BY <4>2, <4>3, <4>4
    <3> QED  BY <3>2, <3>3
  <2> QED  BY <2>2, <2>3
<1> QED  BY <1>5 DEF Halves

\* Whoever steps has not returned, and starts only in his turn.
LEMMA StepStarts ==
  ASSUME Types, NEW t \in Threads, MemoryStep(t)
  PROVE  pc[t] # "done" /\ (pc[t] = "idle" => MayStart(t)) /\ pc'[t] # "idle"
<1>1. pc \in [Threads -> Steps]
  BY DEF Types
<1>2. pc[t] # "done" /\ (pc[t] = "idle" => MayStart(t))
  BY DEF MemoryStep, StartWrite, Release, NewValue, SaveChild, FirstValue, AddVersion, AddTombstone,
         NewChild, NoWayOn, Descend, Enter, Crab, Reread,
         HandOver, Onward, StartFind, ReadSeq, FindEntry, CompareSeq, ReadFlags, ReadValue,
         ReadChild, Validate, MayStart
<1>3. pc'[t] # "idle"
  BY <1>1 DEF MemoryStep, StartWrite, Release, NewValue, SaveChild, FirstValue, AddVersion, AddTombstone,
         NewChild, NoWayOn, Descend, Enter, Crab, Reread,
         HandOver, Onward, StartFind, ReadSeq, FindEntry, CompareSeq, ReadFlags, ReadValue,
         ReadChild, Validate,
         Goto, Retry, Return
<1> QED  BY <1>2, <1>3

\* The turns of a serial scenario.
LEMMA InTurnStep ==
  ASSUME InMemory, TrieInv, NEW t \in Threads, MemoryStep(t)
  PROVE  InTurn'
<1>1. Types /\ Frame(t) /\ InTurn
  BY StepFrames DEF TrieInv
<1>2. pc[t] # "done" /\ (pc[t] = "idle" => MayStart(t))
  BY <1>1, StepStarts
<1>3. ASSUME scn'.serial, NEW a \in Threads, NEW b \in Threads, Active(a)', b < a PROVE pc'[b] = "done"
  <2>1. scn.serial /\ \A u \in Threads : u # t => pc'[u] = pc[u]
    BY <1>1, <1>3 DEF Frame
  <2>2. CASE Active(a)
    <3>1. pc[b] = "done"
      BY <2>1, <2>2, <1>1, <1>3 DEF InTurn
    <3> QED  BY <3>1, <2>1, <1>2
  <2>3. CASE ~Active(a)
    <3>1. a = t
      BY <2>1, <2>3, <1>3 DEF Active
    <3>2. pc[t] = "idle"
      BY <3>1, <2>3, <1>2 DEF Active
    <3>3. pc[b] = "done"
      BY <3>1, <3>2, <2>1, <1>2, <1>3 DEF MayStart
    <3> QED  BY <3>3, <2>1, <1>2
  <2> QED  BY <2>2, <2>3
<1> QED  BY <1>3 DEF InTurn

\* In a serial scenario nobody steps beside a call that runs.
LEMMA OneRuns ==
  ASSUME Types, InTurn, scn.serial, NEW t \in Threads, MemoryStep(t), NEW u \in Threads, Active(u)
  PROVE  u = t
<1>1. pc[t] # "done" /\ (pc[t] = "idle" => MayStart(t))
  BY StepStarts
<1>2. u # t => u < t \/ t < u
  BY TrieAssumption
<1>3. ~(t < u)
  BY <1>1 DEF InTurn
<1>4. ~(u < t)
  BY <1>1 DEF InTurn, MayStart, Active
<1> QED  BY <1>2, <1>3, <1>4

\* Lookups at the end of their key.
LEMMA LooksStep ==
  ASSUME InMemory, TrieInv, NEW t \in Threads, MemoryStep(t)
  PROVE  Looks'
<1>1. Types /\ Walkers /\ Frame(t) /\ InTurn /\ Looks /\ pc \in [Threads -> Steps]
      /\ held \in [Threads -> SUBSET Chunks]
  BY StepFrames DEF TrieInv, Types
<1>2. ASSUME NEW u \in Threads, u # t
      PROVE  /\ pc'[u] \in {"compare", "flags", "chain", "single"} => (AtEnd(u))'
             /\ scn'.serial => pc'[u] \notin {"compare", "flags"}
  <2>1. pc'[u] = pc[u] /\ (AtEnd(u))' = AtEnd(u) /\ scn' = scn
    BY <1>1, <1>2 DEF Frame, AtEnd, Key, Job
  <2>2. scn.serial => ~Active(u)
    BY <1>1, <1>2, OneRuns
  <2> QED  BY <2>1, <2>2, <1>1 DEF Looks, Active
<1>3. ASSUME pc'[t] \in {"compare", "flags", "chain", "single"}
      PROVE  /\ (AtEnd(t))'
             /\ scn'.serial /\ pc'[t] \in {"compare", "flags"} /\ Chunk(t)' \notin held'[t] => ~Entry(t)'.hv
  <2>1. FindEntry(t) \/ CompareSeq(t) \/ ReadFlags(t)
    BY <1>1, <1>3 DEF MemoryStep, StartWrite, Release, NewValue, SaveChild, FirstValue, AddVersion,
         AddTombstone, NewChild, NoWayOn, Descend, Enter, Crab, Reread, Onward, StartFind, ReadSeq,
         ReadValue, ReadChild, Validate, Goto, Retry, Return
  <2>2. scn' = scn /\ ent' = ent /\ cur' = cur /\ pos' = pos
    BY <2>1, <1>1, <1>3 DEF FindEntry, CompareSeq, ReadFlags, heap, Goto, Retry, Return
  <2>3. Chunk(t)' = Chunk(t) /\ Entry(t)' = Entry(t) /\ (AtEnd(t))' = AtEnd(t)
    BY <2>2 DEF Chunk, Entry, AtEnd, Key, Job
  <2>4. CASE FindEntry(t)
    <3>1. AtEnd(t) /\ Active(t) /\ held'[t] = Shape(cur[t])
      BY <2>4, <1>1 DEF FindEntry, Active
    <3>2. Chunk(t) \in Chunks
      BY <3>1, <1>1, AtNode
    <3>3. Chunk(t) \notin held'[t] => Entry(t) = NoEntry
      BY <3>1, <3>2 DEF Shape, Present, Entry
    <3>4. ~NoEntry.hv
      BY DEF NoEntry
    <3> QED  BY <3>1, <3>3, <3>4, <2>3
  <2>5. CASE CompareSeq(t)
    <3>1. pc[t] = "compare" /\ held' = held
      BY <2>5 DEF CompareSeq
    <3> QED  BY <3>1, <2>2, <2>3, <1>1 DEF Looks
  <2>6. CASE ReadFlags(t)
    <3>1. pc[t] = "flags" /\ pc'[t] \in {"done", "chain", "single"}
      BY <2>6, <1>1 DEF ReadFlags, Return, Goto
    <3> QED  BY <3>1, <2>3, <1>1 DEF Looks
  <2> QED  BY <2>1, <2>4, <2>5, <2>6
<1>4. ASSUME NEW u \in Threads
      PROVE  /\ pc'[u] \in {"compare", "flags", "chain", "single"} => (AtEnd(u))'
             /\ scn'.serial /\ pc'[u] \in {"compare", "flags"} /\ Chunk(u)' \notin held'[u] => ~Entry(u)'.hv
  BY <1>2, <1>3
<1> QED  BY <1>4 DEF Looks

\* What the keys have.
LEMMA ContentsIs ==
  ASSUME Types, NEW k \in Keys
  PROVE  Contents[k] = ValueIn(ent, k)
<1>1. PlaceOf(k) = Table(ent, scn.disk, k)[Len(k)][k[Len(k)]]
  BY PlaceIsTable
<1>2. Heap(ent, used)
  BY DEF Types
<1>3. PlaceOf(k).val = ValueIn(ent, k)
  BY <1>1, <1>2, TableValue
<1> QED  BY <1>3 DEF Contents

\* The same after a step.
LEMMA NextContentsIs ==
  ASSUME Types', NEW k \in Keys
  PROVE  Contents'[k] = ValueIn(ent', k)
<1>1. PlaceOf(k)' = Table(ent', scn'.disk, k)[Len(k)][k[Len(k)]]
  BY DEF PlaceOf, Table, IsTable, GoTable, Go, Disk
<1>2. Heap(ent', used')
  BY DEF Types
<1>3. PlaceOf(k)'.val = ValueIn(ent', k)
  BY <1>1, <1>2, TableValue
<1> QED  BY <1>3 DEF Contents

\* At its end a thread is at the entry of its key.
LEMMA EndValue ==
  ASSUME InMemory, TrieInv, NEW t \in Threads, Active(t)
  PROVE  /\ AtEnd(t) => ValueIn(ent, Key(t)) = Entry(t).val
         /\ ~AtEnd(t) /\ Go(Entry(t)) = Null => ValueIn(ent, Key(t)) = NoValue
<1>1. Types /\ Walkers
  BY DEF TrieInv
<1>2. /\ Key(t) \in Keys /\ Len(Key(t)) \in Nat \ {0} /\ cur[t] \in 1 .. used
      /\ cur[t] = Walk(ent, Key(t))[pos[t]]
      /\ ~AtEnd(t) => /\ pos[t] + 1 \in 1 .. Len(Key(t))
                      /\ Walk(ent, Key(t))[pos[t] + 1] = Go(Entry(t))
  BY <1>1, AtNode
<1>3. cur[t] # Null
  BY <1>2 DEF Null
<1>4. ASSUME AtEnd(t) PROVE ValueIn(ent, Key(t)) = Entry(t).val
  BY <1>2, <1>3, <1>4 DEF ValueIn, AtEnd, Entry, Chunk
<1>5. ASSUME ~AtEnd(t), Go(Entry(t)) = Null PROVE ValueIn(ent, Key(t)) = NoValue
  <2>1. Walk(ent, Key(t))[pos[t] + 1] = Null /\ pos[t] + 1 \in 1 .. Len(Key(t))
    BY <1>2, <1>5
  <2>2. Len(Key(t)) \in 1 .. Len(Key(t)) /\ Len(Key(t)) >= pos[t] + 1
    BY <2>1, <1>2
  <2>3. Walk(ent, Key(t))[Len(Key(t))] = Null
    BY <2>1, <2>2, <1>2, NullStays
  <2> QED  BY <2>3 DEF ValueIn
<1> QED  BY <1>4, <1>5

\* Writing at the end of the walk changes the value of the writer's key only.
LEMMA WriteValue ==
  ASSUME InMemory, TrieInv, NEW t \in Threads, NEW e, Writes(t, e), AtEnd(t)
  PROVE  \A k \in Keys : ValueIn(ent', k) = IF k = Key(t) THEN e.val ELSE ValueIn(ent, k)
<1>1. Types /\ Walkers /\ Active(t) /\ Heap(ent, used)
  BY DEF TrieInv, Writes, Active, Types
<1>2. /\ Key(t) \in Keys /\ cur[t] \in 1 .. used /\ Chunk(t) \in Chunks
      /\ cur[t] = Walk(ent, Key(t))[Len(Key(t))] /\ Chunk(t) = Key(t)[Len(Key(t))]
      /\ Go(e) = Kid(ent, cur[t], Chunk(t)) /\ e \in Entries(used)
  BY <1>1, AtNode DEF AtEnd, Chunk, Writes
<1>3. ent' = Put(ent, cur[t], Chunk(t), e)
  BY DEF Writes
<1> QED  BY <1>1, <1>2, <1>3, PutValue

\* The steps at which an insertion or a deletion takes effect.
Effect(t) == NewValue(t) \/ FirstValue(t) \/ AddVersion(t) \/ AddTombstone(t) \/ NoWayOn(t)

\* They give the caller's key the caller's value.
LEMMA EffectValue ==
  ASSUME InMemory, TrieInv, NEW t \in Threads, Effect(t)
  PROVE  \A k \in Keys : ValueIn(ent', k) = IF k = Key(t) THEN Job(t).val ELSE ValueIn(ent, k)
<1>1. Types /\ Walkers /\ Firsts /\ Calls
  BY DEF TrieInv
<1>2. CASE NewValue(t) \/ FirstValue(t) \/ AddVersion(t)
  <2>1. PICK e : Writes(t, e) /\ e.val = Job(t).val
    BY <1>2, NewValueWrites, FirstValueWrites, AddVersionWrites
  <2>2. AtEnd(t)
    BY <1>1, <1>2 DEF NewValue, FirstValue, AddVersion, Firsts
  <2> QED  BY <2>1, <2>2, WriteValue
<1>3. CASE AddTombstone(t)
  <2>1. pc[t] = "at" /\ AtEnd(t) /\ Job(t).op = "delete"
    BY <1>3 DEF AddTombstone
  <2>2. Job(t).val = NoValue /\ Active(t)
    BY <2>1, <1>1, JobIs DEF Active
  <2>3. CASE ~Entry(t).hv /\ ent' = ent
    <3>1. Entry(t).val = NoValue
      BY <2>2, <2>3, <1>1, AtNode DEF Entries
    <3>2. ValueIn(ent, Key(t)) = NoValue
      BY <3>1, <2>1, <2>2, EndValue
    <3> QED  BY <3>2, <2>2, <2>3
  <2>4. CASE \E e : Writes(t, e) /\ e.hv /\ e.val = NoValue
    <3>1. PICK e : Writes(t, e) /\ e.val = NoValue
      BY <2>4
    <3> QED  BY <3>1, <2>1, <2>2, WriteValue
  <2> QED  BY <2>3, <2>4, <1>3, AddTombstoneWrites
<1>4. CASE NoWayOn(t)
  <2>1. pc[t] = "at" /\ ~AtEnd(t) /\ Job(t).op = "delete" /\ Below(Entry(t)) = Null /\ ent' = ent
    BY <1>4 DEF NoWayOn, heap
  <2>2. Job(t).val = NoValue /\ Active(t)
    BY <2>1, <1>1, JobIs DEF Active
  <2>3. Go(Entry(t)) = Null
    BY <2>1, BelowIsGo
  <2>4. ValueIn(ent, Key(t)) = NoValue
    BY <2>1, <2>2, <2>3, EndValue
  <2> QED  BY <2>1, <2>2, <2>4
<1> QED  BY <1>2, <1>3, <1>4 DEF Effect

\* No other step changes the value of any key.
LEMMA OtherValue ==
  ASSUME InMemory, TrieInv, NEW t \in Threads, MemoryStep(t), ~Effect(t)
  PROVE  \A k \in Keys : ValueIn(ent', k) = ValueIn(ent, k)
<1>1. Types /\ Walkers /\ Heap(ent, used)
  BY DEF TrieInv, Types
<1>2. CASE SaveChild(t)
  <2>1. PICK e : Writes(t, e) /\ e.val = Entry(t).val
    BY <1>2, SaveChildWrites
  <2>2. AtEnd(t) /\ Active(t)
    BY <1>2 DEF SaveChild, Active
  <2>3. ValueIn(ent, Key(t)) = e.val
    BY <2>1, <2>2, EndValue
  <2>4. \A k \in Keys : ValueIn(ent', k) = IF k = Key(t) THEN e.val ELSE ValueIn(ent, k)
    BY <2>1, <2>2, WriteValue
  <2> QED  BY <2>3, <2>4
<1>3. CASE NewChild(t)
  <2>1. PICK e : Extends(t, e)
    BY <1>3, NewChildExtends
  <2>2. Active(t)
    BY <1>3 DEF NewChild, Active
  <2>3. /\ cur[t] \in 1 .. used /\ Chunk(t) \in Chunks /\ Kid(ent, cur[t], Chunk(t)) = Null
        /\ e.val = ent[cur[t]][Chunk(t)].val /\ Go(e) = used + 1 /\ e \in Entries(used + 1)
        /\ used + 1 \in Nodes /\ ent' = Child(ent, used + 1, cur[t], Chunk(t), e)
    BY <2>1, <2>2, <1>1, AtNode DEF Extends, Entry
  <2> QED  BY <2>3, <1>1, ChildValue
<1>4. CASE ~SaveChild(t) /\ ~NewChild(t)
  <2>1. ent' = ent
    BY <1>4 DEF MemoryStep, Effect, StartWrite, Release, Descend, Enter, Crab, Reread,
         HandOver, Onward, StartFind, ReadSeq, FindEntry, CompareSeq, ReadFlags, ReadValue,
         ReadChild, Validate, heap
  <2> QED  BY <2>1
<1> QED  BY <1>2, <1>3, <1>4

\* What a lookup returns, its key has at that moment.
LEMMA ReadsStep ==
  ASSUME InMemory, TrieInv, NEW t \in Threads, MemoryStep(t), Observe
  PROVE  ReadsItsKey'
<1>1. Types /\ Walkers /\ Frame(t) /\ Calls /\ Looks /\ ReadsItsKey
  BY StepFrames DEF TrieInv
<1>2. /\ pc \in [Threads -> Steps]
      /\ got \in [Threads -> Values \cup {NoValue}]
  BY <1>1 DEF Types
<1>3. pc[t] # "done" /\ pc'[t] # "idle" /\ scn' = scn
  BY <1>1, StepStarts DEF Frame
<1>4. ASSUME NEW u \in Threads, Reading(u)'
      PROVE  got'[u] \in may'[u] \cup (IF scn'.serial THEN {} ELSE {NoValue})
  <2>1. Job(u)' = Job(u) /\ pc'[u] = "done" /\ Job(u).op = "find"
    BY <1>3, <1>4 DEF Reading, Job
  <2>2. CASE u # t
    <3>1. pc[u] = "done" /\ got'[u] = got[u]
      BY <2>1, <2>2, <1>1 DEF Frame
    <3>2. may'[u] = may[u]
      BY <3>1, <2>1 DEF Observe
    <3>3. got[u] \in may[u] \cup (IF scn.serial THEN {} ELSE {NoValue})
      BY <3>1, <2>1, <1>1 DEF ReadsItsKey, Reading
    <3> QED  BY <3>1, <3>2, <3>3, <1>3
  <2>3. CASE u = t
    <3>1. Contents[Key(t)] \in may'[t]
      BY <2>1, <2>3, <1>3 DEF Observe
    <3>2. Contents[Key(t)] = ValueIn(ent, Key(t))
      BY <1>1, JobIs, ContentsIs
    <3>3. ReadFlags(t) \/ ReadValue(t) \/ ReadChild(t)
      <4>1. ~Release(t)
        BY <2>1, <2>3, <1>1 DEF Release, Calls, Writer
      <4> QED  BY <4>1, <2>1, <2>3, <1>2 DEF MemoryStep, StartWrite, NewValue, SaveChild,
         FirstValue, AddVersion,
         AddTombstone, NewChild, NoWayOn, Descend, Enter, Crab, Reread, Onward, StartFind,
         ReadSeq, FindEntry, CompareSeq, Validate, Goto, Retry
    <3>6. CASE ReadFlags(t)
      <4>1. pc[t] = "flags" /\ AtEnd(t) /\ Active(t)
        BY <3>6, <1>1 DEF ReadFlags, Active, Looks
      <4>2. got'[t] = NoValue /\ (Chunk(t) \notin held[t] \/ ~Entry(t).hv)
        BY <3>6, <2>1, <2>3, <1>2 DEF ReadFlags, Return, Goto
      <4>3. CASE ~scn.serial
        BY <4>2, <4>3, <2>3, <1>3
      <4>4. CASE scn.serial
        <5>1. ~Entry(t).hv
          BY <4>1, <4>2, <4>4, <1>1 DEF Looks
        <5>2. Entry(t).val = NoValue
          BY <5>1, <4>1, <1>1, AtNode DEF Entries
        <5> QED  BY <5>2, <4>1, <4>2, <3>1, <3>2, <2>3, EndValue
      <4> QED  BY <4>3, <4>4
    <3>4. CASE ReadValue(t)
      <4>1. AtEnd(t) /\ Active(t)
        BY <3>4, <1>1 DEF ReadValue, Active, Looks
      <4>2. got'[t] = Entry(t).val
        BY <3>4, <2>1, <2>3, <1>2 DEF ReadValue, Return, Goto
      <4> QED  BY <4>1, <4>2, <3>1, <3>2, <2>3, EndValue
    <3>5. CASE ReadChild(t)
      <4>1. ~AtEnd(t) /\ Active(t) /\ pc[t] = "look" /\ Below(Entry(t)) = Null /\ got'[t] = NoValue
        BY <3>5, <2>1, <2>3, <1>2 DEF ReadChild, Return, Goto, Active
      <4>2. CASE ~scn.serial
        BY <4>1, <4>2, <2>3, <1>3
      <4>3. CASE scn.serial
        <5>1. Go(Entry(t)) = Null
          BY <4>1, <4>3, BelowIsGo
        <5> QED  BY <5>1, <4>1, <3>1, <3>2, <2>3, EndValue
      <4> QED  BY <4>2, <4>3
    <3> QED  BY <3>3, <3>4, <3>5, <3>6
  <2> QED  BY <2>2, <2>3
<1> QED  BY <1>4 DEF ReadsItsKey

\* The invariant holds at the start ...
LEMMA InitInv ==
  ASSUME InMemory, Init
  PROVE  TrieInv
<1>1. ent = Start(scn) /\ used = Len(scn.heap)
  BY DEF Init, Start
<1>2. /\ Heap(ent, used)
      /\ \A n \in Nodes, c \in Chunks : ent[n][c].trie_child # Null => ent[n][c].hv
  BY <1>1 DEF InMemory
<1>3. used \in Nat \ {0} /\ Root \in Nodes
  BY <1>2, HeapNodes
<1>4. /\ pc \in [Threads -> {"idle", "done"}]
      /\ \A t \in Threads : pc[t] = "done" => Job(t).op = "none"
  BY DEF Init, Job
<1>5. Types
  <2>1. /\ seq \in [Nodes -> Nat] /\ lock \in [Nodes -> Threads \cup {Free}]
        /\ cur \in [Threads -> Nodes] /\ pos \in [Threads -> Nat] /\ nxt \in [Threads -> 0 .. used]
        /\ seen \in [Threads -> Nat] /\ got \in [Threads -> Values \cup {NoValue}]
        /\ held \in [Threads -> SUBSET Chunks]
    BY <1>3 DEF Init, Null
  <2>2. freed = {} /\ ~broken
    BY DEF Init
  <2> QED  BY <2>1, <2>2, <1>2, <1>4 DEF Types
<1>6. \A t \in Threads : 
        ~Active(t) /\ pc[t] \notin Steps \ {"idle", "done"}
  BY <1>4 DEF Active
<1>7. Calls /\ Walkers /\ Firsts /\ Looks /\ InTurn
  BY <1>6 DEF Calls, Walkers, Firsts, Looks, InTurn
<1>8. LockDiscipline
  <2>1. \A n \in Nodes : seq[n] = 0 /\ lock[n] = Free
    BY DEF Init
  <2> QED  BY <2>1, <1>6 DEF LockDiscipline
<1>9. Halves
  BY <1>2 DEF Halves
<1>10. ReadsItsKey
  BY <1>4 DEF ReadsItsKey, Reading
<1> QED  BY <1>5, <1>7, <1>8, <1>9, <1>10 DEF TrieInv

\* ... and after every step.
LEMMA NextInv ==
  ASSUME InMemory, TrieInv, [Next]_vars
  PROVE  TrieInv'
<1>1. ASSUME NEW t \in Threads, MemoryStep(t), Observe PROVE TrieInv'
  <2>1. Types' /\ Calls' /\ LockDiscipline' /\ Walkers'
    BY <1>1, TypesStep, CallsStep, LocksStep, WalkersStep
  <2>2. Halves' /\ Firsts' /\ Looks' /\ InTurn' /\ ReadsItsKey'
    BY <1>1, HalvesStep, FirstsStep, LooksStep, InTurnStep, ReadsStep
  <2> QED  BY <2>1, <2>2 DEF TrieInv
<1>2. CASE Astray
  <2> USE <1>2 DEF Astray
  <2>1. Types' /\ Calls' /\ LockDiscipline' /\ Walkers'
    BY DEF TrieInv, Types, Calls, LockDiscipline, Walkers, Active, Writer, Key, Job
  <2>2. \A t \in Threads : /\ Chunk(t)' = Chunk(t) /\ Entry(t)' = Entry(t)
                           /\ (AtEnd(t))' = AtEnd(t) /\ (Active(t))' = Active(t)
    BY DEF Active, AtEnd, Entry, Chunk, Key, Job
  <2>3. Halves' /\ Firsts'
    BY <2>2 DEF TrieInv, Halves, Firsts
  <2>4. Looks' /\ InTurn'
    BY <2>2 DEF TrieInv, Looks, InTurn
  <2>5. ReadsItsKey'
    BY DEF TrieInv, ReadsItsKey, Reading, Job
  <2> QED  BY <2>1, <2>3, <2>4, <2>5 DEF TrieInv
<1> QED  BY <1>1, <1>2, StepOrAstray

\* The scenario stays.
LEMMA StillInMemory ==
  ASSUME InMemory, TrieInv, [Next]_vars
  PROVE  InMemory'
<1>1. ASSUME NEW t \in Threads, MemoryStep(t) PROVE scn' = scn
  BY <1>1, StepFrames DEF Frame, TrieInv
<1>2. Astray => scn' = scn
  BY DEF Astray
<1>3. scn' = scn
  BY <1>1, <1>2, StepOrAstray
<1> QED  BY <1>3 DEF InMemory, Key, Job, Start

\* The invariant holds in every behaviour of such a scenario.
LEMMA SpecInv ==
  Spec /\ InMemory => [](InMemory /\ TrieInv)
<1>1. Init /\ InMemory => TrieInv
  BY InitInv
<1>2. InMemory /\ TrieInv /\ [Next]_vars => (InMemory /\ TrieInv)'
  BY NextInv, StillInMemory
<1> QED  BY <1>1, <1>2, PTL DEF Spec

\* What the invariant says of the run's property.
LEMMA InvSound ==
  ASSUME InMemory, TrieInv
  PROVE  TrieSound
<1>1. Types /\ LockDiscipline /\ ReadsItsKey /\ Heap(ent, used)
  BY DEF TrieInv, Types
<1>2. \A n \in Nodes, c \in Chunks :
        /\ ent[n][c].child \in 0 .. used /\ ent[n][c].trie_child \in 0 .. used
        /\ ent[n][c].val \in Values \cup {NoValue}
        /\ ent[n][c].hv => ent[n][c].child = Null
  <2>1. \A n \in Nodes, c \in Chunks : ent[n][c] \in Entries(used)
    BY <1>1 DEF Heap
  <2> QED  BY <2>1 DEF Entries
<1>3. TypeOK
  BY <1>1, <1>2 DEF TypeOK, Types, Heap
<1>4. NeverBroken
  BY <1>1 DEF Types, NeverBroken
<1> QED  BY <1>1, <1>3, <1>4 DEF TrieSound

\* In a trie in memory, with any number of threads, keys and nodes, and until an entry is used
\* through a pointer that has gone astray (UseTorn, which ends a behaviour): nobody follows a
\* pointer to a node he may not follow, the seqlocks tell who writes, and a lookup answers for its
\* key (hbtrie_insert, hbtrie_delete and hbtrie_find in any interleaving).
THEOREM TrieIsSound ==
  Spec /\ InMemory => []TrieSound
<1>1. InMemory /\ TrieInv => TrieSound
  BY InvSound
<1> QED  BY <1>1, SpecInv, PTL

-----------------------------------------------------------------------------
\* A function that differs from another in one place.
LEMMA OnePlace ==
  ASSUME NEW S, NEW f, NEW g, NEW a \in S, NEW v, f = [x \in S |-> f[x]], g = [x \in S |-> g[x]],
         g[a] = v, \A x \in S : x # a => g[x] = f[x]
  PROVE  g = [f EXCEPT ![a] = v]
OBVIOUS

\* A step that takes effect is that of the map: the caller's key gets its value, and the caller
\* has still to return.
LEMMA EffectRefines ==
  ASSUME InMemory, TrieInv, NEW t \in Threads, MemoryStep(t), Effect(t)
  PROVE  Abstract!TakeEffect(t)
<1>1. Types /\ Calls /\ Frame(t) /\ Types' /\ TrieInv
  BY StepFrames, TypesStep DEF TrieInv
<1>2. pc \in [Threads -> Steps]
  BY <1>1 DEF Types
<1>3. pc[t] \in {"at", "first"} /\ pc'[t] = "release"
  BY <1>2 DEF Effect, NewValue, FirstValue, AddVersion, AddTombstone, NoWayOn, Goto
<1>4. Writer(t)
  BY <1>1, <1>3 DEF Calls, Writer
<1>5. \A u \in Threads : Job(u)' = Job(u) /\ Key(u)' = Key(u) /\ (Writer(u))' = Writer(u)
  BY <1>1 DEF Frame, Job, Key, Writer
<1>6. Status[t] = "pending" /\ Status' = [Status EXCEPT ![t] = "applied"]
  <2>1. Status[t] = "pending"
    BY <1>3, <1>4 DEF Status
  <2>2. ASSUME NEW u \in Threads, u # t PROVE pc'[u] = pc[u]
    BY <2>2, <1>1 DEF Frame
  <2>3. Status'[t] = "applied"
    BY <1>3, <1>4, <1>5 DEF Status
  <2>4. \A u \in Threads : u # t => Status'[u] = Status[u]
    BY <2>2, <1>5 DEF Status
  <2>5. Status = [u \in Threads |-> Status[u]] /\ Status' = [u \in Threads |-> Status'[u]]
    BY DEF Status
  <2> QED  BY <2>1, <2>3, <2>4, <2>5, OnePlace
<1>7. Key(t) \in Keys
  BY <1>1, JobIs
<1>8. Contents' = [Contents EXCEPT ![Key(t)] = Job(t).val]
  <2>1. \A k \in Keys : Contents[k] = ValueIn(ent, k)
    BY <1>1, ContentsIs
  <2>2. \A k \in Keys : Contents'[k] = ValueIn(ent', k)
    BY <1>1, NextContentsIs
  <2>3. \A k \in Keys : ValueIn(ent', k) = IF k = Key(t) THEN Job(t).val ELSE ValueIn(ent, k)
    BY EffectValue
  <2>4. \A k \in Keys : Contents'[k] = IF k = Key(t) THEN Job(t).val ELSE Contents[k]
    BY <2>1, <2>2, <2>3
  <2> QED  BY <2>4, <1>7 DEF Contents
<1>9. [u \in Threads |-> [key |-> Key(u), val |-> Job(u).val]]'
        = [u \in Threads |-> [key |-> Key(u), val |-> Job(u).val]]
  BY <1>5
<1> QED  BY <1>6, <1>8, <1>9 DEF Abstract!TakeEffect

\* The return is that of the map.
LEMMA ReleaseRefines ==
  ASSUME InMemory, TrieInv, NEW t \in Threads, Release(t)
  PROVE  Abstract!Return(t)
<1>0. MemoryStep(t) /\ ~Effect(t)
  BY DEF MemoryStep, Effect, Release, NewValue, FirstValue, AddVersion, AddTombstone, NoWayOn
<1>1. Types /\ Calls /\ Frame(t) /\ Types' /\ TrieInv
  BY <1>0, StepFrames, TypesStep DEF TrieInv
<1>2. pc \in [Threads -> Steps]
  BY <1>1 DEF Types
<1>3. pc[t] = "release" /\ pc'[t] = "done"
  BY <1>2 DEF Release, Goto
<1>4. Writer(t)
  BY <1>1, <1>3 DEF Calls
<1>5. \A u \in Threads : Job(u)' = Job(u) /\ Key(u)' = Key(u) /\ (Writer(u))' = Writer(u)
  BY <1>1 DEF Frame, Job, Key, Writer
<1>6. Status[t] = "applied" /\ Status' = [Status EXCEPT ![t] = "returned"]
  <2>1. Status[t] = "applied"
    BY <1>3, <1>4 DEF Status
  <2>2. ASSUME NEW u \in Threads, u # t PROVE pc'[u] = pc[u]
    BY <2>2, <1>1 DEF Frame
  <2>3. Status'[t] = "returned"
    BY <1>3, <1>4, <1>5 DEF Status
  <2>4. \A u \in Threads : u # t => Status'[u] = Status[u]
    BY <2>2, <1>5 DEF Status
  <2>5. Status = [u \in Threads |-> Status[u]] /\ Status' = [u \in Threads |-> Status'[u]]
    BY DEF Status
  <2> QED  BY <2>1, <2>3, <2>4, <2>5, OnePlace
<1>7. Contents' = Contents
  <2>1. \A k \in Keys : Contents[k] = ValueIn(ent, k)
    BY <1>1, ContentsIs
  <2>2. \A k \in Keys : Contents'[k] = ValueIn(ent', k)
    BY <1>1, NextContentsIs
  <2>3. \A k \in Keys : ValueIn(ent', k) = ValueIn(ent, k)
    BY <1>0, OtherValue
  <2>4. \A k \in Keys : Contents'[k] = Contents[k]
    BY <2>1, <2>2, <2>3
  <2> QED  BY <2>4 DEF Contents
<1>8. [u \in Threads |-> [key |-> Key(u), val |-> Job(u).val]]'
        = [u \in Threads |-> [key |-> Key(u), val |-> Job(u).val]]
  BY <1>5
<1> QED  BY <1>6, <1>7, <1>8 DEF Abstract!Return

\* Every other step leaves the map and the callers alone.
LEMMA OtherRefines ==
  ASSUME InMemory, TrieInv, NEW t \in Threads, MemoryStep(t), ~Effect(t), ~Release(t)
  PROVE  UNCHANGED Abstract!vars
<1>1. Types /\ Calls /\ Frame(t) /\ Types' /\ TrieInv
  BY StepFrames, TypesStep DEF TrieInv
<1>2. pc \in [Threads -> Steps]
  BY <1>1 DEF Types
<1>3. \A u \in Threads : Job(u)' = Job(u) /\ Key(u)' = Key(u) /\ (Writer(u))' = Writer(u)
  BY <1>1 DEF Frame, Job, Key, Writer
<1>4. Status' = Status
  <2>1. \A u \in Threads : u # t => pc'[u] = pc[u]
    BY <1>1 DEF Frame
  <2>2. \A u \in Threads : u # t => Status'[u] = Status[u]
    BY <2>1, <1>3 DEF Status
  <2>3. \/ pc[t] \notin {"done", "release"} /\ pc'[t] \notin {"done", "release"}
        \/ ~Writer(t)
    <3>1. CASE \/ StartWrite(t) \/ SaveChild(t) \/ NewChild(t) \/ Descend(t) \/ Enter(t) \/ Crab(t)
               \/ Reread(t)
      BY <3>1, <1>2 DEF StartWrite, SaveChild, NewChild, Descend, Onward, Enter, Crab, Reread, Goto, MayStart
    <3>2. CASE StartFind(t)
      BY <3>2 DEF StartFind, Writer
    <3>3. CASE \/ ReadSeq(t) \/ FindEntry(t) \/ CompareSeq(t) \/ ReadFlags(t) \/ ReadValue(t)
               \/ ReadChild(t) \/ Validate(t)
      <4>1. pc[t] \in Finding
        BY <3>3 DEF ReadSeq, FindEntry, CompareSeq, ReadFlags, ReadValue, ReadChild, Validate
      <4> QED  BY <4>1, <1>1 DEF Calls, Writer
    <3> QED  BY <3>1, <3>2, <3>3 DEF MemoryStep, Effect
  <2>4. Status'[t] = Status[t]
    BY <2>3, <1>3 DEF Status
  <2>5. \A u \in Threads : Status'[u] = Status[u]
    BY <2>2, <2>4
  <2> QED  BY <2>5 DEF Status
<1>5. Contents' = Contents
  <2>1. \A k \in Keys : Contents[k] = ValueIn(ent, k)
    BY <1>1, ContentsIs
  <2>2. \A k \in Keys : Contents'[k] = ValueIn(ent', k)
    BY <1>1, NextContentsIs
  <2>3. \A k \in Keys : ValueIn(ent', k) = ValueIn(ent, k)
    BY OtherValue
  <2>4. \A k \in Keys : Contents'[k] = Contents[k]
    BY <2>1, <2>2, <2>3
  <2> QED  BY <2>4 DEF Contents
<1>6. [u \in Threads |-> [key |-> Key(u), val |-> Job(u).val]]'
        = [u \in Threads |-> [key |-> Key(u), val |-> Job(u).val]]
  BY <1>3
<1> QED  BY <1>4, <1>5, <1>6 DEF Abstract!vars

\* The map at the start.
LEMMA InitRefines ==
  ASSUME InMemory, Init
  PROVE  Abstract!Init
<1>1. Types
  BY InitInv DEF TrieInv
<1>2. Contents \in [Keys -> Values \cup {NoValue}]
  <2>1. ASSUME NEW k \in Keys PROVE Contents[k] \in Values \cup {NoValue}
    <3>1. Contents[k] = ValueIn(ent, k) /\ Heap(ent, used)
      BY <1>1, ContentsIs DEF Types
    <3>2. Len(k) \in 1 .. Len(k) /\ k[Len(k)] \in Chunks
      BY KeyIs
    <3>3. Walk(ent, k)[Len(k)] \in Nodes \cup {Null}
      BY <3>1, <3>2, WalkRange, HeapNodes
    <3>4. CASE Walk(ent, k)[Len(k)] = Null
      BY <3>1, <3>4 DEF ValueIn
    <3>5. CASE Walk(ent, k)[Len(k)] # Null
      <4> DEFINE w == Walk(ent, k)[Len(k)]
      <4>1. ent[w][k[Len(k)]] \in Entries(used)
        BY <3>1, <3>2, <3>3, <3>5 DEF Heap
      <4>2. ent[w][k[Len(k)]].val \in Values \cup {NoValue}
        BY <4>1 DEF Entries
      <4> QED  BY <4>2, <3>1, <3>5 DEF ValueIn
    <3> QED  BY <3>4, <3>5
  <2> QED  BY <2>1 DEF Contents
<1>3. [t \in Threads |-> [key |-> Key(t), val |-> Job(t).val]]
        \in [Threads -> [key : Keys, val : Values \cup {NoValue}]]
  BY <1>1, JobIs
<1>4. Status \in [Threads -> {"pending", "returned"}]
  <2>1. \A t \in Threads : pc[t] \in {"idle", "done"}
    BY DEF Init
  <2> QED  BY <2>1 DEF Status
<1> QED  BY <1>2, <1>3, <1>4 DEF Abstract!Init

\* Every step is one of the map or changes nothing there.
LEMMA NextRefines ==
  ASSUME InMemory, TrieInv, [Next]_vars
  PROVE  [Abstract!Next]_(Abstract!vars)
<1>1. ASSUME NEW t \in Threads, MemoryStep(t) PROVE [Abstract!Next]_(Abstract!vars)
  <2>1. CASE Effect(t)
    <3>1. Abstract!TakeEffect(t)
      BY <1>1, <2>1, EffectRefines
    <3> QED  BY <3>1 DEF Abstract!Next
  <2>2. CASE Release(t)
    <3>1. Abstract!Return(t)
      BY <2>2, ReleaseRefines
    <3> QED  BY <3>1 DEF Abstract!Next
  <2>3. CASE ~Effect(t) /\ ~Release(t)
    BY <1>1, <2>3, OtherRefines
  <2> QED  BY <2>1, <2>2, <2>3
<1>2. CASE Astray
  <2>1. scn' = scn /\ ent' = ent /\ pc' = pc
    BY <1>2 DEF Astray
  <2>2. Contents' = Contents
    BY <2>1 DEF Contents, PlaceOf, Disk
  <2>3. Status' = Status
    BY <2>1 DEF Status, Writer, Job
  <2>4. [u \in Threads |-> [key |-> Key(u), val |-> Job(u).val]]'
        = [u \in Threads |-> [key |-> Key(u), val |-> Job(u).val]]
    BY <2>1 DEF Key, Job
  <2> QED  BY <2>2, <2>3, <2>4 DEF Abstract!vars
<1> QED  BY <1>1, <1>2, StepOrAstray

\* In a trie in memory, with any number of threads, keys and nodes, and until an entry is used
\* through a pointer that has gone astray (UseTorn): every insertion and every deletion takes effect once, at one moment between its call and its return, for its own key
\* only, and nothing else changes what a key has (hbtrie_insert, hbtrie_delete).
THEOREM TrieImplementsMap ==
  Spec /\ InMemory => Implements
<1>1. Init /\ InMemory => Abstract!Init
  BY InitRefines
<1>2. InMemory /\ TrieInv /\ [Next]_vars => [Abstract!Next]_(Abstract!vars)
  BY NextRefines
<1> QED  BY <1>1, <1>2, SpecInv, PTL DEF Spec, Implements, Abstract!Spec
=============================================================================
