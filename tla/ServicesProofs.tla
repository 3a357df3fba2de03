--------------------------- MODULE ServicesProofs ---------------------------
(***************************************************************************)
(* Proofs about the page cache, the cache of values, the block allocator   *)
(* and the timing wheel, for any number of pages, shards, keys, sizes,     *)
(* blocks, threads, timers, durations and slots.                           *)
(*                                                                         *)
(* PagesSound needs a page that is held to be in the table, so that what   *)
(* eviction, invalidation and release take out has no holder; the loop of  *)
(* evict_if_needed keeps that in each of its rounds.                       *)
(* ValuesSound needs the cached keys to be the first of the history of     *)
(* use, which repeats nothing; the memory is then a sum over the list.     *)
(* BlocksSound counts; the invariant behind it says of the free list, the  *)
(* thread caches and the owners that they are disjoint and repeat nothing. *)
(* CallbacksSound rests on a removed timer having had its abort callback   *)
(* and on the map holding only timers without any, and on an expired timer *)
(* standing in one list, once, and being out of the map when it fires.     *)
(* That a step of a timer ends on its tick is shown with the tick of its   *)
(* next visit: its slot is the one the wheel reaches then, at most a turn  *)
(* away, and its circles are the turns left after that.                    *)
(***************************************************************************)
EXTENDS Services, FiniteSetTheorems, SequenceTheorems, WellFoundedInduction, TLAPS

-----------------------------------------------------------------------------
(* Natural numbers: loops end at a least index, and what a recursive       *)
(* function computes is shown by induction.                                *)

\* A non-empty set of natural numbers has a least element.
LEMMA LeastNat ==
  ASSUME NEW T \in SUBSET Nat, T # {}
  PROVE  \E x \in T : \A y \in T : x <= y
<1> DEFINE R == OpToRel(<, Nat)
<1>1. \A x, y \in Nat : y < x => <<y, x>> \in R
  BY DEF OpToRel
<1>2. IsWellFoundedOn(R, Nat)
  BY NatLessThanWellFounded
<1> HIDE DEF R
<1>3. PICK x \in T : \A y \in T : ~ (<<y, x>> \in R)
  BY <1>2, WFMin
<1>4. \A y \in T : ~ (y < x)
  BY <1>1, <1>3
<1>5. x \in Nat /\ \A y \in T : y \in Nat
  BY <1>3
<1> QED
  BY <1>3, <1>4, <1>5

\* A set of natural numbers with 0 and with the successor of each of its members has
\* all of them.
LEMMA SetInduction ==
  ASSUME NEW T \in SUBSET Nat, 0 \in T, \A n \in T : n + 1 \in T
  PROVE  \A n \in Nat : n \in T
<1> SUFFICES ASSUME Nat \ T # {} PROVE FALSE
  OBVIOUS
<1>1. PICK x \in Nat \ T : \A y \in Nat \ T : x <= y
  BY LeastNat
<1>2. x # 0 /\ x - 1 \in Nat
  BY <1>1
<1>3. x - 1 \in T
  BY <1>1, <1>2
<1>4. (x - 1) + 1 \in T
  BY <1>3
<1> QED
  BY <1>1, <1>4

-----------------------------------------------------------------------------
(* Sequences without repetition, as lists and caches change them *)

\* A list without its last element.
LEMMA WithoutLast ==
    ASSUME NEW S, NEW s \in Seq(S), s # <<>>, IsInjective(s)
    PROVE  /\ Front(s) \in Seq(S) /\ Len(Front(s)) = Len(s) - 1
           /\ IsInjective(Front(s)) /\ Last(s) \in Range(s)
           /\ Range(Front(s)) = Range(s) \ {Last(s)}
<1>1. /\ Front(s) \in Seq(S) /\ Len(Front(s)) = Len(s) - 1
      /\ \A i \in 1 .. Len(s) - 1 : Front(s)[i] = s[i]
      /\ Len(s) \in 1 .. Len(s) /\ Last(s) = s[Len(s)]
  <2> DEFINE n == Len(s) - 1
  <2>1. Len(s) \in Nat /\ n \in Nat /\ Len(s) = n + 1 /\ \A i \in 1 .. n : s[i] \in S
    OBVIOUS
  <2>2. Last(s) = s[Len(s)] /\ Front(s) = SubSeq(s, 1, n)
    BY DEF Last, Front
  <2> HIDE DEF n
  <2>3. /\ SubSeq(s, 1, n) \in Seq(S)
        /\ Len(SubSeq(s, 1, n)) = IF 1 <= n THEN n - 1 + 1 ELSE 0
        /\ \A i \in 1 .. n - 1 + 1 : SubSeq(s, 1, n)[i] = s[1 + i - 1]
    BY <2>1, SubSeqProperties
  <2>4. Len(Front(s)) = n
    BY <2>1, <2>2, <2>3
  <2>5. ASSUME NEW i \in 1 .. n PROVE Front(s)[i] = s[i]
    BY <2>1, <2>2, <2>3
  <2>6. QED
    BY <2>1, <2>2, <2>3, <2>4, <2>5 DEF n
<1>2. DOMAIN Front(s) = 1 .. Len(s) - 1 /\ DOMAIN s = 1 .. Len(s) /\ Len(s) \in Nat
  BY <1>1
<1>3. IsInjective(Front(s))
  BY <1>1, <1>2 DEF IsInjective
<1>4. Last(s) \in Range(s)
  BY <1>1, <1>2 DEF Range
<1>5. ASSUME NEW x \in Range(Front(s)) PROVE x \in Range(s) \ {Last(s)}
  <2>1. PICK i \in DOMAIN Front(s) : x = Front(s)[i]
    BY <1>5 DEF Range
  <2>2. i \in DOMAIN s /\ i # Len(s) /\ x = s[i]
    BY <2>1, <1>1, <1>2
  <2>3. QED
    BY <2>2, <1>1, <1>2 DEF Range, IsInjective
<1>6. ASSUME NEW x \in Range(s) \ {Last(s)} PROVE x \in Range(Front(s))
  <2>1. PICK i \in DOMAIN s : x = s[i]
    BY <1>6 DEF Range
  <2>2. i \in DOMAIN Front(s) /\ x = Front(s)[i]
    BY <2>1, <1>1, <1>2, <1>6
  <2>3. QED
    BY <2>2 DEF Range
<1>7. QED
  BY <1>1, <1>3, <1>4, <1>5, <1>6

\* A list without its first element.
LEMMA WithoutFirst ==
    ASSUME NEW S, NEW s \in Seq(S), s # <<>>, IsInjective(s)
    PROVE  /\ Tail(s) \in Seq(S) /\ Len(Tail(s)) = Len(s) - 1
           /\ IsInjective(Tail(s)) /\ Head(s) \in Range(s)
           /\ Range(Tail(s)) = Range(s) \ {Head(s)}
<1> DEFINE q == Tail(s)
<1>1. /\ q \in Seq(S) /\ Len(q) = Len(s) - 1
      /\ \A i \in 1 .. Len(s) - 1 : q[i] = s[i + 1]
      /\ 1 \in 1 .. Len(s) /\ Head(s) = s[1]
  OBVIOUS
<1>2. DOMAIN q = 1 .. Len(s) - 1 /\ DOMAIN s = 1 .. Len(s) /\ Len(s) \in Nat
  BY <1>1
<1> HIDE DEF q
<1>3. IsInjective(q)
  BY <1>1, <1>2 DEF IsInjective
<1>4. Head(s) \in Range(s)
  BY <1>1, <1>2 DEF Range
<1>5. ASSUME NEW x \in Range(q) PROVE x \in Range(s) \ {Head(s)}
  <2>1. PICK i \in DOMAIN q : x = q[i]
    BY <1>5 DEF Range
  <2>2. i + 1 \in DOMAIN s /\ i + 1 # 1 /\ x = s[i + 1]
    BY <2>1, <1>1, <1>2
  <2>3. QED
    BY <2>2, <1>1, <1>2 DEF Range, IsInjective
<1>6. ASSUME NEW x \in Range(s) \ {Head(s)} PROVE x \in Range(q)
  <2>1. PICK i \in DOMAIN s : x = s[i]
    BY <1>6 DEF Range
  <2>2. i - 1 \in DOMAIN q /\ x = q[i - 1]
    BY <2>1, <1>1, <1>2, <1>6
  <2>3. QED
    BY <2>2 DEF Range
<1>7. Range(q) = Range(s) \ {Head(s)}
  BY <1>5, <1>6
<1>8. QED
  BY <1>1, <1>3, <1>4, <1>7 DEF q

\* A list with a new last element.
LEMMA WithLast ==
    ASSUME NEW S, NEW s \in Seq(S), NEW b \in S, b \notin Range(s), IsInjective(s)
    PROVE  /\ Append(s, b) \in Seq(S) /\ Len(Append(s, b)) = Len(s) + 1
           /\ IsInjective(Append(s, b))
           /\ Range(Append(s, b)) = Range(s) \cup {b}
<1> DEFINE q == Append(s, b)
<1>1. /\ q \in Seq(S) /\ Len(q) = Len(s) + 1 /\ q[Len(s) + 1] = b
      /\ \A i \in 1 .. Len(s) : q[i] = s[i]
  OBVIOUS
<1>2. DOMAIN q = 1 .. Len(s) + 1 /\ DOMAIN s = 1 .. Len(s) /\ Len(s) \in Nat
  BY <1>1
<1> HIDE DEF q
<1>3. \A i \in DOMAIN s : s[i] # b
  BY DEF Range
<1>4. IsInjective(q)
  BY <1>1, <1>2, <1>3 DEF IsInjective
<1>5. Range(q) = Range(s) \cup {b}
  <2>1. ASSUME NEW x \in Range(q) PROVE x \in Range(s) \cup {b}
    <3>1. PICK i \in DOMAIN q : x = q[i]
      BY <2>1 DEF Range
    <3>2. CASE i = Len(s) + 1
      BY <3>1, <3>2, <1>1
    <3>3. CASE i # Len(s) + 1
      <4>1. i \in DOMAIN s /\ x = s[i]
        BY <3>1, <3>3, <1>1, <1>2
      <4>2. QED
        BY <4>1 DEF Range
    <3>4. QED
      BY <3>2, <3>3
  <2>2. ASSUME NEW x \in Range(s) PROVE x \in Range(q)
    <3>1. PICK i \in DOMAIN s : x = s[i]
      BY <2>2 DEF Range
    <3>2. i \in DOMAIN q /\ x = q[i]
      BY <3>1, <1>1, <1>2
    <3>3. QED
      BY <3>2 DEF Range
  <2>3. b \in Range(q)
    <3>1. Len(s) + 1 \in DOMAIN q
      BY <1>2
    <3>2. QED
      BY <3>1, <1>1 DEF Range
  <2>4. QED
    BY <2>1, <2>2, <2>3
<1>6. QED
  BY <1>1, <1>4, <1>5 DEF q

\* A list with a new first element.
LEMMA WithFirst ==
    ASSUME NEW S, NEW s \in Seq(S), NEW b \in S, b \notin Range(s), IsInjective(s)
    PROVE  /\ <<b>> \o s \in Seq(S) /\ Len(<<b>> \o s) = Len(s) + 1
           /\ IsInjective(<<b>> \o s)
           /\ Range(<<b>> \o s) = Range(s) \cup {b}
<1> DEFINE q == <<b>> \o s
<1>1. /\ q \in Seq(S) /\ Len(q) = Len(s) + 1 /\ q[1] = b
      /\ \A i \in 2 .. Len(s) + 1 : q[i] = s[i - 1]
  OBVIOUS
<1>2. DOMAIN q = 1 .. Len(s) + 1 /\ DOMAIN s = 1 .. Len(s) /\ Len(s) \in Nat
  BY <1>1
<1> HIDE DEF q
<1>3. \A i \in DOMAIN s : s[i] # b
  BY DEF Range
<1>4. IsInjective(q)
  <2> SUFFICES ASSUME NEW i \in DOMAIN q, NEW j \in DOMAIN q, q[i] = q[j] PROVE i = j
    BY DEF IsInjective
  <2>1. \A k \in DOMAIN q : k = 1 \/ (k - 1 \in DOMAIN s /\ q[k] = s[k - 1])
    BY <1>1, <1>2
  <2>2. QED
    BY <2>1, <1>1, <1>2, <1>3 DEF IsInjective
<1>5. Range(q) = Range(s) \cup {b}
  <2>1. ASSUME NEW x \in Range(q) PROVE x \in Range(s) \cup {b}
    <3>1. PICK i \in DOMAIN q : x = q[i]
      BY <2>1 DEF Range
    <3>2. CASE i = 1
      BY <3>1, <3>2, <1>1
    <3>3. CASE i # 1
      <4>1. i - 1 \in DOMAIN s /\ x = s[i - 1]
        BY <3>1, <3>3, <1>1, <1>2
      <4>2. QED
        BY <4>1 DEF Range
    <3>4. QED
      BY <3>2, <3>3
  <2>2. ASSUME NEW x \in Range(s) PROVE x \in Range(q)
    <3>1. PICK i \in DOMAIN s : x = s[i]
      BY <2>2 DEF Range
    <3>2. i + 1 \in DOMAIN q /\ x = q[i + 1]
      BY <3>1, <1>1, <1>2
    <3>3. QED
      BY <3>2 DEF Range
  <2>3. b \in Range(q)
    <3>1. 1 \in DOMAIN q
      BY <1>2
    <3>2. QED
      BY <3>1, <1>1 DEF Range
  <2>4. QED
    BY <2>1, <2>2, <2>3
<1>6. QED
  BY <1>1, <1>4, <1>5 DEF q

-----------------------------------------------------------------------------
(* Sums over sequences of sizes, and a sequence without one of its places *)

\* Every sequence of sizes has its sums.
LEMMA SumsExist ==
    ASSUME NEW w, NEW n \in Nat
    PROVE  \E g : g = [i \in 0 .. n |-> IF i = 0 THEN 0 ELSE g[i - 1] + w[i]]
<1> DEFINE Sum(g, i) == IF i = 0 THEN 0 ELSE g[i - 1] + w[i]
           Good(k, g) == g = [i \in 0 .. k |-> Sum(g, i)]
           T == {k \in Nat : \E g : Good(k, g)}
<1>1. 0 \in T
  <2> DEFINE g == [i \in 0 .. 0 |-> 0]
  <2>1. Good(0, g)
    OBVIOUS
  <2> QED  BY <2>1
<1>2. ASSUME NEW k \in T PROVE k + 1 \in T
  <2>1. PICK g : Good(k, g)
    OBVIOUS
  <2> DEFINE h == [i \in 0 .. (k + 1) |-> IF i = k + 1 THEN g[k] + w[k + 1] ELSE g[i]]
  <2>2. k \in Nat /\ \A i \in 0 .. k : g[i] = Sum(g, i)
    BY <2>1
  <2>3. ASSUME NEW i \in 0 .. (k + 1) PROVE h[i] = Sum(h, i)
    <3>1. CASE i = k + 1
      BY <3>1, <2>2
    <3>2. CASE i \in 0 .. k
      <4>1. h[i] = g[i] /\ g[i] = Sum(g, i)
        BY <3>2, <2>2
      <4>2. i # 0 => h[i - 1] = g[i - 1]
        BY <3>2, <2>2
      <4> QED  BY <4>1, <4>2
    <3> QED  BY <3>1, <3>2, <2>2
  <2>4. Good(k + 1, h)
    BY <2>3
  <2>5. k + 1 \in Nat
    BY <2>2
  <2> HIDE DEF Good, h
  <2> QED  BY <2>4, <2>5
<1>3. n \in T
  <2> HIDE DEF T
  <2>1. T \in SUBSET Nat  BY DEF T
  <2> QED  BY <2>1, <1>1, <1>2, SetInduction
<1> QED  BY <1>3

\* The sums of a sequence of numbers are what their recursion says.
LEMMA SumsSpec ==
    ASSUME NEW w \in Seq(Nat)
    PROVE  /\ PrefixSums(w)[0] = 0
           /\ \A i \in 1 .. Len(w) : PrefixSums(w)[i] = PrefixSums(w)[i - 1] + w[i]
           /\ \A i \in 0 .. Len(w) : PrefixSums(w)[i] \in Nat
<1> DEFINE f == PrefixSums(w)
           Good(g) == g = [i \in 0 .. Len(w) |-> IF i = 0 THEN 0 ELSE g[i - 1] + w[i]]
<1>1. Len(w) \in Nat /\ \A i \in 1 .. Len(w) : w[i] \in Nat
  OBVIOUS
<1>2. \E g : Good(g)
  BY <1>1, SumsExist
<1>3. Good(f)
  BY <1>2 DEF PrefixSums
<1> HIDE DEF f
<1>4. f[0] = 0 /\ \A i \in 1 .. Len(w) : f[i] = f[i - 1] + w[i]
  <2>1. \A i \in 0 .. Len(w) : f[i] = IF i = 0 THEN 0 ELSE f[i - 1] + w[i]
    BY <1>3
  <2> HIDE DEF Good
  <2> QED  BY <2>1, <1>1
<1> HIDE DEF Good
<1> DEFINE T == {k \in Nat : k <= Len(w) => f[k] \in Nat}
<1>5. 0 \in T
  BY <1>4
<1>6. ASSUME NEW k \in T PROVE k + 1 \in T
  <2>1. ASSUME k + 1 <= Len(w) PROVE f[k + 1] \in Nat
    <3>1. k \in Nat /\ k + 1 \in 1 .. Len(w) /\ f[k] \in Nat /\ w[k + 1] \in Nat /\ (k + 1) - 1 = k
      BY <1>1, <2>1
    <3> QED  BY <3>1, <1>4
  <2> QED  BY <2>1
<1>7. \A k \in Nat : k \in T
  <2> HIDE DEF T
  <2>1. T \in SUBSET Nat  BY DEF T
  <2> QED  BY <2>1, <1>5, <1>6, SetInduction
<1>8. \A i \in 0 .. Len(w) : f[i] \in Nat
  BY <1>1, <1>7
<1> QED  BY <1>4, <1>8 DEF f

\* The m elements of w after the first a are those of v after the first b.
SamePieces(w, a, v, b, m) ==
    a + m <= Len(w) /\ b + m <= Len(v) /\ \A i \in 1 .. m : w[a + i] = v[b + i]

\* Where a part of one sequence is a part of another, the sums grow alike.
LEMMA SamePart ==
    ASSUME NEW w \in Seq(Nat), NEW v \in Seq(Nat), NEW a \in Nat, NEW b \in Nat, NEW m \in Nat,
           SamePieces(w, a, v, b, m)
    PROVE  PrefixSums(w)[a + m] - PrefixSums(w)[a] = PrefixSums(v)[b + m] - PrefixSums(v)[b]
<1> USE DEF SamePieces
<1> DEFINE f == PrefixSums(w)
           g == PrefixSums(v)
<1>1. /\ \A i \in 1 .. Len(w) : f[i] = f[i - 1] + w[i]
      /\ \A i \in 0 .. Len(w) : f[i] \in Nat
      /\ \A i \in 1 .. Len(v) : g[i] = g[i - 1] + v[i]
      /\ \A i \in 0 .. Len(v) : g[i] \in Nat
  BY SumsSpec
<1> HIDE DEF f, g
<1>2. Len(w) \in Nat /\ Len(v) \in Nat /\ \A i \in 1 .. Len(w) : w[i] \in Nat
  OBVIOUS
<1>3. ASSUME NEW i \in 0 .. m PROVE f[a + i] \in Int /\ g[b + i] \in Int
  <2>1. a + i \in 0 .. Len(w) /\ b + i \in 0 .. Len(v)
    BY <1>2
  <2> QED  BY <2>1, <1>1
<1>4. ASSUME NEW i \in 1 .. m PROVE f[a + i] - f[a + i - 1] = g[b + i] - g[b + i - 1]
  <2>1. /\ a + i \in 1 .. Len(w) /\ b + i \in 1 .. Len(v)
        /\ a + i - 1 \in 0 .. Len(w) /\ b + i - 1 \in 0 .. Len(v)
    BY <1>2
  <2>2. /\ f[a + i] = f[a + i - 1] + w[a + i] /\ g[b + i] = g[b + i - 1] + v[b + i]
        /\ f[a + i - 1] \in Nat /\ g[b + i - 1] \in Nat /\ w[a + i] \in Nat /\ w[a + i] = v[b + i]
    BY <2>1, <1>1, <1>2, SMTT(60)
  <2> QED  BY <2>2, SMTT(60)
<1> DEFINE T == {k \in Nat : k <= m => f[a + k] - f[a] = g[b + k] - g[b]}
<1>0. f[a] \in Int /\ g[b] \in Int
  <2>1. 0 \in 0 .. m /\ a + 0 = a /\ b + 0 = b
    OBVIOUS
  <2> QED  BY <2>1, <1>3
<1>5. 0 \in T
  <2>1. a + 0 = a /\ b + 0 = b
    OBVIOUS
  <2> QED  BY <2>1, <1>0
<1>6. ASSUME NEW k \in T PROVE k + 1 \in T
  <2>0. k \in Nat /\ (k <= m => f[a + k] - f[a] = g[b + k] - g[b])
    OBVIOUS
  <2> HIDE DEF T
  <2>1. ASSUME k + 1 <= m PROVE f[a + (k + 1)] - f[a] = g[b + (k + 1)] - g[b]
    <3>1. k \in Nat /\ k + 1 \in 1 .. m /\ k \in 0 .. m /\ k + 1 \in 0 .. m
      BY <2>0, <2>1
    <3>2. a + (k + 1) - 1 = a + k /\ b + (k + 1) - 1 = b + k
      BY <3>1
    <3>3. f[a + k] \in Int /\ g[b + k] \in Int /\ f[a + (k + 1)] \in Int /\ g[b + (k + 1)] \in Int
      BY <3>1, <1>3
    <3>4. f[a + (k + 1)] - f[a + k] = g[b + (k + 1)] - g[b + k]
      BY <3>1, <3>2, <1>4
    <3>5. f[a + k] - f[a] = g[b + k] - g[b]
      BY <3>1, <2>0
    <3> DEFINE p == f[a + (k + 1)]
               q == g[b + (k + 1)]
               r == f[a + k]
               s == g[b + k]
               c == f[a]
               d == g[b]
    <3>6. p \in Int /\ q \in Int /\ r \in Int /\ s \in Int /\ c \in Int /\ d \in Int
      BY <3>3, <1>0
    <3>7. p - r = q - s /\ r - c = s - d
      BY <3>4, <3>5
    <3> HIDE DEF p, q, r, s, c, d
    <3>8. p - c = q - d
      BY <3>6, <3>7
    <3> QED  BY <3>8 DEF p, q, c, d
  <2>2. k + 1 \in Nat
    BY <2>0
  <2> QED  BY <2>1, <2>2 DEF T
<1>7. m \in T
  <2> HIDE DEF T
  <2>1. T \in SUBSET Nat  BY DEF T
  <2> QED  BY <2>1, <1>5, <1>6, SetInduction
<1>8. f[a + m] - f[a] = g[b + m] - g[b]
  BY <1>7
<1> QED  BY <1>8 DEF f, g

\* The sum of all elements is a number.
LEMMA TotalNat ==
    ASSUME NEW w \in Seq(Nat)
    PROVE  Total(w) \in Nat /\ (w = <<>> => Total(w) = 0)
<1>1. Len(w) \in 0 .. Len(w) /\ (w = <<>> => Len(w) = 0)
  OBVIOUS
<1> QED  BY <1>1, SumsSpec DEF Total

\* v is w with x in front.
FrontOf(v, x, w) == Len(v) = 1 + Len(w) /\ v[1] = x /\ \A i \in 1 .. Len(w) : v[1 + i] = w[i]

\* v is w without its element p.
CutOf(v, w, p) ==
    1 + Len(v) = Len(w) /\ \A i \in 1 .. Len(v) : v[i] = IF i < p THEN w[i] ELSE w[1 + i]

\* The sum with one more in front.
LEMMA TotalFront ==
    ASSUME NEW v \in Seq(Nat), NEW w \in Seq(Nat), NEW x \in Nat, FrontOf(v, x, w)
    PROVE  Total(v) = x + Total(w)
<1> DEFINE n == Len(w)
<1>1. n \in Nat /\ Len(v) = 1 + n /\ v[1] = x /\ \A i \in 1 .. n : v[1 + i] = w[i]
  BY DEF FrontOf
<1>2. PrefixSums(v)[1 + n] - PrefixSums(v)[1] = PrefixSums(w)[0 + n] - PrefixSums(w)[0]
  <2>1. 1 \in Nat /\ 0 \in Nat /\ SamePieces(v, 1, w, 0, n)
    BY <1>1 DEF SamePieces
  <2> HIDE DEF n
  <2> QED  BY <1>1, <2>1, SamePart
<1>3. /\ PrefixSums(v)[0] = 0 /\ PrefixSums(w)[0] = 0
      /\ 1 \in 1 .. Len(v) /\ PrefixSums(v)[1] = PrefixSums(v)[1 - 1] + v[1]
      /\ PrefixSums(v)[1 + n] \in Nat /\ PrefixSums(w)[n] \in Nat
  <2>1. 1 \in 1 .. Len(v) /\ 1 + n \in 0 .. Len(v) /\ n \in 0 .. Len(w)
    BY <1>1
  <2> QED  BY <2>1, <1>1, SumsSpec
<1>4. 0 + n = n /\ 1 - 1 = 0
  BY <1>1
<1>5. PrefixSums(v)[1] = x
  BY <1>1, <1>3, <1>4
<1>6. PrefixSums(v)[1 + n] = x + PrefixSums(w)[n]
  BY <1>2, <1>3, <1>4, <1>5
<1> QED  BY <1>1, <1>6 DEF Total

\* The sum without one element.
LEMMA TotalCut ==
    ASSUME NEW v \in Seq(Nat), NEW w \in Seq(Nat), NEW p \in 1 .. Len(w), CutOf(v, w, p)
    PROVE  Total(v) = Total(w) - w[p]
<1> DEFINE n == Len(v)
           m == n - (p - 1)
<1>1. /\ n \in Nat /\ Len(w) = 1 + n /\ p \in Nat /\ p - 1 \in Nat /\ m \in Nat
      /\ (p - 1) + m = n /\ p + m = 1 + n /\ w[p] \in Nat
      /\ \A i \in 1 .. n : v[i] = IF i < p THEN w[i] ELSE w[1 + i]
  BY DEF CutOf
<1> HIDE DEF n, m
<1>2. SamePieces(v, 0, w, 0, p - 1)
  <2>1. 0 + (p - 1) <= Len(v) /\ 0 + (p - 1) <= Len(w)
    BY <1>1 DEF n
  <2>2. ASSUME NEW i \in 1 .. p - 1 PROVE v[0 + i] = w[0 + i]
    <3>1. i \in 1 .. n /\ i < p /\ 0 + i = i
      BY <1>1
    <3> QED  BY <3>1, <1>1
  <2> QED  BY <2>1, <2>2 DEF SamePieces
<1>3. SamePieces(v, p - 1, w, p, m)
  <2>1. (p - 1) + m <= Len(v) /\ p + m <= Len(w)
    BY <1>1 DEF n
  <2>2. ASSUME NEW i \in 1 .. m PROVE v[(p - 1) + i] = w[p + i]
    <3>1. (p - 1) + i \in 1 .. n /\ ~((p - 1) + i < p) /\ 1 + ((p - 1) + i) = p + i
      BY <1>1
    <3> QED  BY <3>1, <1>1
  <2> QED  BY <2>1, <2>2 DEF SamePieces
<1> DEFINE F == PrefixSums(v)
           G == PrefixSums(w)
<1>4. F[0 + (p - 1)] - F[0] = G[0 + (p - 1)] - G[0]
  <2>1. 0 \in Nat
    OBVIOUS
  <2> QED  BY <1>1, <1>2, <2>1, SamePart
<1>5. F[(p - 1) + m] - F[p - 1] = G[p + m] - G[p]
  BY <1>1, <1>3, SamePart
<1>6. /\ F[0] = 0 /\ G[0] = 0 /\ F[p - 1] \in Nat /\ G[p - 1] \in Nat /\ F[n] \in Nat
      /\ G[1 + n] \in Nat /\ G[p] = G[p - 1] + w[p]
  <2>1. p - 1 \in 0 .. Len(v) /\ p - 1 \in 0 .. Len(w) /\ n \in 0 .. Len(v) /\ 1 + n \in 0 .. Len(w)
    BY <1>1 DEF n
  <2> QED  BY <2>1, SumsSpec
<1>7. 0 + (p - 1) = p - 1
  BY <1>1
<1> HIDE DEF F, G
<1>8. F[p - 1] = G[p - 1]
  BY <1>4, <1>6, <1>7
<1>9. F[n] - F[p - 1] = G[1 + n] - (G[p - 1] + w[p])
  BY <1>1, <1>5, <1>6
<1>10. F[n] = G[1 + n] - w[p]
  <2> DEFINE x == F[n]
             y == F[p - 1]
             z == G[1 + n]
             u == w[p]
  <2>1. x \in Nat /\ y \in Nat /\ z \in Nat /\ u \in Nat /\ x - y = z - (y + u)
    BY <1>1, <1>6, <1>8, <1>9
  <2> HIDE DEF x, y, z, u
  <2>2. x = z - u
    BY <2>1
  <2> QED  BY <2>2 DEF x, z, u
<1> QED  BY <1>1, <1>10 DEF Total, F, G, n

\* The sum of a beginning.
LEMMA TotalHead ==
    ASSUME NEW v \in Seq(Nat), NEW w \in Seq(Nat), SamePieces(v, 0, w, 0, Len(v))
    PROVE  Total(v) = PrefixSums(w)[Len(v)]
<1> DEFINE k == Len(v)
<1>1. Len(w) \in Nat /\ k \in Nat /\ k <= Len(w)
  BY DEF SamePieces
<1>2. PrefixSums(v)[0 + k] - PrefixSums(v)[0] = PrefixSums(w)[0 + k] - PrefixSums(w)[0]
  <2>1. 0 \in Nat
    BY <1>1 DEF SamePieces
  <2> QED  BY <1>1, <2>1, SamePart
<1>3. /\ PrefixSums(v)[0] = 0 /\ PrefixSums(w)[0] = 0 /\ PrefixSums(v)[k] \in Nat /\ PrefixSums(w)[k] \in Nat
  <2>1. k \in 0 .. Len(v) /\ k \in 0 .. Len(w)
    BY <1>1
  <2> QED  BY <2>1, <1>1, SumsSpec
<1>4. 0 + k = k
  BY <1>1
<1>5. PrefixSums(v)[k] = PrefixSums(w)[k]
  BY <1>2, <1>3, <1>4
<1> QED  BY <1>1, <1>5 DEF Total

\* The sum of an end.
LEMMA TotalTail ==
    ASSUME NEW v \in Seq(Nat), NEW w \in Seq(Nat), NEW k \in Nat, k + Len(v) = Len(w),
           SamePieces(v, 0, w, k, Len(v))
    PROVE  Total(v) = Total(w) - PrefixSums(w)[k]
<1> DEFINE m == Len(v)
<1>1. Len(w) \in Nat /\ m \in Nat /\ k + m = Len(w)
  OBVIOUS
<1>2. PrefixSums(v)[0 + m] - PrefixSums(v)[0] = PrefixSums(w)[k + m] - PrefixSums(w)[k]
  <2>1. 0 \in Nat
    OBVIOUS
  <2> QED  BY <1>1, <2>1, SamePart
<1>3. /\ PrefixSums(v)[0] = 0 /\ PrefixSums(v)[m] \in Nat
      /\ PrefixSums(w)[k] \in Nat /\ PrefixSums(w)[Len(w)] \in Nat
  <2>1. m \in 0 .. Len(v) /\ k \in 0 .. Len(w) /\ Len(w) \in 0 .. Len(w)
    BY <1>1
  <2> QED  BY <2>1, <1>1, SumsSpec
<1>4. 0 + m = m
  BY <1>1
<1>5. PrefixSums(v)[m] = PrefixSums(w)[Len(w)] - PrefixSums(w)[k]
  <2>1. PrefixSums(v)[m] - PrefixSums(v)[0] = PrefixSums(w)[Len(w)] - PrefixSums(w)[k]
    BY <1>1, <1>2, <1>4
  <2> QED  BY <2>1, <1>3
<1> QED  BY <1>5 DEF Total

\* A list without the element at p.
LEMMA CutIs ==
    ASSUME NEW S, NEW s \in Seq(S), NEW p \in 1 .. Len(s)
    PROVE  /\ RemoveAt(s, p) \in Seq(S) /\ CutOf(RemoveAt(s, p), s, p)
           /\ Len(RemoveAt(s, p)) = Len(s) - 1
<1> DEFINE a == SubSeq(s, 1, p - 1)
           b == SubSeq(s, p + 1, Len(s))
           n == Len(s)
<1>1. /\ n \in Nat /\ p \in Nat /\ p - 1 \in Nat /\ p >= 1 /\ p <= n /\ (p - 1) - 1 + 1 = p - 1
      /\ n - (p + 1) + 1 = n - p
  OBVIOUS
<1>2. (\A i \in 1 .. p - 1 : s[i] \in S) /\ (\A i \in p + 1 .. n : s[i] \in S)
  BY <1>1
<1>3. /\ a \in Seq(S) /\ Len(a) = IF 1 <= p - 1 THEN (p - 1) - 1 + 1 ELSE 0
      /\ \A i \in 1 .. (p - 1) - 1 + 1 : a[i] = s[1 + i - 1]
  BY <1>1, <1>2, SubSeqProperties
<1>4. /\ b \in Seq(S) /\ Len(b) = IF p + 1 <= n THEN n - (p + 1) + 1 ELSE 0
      /\ \A i \in 1 .. n - (p + 1) + 1 : b[i] = s[p + 1 + i - 1]
  <2>1. p + 1 \in Int /\ n \in Int
    BY <1>1
  <2> QED  BY <2>1, <1>2, SubSeqProperties
<1>5. RemoveAt(s, p) = a \o b
  BY DEF RemoveAt
<1> HIDE DEF a, b, n
<1>6. Len(a) = p - 1 /\ Len(b) = n - p
  BY <1>1, <1>3, <1>4
<1>7. a \o b \in Seq(S) /\ Len(a \o b) = n - 1
  <2>1. a \o b \in Seq(S) /\ Len(a \o b) = Len(a) + Len(b)
    <3>1. a \in Seq(S) /\ b \in Seq(S)
      BY <1>3, <1>4
    <3> QED  BY <3>1, ConcatProperties
  <2> QED  BY <2>1, <1>1, <1>6
<1>8. ASSUME NEW i \in 1 .. n - 1 PROVE (a \o b)[i] = IF i < p THEN s[i] ELSE s[1 + i]
  <2>1. (a \o b)[i] = IF i <= p - 1 THEN a[i] ELSE b[i - (p - 1)]
    BY <1>1, <1>3, <1>4, <1>6
  <2>2. CASE i < p
    <3>1. i \in 1 .. (p - 1) - 1 + 1 /\ i <= p - 1 /\ 1 + i - 1 = i
      BY <2>2, <1>1
    <3>2. a[i] = s[i]
      BY <3>1, <1>3
    <3> QED  BY <2>1, <2>2, <3>1, <3>2
  <2>3. CASE ~(i < p)
    <3>1. /\ i - (p - 1) \in 1 .. n - (p + 1) + 1 /\ ~(i <= p - 1)
          /\ p + 1 + (i - (p - 1)) - 1 = 1 + i
      BY <2>3, <1>1
    <3>2. b[i - (p - 1)] = s[1 + i]
      BY <3>1, <1>4
    <3> QED  BY <2>1, <2>3, <3>1, <3>2
  <2> QED  BY <2>2, <2>3
<1>9. 1 + Len(a \o b) = Len(s)
  BY <1>1, <1>7 DEF n
<1>10. CutOf(a \o b, s, p)
  BY <1>7, <1>8, <1>9 DEF CutOf
<1> QED  BY <1>5, <1>7, <1>10 DEF n

\* A list with one more in front.
LEMMA FrontIs ==
    ASSUME NEW S, NEW s \in Seq(S), NEW x \in S
    PROVE  /\ <<x>> \o s \in Seq(S) /\ FrontOf(<<x>> \o s, x, s)
           /\ Len(<<x>> \o s) = Len(s) + 1
<1>1. /\ <<x>> \o s \in Seq(S) /\ Len(<<x>> \o s) = Len(s) + 1 /\ Len(s) \in Nat
      /\ (<<x>> \o s)[1] = x /\ \A i \in 1 .. Len(s) : (<<x>> \o s)[1 + i] = s[i]
  OBVIOUS
<1>2. 1 + Len(s) = Len(s) + 1
  BY <1>1
<1> HIDE DEF FrontOf
<1> QED  BY <1>1, <1>2 DEF FrontOf

\* What is left of a list without repetition does not repeat, and has all but the
\* element that was cut.
LEMMA CutInjective ==
    ASSUME NEW S, NEW s \in Seq(S), NEW v \in Seq(S), NEW p \in 1 .. Len(s), CutOf(v, s, p),
           IsInjective(s)
    PROVE  IsInjective(v) /\ Range(v) = Range(s) \ {s[p]}
<1> DEFINE n == Len(v)
           at(i) == IF i < p THEN i ELSE 1 + i
<1>1. /\ n \in Nat /\ Len(s) = 1 + n /\ p \in 1 .. 1 + n /\ DOMAIN v = 1 .. n /\ DOMAIN s = 1 .. 1 + n
      /\ \A i \in 1 .. n : v[i] = IF i < p THEN s[i] ELSE s[1 + i]
  BY DEF CutOf
<1> HIDE DEF n
<1>2. \A i \in 1 .. n : at(i) \in 1 .. 1 + n /\ at(i) # p /\ v[i] = s[at(i)]
  BY <1>1
<1>3. \A i, j \in 1 .. n : at(i) = at(j) => i = j
  BY <1>1
<1>4. ASSUME NEW j \in 1 .. 1 + n, j # p PROVE \E i \in 1 .. n : at(i) = j
  <2>1. CASE j < p
    <3>1. j \in 1 .. n /\ at(j) = j
      BY <2>1, <1>1
    <3> QED  BY <3>1
  <2>2. CASE ~(j < p)
    <3>1. j - 1 \in 1 .. n /\ at(j - 1) = j
      BY <2>2, <1>1, <1>4
    <3> QED  BY <3>1
  <2> QED  BY <2>1, <2>2
<1> HIDE DEF at
<1>5. \A i, j \in 1 .. 1 + n : s[i] = s[j] => i = j
  BY <1>1 DEF IsInjective
<1>6. IsInjective(v)
  BY <1>1, <1>2, <1>3, <1>5 DEF IsInjective
<1>7. ASSUME NEW x \in Range(v) PROVE x \in Range(s) \ {s[p]}
  <2>1. PICK i \in 1 .. n : x = v[i]
    BY <1>1 DEF Range
  <2>2. at(i) \in DOMAIN s /\ x = s[at(i)] /\ at(i) # p
    BY <1>1, <1>2, <2>1
  <2>3. x # s[p]
    BY <1>1, <1>5, <2>2
  <2> QED  BY <2>2, <2>3 DEF Range
<1>8. ASSUME NEW x \in Range(s) \ {s[p]} PROVE x \in Range(v)
  <2>1. PICK j \in 1 .. 1 + n : x = s[j]
    BY <1>1 DEF Range
  <2>2. PICK i \in 1 .. n : at(i) = j
    BY <1>4, <2>1
  <2>3. x = v[i] /\ i \in DOMAIN v
    BY <1>1, <1>2, <2>1, <2>2
  <2> QED  BY <2>3 DEF Range
<1> QED  BY <1>6, <1>7, <1>8

\* The same for the first place where an element stands.
LEMMA UnlinkIs ==
    ASSUME NEW S, NEW s \in Seq(S), NEW e
    PROVE  /\ e \notin Range(s) => RemoveFirst(s, e) = s
           /\ e \in Range(s) => \E p \in 1 .. Len(s) : s[p] = e /\ RemoveFirst(s, e) = RemoveAt(s, p)
<1> DEFINE I == {i \in 1 .. Len(s) : s[i] = e}
<1>1. DOMAIN s = 1 .. Len(s) /\ Len(s) \in Nat
  OBVIOUS
<1>2. e \in Range(s) <=> I # {}
  BY <1>1 DEF Range
<1>3. CASE I = {}
  BY <1>2, <1>3 DEF RemoveFirst
<1>4. CASE I # {}
  <2>1. I \in SUBSET Nat
    BY <1>1
  <2>2. PICK x \in I : \A y \in I : x <= y
    <3> HIDE DEF I
    <3> QED  BY <1>4, <2>1, LeastNat
  <2>3. Min(I) \in I
    <3>1. \E z \in I : \A y \in I : z =< y
      BY <2>2
    <3> HIDE DEF I
    <3> QED  BY <3>1 DEF Min
  <2>4. SelectInSeq(s, LAMBDA v : v = e) = Min(I)
    BY <1>4 DEF SelectInSeq
  <2>5. RemoveFirst(s, e) = RemoveAt(s, Min(I))
    BY <1>4, <2>4 DEF RemoveFirst
  <2>6. Min(I) \in 1 .. Len(s) /\ s[Min(I)] = e
    BY <2>3
  <2> QED  BY <1>2, <1>4, <2>5, <2>6
<1> QED  BY <1>3, <1>4

-----------------------------------------------------------------------------
(* The page cache *)

\* The cache as a value has the fields of its seven variables; the property is about three.
CacheFields == {"live", "lru", "count", "size", "dirty", "deferred", "mem"}
Holds(c, live, lru, mem) ==
    DOMAIN c = CacheFields /\ c.live = live /\ c.lru = lru /\ c.mem = mem

\* The cache as it stands.
LEMMA CacheHolds == Holds(Cache, bcLive, bcLru, bcMem)
  BY DEF Holds, Cache, CacheFields

\* What assignments to the fields of a cache leave of it.
LEMMA Assigned ==
    ASSUME NEW c, NEW L, NEW U, NEW M, Holds(c, L, U, M), NEW x
    PROVE  /\ Holds([c EXCEPT !.live = x], x, U, M)
           /\ Holds([c EXCEPT !.lru = x], L, x, M)
           /\ Holds([c EXCEPT !.mem = x], L, U, x)
           /\ Holds([c EXCEPT !.count = x], L, U, M)
           /\ Holds([c EXCEPT !.size = x], L, U, M)
           /\ Holds([c EXCEPT !.dirty = x], L, U, M)
           /\ Holds([c EXCEPT !.deferred = x], L, U, M)
  BY DEF Holds, CacheFields

\* A resized table has the same items.
LEMMA ResizeHolds ==
    ASSUME NEW c, NEW L, NEW U, NEW M, Holds(c, L, U, M), NEW s
    PROVE  Holds(shard_resize(c, s), L, U, M)
  BY DEF shard_resize, Holds, CacheFields

\* shard_remove.
LEMMA RemoveHolds ==
    ASSUME NEW c, NEW L, NEW U, NEW M, Holds(c, L, U, M), NEW o
    PROVE  Holds(shard_remove(c, o), [L EXCEPT ![o] = NoItem], U, M)
<1> DEFINE k == [c.count EXCEPT ![BcShard(o)] = (@ - 1) % CountMod]
           l == [c.live EXCEPT ![o] = NoItem]
<1>1. shard_remove(c, o) = [c EXCEPT !.live = l, !.count = k]
  BY DEF shard_remove
<1>2. l = [L EXCEPT ![o] = NoItem]
  BY DEF Holds
<1> HIDE DEF k, l
<1>3. Holds([c EXCEPT !.live = l, !.count = k], l, U, M)
  BY DEF Holds, CacheFields
<1> QED  BY <1>1, <1>2, <1>3

\* shard_insert.
LEMMA InsertHolds ==
    ASSUME NEW c, NEW L, NEW U, NEW M, Holds(c, L, U, M), NEW o, NEW item
    PROVE  Holds(shard_insert(c, o, item), [L EXCEPT ![o] = item], U, M)
<1> DEFINE r == shard_resize(c, BcShard(o))
           k == [r.count EXCEPT ![BcShard(o)] = (@ + 1) % CountMod]
           l == [r.live EXCEPT ![o] = item]
<1>1. shard_insert(c, o, item) = [r EXCEPT !.live = l, !.count = k]
  BY DEF shard_insert
<1>2. Holds(r, L, U, M)
  BY ResizeHolds
<1> HIDE DEF r
<1>3. l = [L EXCEPT ![o] = item]
  BY <1>2 DEF Holds
<1> HIDE DEF k, l
<1>4. Holds([r EXCEPT !.live = l, !.count = k], l, U, M)
  BY <1>2 DEF Holds, CacheFields
<1> QED  BY <1>1, <1>3, <1>4

\* The list operations.
LEMMA ListHolds ==
    ASSUME NEW c, NEW L, NEW U, NEW M, Holds(c, L, U, M), NEW o
    PROVE  /\ Holds(lru_remove(c, o), L, [U EXCEPT ![BcShard(o)] = RemoveFirst(@, o)], M)
           /\ Holds(lru_push_front(c, o), L, [U EXCEPT ![BcShard(o)] = <<o>> \o @], M)
<1> DEFINE s == BcShard(o)
           a == [c.lru EXCEPT ![s] = RemoveFirst(@, o)]
           b == [c.lru EXCEPT ![s] = <<o>> \o @]
<1>1. /\ lru_remove(c, o) = [c EXCEPT !.lru = a]
      /\ lru_push_front(c, o) = [c EXCEPT !.lru = b]
  BY DEF lru_remove, lru_push_front
<1>2. c.lru = U
  BY DEF Holds
<1>3. a = [U EXCEPT ![s] = RemoveFirst(@, o)] /\ b = [U EXCEPT ![s] = <<o>> \o @]
  BY <1>2
<1> HIDE DEF a, b
<1>4. Holds([c EXCEPT !.lru = a], L, a, M) /\ Holds([c EXCEPT !.lru = b], L, b, M)
  BY Assigned
<1> QED  BY <1>1, <1>3, <1>4

\* The second decrement of item_count.
LEMMA UncountHolds ==
    ASSUME NEW c, NEW L, NEW U, NEW M, Holds(c, L, U, M), NEW s
    PROVE  Holds(Uncount(c, s), L, U, M)
  BY DEF Uncount, Holds, CacheFields

\* A cached item has a length; its holders count its references.
LiveItem == [len : Nat \ {0}, dirty : BOOLEAN, ref : Nat, inval : BOOLEAN]
Items == LiveItem \cup {NoItem}

\* The lengths of the items of a list.
Lens(live, q) == [i \in 1 .. Len(q) |-> live[q[i]].len]

\* The list of shard s of n: the cached items of that shard, each once.
ShardList(n, s, q, live) ==
    /\ q \in Seq(BcOffsets) /\ IsInjective(q)
    /\ Range(q) = {o \in BcOffsets : live[o] # NoItem /\ o % n = s}

\* A cache of n shards that agrees with itself.
Paged(n, live, lru, mem) ==
    /\ live \in [BcOffsets -> Items]
    /\ lru \in [0 .. n - 1 -> Seq(BcOffsets)]
    /\ \A s \in 0 .. n - 1 : ShardList(n, s, lru[s], live)
    /\ n = 1 => mem = Total(Lens(live, lru[0]))

\* An item in the table is one, and its length is not that of a missing one.
LEMMA ItemIs ==
    ASSUME NEW x \in Items
    PROVE  /\ x.len \in Nat /\ x.ref \in Nat /\ x.dirty \in BOOLEAN /\ x.inval \in BOOLEAN
           /\ DOMAIN x = {"len", "dirty", "ref", "inval"}
           /\ x # NoItem => x \in LiveItem /\ x.len \in Nat \ {0}
           /\ x \in LiveItem => x # NoItem
           /\ NoItem.len = 0 /\ NoItem.ref = 0
<1>1. NoItem.len = 0 /\ NoItem.ref = 0 /\ NoItem.dirty \in BOOLEAN /\ NoItem.inval \in BOOLEAN
  BY DEF NoItem
<1>2. DOMAIN NoItem = {"len", "dirty", "ref", "inval"}
  BY DEF NoItem
<1>3. CASE x \in LiveItem
  BY <1>1, <1>3 DEF LiveItem
<1>4. CASE x = NoItem
  <2>1. x \notin LiveItem
    BY <1>1, <1>4 DEF LiveItem
  <2> QED  BY <1>1, <1>2, <1>4, <2>1
<1> QED  BY <1>3, <1>4 DEF Items

\* The lengths of a list are natural numbers.
LEMMA LensNat ==
    ASSUME NEW L \in [BcOffsets -> Items], NEW q \in Seq(BcOffsets)
    PROVE  /\ Lens(L, q) \in Seq(Nat) /\ Len(Lens(L, q)) = Len(q)
           /\ \A i \in 1 .. Len(q) : Lens(L, q)[i] = L[q[i]].len
<1>1. Len(q) \in Nat /\ \A i \in 1 .. Len(q) : q[i] \in BcOffsets
  OBVIOUS
<1>2. \A i \in 1 .. Len(q) : L[q[i]].len \in Nat
  BY <1>1, ItemIs
<1> QED  BY <1>1, <1>2 DEF Lens

\* Tables that agree on the items of a list give it the same lengths.
LEMMA LensSame ==
    ASSUME NEW L, NEW K, NEW q \in Seq(BcOffsets), \A x \in Range(q) : L[x].len = K[x].len
    PROVE  Lens(L, q) = Lens(K, q)
<1>1. \A i \in 1 .. Len(q) : q[i] \in Range(q)
  BY DEF Range
<1> QED  BY <1>1 DEF Lens

\* The memory of a list with one more in front.
LEMMA LensFront ==
    ASSUME NEW L \in [BcOffsets -> Items], NEW q \in Seq(BcOffsets), NEW o \in BcOffsets
    PROVE  Total(Lens(L, <<o>> \o q)) = L[o].len + Total(Lens(L, q))
<1> DEFINE f == <<o>> \o q
           v == Lens(L, f)
           w == Lens(L, q)
<1>1. f \in Seq(BcOffsets) /\ FrontOf(f, o, q) /\ Len(f) = Len(q) + 1
  BY FrontIs
<1> HIDE DEF f
<1>2. /\ v \in Seq(Nat) /\ Len(v) = Len(f) /\ \A i \in 1 .. Len(f) : v[i] = L[f[i]].len
      /\ w \in Seq(Nat) /\ Len(w) = Len(q) /\ \A i \in 1 .. Len(q) : w[i] = L[q[i]].len
  BY <1>1, LensNat
<1>3. FrontOf(v, L[o].len, w)
  <2>1. Len(q) \in Nat /\ 1 \in 1 .. Len(f) /\ f[1] = o
    BY <1>1 DEF FrontOf
  <2>2. ASSUME NEW i \in 1 .. Len(w) PROVE v[1 + i] = w[i]
    <3>1. i \in 1 .. Len(q) /\ 1 + i \in 1 .. Len(f) /\ f[1 + i] = q[i]
      BY <1>1, <1>2, <2>1 DEF FrontOf
    <3> QED  BY <3>1, <1>2
  <2>3. Len(v) = 1 + Len(w)
    BY <1>1, <1>2, <2>1
  <2> QED  BY <1>2, <2>1, <2>2, <2>3 DEF FrontOf
<1>4. L[o].len \in Nat
  BY ItemIs
<1> HIDE DEF v, w
<1> QED  BY <1>2, <1>3, <1>4, TotalFront DEF v, w, f

\* The memory of a list without one of its items.
LEMMA LensCut ==
    ASSUME NEW L \in [BcOffsets -> Items], NEW q \in Seq(BcOffsets), NEW p \in 1 .. Len(q)
    PROVE  Total(Lens(L, RemoveAt(q, p))) = Total(Lens(L, q)) - L[q[p]].len
<1> DEFINE f == RemoveAt(q, p)
           v == Lens(L, f)
           w == Lens(L, q)
<1>1. f \in Seq(BcOffsets) /\ CutOf(f, q, p) /\ Len(f) = Len(q) - 1
  BY CutIs
<1> HIDE DEF f
<1>2. /\ v \in Seq(Nat) /\ Len(v) = Len(f) /\ \A i \in 1 .. Len(f) : v[i] = L[f[i]].len
      /\ w \in Seq(Nat) /\ Len(w) = Len(q) /\ \A i \in 1 .. Len(q) : w[i] = L[q[i]].len
  BY <1>1, LensNat
<1>3. CutOf(v, w, p)
  <2>1. Len(q) \in Nat /\ Len(f) \in Nat /\ 1 + Len(f) = Len(q)
    BY <1>1
  <2>2. ASSUME NEW i \in 1 .. Len(v) PROVE v[i] = IF i < p THEN w[i] ELSE w[1 + i]
    <3>1. i \in 1 .. Len(f) /\ i \in 1 .. Len(q) /\ 1 + i \in 1 .. Len(q)
      BY <1>2, <2>1, SMTT(60)
    <3>2. f[i] = IF i < p THEN q[i] ELSE q[1 + i]
      BY <3>1, <1>1 DEF CutOf
    <3> QED  BY <3>1, <3>2, <1>2
  <2> QED  BY <1>2, <2>1, <2>2 DEF CutOf
<1>4. p \in 1 .. Len(w) /\ w[p] = L[q[p]].len
  BY <1>2
<1> HIDE DEF v, w
<1>5. Total(v) = Total(w) - w[p]
  BY <1>2, <1>3, <1>4, TotalCut
<1> QED  BY <1>4, <1>5 DEF v, w, f

\* A list of cached items without one of them.
LEMMA Unlisted ==
    ASSUME NEW L \in [BcOffsets -> Items], NEW q \in Seq(BcOffsets), IsInjective(q), NEW o \in Range(q)
    PROVE  /\ RemoveFirst(q, o) \in Seq(BcOffsets) /\ IsInjective(RemoveFirst(q, o))
           /\ Range(RemoveFirst(q, o)) = Range(q) \ {o}
           /\ Total(Lens(L, RemoveFirst(q, o))) = Total(Lens(L, q)) - L[o].len
<1>1. PICK p \in 1 .. Len(q) : q[p] = o /\ RemoveFirst(q, o) = RemoveAt(q, p)
  BY UnlinkIs
<1>2. RemoveAt(q, p) \in Seq(BcOffsets) /\ CutOf(RemoveAt(q, p), q, p)
  BY CutIs
<1>3. IsInjective(RemoveAt(q, p)) /\ Range(RemoveAt(q, p)) = Range(q) \ {q[p]}
  BY <1>2, CutInjective
<1>4. Total(Lens(L, RemoveAt(q, p))) = Total(Lens(L, q)) - L[q[p]].len
  BY LensCut
<1> QED  BY <1>1, <1>2, <1>3, <1>4

\* The shard of an offset is one of n.
LEMMA ShardOf ==
    ASSUME NEW n \in Nat \ {0}, NEW o \in BcOffsets
    PROVE  o % n \in 0 .. n - 1 /\ (n = 1 => o % n = 0) /\ (n = 1 => 0 .. n - 1 = {0})
<1>1. o \in Nat
  BY PagesAssumption
<1>2. o % n \in 0 .. n - 1
  BY <1>1
<1> DEFINE k == o % n
<1> HIDE DEF k
<1>3. k \in 0 .. n - 1
  BY <1>2 DEF k
<1>4. n = 1 => k = 0
  BY <1>3
<1> QED  BY <1>2, <1>4 DEF k

\* A cached item is in the list of its shard, a missing one in none.
LEMMA InItsList ==
    ASSUME NEW n \in Nat \ {0}, NEW L, NEW U, NEW M, Paged(n, L, U, M), NEW o \in BcOffsets
    PROVE  /\ ShardList(n, o % n, U[o % n], L)
           /\ U[o % n] \in Seq(BcOffsets) /\ IsInjective(U[o % n])
           /\ Range(U[o % n]) = {e \in BcOffsets : L[e] # NoItem /\ e % n = o % n}
           /\ L[o] # NoItem <=> o \in Range(U[o % n])
           /\ L \in [BcOffsets -> Items]
           /\ n = 1 => M = Total(Lens(L, U[o % n]))
<1>1. ShardList(n, o % n, U[o % n], L) /\ L \in [BcOffsets -> Items]
  BY ShardOf DEF Paged
<1>4. n = 1 => M = Total(Lens(L, U[o % n]))
  BY ShardOf DEF Paged
<1> DEFINE k == o % n
<1> HIDE DEF k
<1>2. ShardList(n, k, U[k], L) /\ o % n = k
  BY <1>1 DEF k
<1>3. /\ ShardList(n, k, U[k], L) /\ U[k] \in Seq(BcOffsets) /\ IsInjective(U[k])
      /\ Range(U[k]) = {e \in BcOffsets : L[e] # NoItem /\ e % n = k}
      /\ L[o] # NoItem <=> o \in Range(U[k])
  BY <1>2 DEF ShardList
<1> QED  BY <1>1, <1>3, <1>4 DEF k

\* With several shards nothing is said about the memory.
LEMMA AnyMemory ==
    ASSUME NEW n, NEW L, NEW U, NEW M, NEW W, Paged(n, L, U, M), n # 1
    PROVE  Paged(n, L, U, W)
  BY DEF Paged

\* One list and items of its shard change: the other lists are as they were.
LEMMA OneListChanges ==
    ASSUME NEW n \in Nat \ {0}, NEW L, NEW U, NEW M, Paged(n, L, U, M), NEW o \in BcOffsets,
           NEW K, NEW q, NEW W, K \in [BcOffsets -> Items],
           \A e \in BcOffsets : e % n # o % n => K[e] = L[e],
           ShardList(n, o % n, q, K),
           n = 1 => W = Total(Lens(K, q))
    PROVE  Paged(n, K, [U EXCEPT ![o % n] = q], W)
<1> DEFINE k == o % n
           V == [U EXCEPT ![k] = q]
<1>1. k \in 0 .. n - 1 /\ (n = 1 => k = 0)
  BY ShardOf
<1>2. U \in [0 .. n - 1 -> Seq(BcOffsets)] /\ \A s \in 0 .. n - 1 : ShardList(n, s, U[s], L)
  BY DEF Paged
<1>3. o % n = k /\ ShardList(n, k, q, K)
  OBVIOUS
<1> HIDE DEF k
<1>4. V \in [0 .. n - 1 -> Seq(BcOffsets)] /\ V[k] = q /\ \A s \in 0 .. n - 1 : s # k => V[s] = U[s]
  BY <1>1, <1>2, <1>3 DEF ShardList
<1> HIDE DEF V
<1>5. ASSUME NEW s \in 0 .. n - 1 PROVE ShardList(n, s, V[s], K)
  <2>1. CASE s = k
    BY <2>1, <1>3, <1>4
  <2>2. CASE s # k
    <3>1. ShardList(n, s, V[s], L)
      BY <2>2, <1>2, <1>4
    <3>2. ASSUME NEW e \in BcOffsets, e % n = s PROVE K[e] = L[e]
      BY <2>2, <3>2, <1>3
    <3>3. {e \in BcOffsets : L[e] # NoItem /\ e % n = s} = {e \in BcOffsets : K[e] # NoItem /\ e % n = s}
      BY <3>2
    <3> QED  BY <3>1, <3>3 DEF ShardList
  <2> QED  BY <2>1, <2>2
<1>6. n = 1 => W = Total(Lens(K, V[0]))
  BY <1>1, <1>4
<1> QED  BY <1>4, <1>5, <1>6 DEF Paged, V, k

\* lru_move_to_front: the same items, the same memory.
LEMMA PageMoved ==
    ASSUME NEW n \in Nat \ {0}, NEW L, NEW U, NEW M, Paged(n, L, U, M),
           NEW o \in BcOffsets, L[o] # NoItem
    PROVE  Paged(n, L, [U EXCEPT ![o % n] = <<o>> \o RemoveFirst(U[o % n], o)], M)
<1> DEFINE q == U[o % n]
           r == RemoveFirst(q, o)
           f == <<o>> \o r
<1>1. /\ L \in [BcOffsets -> Items] /\ q \in Seq(BcOffsets) /\ IsInjective(q) /\ o \in Range(q)
      /\ Range(q) = {e \in BcOffsets : L[e] # NoItem /\ e % n = o % n}
      /\ n = 1 => M = Total(Lens(L, q))
  BY InItsList
<1> HIDE DEF q
<1>2. /\ r \in Seq(BcOffsets) /\ IsInjective(r) /\ Range(r) = Range(q) \ {o}
      /\ Total(Lens(L, r)) = Total(Lens(L, q)) - L[o].len
  BY <1>1, Unlisted
<1> HIDE DEF r
<1>3. f \in Seq(BcOffsets) /\ IsInjective(f) /\ Range(f) = Range(r) \cup {o}
  BY <1>2, WithFirst
<1>4. Total(Lens(L, f)) = L[o].len + Total(Lens(L, r))
  BY <1>1, <1>2, LensFront
<1>5. Range(f) = Range(q)
  BY <1>1, <1>2, <1>3
<1>6. n = 1 => M = Total(Lens(L, f))
  <2>1. L[o].len \in Nat /\ Lens(L, q) \in Seq(Nat)
    BY <1>1, ItemIs, LensNat
  <2>2. Total(Lens(L, q)) \in Nat
    BY <2>1, TotalNat
  <2> DEFINE a == Total(Lens(L, f))
             b == Total(Lens(L, r))
             c == Total(Lens(L, q))
             d == L[o].len
  <2>3. a = d + b /\ b = c - d /\ c \in Nat /\ d \in Nat /\ (n = 1 => M = c)
    BY <2>1, <2>2, <1>1, <1>2, <1>4
  <2> HIDE DEF a, b, c, d
  <2>4. n = 1 => M = a
    BY <2>3
  <2> QED  BY <2>4 DEF a
<1> HIDE DEF f
<1>7. ShardList(n, o % n, f, L)
  BY <1>1, <1>3, <1>5 DEF ShardList
<1>8. Paged(n, L, [U EXCEPT ![o % n] = f], M)
  BY <1>1, <1>6, <1>7, OneListChanges
<1> QED  BY <1>8 DEF f, r, q

\* A page enters the cache.
LEMMA PageAdded ==
    ASSUME NEW n \in Nat \ {0}, NEW L, NEW U, NEW M, Paged(n, L, U, M),
           NEW o \in BcOffsets, L[o] = NoItem, NEW item \in LiveItem
    PROVE  Paged(n, [L EXCEPT ![o] = item], [U EXCEPT ![o % n] = <<o>> \o U[o % n]], M + item.len)
<1> DEFINE q == U[o % n]
           K == [L EXCEPT ![o] = item]
           f == <<o>> \o q
<1>1. /\ L \in [BcOffsets -> Items] /\ q \in Seq(BcOffsets) /\ IsInjective(q) /\ o \notin Range(q)
      /\ Range(q) = {e \in BcOffsets : L[e] # NoItem /\ e % n = o % n}
      /\ n = 1 => M = Total(Lens(L, q))
  BY InItsList
<1> HIDE DEF q
<1>2. /\ K \in [BcOffsets -> Items] /\ K[o] = item /\ \A e \in BcOffsets : e # o => K[e] = L[e]
  BY <1>1 DEF Items
<1>3. K[o] # NoItem
  BY <1>2, ItemIs
<1> HIDE DEF K
<1>4. f \in Seq(BcOffsets) /\ IsInjective(f) /\ Range(f) = Range(q) \cup {o}
  BY <1>1, WithFirst
<1>5. Range(f) = {e \in BcOffsets : K[e] # NoItem /\ e % n = o % n}
  BY <1>1, <1>2, <1>3, <1>4
<1>6. Lens(K, q) = Lens(L, q)
  <2>1. \A x \in Range(q) : K[x].len = L[x].len
    BY <1>1, <1>2
  <2> QED  BY <1>1, <2>1, LensSame
<1>7. Total(Lens(K, f)) = item.len + Total(Lens(L, q))
  BY <1>1, <1>2, <1>6, LensFront
<1>8. n = 1 => M + item.len = Total(Lens(K, f))
  <2>1. item.len \in Nat /\ Lens(L, q) \in Seq(Nat)
    BY <1>1, LensNat DEF LiveItem
  <2>2. Total(Lens(L, q)) \in Nat
    BY <2>1, TotalNat
  <2> DEFINE a == Total(Lens(K, f))
             c == Total(Lens(L, q))
             d == item.len
  <2>3. a = d + c /\ c \in Nat /\ d \in Nat /\ (n = 1 => M = c)
    BY <2>1, <2>2, <1>1, <1>7
  <2> HIDE DEF a, c, d
  <2>4. n = 1 => M + d = a
    BY <2>3
  <2> QED  BY <2>4 DEF a, d
<1> HIDE DEF f
<1>9. ShardList(n, o % n, f, K)
  BY <1>4, <1>5 DEF ShardList
<1>10. Paged(n, K, [U EXCEPT ![o % n] = f], M + item.len)
  BY <1>2, <1>8, <1>9, OneListChanges
<1> QED  BY <1>10 DEF f, q, K

\* A page leaves the cache.
LEMMA PageRemoved ==
    ASSUME NEW n \in Nat \ {0}, NEW L, NEW U, NEW M, Paged(n, L, U, M),
           NEW o \in BcOffsets, L[o] # NoItem
    PROVE  Paged(n, [L EXCEPT ![o] = NoItem], [U EXCEPT ![o % n] = RemoveFirst(U[o % n], o)],
                 M - L[o].len)
<1> DEFINE q == U[o % n]
           K == [L EXCEPT ![o] = NoItem]
           r == RemoveFirst(q, o)
<1>1. /\ L \in [BcOffsets -> Items] /\ q \in Seq(BcOffsets) /\ IsInjective(q) /\ o \in Range(q)
      /\ Range(q) = {e \in BcOffsets : L[e] # NoItem /\ e % n = o % n}
      /\ n = 1 => M = Total(Lens(L, q))
  BY InItsList
<1> HIDE DEF q
<1>2. /\ K \in [BcOffsets -> Items] /\ K[o] = NoItem /\ \A e \in BcOffsets : e # o => K[e] = L[e]
  BY <1>1 DEF Items
<1> HIDE DEF K
<1>3. /\ r \in Seq(BcOffsets) /\ IsInjective(r) /\ Range(r) = Range(q) \ {o}
      /\ Total(Lens(L, r)) = Total(Lens(L, q)) - L[o].len
  BY <1>1, Unlisted
<1> HIDE DEF r
<1>4. Range(r) = {e \in BcOffsets : K[e] # NoItem /\ e % n = o % n}
  BY <1>1, <1>2, <1>3
<1>5. Lens(K, r) = Lens(L, r)
  <2>1. \A x \in Range(r) : K[x].len = L[x].len
    BY <1>1, <1>2, <1>3
  <2> QED  BY <1>3, <2>1, LensSame
<1>6. n = 1 => M - L[o].len = Total(Lens(K, r))
  BY <1>1, <1>3, <1>5
<1>7. ShardList(n, o % n, r, K)
  BY <1>3, <1>4 DEF ShardList
<1>8. Paged(n, K, [U EXCEPT ![o % n] = r], M - L[o].len)
  BY <1>2, <1>6, <1>7, OneListChanges
<1> QED  BY <1>8 DEF r, q, K

\* An item changes in place.
LEMMA PageChanged ==
    ASSUME NEW n \in Nat \ {0}, NEW L, NEW U, NEW M, Paged(n, L, U, M),
           NEW o \in BcOffsets, L[o] # NoItem, NEW item \in LiveItem
    PROVE  Paged(n, [L EXCEPT ![o] = item], U, M - L[o].len + item.len)
<1> DEFINE q == U[o % n]
           K == [L EXCEPT ![o] = item]
           r == RemoveFirst(q, o)
<1>1. /\ L \in [BcOffsets -> Items] /\ q \in Seq(BcOffsets) /\ IsInjective(q) /\ o \in Range(q)
      /\ Range(q) = {e \in BcOffsets : L[e] # NoItem /\ e % n = o % n}
      /\ n = 1 => M = Total(Lens(L, q))
  BY InItsList
<1>2. U = [U EXCEPT ![o % n] = q]
  BY ShardOf DEF Paged
<1> HIDE DEF q
<1>3. /\ K \in [BcOffsets -> Items] /\ K[o] = item /\ \A e \in BcOffsets : e # o => K[e] = L[e]
  BY <1>1 DEF Items
<1>4. K[o] # NoItem
  BY <1>3, ItemIs
<1> HIDE DEF K
<1>5. /\ r \in Seq(BcOffsets) /\ Range(r) = Range(q) \ {o}
      /\ Total(Lens(L, r)) = Total(Lens(L, q)) - L[o].len
      /\ Total(Lens(K, r)) = Total(Lens(K, q)) - K[o].len
  BY <1>1, <1>3, Unlisted
<1> HIDE DEF r
<1>6. Lens(K, r) = Lens(L, r)
  <2>1. \A x \in Range(r) : K[x].len = L[x].len
    BY <1>1, <1>3, <1>5
  <2> QED  BY <1>5, <2>1, LensSame
<1>7. n = 1 => M - L[o].len + item.len = Total(Lens(K, q))
  <2>1. item.len \in Nat /\ L[o].len \in Nat /\ Lens(L, q) \in Seq(Nat) /\ Lens(K, q) \in Seq(Nat)
    BY <1>1, <1>3, LensNat, ItemIs DEF LiveItem
  <2>2. Total(Lens(L, q)) \in Nat /\ Total(Lens(K, q)) \in Nat
    BY <2>1, TotalNat
  <2> DEFINE a == Total(Lens(K, q))
             b == Total(Lens(L, r))
             c == Total(Lens(L, q))
             d == L[o].len
             e == item.len
  <2>3. b = c - d /\ b = a - e /\ a \in Nat /\ c \in Nat /\ d \in Nat /\ e \in Nat /\ (n = 1 => M = c)
    BY <2>1, <2>2, <1>1, <1>3, <1>5, <1>6
  <2> HIDE DEF a, b, c, d, e
  <2>4. n = 1 => M - d + e = a
    BY <2>3
  <2> QED  BY <2>4 DEF a, d, e
<1>8. Range(q) = {e \in BcOffsets : K[e] # NoItem /\ e % n = o % n}
  BY <1>1, <1>3, <1>4
<1>9. ShardList(n, o % n, q, K)
  BY <1>1, <1>8 DEF ShardList
<1>10. Paged(n, K, [U EXCEPT ![o % n] = q], M - L[o].len + item.len)
  BY <1>3, <1>7, <1>9, OneListChanges
<1> QED  BY <1>2, <1>10 DEF K

\* A list with m in the place of o, and a table with the item of o at m.
Renamed(q, o, m) == [i \in DOMAIN q |-> IF q[i] = o THEN m ELSE q[i]]
Follows(live, o, m, item) == [[live EXCEPT ![o] = NoItem] EXCEPT ![m] = item]

\* A cached page gets another offset of its shard, in place (flush_dirty).
LEMMA PageRenamed ==
    ASSUME NEW n \in Nat \ {0}, NEW L, NEW U, NEW M, Paged(n, L, U, M),
           NEW o \in BcOffsets, L[o] # NoItem, NEW m \in BcOffsets, L[m] = NoItem, m % n = o % n,
           NEW item \in LiveItem, item.len = L[o].len
    PROVE  Paged(n, Follows(L, o, m, item), [U EXCEPT ![o % n] = Renamed(U[o % n], o, m)], M)
<1> DEFINE q == U[o % n]
           K == Follows(L, o, m, item)
           r == Renamed(q, o, m)
<1>1. /\ L \in [BcOffsets -> Items] /\ q \in Seq(BcOffsets) /\ IsInjective(q)
      /\ Range(q) = {e \in BcOffsets : L[e] # NoItem /\ e % n = o % n}
      /\ n = 1 => M = Total(Lens(L, q))
  BY InItsList
<1> HIDE DEF q
<1>2. /\ K \in [BcOffsets -> Items] /\ K[o] = NoItem /\ K[m] = item
      /\ \A e \in BcOffsets : e # o /\ e # m => K[e] = L[e]
  BY <1>1 DEF Items, Follows
<1>3. K[m] # NoItem /\ o # m
  BY <1>2, ItemIs
<1> HIDE DEF K
<1>4. /\ DOMAIN q = 1 .. Len(q) /\ Len(q) \in Nat /\ \A i \in 1 .. Len(q) : q[i] \in BcOffsets
      /\ \A i, j \in 1 .. Len(q) : q[i] = q[j] => i = j
      /\ \A i \in 1 .. Len(q) : q[i] \in Range(q)
      /\ \A e \in Range(q) : \E i \in 1 .. Len(q) : q[i] = e
  BY <1>1 DEF IsInjective, Range
<1>5. /\ r \in Seq(BcOffsets) /\ Len(r) = Len(q) /\ DOMAIN r = 1 .. Len(q)
      /\ \A i \in 1 .. Len(q) : r[i] = IF q[i] = o THEN m ELSE q[i]
  BY <1>4 DEF Renamed
<1> HIDE DEF r
<1>6. \A i \in 1 .. Len(q) : q[i] # m
  BY <1>1, <1>4
<1>7. IsInjective(r)
  BY <1>4, <1>5, <1>6 DEF IsInjective
<1>8. \A e \in Range(r) : \E i \in 1 .. Len(q) : r[i] = e
  BY <1>5 DEF Range
<1>9. \A i \in 1 .. Len(q) : r[i] \in Range(r)
  BY <1>5 DEF Range
<1>10. Range(r) = {e \in BcOffsets : K[e] # NoItem /\ e % n = o % n}
  <2>1. ASSUME NEW e \in Range(r) PROVE e \in BcOffsets /\ K[e] # NoItem /\ e % n = o % n
    <3>1. PICK i \in 1 .. Len(q) : r[i] = e
      BY <1>8
    <3>2. CASE q[i] = o
      BY <3>1, <3>2, <1>3, <1>5
    <3>3. CASE q[i] # o
      <4>1. e = q[i] /\ e \in Range(q) /\ e # m /\ e # o
        BY <3>1, <3>3, <1>4, <1>5, <1>6
      <4> QED  BY <4>1, <1>1, <1>2
    <3> QED  BY <3>2, <3>3
  <2>2. ASSUME NEW e \in BcOffsets, K[e] # NoItem, e % n = o % n PROVE e \in Range(r)
    <3>1. CASE e = m
      <4>1. o \in Range(q)
        BY <1>1
      <4>2. PICK i \in 1 .. Len(q) : q[i] = o
        BY <4>1, <1>4
      <4> QED  BY <4>2, <3>1, <1>5, <1>9
    <3>2. CASE e # m
      <4>1. e # o /\ e \in Range(q)
        BY <2>2, <3>2, <1>1, <1>2
      <4>2. PICK i \in 1 .. Len(q) : q[i] = e
        BY <4>1, <1>4
      <4> QED  BY <4>1, <4>2, <1>5, <1>9
    <3> QED  BY <3>1, <3>2
  <2> QED  BY <2>1, <2>2
<1>11. Lens(K, r) = Lens(L, q)
  <2>1. ASSUME NEW i \in 1 .. Len(q) PROVE K[r[i]].len = L[q[i]].len
    BY <1>2, <1>4, <1>5, <1>6
  <2> QED  BY <2>1, <1>5 DEF Lens
<1>12. ShardList(n, o % n, r, K)
  BY <1>5, <1>7, <1>10 DEF ShardList
<1>13. Paged(n, K, [U EXCEPT ![o % n] = r], M)
  <2>1. \A e \in BcOffsets : e % n # o % n => K[e] = L[e]
    BY <1>2
  <2> QED  BY <1>1, <1>2, <1>11, <1>12, <2>1, OneListChanges
<1> QED  BY <1>13 DEF r, q, K

\* Two fields at once.
LEMMA AssignedTwo ==
    ASSUME NEW c, NEW L, NEW U, NEW M, Holds(c, L, U, M), NEW a, NEW b
    PROVE  /\ Holds([c EXCEPT !.mem = a, !.deferred = b], L, U, a)
           /\ Holds([c EXCEPT !.mem = a, !.dirty = b], L, U, a)
           /\ Holds([c EXCEPT !.dirty = b, !.mem = a], L, U, a)
  BY DEF Holds, CacheFields

\* A cache value that agrees with itself and has the references R.
Coherent(d, R) ==
    /\ DOMAIN d = CacheFields /\ Paged(bcShards, d.live, d.lru, d.mem)
    /\ \A o \in BcOffsets : d.live[o].ref = R[o]

\* The same in the fields' own names.
LEMMA CoherentIs ==
    ASSUME NEW d, NEW R, NEW L, NEW U, NEW M, Holds(d, L, U, M), Paged(bcShards, L, U, M),
           \A o \in BcOffsets : L[o].ref = R[o]
    PROVE  Coherent(d, R)
  BY DEF Coherent, Holds

\* lru_move_to_front, of a cached page.
LEMMA MoveHolds ==
    ASSUME NEW c, NEW L, NEW U, NEW M, Holds(c, L, U, M), bcShards \in Nat \ {0},
           Paged(bcShards, L, U, M), NEW o \in BcOffsets, L[o] # NoItem
    PROVE  \E V : Holds(lru_move_to_front(c, o), L, V, M) /\ Paged(bcShards, L, V, M)
<1> DEFINE s == BcShard(o)
           r == lru_remove(c, o)
           W == [U EXCEPT ![s] = RemoveFirst(@, o)]
           V == [W EXCEPT ![s] = <<o>> \o @]
<1>1. Holds(r, L, W, M)
  BY ListHolds
<1>2. lru_move_to_front(c, o) = lru_push_front(r, o)
  BY DEF lru_move_to_front
<1>3. Holds(lru_push_front(r, o), L, V, M)
  <2> HIDE DEF r, W
  <2> QED  BY <1>1, ListHolds
<1>4. s = o % bcShards /\ s \in 0 .. bcShards - 1 /\ U \in [0 .. bcShards - 1 -> Seq(BcOffsets)]
  BY ShardOf DEF BcShard, Paged
<1>5. Paged(bcShards, L, [U EXCEPT ![o % bcShards] = <<o>> \o RemoveFirst(U[o % bcShards], o)], M)
  BY PageMoved
<1>6. V = [U EXCEPT ![s] = <<o>> \o RemoveFirst(U[s], o)]
  <2> HIDE DEF s
  <2> DEFINE f == RemoveFirst(U[s], o)
  <2>1. W = [U EXCEPT ![s] = f]
    BY <1>4
  <2> HIDE DEF f, W
  <2>2. W[s] = f
    BY <1>4, <2>1
  <2> DEFINE g == <<o>> \o f
  <2>3. V = [W EXCEPT ![s] = g]
    BY <2>2
  <2> HIDE DEF g, V
  <2>4. V = [U EXCEPT ![s] = g]
    BY <1>4, <2>1, <2>3
  <2> QED  BY <2>4 DEF g, f
<1>7. Paged(bcShards, L, V, M)
  BY <1>4, <1>5, <1>6
<1> QED  BY <1>2, <1>3, <1>7

\* A page is taken out of the list and the table.
LEMMA TakeHolds ==
    ASSUME NEW c, NEW L, NEW U, NEW M, Holds(c, L, U, M), NEW o, NEW s
    PROVE  LET K == [L EXCEPT ![o] = NoItem]
               V == [U EXCEPT ![BcShard(o)] = RemoveFirst(@, o)]
           IN  /\ Holds(Uncount(shard_remove(lru_remove(c, o), o), s), K, V, M)
               /\ Holds(Uncount(lru_remove(shard_remove(c, o), o), s), K, V, M)
<1> DEFINE K == [L EXCEPT ![o] = NoItem]
           V == [U EXCEPT ![BcShard(o)] = RemoveFirst(@, o)]
           a == lru_remove(c, o)
           b == shard_remove(a, o)
           d == shard_remove(c, o)
           e == lru_remove(d, o)
<1>1. Holds(a, L, V, M) /\ Holds(d, K, U, M)
  BY ListHolds, RemoveHolds
<1>2. Holds(b, K, V, M)
  <2> HIDE DEF a, V
  <2> QED  BY <1>1, RemoveHolds
<1>3. Holds(e, K, V, M)
  <2> HIDE DEF d, K
  <2> QED  BY <1>1, ListHolds
<1>4. Holds(Uncount(b, s), K, V, M) /\ Holds(Uncount(e, s), K, V, M)
  <2> HIDE DEF b, e, K, V
  <2> QED  BY <1>2, <1>3, UncountHolds
<1> QED  BY <1>4

\* The references of a table without an item that has none.
LEMMA RefsWithout ==
    ASSUME NEW L \in [BcOffsets -> Items], NEW R, \A e \in BcOffsets : L[e].ref = R[e],
           NEW o \in BcOffsets, L[o].ref = 0
    PROVE  \A e \in BcOffsets : [L EXCEPT ![o] = NoItem][e].ref = R[e]
<1>1. NoItem.ref = 0
  BY DEF NoItem
<1> QED  BY <1>1

\* An eviction takes a page without references.
LEMMA EvictOneKeeps ==
    ASSUME NEW c, NEW R, Coherent(c, R), bcShards \in Nat \ {0}, NEW s \in 0 .. bcShards - 1, Victim(c, s)
    PROVE  Coherent(EvictOne(c, s), R)
<1> DEFINE L == c.live
           U == c.lru
           M == c.mem
           o == Last(U[s])
           K == [L EXCEPT ![o] = NoItem]
           V == [U EXCEPT ![BcShard(o)] = RemoveFirst(@, o)]
           t == Uncount(shard_remove(lru_remove(c, o), o), s)
           a == t.mem - L[o].len
           b == [t.deferred EXCEPT ![s] = <<o>> \o @]
<1>1. Holds(c, L, U, M) /\ Paged(bcShards, L, U, M)
  BY DEF Coherent, Holds
<1>2. U[s] # <<>> /\ L[o].ref = 0
  BY DEF Victim
<1>3. o \in Range(U[s]) /\ ShardList(bcShards, s, U[s], L) /\ L \in [BcOffsets -> Items]
  <2>1. ShardList(bcShards, s, U[s], L) /\ L \in [BcOffsets -> Items]
    BY <1>1 DEF Paged
  <2>2. U[s] \in Seq(BcOffsets) /\ IsInjective(U[s])
    BY <2>1 DEF ShardList
  <2> QED  BY <1>2, <2>1, <2>2, WithoutLast
<1>4. o \in BcOffsets /\ L[o] # NoItem /\ o % bcShards = s
  BY <1>3 DEF ShardList
<1>5. EvictOne(c, s) = [t EXCEPT !.mem = a, !.deferred = b]
  BY DEF EvictOne
<1> HIDE DEF L, U, M, o
<1>6. Holds(t, K, V, M)
  BY <1>1, TakeHolds
<1> HIDE DEF t, b
<1>7. a = M - L[o].len
  BY <1>6, SMTT(60) DEF Holds
<1> HIDE DEF a
<1>8. Holds([t EXCEPT !.mem = a, !.deferred = b], K, V, a)
  <2> HIDE DEF K, V
  <2> QED  BY <1>6, AssignedTwo
<1>9. Paged(bcShards, K, V, a)
  <2>1. Paged(bcShards, K, [U EXCEPT ![o % bcShards] = RemoveFirst(U[o % bcShards], o)], M - L[o].len)
    BY <1>1, <1>4, PageRemoved
  <2>2. BcShard(o) = o % bcShards
    BY DEF BcShard
  <2> QED  BY <2>1, <2>2, <1>7
<1>10. \A e \in BcOffsets : K[e].ref = R[e]
  <2>1. \A e \in BcOffsets : L[e].ref = R[e]
    BY DEF Coherent, L
  <2> QED  BY <2>1, <1>2, <1>3, <1>4, RefsWithout
<1> HIDE DEF K, V
<1> QED  BY <1>5, <1>8, <1>9, <1>10, CoherentIs

\* A page without references is dropped.
LEMMA DropKeeps ==
    ASSUME NEW c, NEW R, Coherent(c, R), bcShards \in Nat \ {0}, NEW o \in BcOffsets,
           c.live[o] # NoItem, c.live[o].ref = 0
    PROVE  Coherent(Drop(c, o), R)
<1> DEFINE L == c.live
           U == c.lru
           M == c.mem
           s == BcShard(o)
           K == [L EXCEPT ![o] = NoItem]
           V == [U EXCEPT ![BcShard(o)] = RemoveFirst(@, o)]
           t == Uncount(lru_remove(shard_remove(c, o), o), s)
           a == t.mem - L[o].len
           b == [t.dirty EXCEPT ![s] = IF c.live[o].dirty THEN (@ - 1) % CountMod ELSE @]
<1>1. Holds(c, L, U, M) /\ Paged(bcShards, L, U, M) /\ L \in [BcOffsets -> Items]
  BY DEF Coherent, Holds, Paged
<1>2. L[o] # NoItem /\ L[o].ref = 0 /\ \A e \in BcOffsets : L[e].ref = R[e]
  BY DEF Coherent
<1>5. Drop(c, o) = [t EXCEPT !.mem = a, !.dirty = b]
  BY DEF Drop
<1> HIDE DEF L, U, M
<1>6. Holds(t, K, V, M)
  BY <1>1, TakeHolds
<1> HIDE DEF t, b
<1>7. a = M - L[o].len
  BY <1>6 DEF Holds
<1> HIDE DEF a
<1>8. Holds([t EXCEPT !.mem = a, !.dirty = b], K, V, a)
  <2> HIDE DEF K, V
  <2> QED  BY <1>6, AssignedTwo
<1>9. Paged(bcShards, K, V, a)
  <2>1. Paged(bcShards, K, [U EXCEPT ![o % bcShards] = RemoveFirst(U[o % bcShards], o)], M - L[o].len)
    BY <1>1, <1>2, PageRemoved
  <2>2. BcShard(o) = o % bcShards
    BY DEF BcShard
  <2> QED  BY <2>1, <2>2, <1>7
<1>10. \A e \in BcOffsets : K[e].ref = R[e]
  BY <1>1, <1>2, RefsWithout
<1> HIDE DEF K, V
<1> QED  BY <1>5, <1>8, <1>9, <1>10, CoherentIs

\* One round of the loop of evict_if_needed.
EvictStep(d, s) == IF Victim(d, s) THEN EvictOne(d, s) ELSE d

\* g is what n rounds make of c, one by one.
RoundsOf(c, s, n, g) == g = [i \in 0 .. n |-> IF i = 0 THEN c ELSE EvictStep(g[i - 1], s)]

\* The loop has its rounds.
LEMMA RoundsExist ==
    ASSUME NEW c, NEW s, NEW n \in Nat
    PROVE  \E g : RoundsOf(c, s, n, g)
<1> DEFINE Value(g, i) == IF i = 0 THEN c ELSE EvictStep(g[i - 1], s)
           Rounds(k, g) == g = [i \in 0 .. k |-> Value(g, i)]
           T == {k \in Nat : \E g : Rounds(k, g)}
<1>1. 0 \in T
  <2> DEFINE g == [i \in 0 .. 0 |-> c]
  <2>1. Rounds(0, g)
    OBVIOUS
  <2> QED  BY <2>1
<1>2. ASSUME NEW k \in T PROVE k + 1 \in T
  <2>1. PICK g : Rounds(k, g)
    OBVIOUS
  <2> DEFINE h == [i \in 0 .. (k + 1) |-> IF i = k + 1 THEN EvictStep(g[k], s) ELSE g[i]]
  <2>2. k \in Nat /\ \A i \in 0 .. k : g[i] = Value(g, i)
    BY <2>1
  <2>3. ASSUME NEW i \in 0 .. (k + 1) PROVE h[i] = Value(h, i)
    <3>1. CASE i = k + 1
      BY <3>1, <2>2
    <3>2. CASE i \in 0 .. k
      <4>1. h[i] = g[i] /\ g[i] = Value(g, i)
        BY <3>2, <2>2
      <4>2. i # 0 => h[i - 1] = g[i - 1]
        BY <3>2, <2>2
      <4> QED  BY <4>1, <4>2
    <3> QED  BY <3>1, <3>2, <2>2
  <2>4. Rounds(k + 1, h)
    BY <2>3
  <2>5. k + 1 \in Nat
    BY <2>2
  <2> HIDE DEF Rounds, h
  <2> QED  BY <2>4, <2>5
<1>3. n \in T
  <2> HIDE DEF T
  <2>1. T \in SUBSET Nat  BY DEF T
  <2> QED  BY <2>1, <1>1, <1>2, SetInduction
<1> QED  BY <1>3 DEF RoundsOf

\* Whatever evict_if_needed leaves agrees with itself and has every page that is held.
LEMMA EvictKeeps ==
    ASSUME NEW c, NEW R, Coherent(c, R), bcShards \in Nat \ {0}, NEW s \in 0 .. bcShards - 1,
           NEW d \in evict_if_needed(c, s)
    PROVE  Coherent(d, R)
<1> DEFINE N == Cardinality(BcOffsets)
           f == CHOOSE g : RoundsOf(c, s, N, g)
<1>1. N \in Nat
  BY PagesAssumption, FS_CardinalityType
<1>2. evict_if_needed(c, s) = IF bcShards = 1 THEN {f[N]} ELSE {f[n] : n \in 0 .. N}
  BY DEF evict_if_needed, EvictStep, RoundsOf
<1> HIDE DEF N
<1>3. RoundsOf(c, s, N, f)
  BY <1>1, RoundsExist
<1> HIDE DEF f
<1>5. f[0] = c /\ \A i \in 1 .. N : f[i] = EvictStep(f[i - 1], s)
  <2>1. \A i \in 0 .. N : f[i] = IF i = 0 THEN c ELSE EvictStep(f[i - 1], s)
    BY <1>3 DEF RoundsOf
  <2> QED  BY <2>1, <1>1
<1> DEFINE T == {k \in Nat : k <= N => Coherent(f[k], R)}
<1>6. 0 \in T
  BY <1>5
<1>7. ASSUME NEW k \in T PROVE k + 1 \in T
  <2>1. ASSUME k + 1 <= N PROVE Coherent(f[k + 1], R)
    <3>1. k \in Nat /\ k + 1 \in 1 .. N /\ Coherent(f[k], R) /\ (k + 1) - 1 = k
      BY <1>1, <2>1
    <3>2. f[k + 1] = EvictStep(f[k], s)
      BY <3>1, <1>5
    <3> DEFINE e == f[k]
    <3> HIDE DEF e
    <3>3. Coherent(e, R) /\ f[k + 1] = EvictStep(e, s)
      BY <3>1, <3>2 DEF e
    <3> QED  BY <3>3, EvictOneKeeps DEF EvictStep
  <2> QED  BY <2>1
<1>8. \A k \in Nat : k \in T
  <2> HIDE DEF T
  <2>1. T \in SUBSET Nat  BY DEF T
  <2> QED  BY <2>1, <1>6, <1>7, SetInduction
<1>9. \A i \in 0 .. N : Coherent(f[i], R)
  BY <1>1, <1>8
<1>10. PICK i \in 0 .. N : d = f[i]
  BY <1>1, <1>2
<1> QED  BY <1>9, <1>10

\* The holders of the page at an offset.
Holders(held, o) == {t \in BcThreads : held[t] = o}

\* The page cache agrees with itself, and the references of every page with its holders.
PageInv ==
    /\ bcShards \in Nat \ {0}
    /\ bcHeld \in [BcThreads -> BcOffsets \cup {-1}]
    /\ Paged(bcShards, bcLive, bcLru, bcMem)
    /\ HeldIntact

\* An offset is never the mark of a thread without a page.
LEMMA NoMark == -1 \notin BcOffsets
  BY PagesAssumption

\* The holders are counted.
LEMMA HoldersCount ==
    ASSUME NEW h, NEW o
    PROVE  IsFiniteSet(Holders(h, o)) /\ Cardinality(Holders(h, o)) \in Nat
<1>1. Holders(h, o) \in SUBSET BcThreads
  BY DEF Holders
<1>2. IsFiniteSet(Holders(h, o))
  BY <1>1, PagesAssumption, FS_Subset
<1> QED  BY <1>2, FS_CardinalityType

\* A thread takes a page, or releases the one it has.
LEMMA HoldersTake ==
    ASSUME NEW h \in [BcThreads -> BcOffsets \cup {-1}], NEW t \in BcThreads, h[t] = -1,
           NEW o \in BcOffsets
    PROVE  \A e \in BcOffsets : Cardinality(Holders([h EXCEPT ![t] = o], e)) =
              IF e = o THEN Cardinality(Holders(h, e)) + 1 ELSE Cardinality(Holders(h, e))
<1> SUFFICES ASSUME NEW e \in BcOffsets
             PROVE  Cardinality(Holders([h EXCEPT ![t] = o], e)) =
                      IF e = o THEN Cardinality(Holders(h, e)) + 1 ELSE Cardinality(Holders(h, e))
  OBVIOUS
<1>1. t \notin Holders(h, e)
  BY NoMark DEF Holders
<1>2. CASE e = o
  <2>1. Holders([h EXCEPT ![t] = o], e) = Holders(h, e) \cup {t}
    BY <1>2 DEF Holders
  <2>2. IsFiniteSet(Holders(h, e))
    BY HoldersCount
  <2>3. Cardinality(Holders(h, e) \cup {t}) = Cardinality(Holders(h, e)) + 1
    BY <1>1, <2>2, FS_AddElement
  <2> QED  BY <1>2, <2>1, <2>3
<1>3. CASE e # o
  <2>1. Holders([h EXCEPT ![t] = o], e) = Holders(h, e)
    BY <1>1, <1>3 DEF Holders
  <2> QED  BY <1>3, <2>1
<1> QED  BY <1>2, <1>3

\* The reverse.
LEMMA HoldersGive ==
    ASSUME NEW h \in [BcThreads -> BcOffsets \cup {-1}], NEW t \in BcThreads, NEW o \in BcOffsets,
           h[t] = o
    PROVE  /\ Cardinality(Holders(h, o)) \in Nat \ {0}
           /\ \A e \in BcOffsets : Cardinality(Holders([h EXCEPT ![t] = -1], e)) =
                IF e = o THEN Cardinality(Holders(h, e)) - 1 ELSE Cardinality(Holders(h, e))
<1>1. t \in Holders(h, o) /\ IsFiniteSet(Holders(h, o)) /\ Cardinality(Holders(h, o)) \in Nat
  BY HoldersCount DEF Holders
<1>2. Cardinality(Holders(h, o)) # 0
  BY <1>1, FS_EmptySet
<1>3. ASSUME NEW e \in BcOffsets
      PROVE  Cardinality(Holders([h EXCEPT ![t] = -1], e)) =
                IF e = o THEN Cardinality(Holders(h, e)) - 1 ELSE Cardinality(Holders(h, e))
  <2>1. CASE e = o
    <3>1. Holders([h EXCEPT ![t] = -1], e) = Holders(h, e) \ {t}
      BY <2>1, NoMark DEF Holders
    <3>2. Cardinality(Holders(h, e) \ {t}) = Cardinality(Holders(h, e)) - 1
      BY <1>1, <2>1, FS_RemoveElement
    <3> QED  BY <2>1, <3>1, <3>2
  <2>2. CASE e # o
    <3>1. Holders([h EXCEPT ![t] = -1], e) = Holders(h, e)
      BY <2>2, NoMark DEF Holders
    <3> QED  BY <2>2, <3>1
  <2> QED  BY <2>1, <2>2
<1> QED  BY <1>1, <1>2, <1>3

\* A cached item with other references is one.
LEMMA ItemRef ==
    ASSUME NEW x \in LiveItem, NEW k \in Nat
    PROVE  /\ [x EXCEPT !.ref = k] \in LiveItem
           /\ [x EXCEPT !.ref = k].len = x.len /\ [x EXCEPT !.ref = k].ref = k
           /\ [x EXCEPT !.ref = k].inval = x.inval
  BY DEF LiveItem

\* The same with other marks.
LEMMA ItemMark ==
    ASSUME NEW x \in LiveItem, NEW b \in BOOLEAN, NEW d \in BOOLEAN
    PROVE  /\ [x EXCEPT !.dirty = d] \in LiveItem
           /\ [x EXCEPT !.dirty = d].len = x.len /\ [x EXCEPT !.dirty = d].ref = x.ref
           /\ [x EXCEPT !.inval = b, !.dirty = d] \in LiveItem
           /\ [x EXCEPT !.inval = b, !.dirty = d].len = x.len
           /\ [x EXCEPT !.inval = b, !.dirty = d].ref = x.ref
  BY DEF LiveItem

\* And with other contents.
LEMMA ItemLen ==
    ASSUME NEW x \in LiveItem, NEW l \in Nat \ {0}, NEW d \in BOOLEAN
    PROVE  /\ [x EXCEPT !.len = l, !.dirty = d] \in LiveItem
           /\ [x EXCEPT !.len = l, !.dirty = d].len = l
           /\ [x EXCEPT !.len = l, !.dirty = d].ref = x.ref
  BY DEF LiveItem

\* A new item.
LEMMA ItemNew ==
    ASSUME NEW k \in Nat, NEW d \in BOOLEAN, NEW l \in Nat \ {0}
    PROVE  /\ [NoItem EXCEPT !.len = l, !.ref = k] \in LiveItem
           /\ [NoItem EXCEPT !.len = l, !.ref = k].len = l /\ [NoItem EXCEPT !.len = l, !.ref = k].ref = k
           /\ [NoItem EXCEPT !.len = l, !.dirty = d] \in LiveItem
           /\ [NoItem EXCEPT !.len = l, !.dirty = d].len = l /\ [NoItem EXCEPT !.len = l, !.dirty = d].ref = 0
  BY DEF LiveItem, NoItem

\* An item that a writer makes.
LEMMA ItemMade ==
    ASSUME NEW d \in BOOLEAN, NEW l \in Nat \ {0}, NEW z, z = [NoItem EXCEPT !.len = l, !.dirty = d]
    PROVE  z \in LiveItem /\ z.len = l /\ z.ref = 0
<1>1. 0 \in Nat
  OBVIOUS
<1> QED  BY <1>1, ItemNew, ZenonT(60)

\* An item changes and keeps its length.
LEMMA PageTouched ==
    ASSUME NEW n \in Nat \ {0}, NEW L, NEW U, NEW M, Paged(n, L, U, M),
           NEW o \in BcOffsets, L[o] # NoItem, NEW item \in LiveItem, item.len = L[o].len
    PROVE  Paged(n, [L EXCEPT ![o] = item], U, M)
<1>1. Paged(n, [L EXCEPT ![o] = item], U, M - L[o].len + item.len)
  BY PageChanged
<1>2. CASE n = 1
  <2>1. /\ L \in [BcOffsets -> Items] /\ U[o % n] \in Seq(BcOffsets) /\ M = Total(Lens(L, U[o % n]))
    BY <1>2, InItsList
  <2>2. Lens(L, U[o % n]) \in Seq(Nat) /\ item.len \in Nat
    BY <2>1, LensNat DEF LiveItem
  <2>3. M \in Nat
    BY <2>1, <2>2, TotalNat
  <2>4. M - L[o].len + item.len = M
    BY <2>2, <2>3
  <2> QED  BY <1>1, <2>4
<1>3. CASE n # 1
  BY <1>1, <1>3, AnyMemory
<1> QED  BY <1>2, <1>3

\* The references of a table with another item in one place.
LEMMA RefsWith ==
    ASSUME NEW L \in [BcOffsets -> Items], NEW R, NEW o \in BcOffsets, NEW item,
           \A e \in BcOffsets : e # o => L[e].ref = R[e], item.ref = R[o]
    PROVE  \A e \in BcOffsets : [L EXCEPT ![o] = item][e].ref = R[e]
  OBVIOUS

\* A cache value that agrees with itself and with the holders is stored.
LEMMA BecomesKeeps ==
    ASSUME PageInv, NEW c, NEW R, Coherent(c, R), Becomes(c),
           bcHeld' \in [BcThreads -> BcOffsets \cup {-1}],
           \A o \in BcOffsets : R[o] = Cardinality(Holders(bcHeld', o))
    PROVE  PageInv'
<1>1. /\ bcLive' = c.live /\ bcLru' = c.lru /\ bcShards' = bcShards
      /\ bcMem' = IF bcShards = 1 THEN c.mem ELSE 0
  BY DEF Becomes
<1>2. Paged(bcShards, c.live, c.lru, c.mem) /\ \A o \in BcOffsets : c.live[o].ref = R[o]
  BY DEF Coherent
<1>3. Paged(bcShards, c.live, c.lru, bcMem')
  <2>1. CASE bcShards = 1
    BY <2>1, <1>1, <1>2
  <2>2. CASE bcShards # 1
    BY <2>2, <1>2, AnyMemory
  <2> QED  BY <2>1, <2>2
<1>4. Paged(bcShards, bcLive, bcLru, bcMem)'
  BY <1>1, <1>3
<1>5. HeldIntact'
  <2>1. \A o \in BcOffsets : bcLive'[o].ref = Cardinality(Holders(bcHeld', o))
    BY <1>1, <1>2
  <2> QED  BY <2>1 DEF HeldIntact, Holders
<1>6. (bcShards \in Nat \ {0})' /\ (bcHeld \in [BcThreads -> BcOffsets \cup {-1}])'
  BY <1>1 DEF PageInv
<1> QED  BY <1>4, <1>5, <1>6 DEF PageInv

\* What the invariant says of the table, and of the page at an offset.
LEMMA PagesHave ==
    ASSUME PageInv
    PROVE  /\ bcShards \in Nat \ {0} /\ bcHeld \in [BcThreads -> BcOffsets \cup {-1}]
           /\ Holds(Cache, bcLive, bcLru, bcMem) /\ Paged(bcShards, bcLive, bcLru, bcMem)
           /\ bcLive \in [BcOffsets -> Items]
           /\ \A o \in BcOffsets : bcLive[o].ref = Cardinality(Holders(bcHeld, o))
           /\ Cache.live = bcLive /\ Cache.lru = bcLru /\ Cache.mem = bcMem
<1>1. Holds(Cache, bcLive, bcLru, bcMem)
  BY CacheHolds
<1>2. Cache.live = bcLive /\ Cache.lru = bcLru /\ Cache.mem = bcMem
  BY <1>1 DEF Holds
<1> QED  BY <1>1, <1>2 DEF PageInv, Paged, HeldIntact, Holders

\* A hit: the item gets a reference and moves to the front.
LEMMA HitKeeps ==
    ASSUME PageInv, NEW t \in BcThreads, NEW o \in BcOffsets, NoPage(t), shard_find(Cache, o),
           Becomes(lru_move_to_front([Cache EXCEPT !.live[o].ref = @ + 1], o)),
           bcHeld' = [bcHeld EXCEPT ![t] = o]
    PROVE  PageInv'
<1> DEFINE x == bcLive[o]
           k == x.ref + 1
           y == [x EXCEPT !.ref = k]
           K == [bcLive EXCEPT ![o] = y]
           c == [Cache EXCEPT !.live[o].ref = @ + 1]
           R == [e \in BcOffsets |-> Cardinality(Holders(bcHeld', e))]
<1>1. /\ bcShards \in Nat \ {0} /\ bcHeld \in [BcThreads -> BcOffsets \cup {-1}]
      /\ Holds(Cache, bcLive, bcLru, bcMem) /\ Paged(bcShards, bcLive, bcLru, bcMem)
      /\ bcLive \in [BcOffsets -> Items] /\ Cache.live = bcLive
      /\ \A e \in BcOffsets : bcLive[e].ref = Cardinality(Holders(bcHeld, e))
  BY PagesHave
<1>2. x # NoItem /\ x \in LiveItem /\ x.ref \in Nat /\ k \in Nat
  BY <1>1, ItemIs DEF shard_find
<1>3. c = [Cache EXCEPT !.live = K]
  BY <1>1
<1>4. y \in LiveItem /\ y.len = x.len /\ y.ref = k
  <2> HIDE DEF x, k
  <2> QED  BY <1>2, ItemRef
<1> HIDE DEF c, y
<1>5. Holds(c, K, bcLru, bcMem)
  BY <1>1, <1>3, Assigned
<1>6. Paged(bcShards, K, bcLru, bcMem) /\ K[o] # NoItem
  BY <1>1, <1>2, <1>4, PageTouched, ItemIs DEF Items
<1>7. PICK V : Holds(lru_move_to_front(c, o), K, V, bcMem) /\ Paged(bcShards, K, V, bcMem)
  <2> HIDE DEF K
  <2> QED  BY <1>1, <1>5, <1>6, MoveHolds
<1>8. \A e \in BcOffsets : R[e] = IF e = o THEN bcLive[e].ref + 1 ELSE bcLive[e].ref
  <2>1. \A e \in BcOffsets : Cardinality(Holders([bcHeld EXCEPT ![t] = o], e)) =
           IF e = o THEN Cardinality(Holders(bcHeld, e)) + 1 ELSE Cardinality(Holders(bcHeld, e))
    BY <1>1, HoldersTake DEF NoPage
  <2> QED  BY <1>1, <2>1
<1>9. \A e \in BcOffsets : K[e].ref = R[e]
  <2> HIDE DEF R
  <2> QED  BY <1>1, <1>4, <1>8, RefsWith
<1>10. Coherent(lru_move_to_front(c, o), R)
  <2> HIDE DEF R, K
  <2> QED  BY <1>7, <1>9, CoherentIs
<1>11. Becomes(lru_move_to_front(c, o))
  BY DEF c
<1>12. bcHeld' \in [BcThreads -> BcOffsets \cup {-1}] /\ \A e \in BcOffsets : R[e] = Cardinality(Holders(bcHeld', e))
  BY <1>1
<1> HIDE DEF R
<1> QED  BY <1>10, <1>11, <1>12, BecomesKeeps

\* A new item in the table and at the front of its list.
LEMMA NewHolds ==
    ASSUME PageInv, NEW o \in BcOffsets, bcLive[o] = NoItem, NEW item \in LiveItem
    PROVE  \E V : /\ Holds(lru_push_front(shard_insert(Cache, o, item), o),
                           [bcLive EXCEPT ![o] = item], V, bcMem)
                  /\ Paged(bcShards, [bcLive EXCEPT ![o] = item], V, bcMem + item.len)
<1> DEFINE K == [bcLive EXCEPT ![o] = item]
           a == shard_insert(Cache, o, item)
           V == [bcLru EXCEPT ![BcShard(o)] = <<o>> \o @]
<1>1. bcShards \in Nat \ {0} /\ Holds(Cache, bcLive, bcLru, bcMem) /\ Paged(bcShards, bcLive, bcLru, bcMem)
  BY PagesHave
<1>2. Holds(a, K, bcLru, bcMem)
  BY <1>1, InsertHolds
<1>3. Holds(lru_push_front(a, o), K, V, bcMem)
  <2> HIDE DEF a, K
  <2> QED  BY <1>2, ListHolds
<1>4. Paged(bcShards, K, [bcLru EXCEPT ![o % bcShards] = <<o>> \o bcLru[o % bcShards]], bcMem + item.len)
  BY <1>1, PageAdded
<1>5. BcShard(o) = o % bcShards
  BY DEF BcShard
<1>6. Paged(bcShards, K, V, bcMem + item.len)
  BY <1>4, <1>5
<1> HIDE DEF V
<1> QED  BY <1>3, <1>6

\* A miss: the page is read, inserted with one reference, and others are evicted.
LEMMA MissKeeps ==
    ASSUME PageInv, NEW t \in BcThreads, NEW o \in BcOffsets, NoPage(t), ~shard_find(Cache, o),
           BcRead(t, o)
    PROVE  PageInv'
<1> DEFINE l == PageLen(o)
           y == [NoItem EXCEPT !.len = l, !.ref = 1]
           K == [bcLive EXCEPT ![o] = y]
           p == lru_push_front(shard_insert(Cache, o, y), o)
           c == [p EXCEPT !.mem = @ + y.len]
           R == [e \in BcOffsets |-> Cardinality(Holders(bcHeld', e))]
<1>1. /\ bcShards \in Nat \ {0} /\ bcHeld \in [BcThreads -> BcOffsets \cup {-1}]
      /\ bcLive \in [BcOffsets -> Items] /\ Cache.live = bcLive
      /\ \A e \in BcOffsets : bcLive[e].ref = Cardinality(Holders(bcHeld, e))
  BY PagesHave
<1>2. PICK d \in evict_if_needed(c, BcShard(o)) : Becomes(d)
  BY DEF BcRead
<1>3. bcHeld' = [bcHeld EXCEPT ![t] = o] /\ bcLive[o] = NoItem
  BY <1>1 DEF BcRead, shard_find
<1>4. l \in Nat \ {0}
  BY PagesAssumption DEF PageLen
<1>5. y \in LiveItem /\ y.len = l /\ y.ref = 1
  <2> HIDE DEF l
  <2> QED  BY <1>4, ItemNew
<1> HIDE DEF y
<1>6. PICK V : Holds(p, K, V, bcMem) /\ Paged(bcShards, K, V, bcMem + y.len)
  BY <1>3, <1>5, NewHolds
<1> HIDE DEF p
<1>7. Holds(c, K, V, bcMem + y.len)
  <2> DEFINE m == p.mem + y.len
  <2>1. c = [p EXCEPT !.mem = m] /\ m = bcMem + y.len
    BY <1>6 DEF Holds
  <2> HIDE DEF m, c, K
  <2>2. Holds([p EXCEPT !.mem = m], K, V, m)
    BY <1>6, Assigned
  <2> QED  BY <2>1, <2>2
<1> HIDE DEF c
<1>8. \A e \in BcOffsets : R[e] = IF e = o THEN bcLive[e].ref + 1 ELSE bcLive[e].ref
  <2>1. \A e \in BcOffsets : Cardinality(Holders([bcHeld EXCEPT ![t] = o], e)) =
           IF e = o THEN Cardinality(Holders(bcHeld, e)) + 1 ELSE Cardinality(Holders(bcHeld, e))
    BY <1>1, HoldersTake DEF NoPage
  <2> QED  BY <1>1, <1>3, <2>1
<1>9. \A e \in BcOffsets : K[e].ref = R[e]
  <2>1. bcLive[o].ref = 0
    BY <1>3 DEF NoItem
  <2> HIDE DEF R
  <2>2. y.ref = R[o] /\ \A e \in BcOffsets : e # o => bcLive[e].ref = R[e]
    BY <1>5, <1>8, <2>1
  <2> QED  BY <1>1, <2>2, RefsWith
<1>10. Coherent(c, R)
  <2> HIDE DEF R, K
  <2> QED  BY <1>6, <1>7, <1>9, CoherentIs
<1>11. BcShard(o) \in 0 .. bcShards - 1
  BY <1>1, ShardOf DEF BcShard
<1>12. bcHeld' \in [BcThreads -> BcOffsets \cup {-1}] /\ \A e \in BcOffsets : R[e] = Cardinality(Holders(bcHeld', e))
  BY <1>1, <1>3
<1> HIDE DEF R
<1>13. Coherent(d, R)
  BY <1>1, <1>2, <1>10, <1>11, EvictKeeps
<1> QED  BY <1>2, <1>12, <1>13, BecomesKeeps

\* The references as they are, where the holders stay.
LEMMA SameHolders ==
    ASSUME PageInv, NEW c, NEW R, Coherent(c, R), Becomes(c), bcHeld' = bcHeld,
           \A e \in BcOffsets : R[e] = bcLive[e].ref
    PROVE  PageInv'
<1>1. /\ bcHeld \in [BcThreads -> BcOffsets \cup {-1}]
      /\ \A e \in BcOffsets : bcLive[e].ref = Cardinality(Holders(bcHeld, e))
  BY PagesHave
<1>2. \A e \in BcOffsets : R[e] = Cardinality(Holders(bcHeld', e))
  BY <1>1
<1>3. bcHeld' \in [BcThreads -> BcOffsets \cup {-1}]
  BY <1>1
<1> QED  BY <1>2, <1>3, BecomesKeeps

\* bnode_cache_write, of a page that is cached or not.
LEMMA WriteKeeps ==
    ASSUME PageInv, NEW o \in BcOffsets, NEW n \in Nat \ {0}, BcWrite(o, n)
    PROVE  PageInv'
<1> DEFINE s == BcShard(o)
           x == bcLive[o]
           R == [e \in BcOffsets |-> bcLive[e].ref]
           b == [bcDirty EXCEPT ![s] = IF x.dirty THEN @ ELSE (@ + 1) % CountMod]
           u == [Cache EXCEPT !.live[o].len = n, !.live[o].dirty = TRUE,
                              !.dirty[s] = IF x.dirty THEN @ ELSE (@ + 1) % CountMod,
                              !.mem = @ - x.len + n]
           z == [NoItem EXCEPT !.len = n, !.dirty = TRUE]
           p == lru_push_front(shard_insert(Cache, o, z), o)
           i == [p EXCEPT !.dirty[s] = (@ + 1) % CountMod, !.mem = @ + n]
           put == IF shard_find(Cache, o) THEN lru_move_to_front(u, o) ELSE i
<1>1. /\ bcShards \in Nat \ {0} /\ bcLive \in [BcOffsets -> Items] /\ Cache.live = bcLive
      /\ Holds(Cache, bcLive, bcLru, bcMem) /\ Paged(bcShards, bcLive, bcLru, bcMem)
      /\ Cache.mem = bcMem
  BY PagesHave
<1>2. PICK d \in evict_if_needed(put, s) : Becomes(d)
  BY DEF BcWrite
<1>3. bcHeld' = bcHeld
  BY DEF BcWrite
<1>4. s \in 0 .. bcShards - 1
  BY <1>1, ShardOf DEF BcShard
<1>5. \A e \in BcOffsets : R[e] = bcLive[e].ref
  OBVIOUS
<1>6. ASSUME shard_find(Cache, o) PROVE Coherent(lru_move_to_front(u, o), R)
  <2> DEFINE yes == TRUE
             y == [x EXCEPT !.len = n, !.dirty = yes]
             K == [bcLive EXCEPT ![o] = y]
             m == bcMem - x.len + n
             f == [Cache.dirty EXCEPT ![s] = IF x.dirty THEN @ ELSE (@ + 1) % CountMod]
  <2>1. x # NoItem /\ x \in LiveItem
    BY <1>1, <1>6, ItemIs DEF shard_find
  <2>2. u = [Cache EXCEPT !.live = K, !.dirty = f, !.mem = m]
    BY <1>1
  <2>3. y \in LiveItem /\ y.len = n /\ y.ref = x.ref
    <3>1. yes \in BOOLEAN
      OBVIOUS
    <3> HIDE DEF x, yes
    <3> QED  BY <2>1, <3>1, ItemLen, ZenonT(60)
  <2> HIDE DEF u, y, f
  <2>4. Holds(u, K, bcLru, m)
    <3> HIDE DEF K, m
    <3> QED  BY <1>1, <2>2 DEF Holds, CacheFields
  <2>5. Paged(bcShards, K, bcLru, m) /\ K[o] # NoItem
    <3>1. Paged(bcShards, K, bcLru, bcMem - bcLive[o].len + y.len)
      BY <1>1, <2>1, <2>3, PageChanged
    <3>2. K[o] = y /\ y # NoItem
      BY <1>1, <2>3, ItemIs DEF Items
    <3> QED  BY <3>1, <3>2, <2>3
  <2> HIDE DEF m
  <2>6. PICK V : Holds(lru_move_to_front(u, o), K, V, m) /\ Paged(bcShards, K, V, m)
    <3> HIDE DEF K
    <3> QED  BY <1>1, <2>4, <2>5, MoveHolds
  <2>7. \A e \in BcOffsets : K[e].ref = R[e]
    <3> HIDE DEF R
    <3> QED  BY <1>1, <1>5, <2>3, RefsWith
  <2> HIDE DEF R, K
  <2> QED  BY <2>6, <2>7, CoherentIs
<1>7. ASSUME ~shard_find(Cache, o) PROVE Coherent(i, R)
  <2> DEFINE yes == TRUE
             y == [NoItem EXCEPT !.len = n, !.dirty = yes]
             K == [bcLive EXCEPT ![o] = y]
             f == [p.dirty EXCEPT ![s] = (@ + 1) % CountMod]
             m == p.mem + n
  <2>1. bcLive[o] = NoItem
    BY <1>1, <1>7 DEF shard_find
  <2>2. z \in LiveItem /\ z.len = n /\ z.ref = 0 /\ z = y
    <3>1. yes \in BOOLEAN
      OBVIOUS
    <3>2. z = y
      OBVIOUS
    <3>3. n \in Nat \ {0}
      BY <1>1
    <3> HIDE DEF z, yes
    <3>4. z \in LiveItem /\ z.len = n /\ z.ref = 0
      BY <3>1, <3>2, <3>3, ItemMade
    <3> QED  BY <3>2, <3>4
  <2>3. i = [p EXCEPT !.dirty = f, !.mem = m]
    OBVIOUS
  <2> HIDE DEF y, z
  <2>4. PICK V : Holds(p, K, V, bcMem) /\ Paged(bcShards, K, V, bcMem + y.len)
    BY <2>1, <2>2, NewHolds
  <2> HIDE DEF p, f, i
  <2>5. m = bcMem + y.len
    BY <2>2, <2>4 DEF Holds
  <2>6. Holds(i, K, V, m)
    <3> HIDE DEF K, m
    <3> QED  BY <2>3, <2>4, AssignedTwo
  <2> HIDE DEF m
  <2>7. \A e \in BcOffsets : K[e].ref = R[e]
    <3>1. R[o] = 0
      BY <2>1 DEF NoItem
    <3> HIDE DEF R
    <3> QED  BY <1>1, <1>5, <2>2, <3>1, RefsWith
  <2>8. Paged(bcShards, K, V, m)
    BY <2>4, <2>5
  <2> HIDE DEF R, K
  <2> QED  BY <2>6, <2>7, <2>8, CoherentIs
<1> HIDE DEF u, i, R
<1>8. Coherent(put, R)
  BY <1>6, <1>7
<1> HIDE DEF put, s
<1>9. Coherent(d, R)
  BY <1>1, <1>2, <1>4, <1>8, EvictKeeps
<1> QED  BY <1>2, <1>3, <1>5, <1>9, SameHolders

\* bnode_cache_release: one reference less; the last holder drops a page that was invalidated,
\* or moves the page to the front.
LEMMA ReleaseKeeps ==
    ASSUME PageInv, NEW t \in BcThreads, BcRelease(t)
    PROVE  PageInv'
<1> DEFINE o == bcHeld[t]
           x == bcLive[o]
           k == x.ref - 1
           y == [x EXCEPT !.ref = k]
           K == [bcLive EXCEPT ![o] = y]
           c == [Cache EXCEPT !.live[o].ref = @ - 1]
           f == IF c.live[o].ref = 0 /\ c.live[o].inval THEN Drop(c, o)
                ELSE IF c.live[o].ref = 0 THEN lru_move_to_front(c, o) ELSE c
           R == [e \in BcOffsets |-> Cardinality(Holders(bcHeld', e))]
<1>1. /\ bcShards \in Nat \ {0} /\ bcHeld \in [BcThreads -> BcOffsets \cup {-1}]
      /\ Holds(Cache, bcLive, bcLru, bcMem) /\ Paged(bcShards, bcLive, bcLru, bcMem)
      /\ bcLive \in [BcOffsets -> Items] /\ Cache.live = bcLive
      /\ \A e \in BcOffsets : bcLive[e].ref = Cardinality(Holders(bcHeld, e))
  BY PagesHave
<1>2. o \in BcOffsets /\ bcHeld' = [bcHeld EXCEPT ![t] = -1] /\ Becomes(f)
  BY <1>1 DEF BcRelease, NoPage
<1>3. c = [Cache EXCEPT !.live = K]
  BY <1>1
<1> HIDE DEF o
<1>4. /\ Cardinality(Holders(bcHeld, o)) \in Nat \ {0}
      /\ \A e \in BcOffsets : Cardinality(Holders([bcHeld EXCEPT ![t] = -1], e)) =
           IF e = o THEN Cardinality(Holders(bcHeld, e)) - 1 ELSE Cardinality(Holders(bcHeld, e))
  BY <1>1, <1>2, HoldersGive DEF o
<1>5. x.ref \in Nat \ {0} /\ k \in Nat
  BY <1>1, <1>2, <1>4
<1>6. x # NoItem /\ x \in LiveItem
  <2>1. NoItem.ref = 0
    BY DEF NoItem
  <2> QED  BY <1>1, <1>2, <1>5, <2>1, ItemIs
<1>7. y \in LiveItem /\ y.len = x.len /\ y.ref = k
  <2> HIDE DEF x, k
  <2> QED  BY <1>5, <1>6, ItemRef
<1> HIDE DEF c, y
<1>8. Holds(c, K, bcLru, bcMem)
  BY <1>1, <1>3, Assigned
<1>9. Paged(bcShards, K, bcLru, bcMem) /\ K[o] # NoItem
  BY <1>1, <1>2, <1>6, <1>7, PageTouched, ItemIs DEF Items
<1>10. \A e \in BcOffsets : R[e] = IF e = o THEN bcLive[e].ref - 1 ELSE bcLive[e].ref
  BY <1>1, <1>2, <1>4
<1>11. \A e \in BcOffsets : K[e].ref = R[e]
  <2> HIDE DEF R
  <2> QED  BY <1>1, <1>2, <1>7, <1>10, RefsWith
<1>12. bcHeld' \in [BcThreads -> BcOffsets \cup {-1}] /\ \A e \in BcOffsets : R[e] = Cardinality(Holders(bcHeld', e))
  BY <1>1, <1>2
<1> HIDE DEF R, K
<1>13. Coherent(c, R) /\ c.live = K
  BY <1>8, <1>9, <1>11, CoherentIs DEF Holds
<1>14. c.live[o].ref = 0 => Coherent(Drop(c, o), R)
  BY <1>1, <1>2, <1>9, <1>13, DropKeeps
<1>15. Coherent(lru_move_to_front(c, o), R)
  <2>1. PICK V : Holds(lru_move_to_front(c, o), K, V, bcMem) /\ Paged(bcShards, K, V, bcMem)
    BY <1>1, <1>2, <1>8, <1>9, MoveHolds
  <2> QED  BY <2>1, <1>11, CoherentIs
<1>16. Coherent(f, R)
  BY <1>13, <1>14, <1>15
<1> HIDE DEF f
<1> QED  BY <1>2, <1>12, <1>16, BecomesKeeps

\* bnode_cache_invalidate: a page in use is marked, another one dropped.
LEMMA InvalidateKeeps ==
    ASSUME PageInv, NEW o \in BcOffsets, BcInvalidate(o)
    PROVE  PageInv'
<1> DEFINE x == bcLive[o]
           yes == TRUE
           no == FALSE
           y == [x EXCEPT !.inval = yes, !.dirty = no]
           K == [bcLive EXCEPT ![o] = y]
           c == [Cache EXCEPT !.live[o].inval = TRUE, !.live[o].dirty = FALSE]
           f == IF x.ref > 0 THEN c ELSE Drop(Cache, o)
           R == [e \in BcOffsets |-> bcLive[e].ref]
<1>1. /\ bcShards \in Nat \ {0}
      /\ Holds(Cache, bcLive, bcLru, bcMem) /\ Paged(bcShards, bcLive, bcLru, bcMem)
      /\ bcLive \in [BcOffsets -> Items] /\ Cache.live = bcLive
  BY PagesHave
<1>2. x # NoItem /\ Becomes(f) /\ bcHeld' = bcHeld
  BY <1>1 DEF BcInvalidate, shard_find
<1>3. x \in LiveItem /\ x.ref \in Nat
  BY <1>1, <1>2, ItemIs
<1>4. c = [Cache EXCEPT !.live = K]
  BY <1>1
<1>5. y \in LiveItem /\ y.len = x.len /\ y.ref = x.ref
  <2>1. yes \in BOOLEAN /\ no \in BOOLEAN
    OBVIOUS
  <2> HIDE DEF x, yes, no
  <2> QED  BY <1>3, <2>1, ItemMark
<1> HIDE DEF c, y
<1>6. Holds(c, K, bcLru, bcMem)
  BY <1>1, <1>4, Assigned
<1>7. Paged(bcShards, K, bcLru, bcMem)
  BY <1>1, <1>2, <1>5, PageTouched
<1>8. \A e \in BcOffsets : R[e] = bcLive[e].ref
  OBVIOUS
<1> HIDE DEF R
<1>9. \A e \in BcOffsets : K[e].ref = R[e]
  BY <1>1, <1>5, <1>8, RefsWith
<1> HIDE DEF K
<1>10. Coherent(c, R)
  BY <1>6, <1>7, <1>9, CoherentIs
<1>11. ~(x.ref > 0) => Coherent(Drop(Cache, o), R)
  <2>1. Coherent(Cache, R)
    BY <1>1, <1>8, CoherentIs
  <2>2. ~(x.ref > 0) => x.ref = 0
    BY <1>3
  <2> QED  BY <1>1, <1>2, <2>1, <2>2, DropKeeps
<1>12. Coherent(f, R)
  BY <1>10, <1>11
<1> HIDE DEF f
<1> QED  BY <1>2, <1>8, <1>12, SameHolders

\* bnode_cache_complete_evict frees a deferred page.
LEMMA CompleteEvictKeeps ==
    ASSUME PageInv, NEW o \in BcOffsets, BcCompleteEvict(o)
    PROVE  PageInv'
<1> DEFINE x == [Cache.deferred EXCEPT ![BcShard(o)] = RemoveFirst(@, o)]
           c == [Cache EXCEPT !.deferred = x]
           R == [e \in BcOffsets |-> bcLive[e].ref]
<1>1. /\ bcShards \in Nat \ {0}
      /\ Holds(Cache, bcLive, bcLru, bcMem) /\ Paged(bcShards, bcLive, bcLru, bcMem)
  BY PagesHave
<1>2. Becomes(c) /\ bcHeld' = bcHeld
  BY DEF BcCompleteEvict
<1> HIDE DEF x
<1>3. Holds(c, bcLive, bcLru, bcMem)
  BY <1>1, Assigned
<1>4. \A e \in BcOffsets : R[e] = bcLive[e].ref
  OBVIOUS
<1> HIDE DEF R, c
<1>5. Coherent(c, R)
  BY <1>1, <1>3, <1>4, CoherentIs
<1> QED  BY <1>2, <1>4, <1>5, SameHolders

\* The holders of a page follow it to its new offset.
LEMMA HoldersFollow ==
    ASSUME PageInv, NEW o \in BcOffsets, NEW m \in BcOffsets, o # m, bcLive[m].ref = 0,
           NEW h, h = [t \in BcThreads |-> IF bcHeld[t] = o THEN m ELSE bcHeld[t]]
    PROVE  /\ h \in [BcThreads -> BcOffsets \cup {-1}]
           /\ \A e \in BcOffsets : Cardinality(Holders(h, e)) =
                IF e = m THEN bcLive[o].ref ELSE IF e = o THEN 0 ELSE bcLive[e].ref
<1>1. /\ bcHeld \in [BcThreads -> BcOffsets \cup {-1}]
      /\ \A e \in BcOffsets : bcLive[e].ref = Cardinality(Holders(bcHeld, e))
  BY PagesHave
<1>2. Holders(bcHeld, m) = {}
  <2>1. IsFiniteSet(Holders(bcHeld, m)) /\ Cardinality(Holders(bcHeld, m)) = 0
    BY <1>1, HoldersCount
  <2> QED  BY <2>1, FS_EmptySet
<1>3. Holders(h, m) = Holders(bcHeld, o)
  BY <1>2 DEF Holders
<1>4. Holders(h, o) = {} /\ Cardinality({}) = 0
  BY FS_EmptySet DEF Holders
<1>5. ASSUME NEW e \in BcOffsets, e # o, e # m PROVE Holders(h, e) = Holders(bcHeld, e)
  BY <1>5 DEF Holders
<1>6. h \in [BcThreads -> BcOffsets \cup {-1}]
  BY <1>1
<1> QED  BY <1>1, <1>3, <1>4, <1>5, <1>6

\* The table with the item of o at m, and its references.
LEMMA RefsFollow ==
    ASSUME NEW L \in [BcOffsets -> Items], NEW o \in BcOffsets, NEW m \in BcOffsets, o # m,
           NEW item, item.ref = L[o].ref, NEW R,
           \A e \in BcOffsets : R[e] = IF e = m THEN L[o].ref ELSE IF e = o THEN 0 ELSE L[e].ref
    PROVE  \A e \in BcOffsets : Follows(L, o, m, item)[e].ref = R[e]
<1>1. NoItem.ref = 0
  BY DEF NoItem
<1> QED  BY <1>1 DEF Follows

\* A flush writes a page to another offset of its shard, or of another shard.
LEMMA FlushHolds ==
    ASSUME PageInv, NEW o \in BcOffsets, NEW m \in BcOffsets, bcLive[o] # NoItem, bcLive[m] = NoItem,
           NEW item \in LiveItem, item = [bcLive[o] EXCEPT !.dirty = FALSE], item.len = bcLive[o].len
    PROVE  \E V : /\ Holds(FlushOne(Cache, o, m), Follows(bcLive, o, m, item), V, bcMem)
                  /\ Paged(bcShards, Follows(bcLive, o, m, item), V, bcMem)
<1> DEFINE s == BcShard(o)
           k == BcShard(m)
           r == shard_remove(Cache, o)
           L == [bcLive EXCEPT ![o] = NoItem]
           K == [L EXCEPT ![m] = item]
           x == [r.dirty EXCEPT ![s] = (@ - 1) % CountMod]
           out == [r EXCEPT !.dirty = x]
<1>1. /\ bcShards \in Nat \ {0} /\ Cache.live = bcLive /\ bcLive \in [BcOffsets -> Items]
      /\ Holds(Cache, bcLive, bcLru, bcMem) /\ Paged(bcShards, bcLive, bcLru, bcMem)
      /\ bcLru \in [0 .. bcShards - 1 -> Seq(BcOffsets)]
  BY PagesHave DEF Paged
<1>2. s = o % bcShards /\ k = m % bcShards /\ s \in 0 .. bcShards - 1 /\ k \in 0 .. bcShards - 1 /\ o # m
  BY <1>1, ShardOf DEF BcShard
<1>3. Holds(out, L, bcLru, bcMem)
  <2>1. Holds(r, L, bcLru, bcMem)
    BY <1>1, RemoveHolds
  <2> HIDE DEF r, x, L
  <2> QED  BY <2>1, Assigned
<1> DEFINE a == shard_insert(out, m, item)
           q == bcLru[s]
           v == Renamed(q, o, m)
           b == Uncount(lru_remove(out, o), s)
           in == lru_push_front(shard_insert(b, m, item), m)
<1>4. FlushOne(Cache, o, m) =
        IF s = k
          THEN [a EXCEPT !.lru[s] = [i \in DOMAIN @ |-> IF @[i] = o THEN m ELSE @[i]]]
          ELSE [in EXCEPT !.count[k] = (@ + 1) % CountMod]
  BY <1>1 DEF FlushOne
<1> HIDE DEF out
<1>5. CASE s = k
  <2> DEFINE V == [bcLru EXCEPT ![s] = v]
  <2>1. Holds(a, K, bcLru, bcMem)
    <3> HIDE DEF L
    <3> QED  BY <1>3, InsertHolds
  <2>2. [a EXCEPT !.lru[s] = [i \in DOMAIN @ |-> IF @[i] = o THEN m ELSE @[i]]] = [a EXCEPT !.lru = V]
    <3>1. a.lru = bcLru
      BY <2>1 DEF Holds
    <3> HIDE DEF a
    <3> QED  BY <3>1 DEF Renamed
  <2>3. Paged(bcShards, K, V, bcMem)
    <3>1. m % bcShards = o % bcShards
      BY <1>2, <1>5
    <3>2. Paged(bcShards, Follows(bcLive, o, m, item),
                [bcLru EXCEPT ![o % bcShards] = Renamed(bcLru[o % bcShards], o, m)], bcMem)
      BY <1>1, <3>1, PageRenamed
    <3> QED  BY <3>2, <1>2 DEF Follows
  <2> HIDE DEF a, V, K
  <2>4. Holds([a EXCEPT !.lru = V], K, V, bcMem)
    BY <2>1, Assigned
  <2>5. Holds(FlushOne(Cache, o, m), K, V, bcMem)
    BY <1>4, <1>5, <2>2, <2>4
  <2> HIDE DEF s, k, v, in
  <2> QED  BY <2>3, <2>5 DEF K, L, Follows
<1>6. CASE s # k
  <2> DEFINE U == [bcLru EXCEPT ![s] = RemoveFirst(@, o)]
             V == [U EXCEPT ![k] = <<m>> \o @]
             w == lru_remove(out, o)
             y == shard_insert(b, m, item)
             z == [in.count EXCEPT ![k] = (@ + 1) % CountMod]
  <2>1. Holds(w, L, U, bcMem)
    <3> HIDE DEF L
    <3> QED  BY <1>3, ListHolds
  <2>2. Holds(b, L, U, bcMem)
    <3> HIDE DEF L, U, w
    <3>1. Holds(Uncount(w, s), L, U, bcMem)
      BY <2>1, UncountHolds
    <3> QED  BY <3>1 DEF w
  <2> HIDE DEF b
  <2>3. Holds(y, K, U, bcMem)
    <3> HIDE DEF L, U
    <3> QED  BY <2>2, InsertHolds
  <2>4. Holds(in, K, V, bcMem)
    <3> HIDE DEF K, U, y
    <3>1. Holds(lru_push_front(y, m), K, V, bcMem)
      BY <2>3, ListHolds
    <3> QED  BY <3>1 DEF y
  <2>5. [in EXCEPT !.count[k] = (@ + 1) % CountMod] = [in EXCEPT !.count = z]
    OBVIOUS
  <2> HIDE DEF in, z
  <2>6. Holds([in EXCEPT !.count = z], K, V, bcMem)
    <3> HIDE DEF K, V
    <3> QED  BY <2>4, Assigned
  <2>7. Holds(FlushOne(Cache, o, m), K, V, bcMem)
    BY <1>4, <1>6, <2>5, <2>6
  <2>8. bcShards # 1
    BY <1>2, <1>6
  <2>9. Paged(bcShards, L, U, bcMem - bcLive[o].len)
    <3>1. Paged(bcShards, L, [bcLru EXCEPT ![o % bcShards] = RemoveFirst(bcLru[o % bcShards], o)],
                bcMem - bcLive[o].len)
      BY <1>1, PageRemoved
    <3> QED  BY <3>1, <1>2
  <2>10. L[m] = NoItem
    BY <1>1, <1>2
  <2> DEFINE W == bcMem - bcLive[o].len
  <2>11. Paged(bcShards, K, V, W + item.len)
    <3> HIDE DEF L, U, W
    <3>1. Paged(bcShards, [L EXCEPT ![m] = item], [U EXCEPT ![m % bcShards] = <<m>> \o U[m % bcShards]],
                W + item.len)
      BY <1>1, <2>9, <2>10, PageAdded DEF W
    <3> QED  BY <3>1, <1>2
  <2> HIDE DEF K, V, W
  <2>12. Paged(bcShards, K, V, bcMem)
    BY <2>8, <2>11, AnyMemory
  <2> HIDE DEF s, k, v
  <2> QED  BY <2>7, <2>12 DEF K, L, Follows
<1> QED  BY <1>5, <1>6

\* bnode_cache_flush_dirty, of one dirty page.
LEMMA FlushDirtyKeeps ==
    ASSUME PageInv, NEW o \in BcOffsets, NEW m \in BcOffsets, BcFlushDirty(o, m)
    PROVE  PageInv'
<1> DEFINE x == bcLive[o]
           no == FALSE
           y == [x EXCEPT !.dirty = no]
           K == Follows(bcLive, o, m, y)
           f == FlushOne(Cache, o, m)
           R == [e \in BcOffsets |-> Cardinality(Holders(bcHeld', e))]
<1>1. bcLive \in [BcOffsets -> Items]
  BY PagesHave
<1>2. /\ bcLive[m] = NoItem /\ Becomes(f) /\ x.dirty
      /\ bcHeld' = [t \in BcThreads |-> IF bcHeld[t] = o THEN m ELSE bcHeld[t]]
  BY DEF BcFlushDirty
<1>3. x # NoItem /\ o # m /\ bcLive[m].ref = 0
  <2>1. NoItem.ref = 0 /\ ~NoItem.dirty
    BY DEF NoItem
  <2> QED  BY <1>2, <2>1
<1>4. x \in LiveItem
  BY <1>1, <1>3, ItemIs
<1>5. y \in LiveItem /\ y.len = x.len /\ y.ref = x.ref
  <2>1. no \in BOOLEAN
    OBVIOUS
  <2> HIDE DEF x, no
  <2> QED  BY <1>4, <2>1, ItemMark
<1>6. y = [bcLive[o] EXCEPT !.dirty = FALSE]
  OBVIOUS
<1> HIDE DEF y
<1>7. PICK V : Holds(f, K, V, bcMem) /\ Paged(bcShards, K, V, bcMem)
  BY <1>2, <1>3, <1>5, <1>6, FlushHolds
<1>8. /\ bcHeld' \in [BcThreads -> BcOffsets \cup {-1}]
      /\ \A e \in BcOffsets : R[e] =
           IF e = m THEN bcLive[o].ref ELSE IF e = o THEN 0 ELSE bcLive[e].ref
  BY <1>2, <1>3, HoldersFollow
<1>9. \A e \in BcOffsets : R[e] = Cardinality(Holders(bcHeld', e))
  OBVIOUS
<1> HIDE DEF R
<1>10. \A e \in BcOffsets : K[e].ref = R[e]
  <2>1. y.ref = bcLive[o].ref
    BY <1>5
  <2> HIDE DEF x
  <2> QED  BY <1>1, <1>3, <1>8, <2>1, RefsFollow
<1> HIDE DEF K, f
<1>11. Coherent(f, R)
  BY <1>7, <1>10, CoherentIs
<1> QED  BY <1>2, <1>8, <1>9, <1>11, BecomesKeeps

\* Of empty shards.
LEMMA PagesBegin ==
    ASSUME NEW n \in BcShardCounts, BcInit(n)
    PROVE  PageInv
<1>1. n \in Nat \ {0} /\ bcShards = n
  BY PagesAssumption DEF BcInit
<1>2. /\ bcLive = [o \in BcOffsets |-> NoItem] /\ bcLru = [s \in 0 .. n - 1 |-> <<>>] /\ bcMem = 0
      /\ bcHeld = [t \in BcThreads |-> -1]
  BY DEF BcInit
<1>3. bcLive \in [BcOffsets -> Items] /\ bcLru \in [0 .. n - 1 -> Seq(BcOffsets)]
  BY <1>2 DEF Items
<1>4. ASSUME NEW s \in 0 .. n - 1 PROVE ShardList(n, s, bcLru[s], bcLive)
  <2>1. bcLru[s] = <<>> /\ IsInjective(<<>>) /\ Range(<<>>) = {} /\ <<>> \in Seq(BcOffsets)
    BY <1>2 DEF IsInjective, Range
  <2> QED  BY <2>1, <1>2 DEF ShardList
<1>5. n = 1 => bcMem = Total(Lens(bcLive, bcLru[0]))
  <2> SUFFICES ASSUME n = 1 PROVE bcMem = Total(Lens(bcLive, bcLru[0]))
    OBVIOUS
  <2>1. bcLru[0] = <<>>
    BY <1>2
  <2>2. Lens(bcLive, <<>>) = <<>> /\ <<>> \in Seq(Nat)
    BY DEF Lens
  <2>3. Total(<<>>) = 0
    BY <2>2, TotalNat
  <2> QED  BY <1>2, <2>1, <2>2, <2>3
<1>6. Paged(bcShards, bcLive, bcLru, bcMem)
  BY <1>1, <1>3, <1>4, <1>5 DEF Paged
<1>7. bcHeld \in [BcThreads -> BcOffsets \cup {-1}]
  BY <1>2
<1>8. HeldIntact
  <2>1. ASSUME NEW o \in BcOffsets PROVE {t \in BcThreads : bcHeld[t] = o} = {}
    BY <1>2, NoMark
  <2>2. NoItem.ref = 0 /\ Cardinality({}) = 0
    BY FS_EmptySet DEF NoItem
  <2> QED  BY <1>2, <2>1, <2>2 DEF HeldIntact
<1> QED  BY <1>1, <1>6, <1>7, <1>8 DEF PageInv

\* The other parts leave the pages alone.
LEMMA PagesRest == PageInv /\ UNCHANGED bcVars => PageInv'
  BY DEF PageInv, bcVars, HeldIntact

\* Every step keeps the page cache.
LEMMA PagesStep == PageInv /\ [Next]_svVars => PageInv'
<1> SUFFICES ASSUME PageInv, [Next]_svVars PROVE PageInv'
  OBVIOUS
<1>1. CASE UNCHANGED bcVars
  BY <1>1, PagesRest
<1>2. CASE BcNext
  <2>1. ASSUME NEW t \in BcThreads, NEW o \in BcOffsets, BcRead(t, o) PROVE PageInv'
    <3>1. CASE shard_find(Cache, o)
      BY <2>1, <3>1, HitKeeps DEF BcRead
    <3>2. CASE ~shard_find(Cache, o)
      BY <2>1, <3>2, MissKeeps DEF BcRead
    <3> QED  BY <3>1, <3>2
  <2>2. ASSUME NEW t \in BcThreads, NEW o \in BcOffsets, BcPeek(t, o) PROVE PageInv'
    BY <2>2, HitKeeps DEF BcPeek
  <2>3. ASSUME NEW t \in BcThreads, BcRelease(t) PROVE PageInv'
    BY <2>3, ReleaseKeeps
  <2>4. ASSUME NEW o \in BcOffsets, BcInvalidate(o) \/ BcCompleteEvict(o) PROVE PageInv'
    BY <2>4, InvalidateKeeps, CompleteEvictKeeps
  <2>5. ASSUME NEW o \in BcOffsets, NEW n \in {1, 2}, BcWrite(o, n) PROVE PageInv'
    BY <2>5, WriteKeeps
  <2>6. ASSUME NEW o \in BcOffsets, NEW n \in BcOffsets, BcFlushDirty(o, n) PROVE PageInv'
    BY <2>6, FlushDirtyKeeps
  <2> QED  BY <1>2, <2>1, <2>2, <2>3, <2>4, <2>5, <2>6 DEF BcNext
<1> QED  BY <1>1, <1>2 DEF Next, PageStep, ValueStep, BlockStep, TimerStep, svVars

\* The invariant says what the property does.
LEMMA PagesAre == PageInv => PagesSound
<1> SUFFICES ASSUME PageInv PROVE PagesSound
  OBVIOUS
<1>1. ListedOnce
  <2>1. ASSUME NEW s \in 0 .. bcShards - 1
        PROVE  /\ \A i, j \in DOMAIN bcLru[s] : bcLru[s][i] = bcLru[s][j] => i = j
               /\ Range(bcLru[s]) = {o \in BcOffsets : bcLive[o] # NoItem /\ o % bcShards = s}
    BY DEF PageInv, Paged, ShardList, IsInjective
  <2> QED  BY <2>1 DEF ListedOnce, BcShard
<1>2. MemoryExact
  BY DEF PageInv, Paged, MemoryExact, Lens
<1> QED  BY <1>1, <1>2 DEF PageInv, PagesSound

\* A page is never evicted or freed under its holders, every cached page is listed once in its
\* shard, and with one shard the memory counted is the memory used: for any number of pages,
\* threads, shards and any budget.
THEOREM PagesAreSound == Spec => []PagesSound
<1>1. Init => PageInv
  BY PagesBegin DEF Init
<1> QED  BY <1>1, PagesStep, PagesAre, PTL DEF Spec

-----------------------------------------------------------------------------
(* The cache of values *)

LruNode == [key : LruKeys, size : Nat]

\* The list of nodes and the order of use agree: its keys are the first of them.
Agrees(nodes, used) ==
    Len(nodes) <= Len(used) /\ \A i \in 1 .. Len(nodes) : nodes[i].key = used[i]

\* The list holds nodes, the history repeats nothing, and the two agree.
LruInv ==
    /\ lruNodes \in Seq(LruNode)
    /\ lruUsed \in Seq(LruKeys) /\ IsInjective(lruUsed)
    /\ Agrees(lruNodes, lruUsed)
    /\ LruAccounts

\* The sizes of a list of nodes.
LEMMA SizesNat ==
    ASSUME NEW s \in Seq(LruNode)
    PROVE  /\ Sizes(s) \in Seq(Nat) /\ Len(Sizes(s)) = Len(s)
           /\ \A i \in 1 .. Len(s) : Sizes(s)[i] = EntryMemory(s[i].size)
<1>1. Len(s) \in Nat /\ \A i \in 1 .. Len(s) : s[i].size \in Nat
  <2>1. Len(s) \in Nat /\ \A i \in 1 .. Len(s) : s[i] \in LruNode
    OBVIOUS
  <2> QED  BY <2>1 DEF LruNode
<1>2. \A i \in 1 .. Len(s) : EntryMemory(s[i].size) \in Nat
  BY <1>1 DEF EntryMemory
<1> QED  BY <1>1, <1>2 DEF Sizes

\* A node that the map has stands at one place of the list.
LEMMA NodeIsAt ==
    ASSUME NEW s \in Seq(LruNode), NEW k \in LruKeysOf(s)
    PROVE  /\ NodeAt(s, k) \in 1 .. Len(s) /\ s[NodeAt(s, k)].key = k
           /\ NodeOf(s, k) = s[NodeAt(s, k)] /\ NodeOf(s, k) \in LruNode
<1>1. DOMAIN s = 1 .. Len(s) /\ Len(s) \in Nat
  OBVIOUS
<1>2. \E i \in DOMAIN s : s[i].key = k
  BY DEF LruKeysOf
<1>3. NodeAt(s, k) \in DOMAIN s /\ s[NodeAt(s, k)].key = k
  BY <1>2 DEF NodeAt
<1> QED  BY <1>1, <1>3 DEF NodeOf

\* A node is unlinked and its key leaves the history.
LEMMA Unlinked ==
    ASSUME NEW s \in Seq(LruNode), NEW u \in Seq(LruKeys), IsInjective(u), Agrees(s, u),
           NEW k \in LruKeysOf(s)
    PROVE  /\ Others(s, k) \in Seq(LruNode) /\ RemoveFirst(u, k) \in Seq(LruKeys)
           /\ IsInjective(RemoveFirst(u, k)) /\ k \notin Range(RemoveFirst(u, k))
           /\ Agrees(Others(s, k), RemoveFirst(u, k))
           /\ Len(Others(s, k)) = Len(s) - 1
           /\ Total(Sizes(Others(s, k))) = Total(Sizes(s)) - EntryMemory(NodeOf(s, k).size)
<1> DEFINE p == NodeAt(s, k)
           o == Others(s, k)
           r == RemoveFirst(u, k)
<1>1. p \in 1 .. Len(s) /\ s[p].key = k /\ NodeOf(s, k) = s[p]
  BY NodeIsAt
<1>2. /\ o = RemoveAt(s, p) /\ o \in Seq(LruNode) /\ CutOf(o, s, p) /\ Len(o) = Len(s) - 1
  <2>1. o = RemoveAt(s, p)
    BY DEF Others
  <2> HIDE DEF p, o
  <2> QED  BY <1>1, <2>1, CutIs
<1> HIDE DEF p, o
<1>3. /\ Len(s) \in Nat /\ Len(u) \in Nat /\ Len(s) <= Len(u) /\ p \in 1 .. Len(u) /\ u[p] = k
      /\ DOMAIN u = 1 .. Len(u) /\ \A i \in 1 .. Len(s) : s[i].key = u[i]
  BY <1>1 DEF Agrees
<1>4. k \in Range(u)
  BY <1>3 DEF Range
<1>5. PICK q \in 1 .. Len(u) : u[q] = k /\ r = RemoveAt(u, q)
  BY <1>4, UnlinkIs
<1> HIDE DEF r
<1>6. q = p
  BY <1>3, <1>5, SMTT(60) DEF IsInjective
<1>7. r \in Seq(LruKeys) /\ CutOf(r, u, p) /\ Len(r) = Len(u) - 1
  BY <1>3, <1>5, <1>6, CutIs
<1>8. IsInjective(r) /\ Range(r) = Range(u) \ {u[p]}
  BY <1>3, <1>7, CutInjective
<1>9. k \notin Range(r)
  BY <1>3, <1>8
<1>10. Agrees(o, r)
  <2>1. Len(o) \in Nat /\ Len(r) \in Nat /\ Len(o) <= Len(r)
    BY <1>2, <1>3, <1>7
  <2>2. ASSUME NEW i \in 1 .. Len(o) PROVE o[i].key = r[i]
    <3>1. i \in 1 .. Len(r) /\ i \in 1 .. Len(s) /\ 1 + i \in 1 .. Len(s)
      BY <2>1, <1>2, <1>3
    <3>2. /\ o[i] = IF i < p THEN s[i] ELSE s[1 + i]
          /\ r[i] = IF i < p THEN u[i] ELSE u[1 + i]
      BY <3>1, <1>2, <1>7 DEF CutOf
    <3> QED  BY <3>1, <3>2, <1>3
  <2> QED  BY <2>1, <2>2 DEF Agrees
<1>11. Total(Sizes(o)) = Total(Sizes(s)) - Sizes(s)[p]
  <2>1. /\ Sizes(o) \in Seq(Nat) /\ Sizes(s) \in Seq(Nat) /\ Len(Sizes(o)) = Len(o) /\ Len(Sizes(s)) = Len(s)
        /\ \A i \in 1 .. Len(s) : Sizes(s)[i] = EntryMemory(s[i].size)
        /\ \A i \in 1 .. Len(o) : Sizes(o)[i] = EntryMemory(o[i].size)
    BY <1>2, SizesNat
  <2>2. CutOf(Sizes(o), Sizes(s), p)
    <3>1. 1 + Len(o) = Len(s) /\ Len(o) \in Nat
      BY <1>2, <1>3
    <3>2. ASSUME NEW i \in 1 .. Len(o)
          PROVE  Sizes(o)[i] = IF i < p THEN Sizes(s)[i] ELSE Sizes(s)[1 + i]
      <4>1. o[i] = IF i < p THEN s[i] ELSE s[1 + i]
        BY <1>2 DEF CutOf
      <4>2. i \in 1 .. Len(s) /\ 1 + i \in 1 .. Len(s)
        BY <3>1
      <4> QED  BY <4>1, <4>2, <2>1
    <3> QED  BY <3>1, <3>2, <2>1 DEF CutOf
  <2>3. p \in 1 .. Len(Sizes(s))
    BY <1>1, <2>1
  <2> QED  BY <2>1, <2>2, <2>3, TotalCut
<1>12. Sizes(s)[p] = EntryMemory(NodeOf(s, k).size)
  BY <1>1, SizesNat
<1> QED  BY <1>2, <1>7, <1>8, <1>9, <1>10, <1>11, <1>12 DEF o, r

\* A node enters the list, and its key the history.
LEMMA Pushed ==
    ASSUME NEW s \in Seq(LruNode), NEW u \in Seq(LruKeys), IsInjective(u), Agrees(s, u),
           NEW k \in LruKeys, NEW x \in LruNode, x.key = k, k \notin Range(u)
    PROVE  /\ <<x>> \o s \in Seq(LruNode) /\ <<k>> \o u \in Seq(LruKeys)
           /\ IsInjective(<<k>> \o u) /\ Agrees(<<x>> \o s, <<k>> \o u)
           /\ Len(<<x>> \o s) = Len(s) + 1
           /\ Total(Sizes(<<x>> \o s)) = Total(Sizes(s)) + EntryMemory(x.size)
<1> DEFINE o == <<x>> \o s
           r == <<k>> \o u
<1>1. o \in Seq(LruNode) /\ FrontOf(o, x, s) /\ Len(o) = Len(s) + 1
  BY FrontIs
<1>2. r \in Seq(LruKeys) /\ FrontOf(r, k, u) /\ Len(r) = Len(u) + 1
  BY FrontIs
<1> HIDE DEF o, r
<1>3. Len(s) \in Nat /\ Len(u) \in Nat /\ DOMAIN u = 1 .. Len(u) /\ DOMAIN r = 1 .. Len(u) + 1
  BY <1>2
<1>4. ASSUME NEW i \in 1 .. Len(u) + 1, NEW j \in 1 .. Len(u) + 1, r[i] = r[j] PROVE i = j
  <2>1. \A n \in 1 .. Len(u) + 1 : n # 1 => n - 1 \in 1 .. Len(u) /\ r[n] = u[n - 1]
    <3>1. ASSUME NEW n \in 1 .. Len(u) + 1, n # 1 PROVE n - 1 \in 1 .. Len(u) /\ r[n] = u[n - 1]
      <4>1. n - 1 \in 1 .. Len(u) /\ 1 + (n - 1) = n
        BY <1>3, <3>1
      <4> QED  BY <4>1, <1>2 DEF FrontOf
    <3> QED  BY <3>1
  <2>2. \A n \in 1 .. Len(u) : u[n] # k
    BY <1>3 DEF Range
  <2>3. r[1] = k
    BY <1>2 DEF FrontOf
  <2>4. \A m, n \in 1 .. Len(u) : u[m] = u[n] => m = n
    BY <1>3 DEF IsInjective
  <2>5. CASE i = 1 \/ j = 1
    BY <2>1, <2>2, <2>3, <2>5, <1>4
  <2>6. CASE i # 1 /\ j # 1
    <3>1. i - 1 = j - 1
      BY <2>1, <2>4, <2>6, <1>4
    <3> QED  BY <3>1
  <2> QED  BY <2>5, <2>6
<1>5. IsInjective(r)
  BY <1>3, <1>4 DEF IsInjective
<1>6. Agrees(o, r)
  <2>1. Len(s) <= Len(u) /\ \A i \in 1 .. Len(s) : s[i].key = u[i]
    BY DEF Agrees
  <2>2. Len(o) <= Len(r)
    BY <1>1, <1>2, <1>3, <2>1
  <2>3. ASSUME NEW i \in 1 .. Len(o) PROVE o[i].key = r[i]
    <3>1. CASE i = 1
      BY <3>1, <1>1, <1>2 DEF FrontOf
    <3>2. CASE i # 1
      <4>1. i - 1 \in 1 .. Len(s) /\ i - 1 \in 1 .. Len(u) /\ 1 + (i - 1) = i
        BY <3>2, <1>1, <1>3, <2>1
      <4>2. o[i] = s[i - 1] /\ r[i] = u[i - 1]
        BY <4>1, <1>1, <1>2 DEF FrontOf
      <4> QED  BY <4>1, <4>2, <2>1
    <3> QED  BY <3>1, <3>2
  <2> QED  BY <2>2, <2>3 DEF Agrees
<1>7. Total(Sizes(o)) = EntryMemory(x.size) + Total(Sizes(s))
  <2>1. /\ Sizes(o) \in Seq(Nat) /\ Sizes(s) \in Seq(Nat) /\ Len(Sizes(o)) = Len(o) /\ Len(Sizes(s)) = Len(s)
        /\ \A i \in 1 .. Len(s) : Sizes(s)[i] = EntryMemory(s[i].size)
        /\ \A i \in 1 .. Len(o) : Sizes(o)[i] = EntryMemory(o[i].size)
    BY <1>1, SizesNat
  <2>2. FrontOf(Sizes(o), EntryMemory(x.size), Sizes(s))
    <3>1. Len(o) = 1 + Len(s) /\ 1 \in 1 .. Len(o) /\ \A i \in 1 .. Len(s) : 1 + i \in 1 .. Len(o)
      BY <1>1, <1>3
    <3>2. o[1] = x /\ \A i \in 1 .. Len(s) : o[1 + i] = s[i]
      BY <1>1 DEF FrontOf
    <3> QED  BY <3>1, <3>2, <2>1 DEF FrontOf
  <2>3. EntryMemory(x.size) \in Nat
    BY DEF EntryMemory, LruNode
  <2> QED  BY <2>1, <2>2, <2>3, TotalFront
<1>8. EntryMemory(x.size) + Total(Sizes(s)) = Total(Sizes(s)) + EntryMemory(x.size)
  <2>1. EntryMemory(x.size) \in Nat /\ Total(Sizes(s)) \in Nat
    <3>1. Sizes(s) \in Seq(Nat)
      BY SizesNat
    <3>2. Total(Sizes(s)) \in Nat
      BY <3>1, TotalNat
    <3> QED  BY <3>2 DEF EntryMemory, LruNode
  <2> QED  BY <2>1
<1> QED  BY <1>1, <1>2, <1>5, <1>6, <1>7, <1>8 DEF o, r

\* A non-empty set of places in a list has a last one.
LEMMA GreatestPlace ==
    ASSUME NEW n \in Nat, NEW T \in SUBSET (0 .. n), T # {}
    PROVE  Max(T) \in T
<1> DEFINE U == {j \in Nat : n - j \in T}
<1>1. U # {}
  <2>1. PICK i \in T : TRUE
    OBVIOUS
  <2>2. n - i \in Nat /\ n - (n - i) = i
    BY <2>1
  <2> QED  BY <2>1, <2>2
<1>2. PICK j \in U : \A i \in U : j <= i
  <2>1. U \in SUBSET Nat
    OBVIOUS
  <2> HIDE DEF U
  <2> QED  BY <2>1, <1>1, LeastNat
<1>3. ASSUME NEW y \in T PROVE n - j >= y
  <2>1. n - y \in Nat /\ n - (n - y) = y /\ j \in Nat
    OBVIOUS
  <2>2. j <= n - y
    BY <2>1, <1>2
  <2> QED  BY <2>1, <2>2
<1>4. n - j \in T
  BY <1>2
<1> QED  BY <1>3, <1>4 DEF Max

\* An eviction leaves a beginning of the list, all of it or one that makes room.
LEMMA EvictForIs ==
    ASSUME NEW s \in Seq(LruNode), NEW mem, NEW need
    PROVE  \E n \in 0 .. Len(s) :
              /\ EvictFor(s, mem, need) = SubSeq(s, 1, n)
              /\ \/ n = 0
                 \/ mem - (PrefixSums(Sizes(s))[Len(s)] - PrefixSums(Sizes(s))[n]) + need <= LruBudget
<1> DEFINE F == PrefixSums(Sizes(s))
           fits == {n \in 0 .. Len(s) : mem - (F[Len(s)] - F[n]) + need <= LruBudget}
           n == IF fits = {} THEN 0 ELSE Max(fits)
<1>1. Len(s) \in Nat
  OBVIOUS
<1>2. fits # {} => Max(fits) \in fits
  <2>1. fits \in SUBSET (0 .. Len(s))
    OBVIOUS
  <2> HIDE DEF fits
  <2> QED  BY <1>1, <2>1, GreatestPlace
<1>3. EvictFor(s, mem, need) = SubSeq(s, 1, n)
  BY DEF EvictFor
<1>4. n \in 0 .. Len(s) /\ (n = 0 \/ n \in fits)
  <2>1. fits \subseteq 0 .. Len(s) /\ 0 \in 0 .. Len(s)
    BY <1>1
  <2> HIDE DEF fits
  <2> QED  BY <1>2, <2>1
<1>5. n = 0 \/ mem - (F[Len(s)] - F[n]) + need <= LruBudget
  <2>1. n \in fits => mem - (F[Len(s)] - F[n]) + need <= LruBudget
    <3> HIDE DEF n
    <3> QED  OBVIOUS
  <2> HIDE DEF n, fits
  <2> QED  BY <2>1, <1>4
<1> HIDE DEF n, fits
<1> QED  BY <1>3, <1>4, <1>5

\* What an eviction keeps and what it drops.
LEMMA KeptAndGone ==
    ASSUME NEW s \in Seq(LruNode), NEW n \in 0 .. Len(s)
    PROVE  LET kept == SubSeq(s, 1, n)
               gone == SubSeq(s, n + 1, Len(s))
           IN  /\ kept \in Seq(LruNode) /\ Len(kept) = n /\ \A i \in 1 .. n : kept[i] = s[i]
               /\ gone \in Seq(LruNode) /\ Len(gone) = Len(s) - n
               /\ Total(Sizes(kept)) = PrefixSums(Sizes(s))[n]
               /\ Total(Sizes(gone)) = Total(Sizes(s)) - PrefixSums(Sizes(s))[n]
<1> DEFINE kept == SubSeq(s, 1, n)
           gone == SubSeq(s, n + 1, Len(s))
           m == Len(s) - n
<1>1. /\ n \in Nat /\ Len(s) \in Nat /\ n <= Len(s) /\ n - 1 + 1 = n /\ m \in Nat /\ n + m = Len(s)
      /\ Len(s) - (n + 1) + 1 = m /\ n + 1 \in Int /\ (n + 1 <= Len(s) <=> m > 0)
  OBVIOUS
<1>2. (\A i \in 1 .. n : s[i] \in LruNode) /\ (\A i \in n + 1 .. Len(s) : s[i] \in LruNode)
  BY <1>1
<1>3. /\ kept \in Seq(LruNode) /\ Len(kept) = IF 1 <= n THEN n - 1 + 1 ELSE 0
      /\ \A i \in 1 .. n - 1 + 1 : kept[i] = s[1 + i - 1]
  BY <1>1, <1>2, SubSeqProperties
<1>4. /\ gone \in Seq(LruNode) /\ Len(gone) = IF n + 1 <= Len(s) THEN Len(s) - (n + 1) + 1 ELSE 0
      /\ \A i \in 1 .. Len(s) - (n + 1) + 1 : gone[i] = s[n + 1 + i - 1]
  BY <1>1, <1>2, SubSeqProperties
<1> HIDE DEF kept, gone, m
<1>5. Len(kept) = n /\ Len(gone) = m
  <2>1. Len(kept) = n
    BY <1>1, <1>3
  <2>2. Len(gone) = m
    <3>1. CASE n + 1 <= Len(s)
      BY <3>1, <1>1, <1>4
    <3>2. CASE ~ (n + 1 <= Len(s))
      <4>1. m = 0 /\ Len(gone) = 0
        BY <3>2, <1>1, <1>4
      <4> QED  BY <4>1
    <3> QED  BY <3>1, <3>2
  <2> QED  BY <2>1, <2>2
<1>6. ASSUME NEW i \in 1 .. n PROVE kept[i] = s[i]
  <2>1. 1 + i - 1 = i
    OBVIOUS
  <2> QED  BY <2>1, <1>1, <1>3
<1>7. ASSUME NEW i \in 1 .. m PROVE gone[i] = s[n + i]
  <2>1. n + 1 + i - 1 = n + i
    BY <1>1
  <2> QED  BY <2>1, <1>1, <1>4
<1>8. /\ Sizes(s) \in Seq(Nat) /\ Len(Sizes(s)) = Len(s)
      /\ \A i \in 1 .. Len(s) : Sizes(s)[i] = EntryMemory(s[i].size)
      /\ Sizes(kept) \in Seq(Nat) /\ Len(Sizes(kept)) = n
      /\ \A i \in 1 .. n : Sizes(kept)[i] = EntryMemory(kept[i].size)
      /\ Sizes(gone) \in Seq(Nat) /\ Len(Sizes(gone)) = m
      /\ \A i \in 1 .. m : Sizes(gone)[i] = EntryMemory(gone[i].size)
  BY <1>3, <1>4, <1>5, SizesNat
<1>9. SamePieces(Sizes(kept), 0, Sizes(s), 0, n)
  <2>1. 0 + n <= Len(Sizes(kept)) /\ 0 + n <= Len(Sizes(s))
    BY <1>1, <1>8
  <2>2. ASSUME NEW i \in 1 .. n PROVE Sizes(kept)[0 + i] = Sizes(s)[0 + i]
    <3>1. 0 + i = i /\ i \in 1 .. Len(s)
      BY <1>1
    <3> QED  BY <3>1, <1>6, <1>8
  <2> QED  BY <2>1, <2>2 DEF SamePieces
<1>10. SamePieces(Sizes(gone), 0, Sizes(s), n, m)
  <2>1. 0 + m <= Len(Sizes(gone)) /\ n + m <= Len(Sizes(s))
    BY <1>1, <1>8
  <2>2. ASSUME NEW i \in 1 .. m PROVE Sizes(gone)[0 + i] = Sizes(s)[n + i]
    <3>1. 0 + i = i /\ n + i \in 1 .. Len(s)
      BY <1>1
    <3> QED  BY <3>1, <1>7, <1>8
  <2> QED  BY <2>1, <2>2 DEF SamePieces
<1>11. Total(Sizes(kept)) = PrefixSums(Sizes(s))[n]
  BY <1>8, <1>9, TotalHead
<1>12. Total(Sizes(gone)) = Total(Sizes(s)) - PrefixSums(Sizes(s))[n]
  <2>1. n \in Nat /\ n + Len(Sizes(gone)) = Len(Sizes(s)) /\ SamePieces(Sizes(gone), 0, Sizes(s), n, Len(Sizes(gone)))
    BY <1>1, <1>8, <1>10
  <2> QED  BY <2>1, <1>8, TotalTail
<1>13. /\ kept \in Seq(LruNode) /\ Len(kept) = n /\ \A i \in 1 .. n : kept[i] = s[i]
       /\ gone \in Seq(LruNode) /\ Len(gone) = Len(s) - n
  BY <1>3, <1>4, <1>5, <1>6 DEF m
<1> QED  BY <1>11, <1>12, <1>13 DEF kept, gone

\* The key of a new entry leaves the history, if it is there, behind the list.
LEMMA Forgotten ==
    ASSUME NEW s \in Seq(LruNode), NEW u \in Seq(LruKeys), IsInjective(u), Agrees(s, u),
           NEW k \in LruKeys, k \notin LruKeysOf(s), NEW t \in Seq(LruNode), Len(t) <= Len(s),
           \A i \in 1 .. Len(t) : t[i] = s[i]
    PROVE  /\ RemoveFirst(u, k) \in Seq(LruKeys) /\ IsInjective(RemoveFirst(u, k))
           /\ k \notin Range(RemoveFirst(u, k)) /\ Agrees(t, RemoveFirst(u, k))
<1> DEFINE r == RemoveFirst(u, k)
<1>1. /\ Len(s) \in Nat /\ Len(u) \in Nat /\ Len(t) \in Nat /\ Len(s) <= Len(u)
      /\ DOMAIN u = 1 .. Len(u) /\ DOMAIN s = 1 .. Len(s) /\ \A i \in 1 .. Len(s) : s[i].key = u[i]
  BY DEF Agrees
<1>2. CASE k \notin Range(u)
  <2>1. r = u
    BY <1>2, UnlinkIs
  <2>2. Agrees(t, u)
    <3>1. \A i \in 1 .. Len(t) : i \in 1 .. Len(s)
      BY <1>1
    <3> QED  BY <3>1, <1>1 DEF Agrees
  <2> QED  BY <2>1, <2>2, <1>2
<1>3. CASE k \in Range(u)
  <2>1. PICK q \in 1 .. Len(u) : u[q] = k /\ r = RemoveAt(u, q)
    BY <1>3, UnlinkIs
  <2> HIDE DEF r
  <2>2. q > Len(s)
    <3>1. ASSUME q <= Len(s) PROVE FALSE
      <4>1. q \in DOMAIN s /\ s[q].key = k
        BY <1>1, <2>1, <3>1
      <4> QED  BY <4>1 DEF LruKeysOf
    <3> QED  BY <3>1, <1>1
  <2>3. r \in Seq(LruKeys) /\ CutOf(r, u, q) /\ Len(r) = Len(u) - 1
    BY <2>1, CutIs
  <2>4. IsInjective(r) /\ Range(r) = Range(u) \ {u[q]}
    BY <2>3, CutInjective
  <2>5. Agrees(t, r)
    <3>1. Len(t) <= Len(r)
      BY <1>1, <2>1, <2>2, <2>3
    <3>2. ASSUME NEW i \in 1 .. Len(t) PROVE t[i].key = r[i]
      <4>1. i \in 1 .. Len(s) /\ i \in 1 .. Len(r) /\ i < q
        BY <1>1, <2>1, <2>2, <2>3, <3>1
      <4>2. r[i] = u[i]
        BY <4>1, <2>3 DEF CutOf
      <4> QED  BY <4>1, <4>2, <1>1
    <3> QED  BY <3>1, <3>2 DEF Agrees
  <2>6. k \notin Range(r)
    BY <2>1, <2>4
  <2> QED  BY <2>3, <2>4, <2>5, <2>6 DEF r
<1> QED  BY <1>2, <1>3

\* Memory is counted in natural numbers.
LEMMA MemoryNat ==
    ASSUME NEW s \in Seq(LruNode), NEW x \in LruNode
    PROVE  Total(Sizes(s)) \in Nat /\ EntryMemory(x.size) \in Nat /\ Len(s) \in Nat
<1>1. Sizes(s) \in Seq(Nat)
  BY SizesNat
<1>2. Total(Sizes(s)) \in Nat
  BY <1>1, TotalNat
<1> QED  BY <1>2 DEF EntryMemory, LruNode

\* The keys of a list without one of its nodes, and with one more.
LEMMA FewerKeys ==
    ASSUME NEW s \in Seq(LruNode), NEW k \in LruKeysOf(s)
    PROVE  LruKeysOf(Others(s, k)) \subseteq LruKeysOf(s)
<1> DEFINE p == NodeAt(s, k)
           o == Others(s, k)
<1>1. p \in 1 .. Len(s)
  BY NodeIsAt
<1>2. o \in Seq(LruNode) /\ CutOf(o, s, p) /\ Len(o) = Len(s) - 1
  <2>1. o = RemoveAt(s, p)
    BY DEF Others
  <2> HIDE DEF p, o
  <2> QED  BY <1>1, <2>1, CutIs
<1> HIDE DEF p, o
<1>3. ASSUME NEW i \in DOMAIN o PROVE \E j \in DOMAIN s : s[j] = o[i]
  <2>1. i \in 1 .. Len(o) /\ Len(s) \in Nat /\ Len(o) \in Nat /\ DOMAIN s = 1 .. Len(s)
    BY <1>2
  <2>2. i \in DOMAIN s /\ 1 + i \in DOMAIN s
    BY <1>2, <2>1
  <2>3. o[i] = IF i < p THEN s[i] ELSE s[1 + i]
    BY <1>2, <2>1 DEF CutOf
  <2> QED  BY <2>2, <2>3
<1>4. LruKeysOf(o) \subseteq LruKeysOf(s)
  BY <1>3 DEF LruKeysOf
<1> QED  BY <1>4 DEF o

\* The keys of a list with a node in front.
LEMMA MoreKeys ==
    ASSUME NEW s \in Seq(LruNode), NEW x \in LruNode
    PROVE  LruKeysOf(<<x>> \o s) \subseteq LruKeysOf(s) \cup {x.key}
<1> DEFINE o == <<x>> \o s
<1>1. o \in Seq(LruNode) /\ FrontOf(o, x, s) /\ Len(o) = Len(s) + 1
  BY FrontIs
<1> HIDE DEF o
<1>2. ASSUME NEW i \in DOMAIN o PROVE o[i] = x \/ \E j \in DOMAIN s : s[j] = o[i]
  <2>1. i \in 1 .. Len(s) + 1 /\ Len(s) \in Nat /\ DOMAIN s = 1 .. Len(s)
    BY <1>1
  <2>2. CASE i = 1
    BY <2>2, <1>1 DEF FrontOf
  <2>3. CASE i # 1
    <3>1. i - 1 \in 1 .. Len(s) /\ 1 + (i - 1) = i
      BY <2>1, <2>3
    <3> QED  BY <2>1, <3>1, <1>1 DEF FrontOf
  <2> QED  BY <2>2, <2>3
<1>3. LruKeysOf(o) \subseteq LruKeysOf(s) \cup {x.key}
  BY <1>2 DEF LruKeysOf
<1> QED  BY <1>3 DEF o

\* What LruBudgetKept says of a step.
WithinBudget == (LruKeysOf(lruNodes') \ LruKeysOf(lruNodes) # {})
                  => lruMem' <= LruBudget \/ Len(lruNodes') = 1

\* A hit moves its node to the front.
LEMMA GetKeeps ==
    ASSUME LruInv, NEW k \in LruKeys, Get(k)
    PROVE  LruInv' /\ WithinBudget
<1> DEFINE x == NodeOf(lruNodes, k)
           o == Others(lruNodes, k)
           r == RemoveFirst(lruUsed, k)
<1>1. /\ k \in LruKeysOf(lruNodes) /\ lruNodes' = <<x>> \o o /\ lruUsed' = <<k>> \o r
      /\ lruMem' = lruMem /\ lruCount' = lruCount
  BY DEF Get, MoveToFront, Touched
<1>2. /\ lruNodes \in Seq(LruNode) /\ lruUsed \in Seq(LruKeys) /\ IsInjective(lruUsed)
      /\ Agrees(lruNodes, lruUsed) /\ lruMem = Total(Sizes(lruNodes)) /\ lruCount = Len(lruNodes)
  BY DEF LruInv, LruAccounts
<1>3. x \in LruNode /\ x.key = k
  BY <1>1, <1>2, NodeIsAt
<1>4. /\ o \in Seq(LruNode) /\ r \in Seq(LruKeys) /\ IsInjective(r) /\ k \notin Range(r) /\ Agrees(o, r)
      /\ Len(o) = Len(lruNodes) - 1 /\ Total(Sizes(o)) = Total(Sizes(lruNodes)) - EntryMemory(x.size)
  BY <1>1, <1>2, Unlinked
<1>5. LruKeysOf(o) \subseteq LruKeysOf(lruNodes)
  BY <1>1, <1>2, FewerKeys
<1> HIDE DEF x, o, r
<1>6. /\ <<x>> \o o \in Seq(LruNode) /\ <<k>> \o r \in Seq(LruKeys) /\ IsInjective(<<k>> \o r)
      /\ Agrees(<<x>> \o o, <<k>> \o r) /\ Len(<<x>> \o o) = Len(o) + 1
      /\ Total(Sizes(<<x>> \o o)) = Total(Sizes(o)) + EntryMemory(x.size)
  BY <1>3, <1>4, Pushed
<1>7. LruKeysOf(<<x>> \o o) \subseteq LruKeysOf(lruNodes)
  BY <1>1, <1>3, <1>4, <1>5, MoreKeys
<1>8. lruMem' = Total(Sizes(lruNodes')) /\ lruCount' = Len(lruNodes')
  <2>1. EntryMemory(x.size) \in Nat /\ Total(Sizes(lruNodes)) \in Nat /\ Len(lruNodes) \in Nat
    BY <1>2, <1>3, MemoryNat
  <2> QED  BY <2>1, <1>1, <1>2, <1>4, <1>6
<1>9. LruInv'
  BY <1>1, <1>6, <1>8 DEF LruInv, LruAccounts
<1>10. WithinBudget
  BY <1>1, <1>7 DEF WithinBudget
<1> QED  BY <1>9, <1>10

\* An update moves the node to the front and changes its size.
LEMMA PutExistingKeeps ==
    ASSUME LruInv, NEW k \in LruKeys, NEW v \in LruSizes, k \in LruKeysOf(lruNodes),
           PutExisting(k, v), Touched(k)
    PROVE  LruInv' /\ WithinBudget
<1> DEFINE x == NodeOf(lruNodes, k)
           y == [key |-> k, size |-> v]
           o == Others(lruNodes, k)
           r == RemoveFirst(lruUsed, k)
<1>1. /\ lruNodes' = [<<x>> \o o EXCEPT ![1] = y] /\ lruUsed' = <<k>> \o r
      /\ lruMem' = lruMem + EntryMemory(v) - EntryMemory(x.size) /\ lruCount' = lruCount
  BY DEF PutExisting, MoveToFront, Touched
<1>2. /\ lruNodes \in Seq(LruNode) /\ lruUsed \in Seq(LruKeys) /\ IsInjective(lruUsed)
      /\ Agrees(lruNodes, lruUsed) /\ lruMem = Total(Sizes(lruNodes)) /\ lruCount = Len(lruNodes)
  BY DEF LruInv, LruAccounts
<1>3. x \in LruNode /\ x.key = k
  BY <1>2, NodeIsAt
<1>4. /\ o \in Seq(LruNode) /\ r \in Seq(LruKeys) /\ IsInjective(r) /\ k \notin Range(r) /\ Agrees(o, r)
      /\ Len(o) = Len(lruNodes) - 1 /\ Total(Sizes(o)) = Total(Sizes(lruNodes)) - EntryMemory(x.size)
  BY <1>2, Unlinked
<1>5. LruKeysOf(o) \subseteq LruKeysOf(lruNodes)
  BY <1>2, FewerKeys
<1>6. y \in LruNode /\ y.key = k /\ y.size = v /\ v \in Nat
  BY ValuesAssumption DEF LruNode
<1> HIDE DEF x, o, r, y
<1>7. lruNodes' = <<y>> \o o
  <2>1. <<x>> \o o \in Seq(LruNode) /\ FrontOf(<<x>> \o o, x, o) /\ Len(<<x>> \o o) = Len(o) + 1
    BY <1>3, <1>4, FrontIs
  <2>2. <<y>> \o o \in Seq(LruNode) /\ FrontOf(<<y>> \o o, y, o) /\ Len(<<y>> \o o) = Len(o) + 1
    BY <1>6, <1>4, FrontIs
  <2> DEFINE a == <<x>> \o o
             b == <<y>> \o o
  <2>3. DOMAIN a = 1 .. Len(o) + 1 /\ DOMAIN b = 1 .. Len(o) + 1 /\ Len(o) \in Nat
    BY <2>1, <2>2, <1>4
  <2>4. a \in [1 .. Len(o) + 1 -> LruNode] /\ b \in [1 .. Len(o) + 1 -> LruNode]
    <3>1. a \in Seq(LruNode) /\ b \in Seq(LruNode) /\ Len(a) = Len(o) + 1 /\ Len(b) = Len(o) + 1
      BY <2>1, <2>2
    <3> HIDE DEF a, b
    <3> QED  BY <3>1
  <2>5. b[1] = y /\ \A i \in 1 .. Len(o) : a[1 + i] = b[1 + i]
    BY <2>1, <2>2 DEF FrontOf
  <2>6. \A i \in 1 .. Len(o) + 1 : i # 1 => i - 1 \in 1 .. Len(o) /\ 1 + (i - 1) = i
    BY <2>3
  <2>7. \A i \in 1 .. Len(o) + 1 : i # 1 => a[i] = b[i]
    BY <2>5, <2>6
  <2> HIDE DEF a, b
  <2>8. [a EXCEPT ![1] = y] = b
    BY <2>4, <2>5, <2>7
  <2> QED  BY <2>8, <1>1 DEF a, b
<1>8. /\ <<y>> \o o \in Seq(LruNode) /\ <<k>> \o r \in Seq(LruKeys) /\ IsInjective(<<k>> \o r)
      /\ Agrees(<<y>> \o o, <<k>> \o r) /\ Len(<<y>> \o o) = Len(o) + 1
      /\ Total(Sizes(<<y>> \o o)) = Total(Sizes(o)) + EntryMemory(y.size)
  BY <1>6, <1>4, Pushed
<1>9. LruKeysOf(<<y>> \o o) \subseteq LruKeysOf(lruNodes)
  BY <1>6, <1>4, <1>5, MoreKeys
<1>10. lruMem' = Total(Sizes(lruNodes')) /\ lruCount' = Len(lruNodes')
  <2>1. EntryMemory(x.size) \in Nat /\ EntryMemory(v) \in Nat /\ Total(Sizes(lruNodes)) \in Nat /\ Len(lruNodes) \in Nat
    BY <1>2, <1>3, <1>6, MemoryNat DEF EntryMemory
  <2> DEFINE T == Total(Sizes(lruNodes))
             e == EntryMemory(x.size)
             f == EntryMemory(v)
  <2>2. /\ lruMem' = T + f - e /\ Total(Sizes(lruNodes')) = (T - e) + f
        /\ T \in Nat /\ e \in Nat /\ f \in Nat
    BY <2>1, <1>1, <1>2, <1>4, <1>6, <1>7, <1>8
  <2> HIDE DEF T, e, f
  <2>3. lruMem' = Total(Sizes(lruNodes'))
    BY <2>2
  <2>4. lruCount' = Len(lruNodes')
    BY <2>1, <1>1, <1>2, <1>4, <1>7, <1>8
  <2> QED  BY <2>3, <2>4
<1>11. LruInv'
  BY <1>1, <1>7, <1>8, <1>10 DEF LruInv, LruAccounts
<1>12. WithinBudget
  BY <1>7, <1>9 DEF WithinBudget
<1> QED  BY <1>11, <1>12

\* A new entry evicts from the end until it fits.
LEMMA PutNewKeeps ==
    ASSUME LruInv, NEW k \in LruKeys, NEW v \in LruSizes, k \notin LruKeysOf(lruNodes),
           PutNew(k, v), Touched(k)
    PROVE  LruInv' /\ WithinBudget
<1> DEFINE y == [key |-> k, size |-> v]
           s == lruNodes
           need == EntryMemory(v)
           F == PrefixSums(Sizes(s))
           r == RemoveFirst(lruUsed, k)
<1>2. /\ s \in Seq(LruNode) /\ lruUsed \in Seq(LruKeys) /\ IsInjective(lruUsed)
      /\ Agrees(s, lruUsed) /\ lruMem = Total(Sizes(s)) /\ lruCount = Len(s) /\ Len(s) \in Nat
  BY DEF LruInv, LruAccounts
<1>3. PICK n \in 0 .. Len(s) :
          /\ EvictFor(s, lruMem, need) = SubSeq(s, 1, n)
          /\ n = 0 \/ lruMem - (F[Len(s)] - F[n]) + need <= LruBudget
  BY <1>2, EvictForIs
<1> DEFINE kept == SubSeq(s, 1, n)
           gone == SubSeq(s, n + 1, Len(s))
<1>4. /\ kept \in Seq(LruNode) /\ Len(kept) = n /\ \A i \in 1 .. n : kept[i] = s[i]
      /\ gone \in Seq(LruNode) /\ Len(gone) = Len(s) - n
      /\ Total(Sizes(kept)) = F[n] /\ Total(Sizes(gone)) = Total(Sizes(s)) - F[n]
  BY <1>2, KeptAndGone
<1>5. /\ lruNodes' = <<y>> \o kept
      /\ lruMem' = lruMem - Total(Sizes(gone)) + need
      /\ lruCount' = lruCount - Len(gone) + 1
      /\ lruUsed' = <<k>> \o r
  <2>1. Len(SubSeq(s, 1, n)) = n
    BY <1>4
  <2> QED  BY <1>3, <2>1 DEF PutNew, Touched
<1>6. y \in LruNode /\ y.key = k /\ y.size = v /\ v \in Nat
  BY ValuesAssumption DEF LruNode
<1>7. need \in Nat /\ F[n] \in Nat /\ F[Len(s)] \in Nat /\ Total(Sizes(s)) = F[Len(s)] /\ Len(s) \in Nat /\ n \in Nat
  <2>1. Sizes(s) \in Seq(Nat) /\ Len(Sizes(s)) = Len(s)
    BY <1>2, SizesNat
  <2>2. n \in 0 .. Len(s) /\ Len(s) \in 0 .. Len(s) /\ n \in Nat
    BY <1>2
  <2>3. F[n] \in Nat /\ F[Len(s)] \in Nat
    BY <2>1, <2>2, SumsSpec
  <2> QED  BY <1>2, <1>6, <2>1, <2>2, <2>3 DEF EntryMemory, Total
<1> HIDE DEF kept, gone, y, F, need, r
<1>8. /\ r \in Seq(LruKeys) /\ IsInjective(r) /\ k \notin Range(r) /\ Agrees(kept, r)
  <2>1. Len(kept) <= Len(s) /\ \A i \in 1 .. Len(kept) : kept[i] = s[i]
    BY <1>2, <1>4
  <2> QED  BY <1>2, <1>4, <2>1, Forgotten DEF r
<1>9. /\ <<y>> \o kept \in Seq(LruNode) /\ <<k>> \o r \in Seq(LruKeys) /\ IsInjective(<<k>> \o r)
      /\ Agrees(<<y>> \o kept, <<k>> \o r) /\ Len(<<y>> \o kept) = Len(kept) + 1
      /\ Total(Sizes(<<y>> \o kept)) = Total(Sizes(kept)) + EntryMemory(y.size)
  BY <1>4, <1>6, <1>8, Pushed
<1>10. EntryMemory(y.size) = need
  BY <1>6 DEF need
<1>11. lruMem' = F[n] + need
  BY <1>2, <1>4, <1>5, <1>7
<1>12. lruMem' = Total(Sizes(lruNodes')) /\ lruCount' = Len(lruNodes')
  <2>1. lruMem' = Total(Sizes(lruNodes'))
    BY <1>4, <1>5, <1>9, <1>10, <1>11
  <2>2. lruCount' = Len(lruNodes')
    BY <1>2, <1>4, <1>5, <1>7, <1>9
  <2> QED  BY <2>1, <2>2
<1>13. LruInv'
  BY <1>5, <1>9, <1>12 DEF LruInv, LruAccounts
<1>14. lruMem' <= LruBudget \/ Len(lruNodes') = 1
  <2>1. CASE n = 0
    BY <2>1, <1>4, <1>5, <1>9
  <2>2. CASE lruMem - (F[Len(s)] - F[n]) + need <= LruBudget
    BY <2>2, <1>2, <1>7, <1>11
  <2> QED  BY <1>3, <2>1, <2>2 DEF F, need
<1> QED  BY <1>13, <1>14 DEF WithinBudget

\* A deletion takes one node out.
LEMMA DeleteKeeps ==
    ASSUME LruInv, NEW k \in LruKeys, Delete(k)
    PROVE  LruInv' /\ WithinBudget
<1> DEFINE x == NodeOf(lruNodes, k)
           o == Others(lruNodes, k)
           r == RemoveFirst(lruUsed, k)
<1>1. /\ k \in LruKeysOf(lruNodes) /\ lruNodes' = o /\ lruUsed' = r
      /\ lruMem' = lruMem - EntryMemory(x.size) /\ lruCount' = lruCount - 1
  BY DEF Delete
<1>2. /\ lruNodes \in Seq(LruNode) /\ lruUsed \in Seq(LruKeys) /\ IsInjective(lruUsed)
      /\ Agrees(lruNodes, lruUsed) /\ lruMem = Total(Sizes(lruNodes)) /\ lruCount = Len(lruNodes)
  BY DEF LruInv, LruAccounts
<1>4. /\ o \in Seq(LruNode) /\ r \in Seq(LruKeys) /\ IsInjective(r) /\ k \notin Range(r) /\ Agrees(o, r)
      /\ Len(o) = Len(lruNodes) - 1 /\ Total(Sizes(o)) = Total(Sizes(lruNodes)) - EntryMemory(x.size)
  BY <1>1, <1>2, Unlinked
<1>5. LruKeysOf(o) \subseteq LruKeysOf(lruNodes)
  BY <1>1, <1>2, FewerKeys
<1> HIDE DEF x, o, r
<1>6. LruInv'
  BY <1>1, <1>2, <1>4 DEF LruInv, LruAccounts
<1>7. WithinBudget
  BY <1>1, <1>5 DEF WithinBudget
<1> QED  BY <1>6, <1>7

\* The empty cache.
LEMMA EmptyList == Total(Sizes(<<>>)) = 0 /\ <<>> \in Seq(LruNode) /\ Agrees(<<>>, <<>>) /\ LruKeysOf(<<>>) = {}
<1>1. <<>> \in Seq(LruNode) /\ Len(<<>>) = 0
  OBVIOUS
<1>2. Sizes(<<>>) \in Seq(Nat) /\ Len(Sizes(<<>>)) = 0
  BY <1>1, SizesNat
<1>3. Sizes(<<>>) = <<>>
  BY <1>2
<1>4. Total(Sizes(<<>>)) = 0
  BY <1>2, <1>3, TotalNat
<1> QED  BY <1>1, <1>4 DEF Agrees, LruKeysOf

\* Of an empty cache and no history.
LEMMA ValuesBegin == LruInit => LruInv
<1> SUFFICES ASSUME LruInit PROVE LruInv
  OBVIOUS
<1>1. lruNodes = <<>> /\ lruUsed = <<>> /\ lruMem = 0 /\ lruCount = 0
  BY DEF LruInit
<1>2. IsInjective(<<>>) /\ <<>> \in Seq(LruKeys)
  BY DEF IsInjective
<1> QED  BY <1>1, <1>2, EmptyList DEF LruInv, LruAccounts

\* database_lru_cache_clear forgets everything.
LEMMA ClearKeeps ==
    ASSUME LruInv, database_lru_cache_clear PROVE LruInv' /\ WithinBudget
<1>1. lruNodes' = <<>> /\ lruUsed' = <<>> /\ lruMem' = 0 /\ lruCount' = 0
  BY DEF database_lru_cache_clear
<1>2. IsInjective(<<>>) /\ <<>> \in Seq(LruKeys)
  BY DEF IsInjective
<1>3. LruInv'
  BY <1>1, <1>2, EmptyList DEF LruInv, LruAccounts
<1>4. WithinBudget
  BY <1>1, EmptyList DEF WithinBudget
<1> QED  BY <1>3, <1>4

\* The other parts leave the cache alone.
LEMMA ValuesRest == LruInv /\ UNCHANGED lruVars => LruInv' /\ WithinBudget
<1> SUFFICES ASSUME LruInv, UNCHANGED lruVars PROVE LruInv' /\ WithinBudget
  OBVIOUS
<1>1. UNCHANGED <<lruNodes, lruUsed, lruMem, lruCount>>
  BY DEF lruVars
<1> QED  BY <1>1 DEF LruInv, LruAccounts, WithinBudget

\* A step of the value cache.
LEMMA ValuesNext ==
    ASSUME LruInv, LruNext PROVE LruInv' /\ WithinBudget
<1>1. CASE database_lru_cache_clear
  BY <1>1, ClearKeeps
<1>2. ASSUME NEW k \in LruKeys, database_lru_cache_get(k) \/ database_lru_cache_get_unsafe(k)
      PROVE  LruInv' /\ WithinBudget
  BY <1>2, GetKeeps DEF database_lru_cache_get, database_lru_cache_get_unsafe
<1>3. ASSUME NEW k \in LruKeys, database_lru_cache_delete(k) \/ database_lru_cache_delete_unsafe(k)
      PROVE  LruInv' /\ WithinBudget
  BY <1>3, DeleteKeeps DEF database_lru_cache_delete, database_lru_cache_delete_unsafe
<1>4. ASSUME NEW k \in LruKeys, NEW v \in LruSizes,
             database_lru_cache_put(k, v) \/ database_lru_cache_put_unsafe(k, v)
      PROVE  LruInv' /\ WithinBudget
  <2>1. Put(k, v)
    BY <1>4 DEF database_lru_cache_put, database_lru_cache_put_unsafe
  <2>2. CASE k \in LruKeysOf(lruNodes)
    BY <2>1, <2>2, PutExistingKeeps DEF Put
  <2>3. CASE k \notin LruKeysOf(lruNodes)
    BY <2>1, <2>3, PutNewKeeps DEF Put
  <2> QED  BY <2>2, <2>3
<1> QED  BY <1>1, <1>2, <1>3, <1>4 DEF LruNext

\* Every step keeps the cache, and whoever adds a key leaves it within its budget.
LEMMA ValuesStep == LruInv /\ [Next]_svVars => LruInv' /\ WithinBudget
<1> SUFFICES ASSUME LruInv, [Next]_svVars PROVE LruInv' /\ WithinBudget
  OBVIOUS
<1>1. CASE ValueStep
  BY <1>1, ValuesNext DEF ValueStep
<1>2. CASE PageStep \/ BlockStep \/ TimerStep
  <2>1. UNCHANGED lruVars
    BY <1>2 DEF PageStep, BlockStep, TimerStep
  <2> QED  BY <2>1, ValuesRest
<1>3. CASE UNCHANGED svVars
  <2>1. UNCHANGED lruVars
    BY <1>3 DEF svVars
  <2> QED  BY <2>1, ValuesRest
<1> QED  BY <1>1, <1>2, <1>3 DEF Next

\* The invariant says what the property does.
LEMMA ValuesAre == LruInv => ValuesSound
<1> SUFFICES ASSUME LruInv PROVE ValuesSound
  OBVIOUS
<1>1. DOMAIN lruNodes = 1 .. Len(lruNodes)
  BY DEF LruInv
<1>2. LruRecency
  BY <1>1 DEF LruInv, LruRecency, Agrees
<1> QED  BY <1>2 DEF LruInv, ValuesSound

\* The cached keys are always the most recently used ones, in that order, and the counters
\* are those of the list.
THEOREM ValuesAreSound == Spec => []ValuesSound
<1>1. Init => LruInv
  BY ValuesBegin DEF Init
<1>2. LruInv /\ [Next]_svVars => LruInv'
  BY ValuesStep
<1> QED  BY <1>1, <1>2, ValuesAre, PTL DEF Spec

-----------------------------------------------------------------------------
(* The block allocator *)

BlockTypes ==
    /\ mpList \in Seq(Blocks) /\ mpCount = Len(mpList)
    /\ mpTls \in [MpThreads -> Seq(Blocks)]
    /\ \A t \in MpThreads : Len(mpTls[t]) <= TlsSize
    /\ mpOwner \in [Blocks -> MpThreads \cup {NoOwner}]

\* The list and every cache hold a block at most once,
NoRepetition == IsInjective(mpList) /\ \A t \in MpThreads : IsInjective(mpTls[t])

\* a cached block is in no other cache and not on the list,
CachesApart ==
    \A t \in MpThreads :
        /\ Range(mpTls[t]) \cap Range(mpList) = {}
        /\ \A u \in MpThreads \ {t} : Range(mpTls[t]) \cap Range(mpTls[u]) = {}

\* a block in use is neither cached nor on the list,
UsedApart ==
    \A b \in Blocks : mpOwner[b] # NoOwner =>
        b \notin Range(mpList) /\ \A t \in MpThreads : b \notin Range(mpTls[t])

\* and one that is nowhere was dropped.
NowhereDropped ==
    \A b \in Blocks :
        \/ mpOwner[b] # NoOwner \/ b \in mpDropped
        \/ b \in Range(mpList) \/ \E t \in MpThreads : b \in Range(mpTls[t])

BlockInv == BlockTypes /\ NoRepetition /\ CachesApart /\ UsedApart /\ NowhereDropped

\* An empty pool has every block in one place.
LEMMA BlocksBegin == MpInit => BlockInv
<1> SUFFICES ASSUME MpInit PROVE BlockInv
  OBVIOUS
<1> USE BlockAssumption
<1>1. mpList = MpBlocks /\ mpCount = Len(mpList) /\ Range(mpList) = Blocks
  BY DEF MpInit, Blocks
<1>2. mpTls = [t \in MpThreads |-> <<>>] /\ mpOwner = [b \in Blocks |-> NoOwner]
  BY DEF MpInit
<1>3. \A t \in MpThreads : /\ mpTls[t] = <<>> /\ mpTls[t] \in Seq(Blocks)
                          /\ Len(mpTls[t]) <= TlsSize
  BY <1>2
<1>4. \A t \in MpThreads : IsInjective(mpTls[t]) /\ Range(mpTls[t]) = {}
  BY <1>3 DEF IsInjective, Range
<1>5. BlockTypes
  BY <1>1, <1>2, <1>3 DEF BlockTypes
<1>6. NoRepetition
  BY <1>1, <1>4 DEF NoRepetition
<1>7. CachesApart
  BY <1>4 DEF CachesApart
<1>8. UsedApart
  BY <1>2 DEF UsedApart
<1>9. NowhereDropped
  BY <1>1 DEF NowhereDropped
<1>10. QED
  BY <1>5, <1>6, <1>7, <1>8, <1>9 DEF BlockInv

\* class_free pushes the block or takes it for a double free.
LEMMA ClassFreeCases ==
    ASSUME NEW b, ClassBecomes(ClassFree(ClassNow, b))
    PROVE  \/ mpList' = <<b>> \o mpList /\ mpCount' = mpCount + 1 /\ mpDropped' = mpDropped
           \/ mpList' = mpList /\ mpCount' = mpCount /\ mpDropped' = mpDropped \cup {b}
<1>1. CASE ClassNow.word[b] = HeadOf(ClassNow.list) /\ ClassNow.list # <<>>
  BY <1>1 DEF ClassBecomes, ClassFree, ClassNow
<1>2. CASE ~(ClassNow.word[b] = HeadOf(ClassNow.list) /\ ClassNow.list # <<>>)
  BY <1>2 DEF ClassBecomes, ClassFree, ClassNow
<1>3. QED
  BY <1>1, <1>2

\* memory_pool_alloc takes the last block of the thread's cache.
LEMMA AllocCachedKeeps ==
    ASSUME BlockInv, NEW t \in MpThreads, AllocCached(t) PROVE BlockInv'
<1> USE BlockAssumption
<1> DEFINE b == Last(mpTls[t])
<1>1. mpTls[t] \in Seq(Blocks) /\ mpTls[t] # <<>> /\ IsInjective(mpTls[t])
  BY DEF BlockInv, BlockTypes, NoRepetition, AllocCached
<1>2. /\ Front(mpTls[t]) \in Seq(Blocks) /\ Len(Front(mpTls[t])) = Len(mpTls[t]) - 1
      /\ IsInjective(Front(mpTls[t])) /\ b \in Range(mpTls[t])
      /\ Range(Front(mpTls[t])) = Range(mpTls[t]) \ {b}
  BY <1>1, WithoutLast
<1>3. b \in Blocks
  BY <1>1, <1>2 DEF Range
<1>4. /\ mpTls' = [mpTls EXCEPT ![t] = Front(mpTls[t])]
      /\ mpOwner' = [mpOwner EXCEPT ![b] = t]
      /\ mpList' = mpList /\ mpCount' = mpCount /\ mpDropped' = mpDropped
  BY DEF AllocCached
<1> HIDE DEF b
<1>5. /\ mpTls'[t] = Front(mpTls[t])
      /\ \A u \in MpThreads \ {t} : mpTls'[u] = mpTls[u]
      /\ mpOwner'[b] = t /\ \A c \in Blocks \ {b} : mpOwner'[c] = mpOwner[c]
  BY <1>3, <1>4 DEF BlockInv, BlockTypes
<1>6. BlockTypes'
  BY <1>1, <1>2, <1>3, <1>4, <1>5 DEF BlockInv, BlockTypes
<1>7. Range(mpTls'[t]) = Range(mpTls[t]) \ {b}
  BY <1>2, <1>5
<1>8. NoRepetition'
  BY <1>2, <1>4, <1>5 DEF BlockInv, NoRepetition
<1>9. CachesApart'
  BY <1>4, <1>5, <1>7 DEF BlockInv, CachesApart
<1>10. UsedApart'
  BY <1>2, <1>4, <1>5, <1>7, SMTT(60) DEF BlockInv, UsedApart, CachesApart
<1>11. NowhereDropped'
  BY <1>4, <1>5, <1>7 DEF BlockInv, NowhereDropped
<1>12. QED
  BY <1>6, <1>8, <1>9, <1>10, <1>11 DEF BlockInv

\* memory_pool_alloc takes the first block of the shared list.
LEMMA AllocSharedKeeps ==
    ASSUME BlockInv, NEW t \in MpThreads, AllocShared(t) PROVE BlockInv'
<1> USE BlockAssumption
<1> DEFINE b == Head(mpList)
<1>1. mpList \in Seq(Blocks) /\ mpList # <<>> /\ IsInjective(mpList)
  BY DEF BlockInv, BlockTypes, NoRepetition, AllocShared
<1>2. /\ Tail(mpList) \in Seq(Blocks) /\ Len(Tail(mpList)) = Len(mpList) - 1
      /\ IsInjective(Tail(mpList)) /\ b \in Range(mpList)
      /\ Range(Tail(mpList)) = Range(mpList) \ {b}
  BY <1>1, WithoutFirst
<1>3. b \in Blocks
  BY <1>1, <1>2 DEF Range
<1>4. /\ mpList' = Tail(mpList) /\ mpCount' = mpCount - 1
      /\ mpOwner' = [mpOwner EXCEPT ![b] = t]
      /\ mpTls' = mpTls /\ mpDropped' = mpDropped
  BY DEF AllocShared
<1> HIDE DEF b
<1>5. mpOwner'[b] = t /\ \A c \in Blocks \ {b} : mpOwner'[c] = mpOwner[c]
  BY <1>3, <1>4 DEF BlockInv, BlockTypes
<1>6. BlockTypes'
  BY <1>1, <1>2, <1>3, <1>4, <1>5 DEF BlockInv, BlockTypes
<1>7. Range(mpList') = Range(mpList) \ {b}
  BY <1>2, <1>4
<1>8. NoRepetition'
  BY <1>2, <1>4 DEF BlockInv, NoRepetition
<1>9. CachesApart'
  BY <1>4, <1>7 DEF BlockInv, CachesApart
<1>10. UsedApart'
  BY <1>2, <1>4, <1>5, <1>7 DEF BlockInv, UsedApart, CachesApart
<1>11. NowhereDropped'
  BY <1>4, <1>5, <1>7 DEF BlockInv, NowhereDropped
<1>12. QED
  BY <1>6, <1>8, <1>9, <1>10, <1>11 DEF BlockInv

\* A block that has left its place goes through class_free: the caches without
\* it are disjoint from each other and the owners know nothing of it.
LEMMA FreeBlockKeeps ==
    ASSUME BlockInv, NEW t \in MpThreads, NEW b \in Blocks, FreeBlock(t, b) PROVE BlockInv'
<1> USE BlockAssumption
<1>1. mpOwner[b] = t /\ mpOwner[b] # NoOwner
  BY DEF FreeBlock
<1>2. b \notin Range(mpList) /\ \A u \in MpThreads : b \notin Range(mpTls[u])
  BY <1>1 DEF BlockInv, UsedApart
<1>3. mpOwner' = [mpOwner EXCEPT ![b] = NoOwner]
  BY DEF FreeBlock
<1>4. mpOwner'[b] = NoOwner /\ \A c \in Blocks \ {b} : mpOwner'[c] = mpOwner[c]
  BY <1>3 DEF BlockInv, BlockTypes
<1>5. mpOwner' \in [Blocks -> MpThreads \cup {NoOwner}]
  BY <1>3 DEF BlockInv, BlockTypes
<1>6. CASE Len(mpTls[t]) < TlsSize
  <2>1. /\ mpTls' = [mpTls EXCEPT ![t] = Append(mpTls[t], b)]
        /\ mpList' = mpList /\ mpCount' = mpCount /\ mpDropped' = mpDropped
    BY <1>6 DEF FreeBlock
  <2>2. mpTls[t] \in Seq(Blocks) /\ IsInjective(mpTls[t])
    BY DEF BlockInv, BlockTypes, NoRepetition
  <2>3. /\ Append(mpTls[t], b) \in Seq(Blocks) /\ Len(Append(mpTls[t], b)) = Len(mpTls[t]) + 1
        /\ IsInjective(Append(mpTls[t], b))
        /\ Range(Append(mpTls[t], b)) = Range(mpTls[t]) \cup {b}
    BY <1>2, <2>2, WithLast
  <2>4. /\ mpTls'[t] = Append(mpTls[t], b)
        /\ \A u \in MpThreads \ {t} : mpTls'[u] = mpTls[u]
    BY <2>1 DEF BlockInv, BlockTypes
  <2>5. Len(mpTls'[t]) <= TlsSize
    BY <1>6, <2>2, <2>3, <2>4
  <2>6. BlockTypes'
    BY <1>5, <2>1, <2>3, <2>4, <2>5 DEF BlockInv, BlockTypes
  <2>7. Range(mpTls'[t]) = Range(mpTls[t]) \cup {b}
    BY <2>3, <2>4
  <2>8. NoRepetition'
    BY <2>1, <2>3, <2>4 DEF BlockInv, NoRepetition
  <2>9. CachesApart'
    <3>1. ASSUME NEW v \in MpThreads PROVE Range(mpTls'[v]) \cap Range(mpList') = {}
      BY <1>2, <2>1, <2>4, <2>7 DEF BlockInv, CachesApart
    <3>2. ASSUME NEW v \in MpThreads, NEW w \in MpThreads \ {v}
          PROVE  Range(mpTls'[v]) \cap Range(mpTls'[w]) = {}
      <4>1. Range(mpTls[v]) \cap Range(mpTls[w]) = {}
        BY DEF BlockInv, CachesApart
      <4>2. /\ Range(mpTls'[v]) = Range(mpTls[v]) \/ v = t
            /\ Range(mpTls'[w]) = Range(mpTls[w]) \/ w = t
        BY <2>4
      <4>3. QED
        BY <1>2, <2>7, <4>1, <4>2
    <3>3. QED
      BY <3>1, <3>2 DEF CachesApart
  <2>10. UsedApart'
    BY <1>4, <2>1, <2>4, <2>7 DEF BlockInv, UsedApart
  <2>11. NowhereDropped'
    BY <1>4, <2>1, <2>4, <2>7 DEF BlockInv, NowhereDropped
  <2>12. QED
    BY <2>6, <2>8, <2>9, <2>10, <2>11 DEF BlockInv
<1>7. CASE ~(Len(mpTls[t]) < TlsSize)
  <2>1. mpTls' = mpTls /\ ClassBecomes(ClassFree(ClassNow, b))
    BY <1>7 DEF FreeBlock
  <2>2. CASE mpList' = <<b>> \o mpList /\ mpCount' = mpCount + 1 /\ mpDropped' = mpDropped
    <3>1. mpList \in Seq(Blocks) /\ IsInjective(mpList)
      BY DEF BlockInv, BlockTypes, NoRepetition
    <3>2. /\ mpList' \in Seq(Blocks) /\ Len(mpList') = Len(mpList) + 1
          /\ IsInjective(mpList') /\ Range(mpList') = Range(mpList) \cup {b}
      BY <1>2, <2>2, <3>1, WithFirst
    <3>3. BlockTypes'
      BY <1>5, <2>1, <2>2, <3>2 DEF BlockInv, BlockTypes
    <3>4. NoRepetition'
      BY <2>1, <3>2 DEF BlockInv, NoRepetition
    <3>5. CachesApart'
      BY <1>2, <2>1, <3>2 DEF BlockInv, CachesApart
    <3>6. UsedApart'
      BY <1>4, <2>1, <3>2 DEF BlockInv, UsedApart
    <3>7. NowhereDropped'
      BY <1>4, <2>1, <2>2, <3>2 DEF BlockInv, NowhereDropped
    <3>8. QED
      BY <3>3, <3>4, <3>5, <3>6, <3>7 DEF BlockInv
  <2>3. CASE mpList' = mpList /\ mpCount' = mpCount /\ mpDropped' = mpDropped \cup {b}
    <3>1. BlockTypes'
      BY <1>5, <2>1, <2>3 DEF BlockInv, BlockTypes
    <3>2. NoRepetition' /\ CachesApart'
      BY <2>1, <2>3 DEF BlockInv, NoRepetition, CachesApart
    <3>3. UsedApart'
      BY <1>4, <2>1, <2>3 DEF BlockInv, UsedApart
    <3>4. NowhereDropped'
      BY <1>4, <2>1, <2>3 DEF BlockInv, NowhereDropped
    <3>5. QED
      BY <3>1, <3>2, <3>3, <3>4 DEF BlockInv
  <2>4. QED
    BY <2>1, <2>2, <2>3, ClassFreeCases
<1>8. QED
  BY <1>6, <1>7

\* memory_pool_tls_drain gives the last block of a cache back to the shared list.
LEMMA TlsDrainKeeps ==
    ASSUME BlockInv, NEW t \in MpThreads, TlsDrain(t) PROVE BlockInv'
<1> USE BlockAssumption
<1> DEFINE b == Last(mpTls[t])
<1>1. mpTls[t] \in Seq(Blocks) /\ mpTls[t] # <<>> /\ IsInjective(mpTls[t])
  BY DEF BlockInv, BlockTypes, NoRepetition, TlsDrain
<1>2. /\ Front(mpTls[t]) \in Seq(Blocks) /\ Len(Front(mpTls[t])) = Len(mpTls[t]) - 1
      /\ IsInjective(Front(mpTls[t])) /\ b \in Range(mpTls[t])
      /\ Range(Front(mpTls[t])) = Range(mpTls[t]) \ {b}
  BY <1>1, WithoutLast
<1>3. b \in Blocks
  BY <1>1, <1>2 DEF Range
<1>4. /\ mpTls' = [mpTls EXCEPT ![t] = Front(mpTls[t])] /\ mpOwner' = mpOwner
      /\ ClassBecomes(ClassFree(ClassNow, b))
  BY DEF TlsDrain
<1> HIDE DEF b
<1>5. /\ mpTls'[t] = Front(mpTls[t])
      /\ \A u \in MpThreads \ {t} : mpTls'[u] = mpTls[u]
      /\ mpTls' \in [MpThreads -> Seq(Blocks)]
      /\ \A u \in MpThreads : Len(mpTls'[u]) <= TlsSize
  BY <1>1, <1>2, <1>4 DEF BlockInv, BlockTypes
<1>6. Range(mpTls'[t]) = Range(mpTls[t]) \ {b}
  BY <1>2, <1>5
<1>7. /\ b \notin Range(mpList) /\ \A u \in MpThreads : b \notin Range(mpTls'[u])
      /\ mpOwner[b] = NoOwner
  BY <1>2, <1>3, <1>5, <1>6 DEF BlockInv, CachesApart, UsedApart
<1>8. \A u \in MpThreads : IsInjective(mpTls'[u])
  BY <1>2, <1>5 DEF BlockInv, NoRepetition
<1>9. CASE mpList' = <<b>> \o mpList /\ mpCount' = mpCount + 1 /\ mpDropped' = mpDropped
  <2>1. mpList \in Seq(Blocks) /\ IsInjective(mpList)
    BY DEF BlockInv, BlockTypes, NoRepetition
  <2>2. /\ mpList' \in Seq(Blocks) /\ Len(mpList') = Len(mpList) + 1
        /\ IsInjective(mpList') /\ Range(mpList') = Range(mpList) \cup {b}
    BY <1>3, <1>7, <1>9, <2>1, WithFirst
  <2>3. BlockTypes'
    BY <1>4, <1>5, <1>9, <2>2 DEF BlockInv, BlockTypes
  <2>4. NoRepetition'
    BY <1>8, <2>2 DEF NoRepetition
  <2>5. CachesApart'
    <3>1. \A v \in MpThreads : Range(mpTls'[v]) \subseteq Range(mpTls[v])
      BY <1>5, <1>6
    <3>2. ASSUME NEW v \in MpThreads PROVE Range(mpTls'[v]) \cap Range(mpList') = {}
      BY <1>7, <2>2, <3>1 DEF BlockInv, CachesApart
    <3>3. ASSUME NEW v \in MpThreads, NEW w \in MpThreads \ {v}
          PROVE  Range(mpTls'[v]) \cap Range(mpTls'[w]) = {}
      <4>1. Range(mpTls[v]) \cap Range(mpTls[w]) = {}
        BY DEF BlockInv, CachesApart
      <4>2. QED
        BY <3>1, <4>1
    <3>4. QED
      BY <3>2, <3>3 DEF CachesApart
  <2>6. UsedApart'
    BY <1>4, <1>5, <1>6, <1>7, <2>2 DEF BlockInv, UsedApart
  <2>7. NowhereDropped'
    BY <1>4, <1>5, <1>6, <1>9, <2>2 DEF BlockInv, NowhereDropped
  <2>8. QED
    BY <2>3, <2>4, <2>5, <2>6, <2>7 DEF BlockInv
<1>10. CASE mpList' = mpList /\ mpCount' = mpCount /\ mpDropped' = mpDropped \cup {b}
  <2>1. BlockTypes'
    BY <1>4, <1>5, <1>10 DEF BlockInv, BlockTypes
  <2>2. NoRepetition'
    BY <1>8, <1>10 DEF BlockInv, NoRepetition
  <2>3. CachesApart'
    BY <1>5, <1>6, <1>10 DEF BlockInv, CachesApart
  <2>4. UsedApart'
    BY <1>4, <1>5, <1>6, <1>10 DEF BlockInv, UsedApart
  <2>5. NowhereDropped'
    BY <1>4, <1>5, <1>6, <1>10 DEF BlockInv, NowhereDropped
  <2>6. QED
    BY <2>1, <2>2, <2>3, <2>4, <2>5 DEF BlockInv
<1>11. QED
  BY <1>4, <1>9, <1>10, ClassFreeCases

\* The other services leave the pool alone.
LEMMA BlocksRest == BlockInv /\ UNCHANGED mpVars => BlockInv'
  BY DEF BlockInv, BlockTypes, NoRepetition, CachesApart, UsedApart, NowhereDropped, mpVars

\* What owners store in their blocks is not part of the invariant.
LEMMA StoreKeeps ==
    ASSUME BlockInv, NEW t, NEW b, NEW c, Store(t, b, c) PROVE BlockInv'
  BY DEF Store, BlockInv, BlockTypes, NoRepetition, CachesApart, UsedApart, NowhereDropped

\* Every step keeps the blocks in one place each.
LEMMA BlocksStep == BlockInv /\ [Next]_svVars => BlockInv'
<1> SUFFICES ASSUME BlockInv, [Next]_svVars PROVE BlockInv'
  OBVIOUS
<1>1. CASE UNCHANGED mpVars
  BY <1>1, BlocksRest
<1>2. CASE MpNext
  <2>1. PICK t \in MpThreads :
          \/ AllocCached(t) \/ AllocShared(t) \/ TlsDrain(t)
          \/ \E b \in Blocks : \/ FreeBlock(t, b) \/ FreeAgain(t, b)
                               \/ \E c \in Blocks : Store(t, b, c)
    BY <1>2 DEF MpNext
  <2>2. CASE AllocCached(t)
    BY <2>2, AllocCachedKeeps
  <2>3. CASE AllocShared(t)
    BY <2>3, AllocSharedKeeps
  <2>4. CASE TlsDrain(t)
    BY <2>4, TlsDrainKeeps
  <2>5. ASSUME NEW b \in Blocks, FreeBlock(t, b) PROVE BlockInv'
    BY <2>5, FreeBlockKeeps
  <2>6. ASSUME NEW b \in Blocks, FreeAgain(t, b) PROVE BlockInv'
    BY <2>6, BlocksRest DEF FreeAgain
  <2>7. ASSUME NEW b \in Blocks, NEW c \in Blocks, Store(t, b, c) PROVE BlockInv'
    BY <2>7, StoreKeeps
  <2>8. QED
    BY <2>1, <2>2, <2>3, <2>4, <2>5, <2>6, <2>7
<1>3. QED
  BY <1>1, <1>2 DEF Next, PageStep, ValueStep, BlockStep, TimerStep, svVars

\* A set that has no two elements has a cardinality of zero or one.
LEMMA AtMostOne ==
    ASSUME NEW S, \A x, y \in S : x = y
    PROVE  /\ Cardinality(S) = IF S = {} THEN 0 ELSE 1
<1>1. CASE S = {}
  BY <1>1, FS_EmptySet
<1>2. CASE S # {}
  <2>1. PICK x : x \in S
    BY <1>2
  <2>2. S = {x}
    BY <2>1
  <2>3. QED
    BY <1>2, <2>2, FS_Singleton
<1>3. QED
  BY <1>1, <1>2

\* What the invariant says, counted.
LEMMA BlocksCounted == BlockInv => BlocksSound
<1> SUFFICES ASSUME BlockInv PROVE BlocksSound
  OBVIOUS
<1> USE BlockAssumption
<1>1. ASSUME NEW b \in Blocks
      PROVE  Places(b) \in {0, 1} /\ (Places(b) = 0 => b \in mpDropped)
  <2> DEFINE L == {i \in DOMAIN mpList : mpList[i] = b}
             C == {p \in MpThreads \X (1 .. TlsSize) :
                     p[2] \in DOMAIN mpTls[p[1]] /\ mpTls[p[1]][p[2]] = b}
             u == IF mpOwner[b] = NoOwner THEN 0 ELSE 1
  <2>1. Places(b) = Cardinality(L) + Cardinality(C) + u
    BY DEF Places
  <2>2. Cardinality(L) = IF L = {} THEN 0 ELSE 1
    <3>1. \A i, j \in L : i = j
      BY DEF BlockInv, NoRepetition, IsInjective
    <3>2. QED
      BY <3>1, AtMostOne
  <2>3. ASSUME NEW p \in C PROVE p[1] \in MpThreads /\ b \in Range(mpTls[p[1]])
    BY DEF Range
  <2>4. \A p, q \in C : p = q
    <3> SUFFICES ASSUME NEW p \in C, NEW q \in C PROVE p = q
      OBVIOUS
    <3>1. p[1] = q[1]
      BY <2>3 DEF BlockInv, CachesApart
    <3>2. p[2] = q[2]
      BY <2>3, <3>1 DEF BlockInv, NoRepetition, IsInjective
    <3>3. p = <<p[1], p[2]>> /\ q = <<q[1], q[2]>>
      OBVIOUS
    <3>4. QED
      BY <3>1, <3>2, <3>3
  <2>5. Cardinality(C) = IF C = {} THEN 0 ELSE 1
    BY <2>4, AtMostOne
  <2>6. L # {} <=> b \in Range(mpList)
    BY DEF Range
  <2>7. C # {} <=> \E t \in MpThreads : b \in Range(mpTls[t])
    <3>1. ASSUME NEW t \in MpThreads, b \in Range(mpTls[t]) PROVE C # {}
      <4>1. PICK i \in DOMAIN mpTls[t] : mpTls[t][i] = b
        BY <3>1 DEF Range
      <4>2. i \in 1 .. TlsSize
        BY <4>1 DEF BlockInv, BlockTypes
      <4>3. <<t, i>> \in C
        BY <4>1, <4>2
      <4>4. QED
        BY <4>3
    <3>2. QED
      BY <2>3, <3>1
  <2> HIDE DEF L, C
  <2>8. u = 1 => L = {} /\ C = {}
    BY <2>6, <2>7 DEF BlockInv, UsedApart
  <2>9. ~(L # {} /\ C # {})
    BY <2>6, <2>7 DEF BlockInv, CachesApart
  <2>10. u = 0 /\ L = {} /\ C = {} => b \in mpDropped
    BY <2>6, <2>7 DEF BlockInv, NowhereDropped
  <2>11. QED
    BY <2>1, <2>2, <2>5, <2>8, <2>9, <2>10
<1>2. OnePlace
  BY <1>1 DEF OnePlace
<1>3. LeakedByGuess
  BY <1>1 DEF LeakedByGuess, BlockInv, BlockTypes
<1>4. QED
  BY <1>2, <1>3 DEF BlocksSound

\* memory_pool_alloc, memory_pool_free and the draining of thread caches never
\* have a block in two places, for any number of blocks and threads and
\* whatever owners store in them, and lose one only where class_free mistakes
\* it for a double free.
THEOREM BlocksAreSound == Spec => []BlocksSound
<1>1. Init => BlockInv
  BY BlocksBegin DEF Init
<1>2. QED
  BY <1>1, BlocksStep, BlocksCounted, PTL DEF Spec

-----------------------------------------------------------------------------
(* The timing wheel *)

AllTimers == TwTimers \cup {TickTimer}
Fields == {"place", "plan", "slot", "circle", "born", "removed", "calls", "aborts"}
Lists == [wheel : Wheels, no : Nat, todo : Seq(AllTimers), ids : Seq(AllTimers)]

TimerTypes ==
    /\ twTimer = [t \in AllTimers |-> twTimer[t]]
    /\ \A t \in AllTimers : DOMAIN twTimer[t] = Fields
    /\ twMap \subseteq TwTimers
    /\ twTick \in [Wheels -> Nat]
    /\ twLists \subseteq Lists
    /\ twWaiting \in BOOLEAN

\* What the record of a user's timer is like.  A timer that can be cancelled
\* is under way; a removed one has had its abort callback and nothing else;
\* one that is under way otherwise has had none.
Uncalled(r) == r.calls = 0 /\ r.aborts = 0
Fits(r, mapped) ==
    /\ r.removed \in BOOLEAN
    /\ mapped => ~r.removed /\ r.place \in {"mapped", "slot", "expired"}
    /\ r.removed => r.calls = 0 /\ r.aborts = 1 /\ r.place \notin {"unset", "queued"}
    /\ ~r.removed /\ r.place # "over" => Uncalled(r)
    /\ r.place = "over" => Uncalled(r) \/ (r.calls = 0 /\ r.aborts = 1)
                                      \/ (r.calls = 1 /\ r.aborts = 0)
TimersFit == \A t \in TwTimers \ twLate : Fits(twTimer[t], t \in twMap)

\* The timers of a list have expired, and those that can still be cancelled
\* are the ones that maintenance has yet to take out of the map.
ListsFit ==
    \A l \in twLists :
        /\ IsInjective(l.ids) /\ IsInjective(l.todo)
        /\ \A t \in Range(l.ids) : /\ twTimer[t].place = "expired"
                                   /\ t \in twMap => t \in Range(l.todo)

\* A timer stands in one list.
ListsApart == \A l, m \in twLists : l # m => Range(l.ids) \cap Range(m.ids) = {}

\* After the stop the map holds only timers that were set since.
StoppedEmpty == twStopped => twMap \subseteq twLate

\* A tick of wheel 2 that has begun is the callback of its timer.
TickHeld == 2 \in twBegun => twTimer[TickTimer].place = "queued"

TimerInv ==
    /\ TimerTypes /\ TimersFit /\ ListsFit /\ ListsApart /\ StoppedEmpty /\ TickHeld
    /\ IdleHeard

\* The fields that matter here, of a record with all fields.
Looks(r, place, removed, calls, aborts) ==
    /\ DOMAIN r = Fields
    /\ r.place = place /\ r.removed = removed /\ r.calls = calls /\ r.aborts = aborts

\* The fields of a timer record after each kind of update.
LEMMA NewLooks == Looks(NewTimer, "unset", FALSE, 0, 0)
  BY DEF NewTimer, Looks, Fields

\* A timer that is moved keeps what it was told.
LEMMA PlacedLooks ==
    ASSUME NEW r, DOMAIN r = Fields, NEW x, NEW p
    PROVE  /\ Looks([r EXCEPT !.place = x], x, r.removed, r.calls, r.aborts)
           /\ Looks([r EXCEPT !.place = x, !.plan = p], x, r.removed, r.calls, r.aborts)
           /\ Looks([r EXCEPT !.place = x, !.circle = p], x, r.removed, r.calls, r.aborts)
           /\ Looks([r EXCEPT !.circle = p], r.place, r.removed, r.calls, r.aborts)
           /\ Looks([r EXCEPT !.plan = p], r.place, r.removed, r.calls, r.aborts)
  BY DEF Looks, Fields

\* A timer that is put in a slot keeps what it was told.
LEMMA SlotLooks ==
    ASSUME NEW r, DOMAIN r = Fields
    PROVE  Looks(InSlot(r), "slot", r.removed, r.calls, r.aborts)
<1>1. \A a, b, c : Looks([r EXCEPT !.place = "slot", !.slot = a, !.circle = b, !.born = c],
                       "slot", r.removed, r.calls, r.aborts)
  BY DEF Looks, Fields
<1>2. QED
  BY <1>1 DEF InSlot

\* A timer that is marked for removal is told so once.
LEMMA MarkedLooks ==
    ASSUME NEW r, DOMAIN r = Fields
    PROVE  Looks([r EXCEPT !.removed = TRUE, !.aborts = @ + 1],
                 r.place, TRUE, r.calls, r.aborts + 1)
  BY DEF Looks, Fields

\* A timer that is over has been told at most once more.
LEMMA FreedLooks ==
    ASSUME NEW r, DOMAIN r = Fields
    PROVE  /\ Looks(Freed(r), "over", r.removed, r.calls, r.aborts)
           /\ Looks(Called(r), "over", r.removed, r.calls + 1, r.aborts)
           /\ Looks(Aborted(r), "over", r.removed, r.calls, r.aborts + 1)
<1> DEFINE f == Freed(r)
<1>1. Looks(f, "over", r.removed, r.calls, r.aborts)
  BY DEF Freed, NewTimer, Looks, Fields
<1> HIDE DEF f
<1>2. Looks([f EXCEPT !.calls = @ + 1], "over", r.removed, r.calls + 1, r.aborts)
  BY <1>1 DEF Looks, Fields
<1>3. Looks([f EXCEPT !.aborts = @ + 1], "over", r.removed, r.calls, r.aborts + 1)
  BY <1>1 DEF Looks, Fields
<1>4. QED
  BY <1>1, <1>2, <1>3 DEF f, Called, Aborted

\* A step that works on one timer's record.
LEMMA OneTimer ==
    ASSUME TimerTypes, NEW t \in AllTimers, NEW r, DOMAIN r = Fields,
           twTimer' = [twTimer EXCEPT ![t] = r]
    PROVE  /\ twTimer' = [u \in AllTimers |-> twTimer'[u]]
           /\ \A u \in AllTimers : DOMAIN twTimer'[u] = Fields
           /\ twTimer'[t] = r /\ \A u \in AllTimers \ {t} : twTimer'[u] = twTimer[u]
<1>1. DOMAIN twTimer = AllTimers
  BY Zenon DEF TimerTypes
<1>2. DOMAIN twTimer' = AllTimers /\ twTimer'[t] = r
  BY <1>1
<1>3. \A u \in AllTimers \ {t} : twTimer'[u] = twTimer[u]
  BY <1>1
<1>4. twTimer' = [u \in AllTimers |-> twTimer'[u]]
  BY <1>1
<1>5. \A u \in AllTimers : DOMAIN twTimer'[u] = Fields
  BY <1>2, <1>3 DEF TimerTypes
<1>6. QED
  BY <1>2, <1>3, <1>4, <1>5

\* The lists as they are stay right when expired timers stay so and no timer of
\* theirs comes into the map.
LEMMA ListsStay ==
    ASSUME TimerInv, twLists' = twLists,
           \A u \in AllTimers : twTimer[u].place = "expired" =>
               twTimer'[u].place = "expired" /\ (u \in twMap' => u \in twMap)
    PROVE  ListsFit' /\ ListsApart'
<1>1. ASSUME NEW l \in twLists, NEW u \in Range(l.ids) PROVE u \in AllTimers
  BY DEF TimerInv, TimerTypes, Lists, Range
<1>2. ListsFit'
  BY <1>1 DEF TimerInv, ListsFit
<1>3. ListsApart'
  BY DEF TimerInv, ListsApart
<1>4. QED
  BY <1>2, <1>3

\* hierarchical_timing_wheel_set_timer.
LEMMA SetTimerKeeps ==
    ASSUME TimerInv, NEW t \in TwTimers, NEW d, SetTimer(t, d) PROVE TimerInv'
<1> DEFINE r == [twTimer[t] EXCEPT !.place = "mapped", !.plan = PlanOf(d)]
<1>1. t \in AllTimers /\ DOMAIN twTimer[t] = Fields
  BY SMTT(60) DEF TimerInv, TimerTypes, AllTimers
<1>2. Looks(r, "mapped", twTimer[t].removed, twTimer[t].calls, twTimer[t].aborts)
  BY <1>1, PlacedLooks
<1>3. twTimer' = [twTimer EXCEPT ![t] = r]
  BY <1>1 DEF SetTimer, TimerInv, TimerTypes
<1> HIDE DEF r
<1>4. /\ twTimer' = [u \in AllTimers |-> twTimer'[u]]
      /\ \A u \in AllTimers : DOMAIN twTimer'[u] = Fields
      /\ twTimer'[t] = r /\ \A u \in AllTimers \ {t} : twTimer'[u] = twTimer[u]
  BY <1>1, <1>2, <1>3, OneTimer DEF Looks, TimerInv
<1>5. /\ twTimer[t].place = "unset" /\ twMap' = twMap \cup {t}
      /\ twLate' = (IF twStopped THEN twLate \cup {t} ELSE twLate)
      /\ UNCHANGED <<twTick, twLists, twBegun, twPhase, twWaiting>>
  BY DEF SetTimer
<1>6. TimerTypes'
  BY <1>4, <1>5 DEF TimerInv, TimerTypes
<1>7. TimersFit'
  <2>1. t \notin twLate => Fits(twTimer[t], t \in twMap)
    BY DEF TimerInv, TimersFit
  <2>2. t \notin twLate => Fits(twTimer'[t], TRUE)
    BY <1>2, <1>4, <1>5, <2>1 DEF Fits, Looks, Uncalled
  <2>3. \A u \in TwTimers \ {t} : twTimer'[u] = twTimer[u] /\ (u \in twMap' <=> u \in twMap)
    BY <1>4, <1>5 DEF AllTimers
  <2>4. twLate \subseteq twLate'
    BY <1>5
  <2>5. QED
    BY <1>5, <2>2, <2>3, <2>4 DEF TimerInv, TimersFit, Fits
<1>8. ListsFit' /\ ListsApart'
  BY <1>4, <1>5, ListsStay
<1>9. StoppedEmpty' /\ IdleHeard'
  BY <1>5 DEF TimerInv, StoppedEmpty, IdleHeard, twStopped
<1>10. TickHeld'
  BY <1>4, <1>5, TimerAssumption DEF TimerInv, TickHeld, AllTimers
<1>11. QED
  BY <1>6, <1>7, <1>8, <1>9, <1>10 DEF TimerInv

\* A step on one user's timer that has not expired, or stays so, and that may
\* take it out of the map.
LEMMA UserStep ==
    ASSUME TimerInv, NEW t \in TwTimers, NEW r, DOMAIN r = Fields,
           twTimer' = [twTimer EXCEPT ![t] = r],
           t \notin twLate => Fits(r, t \in twMap'),
           twTimer[t].place = "expired" => r.place = "expired",
           twMap' \subseteq twMap, twMap \subseteq twMap' \cup {t},
           UNCHANGED <<twTick, twLists, twStopVars>>,
           twWaiting' \in BOOLEAN, IdleHeard'
    PROVE  TimerInv'
<1>1. t \in AllTimers /\ TwTimers \subseteq AllTimers
  BY DEF AllTimers
<1>2. /\ twTimer' = [u \in AllTimers |-> twTimer'[u]]
      /\ \A u \in AllTimers : DOMAIN twTimer'[u] = Fields
      /\ twTimer'[t] = r /\ \A u \in AllTimers \ {t} : twTimer'[u] = twTimer[u]
  BY <1>1, OneTimer DEF TimerInv
<1>3. TimerTypes'
  BY <1>2 DEF TimerInv, TimerTypes
<1>4. TimersFit'
  <2>1. \A u \in TwTimers \ {t} : twTimer'[u] = twTimer[u] /\ (u \in twMap' <=> u \in twMap)
    BY <1>1, <1>2
  <2>2. QED
    BY <1>2, <2>1 DEF TimerInv, TimersFit, Fits, twStopVars
<1>5. ListsFit' /\ ListsApart'
  BY <1>2, ListsStay
<1>6. StoppedEmpty' /\ TickHeld'
  BY <1>2, TimerAssumption DEF TimerInv, StoppedEmpty, TickHeld, twStopVars, twStopped, AllTimers
<1>7. QED
  BY <1>3, <1>4, <1>5, <1>6 DEF TimerInv

\* A timer enters the slot of its plan.
LEMMA EnterSlotKeeps ==
    ASSUME TimerInv, NEW t \in TwTimers, EnterSlot(t) PROVE TimerInv'
<1> DEFINE r == InSlot(twTimer[t])
<1>1. DOMAIN twTimer[t] = Fields /\ (t \notin twLate => Fits(twTimer[t], t \in twMap))
  BY DEF TimerInv, TimerTypes, TimersFit, AllTimers
<1>2. Looks(r, "slot", twTimer[t].removed, twTimer[t].calls, twTimer[t].aborts)
  BY <1>1, SlotLooks
<1>3. twTimer' = [twTimer EXCEPT ![t] = r] /\ twTimer[t].place = "mapped"
  BY DEF EnterSlot
<1>4. UNCHANGED <<twMap, twTick, twLists, twStopVars, twWaiting>>
  BY DEF EnterSlot
<1> HIDE DEF r
<1>5. DOMAIN r = Fields /\ (t \notin twLate => Fits(r, t \in twMap'))
  BY <1>1, <1>2, <1>3, <1>4 DEF Fits, Looks, Uncalled
<1>6. twWaiting' \in BOOLEAN /\ IdleHeard'
  BY <1>4 DEF TimerInv, TimerTypes, IdleHeard
<1>7. QED
  BY <1>3, <1>4, <1>5, <1>6, UserStep

\* hierarchical_timing_wheel_cancel_timer.
LEMMA CancelTimerKeeps ==
    ASSUME TimerInv, NEW t \in TwTimers, CancelTimer(t) PROVE TimerInv'
<1> DEFINE r == [twTimer[t] EXCEPT !.removed = TRUE, !.aborts = @ + 1]
<1>1. DOMAIN twTimer[t] = Fields /\ (t \notin twLate => Fits(twTimer[t], t \in twMap)) /\ t \in AllTimers
  BY DEF TimerInv, TimerTypes, TimersFit, AllTimers
<1>2. Looks(r, twTimer[t].place, TRUE, twTimer[t].calls, twTimer[t].aborts + 1)
  BY <1>1, MarkedLooks
<1>3. twTimer' = [twTimer EXCEPT ![t] = r]
  BY <1>1 DEF CancelTimer, TimerInv, TimerTypes
<1>4. /\ t \in twMap /\ twMap' = twMap \ {t} /\ twWaiting' = (twWaiting /\ twMap' # {})
      /\ UNCHANGED <<twTick, twLists, twStopVars>>
  BY DEF CancelTimer
<1> HIDE DEF r
<1>5. DOMAIN r = Fields /\ (t \notin twLate => Fits(r, t \in twMap'))
  <2> SUFFICES ASSUME t \notin twLate PROVE Fits(r, t \in twMap')
    BY <1>2 DEF Looks
  <2>1. /\ twTimer[t].calls = 0 /\ twTimer[t].aborts = 0
        /\ twTimer[t].place \in {"mapped", "slot", "expired"}
    BY <1>1, <1>4 DEF Fits, Uncalled
  <2>2. r.calls = 0 /\ r.aborts = 1 /\ r.removed = TRUE /\ r.place = twTimer[t].place
    BY <1>2, <2>1 DEF Looks
  <2>3. (t \in twMap') = FALSE
    BY <1>4
  <2>4. QED
    BY <1>2, <2>1, <2>2, <2>3 DEF Fits, Looks
<1>6. twWaiting' \in BOOLEAN /\ IdleHeard'
  BY <1>4 DEF IdleHeard
<1>7. twTimer[t].place = "expired" => r.place = "expired"
  BY <1>2 DEF Looks
<1>8. QED
  BY <1>3, <1>4, <1>5, <1>6, <1>7, UserStep

\* The callback of a queued timer, executed or aborted.
LEMMA CallbackKeeps ==
    ASSUME TimerInv, NEW t \in TwTimers, RunCallback(t) \/ AbortCallback(t) PROVE TimerInv'
<1> DEFINE r == Called(twTimer[t])
           a == Aborted(twTimer[t])
<1>1. DOMAIN twTimer[t] = Fields /\ (t \notin twLate => Fits(twTimer[t], t \in twMap)) /\ t \in AllTimers
  BY DEF TimerInv, TimerTypes, TimersFit, AllTimers
<1>2. /\ Looks(r, "over", twTimer[t].removed, twTimer[t].calls + 1, twTimer[t].aborts)
      /\ Looks(a, "over", twTimer[t].removed, twTimer[t].calls, twTimer[t].aborts + 1)
  BY <1>1, FreedLooks
<1>3. \/ twTimer' = [twTimer EXCEPT ![t] = r]
      \/ twTimer' = [twTimer EXCEPT ![t] = a]
  BY DEF RunCallback, AbortCallback
<1>4. /\ twTimer[t].place = "queued"
      /\ UNCHANGED <<twMap, twTick, twLists, twStopVars, twWaiting>>
  BY DEF RunCallback, AbortCallback
<1> HIDE DEF r, a
<1>5. t \notin twLate => ~twTimer[t].removed /\ Uncalled(twTimer[t]) /\ t \notin twMap
  BY <1>1, <1>4 DEF Fits
<1>6. /\ DOMAIN r = Fields /\ (t \notin twLate => Fits(r, t \in twMap'))
      /\ DOMAIN a = Fields /\ (t \notin twLate => Fits(a, t \in twMap'))
  BY <1>1, <1>2, <1>4, <1>5 DEF Fits, Looks, Uncalled
<1>7. twWaiting' \in BOOLEAN /\ IdleHeard'
  BY <1>4 DEF TimerInv, TimerTypes, IdleHeard
<1>8. QED
  BY <1>3, <1>4, <1>6, <1>7, UserStep

\* One timer of a fired list leaves the map.
LEMMA UnmapKeeps ==
    ASSUME TimerInv, NEW l \in twLists, Unmap(l) PROVE TimerInv'
<1> DEFINE m == [l EXCEPT !.todo = Tail(@)]
           t == Head(l.todo)
<1>1. l \in Lists /\ IsInjective(l.todo) /\ l.todo # <<>> /\ l.todo \in Seq(AllTimers)
  BY DEF TimerInv, TimerTypes, ListsFit, Unmap, Lists
<1>2. Tail(l.todo) \in Seq(AllTimers) /\ IsInjective(Tail(l.todo))
      /\ Range(Tail(l.todo)) = Range(l.todo) \ {t}
  BY <1>1, WithoutFirst
<1>3. m \in Lists /\ m.ids = l.ids /\ m.todo = Tail(l.todo)
  BY <1>1, <1>2 DEF Lists
<1>4. /\ twMap' = twMap \ {t} /\ twLists' = (twLists \ {l}) \cup {m}
      /\ UNCHANGED <<twTimer, twTick, twStopVars, twWaiting>>
  BY DEF Unmap
<1> HIDE DEF m, t
<1>5. TimerTypes'
  BY <1>3, <1>4 DEF TimerInv, TimerTypes
<1>6. TimersFit'
  BY <1>4 DEF TimerInv, TimersFit, Fits, twStopVars
<1>7. ListsFit'
  <2>1. ASSUME NEW k \in twLists \ {l}, NEW u \in Range(k.ids)
        PROVE  twTimer'[u].place = "expired" /\ (u \in twMap' => u \in Range(k.todo))
    BY <1>4 DEF TimerInv, ListsFit
  <2>2. ASSUME NEW u \in Range(m.ids)
        PROVE  twTimer'[u].place = "expired" /\ (u \in twMap' => u \in Range(m.todo))
    BY <1>2, <1>3, <1>4 DEF TimerInv, ListsFit
  <2>3. IsInjective(m.ids) /\ IsInjective(m.todo)
    BY <1>2, <1>3 DEF TimerInv, ListsFit
  <2>4. QED
    BY <1>4, <2>1, <2>2, <2>3 DEF TimerInv, ListsFit
<1>8. ListsApart'
  BY <1>3, <1>4 DEF TimerInv, ListsApart
<1>9. StoppedEmpty' /\ TickHeld' /\ IdleHeard'
  BY <1>4 DEF TimerInv, StoppedEmpty, TickHeld, IdleHeard, twStopVars, twStopped
<1>10. QED
  BY <1>5, <1>6, <1>7, <1>8, <1>9 DEF TimerInv

\* The end of a fired list.
LEMMA FireEndKeeps ==
    ASSUME TimerInv, NEW l \in twLists, FireEnd(l) PROVE TimerInv'
<1>1. /\ twLists' = twLists \ {l} /\ twWaiting' = (twWaiting /\ twMap # {})
      /\ UNCHANGED <<twTimer, twMap, twTick, twStopVars>>
  BY DEF FireEnd
<1>2. TimerTypes'
  BY <1>1 DEF TimerInv, TimerTypes
<1>3. TimersFit'
  BY <1>1 DEF TimerInv, TimersFit, Fits, twStopVars
<1>4. ListsFit' /\ ListsApart'
  BY <1>1 DEF TimerInv, ListsFit, ListsApart
<1>5. StoppedEmpty' /\ TickHeld' /\ IdleHeard'
  BY <1>1 DEF TimerInv, StoppedEmpty, TickHeld, IdleHeard, twStopVars, twStopped
<1>6. QED
  BY <1>2, <1>3, <1>4, <1>5 DEF TimerInv

\* The first timer of a list is not in the map any more, and in no other list.
LEMMA FireHeadKeeps ==
    ASSUME TimerInv, NEW l \in twLists, FireHead(l) PROVE TimerInv'
<1> DEFINE m == [l EXCEPT !.ids = Tail(@)]
           t == Head(l.ids)
           rest == NextSteps(twTimer[t].plan)
           slot == InSlot([twTimer[t] EXCEPT !.plan = rest])
           queued == [twTimer[t] EXCEPT !.place = "queued"]
<1>1. l \in Lists /\ IsInjective(l.ids) /\ l.ids # <<>> /\ l.ids \in Seq(AllTimers) /\ l.todo = <<>>
  BY DEF TimerInv, TimerTypes, ListsFit, FireHead, Lists
<1>2. Tail(l.ids) \in Seq(AllTimers) /\ IsInjective(Tail(l.ids)) /\ t \in Range(l.ids)
      /\ Range(Tail(l.ids)) = Range(l.ids) \ {t}
  BY <1>1, WithoutFirst
<1>3. m \in Lists /\ m.ids = Tail(l.ids) /\ m.todo = <<>>
  BY <1>1, <1>2 DEF Lists
<1>4. /\ twLists' = (twLists \ {l}) \cup {m}
      /\ UNCHANGED <<twMap, twTick, twStopVars, twWaiting>>
  BY DEF FireHead
<1>5. t \in AllTimers /\ DOMAIN twTimer[t] = Fields
  BY <1>1, <1>2 DEF Range, TimerInv, TimerTypes
<1>6. twTimer[t].place = "expired" /\ t \notin twMap
  <2>1. Range(l.todo) = {}
    BY <1>1, SMTT(60) DEF Range
  <2>2. QED
    BY <1>2, <2>1 DEF TimerInv, ListsFit
<1>7. /\ Looks(Freed(twTimer[t]), "over", twTimer[t].removed, twTimer[t].calls, twTimer[t].aborts)
      /\ Looks(queued, "queued", twTimer[t].removed, twTimer[t].calls, twTimer[t].aborts)
  BY <1>5, FreedLooks, PlacedLooks
<1>8. Looks(slot, "slot", twTimer[t].removed, twTimer[t].calls, twTimer[t].aborts)
  <2> DEFINE r == [twTimer[t] EXCEPT !.plan = rest]
  <2>1. Looks(r, twTimer[t].place, twTimer[t].removed, twTimer[t].calls, twTimer[t].aborts)
    BY <1>5, PlacedLooks
  <2> HIDE DEF r
  <2>2. DOMAIN r = Fields
    BY <2>1 DEF Looks
  <2>3. Looks(InSlot(r), "slot", r.removed, r.calls, r.aborts)
    BY <2>2, SlotLooks
  <2>4. InSlot(r) = slot
    BY DEF r
  <2>5. QED
    BY <2>1, <2>3, <2>4, SMTT(60) DEF Looks
<1>9. PICK r : /\ twTimer' = [twTimer EXCEPT ![t] = r]
               /\ \/ twTimer[t].removed /\ r = Freed(twTimer[t])
                  \/ ~twTimer[t].removed /\ r = slot
                  \/ ~twTimer[t].removed /\ r = queued
  <2>1. CASE Skips(t)
    BY <2>1 DEF FireHead, Skips
  <2>2. CASE ~Skips(t) /\ rest # <<>>
    BY <2>2 DEF FireHead, Skips
  <2>3. CASE ~Skips(t) /\ rest = <<>>
    <3>1. twTimer' = [twTimer EXCEPT ![t].place = "queued"]
      BY <2>3 DEF FireHead
    <3>2. twTimer' = [twTimer EXCEPT ![t] = queued]
      BY <3>1
    <3>3. QED
      BY <2>3, <3>2 DEF Skips
  <2>4. QED
    BY <2>1, <2>2, <2>3
<1> HIDE DEF m, t, rest, slot, queued
<1>10. DOMAIN r = Fields
  BY <1>7, <1>8, <1>9 DEF Looks
<1>11. /\ twTimer' = [u \in AllTimers |-> twTimer'[u]]
       /\ \A u \in AllTimers : DOMAIN twTimer'[u] = Fields
       /\ twTimer'[t] = r /\ \A u \in AllTimers \ {t} : twTimer'[u] = twTimer[u]
  BY <1>5, <1>9, <1>10, OneTimer DEF TimerInv
<1>12. TimerTypes'
  BY <1>3, <1>4, <1>11 DEF TimerInv, TimerTypes
<1>13. TimersFit'
  <2>1. ASSUME t \in TwTimers \ twLate PROVE Fits(r, FALSE)
    <3>1. Fits(twTimer[t], FALSE)
      BY <1>6, <2>1 DEF TimerInv, TimersFit, Fits
    <3>2. QED
      BY <1>6, <1>7, <1>8, <1>9, <3>1 DEF Looks, Fits, Uncalled
  <2>2. \A u \in TwTimers \ {t} : twTimer'[u] = twTimer[u]
    BY <1>11 DEF AllTimers
  <2>3. QED
    BY <1>4, <1>6, <1>11, <2>1, <2>2 DEF TimerInv, TimersFit, Fits, twStopVars
<1>14. ListsFit'
  <2>1. ASSUME NEW k \in twLists \ {l}, NEW u \in Range(k.ids)
        PROVE  twTimer'[u].place = "expired" /\ (u \in twMap' => u \in Range(k.todo))
    <3>1. u \in AllTimers /\ u # t
      <4>1. Range(k.ids) \cap Range(l.ids) = {}
        BY DEF TimerInv, ListsApart
      <4>2. u \in AllTimers
        BY <2>1 DEF TimerInv, TimerTypes, Lists, Range
      <4>3. QED
        BY <1>2, <2>1, <4>1, <4>2
    <3>2. QED
      BY <1>4, <1>11, <3>1 DEF TimerInv, ListsFit
  <2>2. ASSUME NEW u \in Range(m.ids)
        PROVE  twTimer'[u].place = "expired" /\ (u \in twMap' => u \in Range(m.todo))
    <3>1. u \in AllTimers /\ u # t /\ u \in Range(l.ids)
      BY <1>1, <1>2, <1>3 DEF Range
    <3>2. QED
      BY <1>1, <1>3, <1>4, <1>11, <3>1 DEF TimerInv, ListsFit
  <2>3. IsInjective(m.ids) /\ IsInjective(m.todo)
    BY <1>1, <1>2, <1>3 DEF TimerInv, ListsFit
  <2>4. QED
    BY <1>4, <2>1, <2>2, <2>3 DEF TimerInv, ListsFit
<1>15. ListsApart'
  <2>1. Range(m.ids) \subseteq Range(l.ids)
    BY <1>2, <1>3
  <2>2. \A k \in twLists \ {l} : Range(k.ids) \cap Range(l.ids) = {}
    BY DEF TimerInv, ListsApart
  <2>3. \A k \in twLists \ {l} : Range(k.ids) \cap Range(m.ids) = {}
    BY <2>1, <2>2
  <2>4. QED
    BY <1>4, <2>3 DEF TimerInv, ListsApart
<1>16. StoppedEmpty' /\ IdleHeard'
  BY <1>4 DEF TimerInv, StoppedEmpty, IdleHeard, twStopVars, twStopped
<1>17. TickHeld'
  BY <1>4, <1>6, <1>11 DEF TimerInv, TickHeld, twStopVars, AllTimers
<1>18. QED
  BY <1>12, <1>13, <1>14, <1>15, <1>16, <1>17 DEF TimerInv

\* A step on many timers that leaves the expired ones where they are.
LEMMA ManyTimers ==
    ASSUME TimerInv, DOMAIN twTimer = AllTimers,
           twTimer' = [u \in DOMAIN twTimer |-> twTimer'[u]],
           \A u \in AllTimers : /\ DOMAIN twTimer'[u] = Fields
                                /\ twTimer[u].place = "expired" => twTimer'[u].place = "expired",
           \A u \in TwTimers \ twLate : Fits(twTimer'[u], u \in twMap'),
           twMap' \subseteq twMap, UNCHANGED <<twTick, twLists, twLate>>,
           twWaiting' \in BOOLEAN, StoppedEmpty', TickHeld', IdleHeard'
    PROVE  TimerInv'
<1>1. twTimer' = [u \in AllTimers |-> twTimer'[u]]
  OBVIOUS
<1>2. TimerTypes'
  BY <1>1 DEF TimerInv, TimerTypes
<1>3. TimersFit'
  BY DEF TimersFit
<1>4. ListsFit' /\ ListsApart'
  BY ListsStay
<1>5. QED
  BY <1>2, <1>3, <1>4 DEF TimerInv

\* The wheel stops.
LEMMA StopKeeps == TimerInv /\ StopTimers => TimerInv'
<1> SUFFICES ASSUME TimerInv, StopTimers PROVE TimerInv'
  OBVIOUS
<1>1. DOMAIN twTimer = AllTimers /\ TwTimers \subseteq AllTimers
  BY Zenon DEF TimerInv, TimerTypes, AllTimers
<1>2. twTimer' = [t \in DOMAIN twTimer |->
         IF t \in twMap THEN [twTimer[t] EXCEPT !.removed = TRUE, !.aborts = @ + 1]
                        ELSE twTimer[t]]
  BY DEF StopTimers
<1>3. twMap' = {} /\ twWaiting' = FALSE /\ UNCHANGED <<twTick, twLists, twLate, twBegun>>
  BY DEF StopTimers
<1>4. ASSUME NEW u \in AllTimers
      PROVE  \/ twTimer'[u] = twTimer[u] /\ u \notin twMap
             \/ /\ Looks(twTimer'[u], twTimer[u].place, TRUE, twTimer[u].calls, twTimer[u].aborts + 1)
                /\ u \in twMap
  <2>1. DOMAIN twTimer[u] = Fields
    BY DEF TimerInv, TimerTypes
  <2>2. CASE u \in twMap
    <3>1. twTimer'[u] = [twTimer[u] EXCEPT !.removed = TRUE, !.aborts = @ + 1]
      BY <1>1, <1>2, <2>2
    <3>2. QED
      BY <2>1, <2>2, <3>1, MarkedLooks
  <2>3. CASE u \notin twMap
    BY <1>1, <1>2, <2>3
  <2>4. QED
    BY <2>2, <2>3
<1>5. \A u \in AllTimers : /\ DOMAIN twTimer'[u] = Fields
                           /\ twTimer[u].place = "expired" => twTimer'[u].place = "expired"
  BY <1>4 DEF Looks, TimerInv, TimerTypes
<1>6. ASSUME NEW u \in TwTimers \ twLate PROVE Fits(twTimer'[u], u \in twMap')
  <2>1. Fits(twTimer[u], u \in twMap)
    BY DEF TimerInv, TimersFit
  <2>2. CASE twTimer'[u] = twTimer[u]
    BY <1>3, <2>1, <2>2 DEF Fits
  <2>3. CASE /\ Looks(twTimer'[u], twTimer[u].place, TRUE, twTimer[u].calls, twTimer[u].aborts + 1)
             /\ u \in twMap
    <3>1. /\ twTimer[u].calls = 0 /\ twTimer[u].aborts = 0
          /\ twTimer[u].place \in {"mapped", "slot", "expired"}
      BY <2>1, <2>3 DEF Fits, Uncalled
    <3>2. /\ twTimer'[u].calls = 0 /\ twTimer'[u].aborts = 1 /\ twTimer'[u].removed = TRUE
          /\ twTimer'[u].place \in {"mapped", "slot", "expired"}
      BY <2>3, <3>1 DEF Looks
    <3>3. (u \in twMap') = FALSE
      BY <1>3
    <3>4. QED
      BY <3>2, <3>3 DEF Fits
  <2>4. QED
    BY <1>1, <1>4, <2>2, <2>3
<1>7. StoppedEmpty' /\ IdleHeard' /\ TickHeld'
  <2>1. TickTimer \in AllTimers /\ TickTimer \notin twMap
    BY TimerAssumption DEF AllTimers, TimerInv, TimerTypes
  <2>2. twTimer'[TickTimer] = twTimer[TickTimer]
    BY <1>4, <2>1
  <2>3. QED
    BY <1>3, <2>2 DEF TimerInv, StoppedEmpty, IdleHeard, TickHeld
<1>8. twTimer' = [u \in DOMAIN twTimer |-> twTimer'[u]]
  BY <1>2
<1>9. QED
  BY <1>1, <1>3, <1>5, <1>6, <1>7, <1>8, ManyTimers

\* The slots emptied by the pool: no timer is in the map any more, and one that
\* was removed is spared.
LEMMA AbortWheelsKeeps ==
    ASSUME TimerInv, NEW ws, twStopped, twStopped', AbortWheels(ws), 2 \in ws => 2 \notin twBegun,
           UNCHANGED <<twMap, twTick, twLists, twBegun, twLate, twWaiting>>
    PROVE  TimerInv'
<1>1. DOMAIN twTimer = AllTimers /\ TwTimers \subseteq AllTimers
  BY Zenon DEF TimerInv, TimerTypes, AllTimers
<1>2. twMap \subseteq twLate
  BY DEF TimerInv, StoppedEmpty
<1>3. ASSUME NEW u \in AllTimers
      PROVE  \/ twTimer'[u] = twTimer[u]
             \/ twTimer'[u] = Freed(twTimer[u]) /\ (twTimer[u].removed \/ u = TickTimer)
                  /\ twTimer[u].place \in {"slot", "queued"}
             \/ twTimer'[u] = Aborted(twTimer[u]) /\ ~twTimer[u].removed
                  /\ twTimer[u].place = "slot"
  <2>1. twTimer'[u] =
          IF twTimer[u].place = "slot" /\ Head(twTimer[u].plan).wheel \in ws
            THEN IF Spared(u) \/ u = TickTimer THEN Freed(twTimer[u]) ELSE Aborted(twTimer[u])
          ELSE IF u = TickTimer /\ twTimer[u].place = "queued" /\ 2 \in ws
            THEN Freed(twTimer[u])
          ELSE twTimer[u]
    BY <1>1 DEF AbortWheels
  <2>2. QED
    BY <2>1 DEF Spared
<1>4. ASSUME NEW u \in AllTimers
      PROVE  /\ DOMAIN twTimer[u] = Fields
             /\ Looks(Freed(twTimer[u]), "over", twTimer[u].removed, twTimer[u].calls,
                      twTimer[u].aborts)
             /\ Looks(Aborted(twTimer[u]), "over", twTimer[u].removed, twTimer[u].calls,
                      twTimer[u].aborts + 1)
  <2>1. DOMAIN twTimer[u] = Fields
    BY DEF TimerInv, TimerTypes
  <2>2. QED
    BY <2>1, FreedLooks
<1>5. \A u \in AllTimers : /\ DOMAIN twTimer'[u] = Fields
                           /\ twTimer[u].place = "expired" => twTimer'[u].place = "expired"
  BY <1>3, <1>4 DEF Looks
<1>6. ASSUME NEW u \in TwTimers \ twLate PROVE Fits(twTimer'[u], u \in twMap')
  <2>1. Fits(twTimer[u], u \in twMap)
    BY DEF TimerInv, TimersFit
  <2>2. CASE twTimer'[u] = twTimer[u]
    BY <1>2, <2>1, <2>2 DEF Fits
  <2>3. CASE twTimer'[u] = Freed(twTimer[u]) /\ (twTimer[u].removed \/ u = TickTimer)
    BY <1>1, <1>2, <1>4, <2>1, <2>3, TimerAssumption DEF Fits, Looks, Uncalled
  <2>4. CASE twTimer'[u] = Aborted(twTimer[u]) /\ ~twTimer[u].removed /\ twTimer[u].place = "slot"
    <3>1. twTimer[u].calls = 0 /\ twTimer[u].aborts = 0
      BY <2>1, <2>4 DEF Fits, Uncalled
    <3>2. /\ twTimer'[u].calls = 0 /\ twTimer'[u].aborts = 1 /\ twTimer'[u].place = "over"
          /\ twTimer'[u].removed = twTimer[u].removed
      BY <1>1, <1>4, <2>4, <3>1 DEF Looks
    <3>3. QED
      BY <1>2, <2>1, <2>4, <3>2 DEF Fits
  <2>5. QED
    BY <1>1, <1>3, <2>2, <2>3, <2>4
<1>7. StoppedEmpty' /\ IdleHeard' /\ twWaiting' \in BOOLEAN
  BY DEF TimerInv, TimerTypes, StoppedEmpty, IdleHeard
<1>10. TickHeld'
  <2>1. TickTimer \in AllTimers
    BY DEF AllTimers
  <2>2. 2 \in twBegun => twTimer'[TickTimer] = twTimer[TickTimer]
    BY <1>1, <2>1 DEF AbortWheels, TimerInv, TickHeld
  <2>3. QED
    BY <2>2 DEF TimerInv, TickHeld
<1>8. twTimer' = [u \in DOMAIN twTimer |-> twTimer'[u]]
  BY DEF AbortWheels
<1>9. QED
  BY <1>1, <1>2, <1>5, <1>6, <1>7, <1>8, <1>10, ManyTimers

\* The tick of wheel 2 run in vain: its timer is over.
LEMMA VainTickKeeps ==
    ASSUME TimerInv, twTimer[TickTimer].place = "queued", 2 \notin twBegun,
           twTimer' = [twTimer EXCEPT ![TickTimer] = Freed(@)],
           UNCHANGED <<twMap, twTick, twLists, twStopVars, twWaiting>>
    PROVE  TimerInv'
<1> DEFINE r == Freed(twTimer[TickTimer])
<1>1. TickTimer \in AllTimers /\ TwTimers \subseteq AllTimers /\ DOMAIN twTimer[TickTimer] = Fields
  BY DEF AllTimers, TimerInv, TimerTypes
<1>2. DOMAIN r = Fields
  BY <1>1, FreedLooks DEF Looks
<1>3. twTimer' = [twTimer EXCEPT ![TickTimer] = r]
  OBVIOUS
<1> HIDE DEF r
<1>4. /\ twTimer' = [u \in AllTimers |-> twTimer'[u]]
      /\ \A u \in AllTimers : DOMAIN twTimer'[u] = Fields
      /\ \A u \in AllTimers \ {TickTimer} : twTimer'[u] = twTimer[u]
  BY <1>1, <1>2, <1>3, OneTimer DEF TimerInv
<1>5. TimerTypes'
  BY <1>4 DEF TimerInv, TimerTypes
<1>6. TimersFit'
  BY <1>1, <1>4, TimerAssumption DEF TimerInv, TimersFit, twStopVars
<1>7. ListsFit' /\ ListsApart'
  BY <1>4, ListsStay
<1>8. StoppedEmpty' /\ TickHeld' /\ IdleHeard'
  BY DEF TimerInv, StoppedEmpty, TickHeld, IdleHeard, twStopVars, twStopped
<1>9. QED
  BY <1>5, <1>6, <1>7, <1>8 DEF TimerInv

\* A tick: whoever expires was in a slot and so in no list, and enters the one
\* list of this tick.
LEMMA OnTickKeeps ==
    ASSUME TimerInv, NEW w \in Wheels, OnTick(w)
    PROVE  TimerInv'
<1> DEFINE gone == {t \in Visited(w) : twTimer[t].removed}
           due == {t \in Visited(w) \ gone : Expires(t)}
           again == InSlot([NewTimer EXCEPT !.plan = <<Step(1, Interval)>>])
<1>1. DOMAIN twTimer = AllTimers /\ TwTimers \subseteq AllTimers
  BY Zenon DEF TimerInv, TimerTypes, AllTimers
<1>2. \A u \in Visited(w) : u \in AllTimers /\ twTimer[u].place = "slot"
  BY <1>1 DEF Visited
<1>17. w = 2 => twTimer[TickTimer].place = "queued"
  BY DEF OnTick, TimerInv, TickHeld
<1>3. UNCHANGED <<twMap, twPhase, twLate, twWaiting>> /\ twTick' \in [Wheels -> Nat]
  <2>1. UNCHANGED <<twMap, twPhase, twLate, twWaiting>> /\ twTick' = [twTick EXCEPT ![w] = @ + 1]
    BY Zenon DEF OnTick
  <2>2. QED
    BY <2>1 DEF TimerInv, TimerTypes
<1>4. Looks(again, "slot", FALSE, 0, 0)
  <2> DEFINE r == [NewTimer EXCEPT !.plan = <<Step(1, Interval)>>]
  <2>1. Looks(r, "unset", FALSE, 0, 0)
    BY NewLooks, PlacedLooks DEF Looks
  <2> HIDE DEF r
  <2>2. DOMAIN r = Fields
    BY <2>1 DEF Looks
  <2>3. Looks(InSlot(r), "slot", r.removed, r.calls, r.aborts)
    BY <2>2, SlotLooks
  <2>4. again = InSlot(r)
    BY DEF r
  <2>5. QED
    BY <2>1, <2>3, <2>4 DEF Looks
<1> DEFINE new(t) == CASE t \in gone -> Freed(twTimer[t])
               [] t \in due -> [twTimer[t] EXCEPT !.place = "expired", !.circle = 0]
               [] t \in Visited(w) \ (gone \cup due) -> [twTimer[t] EXCEPT !.circle = @ - 1]
               [] t = TickTimer /\ w = 2 -> again
               [] OTHER -> twTimer[t]
<1>5. twTimer' = [t \in DOMAIN twTimer |-> new(t)]
  BY DEF OnTick
<1>6. /\ twTimer' = [u \in AllTimers |-> twTimer'[u]]
      /\ \A u \in AllTimers : twTimer'[u] = new(u)
  <2> HIDE DEF new
  <2>1. QED
    BY <1>1, <1>5
<1>7. PICK order \in (IF due = {} THEN {<<>>} ELSE SetToSeqs(due)) :
        twLists' = IF due = {} THEN twLists
                   ELSE twLists \cup {[wheel |-> w, no |-> twTick[w], todo |-> order, ids |-> order]}
  BY DEF OnTick
<1>8. ASSUME NEW u \in AllTimers
      PROVE  \/ u \in gone /\ Looks(twTimer'[u], "over", twTimer[u].removed, twTimer[u].calls,
                                   twTimer[u].aborts)
             \/ u \in due /\ Looks(twTimer'[u], "expired", twTimer[u].removed, twTimer[u].calls,
                                  twTimer[u].aborts)
             \/ u \in Visited(w) \ (gone \cup due)
                  /\ Looks(twTimer'[u], "slot", twTimer[u].removed, twTimer[u].calls,
                           twTimer[u].aborts)
             \/ u = TickTimer /\ w = 2 /\ twTimer'[u] = again
             \/ u \notin Visited(w) /\ twTimer'[u] = twTimer[u]
  <2>1. DOMAIN twTimer[u] = Fields
    BY SMTT(60) DEF TimerInv, TimerTypes
  <2>2. /\ Looks(Freed(twTimer[u]), "over", twTimer[u].removed, twTimer[u].calls,
                 twTimer[u].aborts)
        /\ Looks([twTimer[u] EXCEPT !.place = "expired", !.circle = 0], "expired",
                 twTimer[u].removed, twTimer[u].calls, twTimer[u].aborts)
        /\ Looks([twTimer[u] EXCEPT !.circle = @ - 1], twTimer[u].place,
                 twTimer[u].removed, twTimer[u].calls, twTimer[u].aborts)
    BY <2>1, FreedLooks, PlacedLooks
  <2> DEFINE f == Freed(twTimer[u])
             e == [twTimer[u] EXCEPT !.place = "expired", !.circle = 0]
             c == [twTimer[u] EXCEPT !.circle = @ - 1]
  <2>3. twTimer'[u] =
          CASE u \in gone -> f
            [] u \in due -> e
            [] u \in Visited(w) \ (gone \cup due) -> c
            [] u = TickTimer /\ w = 2 -> again
            [] OTHER -> twTimer[u]
    BY <1>6
  <2>4. w = 2 => TickTimer \notin Visited(w)
    BY <1>2, <1>17
  <2>5. gone \subseteq Visited(w) /\ due \subseteq Visited(w) \ gone
    OBVIOUS
  <2> HIDE DEF f, e, c, gone, due, again
  <2>6. \/ u \in gone /\ twTimer'[u] = f
        \/ u \in due /\ twTimer'[u] = e
        \/ u \in Visited(w) \ (gone \cup due) /\ twTimer'[u] = c
        \/ u = TickTimer /\ w = 2 /\ twTimer'[u] = again
        \/ u \notin Visited(w) /\ twTimer'[u] = twTimer[u]
    BY <2>3, <2>4, <2>5
  <2>7. QED
    BY <1>2, <2>2, <2>6 DEF f, e, c
<1>9. IsFiniteSet(due) /\ due \subseteq AllTimers /\ \A u \in due : twTimer[u].place = "slot"
  <2>1. IsFiniteSet(AllTimers)
    BY TimerAssumption, FS_AddElement DEF AllTimers
  <2>2. due \subseteq AllTimers
    BY <1>2
  <2>3. QED
    BY <1>2, <2>1, <2>2, FS_Subset
<1>10. \A u \in AllTimers : DOMAIN twTimer'[u] = Fields
  BY <1>4, <1>8 DEF Looks, TimerInv, TimerTypes
<1>11. \A u \in AllTimers : twTimer[u].place = "expired" => twTimer'[u].place = "expired"
  BY <1>2, <1>8, <1>17
<1>12. \A u \in due : twTimer'[u].place = "expired"
  <2>1. ASSUME NEW u \in due PROVE twTimer'[u].place = "expired"
    <3>1. u \in AllTimers /\ u \notin gone /\ u \in Visited(w) /\ ~(u = TickTimer /\ w = 2)
      BY <1>2, <1>17
    <3>2. QED
      BY <1>8, <3>1 DEF Looks
  <2>2. QED
    BY <2>1
<1>13. TimersFit'
  <2>1. ASSUME NEW u \in TwTimers \ twLate PROVE Fits(twTimer'[u], u \in twMap')
    <3>1. Fits(twTimer[u], u \in twMap) /\ u \in AllTimers /\ u # TickTimer
      BY TimerAssumption DEF TimerInv, TimersFit, AllTimers
    <3>2. CASE u \in gone /\ Looks(twTimer'[u], "over", twTimer[u].removed, twTimer[u].calls,
                                   twTimer[u].aborts)
      BY <1>3, <3>1, <3>2 DEF Fits, Looks, Uncalled
    <3>3. CASE \E p \in {"slot", "expired"} :
                 Looks(twTimer'[u], p, twTimer[u].removed, twTimer[u].calls, twTimer[u].aborts)
      <4>1. PICK p \in {"slot", "expired"} :
               Looks(twTimer'[u], p, twTimer[u].removed, twTimer[u].calls, twTimer[u].aborts)
        BY <3>3
      <4>2. CASE u \in Visited(w)
        <5>1. twTimer[u].place = "slot"
          BY <1>2, <4>2
        <5>2. QED
          BY <1>3, <3>1, <4>1, <5>1 DEF Fits, Looks, Uncalled
      <4>3. CASE u \notin Visited(w)
        <5>1. twTimer'[u] = twTimer[u]
          BY <1>8, <3>1, <4>3
        <5>2. QED
          BY <1>3, <3>1, <5>1
      <4>4. QED
        BY <4>2, <4>3
    <3>4. CASE twTimer'[u] = twTimer[u]
      BY <1>3, <3>1, <3>4
    <3>5. QED
      BY <1>8, <3>1, <3>2, <3>3, <3>4
  <2>2. QED
    BY <1>3, <2>1 DEF TimersFit
<1>18. TickHeld'
  <2>1. twBegun' = twBegun \ {w} /\ TickTimer \in AllTimers
    BY DEF OnTick, AllTimers
  <2>2. CASE w = 2
    BY <2>1, <2>2 DEF TickHeld
  <2>3. CASE w # 2 /\ 2 \in twBegun
    <3>1. twTimer[TickTimer].place = "queued"
      BY <2>3 DEF TimerInv, TickHeld
    <3>2. twTimer'[TickTimer] = twTimer[TickTimer]
      BY <1>2, <1>8, <2>1, <2>3, <3>1
    <3>3. QED
      BY <3>1, <3>2 DEF TickHeld
  <2>4. QED
    BY <2>1, <2>2, <2>3 DEF TickHeld
<1>14. CASE due = {}
  <2>1. twLists' = twLists
    BY <1>7, <1>14
  <2>2. ListsFit' /\ ListsApart'
    BY <1>3, <1>11, <2>1, ListsStay
  <2>3. TimerTypes'
    BY <1>3, <1>6, <1>10, <2>1 DEF TimerInv, TimerTypes
  <2>4. StoppedEmpty' /\ IdleHeard'
    BY <1>3, <2>1 DEF TimerInv, StoppedEmpty, IdleHeard, twStopped
  <2>5. QED
    BY <1>13, <1>18, <2>2, <2>3, <2>4 DEF TimerInv
<1>15. CASE due # {}
  <2> DEFINE m == [wheel |-> w, no |-> twTick[w], todo |-> order, ids |-> order]
  <2>1. twLists' = twLists \cup {m}
    BY <1>7, <1>15
  <2>2. order \in Seq(due) /\ IsInjective(order)
    <3>1. Cardinality(due) \in Nat
      BY <1>9, FS_CardinalityType
    <3>2. order \in SetToSeqs(due)
      BY <1>7, <1>15
    <3> HIDE DEF due
    <3>3. /\ order \in [1 .. Cardinality(due) -> due]
          /\ \A i, j \in 1 .. Cardinality(due) : i # j => order[i] # order[j]
      BY <3>2 DEF SetToSeqs
    <3>4. QED
      BY <3>1, <3>3 DEF IsInjective
  <2> HIDE DEF due
  <2>3. Range(order) \subseteq due /\ order \in Seq(AllTimers)
    BY <1>9, <2>2 DEF Range
  <2>4. m \in Lists /\ m.ids = order /\ m.todo = order
    BY <2>3 DEF Lists, TimerInv, TimerTypes
  <2> HIDE DEF m
  <2>5. TimerTypes'
    BY <1>3, <1>6, <1>10, <2>1, <2>4 DEF TimerInv, TimerTypes
  <2>6. ASSUME NEW l \in twLists, NEW u \in Range(l.ids)
        PROVE  u \in AllTimers /\ twTimer[u].place = "expired"
    <3>1. twTimer[u].place = "expired"
      BY <2>6 DEF TimerInv, ListsFit
    <3>2. l.ids \in Seq(AllTimers)
      BY DEF TimerInv, TimerTypes, Lists
    <3>3. QED
      BY <2>6, <3>1, <3>2 DEF Range
  <2>7. ListsFit'
    <3>1. ASSUME NEW k \in twLists, NEW u \in Range(k.ids)
          PROVE  twTimer'[u].place = "expired" /\ (u \in twMap' => u \in Range(k.todo))
      BY <1>3, <1>11, <2>6 DEF TimerInv, ListsFit
    <3>2. ASSUME NEW u \in Range(m.ids)
          PROVE  twTimer'[u].place = "expired" /\ (u \in twMap' => u \in Range(m.todo))
      BY <1>12, <2>3, <2>4
    <3>3. IsInjective(m.ids) /\ IsInjective(m.todo)
      BY <2>2, <2>4
    <3>4. QED
      BY <2>1, <3>1, <3>2, <3>3 DEF TimerInv, ListsFit
  <2>8. ListsApart'
    <3>1. \A l \in twLists : Range(l.ids) \cap Range(m.ids) = {}
      BY <1>9, <2>3, <2>4, <2>6
    <3>2. QED
      BY <2>1, <3>1 DEF TimerInv, ListsApart
  <2>9. StoppedEmpty' /\ IdleHeard'
    BY <1>3, <2>1 DEF TimerInv, StoppedEmpty, IdleHeard, twStopped
  <2>10. QED
    BY <1>13, <1>18, <2>5, <2>7, <2>8, <2>9 DEF TimerInv
<1>16. QED
  BY <1>14, <1>15

\* A new wheel has no timers.
LEMMA TimersBegin == TwInit => TimerInv
<1> SUFFICES ASSUME TwInit PROVE TimerInv
  OBVIOUS
<1> DEFINE r == [NewTimer EXCEPT !.plan = <<Step(1, Interval)>>]
<1>1. Looks(r, "unset", FALSE, 0, 0)
  BY NewLooks, PlacedLooks DEF Looks
<1>2. twTimer = [t \in AllTimers |-> IF t = TickTimer THEN InSlot(r) ELSE NewTimer]
  BY DEF TwInit, AllTimers
<1> HIDE DEF r
<1>3. Looks(InSlot(r), "slot", r.removed, r.calls, r.aborts)
  BY <1>1, SlotLooks DEF Looks
<1>4. /\ \A t \in AllTimers : DOMAIN twTimer[t] = Fields
      /\ twTimer = [t \in AllTimers |-> twTimer[t]]
  BY <1>2, <1>3, NewLooks DEF Looks
<1>5. /\ twMap = {} /\ twLists = {} /\ twBegun = {} /\ twWaiting = FALSE
      /\ twTick \in [Wheels -> Nat]
  BY DEF TwInit
<1>6. TimerTypes
  BY <1>4, <1>5 DEF TimerTypes
<1>7. TimersFit
  <2>1. \A t \in TwTimers : twTimer[t] = NewTimer
    BY <1>2, TimerAssumption DEF AllTimers
  <2>2. Fits(NewTimer, FALSE)
    BY NewLooks DEF Looks, Fits, Uncalled
  <2>3. QED
    BY <1>5, <2>1, <2>2 DEF TimersFit, Fits
<1>8. ListsFit /\ ListsApart /\ StoppedEmpty /\ TickHeld /\ IdleHeard
  BY <1>5 DEF ListsFit, ListsApart, StoppedEmpty, TickHeld, IdleHeard
<1>9. QED
  BY <1>6, <1>7, <1>8 DEF TimerInv

\* The other services leave the wheel alone.
LEMMA TimersRest == TimerInv /\ UNCHANGED twVars => TimerInv'
  BY SMTT(60) DEF TimerInv, TimerTypes, TimersFit, Fits, ListsFit, ListsApart, StoppedEmpty,
         TickHeld, IdleHeard, twVars, twStopVars, twStopped

\* Waiting for idle changes nothing.
LEMMA WaitKeeps == TimerInv /\ WaitForIdle => TimerInv'
  BY SMTT(60) DEF WaitForIdle, TimerInv, TimerTypes, TimersFit, Fits, ListsFit, ListsApart,
         StoppedEmpty, TickHeld, IdleHeard, twStopVars, twStopped

\* A tick that begins, and the stop before it turns to the timers.
LEMMA BeginKeeps ==
    ASSUME TimerInv, NEW w \in Wheels, TickBegin(w) \/ StopLock \/ StopWheel(w) PROVE TimerInv'
<1>1. UNCHANGED <<twTimer, twMap, twTick, twLists, twLate, twWaiting>>
  BY DEF TickBegin, StopLock, StopWheel
<1>2. TimerTypes' /\ ListsApart' /\ IdleHeard'
  BY <1>1 DEF TimerInv, TimerTypes, ListsApart, IdleHeard
<1>3. TimersFit' /\ ListsFit'
  BY <1>1 DEF TimerInv, TimersFit, Fits, ListsFit
<1>4. StoppedEmpty'
  BY <1>1 DEF TimerInv, StoppedEmpty, twStopped, TickBegin, StopLock, StopWheel
<1>5. TickHeld'
  <2>1. 2 \in twBegun' => 2 \in twBegun \/ twTimer[TickTimer].place = "queued"
    BY DEF TickBegin, StopLock, StopWheel
  <2>2. QED
    BY <1>1, <2>1 DEF TimerInv, TickHeld
<1>6. QED
  BY <1>2, <1>3, <1>4, <1>5 DEF TimerInv

\* Every step keeps the timers and the lists.
LEMMA TimersStep == TimerInv /\ [Next]_svVars => TimerInv'
<1> SUFFICES ASSUME TimerInv, [Next]_svVars PROVE TimerInv'
  OBVIOUS
<1>1. CASE UNCHANGED twVars
  BY <1>1, TimersRest
<1>2. CASE TwNext
  <2>1. ASSUME NEW w \in Wheels, TickBegin(w) \/ OnTick(w) \/ StopWheel(w) PROVE TimerInv'
    BY <2>1, BeginKeeps, OnTickKeeps
  <2>2. CASE StopLock
    BY <2>2, BeginKeeps DEF Wheels
  <2>3. CASE StopTimers
    BY <2>3, StopKeeps
  <2>4. CASE AbortTick
    <3>1. CASE twTimer' = [twTimer EXCEPT ![TickTimer] = Freed(@)]
      BY <2>4, <3>1, VainTickKeeps DEF AbortTick
    <3>2. CASE twStopped /\ AbortWheels({2})
      BY <2>4, <3>2, AbortWheelsKeeps DEF AbortTick, twStopVars, twStopped
    <3>3. QED
      BY <2>4, <3>1, <3>2 DEF AbortTick
  <2>5. CASE AbortTurn
    <3>1. /\ twStopped /\ twStopped'
          /\ UNCHANGED <<twMap, twTick, twLists, twBegun, twLate, twWaiting>>
      BY <2>5 DEF AbortTurn, twStopped
    <3>2. CASE twTimer[TickTimer].place = "slot" /\ AbortWheels({1, 2})
      BY <3>1, <3>2, AbortWheelsKeeps DEF TimerInv, TickHeld
    <3>3. CASE AbortWheels({1})
      BY <3>1, <3>3, AbortWheelsKeeps
    <3>4. QED
      BY <2>5, <3>2, <3>3 DEF AbortTurn
  <2>6. CASE WaitForIdle
    BY <2>6, WaitKeeps
  <2>7. ASSUME NEW l \in twLists, Unmap(l) \/ FireHead(l) \/ FireEnd(l) PROVE TimerInv'
    BY <2>7, UnmapKeeps, FireHeadKeeps, FireEndKeeps
  <2>8. ASSUME NEW t \in TwTimers,
               \/ EnterSlot(t) \/ CancelTimer(t) \/ RunCallback(t) \/ AbortCallback(t)
               \/ \E d \in Durations : SetTimer(t, d)
        PROVE  TimerInv'
    BY <2>8, EnterSlotKeeps, CancelTimerKeeps, CallbackKeeps, SetTimerKeeps
  <2>9. QED
    BY <1>2, <2>1, <2>2, <2>3, <2>4, <2>5, <2>6, <2>7, <2>8 DEF TwNext
<1>3. QED
  BY <1>1, <1>2 DEF Next, PageStep, ValueStep, BlockStep, TimerStep, svVars

\* In every order of ticks, cancellations, the stop and the pool's aborts, and
\* for any number of timers, a timer's context is handed to one callback at
\* most, unless it was set after the stop, and whoever waits for the wheel to be
\* idle is signalled.
THEOREM CallbacksAreSound == Spec => []CallbacksSound
<1>1. Init => TimerInv
  BY TimersBegin DEF Init
<1>2. TimerInv => CallbacksSound
  <2> SUFFICES ASSUME TimerInv PROVE CallbacksSound
    OBVIOUS
  <2>1. ASSUME NEW t \in TwTimers \ twLate PROVE twTimer[t].calls + twTimer[t].aborts <= 1
    BY DEF TimerInv, TimersFit, Fits, Uncalled
  <2>2. QED
    BY <2>1 DEF CallbacksSound, CalledOnce, TimerInv
<1>3. QED
  BY <1>1, <1>2, TimersStep, PTL DEF Spec

-----------------------------------------------------------------------------
(* When a timer expires *)

\* Division with remainder.
LEMMA DivMod ==
    ASSUME NEW a \in Nat, NEW s \in Nat \ {0}
    PROVE  /\ a \div s \in Nat /\ a % s \in 0 .. s - 1 /\ a % s \in Nat
           /\ a = s * (a \div s) + (a % s)
<1>1. a \div s \in Nat /\ a % s \in 0 .. s - 1
  OBVIOUS
<1>2. a = s * (a \div s) + (a % s)
  OBVIOUS
<1> QED  BY <1>1, <1>2

\* a is p times s, and x over.
Splits(a, s, p, x) == a \in Int /\ p \in Int /\ x \in 0 .. s - 1 /\ a = s * p + x

\* A number has one remainder.
LEMMA OneRemainder ==
    ASSUME NEW s \in Nat \ {0}, NEW p, NEW q, NEW x, NEW y, NEW a,
           Splits(a, s, p, x), Splits(a, s, q, y)
    PROVE  x = y
<1> USE DEF Splits
<1> DEFINE d == p - q
<1>1. d \in Int /\ s * d = y - x
  <2>1. s * d = s * p - s * q
    OBVIOUS
  <2>2. s * p \in Int /\ s * q \in Int
    OBVIOUS
  <2> DEFINE b == s * p
             c == s * q
  <2>3. b \in Int /\ c \in Int /\ b + x = c + y /\ s * d = b - c
    BY <2>1, <2>2
  <2> HIDE DEF b, c
  <2> QED  BY <2>3
<1> HIDE DEF d
<1>2. ASSUME d >= 1 PROVE FALSE
  <2>1. s * d >= s
    BY <1>1, <1>2
  <2> QED  BY <1>1, <2>1
<1>3. ASSUME d <= -1 PROVE FALSE
  <2>1. s * d <= -s
    BY <1>1, <1>3
  <2> QED  BY <1>1, <2>1
<1>4. d = 0
  BY <1>1, <1>2, <1>3
<1>5. s * d = 0
  BY <1>4
<1> QED  BY <1>1, <1>4, <1>5 DEF d

\* Turns do not change a remainder.
LEMMA SameSlot ==
    ASSUME NEW s \in Nat \ {0}, NEW a \in Nat, NEW b \in Nat, NEW k \in Int, a = b + s * k
    PROVE  a % s = b % s
<1> DEFINE p == a \div s
           q == b \div s
           x == a % s
           y == b % s
<1>1. p \in Nat /\ q \in Nat /\ x \in 0 .. s - 1 /\ y \in 0 .. s - 1 /\ a = s * p + x /\ b = s * q + y
  BY DivMod
<1> HIDE DEF p, q, x, y
<1>2. s * (q + k) = s * q + s * k /\ s * p \in Int /\ s * q \in Int /\ s * k \in Int
  BY <1>1
<1> DEFINE u == s * p
           v == s * q
           w == s * k
           z == s * (q + k)
<1>3. u \in Int /\ v \in Int /\ w \in Int /\ z = v + w /\ u + x = (v + y) + w
  BY <1>1, <1>2
<1> HIDE DEF u, v, w, z
<1>4. u + x = z + y
  BY <1>1, <1>3
<1>5. s * p + x = s * (q + k) + y /\ q + k \in Int
  BY <1>1, <1>4 DEF u, z
<1>6. x = y
  <2> DEFINE t == q + k
  <2>1. Splits(a, s, p, x) /\ Splits(a, s, t, y)
    BY <1>1, <1>5 DEF Splits
  <2> HIDE DEF t
  <2> QED  BY <2>1, OneRemainder
<1> QED  BY <1>6 DEF x, y

\* Within one turn, a slot is looked at once.
LEMMA OneTurn ==
    ASSUME NEW s \in Nat \ {0}, NEW a \in Nat, NEW b \in Nat, a % s = b % s, a <= b, b < a + s
    PROVE  a = b
<1> DEFINE p == a \div s
           q == b \div s
           x == a % s
<1>1. p \in Nat /\ q \in Nat /\ x \in 0 .. s - 1 /\ a = s * p + x /\ b = s * q + x
  BY DivMod
<1> HIDE DEF p, q, x
<1> DEFINE y == b - a
<1>2. y \in 0 .. s - 1
  OBVIOUS
<1>3. s * p + y = s * q + 0
  <2> DEFINE u == s * p
             v == s * q
  <2>1. u \in Int /\ v \in Int /\ a = u + x /\ b = v + x /\ x \in Int
    BY <1>1
  <2> HIDE DEF u, v
  <2>2. u + (b - a) = v + 0
    BY <2>1
  <2> QED  BY <2>2 DEF u, v
<1> HIDE DEF y
<1>4. 0 \in 0 .. s - 1
  OBVIOUS
<1>5. y = 0
  <2> DEFINE c == s * p + y
  <2>1. Splits(c, s, p, y) /\ Splits(c, s, q, 0)
    BY <1>1, <1>2, <1>3, <1>4 DEF Splits
  <2> HIDE DEF c
  <2> QED  BY <2>1, OneRemainder
<1> QED  BY <1>5 DEF y

\* A delay that starts at tick T on a wheel of s slots: the turns it waits, and the
\* tick of the first visit.
LEMMA Entering ==
    ASSUME NEW s \in Nat \ {0}, NEW T \in Nat, NEW d \in Nat \ {0}
    PROVE  LET q == (d - 1) \div s
               N == T + d - s * q
           IN  /\ q \in Nat /\ N \in Nat /\ T < N /\ N <= T + s /\ (q = 0 <=> d <= s)
               /\ (((T + (s - 1)) % s) + d) % s = (N + (s - 1)) % s
<1> DEFINE q == (d - 1) \div s
           z == (d - 1) % s
           p == (T + (s - 1)) \div s
           g == (T + (s - 1)) % s
<1>1. q \in Nat /\ z \in 0 .. s - 1 /\ d - 1 = s * q + z
  <2>1. d - 1 \in Nat
    OBVIOUS
  <2> QED  BY <2>1, DivMod
<1>2. p \in Nat /\ g \in 0 .. s - 1 /\ g \in Nat /\ T + (s - 1) = s * p + g
  <2>1. T + (s - 1) \in Nat
    OBVIOUS
  <2> QED  BY <2>1, DivMod
<1> HIDE DEF q, z, p, g
<1> DEFINE u == s * q
           v == s * p
           N == T + d - u
<1>3. u \in Int /\ v \in Int /\ s * (q - p) = u - v
  BY <1>1, <1>2
<1>4. (q >= 1 => u >= s) /\ (q = 0 => u = 0)
  BY <1>1
<1>5. d - 1 = u + z /\ T + (s - 1) = v + g
  BY <1>1, <1>2
<1> HIDE DEF u, v
<1>6. N = T + 1 + z /\ N \in Nat /\ T < N /\ N <= T + s
  BY <1>1, <1>3, <1>5
<1>7. q = 0 <=> d <= s
  BY <1>1, <1>3, <1>4, <1>5
<1>8. g + d = (N + (s - 1)) + (u - v)
  BY <1>1, <1>2, <1>3, <1>5
<1>9. (g + d) % s = (N + (s - 1)) % s
  <2> DEFINE a == g + d
             b == N + (s - 1)
             k == q - p
  <2>1. a \in Nat /\ b \in Nat /\ k \in Int /\ a = b + s * k
    BY <1>1, <1>2, <1>3, <1>6, <1>8
  <2> HIDE DEF a, b, k
  <2>2. a % s = b % s
    BY <2>1, SameSlot
  <2> QED  BY <2>2 DEF a, b
<1>10. q \in Nat /\ N \in Nat /\ T < N /\ N <= T + s /\ (q = 0 <=> d <= s) /\ (g + d) % s = (N + (s - 1)) % s
  BY <1>1, <1>6, <1>7, <1>9
<1> QED  BY <1>10 DEF q, g, N, u

PlanSteps == [wheel : Wheels, delay : Nat]
Planned(p) == p \in Seq(PlanSteps) /\ p # <<>>

\* The tick of the next visit to a timer in a slot: its delay, less the turns that are
\* still counted.
NextVisit(r) == r.born + Head(r.plan).delay - Slots * r.circle

\* A timer in a slot, at tick T of its wheel: the next visit is within a turn, in the
\* slot that is looked at then, and a delay of more than one turn keeps a turn to wait.
Waits(r, T) ==
    /\ r.born \in Nat /\ r.circle \in Nat /\ NextVisit(r) \in Nat
    /\ T < NextVisit(r) /\ NextVisit(r) <= T + Slots
    /\ r.slot = (NextVisit(r) + (Slots - 1)) % Slots
    /\ r.circle = 0 <=> Head(r.plan).delay <= Slots

Timed(r, tick) ==
    /\ r.place \in {"mapped", "slot", "expired"} => Planned(r.plan)
    /\ r.place \in {"mapped", "slot"} => Head(r.plan).delay # 0
    /\ r.place = "slot" => Waits(r, tick[Head(r.plan).wheel])

\* The position of a wheel follows from its ticks, and every timer is on time.
WheelInv ==
    /\ twTick \in [Wheels -> Nat]
    /\ twPos = [w \in Wheels |-> (twTick[w] + (Slots - 1)) % Slots]
    /\ \A t \in TwTimers : Timed(twTimer[t], twTick)

\* What a step that lets a timer expire does: the delay has elapsed, but for one
\* turn when it is longer than a turn.
OnTime ==
    \A t \in TwTimers :
      twTimer[t].place = "slot" /\ twTimer'[t].place = "expired" =>
        LET d == Head(twTimer[t].plan).delay
            w == Head(twTimer[t].plan).wheel
        IN  twTick'[w] - twTimer[t].born = (IF d > Slots THEN d - Slots ELSE d)

\* The first step of a plan.
LEMMA FirstStep ==
    ASSUME NEW p, Planned(p)
    PROVE  Head(p).wheel \in Wheels /\ Head(p).delay \in Nat /\ Head(p) = p[1] /\ p[1] \in PlanSteps
<1>1. Head(p) = p[1] /\ p[1] \in PlanSteps
  BY DEF Planned
<1> QED  BY <1>1 DEF PlanSteps

\* The fields of a timer that say where it is.
Lies(r, place, plan, slot, circle, born) ==
    /\ r.place = place /\ r.plan = plan /\ r.slot = slot /\ r.circle = circle /\ r.born = born

\* A timer that lies as another is as much on time.
LEMMA SameTimed ==
    ASSUME NEW r, NEW s, NEW tick, Timed(r, tick),
           Lies(s, r.place, r.plan, r.slot, r.circle, r.born)
    PROVE  Timed(s, tick)
  BY DEF Timed, Waits, NextVisit, Lies

\* A timer enters a slot.
LEMMA SlotTimed ==
    ASSUME WheelInv, NEW r, DOMAIN r = Fields, Planned(r.plan), Head(r.plan).delay # 0
    PROVE  Timed(InSlot(r), twTick) /\ InSlot(r).place = "slot"
<1> DEFINE w == Head(r.plan).wheel
           d == Head(r.plan).delay
           T == twTick[w]
           q == (d - 1) \div Slots
           x == (twPos[w] + d) % Slots
           i == InSlot(r)
<1>1. \A a, b, c : Lies([r EXCEPT !.place = "slot", !.slot = a, !.circle = b, !.born = c],
                        "slot", r.plan, a, b, c)
  BY DEF Lies, Fields
<1>2. Lies(i, "slot", r.plan, x, q, T)
  BY <1>1 DEF InSlot
<1>3. w \in Wheels /\ d \in Nat \ {0} /\ T \in Nat /\ twPos[w] = (T + (Slots - 1)) % Slots
  BY FirstStep DEF WheelInv
<1> DEFINE N == T + d - Slots * q
<1>4. /\ q \in Nat /\ N \in Nat /\ T < N /\ N <= T + Slots /\ (q = 0 <=> d <= Slots)
      /\ (((T + (Slots - 1)) % Slots) + d) % Slots = (N + (Slots - 1)) % Slots
  BY <1>3, WheelAssumption, Entering
<1>5. x = (N + (Slots - 1)) % Slots
  BY <1>3, <1>4
<1> HIDE DEF q, x, i
<1>6. i.place = "slot" /\ i.plan = r.plan /\ i.slot = x /\ i.circle = q /\ i.born = T
  BY <1>2 DEF Lies
<1>7. NextVisit(i) = N
  BY <1>6 DEF NextVisit
<1> HIDE DEF N
<1>8. Head(i.plan).delay = d /\ Head(i.plan).wheel = w /\ twTick[Head(i.plan).wheel] = T
  BY <1>6
<1> HIDE DEF T, d, w
<1>9. Waits(i, T)
  BY <1>3, <1>4, <1>5, <1>6, <1>7, <1>8 DEF Waits
<1>10. Planned(i.plan) /\ Head(i.plan).delay # 0
  BY <1>6, <1>8, <1>3
<1>11. Timed(i, twTick)
  BY <1>6, <1>8, <1>9, <1>10 DEF Timed
<1> QED  BY <1>6, <1>11 DEF i

\* The plan that set_timer makes starts with a step that takes time.
LEMMA PlanIs ==
    ASSUME NEW d \in Durations
    PROVE  Planned(PlanOf(d)) /\ Head(PlanOf(d)).delay # 0
<1>1. d \in Nat \ {0} /\ Interval \in Nat \ {0}
  BY WheelAssumption
<1> DEFINE q == d \div Interval
           z == d % Interval
           r == timer_duration_rectify(d)
<1>2. q \in Nat /\ z \in 0 .. Interval - 1 /\ z \in Nat /\ d = Interval * q + z
  BY <1>1, DivMod
<1>3. r = IF d > Interval THEN [high |-> q, low |-> z] ELSE [high |-> 0, low |-> d]
  BY DEF timer_duration_rectify
<1> HIDE DEF q, z
<1>4. d > Interval => q # 0
  <2>1. q = 0 => Interval * q = 0
    BY <1>1, <1>2
  <2> QED  BY <1>1, <1>2, <2>1
<1>5. PlanOf(d) = IF r.high > 0 THEN <<Step(2, r.high), Step(1, r.low)>> ELSE <<Step(1, r.low)>>
  BY DEF PlanOf
<1>6. r.high \in Nat /\ r.low \in Nat /\ (r.high > 0 \/ r.low # 0)
  BY <1>1, <1>2, <1>3, <1>4
<1> HIDE DEF r
<1>7. \A w \in Wheels : \A x \in Nat : Step(w, x) \in PlanSteps /\ Step(w, x).delay = x
  BY DEF Step, PlanSteps
<1>8. 1 \in Wheels /\ 2 \in Wheels
  BY DEF Wheels
<1>9. CASE r.high > 0
  <2> DEFINE a == Step(2, r.high)
             b == Step(1, r.low)
  <2>1. a \in PlanSteps /\ b \in PlanSteps /\ a.delay = r.high
    BY <1>6, <1>7, <1>8
  <2>2. PlanOf(d) = <<a, b>>
    BY <1>5, <1>9
  <2> HIDE DEF a, b
  <2>3. Head(<<a, b>>) = a /\ <<a, b>> # <<>> /\ <<a, b>> \in Seq(PlanSteps)
    BY <2>1
  <2>4. a.delay # 0
    BY <2>1, <1>6, <1>9
  <2> QED  BY <2>2, <2>3, <2>4 DEF Planned
<1>10. CASE ~(r.high > 0)
  <2> DEFINE b == Step(1, r.low)
  <2>1. b \in PlanSteps /\ b.delay = r.low
    BY <1>6, <1>7, <1>8
  <2>2. PlanOf(d) = <<b>>
    BY <1>5, <1>10
  <2> HIDE DEF b
  <2>3. Head(<<b>>) = b /\ <<b>> # <<>> /\ <<b>> \in Seq(PlanSteps)
    BY <2>1
  <2>4. b.delay # 0
    BY <2>1, <1>6, <1>10
  <2> QED  BY <2>2, <2>3, <2>4 DEF Planned
<1> QED  BY <1>9, <1>10

\* What is left of a plan starts with a step that takes time too.
LEMMA RestIs ==
    ASSUME NEW p, Planned(p), NextSteps(p) # <<>>
    PROVE  Planned(NextSteps(p)) /\ Head(NextSteps(p)).delay # 0
<1> DEFINE later == {i \in 2 .. Len(p) : p[i].delay # 0}
           m == Min(later)
           n == Len(p)
<1>1. p \in Seq(PlanSteps) /\ n \in Nat
  BY DEF Planned
<1>2. later # {} /\ NextSteps(p) = SubSeq(p, m, n)
  BY DEF NextSteps
<1>3. m \in later
  <2>1. later \in SUBSET Nat
    BY <1>1
  <2> HIDE DEF later
  <2>2. PICK x \in later : \A y \in later : x <= y
    BY <1>2, <2>1, LeastNat
  <2>3. \E z \in later : \A y \in later : z =< y
    BY <2>2
  <2> QED  BY <2>3 DEF Min
<1>4. m \in 2 .. n /\ p[m].delay # 0
  BY <1>3
<1> HIDE DEF m, n, later
<1>5. m \in Int /\ n \in Int /\ m <= n /\ \A i \in m .. n : p[i] \in PlanSteps
  BY <1>1, <1>4 DEF n
<1>6. /\ SubSeq(p, m, n) \in Seq(PlanSteps)
      /\ Len(SubSeq(p, m, n)) = IF m <= n THEN n - m + 1 ELSE 0
      /\ \A i \in 1 .. n - m + 1 : SubSeq(p, m, n)[i] = p[m + i - 1]
  BY <1>5, SubSeqProperties
<1> DEFINE s == SubSeq(p, m, n)
<1>7. Len(s) = n - m + 1 /\ 1 \in 1 .. n - m + 1 /\ m + 1 - 1 = m
  BY <1>5, <1>6
<1>8. s[1] = p[m]
  BY <1>6, <1>7
<1>9. s \in Seq(PlanSteps) /\ s # <<>>
  <2>1. Len(s) # 0
    BY <1>5, <1>7
  <2> QED  BY <1>6, <2>1
<1> HIDE DEF s
<1>10. Head(s) = s[1]
  BY <1>9
<1> QED  BY <1>2, <1>4, <1>8, <1>9, <1>10 DEF Planned, s

\* A step on one timer's record that does not let it expire.
LEMMA OneTimed ==
    ASSUME TimerInv, WheelInv, NEW t \in AllTimers, NEW r, DOMAIN r = Fields,
           twTimer' = [twTimer EXCEPT ![t] = r], twTick' = twTick, twPos' = twPos,
           t \in TwTimers => Timed(r, twTick),
           twTimer[t].place # "slot" \/ r.place # "expired"
    PROVE  WheelInv' /\ OnTime
<1>1. twTimer'[t] = r /\ \A u \in AllTimers \ {t} : twTimer'[u] = twTimer[u]
  BY OneTimer DEF TimerInv
<1>2. \A u \in TwTimers : twTimer'[u] = twTimer[u] \/ (u = t /\ twTimer'[u] = r)
  BY <1>1 DEF AllTimers
<1>3. \A u \in TwTimers : Timed(twTimer'[u], twTick)
  BY <1>2 DEF WheelInv
<1>4. WheelInv'
  BY <1>3 DEF WheelInv
<1>5. OnTime
  BY <1>2 DEF OnTime
<1> QED  BY <1>4, <1>5

\* A timer that is neither waiting nor expired is on no clock.
LEMMA IdleTimed ==
    ASSUME NEW r, NEW tick, r.place \notin {"mapped", "slot", "expired"}
    PROVE  Timed(r, tick)
  BY DEF Timed

\* The records that the steps leave.
LEMMA Records ==
    ASSUME NEW r, DOMAIN r = Fields, NEW p
    PROVE  /\ Lies([r EXCEPT !.place = "mapped", !.plan = p], "mapped", p, r.slot, r.circle, r.born)
           /\ Lies([r EXCEPT !.removed = TRUE, !.aborts = @ + 1], r.place, r.plan, r.slot, r.circle, r.born)
           /\ Lies([r EXCEPT !.plan = p], r.place, p, r.slot, r.circle, r.born)
           /\ Lies([r EXCEPT !.circle = p], r.place, r.plan, r.slot, p, r.born)
           /\ Lies([r EXCEPT !.place = "expired", !.circle = p], "expired", r.plan, r.slot, p, r.born)
           /\ DOMAIN [r EXCEPT !.plan = p] = Fields
  BY DEF Lies, Fields

\* A timer is set: its plan is made, and nothing waits yet.
LEMMA SetTimerTimed ==
    ASSUME TimerInv, WheelInv, NEW t \in TwTimers, NEW d \in Durations, SetTimer(t, d)
    PROVE  WheelInv' /\ OnTime
<1> DEFINE r == [twTimer[t] EXCEPT !.place = "mapped", !.plan = PlanOf(d)]
<1>1. t \in AllTimers /\ DOMAIN twTimer[t] = Fields
  BY SMTT(60) DEF TimerInv, TimerTypes, AllTimers
<1>2. /\ Looks(r, "mapped", twTimer[t].removed, twTimer[t].calls, twTimer[t].aborts)
      /\ Lies(r, "mapped", PlanOf(d), twTimer[t].slot, twTimer[t].circle, twTimer[t].born)
  BY <1>1, PlacedLooks, Records
<1>3. twTimer' = [twTimer EXCEPT ![t] = r]
  BY <1>1 DEF SetTimer, TimerInv, TimerTypes
<1> HIDE DEF r
<1>4. DOMAIN r = Fields /\ r.place = "mapped" /\ r.plan = PlanOf(d)
  BY <1>2 DEF Looks, Lies
<1>5. Timed(r, twTick)
  BY <1>4, PlanIs DEF Timed
<1>6. twTick' = twTick /\ twPos' = twPos
  BY DEF SetTimer
<1> QED  BY <1>1, <1>3, <1>4, <1>5, <1>6, OneTimed

\* The pool's job puts it into the slot of its first step.
LEMMA EnterSlotTimed ==
    ASSUME TimerInv, WheelInv, NEW t \in TwTimers, EnterSlot(t)
    PROVE  WheelInv' /\ OnTime
<1> DEFINE r == InSlot(twTimer[t])
<1>1. t \in AllTimers /\ DOMAIN twTimer[t] = Fields
  BY DEF TimerInv, TimerTypes, AllTimers
<1>2. Looks(r, "slot", twTimer[t].removed, twTimer[t].calls, twTimer[t].aborts)
  BY <1>1, SlotLooks
<1>3. /\ twTimer' = [twTimer EXCEPT ![t] = r] /\ twTimer[t].place = "mapped"
      /\ twTick' = twTick /\ twPos' = twPos
  BY DEF EnterSlot
<1>4. Planned(twTimer[t].plan) /\ Head(twTimer[t].plan).delay # 0
  BY <1>3 DEF WheelInv, Timed
<1>5. Timed(r, twTick)
  BY <1>1, <1>4, SlotTimed
<1> HIDE DEF r
<1>6. DOMAIN r = Fields /\ twTimer[t].place # "slot"
  BY <1>2, <1>3 DEF Looks
<1> QED  BY <1>1, <1>3, <1>5, <1>6, OneTimed

\* A cancelled timer keeps its slot until the wheel comes by.
LEMMA CancelTimerTimed ==
    ASSUME TimerInv, WheelInv, NEW t \in TwTimers, CancelTimer(t)
    PROVE  WheelInv' /\ OnTime
<1> DEFINE r == [twTimer[t] EXCEPT !.removed = TRUE, !.aborts = @ + 1]
<1>1. t \in AllTimers /\ DOMAIN twTimer[t] = Fields
  BY DEF TimerInv, TimerTypes, AllTimers
<1>2. /\ Looks(r, twTimer[t].place, TRUE, twTimer[t].calls, twTimer[t].aborts + 1)
      /\ Lies(r, twTimer[t].place, twTimer[t].plan, twTimer[t].slot, twTimer[t].circle, twTimer[t].born)
  BY <1>1, MarkedLooks, Records
<1>3. twTimer' = [twTimer EXCEPT ![t] = r]
  BY <1>1 DEF CancelTimer, TimerInv, TimerTypes
<1>4. twTick' = twTick /\ twPos' = twPos
  BY DEF CancelTimer
<1> HIDE DEF r
<1>5. DOMAIN r = Fields /\ r.place = twTimer[t].place
  BY <1>2 DEF Looks
<1>6. Timed(r, twTick)
  BY <1>2, SameTimed DEF WheelInv
<1> QED  BY <1>1, <1>3, <1>4, <1>5, <1>6, OneTimed

\* A timer that is called back is in no slot.
LEMMA CallbackTimed ==
    ASSUME TimerInv, WheelInv, NEW t \in TwTimers, RunCallback(t) \/ AbortCallback(t)
    PROVE  WheelInv' /\ OnTime
<1>1. t \in AllTimers /\ DOMAIN twTimer[t] = Fields
  BY DEF TimerInv, TimerTypes, AllTimers
<1>2. PICK r \in {Called(twTimer[t]), Aborted(twTimer[t])} :
        twTimer' = [twTimer EXCEPT ![t] = r] /\ twTick' = twTick /\ twPos' = twPos
  BY DEF RunCallback, AbortCallback
<1>3. DOMAIN r = Fields /\ r.place = "over"
  BY <1>1, <1>2, FreedLooks DEF Looks
<1>4. Timed(r, twTick)
  BY <1>3, IdleTimed
<1> QED  BY <1>1, <1>2, <1>3, <1>4, OneTimed

\* An expired timer enters the slot of its next step, or is over.
LEMMA FireHeadTimed ==
    ASSUME TimerInv, WheelInv, NEW l \in twLists, FireHead(l)
    PROVE  WheelInv' /\ OnTime
<1> DEFINE t == Head(l.ids)
           rest == NextSteps(twTimer[t].plan)
           moved == [twTimer[t] EXCEPT !.plan = rest]
           slot == InSlot(moved)
           queued == [twTimer[t] EXCEPT !.place = "queued"]
<1>1. l \in Lists /\ IsInjective(l.ids) /\ l.ids # <<>> /\ l.ids \in Seq(AllTimers)
  BY DEF TimerInv, TimerTypes, ListsFit, FireHead, Lists
<1>2. t \in Range(l.ids) /\ t \in AllTimers
  <2>1. t \in Range(l.ids)
    BY <1>1, WithoutFirst
  <2> QED  BY <1>1, <2>1 DEF Range
<1>3. DOMAIN twTimer[t] = Fields /\ twTimer[t].place = "expired"
  BY <1>2 DEF TimerInv, TimerTypes, ListsFit
<1>4. twTick' = twTick /\ twPos' = twPos
  BY DEF FireHead
<1>5. t \in TwTimers => Planned(twTimer[t].plan)
  BY <1>3 DEF WheelInv, Timed
<1>6. CASE Skips(t)
  <2>1. twTimer' = [twTimer EXCEPT ![t] = Freed(twTimer[t])]
    BY <1>6 DEF FireHead
  <2>2. DOMAIN Freed(twTimer[t]) = Fields /\ Freed(twTimer[t]).place = "over"
    BY <1>3, FreedLooks DEF Looks
  <2> HIDE DEF t
  <2>3. Timed(Freed(twTimer[t]), twTick)
    BY <2>2, IdleTimed
  <2> QED  BY <1>2, <1>4, <2>1, <2>2, <2>3, OneTimed
<1>7. CASE ~Skips(t) /\ rest # <<>>
  <2>1. twTimer' = [twTimer EXCEPT ![t] = slot]
    BY <1>7 DEF FireHead
  <2>2. DOMAIN moved = Fields /\ moved.plan = rest
    BY <1>3, Records DEF Lies
  <2> HIDE DEF moved
  <2>3. DOMAIN slot = Fields
    BY <2>2, SlotLooks DEF Looks
  <2>4. t \in TwTimers => Planned(rest) /\ Head(rest).delay # 0
    BY <1>5, <1>7, RestIs
  <2>5. t \in TwTimers => Timed(slot, twTick)
    BY <2>2, <2>4, SlotTimed
  <2>6. twTimer[t].place # "slot"
    BY <1>3
  <2> HIDE DEF t, slot
  <2> QED  BY <1>2, <1>4, <2>1, <2>3, <2>5, <2>6, OneTimed
<1>8. CASE ~Skips(t) /\ rest = <<>>
  <2>1. twTimer' = [twTimer EXCEPT ![t] = queued]
    <3>1. twTimer' = [twTimer EXCEPT ![t].place = "queued"]
      BY <1>8 DEF FireHead
    <3> QED  BY <3>1
  <2>2. DOMAIN queued = Fields /\ queued.place = "queued"
    BY <1>3, PlacedLooks DEF Looks
  <2> HIDE DEF t, queued
  <2>3. Timed(queued, twTick)
    BY <2>2, IdleTimed
  <2>4. queued.place # "expired"
    BY <2>2
  <2> QED  BY <1>2, <1>4, <2>1, <2>2, <2>3, <2>4, OneTimed
<1> QED  BY <1>6, <1>7, <1>8

\* A step that leaves every timer as it lies, or over.
LEMMA ManyTimed ==
    ASSUME WheelInv, twTick' = twTick, twPos' = twPos,
           \A u \in TwTimers :
              \/ Lies(twTimer'[u], twTimer[u].place, twTimer[u].plan, twTimer[u].slot,
                      twTimer[u].circle, twTimer[u].born)
              \/ twTimer'[u].place = "over"
    PROVE  WheelInv' /\ OnTime
<1>1. ASSUME NEW u \in TwTimers PROVE Timed(twTimer'[u], twTick)
  <2>1. CASE Lies(twTimer'[u], twTimer[u].place, twTimer[u].plan, twTimer[u].slot,
                  twTimer[u].circle, twTimer[u].born)
    BY <2>1, SameTimed DEF WheelInv
  <2>2. CASE twTimer'[u].place = "over"
    BY <2>2, IdleTimed
  <2> QED  BY <2>1, <2>2
<1>2. WheelInv'
  BY <1>1 DEF WheelInv
<1>3. OnTime
  BY SMTT(60) DEF OnTime, Lies
<1> QED  BY <1>2, <1>3

\* The stop cancels all that are mapped.
LEMMA StopTimed ==
    ASSUME TimerInv, WheelInv, StopTimers PROVE WheelInv' /\ OnTime
<1>1. DOMAIN twTimer = AllTimers /\ TwTimers \subseteq AllTimers
  BY Zenon DEF TimerInv, TimerTypes, AllTimers
<1>2. /\ twTimer' = [t \in DOMAIN twTimer |->
         IF t \in twMap THEN [twTimer[t] EXCEPT !.removed = TRUE, !.aborts = @ + 1]
                        ELSE twTimer[t]]
      /\ twTick' = twTick /\ twPos' = twPos
  BY DEF StopTimers
<1>3. ASSUME NEW u \in TwTimers
      PROVE  Lies(twTimer'[u], twTimer[u].place, twTimer[u].plan, twTimer[u].slot,
                  twTimer[u].circle, twTimer[u].born)
  <2>1. DOMAIN twTimer[u] = Fields
    BY <1>1, SMTT(60) DEF TimerInv, TimerTypes
  <2>2. CASE u \in twMap
    <3>1. twTimer'[u] = [twTimer[u] EXCEPT !.removed = TRUE, !.aborts = @ + 1]
      BY <1>1, <1>2, <2>2
    <3> QED  BY <2>1, <3>1, Records
  <2>3. CASE u \notin twMap
    <3>1. twTimer'[u] = twTimer[u]
      BY <1>1, <1>2, <2>3
    <3> QED  BY <3>1 DEF Lies
  <2> QED  BY <2>2, <2>3
<1> QED  BY <1>2, <1>3, ManyTimed

\* An aborted list leaves its timers.
LEMMA AbortTimed ==
    ASSUME TimerInv, WheelInv, NEW ws, AbortWheels(ws), twTick' = twTick, twPos' = twPos
    PROVE  WheelInv' /\ OnTime
<1>1. DOMAIN twTimer = AllTimers /\ TwTimers \subseteq AllTimers
  BY Zenon DEF TimerInv, TimerTypes, AllTimers
<1>2. ASSUME NEW u \in TwTimers
      PROVE  twTimer'[u] \in {twTimer[u], Freed(twTimer[u]), Aborted(twTimer[u])}
  BY <1>1 DEF AbortWheels
<1>3. ASSUME NEW u \in TwTimers
      PROVE  \/ Lies(twTimer'[u], twTimer[u].place, twTimer[u].plan, twTimer[u].slot,
                     twTimer[u].circle, twTimer[u].born)
             \/ twTimer'[u].place = "over"
  <2>1. DOMAIN twTimer[u] = Fields
    BY <1>1 DEF TimerInv, TimerTypes
  <2>2. Freed(twTimer[u]).place = "over" /\ Aborted(twTimer[u]).place = "over"
    BY <2>1, FreedLooks DEF Looks
  <2>3. CASE twTimer'[u] = twTimer[u]
    BY <2>3 DEF Lies
  <2> QED  BY <1>2, <2>2, <2>3
<1> QED  BY <1>3, ManyTimed

\* One visit, in numbers: N is the next visit, T the ticks so far.
LEMMA Visit ==
    ASSUME NEW s \in Nat \ {0}, NEW T \in Nat, NEW N \in Nat, T < N, N <= T + s,
           (N + (s - 1)) % s = (((T + (s - 1)) % s) + 1) % s
    PROVE  N = T + 1
<1> DEFINE g == (T + (s - 1)) % s
           p == (T + (s - 1)) \div s
<1>1. T + (s - 1) \in Nat /\ T + s \in Nat /\ N + (s - 1) \in Nat
  OBVIOUS
<1>2. p \in Nat /\ g \in 0 .. s - 1 /\ g \in Nat /\ T + (s - 1) = s * p + g
  BY <1>1, DivMod
<1> HIDE DEF p, g
<1>3. T + s = (g + 1) + s * p
  <2> DEFINE v == s * p
  <2>1. v \in Int /\ T + (s - 1) = v + g
    BY <1>2
  <2> HIDE DEF v
  <2>2. T + s = (g + 1) + v
    BY <1>2, <2>1
  <2> QED  BY <2>2 DEF v
<1>4. (T + s) % s = (g + 1) % s
  <2> DEFINE a == T + s
             b == g + 1
  <2>1. a \in Nat /\ b \in Nat /\ p \in Int /\ a = b + s * p
    BY <1>1, <1>2, <1>3
  <2> HIDE DEF a, b
  <2>2. a % s = b % s
    BY <2>1, SameSlot
  <2> QED  BY <2>2 DEF a, b
<1> DEFINE x == T + s
           y == N + (s - 1)
<1>5. x \in Nat /\ y \in Nat /\ x % s = y % s /\ x <= y /\ y < x + s
  BY <1>1, <1>4 DEF g
<1> HIDE DEF x, y
<1>6. x = y
  BY <1>5, OneTurn
<1> QED  BY <1>6 DEF x, y

\* The wheel one tick on.
LEMMA NextPosition ==
    ASSUME NEW s \in Nat \ {0}, NEW T \in Nat
    PROVE  (((T + (s - 1)) % s) + 1) % s = ((T + 1) + (s - 1)) % s
<1> DEFINE g == (T + (s - 1)) % s
           p == (T + (s - 1)) \div s
<1>1. T + (s - 1) \in Nat
  OBVIOUS
<1>2. p \in Nat /\ g \in 0 .. s - 1 /\ g \in Nat /\ T + (s - 1) = s * p + g
  BY <1>1, DivMod
<1> HIDE DEF p, g
<1> DEFINE a == (T + 1) + (s - 1)
           b == g + 1
<1>3. a \in Nat /\ b \in Nat /\ p \in Int /\ a = b + s * p
  <2> DEFINE v == s * p
  <2>1. v \in Int /\ T + (s - 1) = v + g
    BY <1>2
  <2> HIDE DEF v
  <2>2. a \in Nat /\ b \in Nat /\ p \in Int /\ a = b + v
    BY <1>2, <2>1
  <2> QED  BY <2>2 DEF v
<1> HIDE DEF a, b
<1>4. a % s = b % s
  BY <1>3, SameSlot
<1> QED  BY <1>4 DEF a, b, g

\* A tick: whoever expires does so on the tick of its next visit.
LEMMA OnTickTimed ==
    ASSUME TimerInv, WheelInv, NEW w \in Wheels, OnTick(w)
    PROVE  WheelInv' /\ OnTime
<1> DEFINE gone == {t \in Visited(w) : twTimer[t].removed}
           due == {t \in Visited(w) \ gone : Expires(t)}
           again == InSlot([NewTimer EXCEPT !.plan = <<Step(1, Interval)>>])
           T == twTick[w]
           S == Slots
<1>1. DOMAIN twTimer = AllTimers /\ TwTimers \subseteq AllTimers /\ TickTimer \notin TwTimers
  BY Zenon, TimerAssumption DEF TimerInv, TimerTypes, AllTimers
<1>2. /\ T \in Nat /\ twPos[w] = (T + (S - 1)) % S /\ S \in Nat \ {0}
      /\ twTick \in [Wheels -> Nat]
  BY WheelAssumption DEF WheelInv
<1>3. twTick' = [twTick EXCEPT ![w] = @ + 1] /\ twPos' = [twPos EXCEPT ![w] = NextPos(w)]
  BY Zenon DEF OnTick
<1>4. twTick' \in [Wheels -> Nat] /\ twTick'[w] = T + 1 /\ \A x \in Wheels \ {w} : twTick'[x] = twTick[x]
  BY <1>2, <1>3
<1>5. NextPos(w) = (((T + (S - 1)) % S) + 1) % S
  BY <1>2 DEF NextPos
<1>6. NextPos(w) = ((T + 1) + (S - 1)) % S
  BY <1>2, <1>5, NextPosition
<1>7. twPos' = [x \in Wheels |-> (twTick'[x] + (S - 1)) % S]
  <2>1. DOMAIN twPos = Wheels /\ \A x \in Wheels : twPos[x] = (twTick[x] + (S - 1)) % S
    BY DEF WheelInv
  <2>2. \A x \in Wheels : twPos'[x] = IF x = w THEN NextPos(w) ELSE twPos[x]
    BY <1>3, <2>1
  <2>3. ASSUME NEW x \in Wheels PROVE twPos'[x] = (twTick'[x] + (S - 1)) % S
    <3>1. CASE x = w
      BY <3>1, <2>2, <1>4, <1>6
    <3>2. CASE x # w
      BY <3>2, <2>1, <2>2, <1>4
    <3> QED  BY <3>1, <3>2
  <2>4. twPos' = [x \in Wheels |-> twPos'[x]]
    BY <1>3, <2>1
  <2> QED  BY <2>3, <2>4
<1>8. ASSUME NEW u \in TwTimers
      PROVE  \/ u \in gone /\ twTimer'[u] = Freed(twTimer[u])
             \/ u \in due /\ twTimer'[u] = [twTimer[u] EXCEPT !.place = "expired", !.circle = 0]
             \/ u \in Visited(w) \ (gone \cup due) /\ twTimer'[u] = [twTimer[u] EXCEPT !.circle = @ - 1]
             \/ u \notin Visited(w) /\ twTimer'[u] = twTimer[u]
  <2> DEFINE f == Freed(twTimer[u])
             e == [twTimer[u] EXCEPT !.place = "expired", !.circle = 0]
             c == [twTimer[u] EXCEPT !.circle = @ - 1]
             new(t) == CASE t \in gone -> Freed(twTimer[t])
               [] t \in due -> [twTimer[t] EXCEPT !.place = "expired", !.circle = 0]
               [] t \in Visited(w) \ (gone \cup due) -> [twTimer[t] EXCEPT !.circle = @ - 1]
               [] t = TickTimer /\ w = 2 -> again
               [] OTHER -> twTimer[t]
  <2>1. twTimer' = [t \in DOMAIN twTimer |-> new(t)]
    BY DEF OnTick
  <2>2. twTimer'[u] = new(u)
    <3> HIDE DEF new
    <3> QED  BY <1>1, <2>1
  <2>3. twTimer'[u] = CASE u \in gone -> f [] u \in due -> e
                        [] u \in Visited(w) \ (gone \cup due) -> c
                        [] u = TickTimer /\ w = 2 -> again [] OTHER -> twTimer[u]
    BY <2>2
  <2>4. gone \subseteq Visited(w) /\ due \subseteq Visited(w) \ gone /\ u # TickTimer
    BY <1>1
  <2> HIDE DEF f, e, c, gone, due, again, new
  <2>5. \/ u \in gone /\ twTimer'[u] = f
        \/ u \in due /\ twTimer'[u] = e
        \/ u \in Visited(w) \ (gone \cup due) /\ twTimer'[u] = c
        \/ u \notin Visited(w) /\ twTimer'[u] = twTimer[u]
    BY <2>3, <2>4, Zenon
  <2> QED  BY <2>5 DEF f, e, c
<1>9. ASSUME NEW u \in TwTimers
      PROVE  /\ Timed(twTimer'[u], twTick')
             /\ twTimer[u].place = "slot" /\ twTimer'[u].place = "expired" =>
                  /\ Head(twTimer[u].plan).wheel = w
                  /\ twTick'[w] - twTimer[u].born =
                       (IF Head(twTimer[u].plan).delay > Slots
                          THEN Head(twTimer[u].plan).delay - Slots ELSE Head(twTimer[u].plan).delay)
  <2> DEFINE r == twTimer[u]
             q == twTimer'[u]
             N == NextVisit(r)
             d == Head(r.plan).delay
             c == r.circle
  <2>1. DOMAIN r = Fields /\ Timed(r, twTick)
    BY <1>1 DEF TimerInv, TimerTypes, WheelInv
  <2>2. ASSUME r.place = "slot"
        PROVE  /\ Planned(r.plan) /\ d \in Nat \ {0} /\ Head(r.plan).wheel \in Wheels
               /\ Waits(r, twTick[Head(r.plan).wheel])
    <3>1. Planned(r.plan) /\ d # 0 /\ Waits(r, twTick[Head(r.plan).wheel])
      BY <2>1, <2>2 DEF Timed
    <3> QED  BY <3>1, FirstStep
  <2>3. ASSUME u \in Visited(w)
        PROVE  /\ r.place = "slot" /\ Head(r.plan).wheel = w /\ Waits(r, T) /\ N = T + 1
               /\ Planned(r.plan) /\ d \in Nat \ {0}
    <3>1. r.place = "slot" /\ Head(r.plan).wheel = w /\ r.slot = NextPos(w)
      BY <2>3 DEF Visited
    <3>2. Waits(r, T) /\ Planned(r.plan) /\ d \in Nat \ {0}
      BY <2>2, <3>1
    <3>3. N \in Nat /\ T < N /\ N <= T + S /\ (N + (S - 1)) % S = (((T + (S - 1)) % S) + 1) % S
      BY <1>5, <3>1, <3>2 DEF Waits
    <3> HIDE DEF N, T, S
    <3>4. N = T + 1
      BY <1>2, <3>3, Visit
    <3> QED  BY <3>1, <3>2, <3>4
  <2>4. CASE u \in gone /\ q = Freed(r)
    <3>1. q.place = "over"
      BY <2>1, <2>4, FreedLooks DEF Looks
    <3> HIDE DEF q
    <3>2. Timed(q, twTick')
      BY <3>1, IdleTimed
    <3> QED  BY <3>1, <3>2 DEF q
  <2>5. CASE u \in due /\ q = [r EXCEPT !.place = "expired", !.circle = 0]
    <3>1. u \in Visited(w) /\ c <= 1
      BY <2>5 DEF Expires
    <3>2. q.place = "expired" /\ q.plan = r.plan
      BY <2>1, <2>5, Records DEF Lies
    <3>3. Timed(q, twTick')
      <4> HIDE DEF q
      <4> QED  BY <3>1, <3>2, <2>3 DEF Timed
    <3>4. r.born \in Nat /\ c \in Nat /\ N = r.born + d - S * c /\ (c = 0 <=> d <= S) /\ N = T + 1 /\ d \in Nat
      BY <2>3, <3>1 DEF Waits, NextVisit
    <3>5. twTick'[w] - r.born = IF d > S THEN d - S ELSE d
      <4> HIDE DEF N, T, S, d
      <4>1. CASE c = 0
        <5>1. S * c = 0
          BY <4>1, <1>2
        <5> QED  BY <4>1, <5>1, <3>4, <1>2, <1>4
      <4>2. CASE c = 1
        <5>1. S * c = S
          BY <4>2, <1>2
        <5> QED  BY <4>2, <5>1, <3>4, <1>2, <1>4
      <4> QED  BY <4>1, <4>2, <3>1, <3>4
    <3> QED  BY <2>3, <3>1, <3>3, <3>5
  <2>6. CASE u \in Visited(w) \ (gone \cup due) /\ q = [r EXCEPT !.circle = @ - 1]
    <3>1. u \in Visited(w) /\ ~(c <= 1)
      BY <2>6 DEF Expires
    <3>2. Lies(q, r.place, r.plan, r.slot, c - 1, r.born)
      <4> DEFINE k == c - 1
      <4>1. q = [r EXCEPT !.circle = k]
        BY <2>6, SMTT(60)
      <4> HIDE DEF k, q
      <4>2. Lies([r EXCEPT !.circle = k], r.place, r.plan, r.slot, k, r.born)
        BY <2>1, Records
      <4> QED  BY <4>1, <4>2 DEF k
    <3> HIDE DEF q
    <3>3. q.place = "slot" /\ q.plan = r.plan /\ q.slot = r.slot /\ q.circle = c - 1 /\ q.born = r.born
      BY <2>3, <3>1, <3>2 DEF Lies
    <3>4. /\ r.born \in Nat /\ c \in Nat /\ N = r.born + d - S * c /\ (c = 0 <=> d <= S) /\ N = T + 1
          /\ d \in Nat /\ r.slot = (N + (S - 1)) % S /\ N \in Nat
      BY <2>3, <3>1 DEF Waits, NextVisit
    <3>5. NextVisit(q) = r.born + d - S * (c - 1)
      BY <3>3 DEF NextVisit
    <3> HIDE DEF N, T, S, d, c
    <3>6. S * (c - 1) = S * c - S /\ S * c \in Int
      BY <1>2, <3>4
    <3>7. NextVisit(q) = N + S
      BY <3>4, <3>5, <3>6, <1>2
    <3>8. (N + (S - 1)) % S = ((N + S) + (S - 1)) % S
      <4> DEFINE a == (N + S) + (S - 1)
                 b == N + (S - 1)
      <4>1. a \in Nat /\ b \in Nat /\ 1 \in Int /\ S * 1 = S
        BY <3>4, <1>2
      <4>2. a = b + S * 1
        BY <4>1, <3>4, <1>2
      <4> HIDE DEF a, b
      <4>3. a % S = b % S
        BY <4>1, <4>2, <1>2, SameSlot
      <4> QED  BY <4>3 DEF a, b
    <3>9. Waits(q, T + 1)
      <4>1. q.born \in Nat /\ q.circle \in Nat /\ NextVisit(q) \in Nat
        BY <3>1, <3>3, <3>4, <3>7, <1>2
      <4>2. T + 1 < NextVisit(q) /\ NextVisit(q) <= (T + 1) + S
        BY <3>4, <3>7, <1>2
      <4>3. q.slot = (NextVisit(q) + (S - 1)) % S
        BY <3>3, <3>4, <3>7, <3>8
      <4>4. q.circle = 0 <=> Head(q.plan).delay <= S
        <5>1. q.circle # 0 /\ ~(d <= S)
          BY <3>1, <3>3, <3>4
        <5> QED  BY <5>1, <3>3 DEF d
      <4> QED  BY <4>1, <4>2, <4>3, <4>4 DEF Waits, S
    <3>10. Head(q.plan).wheel = w /\ Planned(q.plan) /\ Head(q.plan).delay # 0
      BY <2>3, <3>1, <3>3 DEF d
    <3>11. Timed(q, twTick')
      <4>1. twTick'[Head(q.plan).wheel] = T + 1
        BY <3>10, <1>4
      <4> QED  BY <3>3, <3>9, <3>10, <4>1 DEF Timed
    <3> QED  BY <3>3, <3>11 DEF q
  <2>7. CASE u \notin Visited(w) /\ q = r
    <3>1. ASSUME r.place = "slot" PROVE Waits(r, twTick'[Head(r.plan).wheel])
      <4>1. Waits(r, twTick[Head(r.plan).wheel]) /\ Head(r.plan).wheel \in Wheels
        BY <2>2, <3>1
      <4>2. CASE Head(r.plan).wheel # w
        BY <4>1, <4>2, <1>4
      <4>3. CASE Head(r.plan).wheel = w
        <5>1. r.slot # NextPos(w) /\ Waits(r, T)
          BY <2>7, <3>1, <1>1, <4>1, <4>3 DEF Visited
        <5>2. N # T + 1
          BY <5>1, <1>6 DEF Waits
        <5>3. N \in Nat /\ T < N /\ N <= T + S
          BY <5>1 DEF Waits
        <5>4. T + 1 < N /\ N <= (T + 1) + S
          <6> HIDE DEF N, T, S
          <6> QED  BY <5>2, <5>3, <1>2
        <5>5. Waits(r, T + 1)
          BY <5>1, <5>4 DEF Waits
        <5> QED  BY <4>3, <5>5, <1>4
      <4> QED  BY <4>2, <4>3
    <3>2. Timed(r, twTick')
      BY <2>1, <3>1 DEF Timed
    <3>3. Timed(q, twTick') /\ ~(r.place = "slot" /\ q.place = "expired")
      BY <2>7, <3>2
    <3> QED  BY <3>3
  <2> HIDE DEF gone, due
  <2> QED  BY <1>8, <2>4, <2>5, <2>6, <2>7
<1>10. WheelInv'
  <2>1. (\A t \in TwTimers : Timed(twTimer[t], twTick))'
    BY <1>9
  <2> QED  BY <1>4, <1>7, <2>1 DEF WheelInv
<1>11. OnTime
  BY <1>9 DEF OnTime
<1> QED  BY <1>10, <1>11

\* Steps that move no timer and no wheel.
LEMMA TimedRest == WheelInv /\ UNCHANGED <<twTimer, twTick, twPos>> => WheelInv' /\ OnTime
  BY DEF WheelInv, OnTime

\* At the start no timer waits and every wheel stands before its first slot.
LEMMA TimedBegin == TwInit => WheelInv
<1> SUFFICES ASSUME TwInit PROVE WheelInv
  OBVIOUS
<1>1. twTick = [w \in Wheels |-> 0] /\ twPos = [w \in Wheels |-> Slots - 1]
  BY DEF TwInit
<1>2. \A t \in TwTimers : twTimer[t] = NewTimer
  <2> DEFINE tt == InSlot([NewTimer EXCEPT !.plan = <<Step(1, Interval)>>])
  <2>1. twTimer = [t \in TwTimers \cup {TickTimer} |-> IF t = TickTimer THEN tt ELSE NewTimer]
    BY DEF TwInit
  <2> HIDE DEF tt
  <2> QED  BY <2>1, TimerAssumption
<1>3. NewTimer.place = "unset"
  BY DEF NewTimer
<1>4. \A t \in TwTimers : Timed(twTimer[t], twTick)
  BY <1>2, <1>3, IdleTimed
<1>5. (0 + (Slots - 1)) % Slots = Slots - 1
  <2> DEFINE a == 0 + (Slots - 1)
  <2>1. a \in 0 .. Slots - 1 /\ a \in Nat /\ a = Slots - 1 /\ Slots \in Nat \ {0}
    BY WheelAssumption
  <2> DEFINE p == a \div Slots
             x == a % Slots
  <2>2. p \in Nat /\ x \in 0 .. Slots - 1 /\ a = Slots * p + x
    <3> HIDE DEF a
    <3> QED  BY <2>1, DivMod
  <2> HIDE DEF p, x, a
  <2>3. Splits(a, Slots, p, x) /\ Splits(a, Slots, 0, a)
    <3>1. Slots * 0 = 0
      BY <2>1
    <3> QED  BY <2>1, <2>2, <3>1 DEF Splits
  <2>4. x = a
    BY <2>1, <2>3, OneRemainder
  <2> QED  BY <2>1, <2>4 DEF x, a
<1>6. twTick \in [Wheels -> Nat] /\ \A w \in Wheels : twTick[w] = 0
  BY <1>1
<1>7. twPos = [w \in Wheels |-> (twTick[w] + (Slots - 1)) % Slots]
  BY <1>1, <1>5, <1>6
<1> QED  BY <1>4, <1>6, <1>7 DEF WheelInv

\* Every step keeps the timers' times, and an expiry is on time.
LEMMA TimedStep == TimerInv /\ WheelInv /\ [Next]_svVars => WheelInv' /\ OnTime
<1> SUFFICES ASSUME TimerInv, WheelInv, [Next]_svVars PROVE WheelInv' /\ OnTime
  OBVIOUS
<1>1. CASE UNCHANGED twVars
  BY <1>1, TimedRest DEF twVars
<1>2. CASE TwNext
  <2>1. ASSUME NEW w \in Wheels, TickBegin(w) \/ OnTick(w) \/ StopWheel(w)
        PROVE  WheelInv' /\ OnTime
    BY <2>1, OnTickTimed, TimedRest DEF TickBegin, StopWheel
  <2>2. CASE StopLock \/ StopTimers
    BY <2>2, StopTimed, TimedRest DEF StopLock
  <2>3. CASE AbortTick \/ AbortTurn
    <3>1. twTick' = twTick /\ twPos' = twPos
      BY <2>3 DEF AbortTick, AbortTurn
    <3>2. CASE \E ws : AbortWheels(ws)
      BY <3>1, <3>2, AbortTimed
    <3>3. CASE twTimer' = [twTimer EXCEPT ![TickTimer] = Freed(@)]
      <4>1. \A u \in TwTimers : twTimer'[u] = twTimer[u]
        BY <3>3, TimerAssumption DEF TimerInv, TimerTypes, AllTimers
      <4>2. QED
        BY <3>1, <4>1, ManyTimed DEF Lies
    <3>4. QED
      BY <2>3, <3>2, <3>3 DEF AbortTick, AbortTurn
  <2>4. CASE WaitForIdle
    BY <2>4, TimedRest DEF WaitForIdle
  <2>5. ASSUME NEW l \in twLists, Unmap(l) \/ FireHead(l) \/ FireEnd(l) PROVE WheelInv' /\ OnTime
    BY <2>5, FireHeadTimed, TimedRest DEF Unmap, FireEnd
  <2>6. ASSUME NEW t \in TwTimers,
               \/ EnterSlot(t) \/ CancelTimer(t) \/ RunCallback(t) \/ AbortCallback(t)
               \/ \E d \in Durations : SetTimer(t, d)
        PROVE  WheelInv' /\ OnTime
    BY <2>6, EnterSlotTimed, CancelTimerTimed, CallbackTimed, SetTimerTimed
  <2> QED  BY <1>2, <2>1, <2>2, <2>3, <2>4, <2>5, <2>6 DEF TwNext
<1> QED  BY <1>1, <1>2 DEF Next, PageStep, ValueStep, BlockStep, TimerStep, svVars

\* Whoever expires so is never late, and to the tick after at most a turn.
LEMMA NeverLate ==
    ASSUME WheelInv, OnTime, NEW t \in TwTimers,
           twTimer[t].place = "slot", twTimer'[t].place = "expired"
    PROVE  LET d == Head(twTimer[t].plan).delay
               took == twTick'[Head(twTimer[t].plan).wheel] - twTimer[t].born
           IN  took <= d /\ (d <= Slots => took = d)
<1> DEFINE d == Head(twTimer[t].plan).delay
           took == twTick'[Head(twTimer[t].plan).wheel] - twTimer[t].born
<1>1. Planned(twTimer[t].plan)
  BY DEF WheelInv, Timed
<1>2. d \in Nat /\ Slots \in Nat \ {0}
  BY <1>1, FirstStep, WheelAssumption
<1>3. took = IF d > Slots THEN d - Slots ELSE d
  BY DEF OnTime
<1> HIDE DEF d, took
<1>4. took <= d /\ (d <= Slots => took = d)
  BY <1>2, <1>3
<1>5. QED
  BY <1>4 DEF d, took

\* An insertion leaves the value cache within its budget unless one value alone exceeds it,
\* and a timer leaves its slot no later than its delay asks for, and on that very tick after
\* a delay of at most a turn of the wheel, for any sizes, budget, slots and durations.
THEOREM ServiceStepsAreRight == Spec => ServiceSteps
<1>1. Init => TimerInv /\ WheelInv /\ LruInv
  BY TimersBegin, TimedBegin, ValuesBegin DEF Init
<1>2. LruInv /\ [Next]_svVars
        => /\ LruInv'
           /\ [LruKeysOf(lruNodes') \ LruKeysOf(lruNodes) # {}
                => lruMem' <= LruBudget \/ Len(lruNodes') = 1]_lruVars
  BY ValuesStep DEF WithinBudget
<1>3. TimerInv /\ WheelInv /\ [Next]_svVars
        => /\ WheelInv'
           /\ [\A t \in TwTimers :
                 twTimer[t].place = "slot" /\ twTimer'[t].place = "expired" =>
                   LET d == Head(twTimer[t].plan).delay
                       took == twTick'[Head(twTimer[t].plan).wheel] - twTimer[t].born
                   IN  took <= d /\ (d <= Slots => took = d)]_twVars
  BY TimedStep, NeverLate
<1>4. QED
  BY <1>1, <1>2, <1>3, TimersStep, PTL DEF Spec, ServiceSteps, LruBudgetKept, StepOnTime
=============================================================================
