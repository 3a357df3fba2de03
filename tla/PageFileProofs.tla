--------------------------- MODULE PageFileProofs ---------------------------
(***************************************************************************)
(* Proofs about the page file: stale_region_add keeps a list of stale      *)
(* regions exact, for every list, offset and length, and so the list of    *)
(* the page file is exact through flushes, vacuums, failed writes, crashes *)
(* and reopened files.  Then the checkpoints: the last one can always be   *)
(* read, a close keeps everything, and the flush ends after two turns.     *)
(***************************************************************************)
EXTENDS PageFile, FiniteSetTheorems, WellFoundedInduction, TLAPS

-----------------------------------------------------------------------------
(* Natural numbers: loops end at a least index, and what a recursive       *)
(* function computes is shown by induction.                                *)

\* A non-empty set of natural numbers has a least element.
LEMMA LeastNat ==
  ASSUME NEW T \in SUBSET Nat, T # {}
  PROVE  \E x \in T : \A y \in T : x <= y
<1> DEFINE R == OpToRel(<, Nat)
<1>1. \A x, y \in Nat : y < x => <<y, x>> \in R
  BY DEF OpToRel
<1>2. IsWellFoundedOn(R, Nat)
  BY NatLessThanWellFounded
<1> HIDE DEF R
<1>3. PICK x \in T : \A y \in T : ~ (<<y, x>> \in R)
  BY <1>2, WFMin
<1>4. \A y \in T : ~ (y < x)
  BY <1>1, <1>3
<1>5. x \in Nat /\ \A y \in T : y \in Nat
  BY <1>3
<1> QED
  BY <1>3, <1>4, <1>5

\* A set of natural numbers with 0 and with the successor of each of its members has
\* all of them.
LEMMA SetInduction ==
  ASSUME NEW T \in SUBSET Nat, 0 \in T, \A n \in T : n + 1 \in T
  PROVE  \A n \in Nat : n \in T
<1> SUFFICES ASSUME Nat \ T # {} PROVE FALSE
  OBVIOUS
<1>1. PICK x \in Nat \ T : \A y \in Nat \ T : x <= y
  BY LeastNat
<1>2. x # 0 /\ x - 1 \in Nat
  BY <1>1
<1>3. x - 1 \in T
  BY <1>1, <1>2
<1>4. (x - 1) + 1 \in T
  BY <1>3
<1> QED
  BY <1>1, <1>4

\* The entries of the list.
Regions == [offset : Nat, length : Nat]

(***************************************************************************)
(* The loops of stale_region_add: each ends at the first index that        *)
(* satisfies its condition, so that one exists.                            *)
(***************************************************************************)

\* The entries of a list of regions have natural numbers as offset, length and end.
LEMMA RegionNat ==
  ASSUME NEW r \in Seq(Regions), NEW i \in 1 .. Len(r)
  PROVE  r[i] \in Regions /\ r[i].offset \in Nat /\ r[i].length \in Nat /\ End(r[i]) \in Nat
<1>1. r[i] \in Regions
  OBVIOUS
<1>2. \A x \in Regions : x.offset \in Nat /\ x.length \in Nat /\ End(x) \in Nat
  BY DEF Regions, End
<1> QED  BY <1>1, <1>2

\* The first loop stops at LeftOf: all regions before it end before s.
LEMMA LeftOfSpec ==
  ASSUME NEW r \in Seq(Regions), NEW s \in Nat
  PROVE  /\ LeftOf(r, s) \in 1 .. (Len(r) + 1)
         /\ \A j \in 1 .. (LeftOf(r, s) - 1) : End(r[j]) < s
         /\ LeftOf(r, s) <= Len(r) => End(r[LeftOf(r, s)]) >= s
<1> DEFINE T == {i \in 1 .. (Len(r) + 1) : i <= Len(r) => End(r[i]) >= s}
<1>1. \A i \in 1 .. Len(r) : End(r[i]) \in Nat
  BY RegionNat
<1>2. Len(r) \in Nat /\ Len(r) + 1 \in T /\ T \in SUBSET Nat
  <2>1. Len(r) \in Nat  OBVIOUS
  <2> QED  BY <2>1
<1>3. PICK m \in T : \A k \in T : m <= k
  <2> HIDE DEF T
  <2> QED  BY <1>2, LeastNat
<1>4. \A j \in 1 .. (m - 1) : End(r[j]) < s
  BY <1>1, <1>3
<1> QED  BY <1>3, <1>4 DEF LeftOf

\* The second loop stops at RightOf: all regions from left up to it begin at or before e.
LEMMA RightOfSpec ==
  ASSUME NEW r \in Seq(Regions), NEW left \in 1 .. (Len(r) + 1), NEW e \in Nat
  PROVE  /\ RightOf(r, left, e) \in left .. (Len(r) + 1)
         /\ \A j \in left .. (RightOf(r, left, e) - 1) : r[j].offset <= e
         /\ RightOf(r, left, e) <= Len(r) => r[RightOf(r, left, e)].offset > e
<1> DEFINE T == {i \in left .. (Len(r) + 1) : i <= Len(r) => r[i].offset > e}
<1>1. \A i \in 1 .. Len(r) : r[i].offset \in Nat
  BY RegionNat
<1>2. Len(r) \in Nat /\ Len(r) + 1 \in T /\ T \in SUBSET Nat
  <2>1. Len(r) \in Nat  OBVIOUS
  <2> QED  BY <2>1
<1>3. PICK m \in T : \A k \in T : m <= k
  <2> HIDE DEF T
  <2> QED  BY <1>2, LeastNat
<1>4. \A j \in left .. (m - 1) : r[j].offset <= e
  BY <1>1, <1>3
<1> QED  BY <1>3, <1>4 DEF RightOf

\* What a list covers, cell by cell.
LEMMA CoveredIff ==
  ASSUME NEW r \in Seq(Regions), NEW c
  PROVE  c \in Covered(r) <=> \E i \in 1 .. Len(r) : c \in Int /\ r[i].offset <= c /\ c < End(r[i])
<1>1. c \in Covered(r) <=> \E i \in 1 .. Len(r) : c \in Cells(r[i].offset, r[i].length)
  BY DEF Covered
<1>2. ASSUME NEW i \in 1 .. Len(r)
      PROVE  c \in Cells(r[i].offset, r[i].length) <=> c \in Int /\ r[i].offset <= c /\ c < End(r[i])
  BY RegionNat DEF Cells, End
<1> QED  BY <1>1, <1>2

(***************************************************************************)
(* The memmove: d elements of r, from index a on, are replaced by x.       *)
(***************************************************************************)

\* The list after the memmove.
Splice(r, a, d, x) == SubSeq(r, 1, a - 1) \o <<x>> \o SubSeq(r, a + d, Len(r))

\* Where the elements of the new list come from, and where those of the old list are.
LEMMA SpliceSpec ==
  ASSUME NEW r \in Seq(Regions), NEW a \in Nat, NEW d \in Nat, 1 <= a, a + d <= Len(r) + 1,
         NEW x \in Regions
  PROVE  /\ Splice(r, a, d, x) \in Seq(Regions)
         /\ \A i \in 1 .. Len(Splice(r, a, d, x)) :
              \/ i < a /\ i \in 1 .. Len(r) /\ Splice(r, a, d, x)[i] = r[i]
              \/ i = a /\ Splice(r, a, d, x)[i] = x
              \/ i > a /\ i + d - 1 \in 1 .. Len(r) /\ Splice(r, a, d, x)[i] = r[i + d - 1]
         /\ a \in 1 .. Len(Splice(r, a, d, x))
         /\ \A j \in 1 .. Len(r) :
              \/ j < a /\ j \in 1 .. Len(Splice(r, a, d, x))
              \/ a <= j /\ j < a + d
              \/ a + d <= j /\ j - d + 1 \in 1 .. Len(Splice(r, a, d, x)) /\ j - d + 1 > a
<1> DEFINE p == SubSeq(r, 1, a - 1)
           t == SubSeq(r, a + d, Len(r))
           px == p \o <<x>>
<1>1. Len(r) \in Nat
  OBVIOUS
<1>2. p \in Seq(Regions) /\ Len(p) = a - 1 /\ \A i \in 1 .. (a - 1) : p[i] = r[i]
  BY <1>1
<1>3. t \in Seq(Regions) /\ Len(t) = Len(r) - (a + d) + 1
      /\ \A i \in 1 .. (Len(r) - (a + d) + 1) : t[i] = r[a + d + i - 1]
  BY <1>1
<1>4. Splice(r, a, d, x) = px \o t
  BY DEF Splice
<1> HIDE DEF p, t
<1>5. px \in Seq(Regions) /\ Len(px) = a /\ px[a] = x /\ \A i \in 1 .. (a - 1) : px[i] = r[i]
  <2>1. <<x>> \in Seq(Regions) /\ Len(<<x>>) = 1 /\ <<x>>[1] = x  OBVIOUS
  <2>2. px \in Seq(Regions) /\ Len(px) = a  BY <1>2, <2>1
  <2>3. \A i \in 1 .. (a - 1) : px[i] = p[i]  BY <1>2, <2>1
  <2>4. px[a] = <<x>>[1]  BY <1>2, <2>1
  <2> QED  BY <1>2, <2>1, <2>2, <2>3, <2>4
<1> HIDE DEF px
<1> DEFINE q == px \o t
<1>6. q \in Seq(Regions) /\ Len(q) = a + (Len(r) - (a + d) + 1)
  <2>1. q \in Seq(Regions) /\ Len(q) = Len(px) + Len(t)
    <3>1. px \in Seq(Regions) /\ t \in Seq(Regions)  BY <1>3, <1>5
    <3> QED  BY <3>1
  <2> QED  BY <1>3, <1>5, <2>1
<1>7. \A i \in 1 .. a : q[i] = px[i]
  BY <1>1, <1>3, <1>5
<1>8. \A i \in (a + 1) .. (a + (Len(r) - (a + d) + 1)) : q[i] = t[i - a]
  BY <1>1, <1>3, <1>5
<1> HIDE DEF q
<1>9. ASSUME NEW i \in 1 .. Len(q)
      PROVE  \/ i < a /\ i \in 1 .. Len(r) /\ q[i] = r[i]
             \/ i = a /\ q[i] = x
             \/ i > a /\ i + d - 1 \in 1 .. Len(r) /\ q[i] = r[i + d - 1]
  <2>1. i \in Int /\ 1 <= i /\ i <= a + (Len(r) - (a + d) + 1)
    BY <1>1, <1>6
  <2>2. CASE i < a
    <3>1. i \in 1 .. (a - 1) /\ i \in 1 .. a /\ i \in 1 .. Len(r)
      BY <1>1, <2>1, <2>2
    <3> QED  BY <1>5, <1>7, <2>2, <3>1
  <2>3. CASE i = a
    BY <1>5, <1>7, <2>1, <2>3
  <2>4. CASE i > a
    <3>1. i \in (a + 1) .. (a + (Len(r) - (a + d) + 1)) /\ i - a \in 1 .. (Len(r) - (a + d) + 1)
      BY <1>1, <2>1, <2>4
    <3>2. q[i] = r[a + d + (i - a) - 1]
      BY <1>3, <1>8, <3>1
    <3>3. a + d + (i - a) - 1 = i + d - 1 /\ i + d - 1 \in 1 .. Len(r)
      BY <1>1, <2>1, <2>4
    <3> QED  BY <2>4, <3>2, <3>3
  <2> QED  BY <2>1, <2>2, <2>3, <2>4
<1>10. a \in 1 .. Len(q)
  BY <1>1, <1>6
<1>11. ASSUME NEW j \in 1 .. Len(r)
       PROVE  \/ j < a /\ j \in 1 .. Len(q)
              \/ a <= j /\ j < a + d
              \/ a + d <= j /\ j - d + 1 \in 1 .. Len(q) /\ j - d + 1 > a
  BY <1>1, <1>6
<1>12. Splice(r, a, d, x) = q
  BY <1>4 DEF q
<1> QED  BY <1>6, <1>9, <1>10, <1>11, <1>12

(***************************************************************************)
(* The merged region.  B and E are the beginnings and ends of the regions. *)
(***************************************************************************)

\* The state of stale_region_add after its two loops, for the new region from o to e.
MergeInput(n, B, E, o, e, left, right, first, last) ==
  /\ B \in [1 .. n -> Nat] /\ E \in [1 .. n -> Nat]
  /\ \A i \in 1 .. n : B[i] < E[i]
  /\ \A i, j \in 1 .. n : i < j => E[i] < B[j]
  /\ o < e /\ 1 <= left /\ left <= right /\ right <= n + 1
  /\ \A j \in 1 .. n : j < left => E[j] < o
  /\ left <= n => E[left] >= o
  /\ \A j \in 1 .. n : left <= j /\ j < right => B[j] <= e
  /\ right <= n => B[right] > e
  /\ left = right => first = o /\ last = e
  /\ left < right => /\ first = IF o < B[left] THEN o ELSE B[left]
                     /\ last = IF e > E[right - 1] THEN e ELSE E[right - 1]

\* Every region from left to right - 1 is inside the merged one, every other one is
\* outside with a gap, and what the merged one adds to the new region was covered.
MergeResult(n, B, E, o, e, left, right, first, last) ==
  /\ first \in Nat /\ last \in Nat /\ first <= o /\ e <= last
  /\ \A j \in 1 .. n : j < left => E[j] < first
  /\ \A j \in 1 .. n : left <= j /\ j < right => first <= B[j] /\ E[j] <= last
  /\ \A j \in 1 .. n : right <= j => last < B[j]
  /\ first < o => left \in 1 .. n /\ B[left] = first /\ o <= E[left]
  /\ e < last => right - 1 \in 1 .. n /\ E[right - 1] = last /\ B[right - 1] <= e

\* The bounds that stale_region_add computes give that result.
LEMMA MergeBounds ==
  ASSUME NEW n \in Nat, NEW o \in Nat, NEW e \in Nat, NEW left \in Nat, NEW right \in Nat,
         NEW B, NEW E, NEW first, NEW last,
         MergeInput(n, B, E, o, e, left, right, first, last)
  PROVE  MergeResult(n, B, E, o, e, left, right, first, last)
<1> USE DEF MergeInput, MergeResult
<1>1. CASE left = right
  <2>1. first = o /\ last = e
    BY <1>1
  <2>2. ASSUME NEW j \in 1 .. n, right <= j  PROVE e < B[j]
    <3>1. right \in 1 .. n  BY <2>2
    <3>2. right = j \/ E[right] < B[j]  BY <2>2, <3>1
    <3>3. B[right] < E[right] /\ e < B[right]  BY <3>1
    <3> QED  BY <3>1, <3>2, <3>3
  <2> QED  BY <1>1, <2>1, <2>2
<1>2. CASE left < right
  <2> DEFINE prev == right - 1
  <2>1. left \in 1 .. n /\ prev \in 1 .. n /\ right = prev + 1
    BY <1>2
  <2>2. first = (IF o < B[left] THEN o ELSE B[left]) /\ last = (IF e > E[prev] THEN e ELSE E[prev])
    BY <1>2
  <2> HIDE DEF prev
  <2>3. B[left] \in Nat /\ E[left] \in Nat /\ B[prev] \in Nat /\ E[prev] \in Nat
    BY <2>1
  <2>4. first \in Nat /\ last \in Nat /\ first <= o /\ first <= B[left] /\ e <= last /\ E[prev] <= last
    <3>1. first \in Nat /\ first <= o /\ first <= B[left]
      <4>1. CASE o < B[left]  BY <2>2, <2>3, <4>1
      <4>2. CASE ~ (o < B[left])  BY <2>2, <2>3, <4>2
      <4> QED  BY <4>1, <4>2
    <3>2. last \in Nat /\ e <= last /\ E[prev] <= last
      <4>1. CASE e > E[prev]  BY <2>2, <2>3, <4>1
      <4>2. CASE ~ (e > E[prev])  BY <2>2, <2>3, <4>2
      <4> QED  BY <4>1, <4>2
    <3> QED  BY <3>1, <3>2
  <2>5. ASSUME NEW j \in 1 .. n, j < left  PROVE E[j] < first
    <3>1. E[j] < o /\ E[j] < B[left]  BY <2>1, <2>5
    <3>2. CASE o < B[left]
      <4>1. first = o  BY <2>2, <3>2
      <4> QED  BY <3>1, <4>1
    <3>3. CASE ~ (o < B[left])
      <4>1. first = B[left]  BY <2>2, <3>3
      <4> QED  BY <3>1, <4>1
    <3> QED  BY <3>2, <3>3
  <2>6. ASSUME NEW j \in 1 .. n, left <= j, j < right  PROVE first <= B[j] /\ E[j] <= last
    <3>1. B[j] \in Nat /\ E[j] \in Nat /\ B[j] < E[j] /\ B[left] < E[left] /\ B[prev] < E[prev]
      BY <2>1
    <3>2. left = j \/ E[left] < B[j]  BY <2>1, <2>6
    <3>3. j = prev \/ E[j] < B[prev]  BY <2>1, <2>6
    <3>4. B[left] <= B[j]
      <4>1. CASE left = j  BY <2>3, <4>1
      <4>2. CASE E[left] < B[j]  BY <2>3, <3>1, <4>2
      <4> QED  BY <3>2, <4>1, <4>2
    <3>5. E[j] <= E[prev]
      <4>1. CASE j = prev  BY <2>3, <4>1
      <4>2. CASE E[j] < B[prev]  BY <2>3, <3>1, <4>2
      <4> QED  BY <3>3, <4>1, <4>2
    <3>6. first <= B[j]  BY <2>3, <2>4, <3>1, <3>4
    <3>7. E[j] <= last  BY <2>3, <2>4, <3>1, <3>5
    <3> QED  BY <3>6, <3>7
  <2>7. ASSUME NEW j \in 1 .. n, right <= j  PROVE last < B[j]
    <3>1. right \in 1 .. n  BY <2>7
    <3>2. right = j \/ E[right] < B[j]  BY <2>7, <3>1
    <3>3. B[right] < E[right] /\ e < B[right]  BY <3>1
    <3>4. E[prev] < B[j]  BY <2>1, <2>7
    <3>5. B[j] \in Nat /\ B[right] \in Nat /\ E[right] \in Nat  BY <3>1
    <3>6. e < B[j]  BY <3>2, <3>3, <3>5
    <3> QED  BY <2>2, <3>4, <3>6
  <2>8. first < o => B[left] = first /\ o <= E[left]
    BY <2>1, <2>2
  <2>9. e < last => E[prev] = last /\ B[prev] <= e
    BY <1>2, <2>1, <2>2
  <2> QED  BY <2>1, <2>4, <2>5, <2>6, <2>7, <2>8, <2>9 DEF prev
<1> QED  BY <1>1, <1>2

\* What stale_region_add makes of the list: a region from first to last in the place of
\* d old ones.
LEMMA StaleAddShape ==
  ASSUME NEW r \in Seq(Regions), Canonical(r), NEW o \in Nat, NEW l \in Nat \ {0}
  PROVE  \E a, d, first, last \in Nat :
           /\ 1 <= a /\ a + d <= Len(r) + 1
           /\ StaleAdd(r, o, l) = Splice(r, a, d, Region(first, last - first))
           /\ first <= o /\ o + l <= last
           /\ \A j \in 1 .. Len(r) : j < a => End(r[j]) < first
           /\ \A j \in 1 .. Len(r) : a <= j /\ j < a + d => first <= r[j].offset /\ End(r[j]) <= last
           /\ \A j \in 1 .. Len(r) : a + d <= j => last < r[j].offset
           /\ first < o => \E j \in 1 .. Len(r) : r[j].offset = first /\ o <= End(r[j])
           /\ o + l < last => \E j \in 1 .. Len(r) : End(r[j]) = last /\ r[j].offset <= o + l
<1> DEFINE n == Len(r)
           B == [i \in 1 .. n |-> r[i].offset]
           E == [i \in 1 .. n |-> End(r[i])]
           left == LeftOf(r, o)
           right == RightOf(r, left, o + l)
           first == IF left = right THEN o ELSE Lesser(o, r[left].offset)
           last == IF left = right THEN o + l ELSE Greater(o + l, End(r[right - 1]))
<1>1. StaleAdd(r, o, l) = SubSeq(r, 1, left - 1) \o <<Region(first, last - first)>> \o SubSeq(r, right, Len(r))
  BY DEF StaleAdd
<1>2. n \in Nat /\ o + l \in Nat
  OBVIOUS
<1>3. /\ left \in 1 .. (n + 1)
      /\ \A j \in 1 .. (left - 1) : End(r[j]) < o
      /\ left <= n => End(r[left]) >= o
  BY LeftOfSpec
<1> HIDE DEF left
<1>4. /\ right \in left .. (n + 1)
      /\ \A j \in left .. (right - 1) : r[j].offset <= o + l
      /\ right <= n => r[right].offset > o + l
  BY <1>2, <1>3, RightOfSpec
<1> HIDE DEF right
<1>5. left \in Nat /\ right \in Nat /\ 1 <= left /\ left <= right /\ right <= n + 1
  BY <1>2, <1>3, <1>4
<1>6. \A i \in 1 .. n : r[i].offset \in Nat /\ r[i].length \in Nat /\ End(r[i]) \in Nat
  BY RegionNat
<1>7. B \in [1 .. n -> Nat] /\ E \in [1 .. n -> Nat]
  BY <1>6
<1>8. \A i \in 1 .. n : B[i] < E[i]
  <2>1. \A i \in 1 .. n : r[i].length > 0
    BY DEF Canonical
  <2>2. \A i \in 1 .. n : r[i].offset < End(r[i])
    BY <1>6, <2>1 DEF End
  <2> QED  BY <2>2
<1>9. \A i, j \in 1 .. n : i < j => E[i] < B[j]
  <2>1. \A i, j \in 1 .. n : i < j => End(r[i]) < r[j].offset
    BY DEF Canonical
  <2> QED  BY <2>1
<1>10. \A j \in 1 .. n : j < left => E[j] < o
  <2>1. \A j \in 1 .. n : j < left => j \in 1 .. (left - 1)
    BY <1>2, <1>5
  <2> QED  BY <1>3, <2>1
<1>11. left <= n => E[left] >= o
  BY <1>2, <1>3, <1>5
<1>12. \A j \in 1 .. n : left <= j /\ j < right => B[j] <= o + l
  <2>1. \A j \in 1 .. n : left <= j /\ j < right => j \in left .. (right - 1)
    BY <1>2, <1>5
  <2> QED  BY <1>4, <2>1
<1>13. right <= n => B[right] > o + l
  BY <1>2, <1>4, <1>5
<1>14. left = right => first = o /\ last = o + l
  OBVIOUS
<1>15. left < right => left # right /\ left \in 1 .. n /\ right - 1 \in 1 .. n
  BY <1>2, <1>5
<1>16. left < right => /\ first = IF o < B[left] THEN o ELSE B[left]
                       /\ last = IF o + l > E[right - 1] THEN o + l ELSE E[right - 1]
  BY <1>15 DEF Lesser, Greater
<1>17. o < o + l
  OBVIOUS
<1> HIDE DEF first, last
<1> DEFINE d == right - left
<1>18. d \in Nat /\ right = left + d
  BY <1>5
<1>19. /\ first \in Nat /\ last \in Nat /\ first <= o /\ o + l <= last
       /\ \A j \in 1 .. n : j < left => E[j] < first
       /\ \A j \in 1 .. n : left <= j /\ j < right => first <= B[j] /\ E[j] <= last
       /\ \A j \in 1 .. n : right <= j => last < B[j]
       /\ first < o => left \in 1 .. n /\ B[left] = first /\ o <= E[left]
       /\ o + l < last => right - 1 \in 1 .. n /\ E[right - 1] = last /\ B[right - 1] <= o + l
  <2> HIDE DEF n, B, E, d
  <2>1. MergeInput(n, B, E, o, o + l, left, right, first, last)
    BY <1>5, <1>7, <1>8, <1>9, <1>10, <1>11, <1>12, <1>13, <1>14, <1>16, <1>17 DEF MergeInput
  <2>2. MergeResult(n, B, E, o, o + l, left, right, first, last)
    BY <1>2, <1>5, <2>1, MergeBounds
  <2> QED  BY <2>2 DEF MergeResult
<1>20. \A j \in 1 .. n : B[j] = r[j].offset /\ E[j] = End(r[j])
  OBVIOUS
<1> HIDE DEF B, E, d
<1>21. StaleAdd(r, o, l) = Splice(r, left, d, Region(first, last - first))
  BY <1>1, <1>18 DEF Splice
<1>22. first < o => \E j \in 1 .. n : r[j].offset = first /\ o <= End(r[j])
  BY <1>19, <1>20
<1>23. o + l < last => \E j \in 1 .. n : End(r[j]) = last /\ r[j].offset <= o + l
  BY <1>19, <1>20
<1>24. /\ \A j \in 1 .. n : j < left => End(r[j]) < first
       /\ \A j \in 1 .. n : left <= j /\ j < left + d => first <= r[j].offset /\ End(r[j]) <= last
       /\ \A j \in 1 .. n : left + d <= j => last < r[j].offset
  BY <1>18, <1>19, <1>20
<1>25. 1 <= left /\ left + d <= n + 1
  BY <1>5, <1>18
<1> HIDE DEF n
<1> QED
  <2> SUFFICES /\ 1 <= left /\ left + d <= Len(r) + 1
               /\ StaleAdd(r, o, l) = Splice(r, left, d, Region(first, last - first))
               /\ first <= o /\ o + l <= last
               /\ \A j \in 1 .. Len(r) : j < left => End(r[j]) < first
               /\ \A j \in 1 .. Len(r) : left <= j /\ j < left + d => first <= r[j].offset /\ End(r[j]) <= last
               /\ \A j \in 1 .. Len(r) : left + d <= j => last < r[j].offset
               /\ first < o => \E j \in 1 .. Len(r) : r[j].offset = first /\ o <= End(r[j])
               /\ o + l < last => \E j \in 1 .. Len(r) : End(r[j]) = last /\ r[j].offset <= o + l
    BY <1>5, <1>18, <1>19
  <2> QED  BY <1>19, <1>21, <1>22, <1>23, <1>24, <1>25 DEF n

(***************************************************************************)
(* The theorem.                                                            *)
(***************************************************************************)

\* stale_region_add keeps the list sorted with gaps between its regions, and the list
\* then covers what it covered before and the new region, no more and no less: for
\* every list, offset and length.  It is the step of StaleExact.
THEOREM StaleAddExact ==
  ASSUME NEW r \in Seq(Regions), Canonical(r), NEW o \in Nat, NEW l \in Nat
  PROVE  /\ StaleAdd(r, o, l) \in Seq(Regions)
         /\ Canonical(StaleAdd(r, o, l))
         /\ Covered(StaleAdd(r, o, l)) = Covered(r) \cup Cells(o, l)
<1>1. CASE l = 0
  <2>1. StaleAdd(r, o, l) = r
    BY <1>1 DEF StaleAdd
  <2>2. Cells(o, l) = {}
    BY <1>1 DEF Cells
  <2> QED  BY <2>1, <2>2
<1>2. CASE l # 0
  <2>1. l \in Nat \ {0}
    BY <1>2
  <2>2. PICK a \in Nat, d \in Nat, first \in Nat, last \in Nat :
           /\ 1 <= a /\ a + d <= Len(r) + 1
           /\ StaleAdd(r, o, l) = Splice(r, a, d, Region(first, last - first))
           /\ first <= o /\ o + l <= last
           /\ \A j \in 1 .. Len(r) : j < a => End(r[j]) < first
           /\ \A j \in 1 .. Len(r) : a <= j /\ j < a + d => first <= r[j].offset /\ End(r[j]) <= last
           /\ \A j \in 1 .. Len(r) : a + d <= j => last < r[j].offset
           /\ first < o => \E j \in 1 .. Len(r) : r[j].offset = first /\ o <= End(r[j])
           /\ o + l < last => \E j \in 1 .. Len(r) : End(r[j]) = last /\ r[j].offset <= o + l
    BY <2>1, StaleAddShape
  <2> DEFINE x == Region(first, last - first)
             q == Splice(r, a, d, x)
  <2>3. x \in Regions /\ x.offset = first /\ x.length > 0 /\ End(x) = last
    BY <2>1, <2>2 DEF Region, Regions, End
  <2> HIDE DEF x
  <2>4. q \in Seq(Regions) /\ a \in 1 .. Len(q)
    BY <2>2, <2>3, SpliceSpec
  <2>5. \A i \in 1 .. Len(q) :
          \/ i < a /\ i \in 1 .. Len(r) /\ q[i] = r[i]
          \/ i = a /\ q[i] = x
          \/ i > a /\ i + d - 1 \in 1 .. Len(r) /\ q[i] = r[i + d - 1]
    <3>1. 1 <= a /\ a + d <= Len(r) + 1 /\ x \in Regions
      BY <2>2, <2>3
    <3> QED  BY <3>1, SpliceSpec, ZenonT(60)
  <2>6. \A j \in 1 .. Len(r) :
          \/ j < a /\ j \in 1 .. Len(q)
          \/ a <= j /\ j < a + d
          \/ a + d <= j /\ j - d + 1 \in 1 .. Len(q) /\ j - d + 1 > a
    BY <2>2, <2>3, SpliceSpec
  <2>7. StaleAdd(r, o, l) = q
    BY <2>2 DEF x
  <2> HIDE DEF q
  <2>8. Len(r) \in Nat /\ Len(q) \in Nat /\ q[a] = x
    BY <2>4, <2>5
  <2>9. \A i \in 1 .. Len(r) : r[i].offset \in Nat /\ r[i].length \in Nat /\ End(r[i]) \in Nat
    BY RegionNat
  <2>10. Canonical(q)
    <3>1. \A i, j \in 1 .. Len(r) : i < j => End(r[i]) < r[j].offset
      BY DEF Canonical
    <3>2. \A i \in 1 .. Len(r) : r[i].length > 0
      BY DEF Canonical
    <3>3. ASSUME NEW i \in 1 .. Len(q)  PROVE q[i].length > 0
      BY <2>3, <2>5, <3>2
    <3>4. ASSUME NEW i \in 1 .. Len(q), NEW j \in 1 .. Len(q), i < j
          PROVE  End(q[i]) < q[j].offset
      <4>1. CASE j < a
        <5>1. i < a /\ q[i] = r[i] /\ q[j] = r[j] /\ i \in 1 .. Len(r) /\ j \in 1 .. Len(r)
          BY <2>5, <3>4, <4>1
        <5> QED  BY <3>1, <3>4, <5>1
      <4>2. CASE j = a
        <5>1. i < a /\ q[i] = r[i] /\ i \in 1 .. Len(r)
          BY <2>5, <3>4, <4>2
        <5> QED  BY <2>2, <2>3, <2>8, <4>2, <5>1
      <4>3. CASE j > a
        <5>1. j + d - 1 \in 1 .. Len(r) /\ q[j] = r[j + d - 1] /\ a + d <= j + d - 1
          BY <2>5, <4>3
        <5>2. CASE i < a
          <6>1. q[i] = r[i] /\ i \in 1 .. Len(r) /\ i < j + d - 1
            BY <2>5, <4>3, <5>2
          <6> QED  BY <3>1, <5>1, <6>1
        <5>3. CASE i = a
          BY <2>2, <2>3, <2>8, <5>1, <5>3
        <5>4. CASE i > a
          <6>1. q[i] = r[i + d - 1] /\ i + d - 1 \in 1 .. Len(r) /\ i + d - 1 < j + d - 1
            BY <2>5, <3>4, <5>4
          <6> QED  BY <3>1, <5>1, <6>1
        <5> QED  BY <5>2, <5>3, <5>4
      <4> QED  BY <4>1, <4>2, <4>3
    <3> QED  BY <3>3, <3>4 DEF Canonical
  <2>11. ASSUME NEW c \in Covered(q)  PROVE c \in Covered(r) \cup Cells(o, l)
    <3>1. PICK i \in 1 .. Len(q) : c \in Int /\ q[i].offset <= c /\ c < End(q[i])
      BY <2>4, CoveredIff
    <3>2. CASE i < a
      <4>1. q[i] = r[i] /\ i \in 1 .. Len(r)
        BY <2>5, <3>2
      <4> QED  BY <3>1, <4>1, CoveredIff
    <3>3. CASE i = a
      <4>1. c \in Int /\ first <= c /\ c < last
        BY <2>3, <2>8, <3>1, <3>3
      <4>2. CASE c < o
        <5>1. PICK j \in 1 .. Len(r) : r[j].offset = first /\ o <= End(r[j])
          BY <2>2, <4>1, <4>2
        <5>2. r[j].offset <= c /\ c < End(r[j])
          BY <2>9, <4>1, <4>2, <5>1
        <5> QED  BY <4>1, <5>2, CoveredIff
      <4>3. CASE o + l <= c
        <5>1. PICK j \in 1 .. Len(r) : End(r[j]) = last /\ r[j].offset <= o + l
          BY <2>2, <4>1, <4>3
        <5>2. r[j].offset <= c /\ c < End(r[j])
          BY <2>9, <4>1, <4>3, <5>1
        <5> QED  BY <4>1, <5>2, CoveredIff
      <4>4. CASE o <= c /\ c < o + l
        BY <4>1, <4>4 DEF Cells
      <4> QED  BY <4>1, <4>2, <4>3, <4>4
    <3>4. CASE i > a
      <4>1. q[i] = r[i + d - 1] /\ i + d - 1 \in 1 .. Len(r)
        BY <2>5, <3>4
      <4> QED  BY <3>1, <4>1, CoveredIff
    <3> QED  BY <3>2, <3>3, <3>4
  <2>12. ASSUME NEW c \in Covered(r)  PROVE c \in Covered(q)
    <3>1. PICK j \in 1 .. Len(r) : c \in Int /\ r[j].offset <= c /\ c < End(r[j])
      BY CoveredIff
    <3>2. CASE j < a
      <4>1. j \in 1 .. Len(q) /\ q[j] = r[j]
        BY <2>5, <2>6, <3>2
      <4> QED  BY <2>4, <3>1, <4>1, CoveredIff
    <3>3. CASE a <= j /\ j < a + d
      <4>1. first <= r[j].offset /\ End(r[j]) <= last
        BY <2>2, <3>3
      <4>2. q[a].offset <= c /\ c < End(q[a])
        BY <2>3, <2>8, <2>9, <3>1, <4>1
      <4> QED  BY <2>4, <3>1, <4>2, CoveredIff
    <3>4. CASE a + d <= j
      <4> DEFINE k == j - d + 1
      <4>1. k \in 1 .. Len(q) /\ k > a /\ k + d - 1 = j
        BY <2>6, <3>4
      <4> HIDE DEF k
      <4>2. q[k] = r[j]
        BY <2>5, <4>1
      <4> QED  BY <2>4, <3>1, <4>1, <4>2, CoveredIff
    <3> QED  BY <3>2, <3>3, <3>4
  <2>13. ASSUME NEW c \in Cells(o, l)  PROVE c \in Covered(q)
    <3>1. c \in Int /\ o <= c /\ c < o + l
      BY DEF Cells
    <3>2. q[a].offset <= c /\ c < End(q[a])
      BY <2>2, <2>3, <2>8, <3>1
    <3> QED  BY <2>4, <3>1, <3>2, CoveredIff
  <2>14. Covered(q) = Covered(r) \cup Cells(o, l)
    BY <2>11, <2>12, <2>13
  <2> QED  BY <2>4, <2>7, <2>10, <2>14
<1> QED  BY <1>1, <1>2

-----------------------------------------------------------------------------
(***************************************************************************)
(* stale_region_total counts the cells of the list.                        *)
(***************************************************************************)

\* The sum that stale_region_total computes, as a function of the number of regions.
RegionSum(r) == CHOOSE sum : sum = [i \in 0 .. Len(r) |-> IF i = 0 THEN 0 ELSE sum[i - 1] + r[i].length]

\* The sum exists: each prefix of the list has one.
LEMMA RegionSumSpec ==
  ASSUME NEW r \in Seq(Regions)
  PROVE  /\ StaleTotal(r) = RegionSum(r)[Len(r)]
         /\ RegionSum(r)[0] = 0
         /\ \A i \in 1 .. Len(r) : RegionSum(r)[i] = RegionSum(r)[i - 1] + r[i].length
<1> DEFINE Step(g, i) == IF i = 0 THEN 0 ELSE g[i - 1] + r[i].length
           Good(k, g) == g = [i \in 0 .. k |-> Step(g, i)]
           T == {k \in Nat : \E g : Good(k, g)}
<1>1. 0 \in T
  <2> DEFINE g == [i \in 0 .. 0 |-> 0]
  <2>1. Good(0, g)
    OBVIOUS
  <2> QED  BY <2>1
<1>2. ASSUME NEW k \in T PROVE k + 1 \in T
  <2>1. PICK g : Good(k, g)
    OBVIOUS
  <2> DEFINE h == [i \in 0 .. (k + 1) |-> IF i = k + 1 THEN g[k] + r[k + 1].length ELSE g[i]]
  <2>2. k \in Nat /\ \A i \in 0 .. k : g[i] = Step(g, i)
    BY <2>1
  <2>3. ASSUME NEW i \in 0 .. (k + 1) PROVE h[i] = Step(h, i)
    <3>1. CASE i = k + 1
      BY <3>1, <2>2
    <3>2. CASE i \in 0 .. k
      <4>1. h[i] = g[i] /\ g[i] = Step(g, i)
        BY <3>2, <2>2
      <4>2. i # 0 => h[i - 1] = g[i - 1]
        BY <3>2, <2>2
      <4> QED  BY <4>1, <4>2
    <3> QED  BY <3>1, <3>2, <2>2
  <2>4. Good(k + 1, h)
    BY <2>3
  <2>5. k + 1 \in Nat
    BY <2>2
  <2> HIDE DEF Good, h
  <2> QED  BY <2>4, <2>5
<1>3. Len(r) \in T
  <2> HIDE DEF T
  <2>1. T \in SUBSET Nat  BY DEF T
  <2> QED  BY <2>1, <1>1, <1>2, SetInduction
<1>4. Good(Len(r), RegionSum(r))
  <2>1. \E g : Good(Len(r), g)
    BY <1>3
  <2> QED  BY <2>1 DEF RegionSum
<1>5. StaleTotal(r) = RegionSum(r)[Len(r)]
  BY DEF StaleTotal, RegionSum
<1>6. Len(r) \in Nat
  OBVIOUS
<1>7. \A i \in 0 .. Len(r) : RegionSum(r)[i] = Step(RegionSum(r), i)
  BY <1>4
<1> HIDE DEF Good
<1> QED  BY <1>5, <1>6, <1>7

\* The total of a canonical list is the number of the cells it covers.
LEMMA TotalIsCovered ==
  ASSUME NEW r \in Seq(Regions), Canonical(r)
  PROVE  IsFiniteSet(Covered(r)) /\ StaleTotal(r) = Cardinality(Covered(r))
<1> DEFINE C(k) == UNION {Cells(r[i].offset, r[i].length) : i \in 1 .. k}
           T == {k \in Nat : k <= Len(r) => IsFiniteSet(C(k)) /\ RegionSum(r)[k] = Cardinality(C(k))}
<1>1. Len(r) \in Nat /\ \A i \in 1 .. Len(r) : r[i].offset \in Nat /\ r[i].length \in Nat \ {0}
  BY RegionNat DEF Canonical
<1>2. 0 \in T
  <2>1. C(0) = {}
    OBVIOUS
  <2> QED  BY <2>1, FS_EmptySet, RegionSumSpec
<1>3. ASSUME NEW k \in T PROVE k + 1 \in T
  <2> SUFFICES ASSUME k + 1 <= Len(r)
               PROVE  IsFiniteSet(C(k + 1)) /\ RegionSum(r)[k + 1] = Cardinality(C(k + 1))
    OBVIOUS
  <2> DEFINE new == Cells(r[k + 1].offset, r[k + 1].length)
  <2>1. k \in Nat /\ k + 1 \in 1 .. Len(r) /\ IsFiniteSet(C(k)) /\ RegionSum(r)[k] = Cardinality(C(k))
    BY <1>1
  <2>2. C(k + 1) = C(k) \cup new
    <3>1. 1 .. (k + 1) = (1 .. k) \cup {k + 1}
      BY <2>1
    <3> QED  BY <3>1
  <2>3. IsFiniteSet(new) /\ Cardinality(new) = r[k + 1].length
    <3> DEFINE o == r[k + 1].offset
               l == r[k + 1].length
    <3>1. o \in Int /\ o + l - 1 \in Int /\ l \in Nat \ {0} /\ new = o .. (o + l - 1)
      BY <1>1, <2>1 DEF Cells
    <3> HIDE DEF o, l, new
    <3>2. /\ IsFiniteSet(o .. (o + l - 1))
          /\ Cardinality(o .. (o + l - 1)) = IF o > o + l - 1 THEN 0 ELSE (o + l - 1) - o + 1
      BY <3>1, FS_Interval
    <3>3. Cardinality(new) = l /\ IsFiniteSet(new)
      BY <3>1, <3>2
    <3> QED  BY <3>3 DEF l
  <2>4. C(k) \cap new = {}
    <3> SUFFICES ASSUME NEW x \in C(k), x \in new PROVE FALSE
      OBVIOUS
    <3>1. PICK i \in 1 .. k : x \in Cells(r[i].offset, r[i].length)
      OBVIOUS
    <3>2. i \in 1 .. Len(r) /\ i < k + 1
      BY <2>1, <1>1
    <3>3. End(r[i]) < r[k + 1].offset
      BY <3>2, <2>1 DEF Canonical
    <3> QED  BY <3>1, <3>2, <3>3, <1>1, <2>1 DEF Cells, End
  <2>5. IsFiniteSet(C(k + 1)) /\ Cardinality(C(k + 1)) = Cardinality(C(k)) + r[k + 1].length
    <3> HIDE DEF C, new
    <3>1. Cardinality(C(k)) \in Nat /\ Cardinality(new) \in Nat
      BY <2>1, <2>3, FS_CardinalityType
    <3>2. IsFiniteSet(C(k) \cup new)
          /\ Cardinality(C(k) \cup new) = Cardinality(C(k)) + Cardinality(new) - Cardinality(C(k) \cap new)
      BY <2>1, <2>3, FS_Union
    <3>3. Cardinality(C(k) \cap new) = 0
      BY <2>4, FS_EmptySet
    <3>4. Cardinality(C(k) \cup new) = Cardinality(C(k)) + Cardinality(new)
      BY <3>1, <3>2, <3>3
    <3> QED  BY <3>2, <3>4, <2>2, <2>3
  <2>6. RegionSum(r)[k + 1] = RegionSum(r)[k] + r[k + 1].length
    <3>1. (k + 1) - 1 = k
      BY <2>1
    <3> QED  BY <3>1, <2>1, RegionSumSpec
  <2> HIDE DEF C
  <2> QED  BY <2>1, <2>5, <2>6
<1>4. Len(r) \in T
  <2> HIDE DEF T
  <2>1. T \in SUBSET Nat  BY DEF T
  <2> QED  BY <2>1, <1>1, <1>2, <1>3, SetInduction
<1>5. C(Len(r)) = Covered(r)
  BY DEF Covered
<1> HIDE DEF C
<1> QED  BY <1>1, <1>4, <1>5, RegionSumSpec

-----------------------------------------------------------------------------
(***************************************************************************)
(* Opening a file: the superblock that is chosen, and the trie behind it.  *)
(***************************************************************************)

\* One node of Loaded, given what was found for its parent.
LoadNode(f, sb, n, up) ==
  LET o == IF n = Root THEN sb.root ELSE IF up.kind = "bad" THEN 0 ELSE up.kids[n]
  IN IF n # Root /\ up.kind = "bad" THEN Bad
     ELSE IF o = 0
     THEN [kind |-> "content", node |-> n, ver |-> 0, size |-> EmptyNode(n).size,
           kids |-> EmptyNode(n).kids, offset |-> None]
     ELSE LET c == ReadNode(f, o) IN
          IF c.kind = "bad" \/ c.node # n THEN Bad
          ELSE [kind |-> "content", node |-> n, ver |-> c.ver, size |-> c.size,
                kids |-> c.kids, offset |-> o]

\* Loaded is defined top down, and every node hangs below the root: what the
\* definition says of a node is so.
LEMMA LoadedSpec ==
  ASSUME NEW f, NEW sb
  PROVE  \A n \in Nodes : Loaded(f, sb)[n] =
           LoadNode(f, sb, n, IF n = Root THEN Bad ELSE Loaded(f, sb)[Parent[n]])
<1> DEFINE G(n, g) == LoadNode(f, sb, n, IF n = Root THEN Bad ELSE g[Parent[n]])
           Shallow(k) == {n \in Nodes : Depth[n] <= k}
           Good(k, g) == g = [n \in Shallow(k) |-> G(n, g)]
           T == {k \in Nat : \E g : Good(k, g)}
<1>1. /\ Root \in Nodes /\ Depth[Root] = 0
      /\ \A n \in Nodes : Parent[n] \in Nodes /\ Depth[n] \in Nat
      /\ \A n \in Nodes : n # Root => Depth[n] = Depth[Parent[n]] + 1
  BY PageFileAssumption
<1>2. ASSUME NEW k \in Nat, NEW n \in Shallow(k), n # Root
      PROVE  Parent[n] \in Shallow(k)
  BY <1>1, <1>2
<1>3. 0 \in T
  <2> DEFINE g == [n \in Shallow(0) |-> LoadNode(f, sb, n, Bad)]
  <2>1. ASSUME NEW n \in Shallow(0) PROVE n = Root
    BY <1>1
  <2>2. ASSUME NEW n \in Shallow(0) PROVE g[n] = G(n, g)
    BY <2>1
  <2>3. Good(0, g)
    BY <2>2
  <2> HIDE DEF Good, g
  <2> QED  BY <2>3
<1>4. ASSUME NEW k \in T PROVE k + 1 \in T
  <2>1. PICK g : Good(k, g)
    OBVIOUS
  <2> DEFINE h == [n \in Shallow(k + 1) |-> IF n \in Shallow(k) THEN g[n] ELSE G(n, g)]
  <2>2. k \in Nat /\ \A n \in Shallow(k) : g[n] = G(n, g)
    BY <2>1
  <2>3. ASSUME NEW n \in Shallow(k + 1), n # Root PROVE Parent[n] \in Shallow(k)
    BY <1>1, <2>2, <2>3
  <2>4. \A n \in Shallow(k) : n \in Shallow(k + 1)
    BY <1>1, <2>2
  <2>5. ASSUME NEW n \in Shallow(k) PROVE h[n] = g[n]
    BY <2>4
  <2>6. ASSUME NEW n \in Shallow(k + 1) PROVE G(n, h) = G(n, g)
    <3> HIDE DEF h, Shallow
    <3> QED  BY <2>3, <2>5
  <2>7. ASSUME NEW n \in Shallow(k + 1) PROVE h[n] = G(n, g)
    <3> HIDE DEF G, Shallow
    <3> QED  BY <2>2
  <2>8. Good(k + 1, h)
    <3>1. ASSUME NEW n \in Shallow(k + 1) PROVE h[n] = G(n, h)
      <4> HIDE DEF G, h
      <4> QED  BY <2>6, <2>7
    <3> HIDE DEF G, Shallow
    <3> QED  BY <3>1
  <2>9. k + 1 \in Nat
    BY <2>2
  <2> HIDE DEF Good, h
  <2> QED  BY <2>8, <2>9
<1>5. ASSUME NEW k \in Nat PROVE \E g : Good(k, g)
  <2> HIDE DEF Good
  <2>1. k \in T
    <3> HIDE DEF T
    <3>1. T \in SUBSET Nat  BY DEF T
    <3> QED  BY <3>1, <1>3, <1>4, SetInduction
  <2> QED  BY <2>1
<1> DEFINE Part(k) == CHOOSE g : Good(k, g)
<1>6. ASSUME NEW k \in Nat, NEW n \in Shallow(k) PROVE Part(k)[n] = G(n, Part(k))
  <2>1. Good(k, Part(k))
    <3> HIDE DEF Good
    <3> QED  BY <1>5
  <2> HIDE DEF Part, G, Shallow
  <2> QED  BY <2>1
\* Two of these functions agree where both are defined.
<1>7. ASSUME NEW n \in Nodes, NEW k \in Nat, Depth[n] <= k
      PROVE  Part(k)[n] = Part(Depth[n])[n]
  <2> DEFINE U == {d \in Nat : \A m \in Nodes : \A i, j \in Nat :
                     Depth[m] = d /\ d <= i /\ d <= j => Part(i)[m] = Part(j)[m]}
  <2> HIDE DEF Part, G
  <2>1. 0 \in U
    <3> SUFFICES ASSUME NEW m \in Nodes, NEW i \in Nat, NEW j \in Nat, Depth[m] = 0
                 PROVE  Part(i)[m] = Part(j)[m]
      OBVIOUS
    <3>1. m = Root
      BY <1>1
    <3>2. Part(i)[m] = G(m, Part(i)) /\ Part(j)[m] = G(m, Part(j))
      BY <1>6
    <3> QED  BY <3>1, <3>2 DEF G
  <2>2. ASSUME NEW d \in U PROVE d + 1 \in U
    <3> SUFFICES ASSUME NEW m \in Nodes, NEW i \in Nat, NEW j \in Nat,
                        Depth[m] = d + 1, d + 1 <= i, d + 1 <= j
                 PROVE  Part(i)[m] = Part(j)[m]
      OBVIOUS
    <3>1. m # Root /\ d \in Nat /\ Parent[m] \in Nodes /\ Depth[Parent[m]] = d /\ d <= i /\ d <= j
      BY <1>1
    <3>2. Part(i)[m] = G(m, Part(i)) /\ Part(j)[m] = G(m, Part(j))
      BY <1>6
    <3>3. Part(i)[Parent[m]] = Part(j)[Parent[m]]
      BY <3>1
    <3> QED  BY <3>1, <3>2, <3>3 DEF G
  <2>3. Depth[n] \in U
    <3> HIDE DEF U
    <3>1. U \in SUBSET Nat  BY DEF U
    <3> QED  BY <1>1, <2>1, <2>2, <3>1, SetInduction
  <2> QED  BY <1>1, <1>7, <2>3
<1> DEFINE L == [n \in Nodes |-> Part(Depth[n])[n]]
<1>8. ASSUME NEW n \in Nodes PROVE L[n] = G(n, L)
  <2> HIDE DEF Part, G
  <2>1. L[n] = G(n, Part(Depth[n]))
    BY <1>1, <1>6
  <2>2. CASE n = Root
    BY <2>1, <2>2 DEF G
  <2>3. CASE n # Root
    <3>1. L[Parent[n]] = Part(Depth[n])[Parent[n]]
      BY <1>1, <1>7, <2>3
    <3> QED  BY <2>1, <2>3, <3>1 DEF G
  <2> QED  BY <2>2, <2>3
<1>9. \E g : g = [n \in Nodes |-> G(n, g)]
  <2>1. L = [n \in Nodes |-> G(n, L)]
    <3> HIDE DEF Part, G
    <3> QED  BY <1>8
  <2> HIDE DEF L, G
  <2> QED  BY <2>1
<1>10. Loaded(f, sb) = CHOOSE g : g = [n \in Nodes |-> G(n, g)]
  BY Zenon DEF Loaded, LoadNode
<1>11. Loaded(f, sb) = [n \in Nodes |-> G(n, Loaded(f, sb))]
  <2> HIDE DEF G
  <2> QED  BY <1>9, <1>10
<1>12. ASSUME NEW n \in Nodes PROVE Loaded(f, sb)[n] = G(n, Loaded(f, sb))
  <2> DEFINE ld == Loaded(f, sb)
  <2> HIDE DEF G, ld
  <2>1. ld = [x \in Nodes |-> G(x, ld)]
    BY <1>11 DEF ld
  <2>2. ld[n] = G(n, ld)
    BY <2>1
  <2> QED  BY <2>2 DEF ld
<1> QED  BY <1>12

\* Among finitely many slots, some of them valid, there is one that
\* page_file_read_superblock prefers to all other valid ones.
LEMMA WinnerExists ==
  ASSUME NEW m \in Nat, NEW S \in SUBSET (0 .. m), S # {}, NEW rev, \A s \in S : rev[s] \in Nat
  PROVE  \E s \in S : \A t \in S : rev[s] > rev[t] \/ (rev[s] = rev[t] /\ s <= t)
<1> DEFINE Wins(A, s) == \A t \in A : rev[s] > rev[t] \/ (rev[s] = rev[t] /\ s <= t)
           T == {k \in Nat : \A A \in SUBSET S : A # {} /\ (\A s \in A : s <= k) => \E s \in A : Wins(A, s)}
<1>1. 0 \in T
  <2> SUFFICES ASSUME NEW A \in SUBSET S, A # {}, \A s \in A : s <= 0 PROVE \E s \in A : Wins(A, s)
    OBVIOUS
  <2>1. \A s \in A : s = 0 /\ rev[s] \in Nat
    OBVIOUS
  <2>2. PICK s \in A : TRUE
    OBVIOUS
  <2>3. Wins(A, s)
    BY <2>1
  <2> QED  BY <2>3
<1>2. ASSUME NEW k \in T PROVE k + 1 \in T
  <2> SUFFICES ASSUME NEW A \in SUBSET S, A # {}, \A s \in A : s <= k + 1 PROVE \E s \in A : Wins(A, s)
    BY <1>2
  <2> DEFINE B == A \ {k + 1}
  <2>1. k \in Nat /\ B \in SUBSET S /\ \A s \in B : s <= k /\ s \in Nat
    OBVIOUS
  <2>2. CASE B = {}
    <3>1. \A s \in A : s = k + 1 /\ rev[s] \in Nat
      BY <2>2
    <3> QED  BY <3>1, <2>1
  <2>3. CASE B # {}
    <3>1. PICK s \in B : Wins(B, s)
      BY <2>1, <2>3
    <3>2. CASE k + 1 \notin A
      <4>1. A = B
        BY <3>2
      <4> QED  BY <3>1, <4>1
    <3>3. CASE k + 1 \in A
      <4>1. s <= k + 1 /\ rev[s] \in Nat /\ rev[k + 1] \in Nat /\ \A t \in B : rev[t] \in Nat
        BY <2>1, <3>1, <3>3
      <4>2. CASE rev[k + 1] > rev[s]
        <5>1. \A t \in B : rev[k + 1] > rev[t]
          BY <3>1, <4>1, <4>2
        <5>2. Wins(A, k + 1)
          BY <5>1, <2>1
        <5> QED  BY <5>2, <3>3
      <4>3. CASE ~(rev[k + 1] > rev[s])
        <5>1. Wins(A, s)
          BY <3>1, <4>1, <4>3
        <5> QED  BY <5>1, <3>1
      <4> QED  BY <4>2, <4>3
    <3> QED  BY <3>2, <3>3
  <2> QED  BY <2>2, <2>3
<1>3. m \in T
  <2> HIDE DEF T
  <2>1. T \in SUBSET Nat  BY DEF T
  <2> QED  BY <2>1, <1>1, <1>2, SetInduction
<1>4. \E s \in S : Wins(S, s)
  <2> HIDE DEF Wins
  <2> QED  BY <1>3
<1> QED  BY <1>4

-----------------------------------------------------------------------------
(***************************************************************************)
(* Types.  In the file and in memory a child's offset is 0 as long as the  *)
(* child has not been written.                                             *)
(***************************************************************************)

\* What is in a file and in a page_file_t.
Contents == UNION {[kind : {"content"}, node : {n}, ver : Nat, size : Nat \ {0},
                    kids : [Children(n) -> Nat]] : n \in Nodes}
FileCells == [kind : {"node"}, content : Contents, part : Nat] \cup [kind : {"meta"}, next_bid : Int]
             \cup [kind : {"blob"}, regions : Seq(Regions)] \cup {Hole}
Sbs == [kind : {"sb"}, root : Nat, revision : Nat, stale : Seq(Regions), blob : Nat, marked : SUBSET Nat,
        lost : BOOLEAN]
Slots == 0 .. (NumSuperblocks - 1)
Files == [data : Seq(FileCells), sb : [Slots -> Sbs \cup {Torn}]]
PageFiles == [cur_bid : Nat, cur_offset : 0 .. BlockSize, revision : Nat]

\* A node in memory.
NodeOK(n, x) ==
  /\ x = [ver |-> x.ver, size |-> x.size, disk_offset |-> x.disk_offset, bn_dirty |-> x.bn_dirty,
          hb_dirty |-> x.hb_dirty, kids |-> x.kids]
  /\ x.ver \in Nat /\ x.size \in Nat \ {0} /\ x.disk_offset \in Nat \cup {None}
  /\ x.kids \in [Children(n) -> Nat]
TreeOK(t) == t = [n \in Nodes |-> t[n]] /\ \A n \in Nodes : NodeOK(n, t[n])

\* The locals of page_file_write_node.
Writing == pc \in {"chunk", "meta", "written"}
WriteOK ==
  Writing =>
    /\ w = [node |-> w.node, written |-> w.written, bids |-> w.bids, offset |-> w.offset,
            content |-> w.content]
    /\ w.node \in Nodes /\ w.content \in Contents /\ w.content.node = w.node
    /\ w.written \in Nat /\ w.bids \in Nat /\ w.offset \in Nat
    /\ pc = "chunk" => w.written < Length(w.content)

\* The types of the variables that the argument is about.
Types ==
  /\ disk \in [{"live", "tmp"} -> Files]
  /\ pf \in [{"live", "tmp"} -> PageFiles]
  /\ TreeOK(tree)
  /\ pc \in {"idle", "collect", "serialize", "chunk", "meta", "written", "clear", "superblock", "close",
             "walk", "tmp_superblock", "swap"}
  /\ list \in Seq(Nodes) /\ at \in Nat
  /\ Writing \/ pc = "serialize" => at \in 1 .. Len(list)
  /\ WriteOK

\* The constants are numbers, and the superblocks come first in the file.
LEMMA Constants ==
  /\ BlockSize \in Nat /\ BlockSize > 2 /\ Prefix \in Nat \ {0} /\ NumSuperblocks \in Nat \ {0}
  /\ Base \in Nat \ {0} /\ Base >= BlockSize
<1>1. BlockSize \in Nat /\ BlockSize > 2 /\ Prefix \in Nat \ {0} /\ NumSuperblocks \in Nat \ {0}
  BY PageFileAssumption
<1>2. \A a, b \in Nat \ {0} : a * b \in Nat /\ a * b >= b
  OBVIOUS
<1>3. Base \in Nat /\ Base >= BlockSize
  BY <1>1, <1>2 DEF Base
<1> QED  BY <1>1, <1>3

\* A pwrite leaves a file of cells.
LEMMA PWriteType ==
  ASSUME NEW data \in Seq(FileCells), NEW cs \in Seq(FileCells), NEW o \in Int
  PROVE  /\ PWrite(data, o, cs) \in Seq(FileCells)
         /\ Len(PWrite(data, o, cs)) = Greater(Len(data), o - Base + Len(cs))
         /\ \A i \in 1 .. Len(PWrite(data, o, cs)) : PWrite(data, o, cs)[i] =
              IF i > o - Base /\ i <= o - Base + Len(cs) THEN cs[i - (o - Base)]
              ELSE IF i <= Len(data) THEN data[i] ELSE Hole
<1> DEFINE k == o - Base
           n == Greater(Len(data), k + Len(cs))
           E(i) == IF i > k /\ i <= k + Len(cs) THEN cs[i - k] ELSE IF i <= Len(data) THEN data[i] ELSE Hole
<1>1. k \in Int /\ Len(cs) \in Nat /\ Len(data) \in Nat
  BY Constants
<1>2. n \in Nat
  BY <1>1 DEF Greater
<1>3. Hole \in FileCells
  BY DEF FileCells
<1>4. ASSUME NEW i \in 1 .. n PROVE E(i) \in FileCells
  <2>1. CASE i > k /\ i <= k + Len(cs)
    <3>1. i - k \in 1 .. Len(cs)
      BY <2>1, <1>1, <1>2
    <3> QED  BY <3>1, <2>1
  <2>2. CASE ~(i > k /\ i <= k + Len(cs))
    BY <2>2, <1>1, <1>2, <1>3
  <2> QED  BY <2>1, <2>2
<1>5. PWrite(data, o, cs) = [i \in 1 .. n |-> E(i)]
  BY DEF PWrite
<1> HIDE DEF E, n, k
<1>6. /\ [i \in 1 .. n |-> E(i)] \in Seq(FileCells) /\ Len([i \in 1 .. n |-> E(i)]) = n
      /\ \A j \in 1 .. n : [i \in 1 .. n |-> E(i)][j] = E(j)
  BY <1>2, <1>4
<1>7. Len(PWrite(data, o, cs)) = n /\ PWrite(data, o, cs) \in Seq(FileCells)
  BY <1>5, <1>6
<1>8. \A j \in 1 .. n : PWrite(data, o, cs)[j] = E(j)
  BY <1>5, <1>6
<1> QED  BY <1>7, <1>8 DEF E, n, k

\* The stale-region block at the end of a file changes nothing in its superblocks.
LEMMA WithBlobType ==
  ASSUME NEW f \in Files, stale \in Seq(Regions)
  PROVE  /\ WithBlob(f) \in Files /\ WithBlob(f).sb = f.sb
         /\ BlobOffset(f) \in Nat
<1> DEFINE o == ((FileSize(f) + BlockSize - 1) \div BlockSize) * BlockSize
           blob == [kind |-> "blob", regions |-> stale]
<1>1. f.data \in Seq(FileCells) /\ f.sb \in [Slots -> Sbs \cup {Torn}] /\ f = [data |-> f.data, sb |-> f.sb]
  BY DEF Files
<1>2. o \in Nat
  <2>1. FileSize(f) + BlockSize - 1 \in Nat
    BY Constants, <1>1 DEF FileSize
  <2>2. \A a \in Nat : \A b \in Nat \ {0} : a \div b \in Nat
    OBVIOUS
  <2>3. \A a, b \in Nat : a * b \in Nat
    OBVIOUS
  <2> QED  BY <2>1, <2>2, <2>3, Constants
<1>3. BlobOffset(f) \in Nat
  BY <1>2 DEF BlobOffset
<1>4. <<Hole>> \in Seq(FileCells) /\ <<blob>> \in Seq(FileCells)
  BY DEF FileCells
<1>5. o + BlockSize - 1 \in Int /\ o \in Int
  BY <1>2, Constants
<1>6. PWrite(PWrite(f.data, o + BlockSize - 1, <<Hole>>), o, <<blob>>) \in Seq(FileCells)
  <2> HIDE DEF o, blob
  <2> QED  BY <1>1, <1>4, <1>5, PWriteType
<1>7. CASE Len(stale) <= InlineRegions
  BY <1>7, <1>3 DEF WithBlob
<1>8. CASE ~(Len(stale) <= InlineRegions)
  <2> DEFINE d == PWrite(PWrite(f.data, o + BlockSize - 1, <<Hole>>), o, <<blob>>)
  <2>1. WithBlob(f) = [f EXCEPT !.data = d]
    BY <1>8 DEF WithBlob
  <2> HIDE DEF d
  <2>2. [f EXCEPT !.data = d] = [data |-> d, sb |-> f.sb]
    BY <1>1
  <2>3. d \in Seq(FileCells)
    BY <1>6 DEF d
  <2> QED  BY <2>1, <2>2, <2>3, <1>1, <1>3 DEF Files
<1> QED  BY <1>7, <1>8

\* page_file_read_superblock finds a valid superblock, with the greatest revision.
LEMMA BestSbSpec ==
  ASSUME NEW f \in Files, ValidSlots(f) # {}
  PROVE  /\ WinningSlot(f) \in ValidSlots(f) /\ WinningSlot(f) \in Slots
         /\ BestSb(f) = f.sb[WinningSlot(f)] /\ BestSb(f) \in Sbs
         /\ \A t \in ValidSlots(f) : \/ BestSb(f).revision > f.sb[t].revision
                                     \/ BestSb(f).revision = f.sb[t].revision /\ WinningSlot(f) <= t
<1> DEFINE rev == [s \in ValidSlots(f) |-> f.sb[s].revision]
           S == ValidSlots(f)
<1>1. f.sb \in [Slots -> Sbs \cup {Torn}]
  BY DEF Files
<1>2. NumSuperblocks - 1 \in Nat /\ S \in SUBSET (0 .. (NumSuperblocks - 1))
  BY <1>1, Constants DEF ValidSlots, Slots
<1>3. \A s \in S : f.sb[s] \in Sbs
  BY <1>1 DEF ValidSlots, Torn
<1>4. \A s \in S : rev[s] \in Nat /\ rev[s] = f.sb[s].revision
  BY <1>3 DEF Sbs
<1>5. \E s \in S : \A t \in S : rev[s] > rev[t] \/ (rev[s] = rev[t] /\ s <= t)
  <2> HIDE DEF rev, S
  <2>1. S # {}
    BY DEF S
  <2>2. \A s \in S : rev[s] \in Nat
    BY <1>4
  <2> QED  BY <1>2, <2>1, <2>2, WinnerExists
<1>6. \E s \in S : \A t \in S : \/ f.sb[s].revision > f.sb[t].revision
                                \/ f.sb[s].revision = f.sb[t].revision /\ s <= t
  <2> HIDE DEF rev, S
  <2> QED  BY <1>4, <1>5
<1>7. /\ WinningSlot(f) \in S
      /\ \A t \in S : \/ f.sb[WinningSlot(f)].revision > f.sb[t].revision
                      \/ f.sb[WinningSlot(f)].revision = f.sb[t].revision /\ WinningSlot(f) <= t
  BY <1>6 DEF WinningSlot
<1> QED  BY <1>2, <1>3, <1>7 DEF BestSb, Slots

\* Whatever is read of a file as a node is the content of a node.
LEMMA ReadNodeType ==
  ASSUME NEW f \in Files, NEW o, ReadNode(f, o).kind # "bad"
  PROVE  ReadNode(f, o) \in Contents
<1>1. CellAt(f, o) \in FileCells
  <2>1. f.data \in Seq(FileCells)
    BY DEF Files
  <2>2. \A i \in 1 .. Len(f.data) : f.data[i] \in FileCells
    BY <2>1
  <2>3. Hole \in FileCells
    BY DEF FileCells
  <2> QED  BY <2>2, <2>3 DEF CellAt
<1>2. Bad.kind = "bad"
  BY DEF Bad
<1>3. CellAt(f, o).kind = "node" /\ ReadNode(f, o) = CellAt(f, o).content
  BY <1>2 DEF ReadNode
<1>4. \A x \in FileCells : x.kind = "node" => x.content \in Contents
  BY DEF FileCells, Hole
<1> QED  BY <1>1, <1>3, <1>4

\* The fields of a stored content.
LEMMA ContentFields ==
  ASSUME NEW c \in Contents
  PROVE  /\ c.kind = "content" /\ c.node \in Nodes /\ c.ver \in Nat /\ c.size \in Nat \ {0}
         /\ c.kids \in [Children(c.node) -> Nat]
         /\ c = [kind |-> "content", node |-> c.node, ver |-> c.ver, size |-> c.size, kids |-> c.kids]
         /\ Length(c) \in Nat /\ Length(c) >= 2
<1>1. PICK n \in Nodes : c \in [kind : {"content"}, node : {n}, ver : Nat, size : Nat \ {0},
                                kids : [Children(n) -> Nat]]
  BY DEF Contents
<1>2. c.kind = "content" /\ c.node = n /\ c.ver \in Nat /\ c.size \in Nat \ {0} /\ c.kids \in [Children(n) -> Nat]
  BY <1>1
<1>3. c = [kind |-> "content", node |-> c.node, ver |-> c.ver, size |-> c.size, kids |-> c.kids]
  BY <1>1
<1> QED  BY <1>2, <1>3, Constants DEF Length

\* An empty node is a node.
LEMMA EmptyNodeOK ==
  ASSUME NEW n \in Nodes
  PROVE  NodeOK(n, EmptyNode(n))
<1>1. (CHOOSE z \in Sizes : TRUE) \in Nat \ {0}
  BY PageFileAssumption
<1> QED  BY <1>1 DEF NodeOK, EmptyNode

\* What is loaded for a node is bad, or has the fields of a node, with the offset at
\* which it was read.
LEMMA LoadedType ==
  ASSUME NEW f \in Files, NEW sb \in Sbs, NEW n \in Nodes
  PROVE  LET x == Loaded(f, sb)[n] IN
         x = Bad \/ /\ x.kind = "content" /\ x.node = n /\ x.ver \in Nat /\ x.size \in Nat \ {0}
                    /\ x.kids \in [Children(n) -> Nat] /\ x.offset \in Nat \cup {None}
<1> DEFINE L == Loaded(f, sb)
           Up(m) == IF m = Root THEN Bad ELSE L[Parent[m]]
           Fields(m, x) == /\ x.kind = "content" /\ x.node = m /\ x.ver \in Nat /\ x.size \in Nat \ {0}
                           /\ x.kids \in [Children(m) -> Nat]
<1>1. ASSUME NEW m \in Nodes, L[m] # Bad
      PROVE  /\ Fields(m, L[m])
             /\ \/ L[m].offset = None
                \/ L[m].offset = IF m = Root THEN sb.root ELSE Up(m).kids[m]
             /\ m # Root => Up(m).kind # "bad"
  <2> DEFINE o == IF m = Root THEN sb.root ELSE IF Up(m).kind = "bad" THEN 0 ELSE Up(m).kids[m]
             c == ReadNode(f, o)
  <2>1. L[m] = LoadNode(f, sb, m, Up(m))
    BY LoadedSpec
  <2>2. ~(m # Root /\ Up(m).kind = "bad")
    <3> HIDE DEF Up, L
    <3> QED  BY <1>1, <2>1 DEF LoadNode
  <2>3. CASE o = 0
    <3>1. L[m] = [kind |-> "content", node |-> m, ver |-> 0, size |-> EmptyNode(m).size,
                  kids |-> EmptyNode(m).kids, offset |-> None]
      <4> HIDE DEF Up, L
      <4> QED  BY <2>1, <2>2, <2>3 DEF LoadNode
    <3>2. EmptyNode(m).size \in Nat \ {0} /\ EmptyNode(m).kids \in [Children(m) -> Nat]
      BY EmptyNodeOK DEF NodeOK
    <3> HIDE DEF Up, L
    <3> QED  BY <3>1, <3>2, <2>2
  <2>4. CASE o # 0
    <3>1. ~(c.kind = "bad" \/ c.node # m)
          /\ L[m] = [kind |-> "content", node |-> m, ver |-> c.ver, size |-> c.size,
                     kids |-> c.kids, offset |-> o]
      <4> HIDE DEF Up, L
      <4> QED  BY <1>1, <2>1, <2>2, <2>4 DEF LoadNode
    <3>2. c \in Contents
      BY <3>1, ReadNodeType
    <3>3. c.ver \in Nat /\ c.size \in Nat \ {0} /\ c.kids \in [Children(m) -> Nat]
      <4> HIDE DEF c
      <4> QED  BY <3>1, <3>2, ContentFields
    <3>4. Fields(m, L[m]) /\ L[m].offset = o
      <4> HIDE DEF Up, L, c, o
      <4> QED  BY <3>1, <3>3
    <3> HIDE DEF L, Fields
    <3> QED  BY <3>4, <2>2
  <2> HIDE DEF o
  <2> QED  BY <2>3, <2>4
<1>2. SUFFICES ASSUME L[n] # Bad PROVE Fields(n, L[n]) /\ L[n].offset \in Nat \cup {None}
  OBVIOUS
<1>3. sb.root \in Nat
  BY DEF Sbs
<1>4. CASE n = Root
  <2> HIDE DEF Fields, L
  <2> QED  BY <1>1, <1>2, <1>3, <1>4
<1>5. CASE n # Root
  <2>1. Parent[n] \in Nodes /\ n \in Children(Parent[n])
    BY <1>5, PageFileAssumption DEF Children
  <2>2. L[Parent[n]].kind # "bad" /\ L[Parent[n]] # Bad
    <3> HIDE DEF L
    <3>1. L[Parent[n]].kind # "bad"
      BY <1>1, <1>2, <1>5
    <3> QED  BY <3>1 DEF Bad
  <2>3. L[Parent[n]].kids \in [Children(Parent[n]) -> Nat]
    BY <1>1, <2>1, <2>2
  <2>4. L[Parent[n]].kids[n] \in Nat
    <3> HIDE DEF L
    <3> QED  BY <2>1, <2>3
  <2>5. L[n].offset = None \/ L[n].offset = L[Parent[n]].kids[n]
    <3> HIDE DEF L, Fields
    <3> QED  BY <1>1, <1>2, <1>5
  <2>6. Fields(n, L[n])
    <3> HIDE DEF L, Fields
    <3> QED  BY <1>1, <1>2
  <2> HIDE DEF L, Fields
  <2> QED  BY <2>4, <2>5, <2>6
<1> QED  BY <1>4, <1>5

\* Replacing one node by a node.
LEMMA TreeReplace ==
  ASSUME NEW t, TreeOK(t), NEW n \in Nodes, NEW x, NodeOK(n, x)
  PROVE  /\ TreeOK([t EXCEPT ![n] = x])
         /\ [t EXCEPT ![n] = x][n] = x /\ \A m \in Nodes : m # n => [t EXCEPT ![n] = x][m] = t[m]
<1>1. t = [m \in Nodes |-> t[m]] /\ \A m \in Nodes : NodeOK(m, t[m])
  BY DEF TreeOK
<1> DEFINE u == [t EXCEPT ![n] = x]
<1>2. u[n] = x /\ \A m \in Nodes : m # n => u[m] = t[m]
  BY <1>1
<1>3. u = [m \in Nodes |-> u[m]]
  BY <1>1
<1> HIDE DEF u
<1>4. \A m \in Nodes : NodeOK(m, u[m])
  BY <1>1, <1>2
<1>5. TreeOK(u)
  BY <1>3, <1>4 DEF TreeOK
<1> QED  BY <1>2, <1>5 DEF u

\* What Repoint does to the nodes.
LEMMA RepointSpec ==
  ASSUME NEW t, TreeOK(t), NEW n \in Nodes, NEW o \in Nat, NEW d
  PROVE  LET u == Repoint(t, n, o, d)
             p == Parent[n]
         IN /\ TreeOK(u)
            /\ n = Root => u = t
            /\ n # Root =>
                 /\ \A m \in Nodes : m # p => u[m] = t[m]
                 /\ u[p] = [ver |-> t[p].ver, size |-> t[p].size, disk_offset |-> t[p].disk_offset,
                            bn_dirty |-> (t[p].bn_dirty \/ d), hb_dirty |-> t[p].hb_dirty,
                            kids |-> [t[p].kids EXCEPT ![n] = o]]
<1> DEFINE p == Parent[n]
           u == Repoint(t, n, o, d)
           x == [ver |-> t[p].ver, size |-> t[p].size, disk_offset |-> t[p].disk_offset,
                 bn_dirty |-> (t[p].bn_dirty \/ d), hb_dirty |-> t[p].hb_dirty,
                 kids |-> [t[p].kids EXCEPT ![n] = o]]
<1>1. t = [m \in Nodes |-> t[m]] /\ (\A m \in Nodes : NodeOK(m, t[m])) /\ p \in Nodes
  BY PageFileAssumption DEF TreeOK
<1>2. CASE n = Root
  BY <1>2 DEF Repoint
<1>3. CASE n # Root
  <2>1. NodeOK(p, t[p])
    BY <1>1
  <2>2. NodeOK(p, x)
    <3>1. t[p].kids \in [Children(p) -> Nat]
      BY <2>1 DEF NodeOK
    <3>2. [t[p].kids EXCEPT ![n] = o] \in [Children(p) -> Nat]
      BY <3>1
    <3> QED  BY <2>1, <3>2 DEF NodeOK
  <2> DEFINE v == [t EXCEPT ![p] = x]
  <2>3. u = v
    <3>1. t[p] = [ver |-> t[p].ver, size |-> t[p].size, disk_offset |-> t[p].disk_offset,
                  bn_dirty |-> t[p].bn_dirty, hb_dirty |-> t[p].hb_dirty, kids |-> t[p].kids]
      BY <2>1 DEF NodeOK
    <3>2. u = [t EXCEPT ![Parent[n]].kids[n] = o, ![Parent[n]].bn_dirty = @ \/ d]
      BY <1>3 DEF Repoint
    <3> QED  BY <1>1, <3>1, <3>2
  <2>4. TreeOK(v) /\ v[p] = x /\ \A m \in Nodes : m # p => v[m] = t[m]
    <3> HIDE DEF x
    <3> QED  BY <1>1, <2>2, TreeReplace
  <2> HIDE DEF u, v, x
  <2>5. TreeOK(u) /\ u[p] = x /\ \A m \in Nodes : m # p => u[m] = t[m]
    BY <2>3, <2>4
  <2> QED  BY <2>5, <1>3 DEF u, x
<1> QED  BY <1>2, <1>3

\* The trie of a new process.
LEMMA EmptyTreeOK == TreeOK(EmptyTree)
BY EmptyNodeOK DEF TreeOK, EmptyTree

\* A list of regions covers natural numbers.
LEMMA CoveredNat ==
  ASSUME NEW r \in Seq(Regions)
  PROVE  Covered(r) \in SUBSET Nat
<1>1. \A i \in 1 .. Len(r) : r[i].offset \in Nat /\ r[i].length \in Nat
  BY RegionNat
<1>2. \A i \in 1 .. Len(r) : Cells(r[i].offset, r[i].length) \subseteq Nat
  BY <1>1 DEF Cells
<1> QED  BY <1>2 DEF Covered

-----------------------------------------------------------------------------
(***************************************************************************)
(* The list of stale regions is exact in memory and in every superblock,   *)
(* unless it was lost, and there is a superblock to open a file with.      *)
(***************************************************************************)

\* A superblock, a file, the list in memory, and the inductive invariant.
SlotOK(sb) ==
  sb.kind = "sb" => /\ Canonical(sb.stale) /\ Covered(sb.stale) \subseteq sb.marked
                    /\ ~sb.lost => Covered(sb.stale) = sb.marked
FileOK(f) == (\A s \in Slots : SlotOK(f.sb[s])) /\ ValidSlots(f) # {}
StaleOK ==
  /\ stale \in Seq(Regions) /\ Canonical(stale)
  /\ marked \in SUBSET Nat /\ Covered(stale) \subseteq marked
  /\ lost \in BOOLEAN /\ (~lost => Covered(stale) = marked)
StaleInv == Types /\ StaleOK /\ \A f \in {"live", "tmp"} : FileOK(disk[f])

\* A new file.
LEMMA NewFileOK == NewFile \in Files /\ FileOK(NewFile) /\ NewPf \in PageFiles
<1>1. NewSb \in Sbs /\ NewSb.kind = "sb" /\ NewSb.stale = <<>> /\ NewSb.marked = {} /\ NewSb.lost = FALSE
  BY DEF NewSb, Sbs
<1>2. Canonical(<<>>) /\ Covered(<<>>) = {}
  BY DEF Canonical, Covered
<1>3. 0 \in Slots
  BY Constants DEF Slots
<1>4. NewFile.data = <<>> /\ NewFile.sb = [s \in Slots |-> NewSb] /\ NewFile = [data |-> <<>>, sb |-> [s \in Slots |-> NewSb]]
  BY DEF NewFile, Slots
<1>5. NewFile \in Files
  BY <1>1, <1>4 DEF Files
<1>6. FileOK(NewFile)
  BY <1>1, <1>2, <1>3, <1>4 DEF FileOK, SlotOK, ValidSlots
<1>7. NewPf \in PageFiles
  BY Constants DEF NewPf, PageFiles
<1> QED  BY <1>5, <1>6, <1>7

\* The empty list.
LEMMA EmptyList == <<>> \in Seq(Regions) /\ Canonical(<<>>) /\ Covered(<<>>) = {}
BY DEF Canonical, Covered

\* An empty list of which nothing was lost.
LEMMA EmptyStale ==
  ASSUME stale = <<>>, marked = {}, lost = FALSE
  PROVE  StaleOK
<1>1. {} \in SUBSET Nat /\ FALSE \in BOOLEAN
  OBVIOUS
<1> QED  BY <1>1, EmptyList, Zenon DEF StaleOK

LEMMA EmptyStaleNext ==
  ASSUME stale' = <<>>, marked' = {}, lost' = FALSE
  PROVE  StaleOK'
<1>1. {} \in SUBSET Nat /\ FALSE \in BOOLEAN
  OBVIOUS
<1> QED  BY <1>1, EmptyList, Zenon DEF StaleOK

\* Initially.
LEMMA StaleInit == Init => StaleInv
<1> SUFFICES ASSUME Init PROVE StaleInv
  OBVIOUS
<1>1. disk = [f \in {"live", "tmp"} |-> NewFile] /\ pf = [f \in {"live", "tmp"} |-> NewPf]
  BY DEF Init
<1>2. disk \in [{"live", "tmp"} -> Files] /\ pf \in [{"live", "tmp"} -> PageFiles]
      /\ \A f \in {"live", "tmp"} : FileOK(disk[f])
  BY <1>1, NewFileOK
<1>3. TreeOK(tree) /\ pc = "idle" /\ list \in Seq(Nodes) /\ at \in Nat
  BY EmptyTreeOK DEF Init
<1>4. StaleOK
  BY EmptyStale DEF Init
<1>5. Types
  BY <1>2, <1>3 DEF Types, Writing, WriteOK
<1> QED  BY <1>2, <1>4, <1>5 DEF StaleInv

\* The fields of a node.
Node(v, z, o, b, h, k) ==
  [ver |-> v, size |-> z, disk_offset |-> o, bn_dirty |-> b, hb_dirty |-> h, kids |-> k]

\* A node is what its fields are.
LEMMA NodeFields ==
  ASSUME NEW n, NEW x, NodeOK(n, x)
  PROVE  \E a1, a2, a3, a4, a5, a6 :
           /\ x = Node(a1, a2, a3, a4, a5, a6)
           /\ x.ver = a1 /\ x.size = a2 /\ x.disk_offset = a3 /\ x.bn_dirty = a4 /\ x.hb_dirty = a5
           /\ x.kids = a6
<1>1. x = Node(x.ver, x.size, x.disk_offset, x.bn_dirty, x.hb_dirty, x.kids)
  BY DEF NodeOK, Node
<1> QED  BY <1>1

\* A node with other flags.
Flagged(x, b, h) == [x EXCEPT !.bn_dirty = b, !.hb_dirty = h]

\* Its other fields are as they were.
LEMMA NodeFlags ==
  ASSUME NEW n, NEW x, NodeOK(n, x), NEW b, NEW h
  PROVE  Flagged(x, b, h) = Node(x.ver, x.size, x.disk_offset, b, h, x.kids)
<1>1. PICK a1, a2, a3, a4, a5, a6 :
        /\ x = Node(a1, a2, a3, a4, a5, a6)
        /\ x.ver = a1 /\ x.size = a2 /\ x.disk_offset = a3 /\ x.bn_dirty = a4 /\ x.hb_dirty = a5
        /\ x.kids = a6
  BY NodeFields
<1> DEFINE y1 == [x EXCEPT !.bn_dirty = b]
<1>2. y1 = Node(a1, a2, a3, b, a5, a6)
  BY <1>1 DEF Node
<1> HIDE DEF y1
<1> DEFINE y2 == [y1 EXCEPT !.hb_dirty = h]
<1>3. y2 = Node(a1, a2, a3, b, h, a6)
  BY <1>2 DEF Node
<1> HIDE DEF y2
<1>4. Flagged(x, b, h) = y2
  BY Zenon DEF Flagged, y1, y2
<1> QED  BY <1>1, <1>3, <1>4, Zenon

\* A node at another place.
Placed(x, o, b) == [x EXCEPT !.disk_offset = o, !.bn_dirty = b]

\* Its other fields are as they were.
LEMMA NodePlaced ==
  ASSUME NEW n, NEW x, NodeOK(n, x), NEW o, NEW b
  PROVE  Placed(x, o, b) = Node(x.ver, x.size, o, b, x.hb_dirty, x.kids)
<1>1. PICK a1, a2, a3, a4, a5, a6 :
        /\ x = Node(a1, a2, a3, a4, a5, a6)
        /\ x.ver = a1 /\ x.size = a2 /\ x.disk_offset = a3 /\ x.bn_dirty = a4 /\ x.hb_dirty = a5
        /\ x.kids = a6
  BY NodeFields
<1> DEFINE y1 == [x EXCEPT !.disk_offset = o]
<1>2. y1 = Node(a1, a2, o, a4, a5, a6)
  BY <1>1 DEF Node
<1> HIDE DEF y1
<1> DEFINE y2 == [y1 EXCEPT !.bn_dirty = b]
<1>3. y2 = Node(a1, a2, o, b, a5, a6)
  BY <1>2 DEF Node
<1> HIDE DEF y2
<1>4. Placed(x, o, b) = y2
  BY Zenon DEF Placed, y1, y2
<1> QED  BY <1>1, <1>3, <1>4, Zenon

\* A node with another version.
Updated(x, v, z, b) == [x EXCEPT !.ver = v, !.size = z, !.bn_dirty = b, !.hb_dirty = b]

\* Its place and its children are as they were.
LEMMA NodeUpdated ==
  ASSUME NEW n, NEW x, NodeOK(n, x), NEW v, NEW z, NEW b
  PROVE  Updated(x, v, z, b) = Node(v, z, x.disk_offset, b, b, x.kids)
<1>1. PICK a1, a2, a3, a4, a5, a6 :
        /\ x = Node(a1, a2, a3, a4, a5, a6)
        /\ x.ver = a1 /\ x.size = a2 /\ x.disk_offset = a3 /\ x.bn_dirty = a4 /\ x.hb_dirty = a5
        /\ x.kids = a6
  BY NodeFields
<1> DEFINE y1 == [x EXCEPT !.ver = v]
<1>2. y1 = Node(v, a2, a3, a4, a5, a6)
  BY <1>1 DEF Node
<1> HIDE DEF y1
<1> DEFINE y2 == [y1 EXCEPT !.size = z]
<1>3. y2 = Node(v, z, a3, a4, a5, a6)
  BY <1>2 DEF Node
<1> HIDE DEF y2
<1> DEFINE y3 == [y2 EXCEPT !.bn_dirty = b]
<1>4. y3 = Node(v, z, a3, b, a5, a6)
  BY <1>3 DEF Node
<1> HIDE DEF y3
<1> DEFINE y4 == [y3 EXCEPT !.hb_dirty = b]
<1>5. y4 = Node(v, z, a3, b, b, a6)
  BY <1>4 DEF Node
<1> HIDE DEF y4
<1>6. Updated(x, v, z, b) = y4
  BY Zenon DEF Updated, y1, y2, y3, y4
<1> QED  BY <1>1, <1>5, <1>6, Zenon

\* A node with another flag of its hbtrie node.
Cleared(x, h) == [x EXCEPT !.hb_dirty = h]

\* Its other fields are as they were.
LEMMA NodeCleared ==
  ASSUME NEW n, NEW x, NodeOK(n, x), NEW h
  PROVE  Cleared(x, h) = Node(x.ver, x.size, x.disk_offset, x.bn_dirty, h, x.kids)
<1>1. PICK a1, a2, a3, a4, a5, a6 :
        /\ x = Node(a1, a2, a3, a4, a5, a6)
        /\ x.ver = a1 /\ x.size = a2 /\ x.disk_offset = a3 /\ x.bn_dirty = a4 /\ x.hb_dirty = a5
        /\ x.kids = a6
  BY NodeFields
<1> DEFINE y1 == [x EXCEPT !.hb_dirty = h]
<1>2. y1 = Node(a1, a2, a3, a4, h, a6)
  BY <1>1 DEF Node
<1> HIDE DEF y1
<1>3. Cleared(x, h) = y1
  BY Zenon DEF Cleared, y1
<1> QED  BY <1>1, <1>2, <1>3, Zenon

\* A write to the trie.
LEMMA UpdateStale ==
  ASSUME StaleInv, NEW n \in Nodes, NEW z \in Sizes, Update(n, z)
  PROVE  StaleInv'
<1>1. z \in Nat \ {0}
  BY PageFileAssumption
<1> DEFINE x == [ver |-> tree[n].ver + 1, size |-> z, disk_offset |-> tree[n].disk_offset,
                 bn_dirty |-> TRUE, hb_dirty |-> TRUE, kids |-> tree[n].kids]
<1>2. TreeOK(tree) /\ NodeOK(n, tree[n])
  BY DEF StaleInv, Types, TreeOK
<1>3. NodeOK(n, x)
  <2>1. tree[n].ver \in Nat /\ tree[n].disk_offset \in Nat \cup {None} /\ tree[n].kids \in [Children(n) -> Nat]
    BY <1>2 DEF NodeOK
  <2> QED  BY <1>1, <2>1 DEF NodeOK
<1>4. TreeOK(tree')
  <2>1. tree' = [tree EXCEPT ![n] = x]
    <3>1. [tree[n] EXCEPT !.ver = tree[n].ver + 1, !.size = z, !.bn_dirty = TRUE, !.hb_dirty = TRUE] = x
      <4> DEFINE v == tree[n].ver + 1
                 b == TRUE
      <4> HIDE DEF v, b
      <4>1. Updated(tree[n], v, z, b) =
              Node(v, z, tree[n].disk_offset, b, b, tree[n].kids)
        BY <1>2, NodeUpdated
      <4> QED  BY <4>1, Zenon DEF v, b, Updated, Node
    <3>2. tree' = [tree EXCEPT ![n] = [@ EXCEPT !.ver = tree[n].ver + 1, !.size = z, !.bn_dirty = TRUE, !.hb_dirty = TRUE]]
      BY DEF Update
    <3> HIDE DEF x
    <3> QED  BY <3>1, <3>2
  <2> HIDE DEF x
  <2> QED  BY <1>2, <1>3, <2>1, TreeReplace
<1>5. UNCHANGED <<disk, pf, stale, phase, flusher, flushes, faults, marked, lost>>
  BY DEF Update
<1>6. Types'
  BY <1>4, <1>5 DEF StaleInv, Types, Writing, WriteOK, flusher
<1> QED  BY <1>5, <1>6 DEF StaleInv, StaleOK

\* The start of a flush.
LEMMA StartFlushStale ==
  ASSUME StaleInv, NEW why, StartFlush(why)
  PROVE  StaleInv'
<1>1. UNCHANGED <<disk, pf, stale, tree, list, at, marked, lost>> /\ pc' = "collect"
  BY DEF StartFlush, history
<1>2. Types'
  BY <1>1 DEF StaleInv, Types, Writing, WriteOK
<1> QED  BY <1>1, <1>2 DEF StaleInv, StaleOK

\* The orders of a set of nodes are sequences of nodes, empty only for the empty set.
LEMMA DeepestType ==
  ASSUME NEW S \in SUBSET Nodes, NEW q \in Deepest(S)
  PROVE  q \in Seq(Nodes) /\ Len(q) = Cardinality(S) /\ (q = <<>> <=> S = {})
<1>1. IsFiniteSet(S)
  BY PageFileAssumption, FS_Subset
<1>2. Cardinality(S) \in Nat /\ (Cardinality(S) = 0 <=> S = {})
  BY <1>1, FS_CardinalityType, FS_EmptySet
<1>3. q \in [1 .. Cardinality(S) -> S]
  BY DEF Deepest
<1> DEFINE k == Cardinality(S)
<1> HIDE DEF k
<1>4. k \in Nat /\ q \in [1 .. k -> Nodes] /\ (k = 0 <=> S = {})
  BY <1>2, <1>3 DEF k
<1>5. q \in Seq(Nodes) /\ Len(q) = k
  BY <1>4
<1>6. q = <<>> <=> k = 0
  BY <1>4, <1>5
<1> QED  BY <1>4, <1>5, <1>6 DEF k

\* A turn of the loop begins.
LEMMA CollectStale ==
  ASSUME StaleInv, Collect
  PROVE  StaleInv'
<1> DEFINE S == {n \in Nodes : HbDirty[n] /\ BnDirty(n)}
<1>1. list' \in Deepest(S) /\ at' = 1 /\ pc' = IF list' = <<>> THEN "superblock" ELSE "serialize"
  BY DEF Collect
<1>2. list' \in Seq(Nodes)
  BY <1>1, DeepestType
<1>3. TreeOK(tree')
  <2> DEFINE B(n) == BnDirty(n)
             H(n) == HbDirty[n]
             X(n) == Flagged(tree[n], B(n), H(n))
  <2>1. tree' = [n \in Nodes |-> X(n)]
    BY DEF Collect, Flagged
  <2> HIDE DEF B, H
  <2>2. ASSUME NEW n \in Nodes PROVE NodeOK(n, X(n))
    <3>1. NodeOK(n, tree[n])
      BY DEF StaleInv, Types, TreeOK
    <3>2. X(n) = Node(tree[n].ver, tree[n].size, tree[n].disk_offset, B(n), H(n), tree[n].kids)
      BY <3>1, NodeFlags
    <3> HIDE DEF X
    <3> QED  BY <3>1, <3>2 DEF NodeOK, Node
  <2> HIDE DEF X
  <2> QED  BY <2>1, <2>2 DEF TreeOK
<1>4. UNCHANGED <<disk, pf, stale, marked, lost>>
  BY DEF Collect, history
<1>5. pc' = "serialize" => at' \in 1 .. Len(list')
  BY <1>1, <1>2
<1>6. pc' \in {"superblock", "serialize"} /\ at' \in Nat
  BY <1>1
<1>7. Types'
  BY <1>2, <1>3, <1>4, <1>5, <1>6 DEF StaleInv, Types, Writing, WriteOK
<1> QED  BY <1>4, <1>7 DEF StaleInv, StaleOK

\* Positions in a page file are natural numbers.
LEMMA PosNat ==
  ASSUME Types, NEW t \in {"live", "tmp"}
  PROVE  Pos(t) \in Nat
<1>1. pf[t].cur_bid \in Nat /\ pf[t].cur_offset \in Nat
  BY Constants DEF Types, PageFiles
<1>2. \A a, b, c \in Nat : a * b + c \in Nat
  OBVIOUS
<1> QED  BY <1>1, <1>2, Constants DEF Pos

\* A node is serialised.
LEMMA SerializeStale ==
  ASSUME StaleInv, Serialize
  PROVE  StaleInv'
<1> DEFINE n == list[at]
           c == [kind |-> "content", node |-> n, ver |-> tree[n].ver, size |-> tree[n].size, kids |-> tree[n].kids]
<1>1. Types /\ pc = "serialize" /\ at \in 1 .. Len(list) /\ list \in Seq(Nodes) /\ n \in Nodes
  BY DEF StaleInv, Types, Serialize
<1>2. tree[n].ver \in Nat /\ tree[n].size \in Nat \ {0} /\ tree[n].kids \in [Children(n) -> Nat]
  BY <1>1 DEF Types, TreeOK, NodeOK
<1>3. c \in Contents /\ c.node = n
  <2> HIDE DEF n
  <2> QED  BY <1>1, <1>2 DEF Contents
<1>4. Pos(Target) \in Nat
  BY <1>1, PosNat DEF Target
<1>5. w' = [node |-> n, written |-> 0, bids |-> 0, offset |-> Pos(Target), content |-> c]
      /\ pc' = "chunk" /\ UNCHANGED <<disk, pf, stale, tree, list, at, marked, lost>>
  BY DEF Serialize, history
<1> HIDE DEF n, c
<1>6. WriteOK'
  <2>1. Length(c) >= 2 /\ Length(c) \in Nat
    BY <1>3, ContentFields
  <2>2. /\ w'.node = n /\ w'.written = 0 /\ w'.bids = 0 /\ w'.offset = Pos(Target) /\ w'.content = c
        /\ w' = [node |-> w'.node, written |-> w'.written, bids |-> w'.bids, offset |-> w'.offset,
                 content |-> w'.content]
    BY <1>5
  <2>3. w'.written < Length(w'.content)
    BY <2>1, <2>2
  <2> HIDE DEF Length
  <2> QED  BY <1>1, <1>3, <1>4, <2>2, <2>3 DEF WriteOK, Writing, Length
<1>7. Types'
  BY <1>1, <1>5, <1>6 DEF Types, Writing
<1> QED  BY <1>5, <1>7 DEF StaleInv, StaleOK

\* What WriteChunk writes, and where.
ChunkFull == BlockSize - pf[Target].cur_offset <= MetaSize
ChunkBid == IF ChunkFull THEN pf[Target].cur_bid + 1 ELSE pf[Target].cur_bid
ChunkOff == IF ChunkFull THEN 0 ELSE pf[Target].cur_offset
ChunkLen == Lesser(BlockSize - ChunkOff - MetaSize, Length(w.content) - w.written)
ChunkCells == [i \in 1 .. ChunkLen |-> Cell(w.content, w.written + i)]

\* The chunk fits before the IndexBlkMeta, and is not empty.
LEMMA ChunkSpec ==
  ASSUME Types, WriteChunk
  PROVE  /\ Target \in {"live", "tmp"} /\ pc = "chunk" /\ w.content \in Contents
         /\ ChunkBid \in Nat /\ ChunkOff \in 0 .. (BlockSize - 2)
         /\ ChunkLen \in Nat \ {0} /\ ChunkOff + ChunkLen <= BlockSize - 1
         /\ w.written + ChunkLen <= Length(w.content)
         /\ w.written + ChunkLen < Length(w.content) => ChunkOff + ChunkLen = BlockSize - 1
         /\ ChunkBid * BlockSize + ChunkOff \in Nat
         /\ ChunkCells \in Seq(FileCells) /\ Len(ChunkCells) = ChunkLen
         /\ \A i \in 1 .. ChunkLen : ChunkCells[i] = Cell(w.content, w.written + i)
         /\ disk' = [disk EXCEPT ![Target].data = PWrite(@, ChunkBid * BlockSize + ChunkOff, ChunkCells)]
         /\ pf' = [pf EXCEPT ![Target] = [@ EXCEPT !.cur_bid = ChunkBid, !.cur_offset = ChunkOff + ChunkLen]]
         /\ w' = [w EXCEPT !.written = @ + ChunkLen, !.bids = @ + 1]
         /\ pc' = IF BlockSize - (ChunkOff + ChunkLen) <= MetaSize
                     \/ (w.written + ChunkLen >= Length(w.content) /\ w.bids > 0)
                  THEN "meta" ELSE "written"
         /\ UNCHANGED <<stale, tree, phase, reason, passes, list, at, counts, history>>
<1>1. Target \in {"live", "tmp"} /\ pc = "chunk"
  BY DEF Target, WriteChunk
<1>2. /\ w.content \in Contents /\ w.written \in Nat /\ w.written < Length(w.content)
      /\ pf[Target].cur_bid \in Nat /\ pf[Target].cur_offset \in 0 .. BlockSize
  BY <1>1 DEF Types, WriteOK, Writing, PageFiles
<1>3. Length(w.content) \in Nat
  BY <1>2, ContentFields
<1>4. ChunkBid \in Nat /\ ChunkOff \in 0 .. (BlockSize - 2)
  BY <1>2, Constants DEF ChunkBid, ChunkOff, ChunkFull, MetaSize
<1> DEFINE a == BlockSize - ChunkOff - MetaSize
           b == Length(w.content) - w.written
<1>5. a \in Nat \ {0} /\ b \in Nat \ {0} /\ BlockSize - ChunkOff - 1 = a
  BY <1>2, <1>3, <1>4, Constants DEF MetaSize
<1>6. /\ ChunkLen \in Nat \ {0} /\ ChunkOff + ChunkLen <= BlockSize - 1
      /\ w.written + ChunkLen <= Length(w.content)
      /\ w.written + ChunkLen < Length(w.content) => ChunkOff + ChunkLen = BlockSize - 1
  <2>1. ChunkLen = IF a < b THEN a ELSE b
    BY DEF ChunkLen, Lesser
  <2>2. ChunkOff + a = BlockSize - 1 /\ w.written + b = Length(w.content)
    BY <1>2, <1>3, <1>4, <1>5, Constants
  <2> HIDE DEF a, b
  <2> QED  BY <2>1, <2>2, <1>2, <1>3, <1>4, <1>5, Constants
<1>7. ChunkBid * BlockSize + ChunkOff \in Nat
  <2>1. \A x, y, z \in Nat : x * y + z \in Nat
    OBVIOUS
  <2> QED  BY <1>4, <2>1, Constants
<1>8. ASSUME NEW i \in 1 .. ChunkLen PROVE Cell(w.content, w.written + i) \in FileCells
  <2>1. w.written + i \in Nat
    BY <1>2, <1>6
  <2> QED  BY <2>1, <1>2 DEF Cell, FileCells
<1>9. /\ ChunkCells \in Seq(FileCells) /\ Len(ChunkCells) = ChunkLen
      /\ \A i \in 1 .. ChunkLen : ChunkCells[i] = Cell(w.content, w.written + i)
  <2> DEFINE E(i) == Cell(w.content, w.written + i)
             k == ChunkLen
  <2>1. ChunkCells = [i \in 1 .. k |-> E(i)]
    BY DEF ChunkCells
  <2>2. k \in Nat /\ \A i \in 1 .. k : E(i) \in FileCells
    BY <1>6, <1>8
  <2> HIDE DEF E, k
  <2>3. ChunkCells \in Seq(FileCells) /\ Len(ChunkCells) = k /\ \A i \in 1 .. k : ChunkCells[i] = E(i)
    BY <2>1, <2>2
  <2> QED  BY <2>3 DEF E, k
<1>10. /\ disk' = [disk EXCEPT ![Target].data = PWrite(@, ChunkBid * BlockSize + ChunkOff, ChunkCells)]
       /\ pf' = [pf EXCEPT ![Target] = [@ EXCEPT !.cur_bid = ChunkBid, !.cur_offset = ChunkOff + ChunkLen]]
       /\ w' = [w EXCEPT !.written = @ + ChunkLen, !.bids = @ + 1]
       /\ pc' = IF BlockSize - (ChunkOff + ChunkLen) <= MetaSize
                   \/ (w.written + ChunkLen >= Length(w.content) /\ w.bids > 0)
                THEN "meta" ELSE "written"
       /\ UNCHANGED <<stale, tree, phase, reason, passes, list, at, counts, history>>
  BY Zenon DEF WriteChunk, ChunkBid, ChunkOff, ChunkLen, ChunkCells, ChunkFull
<1> HIDE DEF a, b
<1> QED  BY <1>1, <1>2, <1>4, <1>6, <1>7, <1>9, <1>10

\* Writing to the cells of a file leaves its superblocks alone.
LEMMA DataWrite ==
  ASSUME disk \in [{"live", "tmp"} -> Files], NEW t \in {"live", "tmp"},
         \A f \in {"live", "tmp"} : FileOK(disk[f]),
         NEW o \in Int, NEW cs \in Seq(FileCells),
         disk' = [disk EXCEPT ![t].data = PWrite(@, o, cs)]
  PROVE  /\ disk' \in [{"live", "tmp"} -> Files]
         /\ \A f \in {"live", "tmp"} : FileOK(disk'[f]) /\ disk'[f].sb = disk[f].sb
         /\ disk'[t].data = PWrite(disk[t].data, o, cs)
         /\ \A f \in {"live", "tmp"} : f # t => disk'[f] = disk[f]
<1> DEFINE d == PWrite(disk[t].data, o, cs)
<1>1. disk[t] \in Files /\ disk[t].data \in Seq(FileCells)
  BY DEF Files
<1>2. d \in Seq(FileCells)
  BY <1>1, PWriteType
<1> HIDE DEF d
<1>3. disk' = [disk EXCEPT ![t] = [disk[t] EXCEPT !.data = d]]
  BY DEF d
<1>4. [disk[t] EXCEPT !.data = d] = [data |-> d, sb |-> disk[t].sb]
  BY <1>1 DEF Files
<1>5. disk'[t] = [data |-> d, sb |-> disk[t].sb]
  BY <1>3, <1>4
<1>6. disk'[t] \in Files /\ disk'[t].sb = disk[t].sb /\ disk'[t].data = d
  BY <1>1, <1>2, <1>5 DEF Files
<1>7. \A f \in {"live", "tmp"} : f # t => disk'[f] = disk[f]
  BY <1>3
<1>8. disk' = [f \in {"live", "tmp"} |-> disk'[f]]
  BY <1>3
<1>9. disk' \in [{"live", "tmp"} -> Files]
  BY <1>6, <1>7, <1>8
<1>10. \A f \in {"live", "tmp"} : disk'[f].sb = disk[f].sb
  BY <1>6, <1>7
<1>11. \A f \in {"live", "tmp"} : FileOK(disk'[f])
  BY <1>10 DEF FileOK, ValidSlots
<1> QED  BY <1>6, <1>7, <1>9, <1>10, <1>11 DEF d

\* A chunk of a node is written.
LEMMA WriteChunkStale ==
  ASSUME StaleInv, WriteChunk
  PROVE  StaleInv'
<1>1. Types
  BY DEF StaleInv
<1>2. /\ Target \in {"live", "tmp"} /\ pc = "chunk" /\ w.content \in Contents
      /\ ChunkBid \in Nat /\ ChunkOff \in 0 .. (BlockSize - 2)
      /\ ChunkLen \in Nat \ {0} /\ ChunkOff + ChunkLen <= BlockSize - 1
  BY <1>1, ChunkSpec
<1>3. disk' \in [{"live", "tmp"} -> Files] /\ \A f \in {"live", "tmp"} : FileOK(disk'[f])
  <2> DEFINE o == ChunkBid * BlockSize + ChunkOff
  <2>1. /\ o \in Int /\ ChunkCells \in Seq(FileCells)
        /\ disk' = [disk EXCEPT ![Target].data = PWrite(@, o, ChunkCells)]
    BY <1>1, ChunkSpec
  <2>2. disk \in [{"live", "tmp"} -> Files] /\ \A f \in {"live", "tmp"} : FileOK(disk[f])
    BY DEF StaleInv, Types
  <2> HIDE DEF o
  <2> QED  BY <1>2, <2>1, <2>2, DataWrite
<1>4. pf' \in [{"live", "tmp"} -> PageFiles]
  <2>1. pf' = [pf EXCEPT ![Target] = [@ EXCEPT !.cur_bid = ChunkBid, !.cur_offset = ChunkOff + ChunkLen]]
    BY <1>1, ChunkSpec
  <2>2. ChunkOff + ChunkLen \in 0 .. BlockSize
    BY <1>2, Constants
  <2>3. pf \in [{"live", "tmp"} -> PageFiles]
    BY <1>1 DEF Types
  <2> DEFINE c == ChunkOff + ChunkLen
  <2> HIDE DEF c
  <2>4. [pf[Target] EXCEPT !.cur_bid = ChunkBid, !.cur_offset = c] \in PageFiles
    BY <1>2, <2>2, <2>3 DEF PageFiles, c
  <2> QED  BY <1>2, <2>1, <2>3, <2>4 DEF c
<1>5. UNCHANGED <<stale, tree, list, at, marked, lost>> /\ pc' \in {"meta", "written"}
      /\ w' = [w EXCEPT !.written = @ + ChunkLen, !.bids = @ + 1]
  BY <1>1, ChunkSpec DEF history
<1>6. WriteOK'
  <2>1. /\ w = [node |-> w.node, written |-> w.written, bids |-> w.bids, offset |-> w.offset,
                content |-> w.content]
        /\ w.node \in Nodes /\ w.content \in Contents /\ w.content.node = w.node
        /\ w.written \in Nat /\ w.bids \in Nat /\ w.offset \in Nat
    BY <1>1, <1>2 DEF Types, WriteOK, Writing
  <2>2. w' = [node |-> w.node, written |-> w.written + ChunkLen, bids |-> w.bids + 1, offset |-> w.offset,
              content |-> w.content]
    BY <1>5, <2>1
  <2>3. w.written + ChunkLen \in Nat /\ w.bids + 1 \in Nat
    BY <1>2, <2>1
  <2> QED  BY <1>5, <2>1, <2>2, <2>3 DEF WriteOK
<1>7. Types'
  BY <1>1, <1>2, <1>3, <1>4, <1>5, <1>6 DEF Types, Writing
<1> QED  BY <1>3, <1>5, <1>7 DEF StaleInv, StaleOK

\* An IndexBlkMeta is written.
LEMMA WriteMetaStale ==
  ASSUME StaleInv, WriteMeta
  PROVE  StaleInv'
<1>1. Types /\ Target \in {"live", "tmp"} /\ pc = "meta" /\ disk \in [{"live", "tmp"} -> Files]
      /\ \A f \in {"live", "tmp"} : FileOK(disk[f])
  BY DEF StaleInv, Types, Target, WriteMeta
<1> DEFINE more == w.written < Length(w.content)
           bid == pf[Target].cur_bid
           m == BlkMeta(IF more THEN bid + 1 ELSE None)
           o == (bid + 1) * BlockSize - MetaSize
<1>2. bid \in Nat /\ o \in Int
  <2>1. bid \in Nat
    BY <1>1 DEF Types, PageFiles
  <2>2. \A a, b \in Nat : (a + 1) * b - 1 \in Int
    OBVIOUS
  <2> QED  BY <2>1, <2>2, Constants DEF MetaSize
<1>3. <<m>> \in Seq(FileCells)
  BY <1>2 DEF BlkMeta, FileCells, None
<1>4. disk' \in [{"live", "tmp"} -> Files] /\ \A f \in {"live", "tmp"} : FileOK(disk'[f])
  <2>1. disk' = [disk EXCEPT ![Target].data = PWrite(@, o, <<m>>)]
    BY Zenon DEF WriteMeta
  <2> HIDE DEF o, m
  <2> QED  BY <1>1, <1>2, <1>3, <2>1, DataWrite
<1>5. pf' = [pf EXCEPT ![Target] = [@ EXCEPT !.cur_bid = bid + 1, !.cur_offset = 0]]
  BY Zenon DEF WriteMeta
<1>6. pf' \in [{"live", "tmp"} -> PageFiles]
  <2>1. pf \in [{"live", "tmp"} -> PageFiles] /\ bid + 1 \in Nat /\ 0 \in 0 .. BlockSize
    BY <1>1, <1>2, Constants DEF Types
  <2> DEFINE e == bid + 1
  <2> HIDE DEF e
  <2>2. [pf[Target] EXCEPT !.cur_bid = e, !.cur_offset = 0] \in PageFiles
    BY <1>1, <2>1 DEF PageFiles, e
  <2> QED  BY <1>1, <1>5, <2>1, <2>2 DEF e
<1>7. UNCHANGED <<stale, tree, list, at, marked, lost, w>> /\ pc' = IF more THEN "chunk" ELSE "written"
  BY DEF WriteMeta, history
<1>8. WriteOK'
  BY <1>1, <1>7 DEF Types, WriteOK, Writing
<1>9. pc' \in {"chunk", "written"} /\ (Writing \/ pc = "serialize" => at \in 1 .. Len(list)) /\ Writing
  BY <1>1, <1>7 DEF Types, Writing
<1>10. Types'
  BY <1>1, <1>4, <1>6, <1>7, <1>8, <1>9 DEF Types
<1> QED  BY <1>4, <1>7, <1>10 DEF StaleInv, StaleOK

\* The node gets its place.
LEMMA PlacedTree ==
  ASSUME Types, Writing, NEW d
  PROVE  /\ w.node \in Nodes /\ NodeOK(w.node, Placed(tree[w.node], w.offset, FALSE))
         /\ TreeOK([tree EXCEPT ![w.node] = Placed(@, w.offset, FALSE)])
         /\ Placed(tree[w.node], w.offset, FALSE) =
              Node(tree[w.node].ver, tree[w.node].size, w.offset, FALSE, tree[w.node].hb_dirty, tree[w.node].kids)
         /\ TreeOK(Repoint([tree EXCEPT ![w.node] = Placed(@, w.offset, FALSE)], w.node, w.offset, d))
<1>1. w.node \in Nodes /\ w.offset \in Nat /\ TreeOK(tree) /\ NodeOK(w.node, tree[w.node])
  BY DEF Types, WriteOK, TreeOK
<1> DEFINE n == w.node
           x == Placed(tree[n], w.offset, FALSE)
<1>2. x = Node(tree[n].ver, tree[n].size, w.offset, FALSE, tree[n].hb_dirty, tree[n].kids)
  BY <1>1, NodePlaced
<1>3. NodeOK(n, x)
  <2> HIDE DEF x
  <2> QED  BY <1>1, <1>2 DEF NodeOK, Node
<1>4. TreeOK([tree EXCEPT ![n] = x])
  <2> HIDE DEF x
  <2> QED  BY <1>1, <1>3, TreeReplace
<1>5. TreeOK(Repoint([tree EXCEPT ![n] = x], n, w.offset, d))
  <2> HIDE DEF x
  <2> QED  BY <1>1, <1>4, RepointSpec
<1> QED  BY <1>1, <1>2, <1>3, <1>4, <1>5

\* The flush goes on after a node.
LEMMA FlushWrittenStale ==
  ASSUME StaleInv, FlushWritten
  PROVE  StaleInv'
<1>1. Types /\ StaleOK /\ pc = "written" /\ Writing /\ w.node \in Nodes /\ w.content \in Contents
      /\ at \in 1 .. Len(list) /\ list \in Seq(Nodes)
  BY DEF StaleInv, Types, WriteOK, Writing, FlushWritten
<1> DEFINE old == tree[w.node].disk_offset
           l == w.content.size
<1>2. old \in Nat \cup {None} /\ l \in Nat
  BY <1>1, ContentFields DEF Types, TreeOK, NodeOK
<1>3. /\ stale' = IF old = None THEN stale ELSE StaleAdd(stale, old, l)
      /\ marked' = IF old = None THEN marked ELSE marked \cup Cells(old, l)
      /\ tree' = Repoint([tree EXCEPT ![w.node] = Placed(@, w.offset, FALSE)], w.node, w.offset, TRUE)
      /\ at' = at + 1 /\ pc' = IF at < Len(list) THEN "serialize" ELSE "clear"
      /\ UNCHANGED <<disk, pf, list, lost>>
  BY Zenon DEF FlushWritten, Placed
<1>4. TreeOK(tree')
  BY <1>1, <1>3, PlacedTree
<1>5. StaleOK'
  <2> HIDE DEF old, l
  <2>1. CASE old = None
    BY <1>1, <1>3, <2>1 DEF StaleOK
  <2>2. CASE old # None
    <3>1. old \in Nat
      BY <1>2, <2>2
    <3>2. /\ StaleAdd(stale, old, l) \in Seq(Regions) /\ Canonical(StaleAdd(stale, old, l))
          /\ Covered(StaleAdd(stale, old, l)) = Covered(stale) \cup Cells(old, l)
      BY <1>1, <1>2, <3>1, StaleAddExact DEF StaleOK
    <3>3. Cells(old, l) \subseteq Nat
      BY <1>2, <3>1 DEF Cells
    <3> QED  BY <1>1, <1>3, <2>2, <3>2, <3>3 DEF StaleOK
  <2> QED  BY <2>1, <2>2
<1>6. /\ pc' \in {"serialize", "clear"} /\ at' \in Nat
      /\ pc' = "serialize" => at' \in 1 .. Len(list')
  <2>1. Len(list) \in Nat
    BY <1>1
  <2> QED  BY <1>1, <1>3, <2>1
<1>7. Types'
  BY <1>1, <1>3, <1>4, <1>6 DEF Types, Writing, WriteOK
<1> QED  BY <1>3, <1>5, <1>7 DEF StaleInv

\* The nodes of a turn are clean.
LEMMA ClearDirtyStale ==
  ASSUME StaleInv, ClearDirty
  PROVE  StaleInv'
<1> DEFINE X(n) == IF n \in ToSet(list) THEN Cleared(tree[n], FALSE) ELSE tree[n]
<1>1. tree' = [n \in Nodes |-> X(n)] /\ pc' = "collect" /\ list' = <<>> /\ at' = 0
      /\ UNCHANGED <<disk, pf, stale, marked, lost>>
  BY DEF ClearDirty, Cleared, history
<1>2. ASSUME NEW n \in Nodes PROVE NodeOK(n, X(n))
  <2>1. NodeOK(n, tree[n])
    BY DEF StaleInv, Types, TreeOK
  <2>2. Cleared(tree[n], FALSE) = Node(tree[n].ver, tree[n].size, tree[n].disk_offset, tree[n].bn_dirty, FALSE, tree[n].kids)
    BY <2>1, NodeCleared
  <2>3. NodeOK(n, Cleared(tree[n], FALSE))
    <3> DEFINE x == Cleared(tree[n], FALSE)
    <3> HIDE DEF x
    <3>1. x = Node(tree[n].ver, tree[n].size, tree[n].disk_offset, tree[n].bn_dirty, FALSE, tree[n].kids)
      BY <2>2 DEF x
    <3>2. NodeOK(n, x)
      BY <2>1, <3>1 DEF NodeOK, Node
    <3> QED  BY <3>2 DEF x
  <2> QED  BY <2>1, <2>3
<1> HIDE DEF X
<1>3. TreeOK(tree')
  BY <1>1, <1>2 DEF TreeOK
<1>4. Types'
  BY <1>1, <1>3 DEF StaleInv, Types, Writing, WriteOK
<1> QED  BY <1>1, <1>4 DEF StaleInv, StaleOK

\* The root is clean.
LEMMA RootCleared ==
  ASSUME TreeOK(tree)
  PROVE  TreeOK([tree EXCEPT ![Root].hb_dirty = FALSE])
<1>1. Root \in Nodes /\ NodeOK(Root, tree[Root])
  BY PageFileAssumption DEF TreeOK
<1>2. Cleared(tree[Root], FALSE) =
        Node(tree[Root].ver, tree[Root].size, tree[Root].disk_offset, tree[Root].bn_dirty, FALSE, tree[Root].kids)
  BY <1>1, NodeCleared
<1>3. NodeOK(Root, Cleared(tree[Root], FALSE))
  <2> DEFINE x == Cleared(tree[Root], FALSE)
  <2> HIDE DEF x
  <2>1. x = Node(tree[Root].ver, tree[Root].size, tree[Root].disk_offset, tree[Root].bn_dirty, FALSE, tree[Root].kids)
    BY <1>2 DEF x
  <2>2. NodeOK(Root, x)
    BY <1>1, <2>1 DEF NodeOK, Node
  <2> QED  BY <2>2 DEF x
<1>4. TreeOK([tree EXCEPT ![Root] = Cleared(tree[Root], FALSE)])
  BY <1>1, <1>3, TreeReplace
<1>5. [tree EXCEPT ![Root].hb_dirty = FALSE] = [tree EXCEPT ![Root] = Cleared(tree[Root], FALSE)]
  BY Zenon DEF Cleared
<1> QED  BY <1>4, <1>5

\* A superblock that is put into a file, and one that is torn.
LEMMA SlotWrite ==
  ASSUME NEW f \in Files, FileOK(f), NEW s \in Slots, NEW sb
  PROVE  LET g == [f EXCEPT !.sb[s] = sb] IN
         /\ g.data = f.data /\ g.sb = [f.sb EXCEPT ![s] = sb] /\ g = [data |-> f.data, sb |-> [f.sb EXCEPT ![s] = sb]]
         /\ sb \in Sbs /\ SlotOK(sb) => g \in Files /\ FileOK(g)
         /\ sb = Torn /\ s # WinningSlot(f) => g \in Files /\ FileOK(g)
<1> DEFINE g == [f EXCEPT !.sb[s] = sb]
           q == [f.sb EXCEPT ![s] = sb]
<1>1. f = [data |-> f.data, sb |-> f.sb] /\ f.data \in Seq(FileCells) /\ f.sb \in [Slots -> Sbs \cup {Torn}]
  BY DEF Files
<1>2. g = [data |-> f.data, sb |-> q]
  BY <1>1
<1>3. g.data = f.data /\ g.sb = q
  BY <1>2
<1>4. q[s] = sb /\ (\A t \in Slots : t # s => q[t] = f.sb[t]) /\ DOMAIN q = Slots
  BY <1>1
<1>5. ASSUME sb \in Sbs, SlotOK(sb) PROVE g \in Files /\ FileOK(g)
  <2>1. q \in [Slots -> Sbs \cup {Torn}]
    BY <1>1, <1>5
  <2>2. sb.kind = "sb"
    BY <1>5 DEF Sbs
  <2> HIDE DEF g, q
  <2>3. g \in Files
    BY <1>1, <1>2, <2>1 DEF Files
  <2>4. \A t \in Slots : SlotOK(q[t])
    BY <1>4, <1>5 DEF FileOK
  <2>5. s \in ValidSlots(g)
    BY <1>3, <1>4, <2>2 DEF ValidSlots
  <2> QED  BY <1>3, <2>3, <2>4, <2>5 DEF FileOK
<1>6. ASSUME sb = Torn, s # WinningSlot(f) PROVE g \in Files /\ FileOK(g)
  <2>1. q \in [Slots -> Sbs \cup {Torn}]
    BY <1>1, <1>6
  <2>2. WinningSlot(f) \in ValidSlots(f) /\ WinningSlot(f) \in Slots
    BY BestSbSpec DEF FileOK
  <2> HIDE DEF g, q
  <2>3. g \in Files
    BY <1>1, <1>2, <2>1 DEF Files
  <2>4. \A t \in Slots : SlotOK(q[t])
    BY <1>4, <1>6 DEF FileOK, SlotOK, Torn
  <2>5. WinningSlot(f) \in ValidSlots(g)
    BY <1>3, <1>4, <1>6, <2>2 DEF ValidSlots
  <2> QED  BY <1>3, <2>3, <2>4, <2>5 DEF FileOK
<1> HIDE DEF g, q
<1> QED  BY <1>2, <1>3, <1>5, <1>6 DEF g, q

\* The superblock that a flush writes.
FlushSb == [kind |-> "sb", root |-> RootOffset, revision |-> pf["live"].revision + 1, stale |-> stale,
            blob |-> BlobOffset(disk["live"]), marked |-> marked, lost |-> lost]

\* It has an exact list of stale regions.
LEMMA FlushSbType ==
  ASSUME Types, StaleOK
  PROVE  FlushSb \in Sbs /\ SlotOK(FlushSb) /\ NextSlot \in Slots
         /\ pf["live"].revision \in Nat /\ RootOffset \in Nat
<1>1. pf["live"].revision \in Nat /\ disk["live"] \in Files
  BY DEF Types, PageFiles
<1>2. RootOffset \in Nat
  BY PageFileAssumption DEF Types, TreeOK, NodeOK, RootOffset
<1>3. BlobOffset(disk["live"]) \in Nat /\ marked \in SUBSET Nat /\ stale \in Seq(Regions) /\ lost \in BOOLEAN
  BY <1>1, WithBlobType DEF StaleOK
<1>4. FlushSb \in Sbs
  BY <1>1, <1>2, <1>3 DEF FlushSb, Sbs
<1>5. SlotOK(FlushSb)
  BY DEF FlushSb, SlotOK, StaleOK
<1>6. NextSlot \in Slots
  BY <1>1, Constants DEF NextSlot, Slots
<1> QED  BY <1>1, <1>2, <1>4, <1>5, <1>6

\* A file with the block of stale regions.
LEMMA WithBlobOK ==
  ASSUME Types, StaleOK, FileOK(disk["live"])
  PROVE  /\ WithBlob(disk["live"]) \in Files /\ FileOK(WithBlob(disk["live"]))
         /\ WinningSlot(WithBlob(disk["live"])) = WinningSlot(disk["live"])
<1>1. disk["live"] \in Files /\ stale \in Seq(Regions)
  BY DEF Types, StaleOK
<1>2. WithBlob(disk["live"]) \in Files /\ WithBlob(disk["live"]).sb = disk["live"].sb
  BY <1>1, WithBlobType
<1> QED  BY <1>2 DEF FileOK, ValidSlots, WinningSlot

\* Replacing the live file.
LEMMA LiveReplaced ==
  ASSUME disk \in [{"live", "tmp"} -> Files], \A f \in {"live", "tmp"} : FileOK(disk[f]),
         NEW g \in Files, FileOK(g), disk' = [disk EXCEPT !["live"] = g]
  PROVE  disk' \in [{"live", "tmp"} -> Files] /\ \A f \in {"live", "tmp"} : FileOK(disk'[f])
BY SMT

\* A superblock is written.
LEMMA WriteSuperblockStale ==
  ASSUME StaleInv, WriteSuperblock
  PROVE  StaleInv'
<1>1. Types /\ StaleOK /\ pc = "superblock" /\ \A f \in {"live", "tmp"} : FileOK(disk[f])
  BY DEF StaleInv, WriteSuperblock
<1> DEFINE f == disk["live"]
           g == [WithBlob(f) EXCEPT !.sb[NextSlot] = FlushSb]
<1>2. disk' = [disk EXCEPT !["live"] = g]
  BY Zenon DEF WriteSuperblock, NextSlot, FlushSb
<1>3. g \in Files /\ FileOK(g)
  BY <1>1, WithBlobOK, FlushSbType, SlotWrite
<1>4. disk' \in [{"live", "tmp"} -> Files] /\ \A t \in {"live", "tmp"} : FileOK(disk'[t])
  <2>1. disk \in [{"live", "tmp"} -> Files]
    BY <1>1 DEF Types
  <2> HIDE DEF g
  <2> QED  BY <1>1, <1>2, <1>3, <2>1, LiveReplaced
<1>5. pf' \in [{"live", "tmp"} -> PageFiles]
  <2>1. pf' = [pf EXCEPT !["live"].revision = pf["live"].revision + 1] /\ pf["live"].revision + 1 \in Nat
    BY <1>1, FlushSbType DEF WriteSuperblock
  <2> QED  BY <1>1, <2>1 DEF Types, PageFiles
<1>6. TreeOK(tree')
  BY <1>1, RootCleared DEF WriteSuperblock, Types
<1>7. UNCHANGED <<stale, list, at, marked, lost>> /\ pc' \in {"idle", "close", "walk"}
  BY DEF WriteSuperblock
<1>8. Types'
  BY <1>1, <1>4, <1>5, <1>6, <1>7 DEF Types, Writing, WriteOK
<1> QED  BY <1>1, <1>4, <1>7, <1>8 DEF StaleInv, StaleOK

\* The end of a destroy.
LEMMA CloseStale ==
  ASSUME StaleInv, Close
  PROVE  StaleInv'
<1>1. UNCHANGED <<disk, pf, stale, list, at, marked, lost>> /\ pc' = "idle" /\ tree' = EmptyTree
  BY DEF Close
<1>2. Types'
  BY <1>1, EmptyTreeOK DEF StaleInv, Types, Writing, WriteOK
<1> QED  BY <1>1, <1>2 DEF StaleInv, StaleOK

\* The vacuum begins its walk.
LEMMA StartWalkStale ==
  ASSUME StaleInv, StartWalk
  PROVE  StaleInv'
<1>1. Types /\ \A f \in {"live", "tmp"} : FileOK(disk[f])
  BY DEF StaleInv
<1>2. disk' = [disk EXCEPT !["tmp"] = NewFile] /\ pf' = [pf EXCEPT !["tmp"] = NewPf]
      /\ list' \in Deepest(Nodes) /\ at' = 1 /\ pc' = "serialize" /\ UNCHANGED <<stale, tree, marked, lost>>
  BY DEF StartWalk, history
<1>3. disk' \in [{"live", "tmp"} -> Files] /\ pf' \in [{"live", "tmp"} -> PageFiles]
      /\ \A f \in {"live", "tmp"} : FileOK(disk'[f])
  BY <1>1, <1>2, NewFileOK DEF Types
<1>4. list' \in Seq(Nodes) /\ at' \in 1 .. Len(list') /\ at' \in Nat
  <2>1. list' \in Seq(Nodes) /\ list' # <<>>
    BY <1>2, DeepestType, PageFileAssumption
  <2> QED  BY <1>2, <2>1
<1>5. Types'
  BY <1>1, <1>2, <1>3, <1>4 DEF Types, Writing, WriteOK
<1> QED  BY <1>2, <1>3, <1>5 DEF StaleInv, StaleOK

\* The walk goes on after a node.
LEMMA WalkWrittenStale ==
  ASSUME StaleInv, WalkWritten
  PROVE  StaleInv'
<1>1. Types /\ pc = "written" /\ Writing /\ at \in 1 .. Len(list) /\ list \in Seq(Nodes)
  BY DEF StaleInv, Types, Writing, WalkWritten
<1>2. /\ tree' = Repoint([tree EXCEPT ![w.node] = Placed(@, w.offset, FALSE)], w.node, w.offset, FALSE)
      /\ at' = at + 1 /\ pc' = IF at < Len(list) THEN "serialize" ELSE "tmp_superblock"
      /\ UNCHANGED <<disk, pf, list, stale, marked, lost>>
  BY Zenon DEF WalkWritten, Placed
<1>3. TreeOK(tree')
  BY <1>1, <1>2, PlacedTree
<1>4. /\ pc' \in {"serialize", "tmp_superblock"} /\ at' \in Nat
      /\ pc' = "serialize" => at' \in 1 .. Len(list')
  <2>1. Len(list) \in Nat
    BY <1>1
  <2> QED  BY <1>1, <1>2, <2>1
<1>5. Types'
  BY <1>1, <1>2, <1>3, <1>4 DEF Types, Writing, WriteOK
<1> QED  BY <1>2, <1>5 DEF StaleInv, StaleOK

\* The superblock of the vacuum's file.
TmpSb == [NewSb EXCEPT !.root = RootOffset, !.revision = 1]

\* It has an empty list.
LEMMA TmpSbType ==
  ASSUME Types, StaleOK
  PROVE  /\ TmpSb = [kind |-> "sb", root |-> RootOffset, revision |-> 1, stale |-> <<>>, blob |-> 0, marked |-> {},
            lost |-> FALSE]
         /\ TmpSb \in Sbs /\ SlotOK(TmpSb) /\ 1 % NumSuperblocks \in Slots
<1> DEFINE R(a1, a2, a3, a4, a5, a6, a7) ==
             [kind |-> a1, root |-> a2, revision |-> a3, stale |-> a4, blob |-> a5, marked |-> a6, lost |-> a7]
<1>1. PICK a1, a2, a3, a4, a5, a6, a7 : /\ NewSb = R(a1, a2, a3, a4, a5, a6, a7)
                                       /\ a1 = "sb" /\ a4 = <<>> /\ a5 = 0 /\ a6 = {} /\ a7 = FALSE
  <2>1. NewSb = R("sb", 0, 0, <<>>, 0, {}, FALSE)
    BY DEF NewSb
  <2> HIDE DEF R
  <2> QED  BY <2>1
<1> DEFINE r == RootOffset
           one == 1
           y == [NewSb EXCEPT !.root = r]
<1> HIDE DEF r, one
<1>2. y = R(a1, r, a3, a4, a5, a6, a7)
  <2>1. NewSb = R(a1, a2, a3, a4, a5, a6, a7)
    BY <1>1
  <2> QED  BY <2>1
<1> HIDE DEF y
<1>a. [y EXCEPT !.revision = one] = R(a1, r, one, a4, a5, a6, a7)
  BY <1>2
<1>b. TmpSb = [y EXCEPT !.revision = one]
  BY Zenon DEF TmpSb, y, one, r
<1>3. TmpSb = [kind |-> "sb", root |-> RootOffset, revision |-> 1, stale |-> <<>>, blob |-> 0, marked |-> {},
            lost |-> FALSE]
  BY <1>1, <1>a, <1>b, Zenon DEF one, r
<1>4. TmpSb \in Sbs
  BY <1>3, FlushSbType DEF Sbs
<1>5. SlotOK(TmpSb)
  BY <1>3 DEF SlotOK, Canonical, Covered
<1>6. 1 % NumSuperblocks \in Slots
  BY Constants DEF Slots
<1> QED  BY <1>3, <1>4, <1>5, <1>6

\* The vacuum's file gets its superblock.
LEMMA WriteTmpSuperblockStale ==
  ASSUME StaleInv, WriteTmpSuperblock
  PROVE  StaleInv'
<1>1. Types /\ StaleOK /\ \A f \in {"live", "tmp"} : FileOK(disk[f])
  BY DEF StaleInv
<1> DEFINE g == [disk["tmp"] EXCEPT !.sb[1 % NumSuperblocks] = TmpSb]
<1>2. disk' = [disk EXCEPT !["tmp"] = g]
  BY Zenon DEF WriteTmpSuperblock, TmpSb
<1>3. g \in Files /\ FileOK(g)
  <2>1. disk["tmp"] \in Files
    BY <1>1 DEF Types
  <2> QED  BY <1>1, <2>1, TmpSbType, SlotWrite
<1> HIDE DEF g
<1>4. disk' \in [{"live", "tmp"} -> Files] /\ \A t \in {"live", "tmp"} : FileOK(disk'[t])
  BY <1>1, <1>2, <1>3 DEF Types
<1>5. UNCHANGED <<pf, stale, tree, list, at, marked, lost>> /\ pc' = "swap"
  BY DEF WriteTmpSuperblock, history
<1>6. Types'
  BY <1>1, <1>4, <1>5 DEF Types, Writing, WriteOK
<1> QED  BY <1>4, <1>5, <1>6 DEF StaleInv, StaleOK

\* The end of a file as a position.
LEMMA EndOfType ==
  ASSUME NEW f \in Files
  PROVE  EndOf(f).cur_bid \in Nat /\ EndOf(f).cur_offset \in 0 .. (BlockSize - 1)
         /\ FileSize(f) = EndOf(f).cur_bid * BlockSize + EndOf(f).cur_offset
         /\ FileSize(f) \in Nat
<1>1. FileSize(f) \in Nat
  BY Constants DEF FileSize, Files
<1>2. ASSUME NEW a \in Nat, NEW b \in Nat \ {0}
      PROVE  a \div b \in Nat /\ a % b \in 0 .. (b - 1) /\ a = (a \div b) * b + (a % b)
  <2>1. a \div b \in Nat /\ a % b \in 0 .. (b - 1)
    OBVIOUS
  <2>2. a = b * (a \div b) + (a % b)
    OBVIOUS
  <2> QED  BY <2>1, <2>2
<1> DEFINE a == FileSize(f)
           b == BlockSize
<1>3. EndOf(f).cur_bid = a \div b /\ EndOf(f).cur_offset = a % b
  BY DEF EndOf
<1>4. a \in Nat /\ b \in Nat \ {0}
  BY <1>1, Constants
<1> HIDE DEF a, b
<1>5. a \div b \in Nat /\ a % b \in 0 .. (b - 1) /\ a = (a \div b) * b + (a % b)
  BY <1>2, <1>4
<1> QED  BY <1>3, <1>4, <1>5 DEF a, b

\* The vacuum's file takes the place of the live one.
LEMMA SwapStale ==
  ASSUME StaleInv, Swap
  PROVE  StaleInv'
<1>1. Types /\ \A f \in {"live", "tmp"} : FileOK(disk[f])
  BY DEF StaleInv
<1> DEFINE e == EndOf(disk["tmp"])
           p == [cur_bid |-> e.cur_bid, cur_offset |-> e.cur_offset, revision |-> pf["live"].revision + 1]
<1>2. /\ disk' = [disk EXCEPT !["live"] = disk["tmp"], !["tmp"] = NewFile]
      /\ pf' = [pf EXCEPT !["live"] = p, !["tmp"] = NewPf]
      /\ stale' = <<>> /\ marked' = {} /\ lost' = FALSE /\ pc' = "idle" /\ list' = <<>> /\ at' = 0 /\ UNCHANGED tree
  BY Zenon DEF Swap
<1>3. p \in PageFiles
  <2>1. disk["tmp"] \in Files /\ pf["live"].revision \in Nat
    BY <1>1 DEF Types, PageFiles
  <2>2. e.cur_bid \in Nat /\ e.cur_offset \in 0 .. BlockSize
    <3>1. e.cur_bid \in Nat /\ e.cur_offset \in 0 .. (BlockSize - 1)
      BY <2>1, EndOfType
    <3> QED  BY <3>1, Constants
  <2> HIDE DEF e
  <2> QED  BY <2>1, <2>2 DEF PageFiles
<1> HIDE DEF p
<1>4. disk' \in [{"live", "tmp"} -> Files] /\ pf' \in [{"live", "tmp"} -> PageFiles]
      /\ \A f \in {"live", "tmp"} : FileOK(disk'[f])
  BY <1>1, <1>2, <1>3, NewFileOK DEF Types
<1>5. StaleOK'
  BY <1>2, EmptyStaleNext
<1>6. Types'
  BY <1>1, <1>2, <1>4 DEF Types, Writing, WriteOK
<1> QED  BY <1>4, <1>5, <1>6 DEF StaleInv

\* A superblock that is not finished leaves the live file with one.
LEMMA HalfWrittenOK ==
  ASSUME StaleInv, NEW g \in Interrupted, "lone_slot" \notin Rare(g)
  PROVE  g \in Files /\ FileOK(g)
<1>1. Types /\ StaleOK /\ FileOK(disk["live"]) /\ disk["live"] \in Files
  BY DEF StaleInv, Types
<1> DEFINE f == disk["live"]
           h == [WithBlob(f) EXCEPT !.sb[NextSlot] = Torn]
<1>2. WithBlob(f) \in Files /\ FileOK(WithBlob(f)) /\ WinningSlot(WithBlob(f)) = WinningSlot(f)
  BY <1>1, WithBlobOK
<1>3. NextSlot \in Slots
  BY <1>1, FlushSbType
<1>4. /\ NextSlot # WinningSlot(f) => h \in Files /\ FileOK(h)
      /\ h.sb = [WithBlob(f).sb EXCEPT ![NextSlot] = Torn] /\ DOMAIN WithBlob(f).sb = Slots
  BY <1>2, <1>3, SlotWrite DEF Files
<1>5. g = f \/ g = WithBlob(f) \/ g = h
  BY Zenon DEF Interrupted, HalfWritten
<1> HIDE DEF h
<1>6. g = h => NextSlot # WinningSlot(f)
  BY <1>3, <1>4 DEF Rare
<1>7. CASE g = h
  BY <1>4, <1>6, <1>7, Zenon
<1>8. CASE g = f \/ g = WithBlob(f)
  BY <1>1, <1>2, <1>8, Zenon
<1> QED  BY <1>5, <1>7, <1>8

\* A write that fails.
LEMMA WriteFailsStale ==
  ASSUME StaleInv, "lone_slot" \notin odd', WriteFails
  PROVE  StaleInv'
<1>1. Types /\ \A f \in {"live", "tmp"} : FileOK(disk[f])
  BY DEF StaleInv
<1>2. PICK g \in Interrupted : disk' = [live |-> g, tmp |-> NewFile] /\ "lone_slot" \notin Rare(g)
  BY DEF WriteFails
<1>3. g \in Files /\ FileOK(g)
  BY <1>2, HalfWrittenOK
<1>4. disk' \in [{"live", "tmp"} -> Files] /\ \A f \in {"live", "tmp"} : FileOK(disk'[f])
  BY <1>2, <1>3, NewFileOK
<1>5. pf' \in [{"live", "tmp"} -> PageFiles]
  BY <1>1, NewFileOK DEF WriteFails, Types
<1>6. TreeOK(tree')
  <2>1. tree' \in {EmptyTree, [tree EXCEPT ![Root].hb_dirty = FALSE], tree}
    BY Zenon DEF WriteFails
  <2> QED  BY <1>1, <2>1, EmptyTreeOK, RootCleared DEF Types
<1>7. UNCHANGED <<stale, marked, lost>> /\ pc' = "idle" /\ list' = <<>> /\ at' = 0
  BY DEF WriteFails, GiveUp, history
<1>8. Types'
  BY <1>4, <1>5, <1>6, <1>7 DEF Types, Writing, WriteOK
<1> QED  BY <1>4, <1>7, <1>8 DEF StaleInv, StaleOK

\* The process dies.
LEMMA CrashStale ==
  ASSUME StaleInv, "lone_slot" \notin odd', Crash
  PROVE  StaleInv'
<1>1. Types /\ \A f \in {"live", "tmp"} : FileOK(disk[f])
  BY DEF StaleInv
<1>2. PICK g \in Interrupted : disk' = [disk EXCEPT !["live"] = g] /\ "lone_slot" \notin Rare(g)
  BY DEF Crash
<1>3. g \in Files /\ FileOK(g)
  BY <1>2, HalfWrittenOK
<1>4. disk' \in [{"live", "tmp"} -> Files] /\ \A f \in {"live", "tmp"} : FileOK(disk'[f])
  BY <1>1, <1>2, <1>3, LiveReplaced DEF Types
<1>5. UNCHANGED <<stale, marked, lost, pf>> /\ pc' = "idle" /\ list' = <<>> /\ at' = 0 /\ tree' = EmptyTree
  BY DEF Crash, GiveUp, history
<1>6. Types'
  BY <1>1, <1>4, <1>5, EmptyTreeOK DEF Types, Writing, WriteOK
<1> QED  BY <1>4, <1>5, <1>6 DEF StaleInv, StaleOK

\* A node that was loaded.
Opened(n, x) == [EmptyNode(n) EXCEPT !.ver = x.ver, !.size = x.size, !.kids = x.kids, !.disk_offset = x.offset]

\* It is clean, with what the file holds.
LEMMA OpenedSpec ==
  ASSUME NEW n \in Nodes, NEW x
  PROVE  Opened(n, x) = Node(x.ver, x.size, x.offset, FALSE, FALSE, x.kids)
<1>1. PICK a1, a2, a3, a4, a5, a6 :
        /\ EmptyNode(n) = Node(a1, a2, a3, a4, a5, a6) /\ a4 = FALSE /\ a5 = FALSE
  <2>1. EmptyNode(n) = Node(0, EmptyNode(n).size, None, FALSE, FALSE, EmptyNode(n).kids)
    BY DEF EmptyNode, Node
  <2> QED  BY <2>1
<1> DEFINE v == x.ver
           z == x.size
           k == x.kids
           o == x.offset
           e == EmptyNode(n)
           y1 == [e EXCEPT !.ver = v]
           y2 == [y1 EXCEPT !.size = z]
           y3 == [y2 EXCEPT !.kids = k]
           y4 == [y3 EXCEPT !.disk_offset = o]
<1>2. e = Node(a1, a2, a3, a4, a5, a6)
  BY <1>1
<1> HIDE DEF v, z, k, o, e
<1>3. y1 = Node(v, a2, a3, a4, a5, a6)
  BY <1>2 DEF Node
<1> HIDE DEF y1
<1>4. y2 = Node(v, z, a3, a4, a5, a6)
  BY <1>3 DEF Node
<1> HIDE DEF y2
<1>5. y3 = Node(v, z, a3, a4, a5, k)
  BY <1>4 DEF Node
<1> HIDE DEF y3
<1>6. y4 = Node(v, z, o, a4, a5, k)
  BY <1>5 DEF Node
<1> HIDE DEF y4
<1>7. Opened(n, x) = y4
  BY Zenon DEF Opened, v, z, k, o, e, y1, y2, y3, y4
<1> QED  BY <1>1, <1>6, <1>7, Zenon DEF v, z, k, o

\* What page_file_open does, with names for its parts.
LEMMA OpenSpec ==
  ASSUME Open
  PROVE  LET f == disk["live"]
             sb == BestSb(f)
             found == sb.blob = 0 \/ CellAt(f, sb.blob) = [kind |-> "blob", regions |-> sb.stale]
         IN /\ phase = "down" /\ phase' = "up"
            /\ disk' = [disk EXCEPT !["tmp"] = NewFile]
            /\ pf' = [live |-> [cur_bid |-> EndOf(f).cur_bid, cur_offset |-> EndOf(f).cur_offset,
                                revision |-> sb.revision],
                      tmp |-> NewPf]
            /\ stale' = IF found THEN sb.stale ELSE <<>>
            /\ marked' = sb.marked /\ lost' = (sb.lost \/ ~found)
            /\ tree' = [n \in Nodes |-> IF Loaded(f, sb)[n].kind = "bad" THEN EmptyNode(n)
                                        ELSE Opened(n, Loaded(f, sb)[n])]
            /\ flushed' = [n \in Nodes |-> tree'[n].ver]
            /\ closed' = NotClosed
            /\ UNCHANGED <<pc, reason, passes, list, at, w, updates, flushes, faults, saved>>
BY Zenon DEF Open, Opened, flusher, counts

\* The next life begins.
LEMMA OpenStale ==
  ASSUME StaleInv, Open
  PROVE  StaleInv'
<1>1. Types /\ StaleOK /\ \A f \in {"live", "tmp"} : FileOK(disk[f])
  BY DEF StaleInv
<1> DEFINE f == disk["live"]
           sb == BestSb(f)
           p == [cur_bid |-> EndOf(f).cur_bid, cur_offset |-> EndOf(f).cur_offset, revision |-> sb.revision]
           found == sb.blob = 0 \/ CellAt(f, sb.blob) = [kind |-> "blob", regions |-> sb.stale]
<1>2. f \in Files /\ FileOK(f)
  BY <1>1 DEF Types
<1>3. sb \in Sbs /\ SlotOK(sb) /\ sb.kind = "sb"
  <2>1. ValidSlots(f) # {}
    BY <1>2 DEF FileOK
  <2>2. sb \in Sbs /\ sb = f.sb[WinningSlot(f)] /\ WinningSlot(f) \in Slots
    BY <1>2, <2>1, BestSbSpec
  <2> QED  BY <1>2, <2>2 DEF FileOK, Sbs
<1>4. sb.revision \in Nat /\ sb.stale \in Seq(Regions) /\ Canonical(sb.stale)
      /\ sb.marked \in SUBSET Nat /\ Covered(sb.stale) \subseteq sb.marked
      /\ sb.lost \in BOOLEAN /\ (~sb.lost => Covered(sb.stale) = sb.marked)
  BY <1>3 DEF Sbs, SlotOK
<1>5. StaleOK'
  <2>1. stale' = (IF found THEN sb.stale ELSE <<>>) /\ marked' = sb.marked /\ lost' = (sb.lost \/ ~found)
    BY OpenSpec
  <2> HIDE DEF found, sb
  <2>4. CASE found
    <3>1. stale' = sb.stale /\ marked' = sb.marked
      BY <2>1, <2>4
    <3>2. lost' \in BOOLEAN /\ (~lost' => ~sb.lost)
      BY <2>1, Zenon
    <3> QED  BY <1>4, <3>1, <3>2, Zenon DEF StaleOK
  <2>5. CASE ~found
    <3>1. stale' = <<>> /\ marked' = sb.marked
      BY <2>1, <2>5
    <3>2. lost' \in BOOLEAN /\ lost' /\ {} \subseteq sb.marked
      BY <2>1, <2>5, Zenon
    <3> QED  BY <1>4, <3>1, <3>2, EmptyList, Zenon DEF StaleOK
  <2> QED  BY <2>4, <2>5
<1>6. p \in PageFiles
  <2>1. EndOf(f).cur_bid \in Nat /\ EndOf(f).cur_offset \in 0 .. (BlockSize - 1)
    BY <1>2, EndOfType
  <2>2. EndOf(f).cur_offset \in 0 .. BlockSize
    BY <2>1, Constants
  <2> HIDE DEF f, sb
  <2> QED  BY <1>4, <2>1, <2>2 DEF PageFiles
<1>7. pf' \in [{"live", "tmp"} -> PageFiles]
  <2>1. pf' = [live |-> p, tmp |-> NewPf]
    BY OpenSpec
  <2> HIDE DEF p
  <2> QED  BY <1>6, <2>1, NewFileOK
<1>8. disk' \in [{"live", "tmp"} -> Files] /\ \A t \in {"live", "tmp"} : FileOK(disk'[t])
  <2>1. disk' = [disk EXCEPT !["tmp"] = NewFile]
    BY OpenSpec
  <2> QED  BY <1>1, <2>1, NewFileOK DEF Types
<1>9. TreeOK(tree')
  <2> DEFINE X(n) == IF Loaded(f, sb)[n].kind = "bad" THEN EmptyNode(n) ELSE Opened(n, Loaded(f, sb)[n])
  <2>1. tree' = [n \in Nodes |-> X(n)]
    BY OpenSpec
  <2>2. ASSUME NEW n \in Nodes PROVE NodeOK(n, X(n))
    <3> DEFINE x == Loaded(f, sb)[n]
    <3>1. x = Bad \/ /\ x.kind = "content" /\ x.node = n /\ x.ver \in Nat /\ x.size \in Nat \ {0}
                     /\ x.kids \in [Children(n) -> Nat] /\ x.offset \in Nat \cup {None}
      BY <1>2, <1>3, LoadedType
    <3>2. CASE x = Bad
      BY <3>2, EmptyNodeOK DEF Bad
    <3>3. CASE x # Bad
      <4> HIDE DEF x
      <4>1. Opened(n, x) = Node(x.ver, x.size, x.offset, FALSE, FALSE, x.kids)
        BY OpenedSpec
      <4> DEFINE y == Opened(n, x)
      <4> HIDE DEF y
      <4>2. NodeOK(n, y)
        <5>1. y = Node(x.ver, x.size, x.offset, FALSE, FALSE, x.kids)
          BY <4>1 DEF y
        <5> QED  BY <3>1, <3>3, <5>1 DEF NodeOK, Node
      <4>3. X(n) = y
        BY <3>1, <3>3 DEF x, y
      <4> QED  BY <4>2, <4>3
    <3> QED  BY <3>2, <3>3
  <2> HIDE DEF X
  <2> QED  BY <2>1, <2>2 DEF TreeOK
<1>10. UNCHANGED <<pc, list, at, w>>
  BY OpenSpec
<1>11. Types'
  BY <1>1, <1>7, <1>8, <1>9, <1>10 DEF Types, Writing, WriteOK
<1> QED  BY <1>5, <1>8, <1>11 DEF StaleInv

\* Every step keeps the lists exact.
LEMMA StaleNext ==
  ASSUME StaleInv, "lone_slot" \notin odd', [Next]_vars
  PROVE  StaleInv'
<1>1. CASE Next
  BY <1>1, UpdateStale, StartFlushStale, CollectStale, SerializeStale, WriteChunkStale, WriteMetaStale,
     FlushWrittenStale, ClearDirtyStale, WriteSuperblockStale, CloseStale, StartWalkStale, WalkWrittenStale,
     WriteTmpSuperblockStale, SwapStale, WriteFailsStale, CrashStale, OpenStale DEF Next, FlusherStep
<1>2. CASE UNCHANGED vars
  BY <1>2 DEF StaleInv, StaleOK, Types, Writing, WriteOK, vars, flusher, history
<1> QED  BY <1>1, <1>2

\* What has happened stays so.
LEMMA OddGrows ==
  ASSUME [Next]_vars
  PROVE  odd \subseteq odd'
<1>1. CASE \E n \in Nodes, z \in Sizes : Update(n, z)
  BY <1>1 DEF Update
<1>2. CASE \E why \in {"snapshot", "close", "vacuum"} : StartFlush(why)
  BY <1>2 DEF StartFlush, history
<1>3. CASE FlusherStep
  BY <1>3 DEF FlusherStep, Collect, Serialize, WriteChunk, WriteMeta, FlushWritten, ClearDirty, WriteSuperblock,
              Close, StartWalk, WalkWritten, WriteTmpSuperblock, Swap, history
<1>4. CASE WriteFails \/ Crash \/ Open
  BY <1>4 DEF WriteFails, Crash, Open
<1>5. CASE UNCHANGED vars
  BY <1>5 DEF vars, history
<1> QED  BY <1>1, <1>2, <1>3, <1>4, <1>5 DEF Next

\* The list of stale regions is sound (StaleExact): for every tree, block size and number
\* of superblocks, through flushes, vacuums, writers beside them, failed writes, crashes at
\* any step and reopened files, the list in memory is sorted with gaps, covers only cells
\* that were marked, its total is their number, and no marked cell is missing unless
\* page_file_open has not found the list; until a file's only superblock is torn.
THEOREM StaleIsExact == Spec => []("lone_slot" \notin odd => StaleExact)
<1> DEFINE Inv == "lone_slot" \notin odd => StaleInv
<1>1. Init => Inv
  BY StaleInit
<1>2. Inv /\ [Next]_vars => Inv'
  BY StaleNext, OddGrows
<1>3. Inv => ("lone_slot" \notin odd => StaleExact)
  BY TotalIsCovered DEF StaleInv, StaleOK, StaleExact
<1> HIDE DEF Inv
<1> QED
  BY <1>1, <1>2, <1>3, PTL DEF Spec

-----------------------------------------------------------------------------
(***************************************************************************)
(* Blocks and positions.                                                   *)
(***************************************************************************)

\* A position has one block and one offset in it.
LEMMA BlockMod ==
  ASSUME NEW b \in Nat, NEW x \in 0 .. (BlockSize - 1)
  PROVE  /\ b * BlockSize + x \in Nat
         /\ (b * BlockSize + x) % BlockSize = x
         /\ IsMetaPos(b * BlockSize + x) <=> x = BlockSize - 1
<1>1. ASSUME NEW s \in Nat, s > 2, NEW y \in 0 .. (s - 1)
      PROVE  b * s + y \in Nat /\ (b * s + y) % s = y
  <2> DEFINE a == b * s + y
             q == a \div s
             r == a % s
  <2>1. a \in Nat
    BY <1>1
  <2>2. q \in Nat /\ r \in 0 .. (s - 1) /\ a = s * q + r
    <3> HIDE DEF a
    <3>1. s \in Nat \ {0}
      BY <1>1
    <3>2. a \div s \in Nat /\ a % s \in 0 .. (s - 1)
      BY <2>1, <3>1
    <3>3. a = s * (a \div s) + (a % s)
      BY <2>1, <3>1
    <3> QED  BY <3>2, <3>3 DEF q, r
  <2> HIDE DEF q, r
  <2>3. q = b
    <3>1. ASSUME q < b PROVE FALSE
      <4>1. s * (q + 1) <= s * b
        BY <1>1, <2>2, <3>1
      <4> QED  BY <1>1, <2>2, <4>1
    <3>2. ASSUME q > b PROVE FALSE
      <4>1. s * (b + 1) <= s * q
        BY <1>1, <2>2, <3>2
      <4> QED  BY <1>1, <2>2, <4>1
    <3> QED  BY <3>1, <3>2, <2>2
  <2>4. r = y
    BY <1>1, <2>2, <2>3
  <2> QED  BY <2>1, <2>4 DEF r
<1>2. b * BlockSize + x \in Nat /\ (b * BlockSize + x) % BlockSize = x
  BY <1>1, Constants
<1> QED  BY <1>2 DEF IsMetaPos, MetaSize

\* A block after another one begins at or after its end.
LEMMA BlockLess ==
  ASSUME NEW a \in Nat, NEW b \in Nat, a < b
  PROVE  (a + 1) * BlockSize <= b * BlockSize /\ (a + 1) * BlockSize = a * BlockSize + BlockSize
<1>1. ASSUME NEW s \in Nat PROVE (a + 1) * s <= b * s /\ (a + 1) * s = a * s + s
  OBVIOUS
<1> QED  BY <1>1, Constants

\* Two blocks in the order of their first cells.
LEMMA BlockOrder ==
  ASSUME NEW a \in Nat, NEW b \in Nat, NEW x \in Nat, a * BlockSize + x <= b * BlockSize
  PROVE  a <= b /\ (x > 0 => a < b)
<1>1. ASSUME b < a PROVE FALSE
  <2>1. (b + 1) * BlockSize <= a * BlockSize /\ (b + 1) * BlockSize = b * BlockSize + BlockSize
    BY <1>1, BlockLess
  <2>2. a * BlockSize \in Nat /\ b * BlockSize \in Nat
    BY Constants
  <2> QED  BY <2>1, <2>2, Constants
<1>2. a * BlockSize \in Nat /\ b * BlockSize \in Nat
  BY Constants
<1>3. x > 0 => a # b
  BY <1>2
<1> QED  BY <1>1, <1>3

-----------------------------------------------------------------------------
(***************************************************************************)
(* What is in the file stays there.                                        *)
(***************************************************************************)

\* g has all that f has before lim.
Grows(f, g, lim) == \A p \in Nat : p < lim /\ CellAt(f, p) # Hole => CellAt(g, p) = CellAt(f, p)

\* A write at or after lim.
LEMMA WriteGrows ==
  ASSUME NEW f \in Files, NEW g \in Files, NEW lim \in Nat, NEW o \in Nat, lim <= o, Base <= o,
         NEW cs \in Seq(FileCells), g.data = PWrite(f.data, o, cs)
  PROVE  /\ Grows(f, g, lim)
         /\ \A i \in 1 .. Len(cs) : CellAt(g, o + i - 1) = cs[i]
         /\ FileSize(g) = Greater(FileSize(f), o + Len(cs))
<1> DEFINE d == PWrite(f.data, o, cs)
<1>1. f.data \in Seq(FileCells) /\ Len(f.data) \in Nat /\ Len(cs) \in Nat /\ o \in Int
  BY DEF Files
<1>2. /\ Len(d) = Greater(Len(f.data), o - Base + Len(cs))
      /\ \A i \in 1 .. Len(d) : d[i] =
              IF i > o - Base /\ i <= o - Base + Len(cs) THEN cs[i - (o - Base)]
              ELSE IF i <= Len(f.data) THEN f.data[i] ELSE Hole
      /\ d \in Seq(FileCells)
  BY <1>1, PWriteType
<1> HIDE DEF d
<1>3. g.data = d /\ Len(d) \in Nat /\ Base \in Nat
  BY <1>2, Constants DEF d
<1>4. Grows(f, g, lim)
  <2> SUFFICES ASSUME NEW p \in Nat, p < lim, CellAt(f, p) # Hole PROVE CellAt(g, p) = CellAt(f, p)
    BY DEF Grows
  <2>1. p - Base + 1 \in 1 .. Len(f.data) /\ CellAt(f, p) = f.data[p - Base + 1]
    BY DEF CellAt
  <2>2. p - Base + 1 \in 1 .. Len(d)
    BY <1>1, <1>2, <1>3, <2>1 DEF Greater
  <2>3. d[p - Base + 1] = f.data[p - Base + 1]
    BY <1>1, <1>2, <1>3, <2>1, <2>2
  <2> QED  BY <1>3, <2>1, <2>2, <2>3 DEF CellAt
<1>5. ASSUME NEW i \in 1 .. Len(cs) PROVE CellAt(g, o + i - 1) = cs[i]
  <2> DEFINE k == (o + i - 1) - Base + 1
  <2>1. k \in 1 .. Len(d) /\ k - (o - Base) = i /\ k > o - Base /\ k <= o - Base + Len(cs)
    BY <1>1, <1>2, <1>3 DEF Greater
  <2>2. CellAt(g, o + i - 1) = d[k]
    BY <1>3, <2>1 DEF CellAt
  <2> HIDE DEF k
  <2>3. d[k] = cs[k - (o - Base)]
    BY <1>2, <2>1
  <2> QED  BY <2>1, <2>2, <2>3
<1>6. FileSize(g) = Greater(FileSize(f), o + Len(cs))
  <2>1. FileSize(g) = Base + Len(d) /\ FileSize(f) = Base + Len(f.data)
    BY <1>3 DEF FileSize
  <2>2. Len(d) = IF Len(f.data) > o - Base + Len(cs) THEN Len(f.data) ELSE o - Base + Len(cs)
    BY <1>2 DEF Greater
  <2>3. Base + Len(d) = IF Base + Len(f.data) > o + Len(cs) THEN Base + Len(f.data) ELSE o + Len(cs)
    BY <1>1, <1>3, <2>2
  <2> QED  BY <2>1, <2>3 DEF Greater
<1> QED  BY <1>4, <1>5, <1>6

\* Only what is before the end of the file can be read.
LEMMA CellInside ==
  ASSUME NEW f \in Files, NEW p \in Nat, CellAt(f, p) # Hole
  PROVE  p < FileSize(f) /\ p >= Base
<1>1. Len(f.data) \in Nat /\ Base \in Nat
  BY Constants DEF Files
<1>2. p - Base + 1 \in 1 .. Len(f.data)
  BY DEF CellAt
<1> QED  BY <1>1, <1>2 DEF FileSize

\* The block with the list of stale regions is after all else, at the end of the file.
LEMMA BlobGrows ==
  ASSUME NEW f \in Files, stale \in Seq(Regions)
  PROVE  /\ \A lim \in Nat : Grows(f, WithBlob(f), lim)
         /\ FileSize(WithBlob(f)) = FileSize(f)
            \/ \E b \in Nat : FileSize(WithBlob(f)) = b * BlockSize /\ FileSize(f) <= b * BlockSize
<1>1. CASE Len(stale) <= InlineRegions
  <2>1. WithBlob(f) = f
    BY <1>1 DEF WithBlob
  <2> QED  BY <2>1 DEF Grows
<1>2. CASE ~(Len(stale) <= InlineRegions)
  <2> DEFINE s == FileSize(f)
             k == (s + BlockSize - 1) \div BlockSize
             o == k * BlockSize
             blob == [kind |-> "blob", regions |-> stale]
             h == <<Hole>>
             bs == <<blob>>
             e == o + BlockSize - 1
             d1 == PWrite(f.data, e, h)
             d2 == PWrite(d1, o, bs)
             g1 == [data |-> d1, sb |-> f.sb]
  <2>1. f.data \in Seq(FileCells) /\ f.sb \in [Slots -> Sbs \cup {Torn}] /\ f = [data |-> f.data, sb |-> f.sb]
    BY DEF Files
  <2>2. s \in Nat /\ s >= Base /\ Base \in Nat /\ BlockSize \in Nat /\ BlockSize > 2
    <3>1. Len(f.data) \in Nat
      BY <2>1
    <3> QED  BY <3>1, Constants DEF FileSize
  <2>3. k \in Nat /\ o \in Nat /\ s <= o
    <3> DEFINE a == s + BlockSize - 1
    <3> HIDE DEF s
    <3>1. a \in Nat /\ BlockSize \in Nat \ {0}
      BY <2>2
    <3> HIDE DEF a
    <3>2. a \div BlockSize \in Nat /\ a % BlockSize \in 0 .. (BlockSize - 1)
      BY <3>1
    <3>3. a = BlockSize * (a \div BlockSize) + (a % BlockSize)
      BY <3>1
    <3>4. k = a \div BlockSize
      BY DEF a
    <3> HIDE DEF k
    <3>5. o \in Nat /\ o = BlockSize * (a \div BlockSize)
      BY <3>1, <3>2, <3>4
    <3> HIDE DEF o
    <3>6. BlockSize * (a \div BlockSize) \in Int /\ a % BlockSize \in Int /\ a % BlockSize <= BlockSize - 1
      BY <3>2, <3>5, <2>2
    <3>7. s <= o
      <4> DEFINE y == a % BlockSize
                 z == BlockSize * (a \div BlockSize)
      <4>1. a = z + y /\ y \in Int /\ y <= BlockSize - 1 /\ o = z /\ z \in Int
        BY <3>2, <3>3, <3>5, <3>6
      <4> HIDE DEF y, z
      <4>2. a = s + BlockSize - 1
        BY DEF a
      <4> QED  BY <2>2, <4>1, <4>2
    <3> QED  BY <3>2, <3>4, <3>5, <3>7
  <2>4. WithBlob(f).data = d2 /\ WithBlob(f) \in Files
    <3>1. WithBlob(f) = [f EXCEPT !.data = d2]
      BY <1>2 DEF WithBlob
    <3> HIDE DEF d2
    <3>2. [f EXCEPT !.data = d2].data = d2
      BY <2>1
    <3> QED  BY <3>1, <3>2, WithBlobType
  <2> HIDE DEF k
  <2>5. h \in Seq(FileCells) /\ bs \in Seq(FileCells) /\ Len(h) = 1 /\ Len(bs) = 1
    BY DEF FileCells
  <2> HIDE DEF s, o, blob, h, bs
  <2>6. e \in Nat /\ s <= e /\ Base <= e /\ e + 1 = o + BlockSize
    BY <2>2, <2>3
  <2> HIDE DEF e
  <2>7. d1 \in Seq(FileCells)
    BY <2>1, <2>5, <2>6, PWriteType
  <2>8. g1 \in Files /\ g1.data = d1
    <3> HIDE DEF d1
    <3> QED  BY <2>1, <2>7 DEF Files
  <2> HIDE DEF g1
  <2>9. Grows(f, g1, s) /\ FileSize(g1) = Greater(FileSize(f), e + Len(h))
    <3>1. g1.data = PWrite(f.data, e, h)
      BY <2>8
    <3>2. s <= e /\ s \in Nat /\ e \in Nat /\ Base <= e /\ h \in Seq(FileCells) /\ g1 \in Files /\ f \in Files
      BY <2>2, <2>5, <2>6, <2>8
    <3> HIDE DEF d1, d2
    <3> QED  BY ONLY <3>1, <3>2, WriteGrows
  <2>10. Grows(g1, WithBlob(f), s) /\ FileSize(WithBlob(f)) = Greater(FileSize(g1), o + Len(bs))
    <3> HIDE DEF d1
    <3>1. WithBlob(f).data = PWrite(g1.data, o, bs)
      BY <2>4, <2>8
    <3>2. Base <= o
      BY <2>2, <2>3
    <3>3. s <= o /\ s \in Nat /\ o \in Nat /\ bs \in Seq(FileCells) /\ g1 \in Files /\ WithBlob(f) \in Files
      BY <2>2, <2>3, <2>4, <2>5, <2>8
    <3> HIDE DEF d2
    <3> QED  BY ONLY <3>1, <3>2, <3>3, WriteGrows
  <2>11. FileSize(WithBlob(f)) = (k + 1) * BlockSize /\ FileSize(f) <= (k + 1) * BlockSize
    <3>1. FileSize(g1) = o + BlockSize
      BY <2>2, <2>3, <2>5, <2>6, <2>9 DEF Greater, s
    <3>2. FileSize(WithBlob(f)) = o + BlockSize
      BY <2>2, <2>3, <2>5, <2>10, <3>1 DEF Greater
    <3>3. (k + 1) * BlockSize = o + BlockSize
      BY <2>2, <2>3 DEF o
    <3> QED  BY <2>2, <2>3, <3>2, <3>3 DEF s
  <2>12. ASSUME NEW lim \in Nat PROVE Grows(f, WithBlob(f), lim)
    <3> SUFFICES ASSUME NEW p \in Nat, CellAt(f, p) # Hole PROVE CellAt(WithBlob(f), p) = CellAt(f, p)
      BY DEF Grows
    <3>1. p < s
      BY CellInside DEF s
    <3>2. CellAt(g1, p) = CellAt(f, p)
      BY <2>9, <3>1 DEF Grows
    <3> QED  BY <2>10, <3>1, <3>2 DEF Grows
  <2> QED  BY <2>3, <2>11, <2>12
<1> QED  BY <1>1, <1>2

-----------------------------------------------------------------------------
(***************************************************************************)
(* A node in the file: where its cells are, and that page_file_read_node   *)
(* finds them.                                                             *)
(***************************************************************************)

\* k cells of content c are at the positions q, the first at o, all before lim.
Path(f, o, c, q, k, lim) ==
  /\ q \in [1 .. k -> Nat] /\ (k > 0 => q[1] = o)
  /\ \A i \in 1 .. k : q[i] < lim /\ CellAt(f, q[i]) = Cell(c, i)
  /\ \A i \in 1 .. (k - 1) : NextPos(f, q[i]) = q[i + 1] /\ q[i] + 1 < lim
\* All of them.
Stored(f, o, c, lim) ==
  /\ o \in Nat /\ ~IsMetaPos(o) /\ c \in Contents
  /\ \E q : Path(f, o, c, q, Length(c), lim)

\* The offset is not 0, which stands for no offset.
LEMMA StoredPlace ==
  ASSUME NEW f \in Files, NEW o, NEW c, NEW lim, Stored(f, o, c, lim)
  PROVE  o \in Nat /\ o > 0 /\ o # None /\ CellAt(f, o) = Cell(c, 1)
<1>1. PICK q : Path(f, o, c, q, Length(c), lim)
  BY DEF Stored
<1>2. Length(c) \in Nat /\ Length(c) >= 2
  BY ContentFields DEF Stored
<1>3. 1 \in 1 .. Length(c) /\ q[1] = o /\ CellAt(f, o) = Cell(c, 1) /\ o \in Nat
  BY <1>1, <1>2 DEF Path, Stored
<1>4. CellAt(f, o) # Hole
  BY <1>3 DEF Cell, Hole
<1>5. o >= Base
  BY <1>3, <1>4, CellInside
<1> QED  BY <1>3, <1>5, Constants DEF None

\* It stays in the file that grows.
LEMMA PathGrows ==
  ASSUME NEW f \in Files, NEW g \in Files, NEW lim \in Nat, NEW l \in Nat, Grows(f, g, lim), lim <= l,
         NEW o, NEW c, NEW q, NEW k \in Nat, Path(f, o, c, q, k, lim)
  PROVE  Path(g, o, c, q, k, l)
<1>1. q \in [1 .. k -> Nat] /\ (k > 0 => q[1] = o)
  BY DEF Path
<1>2. ASSUME NEW i \in 1 .. k PROVE q[i] < l /\ CellAt(g, q[i]) = Cell(c, i)
  <2>1. q[i] \in Nat /\ q[i] < lim /\ CellAt(f, q[i]) = Cell(c, i)
    BY DEF Path
  <2>2. CellAt(f, q[i]) # Hole
    BY <2>1 DEF Cell, Hole
  <2> QED  BY <2>1, <2>2 DEF Grows
<1>3. ASSUME NEW i \in 1 .. (k - 1) PROVE NextPos(g, q[i]) = q[i + 1] /\ q[i] + 1 < l
  <2>1. i \in 1 .. k /\ i + 1 \in 1 .. k /\ q[i] \in Nat /\ q[i + 1] \in Nat
    BY <1>1
  <2>2. NextPos(f, q[i]) = q[i + 1] /\ q[i] + 1 < lim /\ q[i] + 1 \in Nat
    BY <2>1 DEF Path
  <2>3. q[i] # None /\ q[i + 1] # None
    BY <2>1 DEF None
  <2>4. CASE ~IsMetaPos(q[i] + 1)
    BY <2>2, <2>3, <2>4 DEF NextPos
  <2>5. CASE IsMetaPos(q[i] + 1)
    <3>1. CellAt(f, q[i] + 1).kind = "meta"
      BY <2>2, <2>3, <2>5 DEF NextPos
    <3>2. CellAt(f, q[i] + 1) # Hole
      BY <3>1 DEF Hole
    <3>3. CellAt(g, q[i] + 1) = CellAt(f, q[i] + 1)
      BY <2>2, <3>2 DEF Grows
    <3>4. NextPos(g, q[i]) = NextPos(f, q[i])
      BY <3>3 DEF NextPos
    <3> QED  BY <2>2, <3>4
  <2> QED  BY <2>4, <2>5, <2>2
<1> QED  BY <1>1, <1>2, <1>3 DEF Path

\* A node that is stored stays so.
LEMMA StoredGrows ==
  ASSUME NEW f \in Files, NEW g \in Files, NEW lim \in Nat, NEW l \in Nat, Grows(f, g, lim), lim <= l,
         NEW o, NEW c, Stored(f, o, c, lim)
  PROVE  Stored(g, o, c, l)
<1>1. PICK q : Path(f, o, c, q, Length(c), lim)
  BY DEF Stored
<1>2. Length(c) \in Nat
  BY ContentFields DEF Stored
<1>3. Path(g, o, c, q, Length(c), l)
  BY <1>1, <1>2, PathGrows
<1> QED  BY <1>3 DEF Stored

\* All of it is before the end of the file.
LEMMA StoredInside ==
  ASSUME NEW f \in Files, NEW lim \in Nat, NEW o, NEW c, Stored(f, o, c, lim)
  PROVE  FileSize(f) \in Nat /\ Stored(f, o, c, FileSize(f))
<1>1. PICK q : Path(f, o, c, q, Length(c), lim)
  BY DEF Stored
<1> DEFINE k == Length(c)
<1>2. k \in Nat /\ FileSize(f) \in Nat
  BY ContentFields, EndOfType DEF Stored
<1> HIDE DEF k
<1>3. ASSUME NEW i \in 1 .. k PROVE q[i] < FileSize(f) /\ CellAt(f, q[i]) = Cell(c, i)
  <2>1. q[i] \in Nat /\ CellAt(f, q[i]) = Cell(c, i)
    BY <1>1 DEF Path, k
  <2>2. CellAt(f, q[i]) # Hole
    BY <2>1 DEF Cell, Hole
  <2> QED  BY <2>1, <2>2, CellInside
<1>4. ASSUME NEW i \in 1 .. (k - 1) PROVE NextPos(f, q[i]) = q[i + 1] /\ q[i] + 1 < FileSize(f)
  <2>1. i \in 1 .. k /\ i + 1 \in 1 .. k /\ q[i] \in Nat /\ q[i + 1] \in Nat /\ NextPos(f, q[i]) = q[i + 1]
    BY <1>1, <1>2 DEF Path, k
  <2>2. q[i] # None /\ q[i + 1] # None /\ q[i] + 1 \in Nat
    BY <2>1 DEF None
  <2>3. CASE ~IsMetaPos(q[i] + 1)
    <3>1. q[i + 1] = q[i] + 1
      BY <2>1, <2>2, <2>3 DEF NextPos
    <3> QED  BY <1>3, <2>1, <3>1
  <2>4. CASE IsMetaPos(q[i] + 1)
    <3>1. CellAt(f, q[i] + 1).kind = "meta"
      BY <2>1, <2>2, <2>4 DEF NextPos
    <3>2. CellAt(f, q[i] + 1) # Hole
      BY <3>1 DEF Hole
    <3> QED  BY <2>1, <2>2, <3>2, CellInside
  <2> QED  BY <2>3, <2>4
<1>5. Path(f, o, c, q, k, FileSize(f))
  BY <1>1, <1>3, <1>4 DEF Path, k
<1> QED  BY <1>2, <1>5 DEF Stored, k

\* page_file_read_node takes that path.
LEMMA PathRead ==
  ASSUME NEW f, NEW o, NEW k \in Nat, NEW q, q \in [1 .. k -> Nat], k > 0 => q[1] = o,
         \A i \in 1 .. (k - 1) : NextPos(f, q[i]) = q[i + 1]
  PROVE  ReadPos(f, o, k) = q
<1> DEFINE G(g, i) == IF i = 1 THEN o ELSE NextPos(f, g[i - 1])
           r == ReadPos(f, o, k)
<1>1. r = CHOOSE g : g = [i \in 1 .. k |-> G(g, i)]
  BY Zenon DEF ReadPos
<1>2. q = [i \in 1 .. k |-> G(q, i)]
  <2>1. ASSUME NEW i \in 1 .. k PROVE q[i] = G(q, i)
    <3>1. CASE i = 1
      BY <3>1
    <3>2. CASE i # 1
      <4>1. i - 1 \in 1 .. (k - 1) /\ (i - 1) + 1 = i
        BY <3>2
      <4> QED  BY <3>2, <4>1
    <3> QED  BY <3>1, <3>2
  <2> HIDE DEF G
  <2> QED  BY <2>1
<1>3. r = [i \in 1 .. k |-> G(r, i)]
  <2> HIDE DEF G, r
  <2> QED  BY <1>1, <1>2
<1> HIDE DEF r
<1>4. \A i \in 1 .. k : r[i] = G(r, i)
  <2> HIDE DEF G
  <2> QED  BY <1>3
<1> DEFINE T == {j \in Nat : j + 1 <= k => r[j + 1] = q[j + 1]}
<1>5. 0 \in T
  <2>1. ASSUME 1 <= k PROVE r[1] = q[1]
    <3>1. 1 \in 1 .. k /\ k > 0
      BY <2>1
    <3> QED  BY <3>1, <1>4
  <2> QED  BY <2>1
<1>6. ASSUME NEW j \in T PROVE j + 1 \in T
  <2>1. j \in Nat /\ (j + 1 <= k => r[j + 1] = q[j + 1])
    OBVIOUS
  <2>2. ASSUME (j + 1) + 1 <= k PROVE r[(j + 1) + 1] = q[(j + 1) + 1]
    <3>1. j + 2 \in 1 .. k /\ j + 2 # 1 /\ (j + 2) - 1 = j + 1 /\ j + 1 \in 1 .. (k - 1) /\ (j + 1) + 1 = j + 2
          /\ j + 1 <= k
      BY <2>1, <2>2
    <3>2. r[j + 2] = NextPos(f, r[j + 1])
      BY <1>4, <3>1
    <3>3. NextPos(f, q[j + 1]) = q[j + 2]
      BY <3>1
    <3> QED  BY <2>1, <3>1, <3>2, <3>3
  <2> QED  BY <2>1, <2>2
<1>7. ASSUME NEW i \in 1 .. k PROVE r[i] = q[i]
  <2>1. i - 1 \in T
    <3>1. T \in SUBSET Nat /\ i - 1 \in Nat
      OBVIOUS
    <3> HIDE DEF T
    <3> QED  BY <1>5, <1>6, <3>1, SetInduction
  <2>2. (i - 1) + 1 = i /\ i <= k
    OBVIOUS
  <2> QED  BY <2>1, <2>2
<1> QED
  <2>1. r = [i \in 1 .. k |-> r[i]]
    <3> HIDE DEF G
    <3> QED  BY <1>3
  <2>2. r = q
    BY <1>7, <2>1
  <2> QED  BY <2>2 DEF r

\* page_file_read_node returns what was stored.
LEMMA StoredRead ==
  ASSUME NEW f \in Files, NEW o, NEW c, NEW lim, Stored(f, o, c, lim)
  PROVE  ReadNode(f, o) = c /\ c.kind = "content"
<1>1. PICK q : Path(f, o, c, q, Length(c), lim)
  BY DEF Stored
<1> DEFINE k == Length(c)
<1>2. k \in Nat /\ k >= 2 /\ c.kind = "content"
  BY ContentFields DEF Stored
<1>3. CellAt(f, o) = Cell(c, 1) /\ ~IsMetaPos(o)
  BY StoredPlace DEF Stored
<1>4. CellAt(f, o).kind = "node" /\ CellAt(f, o).content = c
  BY <1>3 DEF Cell
<1> HIDE DEF k
<1>5. /\ q \in [1 .. k -> Nat] /\ (k > 0 => q[1] = o)
      /\ \A i \in 1 .. (k - 1) : NextPos(f, q[i]) = q[i + 1]
      /\ \A i \in 1 .. k : CellAt(f, q[i]) = Cell(c, i)
  BY <1>1 DEF Path, k
<1>6. ReadPos(f, o, k) = q
  BY <1>2, <1>5, PathRead
<1>7. \A i \in DOMAIN ReadPos(f, o, Length(c)) :
         ReadPos(f, o, Length(c))[i] # None /\ CellAt(f, ReadPos(f, o, Length(c))[i]) = Cell(c, i)
  <2>1. \A i \in DOMAIN q : q[i] # None /\ CellAt(f, q[i]) = Cell(c, i)
    BY <1>5 DEF None
  <2> QED  BY <1>6, <2>1 DEF k
<1> QED  BY <1>2, <1>3, <1>4, <1>7, Zenon DEF ReadNode

-----------------------------------------------------------------------------
(***************************************************************************)
(* A checkpoint: all that is behind a superblock is stored before lim.     *)
(***************************************************************************)

\* A node as bnode_serialize_v3 writes it.
Content(n, x) == [kind |-> "content", node |-> n, ver |-> x.ver, size |-> x.size, kids |-> x.kids]
Checkpoint(f, sb, vers, lim) ==
  \A n \in Nodes : /\ Loaded(f, sb)[n].kind # "bad" /\ Loaded(f, sb)[n].ver = vers[n]
                   /\ Loaded(f, sb)[n].offset # None =>
                        Stored(f, Loaded(f, sb)[n].offset, Content(n, Loaded(f, sb)[n]), lim)

\* Two files from which the same is read as far as the first one leads.
LEMMA SameLoaded ==
  ASSUME NEW f \in Files, NEW g \in Files, NEW sb \in Sbs, NEW lim \in Nat, NEW l \in Nat, NEW vers,
         Grows(f, g, lim), lim <= l, Checkpoint(f, sb, vers, lim)
  PROVE  Checkpoint(g, sb, vers, l) /\ \A n \in Nodes : Loaded(g, sb)[n] = Loaded(f, sb)[n]
<1> DEFINE F == Loaded(f, sb)
           H == Loaded(g, sb)
<1>1. /\ Root \in Nodes /\ Depth[Root] = 0
      /\ \A n \in Nodes : Parent[n] \in Nodes /\ Depth[n] \in Nat
      /\ \A n \in Nodes : n # Root => Depth[n] = Depth[Parent[n]] + 1
  BY PageFileAssumption
<1>2. \A n \in Nodes : /\ F[n] = LoadNode(f, sb, n, IF n = Root THEN Bad ELSE F[Parent[n]])
                       /\ H[n] = LoadNode(g, sb, n, IF n = Root THEN Bad ELSE H[Parent[n]])
  BY LoadedSpec
<1>3. \A n \in Nodes : /\ F[n].kind # "bad" /\ F[n].ver = vers[n]
                       /\ F[n].offset # None => Stored(f, F[n].offset, Content(n, F[n]), lim)
  BY DEF Checkpoint
<1> HIDE DEF F, H
<1>4. ASSUME NEW n \in Nodes, NEW up, F[n] = LoadNode(f, sb, n, up) PROVE LoadNode(g, sb, n, up) = F[n]
  <2> DEFINE o == IF n = Root THEN sb.root ELSE IF up.kind = "bad" THEN 0 ELSE up.kids[n]
  <2>1. ~(n # Root /\ up.kind = "bad")
    BY <1>3, <1>4 DEF LoadNode, Bad
  <2>2. CASE o = 0
    BY <1>4, <2>1, <2>2 DEF LoadNode
  <2>3. CASE o # 0
    <3>1. F[n] = IF ReadNode(f, o).kind = "bad" \/ ReadNode(f, o).node # n THEN Bad
                 ELSE [kind |-> "content", node |-> n, ver |-> ReadNode(f, o).ver, size |-> ReadNode(f, o).size,
                       kids |-> ReadNode(f, o).kids, offset |-> o]
      BY <1>4, <2>1, <2>3, Zenon DEF LoadNode
    <3>2. LoadNode(g, sb, n, up) =
                 IF ReadNode(g, o).kind = "bad" \/ ReadNode(g, o).node # n THEN Bad
                 ELSE [kind |-> "content", node |-> n, ver |-> ReadNode(g, o).ver, size |-> ReadNode(g, o).size,
                       kids |-> ReadNode(g, o).kids, offset |-> o]
      BY <2>1, <2>3, Zenon DEF LoadNode
    <3> HIDE DEF o
    <3>3. ReadNode(f, o).kind # "bad"
      BY <1>3, <3>1 DEF Bad
    <3>4. F[n].offset = o
      BY <1>3, <3>1 DEF Bad
    <3>5. o # None
      <4>1. F[n].offset # None => Stored(f, F[n].offset, Content(n, F[n]), lim)
        BY <1>3
      <4>2. ASSUME o = None PROVE FALSE
        <5>1. CellAt(f, o) = Hole
          <6>1. ~(o - Base + 1 \in 1 .. Len(f.data))
            BY <4>2, Constants DEF None
          <6> QED  BY <6>1 DEF CellAt
        <5>2. ReadNode(f, o) = Bad
          BY <5>1 DEF ReadNode, Hole
        <5> QED  BY <3>3, <5>2 DEF Bad
      <4> QED  BY <4>2
    <3>6. Stored(f, o, Content(n, F[n]), lim)
      BY <1>3, <3>4, <3>5
    <3>7. Stored(g, o, Content(n, F[n]), l)
      BY <3>6, StoredGrows
    <3>8. ReadNode(g, o) = ReadNode(f, o)
      BY <3>6, <3>7, StoredRead
    <3> QED  BY <3>1, <3>2, <3>8
  <2> QED  BY <2>2, <2>3
<1>5. ASSUME NEW n \in Nodes PROVE H[n] = F[n]
  <2> DEFINE T == {d \in Nat : \A m \in Nodes : Depth[m] = d => H[m] = F[m]}
  <2>1. 0 \in T
    <3> SUFFICES ASSUME NEW m \in Nodes, Depth[m] = 0 PROVE H[m] = F[m]
      OBVIOUS
    <3>1. m = Root
      BY <1>1
    <3> QED  BY <1>2, <1>4, <3>1
  <2>2. ASSUME NEW d \in T PROVE d + 1 \in T
    <3> SUFFICES ASSUME NEW m \in Nodes, Depth[m] = d + 1 PROVE H[m] = F[m]
      OBVIOUS
    <3>1. m # Root /\ d \in Nat /\ Parent[m] \in Nodes /\ Depth[Parent[m]] = d
      BY <1>1
    <3>2. H[Parent[m]] = F[Parent[m]]
      BY <3>1
    <3>3. F[m] = LoadNode(f, sb, m, F[Parent[m]]) /\ H[m] = LoadNode(g, sb, m, F[Parent[m]])
      BY <1>2, <3>1, <3>2
    <3> QED  BY <1>4, <3>3
  <2>3. Depth[n] \in T
    <3> HIDE DEF T
    <3>1. T \in SUBSET Nat  BY DEF T
    <3> QED  BY <1>1, <2>1, <2>2, <3>1, SetInduction
  <2> QED  BY <1>1, <2>3
<1>6. ASSUME NEW n \in Nodes, H[n].offset # None PROVE Stored(g, H[n].offset, Content(n, H[n]), l)
  BY <1>3, <1>5, <1>6, StoredGrows
<1>7. Checkpoint(g, sb, vers, l)
  BY <1>3, <1>5, <1>6 DEF Checkpoint, F, H
<1> QED  BY <1>5, <1>7 DEF F, H

\* The end of the file is a limit as well.
LEMMA CheckpointInside ==
  ASSUME NEW f \in Files, NEW sb, NEW lim \in Nat, NEW vers, Checkpoint(f, sb, vers, lim)
  PROVE  Checkpoint(f, sb, vers, FileSize(f))
<1> SUFFICES ASSUME NEW n \in Nodes
             PROVE /\ Loaded(f, sb)[n].kind # "bad" /\ Loaded(f, sb)[n].ver = vers[n]
                   /\ Loaded(f, sb)[n].offset # None =>
                        Stored(f, Loaded(f, sb)[n].offset, Content(n, Loaded(f, sb)[n]), FileSize(f))
  BY DEF Checkpoint
<1>1. /\ Loaded(f, sb)[n].kind # "bad" /\ Loaded(f, sb)[n].ver = vers[n]
      /\ Loaded(f, sb)[n].offset # None =>
                        Stored(f, Loaded(f, sb)[n].offset, Content(n, Loaded(f, sb)[n]), lim)
  BY DEF Checkpoint
<1> QED  BY <1>1, StoredInside

\* Node n of trie t is in the file as it is in memory, with version v.
InFile(f, t, n, v, lim) ==
  /\ t[n].disk_offset = None => v = 0 /\ \A c \in Children(n) : t[n].kids[c] = 0
  /\ t[n].disk_offset # None =>
       \E c \in Contents : /\ c.node = n /\ c.ver = v /\ c.kids = t[n].kids
                           /\ Stored(f, t[n].disk_offset, c, lim)
\* Parents know where their children are.
Place(t, n) == IF t[n].disk_offset = None THEN 0 ELSE t[n].disk_offset
Links(t) == \A n \in Nodes : n # Root => t[Parent[n]].kids[n] = Place(t, n)

\* A superblock with the place of the root makes a checkpoint of a trie that is in the file.
LEMMA TreeCheckpoint ==
  ASSUME NEW f \in Files, NEW sb \in Sbs, NEW t, TreeOK(t), Links(t), NEW vers, NEW lim \in Nat,
         sb.root = Place(t, Root), \A n \in Nodes : InFile(f, t, n, vers[n], lim)
  PROVE  Checkpoint(f, sb, vers, lim)
<1> DEFINE F == Loaded(f, sb)
           Good(n) == /\ F[n].kind = "content" /\ F[n].ver = vers[n] /\ F[n].kids = t[n].kids
                      /\ F[n].offset = t[n].disk_offset
                      /\ F[n].offset # None => Stored(f, F[n].offset, Content(n, F[n]), lim)
<1>1. /\ Root \in Nodes /\ Depth[Root] = 0
      /\ \A n \in Nodes : Parent[n] \in Nodes /\ Depth[n] \in Nat
      /\ \A n \in Nodes : n # Root => Depth[n] = Depth[Parent[n]] + 1
  BY PageFileAssumption
<1>2. \A n \in Nodes : F[n] = LoadNode(f, sb, n, IF n = Root THEN Bad ELSE F[Parent[n]])
  BY LoadedSpec
<1> HIDE DEF F
<1>3. ASSUME NEW n \in Nodes, NEW up, F[n] = LoadNode(f, sb, n, up),
             n # Root => up.kind = "content" /\ up.kids = t[Parent[n]].kids
      PROVE  Good(n)
  <2> DEFINE o == IF n = Root THEN sb.root ELSE IF up.kind = "bad" THEN 0 ELSE up.kids[n]
  <2>1. o = Place(t, n) /\ ~(n # Root /\ up.kind = "bad")
    BY <1>3 DEF Links
  <2>2. NodeOK(n, t[n])
    BY DEF TreeOK
  <2>3. t[n].disk_offset \in Nat \cup {None} /\ t[n].kids \in [Children(n) -> Nat]
    BY <2>2 DEF NodeOK
  <2>4. CASE t[n].disk_offset = None
    <3>1. o = 0
      BY <2>1, <2>4 DEF Place
    <3>2. F[n] = [kind |-> "content", node |-> n, ver |-> 0, size |-> EmptyNode(n).size,
                  kids |-> EmptyNode(n).kids, offset |-> None]
      BY <1>3, <2>1, <3>1, Zenon DEF LoadNode
    <3>3. vers[n] = 0 /\ \A c \in Children(n) : t[n].kids[c] = 0
      BY <2>4 DEF InFile
    <3>4. EmptyNode(n).kids = [c \in Children(n) |-> 0]
      BY DEF EmptyNode
    <3>5. t[n].kids = EmptyNode(n).kids
      BY <2>3, <3>3, <3>4
    <3> HIDE DEF o
    <3> QED  BY <2>4, <3>2, <3>3, <3>5
  <2>5. CASE t[n].disk_offset # None
    <3>1. PICK c \in Contents : /\ c.node = n /\ c.ver = vers[n] /\ c.kids = t[n].kids
                                /\ Stored(f, t[n].disk_offset, c, lim)
      BY <2>5 DEF InFile
    <3>2. o = t[n].disk_offset
      BY <2>1, <2>5 DEF Place
    <3>3. o # 0 /\ ReadNode(f, o) = c /\ c.kind = "content"
      BY <3>1, <3>2, StoredPlace, StoredRead
    <3>4. F[n] = IF ReadNode(f, o).kind = "bad" \/ ReadNode(f, o).node # n THEN Bad
                 ELSE [kind |-> "content", node |-> n, ver |-> ReadNode(f, o).ver, size |-> ReadNode(f, o).size,
                       kids |-> ReadNode(f, o).kids, offset |-> o]
      BY <1>3, <2>1, <3>3, Zenon DEF LoadNode
    <3> HIDE DEF o
    <3>5. F[n] = [kind |-> "content", node |-> n, ver |-> c.ver, size |-> c.size, kids |-> c.kids, offset |-> o]
      BY <3>1, <3>3, <3>4
    <3>6. Content(n, F[n]) = c
      <4>1. c = [kind |-> "content", node |-> c.node, ver |-> c.ver, size |-> c.size, kids |-> c.kids]
        BY ContentFields
      <4> QED  BY <3>1, <3>5, <4>1 DEF Content
    <3>7. F[n].kind = "content" /\ F[n].ver = vers[n] /\ F[n].kids = t[n].kids /\ F[n].offset = t[n].disk_offset
      BY <3>1, <3>2, <3>5
    <3> QED  BY <3>1, <3>6, <3>7
  <2> QED  BY <2>4, <2>5
<1>4. ASSUME NEW n \in Nodes PROVE Good(n)
  <2> DEFINE T == {d \in Nat : \A m \in Nodes : Depth[m] = d => Good(m)}
  <2>1. 0 \in T
    <3> SUFFICES ASSUME NEW m \in Nodes, Depth[m] = 0 PROVE Good(m)
      OBVIOUS
    <3>1. m = Root
      BY <1>1
    <3> HIDE DEF Good
    <3> QED  BY <1>2, <1>3, <3>1
  <2>2. ASSUME NEW d \in T PROVE d + 1 \in T
    <3> SUFFICES ASSUME NEW m \in Nodes, Depth[m] = d + 1 PROVE Good(m)
      OBVIOUS
    <3>1. m # Root /\ d \in Nat /\ Parent[m] \in Nodes /\ Depth[Parent[m]] = d
      BY <1>1
    <3>2. Good(Parent[m])
      BY <3>1
    <3>3. F[m] = LoadNode(f, sb, m, F[Parent[m]])
      BY <1>2, <3>1
    <3>4. F[Parent[m]].kind = "content" /\ F[Parent[m]].kids = t[Parent[m]].kids
      BY <3>2
    <3> HIDE DEF Good
    <3> QED  BY <1>3, <3>3, <3>4
  <2>3. Depth[n] \in T
    <3> HIDE DEF T
    <3>1. T \in SUBSET Nat  BY DEF T
    <3> QED  BY <1>1, <2>1, <2>2, <3>1, SetInduction
  <2> QED  BY <1>1, <2>3
<1>5. \A n \in Nodes : F[n].kind # "bad" /\ F[n].ver = vers[n]
                       /\ (F[n].offset # None => Stored(f, F[n].offset, Content(n, F[n]), lim))
  BY <1>4
<1> QED  BY <1>5 DEF Checkpoint, F

-----------------------------------------------------------------------------
(***************************************************************************)
(* Which superblock page_file_open chooses.                                *)
(***************************************************************************)

\* The choice depends on the superblocks only.
LEMMA BestSame ==
  ASSUME NEW f, NEW g, g.sb = f.sb
  PROVE  BestSb(g) = BestSb(f) /\ WinningSlot(g) = WinningSlot(f) /\ ValidSlots(g) = ValidSlots(f)
<1>1. ValidSlots(g) = ValidSlots(f)
  BY DEF ValidSlots
<1>2. WinningSlot(g) = WinningSlot(f)
  BY <1>1 DEF WinningSlot
<1> QED  BY <1>1, <1>2 DEF BestSb

\* A newer one is chosen.
LEMMA BestNew ==
  ASSUME NEW f \in Files, NEW g \in Files, NEW s \in Slots, NEW sb \in Sbs, g.sb = [f.sb EXCEPT ![s] = sb],
         \A x \in ValidSlots(f) : f.sb[x].revision < sb.revision
  PROVE  BestSb(g) = sb /\ \A x \in ValidSlots(g) : g.sb[x].revision <= sb.revision
<1>1. f.sb \in [Slots -> Sbs \cup {Torn}] /\ g.sb \in [Slots -> Sbs \cup {Torn}]
  BY DEF Files
<1>2. g.sb[s] = sb /\ \A x \in Slots : x # s => g.sb[x] = f.sb[x]
  BY <1>1
<1>3. sb.kind = "sb" /\ sb.revision \in Nat
  BY DEF Sbs
<1>4. s \in ValidSlots(g)
  BY <1>1, <1>2, <1>3 DEF ValidSlots
<1>5. /\ WinningSlot(g) \in ValidSlots(g) /\ WinningSlot(g) \in Slots
      /\ BestSb(g) = g.sb[WinningSlot(g)] /\ BestSb(g) \in Sbs
      /\ BestSb(g).revision >= sb.revision
  <2>1. ValidSlots(g) # {}
    BY <1>4
  <2>2. BestSb(g) \in Sbs /\ \/ BestSb(g).revision > g.sb[s].revision \/ BestSb(g).revision = g.sb[s].revision
    BY <1>4, <2>1, BestSbSpec
  <2>3. BestSb(g).revision \in Nat
    BY <2>2 DEF Sbs
  <2>4. BestSb(g).revision >= sb.revision
    BY <1>2, <1>3, <2>2, <2>3
  <2>5. WinningSlot(g) \in ValidSlots(g) /\ WinningSlot(g) \in Slots /\ BestSb(g) = g.sb[WinningSlot(g)]
    BY <2>1, BestSbSpec
  <2> QED  BY <2>2, <2>4, <2>5
<1>6. ASSUME NEW x \in ValidSlots(g), x # s PROVE x \in ValidSlots(f) /\ g.sb[x] = f.sb[x]
  BY <1>1, <1>2, <1>6 DEF ValidSlots
<1>7. WinningSlot(g) = s
  <2> SUFFICES ASSUME WinningSlot(g) # s PROVE FALSE
    OBVIOUS
  <2>1. BestSb(g).revision < sb.revision
    BY <1>5, <1>6
  <2>2. BestSb(g).revision \in Nat
    BY <1>5 DEF Sbs
  <2> QED  BY <1>3, <1>5, <2>1, <2>2
<1>8. ASSUME NEW x \in ValidSlots(g) PROVE g.sb[x].revision <= sb.revision
  <2>1. CASE x = s
    BY <1>2, <1>3, <2>1
  <2>2. CASE x # s
    <3>1. f.sb[x].revision < sb.revision /\ g.sb[x] = f.sb[x] /\ x \in Slots /\ g.sb[x].kind = "sb"
      BY <1>1, <1>6, <2>2 DEF ValidSlots
    <3>2. g.sb[x] \in Sbs
      BY <1>1, <3>1 DEF Torn
    <3>3. g.sb[x].revision \in Nat
      BY <3>2 DEF Sbs
    <3> QED  BY <1>3, <3>1, <3>3
  <2> QED  BY <2>1, <2>2
<1> QED  BY <1>2, <1>5, <1>7, <1>8

\* A torn one that was not chosen makes no difference.
LEMMA BestTorn ==
  ASSUME NEW f \in Files, NEW g \in Files, ValidSlots(f) # {}, NEW s \in Slots, s # WinningSlot(f),
         g.sb = [f.sb EXCEPT ![s] = Torn]
  PROVE  BestSb(g) = BestSb(f)
<1>1. f.sb \in [Slots -> Sbs \cup {Torn}] /\ g.sb \in [Slots -> Sbs \cup {Torn}]
  BY DEF Files
<1>2. g.sb[s] = Torn /\ \A x \in Slots : x # s => g.sb[x] = f.sb[x]
  BY <1>1
<1> DEFINE a == WinningSlot(f)
           b == WinningSlot(g)
<1>3. /\ a \in ValidSlots(f) /\ a \in Slots /\ BestSb(f) = f.sb[a] /\ BestSb(f) \in Sbs
      /\ \A t \in ValidSlots(f) : \/ BestSb(f).revision > f.sb[t].revision
                                  \/ BestSb(f).revision = f.sb[t].revision /\ a <= t
  BY BestSbSpec
<1>4. a \in ValidSlots(g)
  BY <1>1, <1>2, <1>3 DEF ValidSlots
<1>5. /\ b \in ValidSlots(g) /\ b \in Slots /\ BestSb(g) = g.sb[b] /\ BestSb(g) \in Sbs
      /\ \A t \in ValidSlots(g) : \/ BestSb(g).revision > g.sb[t].revision
                                  \/ BestSb(g).revision = g.sb[t].revision /\ b <= t
  <2>1. ValidSlots(g) # {}
    BY <1>4
  <2> QED  BY <2>1, BestSbSpec
<1> HIDE DEF a, b
<1>6. b # s
  BY <1>2, <1>5 DEF ValidSlots, Torn
<1>7. g.sb[b] = f.sb[b] /\ g.sb[a] = f.sb[a] /\ b \in ValidSlots(f)
  BY <1>1, <1>2, <1>3, <1>5, <1>6 DEF ValidSlots, a
<1>8. a \in Int /\ b \in Int /\ BestSb(f).revision \in Nat /\ BestSb(g).revision \in Nat
  BY <1>3, <1>5, Constants DEF Sbs, Slots
<1>9. \/ BestSb(f).revision > BestSb(g).revision
      \/ BestSb(f).revision = BestSb(g).revision /\ a <= b
  BY <1>3, <1>5, <1>7
<1>10. \/ BestSb(g).revision > BestSb(f).revision
       \/ BestSb(g).revision = BestSb(f).revision /\ b <= a
  BY <1>3, <1>4, <1>5, <1>7
<1>11. a = b
  BY <1>8, <1>9, <1>10
<1> QED  BY <1>3, <1>5, <1>7, <1>11

-----------------------------------------------------------------------------
(***************************************************************************)
(* collect_dirty_bnodes_from_hbnode.                                       *)
(***************************************************************************)

\* The trie has a deepest level.
LEMMA DepthBound == \E k \in Nat : \A n \in Nodes : Depth[n] <= k
<1>1. PICK q \in Seq(Nodes) : \A n \in Nodes : \E i \in 1 .. Len(q) : q[i] = n
  BY PageFileAssumption DEF IsFiniteSet
<1>2. Len(q) \in Nat /\ \A i \in 1 .. Len(q) : q[i] \in Nodes /\ Depth[q[i]] \in Nat
  <2>1. \A i \in 1 .. Len(q) : q[i] \in Nodes
    BY <1>1
  <2>2. Len(q) \in Nat
    OBVIOUS
  <2>3. Depth \in [Nodes -> Nat]
    BY PageFileAssumption
  <2> QED  BY <2>1, <2>2, <2>3
<1> DEFINE T == {j \in Nat : \E k \in Nat : \A i \in 1 .. Len(q) : i <= j => Depth[q[i]] <= k}
<1>3. 0 \in T
  <2>1. \A i \in 1 .. Len(q) : i <= 0 => Depth[q[i]] <= 0
    OBVIOUS
  <2> QED  BY <2>1
<1>4. ASSUME NEW j \in T PROVE j + 1 \in T
  <2>1. PICK k \in Nat : \A i \in 1 .. Len(q) : i <= j => Depth[q[i]] <= k
    OBVIOUS
  <2>2. CASE j + 1 \in 1 .. Len(q)
    <3>1. Depth[q[j + 1]] \in Nat
      BY <1>2, <2>2
    <3> DEFINE m == k + Depth[q[j + 1]]
    <3>2. m \in Nat /\ k <= m /\ Depth[q[j + 1]] <= m
      BY <3>1
    <3> HIDE DEF m
    <3>3. ASSUME NEW i \in 1 .. Len(q), i <= j + 1 PROVE Depth[q[i]] <= m
      <4>1. CASE i = j + 1
        BY <3>2, <4>1
      <4>2. CASE i # j + 1
        <5>1. i <= j
          BY <3>3, <4>2
        <5>2. Depth[q[i]] <= k /\ Depth[q[i]] \in Nat
          BY <1>2, <2>1, <5>1
        <5> QED  BY <3>2, <5>2
      <4> QED  BY <4>1, <4>2
    <3>4. j + 1 \in Nat
      OBVIOUS
    <3> QED  BY <3>2, <3>3, <3>4
  <2>3. CASE j + 1 \notin 1 .. Len(q)
    <3>1. \A i \in 1 .. Len(q) : i <= j + 1 => i <= j
      BY <1>2, <2>3
    <3>2. \A i \in 1 .. Len(q) : i <= j + 1 => Depth[q[i]] <= k
      BY <2>1, <3>1
    <3>3. j + 1 \in Nat
      OBVIOUS
    <3>4. \E m \in Nat : \A i \in 1 .. Len(q) : i <= j + 1 => Depth[q[i]] <= m
      BY <3>2
    <3> QED  BY <3>3, <3>4
  <2> QED  BY <2>2, <2>3
<1>5. Len(q) \in T
  <2> HIDE DEF T
  <2>1. T \in SUBSET Nat  BY DEF T
  <2> QED  BY <1>2, <1>3, <1>4, <2>1, SetInduction
<1>6. PICK k \in Nat : \A i \in 1 .. Len(q) : i <= Len(q) => Depth[q[i]] <= k
  BY <1>5
<1>7. ASSUME NEW n \in Nodes PROVE Depth[n] <= k
  <2>1. PICK i \in 1 .. Len(q) : q[i] = n
    BY <1>1
  <2>2. i <= Len(q)
    BY <1>2
  <2> QED  BY <1>6, <2>1, <2>2
<1> QED  BY <1>7

\* The flag that the walk gives to a node: its own, or that of a child.
LEMMA HbDirtySpec ==
  \A n \in Nodes : HbDirty[n] = (tree[n].hb_dirty \/ \E c \in Children(n) : HbDirty[c])
<1> DEFINE G(g, n) == tree[n].hb_dirty \/ \E c \in Children(n) : g[c]
<1>1. PICK K \in Nat : \A n \in Nodes : Depth[n] <= K
  BY DepthBound
<1>2. /\ \A n \in Nodes : Depth[n] \in Nat
      /\ \A n \in Nodes : \A c \in Children(n) : c \in Nodes /\ Depth[c] = Depth[n] + 1
  BY PageFileAssumption DEF Children
<1> DEFINE Deep(k) == {n \in Nodes : Depth[n] + k > K}
           T == {k \in Nat : \E g : \A n \in Deep(k) : g[n] = G(g, n)}
<1>3. 0 \in T
  <2>1. Deep(0) = {}
    BY <1>1, <1>2
  <2>2. \A n \in Deep(0) : Zero[n] = G(Zero, n)
    BY <2>1
  <2> HIDE DEF G, Deep
  <2> QED  BY <2>2
<1>4. ASSUME NEW k \in T PROVE k + 1 \in T
  <2>1. PICK g : \A n \in Deep(k) : g[n] = G(g, n)
    OBVIOUS
  <2> DEFINE h == [n \in Nodes |-> IF n \in Deep(k) THEN g[n] ELSE G(g, n)]
  <2>2. k \in Nat
    OBVIOUS
  <2>3. ASSUME NEW n \in Deep(k + 1), NEW c \in Children(n) PROVE c \in Deep(k)
    BY <1>1, <1>2, <2>2
  <2>4. \A n \in Deep(k) : n \in Nodes /\ h[n] = g[n]
    OBVIOUS
  <2>5. ASSUME NEW n \in Deep(k + 1) PROVE h[n] = G(h, n)
    <3>1. \A c \in Children(n) : h[c] = g[c]
      <4> HIDE DEF h, Deep
      <4> QED  BY <2>3, <2>4
    <3>2. G(h, n) = G(g, n)
      <4> HIDE DEF h, Deep
      <4> QED  BY <3>1, Zenon
    <3>3. n \in Nodes
      OBVIOUS
    <3>4. h[n] = G(g, n)
      <4> HIDE DEF G, Deep
      <4> QED  BY <2>1, <3>3
    <3> HIDE DEF h, G
    <3> QED  BY <3>2, <3>4
  <2>6. k + 1 \in Nat
    BY <2>2
  <2> HIDE DEF h, G, Deep
  <2> QED  BY <2>5, <2>6
<1>5. K + 1 \in T
  <2> HIDE DEF T
  <2>1. T \in SUBSET Nat  BY DEF T
  <2> QED  BY <1>1, <1>3, <1>4, <2>1, SetInduction
<1>6. PICK g : \A n \in Deep(K + 1) : g[n] = G(g, n)
  BY <1>5
<1>7. \A n \in Nodes : n \in Deep(K + 1)
  BY <1>1, <1>2
<1> DEFINE h == [n \in Nodes |-> g[n]]
<1>8. h = [n \in Nodes |-> G(h, n)]
  <2>1. ASSUME NEW n \in Nodes PROVE g[n] = G(h, n)
    <3>1. \A c \in Children(n) : h[c] = g[c]
      BY <1>2
    <3> HIDE DEF h, Deep
    <3>2. G(h, n) = G(g, n)
      BY <3>1, Zenon
    <3> HIDE DEF G
    <3> QED  BY <1>6, <1>7, <3>2
  <2> HIDE DEF G
  <2> QED  BY <2>1
<1>9. HbDirty = CHOOSE d : d = [n \in Nodes |-> G(d, n)]
  BY Zenon DEF HbDirty
<1>10. HbDirty = [n \in Nodes |-> G(HbDirty, n)]
  <2> HIDE DEF G, h
  <2> QED  BY <1>8, <1>9
<1>11. ASSUME NEW n \in Nodes PROVE HbDirty[n] = G(HbDirty, n)
  <2> DEFINE hd == HbDirty
  <2> HIDE DEF G, hd
  <2>1. hd = [x \in Nodes |-> G(hd, x)]
    BY <1>10 DEF hd
  <2>2. hd[n] = G(hd, n)
    BY <2>1
  <2> QED  BY <2>2 DEF hd
<1> QED  BY <1>11

\* The walk finds nothing in a clean trie.
LEMMA HbDirtyNone ==
  ASSUME \A n \in Nodes : tree[n].hb_dirty = FALSE
  PROVE  \A n \in Nodes : HbDirty[n] = FALSE
<1>1. PICK K \in Nat : \A n \in Nodes : Depth[n] <= K
  BY DepthBound
<1>2. /\ \A n \in Nodes : Depth[n] \in Nat
      /\ \A n \in Nodes : \A c \in Children(n) : c \in Nodes /\ Depth[c] = Depth[n] + 1
  BY PageFileAssumption DEF Children
<1> DEFINE Off(n) == HbDirty[n] = FALSE
           T == {k \in Nat : \A n \in Nodes : Depth[n] + k > K => Off(n)}
<1>3. 0 \in T
  BY <1>1, <1>2
<1>4. ASSUME NEW k \in T PROVE k + 1 \in T
  <2> HIDE DEF Off
  <2> SUFFICES ASSUME NEW n \in Nodes, Depth[n] + (k + 1) > K PROVE Off(n)
    OBVIOUS
  <2>1. \A c \in Children(n) : c \in Nodes /\ Depth[c] + k > K
    BY <1>1, <1>2
  <2>2. \A c \in Children(n) : Off(c)
    BY <2>1
  <2>3. HbDirty[n] = (tree[n].hb_dirty \/ \E c \in Children(n) : HbDirty[c])
    BY HbDirtySpec
  <2> QED  BY <2>2, <2>3, Zenon DEF Off
<1> HIDE DEF Off
<1>5. K + 1 \in T
  <2> HIDE DEF T
  <2>1. T \in SUBSET Nat  BY DEF T
  <2> QED  BY <1>1, <1>3, <1>4, <2>1, SetInduction
<1>6. \A n \in Nodes : Off(n)
  BY <1>1, <1>2, <1>5
<1> QED  BY <1>6 DEF Off

\* The sorted list has every node of the set.
LEMMA DeepestAll ==
  ASSUME NEW S \in SUBSET Nodes, NEW q \in Deepest(S)
  PROVE  \A n : n \in S <=> \E i \in 1 .. Len(q) : q[i] = n
<1> DEFINE k == Cardinality(S)
<1>1. IsFiniteSet(S)
  BY PageFileAssumption, FS_Subset
<1>2. k \in Nat /\ Len(q) = k
  BY <1>1, FS_CardinalityType, DeepestType
<1>3. q \in [1 .. k -> S] /\ \A i, j \in 1 .. k : i < j => q[i] # q[j]
  BY DEF Deepest
<1> HIDE DEF k
<1>4. ASSUME NEW i \in 1 .. k, NEW j \in 1 .. k, q[i] = q[j] PROVE i = j
  BY <1>2, <1>3, <1>4
<1>5. q \in Injection(1 .. k, S)
  BY <1>3, <1>4 DEF Injection, IsInjective
<1>6. Cardinality(1 .. k) = Cardinality(S)
  <2>1. Cardinality(1 .. k) = IF 1 > k THEN 0 ELSE k - 1 + 1
    BY <1>2, FS_Interval
  <2>2. Cardinality(1 .. k) = k
    BY <1>2, <2>1
  <2> QED  BY <2>2 DEF k
<1>7. q \in Surjection(1 .. k, S)
  BY <1>1, <1>5, <1>6, FS_Injection
<1>8. \A n \in S : \E i \in 1 .. k : q[i] = n
  BY <1>7 DEF Surjection
<1> QED  BY <1>2, <1>3, <1>8

-----------------------------------------------------------------------------
(***************************************************************************)
(* The inductive invariant behind CheckpointIntact, CloseKeeps and         *)
(* ConvergesByDepth.                                                       *)
(***************************************************************************)

\* The vacuum is past its start: it writes to its own file.
Rewriting == reason = "rewrite" /\ pc # "walk"
\* A pass over a list of nodes, and one of a flush.
Pass == {"serialize", "chunk", "meta", "written"}
Flushing == (pc \in Pass \/ pc = "clear") /\ reason # "rewrite"

\* What the flusher does, and what for.
Control ==
  /\ phase \in {"up", "down"} /\ (phase = "down" => pc = "idle")
  /\ pc \in Pass \cup {"idle", "collect", "clear", "superblock", "close", "walk", "tmp_superblock", "swap"}
  /\ pc = "idle" => reason = "none"
  /\ pc # "idle" => reason \in {"snapshot", "close", "vacuum", "rewrite"}
  /\ pc \in {"walk", "tmp_superblock", "swap"} => reason = "rewrite"
  /\ pc \in {"collect", "clear", "superblock", "close"} => reason # "rewrite"
  /\ passes \in 0 .. 2 /\ (Flushing => passes = 1)

\* The list of a pass: the deeper a node, the earlier it is.
Lists ==
  /\ at \in Nat /\ (pc \in Pass => at \in 1 .. Len(list)) /\ (pc = "clear" => at = Len(list) + 1)
  /\ pc = "superblock" => at = 1
  /\ pc \in Pass \cup {"clear"} =>
       \A i, j \in 1 .. Len(list) : i < j => list[i] # list[j] /\ Depth[list[i]] >= Depth[list[j]]
  /\ pc \in Pass /\ reason = "rewrite" => \A n \in Nodes : \E i \in 1 .. Len(list) : list[i] = n

\* The flags: alike between flushes; one pass is enough to clear them, because it has
\* every ancestor of its nodes; the nodes that the pass has written are clean.
Alike == \A n \in Nodes : tree[n].bn_dirty = tree[n].hb_dirty
Clean == \A n \in Nodes : tree[n].bn_dirty = FALSE /\ tree[n].hb_dirty = FALSE
Listed(n) == \E i \in 1 .. Len(list) : list[i] = n
Ahead(n) == \E i \in at .. Len(list) : list[i] = n
Flags ==
  /\ \A n \in Nodes : tree[n].bn_dirty \in BOOLEAN
  /\ pc = "idle" => Alike
  /\ pc = "collect" => (passes = 0 /\ Alike) \/ (passes = 1 /\ Clean)
  /\ pc \in {"superblock", "close"} \/ reason = "rewrite" => Clean
  /\ Flushing =>
       \A n \in Nodes : /\ Listed(n) => Listed(Parent[n])
                        /\ ~Listed(n) => tree[n].hb_dirty = FALSE
                        /\ ~Ahead(n) => tree[n].bn_dirty = FALSE
                        /\ Ahead(n) => tree[n].bn_dirty = TRUE /\ tree[n].hb_dirty = TRUE

\* Where the next write goes: the file ends there, or after the list of stale regions.
SizeOK(f, p) == FileSize(f) = p \/ \E b \in Nat : FileSize(f) = b * BlockSize /\ p <= FileSize(f)
Positions ==
  /\ phase = "up" => SizeOK(disk["live"], Pos("live")) /\ Base <= Pos("live")
  /\ phase = "up" /\ ~(pc = "meta" /\ reason # "rewrite") => pf["live"].cur_offset <= BlockSize - 2
  /\ phase = "down" => EndOf(disk["live"]).cur_offset <= BlockSize - 2
  /\ Rewriting => FileSize(disk["tmp"]) = Pos("tmp") /\ Base <= Pos("tmp")
  /\ Rewriting /\ pc # "meta" => pf["tmp"].cur_offset <= BlockSize - 2

\* The superblocks have been written in the order of their revisions.
Revisions ==
  /\ phase = "up" => \A s \in ValidSlots(disk["live"]) : disk["live"].sb[s].revision <= pf["live"].revision
  /\ Rewriting /\ pc # "swap" => \A s \in ValidSlots(disk["tmp"]) : disk["tmp"].sb[s].revision = 0
  /\ pc = "swap" => /\ \A s \in ValidSlots(disk["tmp"]) : disk["tmp"].sb[s].revision <= 1
                    /\ BestSb(disk["tmp"]).root = Place(tree, Root)

\* The node that page_file_write_node is writing: the part that is in the file.
Partial(f, p, q) ==
  /\ Path(f, w.offset, w.content, q, w.written, p)
  /\ pc = "chunk" => \/ w.written = 0 /\ p = w.offset
                     \/ w.written > 0 /\ NextPos(f, q[w.written]) = p /\ q[w.written] + 1 < p
  /\ pc = "meta" => w.written > 0 /\ q[w.written] + 1 = p
Current ==
  Writing =>
    /\ w.node = list[at] /\ w.content = Content(w.node, tree[w.node]) /\ ~IsMetaPos(w.offset)
    /\ w.written <= Length(w.content)
    /\ \E q : Partial(disk[Target], Pos(Target), q)
    /\ pc = "meta" => /\ pf[Target].cur_offset \in 1 .. (BlockSize - 1)
                      /\ w.written < Length(w.content) => pf[Target].cur_offset = BlockSize - 1
    /\ pc = "written" => w.written = Length(w.content)

\* The trie in memory: what is not dirty is in the file.
Memory ==
  /\ flushed \in [Nodes -> Nat]
  /\ phase = "up" => Links(tree)
  /\ phase = "up" => \A n \in Nodes : tree[n].bn_dirty = FALSE => tree[n].ver = flushed[n]
  /\ phase = "up" /\ ~Rewriting =>
       \A n \in Nodes : tree[n].bn_dirty = FALSE => InFile(disk["live"], tree, n, flushed[n], Pos("live"))
  /\ pc = "close" \/ reason = "rewrite" => \A n \in Nodes : saved[n] = flushed[n]
  /\ Rewriting /\ pc \in Pass =>
       \A i \in 1 .. (at - 1) : InFile(disk["tmp"], tree, list[i], flushed[list[i]], Pos("tmp"))
  /\ pc \in {"tmp_superblock", "swap"} =>
       \A n \in Nodes : InFile(disk["tmp"], tree, n, flushed[n], Pos("tmp"))

\* The last checkpoint is in the file.
Limit == IF phase = "up" THEN Pos("live") ELSE FileSize(disk["live"])
InLive == Checkpoint(disk["live"], BestSb(disk["live"]), saved, Limit)

\* What destroy persisted is the last checkpoint.
Persisted == phase = "up" => closed = NotClosed
PersistedDown == closed # NotClosed => \A n \in Nodes : closed[n] = saved[n]

\* The inductive invariant, together with StaleInv.
SafeInv == Control /\ Lists /\ Flags /\ Positions /\ Revisions /\ Current /\ Memory /\ InLive
           /\ Persisted /\ PersistedDown

\* A node that is in the file stays there when the file grows, and for a trie that has
\* the same of it.
LEMMA InFileGrows ==
  ASSUME NEW f \in Files, NEW g \in Files, NEW lim \in Nat, NEW l \in Nat, Grows(f, g, lim), lim <= l,
         NEW t, NEW u, NEW n, NEW v, InFile(f, t, n, v, lim),
         u[n].disk_offset = t[n].disk_offset, u[n].kids = t[n].kids
  PROVE  InFile(g, u, n, v, l)
<1>1. CASE t[n].disk_offset = None
  BY <1>1 DEF InFile
<1>2. CASE t[n].disk_offset # None
  <2>1. PICK c \in Contents : /\ c.node = n /\ c.ver = v /\ c.kids = t[n].kids
                              /\ Stored(f, t[n].disk_offset, c, lim)
    BY <1>2 DEF InFile
  <2>2. Stored(g, u[n].disk_offset, c, l)
    BY <2>1, StoredGrows
  <2> QED  BY <1>2, <2>1, <2>2 DEF InFile
<1> QED  BY <1>1, <1>2

\* A file grows into itself.
LEMMA GrowsSelf == ASSUME NEW f, NEW lim PROVE Grows(f, f, lim)
BY DEF Grows

\* The fields of an empty node.
LEMMA EmptyFields ==
  ASSUME NEW n \in Nodes
  PROVE  /\ EmptyTree[n].disk_offset = None /\ EmptyTree[n].ver = 0
         /\ EmptyTree[n].bn_dirty = FALSE /\ EmptyTree[n].hb_dirty = FALSE
         /\ \A c \in Children(n) : EmptyTree[n].kids[c] = 0
<1>1. EmptyTree[n] = EmptyNode(n)
  BY DEF EmptyTree
<1> QED  BY <1>1 DEF EmptyNode

\* A new file.
LEMMA NewFileSpec ==
  /\ BestSb(NewFile) = NewSb /\ FileSize(NewFile) = Base
  /\ \A s \in ValidSlots(NewFile) : NewFile.sb[s].revision = 0
  /\ NewPf.cur_bid * BlockSize + NewPf.cur_offset = Base /\ NewPf.cur_offset = 0 /\ NewPf.revision = 0
<1>1. NewFile \in Files /\ ValidSlots(NewFile) # {}
  BY NewFileOK DEF FileOK
<1>2. WinningSlot(NewFile) \in Slots /\ BestSb(NewFile) = NewFile.sb[WinningSlot(NewFile)]
  BY <1>1, BestSbSpec
<1>3. NewFile.sb = [s \in Slots |-> NewSb] /\ NewFile.data = <<>>
  BY DEF NewFile, Slots
<1>4. BestSb(NewFile) = NewSb
  BY <1>2, <1>3
<1>5. FileSize(NewFile) = Base
  BY <1>3, Constants DEF FileSize
<1>6. NewSb.revision = 0
  BY DEF NewSb
<1>7. \A s \in ValidSlots(NewFile) : NewFile.sb[s].revision = 0
  BY <1>3, <1>6 DEF ValidSlots
<1>8. NewPf.cur_bid * BlockSize + NewPf.cur_offset = Base /\ NewPf.cur_offset = 0 /\ NewPf.revision = 0
  BY Constants DEF NewPf, Base
<1> QED  BY <1>4, <1>5, <1>7, <1>8

\* It holds in a new file.
LEMMA SafeInit == Init => SafeInv
<1> SUFFICES ASSUME Init PROVE SafeInv
  OBVIOUS
<1>1. /\ disk["live"] = NewFile /\ pf["live"] = NewPf /\ tree = EmptyTree /\ phase = "up" /\ pc = "idle"
      /\ reason = "none" /\ passes = 0 /\ list = <<>> /\ at = 0 /\ flushed = Zero /\ saved = Zero
      /\ closed = NotClosed
  BY DEF Init
<1>2. Control /\ Lists
  BY <1>1 DEF Control, Lists, Flushing, Pass
<1>3. Flags
  <2>1. Alike
    BY <1>1, EmptyFields DEF Alike
  <2>2. \A n \in Nodes : tree[n].bn_dirty \in BOOLEAN
    BY <1>1, EmptyFields
  <2> QED  BY <1>1, <2>1, <2>2 DEF Flags, Flushing, Pass
<1>4. Pos("live") = Base /\ FileSize(disk["live"]) = Base /\ pf["live"].cur_offset = 0
  BY <1>1, NewFileSpec DEF Pos
<1>5. Positions
  BY <1>1, <1>4, Constants DEF Positions, SizeOK, Rewriting
<1>6. Revisions
  BY <1>1, NewFileSpec DEF Revisions, Rewriting
<1>7. Current
  BY <1>1 DEF Current, Writing
<1>8. Links(tree)
  <2>1. ASSUME NEW n \in Nodes, n # Root PROVE tree[Parent[n]].kids[n] = 0
    <3>1. Parent[n] \in Nodes /\ n \in Children(Parent[n])
      BY <2>1, PageFileAssumption DEF Children
    <3> QED  BY <1>1, <3>1, EmptyFields
  <2>2. \A n \in Nodes : Place(tree, n) = 0
    BY <1>1, EmptyFields DEF Place
  <2> QED  BY <2>1, <2>2 DEF Links
<1>9. \A n \in Nodes : InFile(disk["live"], tree, n, 0, Base)
  BY <1>1, EmptyFields DEF InFile
<1>10. \A n \in Nodes : flushed[n] = 0 /\ tree[n].ver = 0 /\ saved[n] = 0
  BY <1>1, EmptyFields DEF Zero
<1>11. flushed \in [Nodes -> Nat]
  BY <1>1 DEF Zero
<1>12. Memory
  BY <1>1, <1>4, <1>8, <1>9, <1>10, <1>11 DEF Memory, Rewriting
<1>13. InLive
  <2>1. NewFile \in Files /\ NewSb \in Sbs /\ NewSb.root = 0 /\ Base \in Nat
    BY NewFileOK, Constants DEF NewSb, Sbs
  <2>2. Place(tree, Root) = 0
    BY <1>1, EmptyFields, PageFileAssumption DEF Place
  <2>3. \A n \in Nodes : InFile(NewFile, tree, n, saved[n], Base)
    BY <1>1, <1>9, <1>10
  <2>4. TreeOK(tree)
    BY <1>1, EmptyTreeOK
  <2>5. Checkpoint(NewFile, NewSb, saved, Base)
    BY <1>8, <2>1, <2>2, <2>3, <2>4, TreeCheckpoint
  <2> QED  BY <1>1, <1>4, <2>5, NewFileSpec DEF InLive, Limit
<1> QED  BY <1>1, <1>2, <1>3, <1>5, <1>6, <1>7, <1>12, <1>13 DEF SafeInv, Persisted, PersistedDown

\* The last checkpoint and what destroy persisted, while the file is as it was.
LEMMA FileFrame ==
  ASSUME SafeInv, UNCHANGED <<disk, pf, phase, saved, closed>>
  PROVE  InLive' /\ Persisted' /\ PersistedDown'
<1>1. InLive'
  BY DEF SafeInv, InLive, Limit, Pos
<1> QED  BY <1>1 DEF SafeInv, Persisted, PersistedDown

\* Places and links do not depend on flags and versions.
LEMMA LinksSame ==
  ASSUME NEW t, NEW u, Links(t),
         \A n \in Nodes : u[n].disk_offset = t[n].disk_offset /\ u[n].kids = t[n].kids
  PROVE  Links(u) /\ Place(u, Root) = Place(t, Root)
<1>1. \A n \in Nodes : Parent[n] \in Nodes
  BY PageFileAssumption
<1>2. \A n \in Nodes : Place(u, n) = Place(t, n)
  BY DEF Place
<1>3. Root \in Nodes
  BY PageFileAssumption
<1> QED  BY <1>1, <1>2, <1>3 DEF Links

\* The effect of an update.
LEMMA UpdateEffect ==
  ASSUME Types, NEW n \in Nodes, NEW z \in Sizes, Update(n, z)
  PROVE  /\ \A m \in Nodes : tree'[m].disk_offset = tree[m].disk_offset /\ tree'[m].kids = tree[m].kids
         /\ \A m \in Nodes : m # n => tree'[m] = tree[m]
         /\ tree'[n].bn_dirty = TRUE /\ tree'[n].hb_dirty = TRUE
<1> DEFINE v == tree[n].ver + 1
           b == TRUE
           x == Updated(tree[n], v, z, b)
<1>1. TreeOK(tree) /\ NodeOK(n, tree[n])
  BY DEF Types, TreeOK
<1>2. tree' = [tree EXCEPT ![n] = x]
  BY Zenon DEF Update, Updated
<1> HIDE DEF v, b
<1>3. x = Node(v, z, tree[n].disk_offset, b, b, tree[n].kids)
  BY <1>1, NodeUpdated
<1> HIDE DEF x
<1>4. tree'[n] = x /\ \A m \in Nodes : m # n => tree'[m] = tree[m]
  BY <1>1, <1>2 DEF TreeOK
<1>5. x.disk_offset = tree[n].disk_offset /\ x.kids = tree[n].kids /\ x.bn_dirty = b /\ x.hb_dirty = b
  BY <1>3 DEF Node
<1> QED  BY <1>4, <1>5 DEF b

\* An update.
LEMMA UpdateSafe ==
  ASSUME StaleInv, SafeInv, odd' = {}, NEW n \in Nodes, NEW z \in Sizes, Update(n, z)
  PROVE  SafeInv'
<1>1. /\ phase = "up" /\ pc = "idle" /\ reason = "none" /\ UNCHANGED <<disk, pf, phase, pc, reason, passes, list, at, w>>
      /\ UNCHANGED <<flushed, saved, closed>>
  BY DEF Update, SafeInv, Control, flusher
<1>2. /\ \A m \in Nodes : tree'[m].disk_offset = tree[m].disk_offset /\ tree'[m].kids = tree[m].kids
      /\ \A m \in Nodes : m # n => tree'[m] = tree[m]
      /\ tree'[n].bn_dirty = TRUE /\ tree'[n].hb_dirty = TRUE
  BY UpdateEffect DEF StaleInv
<1>3. Control' /\ Lists' /\ Positions' /\ Current'
  BY <1>1 DEF SafeInv, Control, Lists, Positions, Current, Flushing, Writing, Pos, Rewriting, Pass
<1>4. Revisions'
  BY <1>1 DEF SafeInv, Revisions, Rewriting
<1>5. Flags'
  <2>1. Alike'
    BY <1>1, <1>2 DEF SafeInv, Flags, Alike
  <2>2. ASSUME NEW m \in Nodes PROVE tree'[m].bn_dirty \in BOOLEAN
    BY <1>2 DEF SafeInv, Flags
  <2> QED  BY <1>1, <2>1, <2>2 DEF Flags, Flushing, Pass
<1>6. Memory'
  <2>1. Links(tree')
    BY <1>1, <1>2, LinksSame DEF SafeInv, Memory
  <2>2. disk["live"] \in Files /\ Pos("live") \in Nat /\ Pos("live")' = Pos("live")
    BY <1>1, PosNat DEF StaleInv, Types, Pos
  <2>3. ASSUME NEW m \in Nodes, tree'[m].bn_dirty = FALSE
        PROVE  tree'[m].ver = flushed[m] /\ InFile(disk["live"], tree', m, flushed[m], Pos("live"))
    <3>1. m # n
      BY <1>2, <2>3
    <3>2. tree'[m] = tree[m] /\ tree[m].bn_dirty = FALSE
      BY <1>2, <2>3, <3>1
    <3>3. tree[m].ver = flushed[m] /\ InFile(disk["live"], tree, m, flushed[m], Pos("live"))
      BY <1>1, <3>2 DEF SafeInv, Memory, Rewriting
    <3>4. Grows(disk["live"], disk["live"], Pos("live"))
      BY GrowsSelf
    <3>5. tree'[m].disk_offset = tree[m].disk_offset /\ tree'[m].kids = tree[m].kids
      BY <1>2
    <3>6. Pos("live") <= Pos("live")
      BY <2>2
    <3> QED  BY <2>2, <3>2, <3>3, <3>4, <3>5, <3>6, InFileGrows
  <2> QED  BY <1>1, <2>1, <2>2, <2>3 DEF SafeInv, Memory, Rewriting, Pass
<1>7. InLive' /\ Persisted' /\ PersistedDown'
  BY <1>1, FileFrame
<1> QED  BY <1>3, <1>4, <1>5, <1>6, <1>7 DEF SafeInv

\* The start of a flush.
LEMMA StartFlushSafe ==
  ASSUME StaleInv, SafeInv, NEW why \in {"snapshot", "close", "vacuum"}, StartFlush(why)
  PROVE  SafeInv'
<1>1. /\ phase = "up" /\ pc = "idle" /\ reason = "none" /\ pc' = "collect" /\ reason' = why /\ passes' = 0
      /\ UNCHANGED <<disk, pf, tree, phase, list, at, w, flushed, saved, closed>>
  BY DEF StartFlush, SafeInv, Control, history
<1>2. Control' /\ Lists' /\ Positions' /\ Current'
  BY <1>1 DEF SafeInv, Control, Lists, Positions, Current, Flushing, Writing, Pos, Rewriting, Pass
<1>3. Revisions'
  BY <1>1 DEF SafeInv, Revisions, Rewriting
<1>4. Flags'
  <2>1. Alike'
    BY <1>1 DEF SafeInv, Flags, Alike
  <2> QED  BY <1>1, <2>1 DEF SafeInv, Flags, Flushing, Pass
<1>5. Memory'
  BY <1>1 DEF SafeInv, Memory, Rewriting, Pass, Pos
<1>6. InLive' /\ Persisted' /\ PersistedDown'
  BY <1>1, FileFrame
<1> QED  BY <1>2, <1>3, <1>4, <1>5, <1>6 DEF SafeInv

\* The flags after the walk.
LEMMA CollectEffect ==
  ASSUME Types, Flags, Collect
  PROVE  /\ \A n \in Nodes : /\ tree'[n].disk_offset = tree[n].disk_offset /\ tree'[n].kids = tree[n].kids
                             /\ tree'[n].ver = tree[n].ver
         /\ \A n \in Nodes : tree'[n].bn_dirty = tree'[n].hb_dirty /\ tree'[n].bn_dirty \in BOOLEAN
         /\ \A n \in Nodes : tree'[n].bn_dirty = FALSE => tree[n].bn_dirty = FALSE
         /\ \A n \in Nodes : (\E i \in 1 .. Len(list') : list'[i] = n) <=> tree'[n].bn_dirty = TRUE
         /\ \A n \in Nodes : tree'[n].bn_dirty = TRUE => tree'[Parent[n]].bn_dirty = TRUE
         /\ passes = 1 => list' = <<>>
         /\ list' \in Seq(Nodes)
         /\ \A i, j \in 1 .. Len(list') : i < j => list'[i] # list'[j] /\ Depth[list'[i]] >= Depth[list'[j]]
<1> DEFINE B(n) == BnDirty(n)
           H(n) == HbDirty[n]
           X(n) == Flagged(tree[n], B(n), H(n))
           S == {n \in Nodes : HbDirty[n] /\ BnDirty(n)}
<1>1. tree' = [n \in Nodes |-> X(n)]
  BY DEF Collect, Flagged
<1>2. pc = "collect" /\ list' \in Deepest(S)
  BY DEF Collect
<1>3. Alike /\ (passes = 1 => Clean)
  <2>1. (passes = 0 /\ Alike) \/ (passes = 1 /\ Clean)
    BY <1>2 DEF Flags
  <2>2. Clean => Alike
    BY DEF Alike, Clean
  <2> QED  BY <2>1, <2>2
<1>4. ASSUME NEW n \in Nodes PROVE H(n) = B(n) /\ B(n) \in BOOLEAN
  <2>1. HbDirty[n] = (tree[n].hb_dirty \/ \E c \in Children(n) : HbDirty[c])
    BY HbDirtySpec
  <2>2. tree[n].bn_dirty = tree[n].hb_dirty
    BY <1>3 DEF Alike
  <2>3. BnDirty(n) = (tree[n].hb_dirty \/ \E c \in Children(n) : HbDirty[c])
    BY <2>2, Zenon DEF BnDirty
  <2> QED  BY <2>1, <2>3, Zenon
<1>5. ASSUME NEW n \in Nodes, B(n) = FALSE PROVE tree[n].bn_dirty = FALSE
  <2>1. ~(tree[n].bn_dirty \/ \E c \in Children(n) : HbDirty[c])
    BY <1>5, Zenon DEF BnDirty
  <2>2. tree[n].bn_dirty \in BOOLEAN
    BY DEF Flags
  <2> QED  BY <2>1, <2>2, Zenon
<1>6. ASSUME NEW n \in Nodes PROVE n \in S <=> B(n) = TRUE
  BY <1>4, Zenon
<1>7. ASSUME NEW n \in Nodes, B(n) = TRUE PROVE Parent[n] \in Nodes /\ B(Parent[n]) = TRUE
  <2>1. Parent[n] \in Nodes /\ (n = Root => Parent[n] = Root)
    BY PageFileAssumption
  <2>2. CASE n = Root
    BY <1>7, <2>1, <2>2
  <2>3. CASE n # Root
    <3>1. n \in Children(Parent[n]) /\ HbDirty[n]
      BY <1>4, <1>7, <2>1, <2>3, Zenon DEF Children
    <3>2. BnDirty(Parent[n])
      BY <3>1, Zenon DEF BnDirty
    <3>3. B(Parent[n]) \in BOOLEAN
      BY <1>4, <2>1
    <3> QED  BY <2>1, <3>2, <3>3, Zenon
  <2> QED  BY <2>2, <2>3
<1>8. ASSUME passes = 1, NEW n \in Nodes PROVE B(n) = FALSE
  <2>1. \A m \in Nodes : HbDirty[m] = FALSE
    BY <1>3, <1>8, HbDirtyNone DEF Clean
  <2> QED  BY <1>4, <2>1, Zenon
<1>9. S \in SUBSET Nodes
  OBVIOUS
<1> HIDE DEF B, H
<1>10. ASSUME NEW n \in Nodes
       PROVE  /\ tree'[n].disk_offset = tree[n].disk_offset /\ tree'[n].kids = tree[n].kids
              /\ tree'[n].ver = tree[n].ver /\ tree'[n].bn_dirty = B(n) /\ tree'[n].hb_dirty = H(n)
  <2>1. NodeOK(n, tree[n])
    BY DEF Types, TreeOK
  <2>2. X(n) = Node(tree[n].ver, tree[n].size, tree[n].disk_offset, B(n), H(n), tree[n].kids)
    BY <2>1, NodeFlags
  <2>3. tree'[n] = X(n)
    BY <1>1
  <2> HIDE DEF X
  <2> QED  BY <2>2, <2>3 DEF Node
<1> HIDE DEF S
<1>11. \A n : n \in S <=> \E i \in 1 .. Len(list') : list'[i] = n
  BY <1>2, <1>9, DeepestAll
<1>12. list' \in Seq(Nodes) /\ (list' = <<>> <=> S = {}) /\ Len(list') = Cardinality(S)
  BY <1>2, <1>9, DeepestType
<1>13. passes = 1 => list' = <<>>
  <2>1. ASSUME passes = 1 PROVE S = {}
    <3>1. \A n \in Nodes : n \notin S
      BY <1>6, <1>8, <2>1
    <3> QED  BY <1>9, <3>1
  <2> QED  BY <1>12, <2>1
<1>14. \A i, j \in 1 .. Len(list') : i < j => list'[i] # list'[j] /\ Depth[list'[i]] >= Depth[list'[j]]
  <2>1. /\ list' \in [1 .. Cardinality(S) -> S]
        /\ \A i, j \in DOMAIN list' : i < j => list'[i] # list'[j] /\ Depth[list'[i]] >= Depth[list'[j]]
    BY <1>2 DEF Deepest
  <2> QED  BY <1>12, <2>1
<1>15. \A n \in Nodes : (\E i \in 1 .. Len(list') : list'[i] = n) <=> tree'[n].bn_dirty = TRUE
  BY <1>6, <1>10, <1>11
<1>16. \A n \in Nodes : tree'[n].bn_dirty = TRUE => tree'[Parent[n]].bn_dirty = TRUE
  BY <1>7, <1>10
<1>17. \A n \in Nodes : tree'[n].bn_dirty = tree'[n].hb_dirty /\ tree'[n].bn_dirty \in BOOLEAN
  BY <1>4, <1>10
<1>18. \A n \in Nodes : tree'[n].bn_dirty = FALSE => tree[n].bn_dirty = FALSE
  BY <1>5, <1>10
<1> QED  BY <1>10, <1>12, <1>13, <1>14, <1>15, <1>16, <1>17, <1>18

\* Memory and file, while only flags change that stay or become set.
LEMMA MemoryFrame ==
  ASSUME Types, Memory, UNCHANGED <<disk, pf, phase, flushed, saved>>, phase = "up",
         ~Rewriting, ~Rewriting', reason # "rewrite", reason' # "rewrite", pc' # "close",
         pc' \notin {"tmp_superblock", "swap"},
         \A n \in Nodes : /\ tree'[n].disk_offset = tree[n].disk_offset /\ tree'[n].kids = tree[n].kids
                          /\ tree'[n].ver = tree[n].ver
                          /\ tree'[n].bn_dirty = FALSE => tree[n].bn_dirty = FALSE
  PROVE  Memory'
<1>1. Links(tree')
  BY LinksSame DEF Memory
<1>2. disk["live"] \in Files /\ Pos("live") \in Nat /\ Pos("live")' = Pos("live") /\ Pos("live") <= Pos("live")
  BY PosNat DEF Types, Pos
<1>3. Grows(disk["live"], disk["live"], Pos("live"))
  BY GrowsSelf
<1>4. ASSUME NEW m \in Nodes, tree'[m].bn_dirty = FALSE
      PROVE  tree'[m].ver = flushed[m] /\ InFile(disk["live"], tree', m, flushed[m], Pos("live"))
  <2>1. tree[m].bn_dirty = FALSE /\ tree'[m].ver = tree[m].ver
        /\ tree'[m].disk_offset = tree[m].disk_offset /\ tree'[m].kids = tree[m].kids
    BY <1>4
  <2>2. tree[m].ver = flushed[m] /\ InFile(disk["live"], tree, m, flushed[m], Pos("live"))
    BY <2>1 DEF Memory
  <2> QED  BY <1>2, <1>3, <2>1, <2>2, InFileGrows
<1> QED  BY <1>1, <1>2, <1>4 DEF Memory

\* A turn of the loop begins.
LEMMA CollectSafe ==
  ASSUME StaleInv, SafeInv, Collect
  PROVE  SafeInv'
<1>1. /\ pc = "collect" /\ at' = 1 /\ passes' = passes + 1
      /\ pc' = (IF list' = <<>> THEN "superblock" ELSE "serialize")
      /\ UNCHANGED <<disk, pf, phase, reason, w, flushed, saved, closed>>
  BY DEF Collect, history
<1>2. phase = "up" /\ reason # "rewrite" /\ passes \in {0, 1} /\ pc' \in {"superblock", "serialize"}
  BY <1>1 DEF SafeInv, Control, Flags
<1>3. /\ \A n \in Nodes : /\ tree'[n].disk_offset = tree[n].disk_offset /\ tree'[n].kids = tree[n].kids
                          /\ tree'[n].ver = tree[n].ver
      /\ \A n \in Nodes : tree'[n].bn_dirty = tree'[n].hb_dirty /\ tree'[n].bn_dirty \in BOOLEAN
      /\ \A n \in Nodes : tree'[n].bn_dirty = FALSE => tree[n].bn_dirty = FALSE
      /\ \A n \in Nodes : (\E i \in 1 .. Len(list') : list'[i] = n) <=> tree'[n].bn_dirty = TRUE
      /\ \A n \in Nodes : tree'[n].bn_dirty = TRUE => tree'[Parent[n]].bn_dirty = TRUE
      /\ passes = 1 => list' = <<>>
      /\ list' \in Seq(Nodes)
      /\ \A i, j \in 1 .. Len(list') : i < j => list'[i] # list'[j] /\ Depth[list'[i]] >= Depth[list'[j]]
  BY CollectEffect DEF StaleInv, SafeInv
<1>4. Control'
  BY <1>1, <1>2, <1>3 DEF SafeInv, Control, Flushing, Pass
<1>5. Lists'
  <2>1. list' # <<>> => 1 \in 1 .. Len(list')
    BY <1>3
  <2> QED  BY <1>1, <1>2, <1>3, <2>1 DEF Lists, Pass
<1>6. Positions' /\ Current'
  BY <1>1, <1>2 DEF SafeInv, Control, Positions, Current, Writing, Pos, Rewriting
<1>7. Revisions'
  BY <1>1, <1>2 DEF SafeInv, Revisions, Rewriting
<1>8. Flags'
  <2>1. CASE list' = <<>>
    <3>1. Clean'
      <4>1. ASSUME NEW n \in Nodes PROVE tree'[n].bn_dirty = FALSE /\ tree'[n].hb_dirty = FALSE
        <5>1. ~\E i \in 1 .. Len(list') : list'[i] = n
          BY <2>1
        <5>2. tree'[n].bn_dirty # TRUE /\ tree'[n].bn_dirty \in BOOLEAN /\ tree'[n].bn_dirty = tree'[n].hb_dirty
          BY <1>3, <5>1
        <5> QED  BY <5>2
      <4> QED  BY <4>1 DEF Clean
    <3> QED  BY <1>1, <1>2, <1>3, <2>1, <3>1 DEF Flags, Flushing, Pass
  <2>2. CASE list' # <<>>
    <3>1. ASSUME NEW n \in Nodes
          PROVE  /\ Listed(n)' => Listed(Parent[n])'
                 /\ ~Listed(n)' => tree'[n].hb_dirty = FALSE
                 /\ ~Ahead(n)' => tree'[n].bn_dirty = FALSE
                 /\ Ahead(n)' => tree'[n].bn_dirty = TRUE /\ tree'[n].hb_dirty = TRUE
      <4>1. /\ tree'[n].bn_dirty = tree'[n].hb_dirty /\ tree'[n].bn_dirty \in BOOLEAN
            /\ Parent[n] \in Nodes
        BY <1>3, PageFileAssumption
      <4>2. Listed(n)' <=> tree'[n].bn_dirty = TRUE
        BY <1>3 DEF Listed
      <4>3. Listed(Parent[n])' <=> tree'[Parent[n]].bn_dirty = TRUE
        BY <1>3, <4>1 DEF Listed
      <4>4. Ahead(n)' <=> Listed(n)'
        BY <1>1 DEF Ahead, Listed
      <4>5. tree'[n].bn_dirty = TRUE => tree'[Parent[n]].bn_dirty = TRUE
        BY <1>3
      <4> QED  BY <4>1, <4>2, <4>3, <4>4, <4>5
    <3> QED  BY <1>1, <1>2, <1>3, <2>2, <3>1 DEF Flags, Flushing, Pass
  <2> QED  BY <2>1, <2>2
<1>9. Memory'
  <2>1. ~Rewriting /\ ~Rewriting' /\ reason' # "rewrite" /\ pc' # "close" /\ pc' \notin {"tmp_superblock", "swap"}
    BY <1>1, <1>2 DEF Rewriting
  <2> QED  BY <1>1, <1>2, <1>3, <2>1, MemoryFrame DEF StaleInv, SafeInv
<1>10. InLive' /\ Persisted' /\ PersistedDown'
  BY <1>1, FileFrame
<1> QED  BY <1>4, <1>5, <1>6, <1>7, <1>8, <1>9, <1>10 DEF SafeInv

\* The step from one cell to the next stays as it is when the file grows.
LEMMA NextGrows ==
  ASSUME NEW f, NEW g, NEW lim \in Nat, Grows(f, g, lim), NEW x \in Nat, NEW y \in Nat,
         NextPos(f, x) = y, x + 1 < lim
  PROVE  NextPos(g, x) = y
<1>1. x # None /\ y # None /\ x + 1 \in Nat
  BY DEF None
<1>2. CASE ~IsMetaPos(x + 1)
  BY <1>1, <1>2 DEF NextPos
<1>3. CASE IsMetaPos(x + 1)
  <2>1. CellAt(f, x + 1).kind = "meta"
    BY <1>1, <1>3 DEF NextPos
  <2>2. CellAt(f, x + 1) # Hole
    BY <2>1 DEF Hole
  <2>3. CellAt(g, x + 1) = CellAt(f, x + 1)
    BY <1>1, <2>2 DEF Grows
  <2>4. NextPos(g, x) = NextPos(f, x)
    BY <2>3 DEF NextPos
  <2> QED  BY <2>4
<1> QED  BY <1>2, <1>3

\* What holds of the file that a pass writes to.
LEMMA TargetFacts ==
  ASSUME StaleInv, SafeInv, pc \in Pass
  PROVE  /\ phase = "up" /\ Target \in {"live", "tmp"} /\ (Target = "tmp" <=> reason = "rewrite")
         /\ disk[Target] \in Files /\ pf[Target] \in PageFiles
         /\ Pos(Target) \in Nat /\ Base <= Pos(Target) /\ SizeOK(disk[Target], Pos(Target))
         /\ Target = "tmp" => FileSize(disk[Target]) = Pos(Target)
         /\ pc # "meta" => pf[Target].cur_offset <= BlockSize - 2
         /\ at \in 1 .. Len(list) /\ list \in Seq(Nodes) /\ list[at] \in Nodes
<1>1. phase = "up" /\ Target \in {"live", "tmp"} /\ (Target = "tmp" <=> reason = "rewrite")
  BY DEF SafeInv, Control, Pass, Target
<1>2. reason = "rewrite" => Rewriting
  BY DEF Rewriting, Pass
<1>3. disk[Target] \in Files /\ pf[Target] \in PageFiles /\ Pos(Target) \in Nat
  BY <1>1, PosNat DEF StaleInv, Types
<1>4. /\ Base <= Pos(Target) /\ SizeOK(disk[Target], Pos(Target))
      /\ Target = "tmp" => FileSize(disk[Target]) = Pos(Target)
      /\ pc # "meta" => pf[Target].cur_offset <= BlockSize - 2
  <2>1. CASE reason = "rewrite"
    BY <1>1, <1>2, <2>1 DEF SafeInv, Positions, SizeOK
  <2>2. CASE reason # "rewrite"
    <3>1. Target = "live"
      BY <1>1, <2>2
    <3> QED  BY <1>1, <2>2, <3>1 DEF SafeInv, Positions
  <2> QED  BY <2>1, <2>2
<1>5. at \in 1 .. Len(list) /\ list \in Seq(Nodes)
  BY DEF SafeInv, Lists, StaleInv, Types
<1> QED  BY <1>1, <1>3, <1>4, <1>5

\* A node is serialized.
LEMMA SerializeSafe ==
  ASSUME StaleInv, SafeInv, Serialize
  PROVE  SafeInv'
<1> DEFINE n == list[at]
           c == Content(n, tree[n])
<1>1. /\ pc = "serialize" /\ pc' = "chunk" /\ pc \in Pass /\ pc' \in Pass
      /\ w' = [node |-> n, written |-> 0, bids |-> 0, offset |-> Pos(Target), content |-> c]
      /\ UNCHANGED <<disk, pf, tree, phase, reason, passes, list, at, flushed, saved, closed>>
  BY DEF Serialize, history, Pass, Content
<1>2. /\ phase = "up" /\ Target \in {"live", "tmp"} /\ pf[Target] \in PageFiles /\ n \in Nodes
      /\ pf[Target].cur_offset <= BlockSize - 2
  BY <1>1, TargetFacts
<1>3. Control' /\ Lists'
  BY <1>1 DEF SafeInv, Control, Lists, Flushing, Pass
<1>4. Positions' /\ Revisions'
  BY <1>1 DEF SafeInv, Positions, Revisions, Rewriting, Pos
<1>5. Flags'
  BY <1>1 DEF SafeInv, Flags, Flushing, Alike, Clean, Listed, Ahead
<1>6. Memory'
  BY <1>1 DEF SafeInv, Memory, Rewriting, Pos
<1>7. InLive' /\ Persisted' /\ PersistedDown'
  BY <1>1, FileFrame
<1>8. ~IsMetaPos(Pos(Target))
  <2>1. pf[Target].cur_bid \in Nat /\ pf[Target].cur_offset \in 0 .. (BlockSize - 1) /\ BlockSize \in Nat
    BY <1>2, Constants DEF PageFiles
  <2>2. IsMetaPos(pf[Target].cur_bid * BlockSize + pf[Target].cur_offset) <=> pf[Target].cur_offset = BlockSize - 1
    BY <2>1, BlockMod
  <2> QED  BY <1>2, <2>1, <2>2 DEF Pos
<1>9. Current'
  <2> HIDE DEF n, c
  <2>1. w'.node = n /\ w'.written = 0 /\ w'.offset = Pos(Target) /\ w'.content = c
    BY <1>1
  <2>2. Target' = Target /\ Pos(Target)' = Pos(Target) /\ disk' = disk
    BY <1>1 DEF Target, Pos
  <2>3. Length(c) \in Nat
    <3>1. tree[n].size \in Nat
      BY <1>2 DEF StaleInv, Types, TreeOK, NodeOK
    <3> QED  BY <3>1, Constants DEF Length, c, Content
  <2> DEFINE q == [i \in 1 .. 0 |-> 0]
  <2>4. Path(disk[Target], Pos(Target), c, q, 0, Pos(Target))
    BY DEF Path
  <2> HIDE DEF q
  <2>5. Partial(disk[Target], Pos(Target), q)'
    BY <1>1, <2>1, <2>2, <2>4 DEF Partial
  <2>6. \E r : Partial(disk[Target], Pos(Target), r)'
    BY <2>5
  <2>7. n' = n /\ c = Content(n, tree'[n]) /\ n = list'[at'] /\ 0 <= Length(c)
    BY <1>1, <2>3 DEF n, c
  <2> QED  BY <1>1, <1>8, <2>1, <2>6, <2>7 DEF Current
<1> QED  BY <1>3, <1>4, <1>5, <1>6, <1>7, <1>9 DEF SafeInv

\* The position of a page file.
PosIn(p) == p.cur_bid * BlockSize + p.cur_offset

\* A write to the file of a pass, at its position or after it: all else is as it was.
LEMMA WriteFrame ==
  ASSUME StaleInv, SafeInv, disk' \in [{"live", "tmp"} -> Files], pf' \in [{"live", "tmp"} -> PageFiles],
         pc \in {"chunk", "meta"}, pc' \in {"chunk", "meta", "written"},
         UNCHANGED <<tree, phase, reason, passes, list, at, flushed, saved, closed>>,
         Grows(disk[Target], disk'[Target], Pos(Target)), Pos(Target) <= PosIn(pf'[Target]),
         \A f \in {"live", "tmp"} : disk'[f].sb = disk[f].sb,
         \A f \in {"live", "tmp"} : f # Target => disk'[f] = disk[f] /\ pf'[f] = pf[f],
         pf'["live"].revision = pf["live"].revision
  PROVE  Control' /\ Lists' /\ Flags' /\ Revisions' /\ Memory' /\ InLive' /\ Persisted' /\ PersistedDown'
<1>1. pc \in Pass /\ pc' \in Pass
  BY DEF Pass
<1>2. /\ phase = "up" /\ Target \in {"live", "tmp"} /\ (Target = "tmp" <=> reason = "rewrite")
      /\ disk[Target] \in Files /\ Pos(Target) \in Nat /\ Target' = Target
  BY <1>1, TargetFacts DEF Target
<1>3. Control' /\ Lists'
  BY DEF SafeInv, Control, Lists, Flushing, Pass
<1>4. Flags'
  BY <1>1 DEF SafeInv, Flags, Flushing, Alike, Clean, Listed, Ahead
<1>5. \A f \in {"live", "tmp"} : BestSb(disk'[f]) = BestSb(disk[f]) /\ ValidSlots(disk'[f]) = ValidSlots(disk[f])
  BY BestSame
<1>6. Revisions'
  BY <1>5 DEF SafeInv, Revisions, Rewriting
<1>7. \A f \in {"live", "tmp"} :
        /\ PosIn(pf[f]) \in Nat /\ PosIn(pf'[f]) \in Nat /\ disk[f] \in Files /\ disk'[f] \in Files
        /\ Grows(disk[f], disk'[f], PosIn(pf[f])) /\ PosIn(pf[f]) <= PosIn(pf'[f])
  <2>1. \A p \in PageFiles : PosIn(p) \in Nat
    <3>1. \A p \in PageFiles : p.cur_bid \in Nat /\ p.cur_offset \in Nat
      BY Constants DEF PageFiles
    <3>2. \A a \in Nat : a * BlockSize \in Nat
      BY Constants
    <3> QED  BY <3>1, <3>2 DEF PosIn
  <2>2. pf \in [{"live", "tmp"} -> PageFiles] /\ disk \in [{"live", "tmp"} -> Files]
    BY DEF StaleInv, Types
  <2>3. ASSUME NEW f \in {"live", "tmp"}, f # Target
        PROVE  Grows(disk[f], disk'[f], PosIn(pf[f])) /\ PosIn(pf[f]) <= PosIn(pf'[f])
    <3>1. disk'[f] = disk[f] /\ pf'[f] = pf[f]
      BY <2>3
    <3>2. PosIn(pf[f]) \in Nat
      BY <2>1, <2>2
    <3> QED  BY <3>1, <3>2, GrowsSelf
  <2>4. PosIn(pf[Target]) = Pos(Target)
    BY DEF PosIn, Pos
  <2> QED  BY <1>2, <2>1, <2>2, <2>3, <2>4
<1>8. \A f \in {"live", "tmp"} : Pos(f) = PosIn(pf[f])
  BY DEF Pos, PosIn
<1>9. /\ Pos("live") = PosIn(pf["live"]) /\ Pos("tmp") = PosIn(pf["tmp"])
      /\ Pos("live")' = PosIn(pf'["live"]) /\ Pos("tmp")' = PosIn(pf'["tmp"])
  BY DEF Pos, PosIn
<1>10. ASSUME NEW f \in {"live", "tmp"}, NEW n, NEW v, InFile(disk[f], tree, n, v, PosIn(pf[f]))
       PROVE  InFile(disk'[f], tree, n, v, PosIn(pf'[f]))
  BY <1>7, <1>10, InFileGrows
<1>11. Memory'
  <2>1. Rewriting' <=> Rewriting
    BY DEF Rewriting
  <2>2. ASSUME ~Rewriting, NEW n \in Nodes, tree[n].bn_dirty = FALSE
        PROVE  InFile(disk'["live"], tree, n, flushed[n], PosIn(pf'["live"]))
    <3>1. InFile(disk["live"], tree, n, flushed[n], Pos("live"))
      BY <1>2, <2>2 DEF SafeInv, Memory
    <3> QED  BY <1>9, <1>10, <3>1
  <2>3. ASSUME Rewriting, NEW i \in 1 .. (at - 1)
        PROVE  InFile(disk'["tmp"], tree, list[i], flushed[list[i]], PosIn(pf'["tmp"]))
    <3>1. InFile(disk["tmp"], tree, list[i], flushed[list[i]], Pos("tmp"))
      BY <1>1, <2>3 DEF SafeInv, Memory
    <3> QED  BY <1>9, <1>10, <3>1
  <2> QED  BY <1>1, <1>9, <2>1, <2>2, <2>3 DEF SafeInv, Memory
<1>12. InLive'
  <2>1. BestSb(disk["live"]) \in Sbs
    BY BestSbSpec DEF StaleInv, FileOK, Types
  <2>2. Checkpoint(disk["live"], BestSb(disk["live"]), saved, PosIn(pf["live"]))
    BY <1>2, <1>9 DEF SafeInv, InLive, Limit
  <2>3. Checkpoint(disk'["live"], BestSb(disk["live"]), saved, PosIn(pf'["live"]))
    BY <1>7, <2>1, <2>2, SameLoaded
  <2> QED  BY <1>2, <1>5, <1>9, <2>3 DEF InLive, Limit
<1> QED  BY <1>3, <1>4, <1>6, <1>11, <1>12 DEF SafeInv, Persisted, PersistedDown

\* n cells from p on are in one block, before its IndexBlkMeta.
Fits(p, n) == \E bid, off \in Nat : p = bid * BlockSize + off /\ off + n <= BlockSize - 1

\* The cells of a chunk continue the path.
LEMMA ChunkPath ==
  ASSUME NEW f \in Files, NEW g \in Files, NEW p \in Nat, Grows(f, g, p),
         NEW n \in Nat \ {0}, Fits(p, n),
         NEW c, NEW o, NEW k \in Nat, \A i \in 1 .. n : CellAt(g, p + i - 1) = Cell(c, k + i),
         NEW q, Path(f, o, c, q, k, p),
         \/ k = 0 /\ p = o
         \/ k > 0 /\ NextPos(f, q[k]) = p /\ q[k] + 1 < p
  PROVE  \E r : Path(g, o, c, r, k + n, p + n) /\ r[k + n] + 1 = p + n
<1> DEFINE r == [i \in 1 .. (k + n) |-> IF i <= k THEN q[i] ELSE p + (i - k) - 1]
<1>a. PICK bid \in Nat, off \in Nat : p = bid * BlockSize + off /\ off + n <= BlockSize - 1
  BY DEF Fits
<1>1. p + n \in Nat /\ p <= p + n /\ k + n \in Nat
  OBVIOUS
<1>2. Path(g, o, c, q, k, p + n)
  BY <1>1, PathGrows
<1>3. q \in [1 .. k -> Nat] /\ (k > 0 => q[1] = o)
  BY DEF Path
<1>4. r \in [1 .. (k + n) -> Nat]
  BY <1>3
<1>5. \A i \in 1 .. (k + n) : r[i] = IF i <= k THEN q[i] ELSE p + (i - k) - 1
  OBVIOUS
<1> HIDE DEF r
<1>6. r[1] = o
  BY <1>3, <1>5
<1>7. ASSUME NEW i \in 1 .. (k + n) PROVE r[i] < p + n /\ CellAt(g, r[i]) = Cell(c, i)
  <2>1. CASE i <= k
    BY <1>2, <1>5, <2>1 DEF Path
  <2>2. CASE i > k
    <3>1. r[i] = p + (i - k) - 1 /\ i - k \in 1 .. n /\ k + (i - k) = i
      BY <1>5, <2>2
    <3>2. CellAt(g, p + (i - k) - 1) = Cell(c, k + (i - k))
      BY <3>1
    <3> QED  BY <3>1, <3>2
  <2> QED  BY <2>1, <2>2
<1>8. ASSUME NEW i \in 1 .. ((k + n) - 1) PROVE NextPos(g, r[i]) = r[i + 1] /\ r[i] + 1 < p + n
  <2>1. CASE i < k
    <3>1. i \in 1 .. (k - 1) /\ r[i] = q[i] /\ r[i + 1] = q[i + 1]
      BY <1>5, <2>1
    <3> QED  BY <1>2, <3>1 DEF Path
  <2>2. CASE i = k
    <3>1. k > 0 /\ r[i] = q[k] /\ r[i + 1] = p /\ k \in 1 .. k
      BY <1>5, <2>2
    <3>2. q[k] \in Nat /\ NextPos(f, q[k]) = p /\ q[k] + 1 < p
      BY <1>3, <3>1
    <3>3. NextPos(g, q[k]) = p
      BY <3>2, NextGrows
    <3> QED  BY <3>1, <3>2, <3>3
  <2>3. CASE i > k
    <3>1. r[i] = p + (i - k) - 1 /\ r[i + 1] = p + (i - k) /\ i - k \in 1 .. (n - 1)
      BY <1>5, <2>3
    <3> DEFINE x == off + (i - k)
    <3>2. x \in 0 .. (BlockSize - 1) /\ x # BlockSize - 1 /\ r[i] + 1 = bid * BlockSize + x
      <4>1. bid * BlockSize \in Nat /\ BlockSize \in Nat
        BY Constants
      <4> QED  BY <1>a, <3>1, <4>1
    <3> HIDE DEF x
    <3>3. ~IsMetaPos(r[i] + 1)
      BY <3>2, BlockMod
    <3>4. r[i] # None
      BY <3>1 DEF None
    <3>5. NextPos(g, r[i]) = r[i] + 1
      BY <3>3, <3>4 DEF NextPos
    <3> QED  BY <3>1, <3>5
  <2> QED  BY <2>1, <2>2, <2>3
<1>9. Path(g, o, c, r, k + n, p + n)
  BY <1>4, <1>6, <1>7, <1>8 DEF Path
<1>10. r[k + n] + 1 = p + n
  BY <1>5
<1> QED  BY <1>9, <1>10

\* Where the next write goes, after a write to the file of a pass.
LEMMA PositionsWrite ==
  ASSUME StaleInv, SafeInv, pc \in {"chunk", "meta"}, pc' \in {"chunk", "meta", "written"},
         UNCHANGED <<phase, reason>>,
         \A f \in {"live", "tmp"} : f # Target => disk'[f] = disk[f] /\ pf'[f] = pf[f],
         SizeOK(disk'[Target], PosIn(pf'[Target])), Base <= PosIn(pf'[Target]),
         Target = "tmp" => FileSize(disk'[Target]) = PosIn(pf'[Target]),
         pc' # "meta" => pf'[Target].cur_offset <= BlockSize - 2
  PROVE  Positions'
<1>1. phase = "up" /\ Target \in {"live", "tmp"} /\ (Target = "tmp" <=> reason = "rewrite")
  BY TargetFacts DEF Pass
<1>2. Pos("live")' = PosIn(pf'["live"]) /\ Pos("tmp")' = PosIn(pf'["tmp"])
  BY DEF Pos, PosIn
<1>3. CASE reason = "rewrite"
  <2>1. Target = "tmp" /\ disk'["live"] = disk["live"] /\ pf'["live"] = pf["live"]
    BY <1>1, <1>3
  <2>2. SizeOK(disk["live"], Pos("live")) /\ Base <= Pos("live") /\ pf["live"].cur_offset <= BlockSize - 2
    BY <1>1, <1>3 DEF SafeInv, Positions
  <2>3. Pos("live") = PosIn(pf["live"])
    BY DEF Pos, PosIn
  <2> QED  BY <1>1, <1>2, <1>3, <2>1, <2>2, <2>3 DEF Positions, Rewriting
<1>4. CASE reason # "rewrite"
  <2>1. Target = "live"
    BY <1>1, <1>4
  <2> QED  BY <1>1, <1>2, <1>4, <2>1 DEF Positions, Rewriting
<1> QED  BY <1>3, <1>4

\* A chunk is written.
LEMMA WriteChunkSafe ==
  ASSUME StaleInv, SafeInv, WriteChunk
  PROVE  SafeInv'
<1> DEFINE T == Target
           f == disk[T]
           g == disk'[T]
           p == Pos(T)
           bid == pf[T].cur_bid
           off == pf[T].cur_offset
           n == ChunkLen
           k == w.written
           c == w.content
<1>1. Types /\ pc = "chunk" /\ pc \in Pass /\ StaleInv'
  BY WriteChunkStale DEF StaleInv, WriteChunk, Pass
<1>2. /\ phase = "up" /\ T \in {"live", "tmp"} /\ (T = "tmp" <=> reason = "rewrite")
      /\ f \in Files /\ pf[T] \in PageFiles /\ p \in Nat /\ Base <= p /\ SizeOK(f, p)
      /\ (T = "tmp" => FileSize(f) = p) /\ off <= BlockSize - 2
  BY <1>1, TargetFacts
<1>3. bid \in Nat /\ off \in Nat /\ p = bid * BlockSize + off
  BY <1>2, Constants DEF PageFiles, Pos
<1>4. ChunkBid = bid /\ ChunkOff = off
  BY <1>2, <1>3, Constants DEF ChunkBid, ChunkOff, ChunkFull, MetaSize
<1>5. /\ n \in Nat \ {0} /\ off + n <= BlockSize - 1 /\ c \in Contents
      /\ k + n <= Length(c) /\ (k + n < Length(c) => off + n = BlockSize - 1)
      /\ ChunkCells \in Seq(FileCells) /\ Len(ChunkCells) = n
      /\ \A i \in 1 .. n : ChunkCells[i] = Cell(c, k + i)
      /\ disk' = [disk EXCEPT ![T].data = PWrite(@, p, ChunkCells)]
      /\ pf' = [pf EXCEPT ![T] = [@ EXCEPT !.cur_bid = bid, !.cur_offset = off + n]]
      /\ w' = [w EXCEPT !.written = @ + n, !.bids = @ + 1]
      /\ pc' = (IF BlockSize - (off + n) <= MetaSize \/ (k + n >= Length(c) /\ w.bids > 0)
                THEN "meta" ELSE "written")
      /\ UNCHANGED <<tree, phase, reason, passes, list, at, flushed, saved, closed>>
  BY <1>1, <1>3, <1>4, ChunkSpec DEF history
<1>6. pc' \in {"meta", "written"} /\ T' = T
  BY <1>5 DEF Target
<1>7. /\ w'.node = w.node /\ w'.written = k + n /\ w'.offset = w.offset /\ w'.content = c
      /\ k \in Nat /\ k < Length(c) /\ w.offset \in Nat /\ Length(c) \in Nat
  <2>1. /\ w = [node |-> w.node, written |-> w.written, bids |-> w.bids, offset |-> w.offset,
                content |-> w.content]
        /\ w.written \in Nat /\ w.written < Length(w.content) /\ w.offset \in Nat
    BY <1>1 DEF Types, WriteOK, Writing
  <2>2. w' = [node |-> w.node, written |-> w.written + n, bids |-> w.bids + 1, offset |-> w.offset,
              content |-> w.content]
    <3> HIDE DEF n
    <3> QED  BY <1>5, <2>1
  <2>3. Length(c) \in Nat
    BY <1>5, ContentFields
  <2> QED  BY <2>1, <2>2, <2>3
<1>8. /\ disk' \in [{"live", "tmp"} -> Files] /\ pf' \in [{"live", "tmp"} -> PageFiles]
  BY <1>1 DEF StaleInv, Types
<1>9. /\ \A t \in {"live", "tmp"} : disk'[t].sb = disk[t].sb
      /\ g.data = PWrite(f.data, p, ChunkCells)
      /\ \A t \in {"live", "tmp"} : t # T => disk'[t] = disk[t]
  <2>1. disk \in [{"live", "tmp"} -> Files] /\ (\A t \in {"live", "tmp"} : FileOK(disk[t])) /\ p \in Int
    BY <1>2 DEF StaleInv, Types
  <2> HIDE DEF T, p
  <2> QED  BY <1>2, <1>5, <2>1, DataWrite
<1>10. /\ pf'[T].cur_bid = bid /\ pf'[T].cur_offset = off + n
       /\ \A t \in {"live", "tmp"} : pf'[t].revision = pf[t].revision
       /\ \A t \in {"live", "tmp"} : t # T => pf'[t] = pf[t]
  <2> DEFINE e == off + n
             x == [pf[T] EXCEPT !.cur_bid = bid, !.cur_offset = e]
  <2>1. pf \in [{"live", "tmp"} -> PageFiles] /\ pf' = [pf EXCEPT ![T] = x]
    BY <1>1, <1>5 DEF Types
  <2> HIDE DEF e, T
  <2>2. x.cur_bid = bid /\ x.cur_offset = e /\ x.revision = pf[T].revision
    BY <1>2 DEF PageFiles
  <2> HIDE DEF x, bid, off, n
  <2>3. pf'[T] = x /\ \A t \in {"live", "tmp"} : t # T => pf'[t] = pf[t]
    BY <1>2, <2>1
  <2> QED  BY <2>2, <2>3 DEF e
<1>11. PosIn(pf'[T]) = p + n
  <2>1. bid * BlockSize \in Nat
    BY <1>3, Constants
  <2> QED  BY <1>3, <1>5, <1>10, <2>1 DEF PosIn
<1>12. /\ Grows(f, g, p) /\ FileSize(g) = Greater(FileSize(f), p + n)
       /\ \A i \in 1 .. n : CellAt(g, p + i - 1) = Cell(c, k + i)
  <2>1. g \in Files /\ p <= p
    BY <1>2, <1>8
  <2> HIDE DEF f, g, p, n
  <2>2. /\ Grows(f, g, p) /\ FileSize(g) = Greater(FileSize(f), p + Len(ChunkCells))
        /\ \A i \in 1 .. Len(ChunkCells) : CellAt(g, p + i - 1) = ChunkCells[i]
    BY <1>2, <1>5, <1>9, <2>1, WriteGrows
  <2> QED  BY <1>5, <2>2
<1>13. Control' /\ Lists' /\ Flags' /\ Revisions' /\ Memory' /\ InLive' /\ Persisted' /\ PersistedDown'
  <2>1. p <= PosIn(pf'[T]) /\ pc \in {"chunk", "meta"} /\ pc' \in {"chunk", "meta", "written"}
    BY <1>1, <1>2, <1>5, <1>6, <1>11
  <2>2. pf'["live"].revision = pf["live"].revision
    BY <1>10
  <2>3. UNCHANGED <<tree, phase, reason, passes, list, at, flushed, saved, closed>>
    BY <1>5
  <2>4. \A t \in {"live", "tmp"} : t # T => disk'[t] = disk[t] /\ pf'[t] = pf[t]
    BY <1>9, <1>10
  <2>5. \A t \in {"live", "tmp"} : disk'[t].sb = disk[t].sb
    BY <1>9
  <2>6. Grows(disk[Target], disk'[Target], Pos(Target))
    BY <1>12
  <2> QED  BY ONLY StaleInv, SafeInv, <1>8, <2>1, <2>2, <2>3, <2>4, <2>5, <2>6, WriteFrame
<1>14. FileSize(f) \in Nat
  BY <1>2, EndOfType
<1>15. Positions'
  <2>1. SizeOK(g, p + n) /\ (T = "tmp" => FileSize(g) = p + n)
    <3> DEFINE s == FileSize(f)
    <3>1. s = p \/ \E b \in Nat : s = b * BlockSize /\ p <= s
      BY <1>2 DEF SizeOK
    <3>2. FileSize(g) = IF s > p + n THEN s ELSE p + n
      BY <1>12 DEF Greater
    <3>3. s = p => FileSize(g) = p + n
      <4> HIDE DEF s, p, n
      <4> QED  BY <1>2, <1>5, <3>2
    <3>4. CASE s = p
      BY <3>3, <3>4 DEF SizeOK
    <3>5. CASE s # p
      <4>1. PICK b \in Nat : s = b * BlockSize
        BY <3>1, <3>5
      <4>2. T # "tmp"
        BY <1>2, <3>5
      <4>3. CASE s > p + n
        <5>1. FileSize(g) = s
          BY <3>2, <4>3
        <5>2. p + n <= FileSize(g)
          <6> HIDE DEF s, p, n, g
          <6> QED  BY <1>2, <1>5, <1>14, <4>3, <5>1 DEF s
        <5> QED  BY <4>1, <4>2, <5>1, <5>2 DEF SizeOK
      <4>4. CASE ~(s > p + n)
        BY <3>2, <4>2, <4>4 DEF SizeOK
      <4> QED  BY <4>3, <4>4
    <3> QED  BY <3>4, <3>5
  <2>2. Base <= p + n
    BY <1>2, <1>5, Constants
  <2>3. pc' # "meta" => off + n <= BlockSize - 2
    BY <1>3, <1>5, Constants DEF MetaSize
  <2>4. SizeOK(disk'[Target], PosIn(pf'[Target])) /\ Base <= PosIn(pf'[Target])
        /\ (Target = "tmp" => FileSize(disk'[Target]) = PosIn(pf'[Target]))
        /\ (pc' # "meta" => pf'[Target].cur_offset <= BlockSize - 2)
    BY <1>10, <1>11, <2>1, <2>2, <2>3
  <2>5. UNCHANGED <<phase, reason>> /\ pc \in {"chunk", "meta"} /\ pc' \in {"chunk", "meta", "written"}
    BY <1>1, <1>5, <1>6
  <2>6. \A t \in {"live", "tmp"} : t # Target => disk'[t] = disk[t] /\ pf'[t] = pf[t]
    BY <1>9, <1>10
  <2> QED  BY ONLY StaleInv, SafeInv, <2>4, <2>5, <2>6, PositionsWrite
<1>16. Current'
  <2>1. /\ w.node = list[at] /\ c = Content(w.node, tree[w.node]) /\ ~IsMetaPos(w.offset)
        /\ \E q : Partial(f, p, q)
    BY <1>1 DEF SafeInv, Current, Writing
  <2>2. PICK q : Partial(f, p, q)
    BY <2>1
  <2>3. /\ Path(f, w.offset, c, q, k, p)
        /\ \/ k = 0 /\ p = w.offset
           \/ k > 0 /\ NextPos(f, q[k]) = p /\ q[k] + 1 < p
    BY <1>1, <2>2 DEF Partial
  <2>4. PICK r : Path(g, w.offset, c, r, k + n, p + n) /\ r[k + n] + 1 = p + n
    <3>1. g \in Files
      BY <1>2, <1>8
    <3>2. f \in Files /\ p \in Nat /\ bid \in Nat /\ off \in Nat /\ n \in Nat \ {0} /\ k \in Nat
      BY <1>2, <1>3, <1>5, <1>7
    <3>7. Fits(p, n)
      BY <1>3, <1>5 DEF Fits
    <3>3. Grows(f, g, p) /\ \A i \in 1 .. n : CellAt(g, p + i - 1) = Cell(c, k + i)
      BY <1>12
    <3> DEFINE o == w.offset
    <3>4. Path(f, o, c, q, k, p)
      BY <2>3
    <3>5. \/ k = 0 /\ p = o
          \/ k > 0 /\ NextPos(f, q[k]) = p /\ q[k] + 1 < p
      BY <2>3
    <3> HIDE DEF f, g, p, bid, off, n, k, c, o
    <3>6. \E r : Path(g, o, c, r, k + n, p + n) /\ r[k + n] + 1 = p + n
      BY ONLY <3>1, <3>2, <3>3, <3>4, <3>5, <3>7, ChunkPath, SMTT(60)
    <3> QED  BY <3>6 DEF o
  <2>5. Pos(T)' = p + n
    BY <1>6, <1>11 DEF Pos, PosIn
  <2>6. Partial(disk[Target], Pos(Target), r)'
    <3>1. Path(g, w'.offset, w'.content, r, w'.written, p + n) /\ r[w'.written] + 1 = p + n /\ w'.written > 0
      <4>1. k + n > 0
        BY <1>5, <1>7
      <4> QED  BY <1>7, <2>4, <4>1
    <3>2. disk[Target]' = g /\ Pos(Target)' = p + n
      BY <1>6, <2>5
    <3> HIDE DEF g, p, n
    <3> QED  BY <1>6, <3>1, <3>2 DEF Partial
  <2>7. \E x : Partial(disk[Target], Pos(Target), x)'
    BY <2>6
  <2>8. w'.node = list'[at'] /\ w'.content = Content(w'.node, tree'[w'.node]) /\ ~IsMetaPos(w'.offset)
        /\ w'.written <= Length(w'.content)
    BY <1>5, <1>7, <2>1
  <2>9. pf'[Target'].cur_offset = off + n
    BY <1>6, <1>10
  <2>10. off + n \in 1 .. (BlockSize - 1) /\ (w'.written < Length(w'.content) => off + n = BlockSize - 1)
    <3>1. off \in Nat /\ n \in Nat \ {0} /\ off + n <= BlockSize - 1 /\ BlockSize \in Nat
      BY <1>3, <1>5, Constants
    <3>2. w'.written < Length(w'.content) => off + n = BlockSize - 1
      BY <1>5, <1>7
    <3> HIDE DEF off, n
    <3> QED  BY <3>1, <3>2
  <2>11. pc' = "written" => w'.written = Length(w'.content)
    <3>1. ASSUME pc' = "written" PROVE off + n # BlockSize - 1
      BY <1>3, <1>5, <3>1, Constants DEF MetaSize
    <3>2. k + n <= Length(c) /\ k + n \in Nat /\ Length(c) \in Nat
      BY <1>5, <1>7
    <3>3. w'.written = k + n /\ w'.content = c /\ (w'.written < Length(w'.content) => off + n = BlockSize - 1)
      BY <1>7, <2>10
    <3> HIDE DEF k, n, c, off
    <3> QED  BY <3>1, <3>2, <3>3
  <2> HIDE DEF c, n, off, k, f, g, p
  <2> QED  BY <2>7, <2>8, <2>9, <2>10, <2>11 DEF Current
<1> QED  BY <1>13, <1>15, <1>16 DEF SafeInv

\* An IndexBlkMeta is written.
LEMMA WriteMetaSafe ==
  ASSUME StaleInv, SafeInv, WriteMeta
  PROVE  SafeInv'
<1> DEFINE T == Target
           f == disk[T]
           g == disk'[T]
           p == Pos(T)
           bid == pf[T].cur_bid
           off == pf[T].cur_offset
           k == w.written
           c == w.content
           more == k < Length(c)
           m == BlkMeta(IF more THEN bid + 1 ELSE None)
           cs == <<m>>
           o == (bid + 1) * BlockSize - 1
           l == (bid + 1) * BlockSize
<1>1. Types /\ pc = "meta" /\ pc \in Pass /\ StaleInv'
  BY WriteMetaStale DEF StaleInv, WriteMeta, Pass
<1>2. /\ phase = "up" /\ T \in {"live", "tmp"} /\ (T = "tmp" <=> reason = "rewrite")
      /\ f \in Files /\ pf[T] \in PageFiles /\ p \in Nat /\ Base <= p /\ SizeOK(f, p)
      /\ (T = "tmp" => FileSize(f) = p)
  BY <1>1, TargetFacts
<1>3. /\ off \in 1 .. (BlockSize - 1) /\ (more => off = BlockSize - 1) /\ k <= Length(c)
      /\ w.node = list[at] /\ c = Content(w.node, tree[w.node]) /\ ~IsMetaPos(w.offset)
      /\ \E q : Partial(f, p, q)
  BY <1>1 DEF SafeInv, Current, Writing
<1>4. /\ bid \in Nat /\ p = bid * BlockSize + off /\ l = bid * BlockSize + BlockSize /\ l = o + 1
      /\ o \in Nat /\ l \in Nat /\ p <= o /\ Base <= o /\ (more => p = o)
  <2>1. bid \in Nat /\ p = bid * BlockSize + off
    BY <1>2 DEF PageFiles, Pos
  <2>2. bid * BlockSize \in Nat /\ BlockSize \in Nat
    BY <2>1, Constants
  <2>3. l = bid * BlockSize + BlockSize
    BY <2>1, <2>2
  <2>4. o = l - 1
    OBVIOUS
  <2> HIDE DEF l, o, p, off, bid, more
  <2> QED  BY <1>2, <1>3, <2>1, <2>2, <2>3, <2>4, Constants
<1>5. /\ disk' = [disk EXCEPT ![T].data = PWrite(@, o, cs)]
      /\ pf' = [pf EXCEPT ![T] = [@ EXCEPT !.cur_bid = bid + 1, !.cur_offset = 0]]
      /\ pc' = (IF more THEN "chunk" ELSE "written")
      /\ UNCHANGED <<tree, phase, reason, passes, list, at, w, flushed, saved, closed>>
  BY Zenon DEF WriteMeta, history, MetaSize
<1>6. pc' \in {"chunk", "written"} /\ T' = T
  BY <1>5 DEF Target
<1>7. cs \in Seq(FileCells) /\ Len(cs) = 1 /\ cs[1] = m
  <2>1. m \in FileCells
    BY <1>4 DEF BlkMeta, FileCells, None
  <2> HIDE DEF m
  <2> QED  BY <2>1
<1>8. disk' \in [{"live", "tmp"} -> Files] /\ pf' \in [{"live", "tmp"} -> PageFiles]
  BY <1>1 DEF StaleInv, Types
<1>9. /\ \A t \in {"live", "tmp"} : disk'[t].sb = disk[t].sb
      /\ g.data = PWrite(f.data, o, cs)
      /\ \A t \in {"live", "tmp"} : t # T => disk'[t] = disk[t]
  <2>1. disk \in [{"live", "tmp"} -> Files] /\ (\A t \in {"live", "tmp"} : FileOK(disk[t])) /\ o \in Int
    BY <1>4 DEF StaleInv, Types
  <2> HIDE DEF T, o, cs
  <2> QED  BY <1>2, <1>5, <1>7, <2>1, DataWrite
<1>10. /\ pf'[T].cur_bid = bid + 1 /\ pf'[T].cur_offset = 0
       /\ \A t \in {"live", "tmp"} : pf'[t].revision = pf[t].revision
       /\ \A t \in {"live", "tmp"} : t # T => pf'[t] = pf[t]
  <2> DEFINE e == bid + 1
             z == 0
             x == [pf[T] EXCEPT !.cur_bid = e, !.cur_offset = z]
  <2>1. pf \in [{"live", "tmp"} -> PageFiles] /\ pf' = [pf EXCEPT ![T] = x]
    BY <1>1, <1>5 DEF Types
  <2> HIDE DEF e, z, T
  <2>2. x.cur_bid = e /\ x.cur_offset = z /\ x.revision = pf[T].revision
    BY <1>2 DEF PageFiles
  <2> HIDE DEF x, bid
  <2>3. pf'[T] = x /\ \A t \in {"live", "tmp"} : t # T => pf'[t] = pf[t]
    BY <1>2, <2>1
  <2> QED  BY <2>2, <2>3 DEF e, z
<1>11. PosIn(pf'[T]) = l
  BY <1>4, <1>10 DEF PosIn
<1> HIDE DEF l, o, m, cs
<1>12. /\ Grows(f, g, p) /\ FileSize(g) = Greater(FileSize(f), l) /\ CellAt(g, o) = m
  <2>1. g \in Files
    BY <1>2, <1>8
  <2> HIDE DEF f, g, p
  <2>2. /\ Grows(f, g, p) /\ FileSize(g) = Greater(FileSize(f), o + Len(cs))
        /\ \A i \in 1 .. Len(cs) : CellAt(g, o + i - 1) = cs[i]
    <3>1. f \in Files /\ p \in Nat /\ o \in Nat /\ p <= o /\ Base <= o /\ cs \in Seq(FileCells)
      BY <1>2, <1>4, <1>7
    <3>2. g.data = PWrite(f.data, o, cs)
      BY <1>9
    <3> QED  BY ONLY <2>1, <3>1, <3>2, WriteGrows
  <2>3. 1 \in 1 .. Len(cs) /\ o + 1 - 1 = o /\ o + Len(cs) = l
    BY <1>4, <1>7
  <2>4. CellAt(g, o + 1 - 1) = cs[1]
    BY <2>2, <2>3
  <2> QED  BY <1>7, <2>2, <2>3, <2>4
<1>13. Control' /\ Lists' /\ Flags' /\ Revisions' /\ Memory' /\ InLive' /\ Persisted' /\ PersistedDown'
  <2>1. p <= PosIn(pf'[T]) /\ pc \in {"chunk", "meta"} /\ pc' \in {"chunk", "meta", "written"}
    <3> HIDE DEF p
    <3> QED  BY <1>1, <1>2, <1>4, <1>6, <1>11
  <2>2. pf'["live"].revision = pf["live"].revision
    BY <1>10
  <2>3. UNCHANGED <<tree, phase, reason, passes, list, at, flushed, saved, closed>>
    BY <1>5
  <2>4. \A t \in {"live", "tmp"} : t # T => disk'[t] = disk[t] /\ pf'[t] = pf[t]
    BY <1>9, <1>10
  <2>5. \A t \in {"live", "tmp"} : disk'[t].sb = disk[t].sb
    BY <1>9
  <2>6. Grows(disk[Target], disk'[Target], Pos(Target))
    BY <1>12
  <2> QED  BY ONLY StaleInv, SafeInv, <1>8, <2>1, <2>2, <2>3, <2>4, <2>5, <2>6, WriteFrame
<1>14. Positions'
  <2>1. SizeOK(g, l) /\ (T = "tmp" => FileSize(g) = l)
    <3> DEFINE s == FileSize(f)
    <3>1. s = p \/ \E b \in Nat : s = b * BlockSize /\ p <= s
      BY <1>2 DEF SizeOK
    <3>2. FileSize(g) = IF s > l THEN s ELSE l
      BY <1>12 DEF Greater
    <3>3. CASE s = p
      <4>1. FileSize(g) = l
        <5> HIDE DEF s, p
        <5> QED  BY <1>2, <1>4, <3>2, <3>3
      <4> QED  BY <4>1 DEF SizeOK
    <3>4. CASE s # p
      <4>1. PICK b \in Nat : s = b * BlockSize /\ p <= s
        BY <3>1, <3>4
      <4>2. T # "tmp"
        BY <1>2, <3>4
      <4>3. bid < b
        <5>1. off \in Nat /\ off > 0 /\ bid * BlockSize + off <= b * BlockSize
          BY <1>3, <1>4, <4>1
        <5> HIDE DEF bid, off
        <5> QED  BY <1>4, <5>1, BlockOrder
      <4>4. l <= s
        <5> HIDE DEF bid, s
        <5> QED  BY <1>4, <4>1, <4>3, BlockLess DEF l
      <4>5. FileSize(g) = s
        <5>1. s \in Nat
          BY <1>2, EndOfType
        <5> HIDE DEF s
        <5> QED  BY <1>4, <3>2, <4>4, <5>1
      <4> HIDE DEF s
      <4> QED  BY <4>1, <4>2, <4>4, <4>5 DEF SizeOK
    <3> QED  BY <3>3, <3>4
  <2>2. Base <= l /\ 0 <= BlockSize - 2
    BY <1>4, Constants
  <2>4. SizeOK(disk'[Target], PosIn(pf'[Target])) /\ Base <= PosIn(pf'[Target])
        /\ (Target = "tmp" => FileSize(disk'[Target]) = PosIn(pf'[Target]))
        /\ (pc' # "meta" => pf'[Target].cur_offset <= BlockSize - 2)
    BY <1>10, <1>11, <2>1, <2>2
  <2>5. UNCHANGED <<phase, reason>> /\ pc \in {"chunk", "meta"} /\ pc' \in {"chunk", "meta", "written"}
    BY <1>1, <1>5, <1>6
  <2>6. \A t \in {"live", "tmp"} : t # Target => disk'[t] = disk[t] /\ pf'[t] = pf[t]
    BY <1>9, <1>10
  <2> QED  BY ONLY StaleInv, SafeInv, <2>4, <2>5, <2>6, PositionsWrite
<1>15. Current'
  <2>1. PICK q : Partial(f, p, q)
    BY <1>3
  <2>2. Path(f, w.offset, c, q, k, p) /\ k > 0 /\ q[k] + 1 = p /\ k \in Nat
    BY <1>1, <2>1 DEF Partial, Types, WriteOK, Writing
  <2>3. Path(g, w.offset, c, q, k, l)
    <3>1. g \in Files /\ p <= l
      <4>1. g \in Files
        BY <1>2, <1>8
      <4> HIDE DEF p
      <4> QED  BY <1>2, <1>4, <4>1
    <3> HIDE DEF f, g, p, k, c
    <3> QED  BY <1>2, <1>4, <1>12, <2>2, <3>1, PathGrows
  <2>4. ASSUME more PROVE NextPos(g, q[k]) = l /\ q[k] + 1 < l
    <3>1. p = o /\ q[k] + 1 = o /\ q[k] \in Nat
      <4>1. k \in 1 .. k
        BY <2>2
      <4>2. q[k] \in Nat
        BY <2>2, <4>1 DEF Path
      <4> QED  BY <1>4, <2>2, <2>4, <4>2
    <3>2. IsMetaPos(o)
      <4>1. BlockSize - 1 \in 0 .. (BlockSize - 1) /\ o = bid * BlockSize + (BlockSize - 1)
        <5>1. bid * BlockSize \in Nat /\ BlockSize \in Nat /\ BlockSize > 2
          BY <1>4, Constants
        <5> QED  BY <1>4, <5>1
      <4> HIDE DEF bid
      <4> QED  BY <1>4, <4>1, BlockMod
    <3>3. m = BlkMeta(bid + 1) /\ bid + 1 # None /\ q[k] # None
      BY <1>4, <2>4, <3>1 DEF m, None
    <3>4. CellAt(g, q[k] + 1).kind = "meta" /\ CellAt(g, q[k] + 1).next_bid = bid + 1
      BY <1>12, <3>1, <3>3 DEF BlkMeta
    <3>5. NextPos(g, q[k]) = (bid + 1) * BlockSize
      <4> HIDE DEF g, bid, k
      <4> QED  BY <3>1, <3>2, <3>3, <3>4 DEF NextPos
    <3> QED  BY <1>4, <3>1, <3>5 DEF l
  <2>5. Partial(disk[Target], Pos(Target), q)'
    <3>1. disk[Target]' = g /\ Pos(Target)' = l
      BY <1>6, <1>11 DEF Pos, PosIn
    <3>2. w' = w /\ (pc' = "chunk" => more) /\ pc' # "meta"
      BY <1>5
    <3> HIDE DEF g, more
    <3> QED  BY <2>2, <2>3, <2>4, <3>1, <3>2 DEF Partial
  <2>6. \E x : Partial(disk[Target], Pos(Target), x)'
    BY <2>5
  <2>7. w'.node = list'[at'] /\ w'.content = Content(w'.node, tree'[w'.node]) /\ ~IsMetaPos(w'.offset)
        /\ w'.written <= Length(w'.content)
    BY <1>3, <1>5
  <2>8. pc' = "written" => w'.written = Length(w'.content)
    <3>1. Length(c) \in Nat /\ k \in Nat
      BY <1>1, ContentFields DEF Types, WriteOK, Writing
    <3> QED  BY <1>3, <1>5, <3>1
  <2> QED  BY <1>6, <2>6, <2>7, <2>8 DEF Current
<1> QED  BY <1>13, <1>14, <1>15 DEF SafeInv

\* The trie after page_file_write_node: the node is at its new place, and its parent
\* knows it.
AfterWrite(d) == Repoint([tree EXCEPT ![w.node] = Placed(@, w.offset, FALSE)], w.node, w.offset, d)

\* Parents are less deep.
LEMMA ParentDepth ==
  ASSUME NEW n \in Nodes
  PROVE  /\ Parent[n] \in Nodes /\ Depth[n] \in Nat /\ Depth[Parent[n]] \in Nat
         /\ n = Root => Parent[n] = n
         /\ n # Root => Depth[n] > Depth[Parent[n]] /\ Parent[n] # n /\ n \in Children(Parent[n])
<1>1. Parent[n] \in Nodes /\ Depth[n] \in Nat /\ Depth[Parent[n]] \in Nat /\ (n = Root => Parent[n] = n)
  BY PageFileAssumption
<1>2. n # Root => Depth[n] = Depth[Parent[n]] + 1
  BY PageFileAssumption
<1>3. n # Root => n \in Children(Parent[n])
  BY DEF Children
<1> QED  BY <1>1, <1>2, <1>3

\* What changes of the trie, and that its links stay right.
LEMMA AfterWriteSpec ==
  ASSUME Types, Writing, Links(tree), NEW d
  PROVE  LET n == w.node
             p == Parent[n]
             u == AfterWrite(d)
         IN /\ \A m \in Nodes : u[m].ver = tree[m].ver /\ u[m].hb_dirty = tree[m].hb_dirty
            /\ \A m \in Nodes : m # n => u[m].disk_offset = tree[m].disk_offset
            /\ \A m \in Nodes : m = n \/ m # p => u[m].kids = tree[m].kids
            /\ u[n].disk_offset = w.offset /\ u[n].bn_dirty = FALSE
            /\ \A m \in Nodes : m # n /\ m # p => u[m].bn_dirty = tree[m].bn_dirty
            /\ n # Root => u[p].bn_dirty = (tree[p].bn_dirty \/ d)
            /\ Links(u)
<1> DEFINE n == w.node
           p == Parent[n]
           u == AfterWrite(d)
           x == Placed(tree[n], w.offset, FALSE)
           t == [tree EXCEPT ![n] = x]
<1>1. n \in Nodes /\ w.offset \in Nat /\ TreeOK(tree) /\ w.offset # None
  BY DEF Types, WriteOK, None
<1>2. NodeOK(n, x) /\ x = Node(tree[n].ver, tree[n].size, w.offset, FALSE, tree[n].hb_dirty, tree[n].kids)
  BY PlacedTree
<1>3. u = Repoint(t, n, w.offset, d)
  BY DEF AfterWrite
<1>4. p \in Nodes /\ (n = Root => p = n) /\ (n # Root => p # n)
  BY <1>1, ParentDepth
<1> HIDE DEF x, p
<1>5. TreeOK(t) /\ t[n] = x /\ \A m \in Nodes : m # n => t[m] = tree[m]
  <2>1. TreeOK(tree) /\ n \in Nodes /\ NodeOK(n, x)
    BY <1>1, <1>2
  <2> HIDE DEF n
  <2> QED  BY ONLY <2>1, TreeReplace DEF t
<1>6. x.ver = tree[n].ver /\ x.disk_offset = w.offset /\ x.bn_dirty = FALSE /\ x.hb_dirty = tree[n].hb_dirty
      /\ x.kids = tree[n].kids
  BY <1>2 DEF Node
<1>7. n = Root => u = t
  BY <1>3 DEF Repoint
<1>8. n # Root => /\ \A m \in Nodes : m # p => u[m] = t[m]
                  /\ u[p] = [ver |-> t[p].ver, size |-> t[p].size, disk_offset |-> t[p].disk_offset,
                             bn_dirty |-> (t[p].bn_dirty \/ d), hb_dirty |-> t[p].hb_dirty,
                             kids |-> [t[p].kids EXCEPT ![n] = w.offset]]
  <2> DEFINE o == w.offset
             v == Repoint(t, n, o, d)
  <2>1. TreeOK(t) /\ n \in Nodes /\ o \in Nat
    BY <1>1, <1>5
  <2> HIDE DEF t, n, o
  <2>2. n # Root => /\ \A m \in Nodes : m # Parent[n] => v[m] = t[m]
                    /\ v[Parent[n]] =
                         [ver |-> t[Parent[n]].ver, size |-> t[Parent[n]].size,
                          disk_offset |-> t[Parent[n]].disk_offset,
                          bn_dirty |-> (t[Parent[n]].bn_dirty \/ d), hb_dirty |-> t[Parent[n]].hb_dirty,
                          kids |-> [t[Parent[n]].kids EXCEPT ![n] = o]]
    BY ONLY <2>1, RepointSpec
  <2>3. v = u
    BY <1>3 DEF o
  <2> HIDE DEF v, u
  <2> QED  BY ONLY <2>2, <2>3 DEF p, o
<1> HIDE DEF t, u
<1>9. n # Root => /\ u[p].ver = tree[p].ver /\ u[p].hb_dirty = tree[p].hb_dirty
                  /\ u[p].disk_offset = tree[p].disk_offset
                  /\ u[p].bn_dirty = (tree[p].bn_dirty \/ d) /\ u[p].kids = [tree[p].kids EXCEPT ![n] = w.offset]
  <2> SUFFICES ASSUME n # Root
               PROVE  /\ u[p].ver = tree[p].ver /\ u[p].hb_dirty = tree[p].hb_dirty
                      /\ u[p].disk_offset = tree[p].disk_offset
                      /\ u[p].bn_dirty = (tree[p].bn_dirty \/ d) /\ u[p].kids = [tree[p].kids EXCEPT ![n] = w.offset]
    OBVIOUS
  <2>1. t[p] = tree[p]
    BY <1>4, <1>5
  <2> DEFINE b == tree[p].bn_dirty \/ d
             k == [tree[p].kids EXCEPT ![n] = w.offset]
  <2>2. u[p] = [ver |-> tree[p].ver, size |-> tree[p].size, disk_offset |-> tree[p].disk_offset,
                bn_dirty |-> b, hb_dirty |-> tree[p].hb_dirty, kids |-> k]
    BY <1>8, <2>1
  <2> HIDE DEF b, k
  <2>3. /\ u[p].ver = tree[p].ver /\ u[p].hb_dirty = tree[p].hb_dirty
        /\ u[p].disk_offset = tree[p].disk_offset /\ u[p].bn_dirty = b /\ u[p].kids = k
    BY <2>2
  <2> QED  BY <2>3 DEF b, k
<1>10. ASSUME NEW m \in Nodes, m # n, n = Root \/ m # p PROVE u[m] = tree[m]
  BY <1>5, <1>7, <1>8, <1>10
<1>11. u[n] = x
  BY <1>1, <1>4, <1>5, <1>7, <1>8
<1>12. ASSUME NEW m \in Nodes PROVE u[m].ver = tree[m].ver /\ u[m].hb_dirty = tree[m].hb_dirty
  <2>1. CASE m = n
    BY <1>6, <1>11, <2>1
  <2>2. CASE m # n
    BY <1>9, <1>10, <2>2
  <2> QED  BY <2>1, <2>2
<1>13. ASSUME NEW m \in Nodes, m # n PROVE u[m].disk_offset = tree[m].disk_offset
  BY <1>9, <1>10, <1>13
<1>14. ASSUME NEW m \in Nodes, m = n \/ m # p PROVE u[m].kids = tree[m].kids
  <2>1. CASE m = n
    BY <1>6, <1>11, <2>1
  <2>2. CASE m # n
    BY <1>10, <1>14, <2>2
  <2> QED  BY <2>1, <2>2
<1>15. ASSUME NEW m \in Nodes, m # n, m # p PROVE u[m].bn_dirty = tree[m].bn_dirty
  BY <1>10, <1>15
<1>16. Links(u)
  <2> SUFFICES ASSUME NEW m \in Nodes, m # Root PROVE u[Parent[m]].kids[m] = Place(u, m)
    BY DEF Links
  <2>1. Parent[m] \in Nodes /\ m \in Children(Parent[m]) /\ tree[Parent[m]].kids[m] = Place(tree, m)
    BY ParentDepth DEF Links
  <2>2. tree[Parent[m]].kids \in [Children(Parent[m]) -> Nat]
    BY <1>1, <2>1 DEF TreeOK, NodeOK
  <2>3. CASE m = n
    <3>1. u[p].kids = [tree[p].kids EXCEPT ![n] = w.offset] /\ p = Parent[m]
      BY <1>9, <2>3 DEF p
    <3>2. u[Parent[m]].kids[m] = w.offset
      BY <2>1, <2>2, <2>3, <3>1
    <3>3. Place(u, m) = w.offset
      BY <1>1, <1>6, <1>11, <2>3 DEF Place
    <3> QED  BY <3>2, <3>3
  <2>4. CASE m # n
    <3>1. Place(u, m) = Place(tree, m)
      BY <1>13, <2>4 DEF Place
    <3>2. u[Parent[m]].kids[m] = tree[Parent[m]].kids[m]
      <4>1. CASE Parent[m] = p /\ n # Root
        <5>1. u[Parent[m]].kids = [tree[Parent[m]].kids EXCEPT ![n] = w.offset]
          BY <1>9, <4>1
        <5> QED  BY <2>1, <2>2, <2>4, <5>1
      <4>2. CASE Parent[m] # p \/ n = Root
        <5>1. Parent[m] = n \/ Parent[m] # p
          BY <1>4, <4>2
        <5> QED  BY <1>14, <2>1, <5>1
      <4> QED  BY <4>1, <4>2
    <3> QED  BY <2>1, <3>1, <3>2
  <2> QED  BY <2>3, <2>4
<1> QED  BY <1>6, <1>9, <1>11, <1>12, <1>13, <1>14, <1>15, <1>16 DEF p, u

\* What was written is in the file.
LEMMA WrittenStored ==
  ASSUME StaleInv, SafeInv, pc = "written"
  PROVE  /\ w.node = list[at] /\ w.node \in Nodes /\ w.content \in Contents /\ w.offset \in Nat
         /\ w.content.node = w.node /\ w.content.ver = tree[w.node].ver /\ w.content.kids = tree[w.node].kids
         /\ Stored(disk[Target], w.offset, w.content, Pos(Target))
<1>1. /\ w.node \in Nodes /\ w.content \in Contents /\ w.content.node = w.node /\ w.offset \in Nat
      /\ w.written \in Nat
  BY DEF StaleInv, Types, WriteOK, Writing
<1>2. /\ w.node = list[at] /\ w.content = Content(w.node, tree[w.node]) /\ ~IsMetaPos(w.offset)
      /\ w.written = Length(w.content)
      /\ \E q : Partial(disk[Target], Pos(Target), q)
  BY DEF SafeInv, Current, Writing
<1>3. w.content.ver = tree[w.node].ver /\ w.content.kids = tree[w.node].kids
  BY <1>2 DEF Content
<1>4. PICK q : Partial(disk[Target], Pos(Target), q)
  BY <1>2
<1>5. Path(disk[Target], w.offset, w.content, q, Length(w.content), Pos(Target))
  BY <1>2, <1>4 DEF Partial
<1> QED  BY <1>1, <1>2, <1>3, <1>5 DEF Stored

\* A node that was written is in the file of the trie after it.
LEMMA WrittenInFile ==
  ASSUME StaleInv, SafeInv, pc = "written", NEW u,
         u[w.node].disk_offset = w.offset, u[w.node].kids = tree[w.node].kids
  PROVE  InFile(disk[Target], u, w.node, w.content.ver, Pos(Target))
<1>1. w.offset # None
  BY WrittenStored DEF None
<1> QED  BY <1>1, WrittenStored DEF InFile

\* The flush goes on after a node.
LEMMA FlushWrittenSafe ==
  ASSUME StaleInv, SafeInv, FlushWritten
  PROVE  SafeInv'
<1>0. Types /\ w.node \in Nodes
  BY DEF StaleInv, FlushWritten, Types, WriteOK, Writing
<1> PICK n \in Nodes : n = w.node
  BY <1>0
<1> DEFINE p == Parent[n]
<1>1. /\ Types /\ pc = "written" /\ reason # "rewrite" /\ pc \in Pass /\ Writing
      /\ tree' = AfterWrite(TRUE)
      /\ flushed' = [flushed EXCEPT ![n] = w.content.ver]
      /\ at' = at + 1 /\ pc' = (IF at < Len(list) THEN "serialize" ELSE "clear")
      /\ UNCHANGED <<disk, pf, phase, reason, passes, list, saved, closed>>
  BY <1>0, Zenon DEF FlushWritten, Placed, AfterWrite, Pass, Writing
<1>2. /\ phase = "up" /\ Target = "live" /\ at \in 1 .. Len(list) /\ list \in Seq(Nodes)
      /\ disk["live"] \in Files /\ Pos("live") \in Nat
  BY <1>1, TargetFacts
<1>3. /\ n = list[at] /\ n \in Nodes /\ w.content.ver = tree[n].ver
  BY <1>1, WrittenStored
<1>4. /\ \A m \in Nodes : tree'[m].ver = tree[m].ver /\ tree'[m].hb_dirty = tree[m].hb_dirty
      /\ \A m \in Nodes : m # n => tree'[m].disk_offset = tree[m].disk_offset
      /\ \A m \in Nodes : m = n \/ m # p => tree'[m].kids = tree[m].kids
      /\ tree'[n].disk_offset = w.offset /\ tree'[n].bn_dirty = FALSE
      /\ \A m \in Nodes : m # n /\ m # p => tree'[m].bn_dirty = tree[m].bn_dirty
      /\ n # Root => tree'[p].bn_dirty = (tree[p].bn_dirty \/ TRUE)
      /\ Links(tree')
  <2>1. Links(tree)
    BY <1>2 DEF SafeInv, Memory
  <2>2. n = w.node
    OBVIOUS
  <2> QED  BY ONLY <1>1, <2>1, <2>2, AfterWriteSpec
<1>5. Len(list) \in Nat /\ at \in Nat /\ pc' \in {"serialize", "clear"} /\ Flushing /\ Flushing'
  BY <1>1, <1>2 DEF Flushing, Pass
<1>6. /\ p \in Nodes /\ (n = Root => p = n) /\ (n # Root => Depth[n] > Depth[p] /\ p # n)
      /\ Depth[n] \in Nat /\ Depth[p] \in Nat
  BY <1>3, ParentDepth
<1> HIDE DEF p
<1>7. n # Root => tree'[p].bn_dirty = TRUE
  BY <1>4
<1>8. Control'
  BY <1>1, <1>5 DEF SafeInv, Control, Flushing, Pass
<1>9. \A i, j \in 1 .. Len(list) : i < j => list[i] # list[j] /\ Depth[list[i]] >= Depth[list[j]]
  BY <1>1 DEF SafeInv, Lists
<1>10. Lists'
  <2>1. at' \in Nat /\ (pc' \in Pass => at' \in 1 .. Len(list)) /\ (pc' = "clear" => at' = Len(list) + 1)
    BY <1>1, <1>2, <1>5 DEF Pass
  <2> QED  BY <1>1, <1>5, <1>9, <2>1 DEF Lists
<1>11. \A m \in Nodes : (Listed(m)' <=> Listed(m)) /\ (Ahead(m) <=> m = n \/ Ahead(m)')
  <2>1. ASSUME NEW m \in Nodes PROVE Ahead(m) <=> m = n \/ Ahead(m)'
    <3>1. Ahead(m) <=> \E i \in at .. Len(list) : list[i] = m
      BY DEF Ahead
    <3>2. Ahead(m)' <=> \E i \in (at + 1) .. Len(list) : list[i] = m
      BY <1>1 DEF Ahead
    <3>3. \A i : i \in at .. Len(list) <=> i = at \/ i \in (at + 1) .. Len(list)
      BY <1>2, <1>5
    <3> QED  BY <1>3, <3>1, <3>2, <3>3
  <2> QED  BY <1>1, <2>1 DEF Listed
<1>12. ~Ahead(n)'
  <2>1. Ahead(n)' <=> \E i \in (at + 1) .. Len(list) : list[i] = n
    BY <1>1 DEF Ahead
  <2>2. \A i \in (at + 1) .. Len(list) : i \in 1 .. Len(list) /\ at < i
    BY <1>2, <1>5
  <2> QED  BY <1>2, <1>3, <1>9, <2>1, <2>2
<1>13. \A m \in Nodes : /\ Listed(m) => Listed(Parent[m])
                        /\ ~Listed(m) => tree[m].hb_dirty = FALSE
                        /\ ~Ahead(m) => tree[m].bn_dirty = FALSE
                        /\ Ahead(m) => tree[m].bn_dirty = TRUE /\ tree[m].hb_dirty = TRUE
  BY <1>5 DEF SafeInv, Flags
<1>14. n # Root => Ahead(p)'
  <2> SUFFICES ASSUME n # Root PROVE Ahead(p)'
    OBVIOUS
  <2>1. Listed(n)
    BY <1>2, <1>3 DEF Listed
  <2>2. PICK j \in 1 .. Len(list) : list[j] = p
    BY <1>3, <1>13, <2>1 DEF Listed, p
  <2>3. j # at
    BY <1>3, <1>6, <2>2
  <2>4. ~(j < at)
    <3>1. ASSUME j < at PROVE FALSE
      <4>1. Depth[list[j]] >= Depth[list[at]]
        BY <1>2, <1>9, <2>2, <3>1
      <4> QED  BY <1>3, <1>6, <2>2, <4>1
    <3> QED  BY <3>1
  <2>5. j \in (at + 1) .. Len(list)
    BY <1>2, <1>5, <2>2, <2>3, <2>4
  <2> QED  BY <1>1, <2>2, <2>5 DEF Ahead
<1>15. Flags'
  <2>1. ASSUME NEW m \in Nodes
        PROVE  /\ Listed(m)' => Listed(Parent[m])'
               /\ ~Listed(m)' => tree'[m].hb_dirty = FALSE
               /\ ~Ahead(m)' => tree'[m].bn_dirty = FALSE
               /\ Ahead(m)' => tree'[m].bn_dirty = TRUE /\ tree'[m].hb_dirty = TRUE
               /\ tree'[m].bn_dirty \in BOOLEAN
    <3>1. Parent[m] \in Nodes /\ tree'[m].hb_dirty = tree[m].hb_dirty
      BY <1>4, ParentDepth
    <3>2. (Listed(m)' => Listed(Parent[m])') /\ (~Listed(m)' => tree'[m].hb_dirty = FALSE)
      BY <1>11, <1>13, <3>1
    <3>3. CASE m = n
      BY <1>4, <1>12, <3>2, <3>3
    <3>4. CASE m # n /\ m = p
      <4>1. n # Root
        BY <1>6, <3>4
      <4>2. Ahead(m) /\ Ahead(m)'
        BY <1>11, <1>14, <3>4, <4>1
      <4> QED  BY <1>7, <1>13, <3>1, <3>2, <3>4, <4>1, <4>2
    <3>5. CASE m # n /\ m # p
      <4>1. Ahead(m)' <=> Ahead(m)
        BY <1>11, <3>5
      <4>2. tree'[m].bn_dirty = tree[m].bn_dirty
        BY <1>4, <3>5
      <4> QED  BY <1>13, <3>1, <3>2, <4>1, <4>2
    <3> QED  BY <3>3, <3>4, <3>5
  <2> QED  BY <1>1, <1>5, <2>1 DEF Flags
<1>16. Positions' /\ Revisions' /\ Current'
  <2>1. Positions'
    BY <1>1, <1>5 DEF SafeInv, Positions, Rewriting, Pos
  <2>2. Revisions'
    BY <1>1, <1>5 DEF SafeInv, Revisions, Rewriting
  <2>3. Current'
    BY <1>5 DEF Current, Writing
  <2> QED  BY <2>1, <2>2, <2>3
<1>17. Memory'
  <2>1. flushed \in [Nodes -> Nat] /\ tree[n].ver \in Nat
    BY <1>1, <1>3 DEF SafeInv, Memory, Types, TreeOK, NodeOK
  <2>2. flushed' \in [Nodes -> Nat] /\ flushed'[n] = tree[n].ver /\ \A m \in Nodes : m # n => flushed'[m] = flushed[m]
    BY <1>1, <1>3, <2>1
  <2>3. Pos("live")' = Pos("live") /\ Pos("live") <= Pos("live") /\ Grows(disk["live"], disk["live"], Pos("live"))
    BY <1>1, <1>2, GrowsSelf DEF Pos
  <2>4. ASSUME NEW m \in Nodes, tree'[m].bn_dirty = FALSE
        PROVE  tree'[m].ver = flushed'[m] /\ InFile(disk["live"], tree', m, flushed'[m], Pos("live"))
    <3>1. CASE m = n
      <4>1. InFile(disk[Target], tree', n, w.content.ver, Pos(Target))
        BY <1>1, <1>3, <1>4, WrittenInFile
      <4> QED  BY <1>2, <1>3, <1>4, <2>2, <3>1, <4>1
    <3>2. CASE m # n
      <4>1. m # p
        BY <1>6, <1>7, <2>4, <3>2
      <4>2. /\ tree[m].bn_dirty = FALSE /\ tree'[m].ver = tree[m].ver /\ flushed'[m] = flushed[m]
            /\ tree'[m].disk_offset = tree[m].disk_offset /\ tree'[m].kids = tree[m].kids
        BY <1>4, <2>2, <2>4, <3>2, <4>1
      <4>3. tree[m].ver = flushed[m] /\ InFile(disk["live"], tree, m, flushed[m], Pos("live"))
        BY <1>1, <1>2, <4>2 DEF SafeInv, Memory, Rewriting
      <4>4. InFile(disk["live"], tree', m, flushed[m], Pos("live"))
        BY <1>2, <2>3, <4>2, <4>3, InFileGrows
      <4> QED  BY <4>2, <4>3, <4>4
    <3> QED  BY <3>1, <3>2
  <2> QED  BY <1>1, <1>4, <1>5, <2>2, <2>3, <2>4 DEF Memory, Rewriting
<1>18. InLive' /\ Persisted' /\ PersistedDown'
  BY <1>1, FileFrame
<1> QED  BY <1>8, <1>10, <1>15, <1>16, <1>17, <1>18 DEF SafeInv

\* The fields of a node whose flag was cleared.
LEMMA ClearedFields ==
  ASSUME NEW n, NEW x, NodeOK(n, x), NEW y, y = Cleared(x, FALSE)
  PROVE  /\ y.ver = x.ver /\ y.disk_offset = x.disk_offset /\ y.kids = x.kids
         /\ y.bn_dirty = x.bn_dirty /\ y.hb_dirty = FALSE
<1> DEFINE h == FALSE
           a1 == x.ver
           a2 == x.size
           a3 == x.disk_offset
           a4 == x.bn_dirty
           a6 == x.kids
<1>1. y = Node(a1, a2, a3, a4, h, a6)
  BY NodeCleared
<1> HIDE DEF h, a1, a2, a3, a4, a6
<1>2. y.ver = a1 /\ y.disk_offset = a3 /\ y.kids = a6 /\ y.bn_dirty = a4 /\ y.hb_dirty = h
  BY ONLY <1>1 DEF Node
<1> QED  BY <1>2, Zenon DEF h, a1, a3, a4, a6

\* The end of a pass.
LEMMA ClearDirtySafe ==
  ASSUME StaleInv, SafeInv, ClearDirty
  PROVE  SafeInv'
<1> DEFINE X(n) == IF n \in ToSet(list) THEN Cleared(tree[n], FALSE) ELSE tree[n]
<1>1. /\ tree' = [n \in Nodes |-> X(n)] /\ pc = "clear" /\ pc' = "collect" /\ list' = <<>> /\ at' = 0
      /\ UNCHANGED <<disk, pf, phase, reason, passes, flushed, saved, closed>>
  BY DEF ClearDirty, Cleared, history
<1>2. phase = "up" /\ reason # "rewrite" /\ Flushing /\ passes = 1 /\ at = Len(list) + 1 /\ list \in Seq(Nodes)
  BY <1>1 DEF SafeInv, Control, Lists, Flushing, StaleInv, Types
<1>3. \A n \in Nodes : /\ ~Listed(n) => tree[n].hb_dirty = FALSE
                       /\ ~Ahead(n) => tree[n].bn_dirty = FALSE
  BY <1>2 DEF SafeInv, Flags
<1>4. ASSUME NEW n \in Nodes
      PROVE  /\ tree'[n].ver = tree[n].ver /\ tree'[n].disk_offset = tree[n].disk_offset
             /\ tree'[n].kids = tree[n].kids /\ tree'[n].bn_dirty = tree[n].bn_dirty
             /\ tree'[n].bn_dirty = FALSE /\ tree'[n].hb_dirty = FALSE
  <2>1. tree'[n] = X(n) /\ NodeOK(n, tree[n])
    BY <1>1 DEF StaleInv, Types, TreeOK
  <2>2. tree[n].bn_dirty = FALSE
    <3>1. Len(list) \in Nat
      BY <1>2
    <3>2. ~Ahead(n)
      BY <1>2, <3>1 DEF Ahead
    <3> QED  BY <1>3, <3>2
  <2>3. CASE n \in ToSet(list)
    <3>1. tree'[n] = Cleared(tree[n], FALSE)
      BY <2>1, <2>3
    <3> HIDE DEF X
    <3> QED  BY <2>1, <2>2, <3>1, ClearedFields
  <2>4. CASE n \notin ToSet(list)
    <3>1. tree'[n] = tree[n]
      BY <2>1, <2>4
    <3>2. ~Listed(n)
      BY <1>2, <2>4 DEF Listed, ToSet
    <3> QED  BY <1>3, <2>2, <3>1, <3>2
  <2> QED  BY <2>3, <2>4
<1> HIDE DEF X
<1>5. Clean'
  BY <1>4 DEF Clean
<1>6. Control' /\ Lists'
  BY <1>1, <1>2 DEF SafeInv, Control, Lists, Flushing, Pass
<1>7. Flags'
  <2>1. \A n \in Nodes : tree'[n].bn_dirty \in BOOLEAN
    BY <1>4
  <2> QED  BY <1>1, <1>2, <1>5, <2>1 DEF Flags, Flushing, Pass
<1>8. Positions' /\ Revisions' /\ Current'
  <2>1. Positions'
    BY <1>1, <1>2 DEF SafeInv, Positions, Rewriting, Pos
  <2>2. Revisions'
    BY <1>1, <1>2 DEF SafeInv, Revisions, Rewriting
  <2>3. Current'
    BY <1>1 DEF Current, Writing
  <2> QED  BY <2>1, <2>2, <2>3
<1>9. Memory'
  <2>1. ~Rewriting /\ ~Rewriting' /\ reason' # "rewrite" /\ pc' # "close" /\ pc' \notin {"tmp_superblock", "swap"}
    BY <1>1, <1>2 DEF Rewriting
  <2> QED  BY <1>1, <1>2, <1>4, <2>1, MemoryFrame DEF StaleInv, SafeInv
<1>10. InLive' /\ Persisted' /\ PersistedDown'
  BY <1>1, FileFrame
<1> QED  BY <1>6, <1>7, <1>8, <1>9, <1>10 DEF SafeInv

\* The walk goes on after a node.
LEMMA WalkWrittenSafe ==
  ASSUME StaleInv, SafeInv, WalkWritten
  PROVE  SafeInv'
<1>0. Types /\ w.node \in Nodes
  BY DEF StaleInv, WalkWritten, Types, WriteOK, Writing
<1> PICK n \in Nodes : n = w.node
  BY <1>0
<1> DEFINE p == Parent[n]
<1>1. /\ Types /\ pc = "written" /\ reason = "rewrite" /\ pc \in Pass /\ Writing
      /\ tree' = AfterWrite(FALSE)
      /\ flushed' = [flushed EXCEPT ![n] = w.content.ver]
      /\ at' = at + 1 /\ pc' = (IF at < Len(list) THEN "serialize" ELSE "tmp_superblock")
      /\ UNCHANGED <<disk, pf, phase, reason, passes, list, saved, closed>>
  BY <1>0, Zenon DEF WalkWritten, Placed, AfterWrite, Pass, Writing
<1>2. /\ phase = "up" /\ Target = "tmp" /\ at \in 1 .. Len(list) /\ list \in Seq(Nodes)
      /\ disk["tmp"] \in Files /\ Pos("tmp") \in Nat
  BY <1>1, TargetFacts
<1>3. n = list[at] /\ w.content.ver = tree[n].ver
  BY <1>1, WrittenStored
<1>4. /\ \A m \in Nodes : tree'[m].ver = tree[m].ver /\ tree'[m].hb_dirty = tree[m].hb_dirty
      /\ \A m \in Nodes : m # n => tree'[m].disk_offset = tree[m].disk_offset
      /\ \A m \in Nodes : m = n \/ m # p => tree'[m].kids = tree[m].kids
      /\ tree'[n].disk_offset = w.offset /\ tree'[n].bn_dirty = FALSE
      /\ \A m \in Nodes : m # n /\ m # p => tree'[m].bn_dirty = tree[m].bn_dirty
      /\ n # Root => tree'[p].bn_dirty = (tree[p].bn_dirty \/ FALSE)
      /\ Links(tree')
  <2>1. Links(tree)
    BY <1>2 DEF SafeInv, Memory
  <2>2. n = w.node
    OBVIOUS
  <2> DEFINE d == FALSE
             u == AfterWrite(d)
  <2>3. Types /\ Writing /\ tree' = u
    BY <1>1
  <2> HIDE DEF d, u
  <2>4. /\ \A m \in Nodes : u[m].ver = tree[m].ver /\ u[m].hb_dirty = tree[m].hb_dirty
        /\ \A m \in Nodes : m # n => u[m].disk_offset = tree[m].disk_offset
        /\ \A m \in Nodes : m = n \/ m # p => u[m].kids = tree[m].kids
        /\ u[n].disk_offset = w.offset /\ u[n].bn_dirty = FALSE
        /\ \A m \in Nodes : m # n /\ m # p => u[m].bn_dirty = tree[m].bn_dirty
        /\ n # Root => u[p].bn_dirty = (tree[p].bn_dirty \/ d)
        /\ Links(u)
    BY ONLY <2>1, <2>2, <2>3, AfterWriteSpec, ZenonT(60) DEF u
  <2> QED  BY ONLY <2>3, <2>4, Zenon DEF d
<1>5. /\ Len(list) \in Nat /\ at \in Nat /\ pc' \in {"serialize", "tmp_superblock"} /\ Rewriting /\ Rewriting'
      /\ ~Flushing' /\ (pc' = "serialize" => at < Len(list)) /\ (pc' = "tmp_superblock" => at = Len(list))
  BY <1>1, <1>2 DEF Rewriting, Flushing
<1>6. /\ p \in Nodes /\ (n = Root => p = n) /\ (n # Root => Depth[n] > Depth[p] /\ p # n)
      /\ Depth[n] \in Nat /\ Depth[p] \in Nat
  BY <1>3, ParentDepth
<1> HIDE DEF p
<1>7. Control'
  BY <1>1, <1>5 DEF SafeInv, Control, Flushing, Pass
<1>8. /\ \A i, j \in 1 .. Len(list) : i < j => list[i] # list[j] /\ Depth[list[i]] >= Depth[list[j]]
      /\ \A m \in Nodes : \E i \in 1 .. Len(list) : list[i] = m
  BY <1>1 DEF SafeInv, Lists
<1>9. Lists'
  <2>1. at' \in Nat /\ (pc' \in Pass => at' \in 1 .. Len(list))
    BY <1>1, <1>2, <1>5 DEF Pass
  <2> QED  BY <1>1, <1>5, <1>8, <2>1 DEF Lists
<1>10. \A m \in Nodes : tree[m].bn_dirty = FALSE /\ tree[m].hb_dirty = FALSE
  BY <1>1 DEF SafeInv, Flags, Clean
<1>11. Clean'
  <2>1. ASSUME NEW m \in Nodes PROVE tree'[m].bn_dirty = FALSE /\ tree'[m].hb_dirty = FALSE
    <3>1. tree'[m].hb_dirty = FALSE
      BY <1>4, <1>10
    <3>2. CASE m = n
      BY <1>4, <3>1, <3>2
    <3>3. CASE m # n /\ m = p
      <4>1. tree'[p].bn_dirty = (tree[p].bn_dirty \/ FALSE) /\ tree[p].bn_dirty = FALSE
        BY <1>4, <1>6, <1>10, <3>3
      <4> QED  BY <3>1, <3>3, <4>1
    <3>4. CASE m # n /\ m # p
      BY <1>4, <1>10, <3>1, <3>4
    <3> QED  BY <3>2, <3>3, <3>4
  <2> QED  BY <2>1 DEF Clean
<1>12. Flags'
  <2>1. \A m \in Nodes : tree'[m].bn_dirty \in BOOLEAN
    BY <1>11 DEF Clean
  <2> QED  BY <1>1, <1>5, <1>11, <2>1 DEF Flags
<1>13. Positions' /\ Revisions' /\ Current'
  <2>1. Positions'
    BY <1>1, <1>5 DEF SafeInv, Positions, Rewriting, Pos
  <2>2. Revisions'
    BY <1>1, <1>5 DEF SafeInv, Revisions, Rewriting
  <2>3. Current'
    BY <1>5 DEF Current, Writing
  <2> QED  BY <2>1, <2>2, <2>3
<1>14. Memory'
  <2>1. /\ flushed \in [Nodes -> Nat] /\ tree[n].ver = flushed[n] /\ \A m \in Nodes : saved[m] = flushed[m]
        /\ \A m \in Nodes : tree[m].ver = flushed[m]
    BY <1>1, <1>2, <1>3, <1>10 DEF SafeInv, Memory
  <2>2. flushed' = flushed
    BY <1>1, <1>3, <2>1
  <2>3. Pos("tmp")' = Pos("tmp") /\ Pos("tmp") <= Pos("tmp") /\ Grows(disk["tmp"], disk["tmp"], Pos("tmp"))
    BY <1>1, <1>2, GrowsSelf DEF Pos
  <2>4. InFile(disk["tmp"], tree', n, flushed[n], Pos("tmp"))
    <3>1. InFile(disk[Target], tree', n, w.content.ver, Pos(Target))
      BY <1>1, <1>3, <1>4, WrittenInFile
    <3> QED  BY <1>2, <1>3, <2>1, <3>1
  <2>5. ASSUME NEW i \in 1 .. at PROVE InFile(disk["tmp"], tree', list[i], flushed[list[i]], Pos("tmp"))
    <3>1. CASE i = at
      BY <1>3, <2>4, <3>1
    <3>2. CASE i # at
      <4>1. i \in 1 .. (at - 1) /\ i < at /\ i \in 1 .. Len(list) /\ list[i] \in Nodes
        BY <1>2, <1>5, <3>2
      <4>2. list[i] # n /\ Depth[list[i]] >= Depth[n]
        BY <1>2, <1>3, <1>8, <4>1
      <4>3. list[i] # p
        BY <1>6, <4>2
      <4>4. tree'[list[i]].disk_offset = tree[list[i]].disk_offset /\ tree'[list[i]].kids = tree[list[i]].kids
        BY <1>4, <4>1, <4>2, <4>3
      <4>5. InFile(disk["tmp"], tree, list[i], flushed[list[i]], Pos("tmp"))
        BY <1>1, <1>5, <4>1 DEF SafeInv, Memory
      <4> DEFINE x == list[i]
      <4> HIDE DEF x
      <4>6. InFile(disk["tmp"], tree', x, flushed[x], Pos("tmp"))
        <5>1. /\ tree'[x].disk_offset = tree[x].disk_offset /\ tree'[x].kids = tree[x].kids
              /\ InFile(disk["tmp"], tree, x, flushed[x], Pos("tmp"))
          BY <4>4, <4>5 DEF x
        <5> QED  BY ONLY <1>2, <2>3, <5>1, InFileGrows
      <4> QED  BY <4>6 DEF x
    <3> QED  BY <3>1, <3>2
  <2>6. pc' = "tmp_superblock" => \A m \in Nodes : InFile(disk["tmp"], tree', m, flushed[m], Pos("tmp"))
    BY <1>5, <1>8, <2>5
  <2>7. at' - 1 = at
    BY <1>1, <1>5
  <2> QED  BY <1>1, <1>4, <1>5, <2>1, <2>2, <2>3, <2>5, <2>6, <2>7 DEF Memory
<1>15. InLive' /\ Persisted' /\ PersistedDown'
  BY <1>1, FileFrame
<1> QED  BY <1>7, <1>9, <1>12, <1>13, <1>14, <1>15 DEF SafeInv

\* The trie after the flag of the root was cleared.
LEMMA RootFields ==
  ASSUME TreeOK(tree), NEW u, u = [tree EXCEPT ![Root].hb_dirty = FALSE]
  PROVE  /\ \A n \in Nodes : /\ u[n].ver = tree[n].ver /\ u[n].disk_offset = tree[n].disk_offset
                             /\ u[n].kids = tree[n].kids /\ u[n].bn_dirty = tree[n].bn_dirty
         /\ \A n \in Nodes : n # Root => u[n].hb_dirty = tree[n].hb_dirty
         /\ u[Root].hb_dirty = FALSE
<1>1. u = [tree EXCEPT ![Root] = Cleared(tree[Root], FALSE)]
  BY Zenon DEF Cleared
<1>2. Root \in Nodes /\ NodeOK(Root, tree[Root]) /\ tree = [n \in Nodes |-> tree[n]]
  BY PageFileAssumption DEF TreeOK
<1> DEFINE y == Cleared(tree[Root], FALSE)
<1>3. /\ y.ver = tree[Root].ver /\ y.disk_offset = tree[Root].disk_offset /\ y.kids = tree[Root].kids
      /\ y.bn_dirty = tree[Root].bn_dirty /\ y.hb_dirty = FALSE
  BY <1>2, ClearedFields
<1> HIDE DEF y
<1>4. u = [tree EXCEPT ![Root] = y]
  BY <1>1 DEF y
<1>5. u[Root] = y /\ \A n \in Nodes : n # Root => u[n] = tree[n]
  BY <1>2, <1>4
<1> QED  BY <1>3, <1>5, Zenon

\* The file with the block of stale regions, and maybe another superblock.
LEMMA BlobFile ==
  ASSUME StaleInv, NEW g \in Files, g.data = WithBlob(disk["live"]).data
  PROVE  /\ \A lim \in Nat : Grows(disk["live"], g, lim)
         /\ \A p \in Nat : SizeOK(disk["live"], p) => SizeOK(g, p)
<1> DEFINE f == disk["live"]
           h == WithBlob(f)
<1>1. f \in Files /\ stale \in Seq(Regions) /\ FileSize(f) \in Nat
  BY EndOfType DEF StaleInv, Types, StaleOK
<1>2. /\ \A lim \in Nat : Grows(f, h, lim)
      /\ FileSize(h) = FileSize(f) \/ \E b \in Nat : FileSize(h) = b * BlockSize /\ FileSize(f) <= b * BlockSize
  BY <1>1, BlobGrows
<1> HIDE DEF h, f
<1>3. FileSize(g) = FileSize(h) /\ \A p \in Nat : CellAt(g, p) = CellAt(h, p)
  BY DEF FileSize, CellAt, h, f
<1>4. \A lim \in Nat : Grows(f, g, lim)
  BY <1>2, <1>3 DEF Grows
<1>5. ASSUME NEW p \in Nat, SizeOK(f, p) PROVE SizeOK(g, p)
  <2>1. p <= FileSize(f)
    BY <1>1, <1>5 DEF SizeOK
  <2>2. CASE FileSize(h) = FileSize(f)
    BY <1>3, <1>5, <2>2 DEF SizeOK
  <2>3. ASSUME NEW b \in Nat, FileSize(h) = b * BlockSize, FileSize(f) <= b * BlockSize PROVE SizeOK(g, p)
    <3>1. FileSize(g) = b * BlockSize /\ FileSize(f) <= FileSize(g) /\ FileSize(g) \in Int
      BY <1>3, <2>3, Constants
    <3>2. p <= FileSize(g)
      BY <1>1, <2>1, <3>1
    <3> QED  BY <3>1, <3>2 DEF SizeOK
  <2> QED  BY <1>2, <2>2, <2>3
<1> QED  BY <1>4, <1>5 DEF f

\* A superblock is written.
LEMMA WriteSuperblockSafe ==
  ASSUME StaleInv, SafeInv, WriteSuperblock
  PROVE  SafeInv'
<1>1. /\ Types /\ StaleOK /\ FileOK(disk["live"]) /\ disk["live"] \in Files
      /\ pc = "superblock" /\ phase = "up" /\ reason \in {"snapshot", "close", "vacuum"} /\ at = 1 /\ Clean
      /\ ~Rewriting
  BY DEF StaleInv, Types, WriteSuperblock, SafeInv, Control, Lists, Flags, Rewriting
<1> DEFINE f == disk["live"]
           h == WithBlob(f)
           g == [h EXCEPT !.sb[NextSlot] = FlushSb]
<1>2. /\ disk' = [disk EXCEPT !["live"] = g] /\ pf' = [pf EXCEPT !["live"].revision = pf["live"].revision + 1]
      /\ tree' = [tree EXCEPT ![Root].hb_dirty = FALSE]
      /\ pc' = (CASE reason = "snapshot" -> "idle" [] reason = "close" -> "close" [] OTHER -> "walk")
      /\ reason' = (IF reason = "vacuum" THEN "rewrite" ELSE IF reason = "snapshot" THEN "none" ELSE reason)
      /\ saved' = flushed
      /\ UNCHANGED <<phase, passes, list, at, w, flushed, closed>>
  BY Zenon DEF WriteSuperblock, NextSlot, FlushSb
<1>3. h \in Files /\ FileOK(h) /\ h.sb = f.sb
  BY <1>1, WithBlobOK, WithBlobType DEF StaleOK
<1>4. FlushSb \in Sbs /\ SlotOK(FlushSb) /\ NextSlot \in Slots /\ pf["live"].revision \in Nat
  BY <1>1, FlushSbType
<1>5. g \in Files /\ g.data = h.data /\ g.sb = [f.sb EXCEPT ![NextSlot] = FlushSb]
  <2> HIDE DEF h
  <2>1. g \in Files /\ g.data = h.data /\ g.sb = [h.sb EXCEPT ![NextSlot] = FlushSb]
    BY ONLY <1>3, <1>4, SlotWrite
  <2> QED  BY <1>3, <2>1
<1>6. FlushSb.revision = pf["live"].revision + 1 /\ FlushSb.root = Place(tree, Root)
  BY DEF FlushSb, RootOffset, Place
<1> HIDE DEF g, h
<1>7. /\ \A lim \in Nat : Grows(f, g, lim)
      /\ \A p \in Nat : SizeOK(f, p) => SizeOK(g, p)
  BY <1>5, BlobFile DEF h
<1>8. disk'["live"] = g /\ Pos("live")' = Pos("live") /\ Pos("live") \in Nat
      /\ pf'["live"].revision = pf["live"].revision + 1 /\ pf'["live"].cur_offset = pf["live"].cur_offset
  BY <1>1, <1>2, PosNat DEF Types, PageFiles, Pos
<1>9. BestSb(g) = FlushSb /\ \A x \in ValidSlots(g) : g.sb[x].revision <= FlushSb.revision
  <2>1. \A x \in ValidSlots(f) : f.sb[x].revision < FlushSb.revision
    <3>1. ASSUME NEW x \in ValidSlots(f) PROVE f.sb[x].revision < FlushSb.revision
      <4>1. f.sb[x].revision <= pf["live"].revision
        BY <1>1 DEF SafeInv, Revisions
      <4>2. f.sb[x].revision \in Nat
        BY <1>1 DEF Files, ValidSlots, Sbs, Torn
      <4> QED  BY <1>4, <1>6, <4>1, <4>2
    <3> QED  BY <3>1
  <2> QED  BY ONLY <1>1, <1>4, <1>5, <2>1, BestNew
<1>10. /\ \A n \in Nodes : /\ tree'[n].ver = tree[n].ver /\ tree'[n].disk_offset = tree[n].disk_offset
                           /\ tree'[n].kids = tree[n].kids /\ tree'[n].bn_dirty = tree[n].bn_dirty
                           /\ tree'[n].bn_dirty = FALSE /\ tree'[n].hb_dirty = FALSE
  <2>1. TreeOK(tree)
    BY <1>1 DEF Types
  <2> QED  BY <1>1, <1>2, <2>1, RootFields DEF Clean
<1>11. Clean'
  BY <1>10 DEF Clean
<1>12. Control'
  BY <1>1, <1>2 DEF SafeInv, Control, Flushing, Pass
<1>13. Lists'
  BY <1>1, <1>2 DEF SafeInv, Lists, Pass
<1>14. Flags'
  <2>1. \A n \in Nodes : tree'[n].bn_dirty \in BOOLEAN
    BY <1>10
  <2>2. ~Flushing' /\ pc' # "collect"
    BY <1>1, <1>2 DEF Flushing, Pass
  <2>3. Alike'
    BY <1>10 DEF Alike
  <2> QED  BY <1>11, <2>1, <2>2, <2>3 DEF Flags
<1>15. ~Rewriting' /\ pc' \in {"idle", "close", "walk"} /\ ~Writing'
  BY <1>1, <1>2 DEF Rewriting, Writing
<1>16. Positions' /\ Revisions' /\ Current'
  <2>1. SizeOK(g, Pos("live")) /\ Base <= Pos("live") /\ pf["live"].cur_offset <= BlockSize - 2
    BY <1>1, <1>7, <1>8 DEF SafeInv, Positions
  <2>2. Positions'
    BY <1>1, <1>2, <1>8, <1>15, <2>1 DEF Positions
  <2>3. Revisions'
    BY <1>2, <1>6, <1>8, <1>9, <1>15 DEF Revisions
  <2>4. Current'
    BY <1>15 DEF Current
  <2> QED  BY <2>2, <2>3, <2>4
<1>17. /\ flushed \in [Nodes -> Nat] /\ Links(tree)
       /\ \A n \in Nodes : tree[n].ver = flushed[n]
       /\ \A n \in Nodes : InFile(f, tree, n, flushed[n], Pos("live"))
  BY <1>1 DEF SafeInv, Memory, Clean
<1>18. Links(tree') /\ Place(tree', Root) = Place(tree, Root)
  BY <1>10, <1>17, LinksSame
<1>19. ASSUME NEW n \in Nodes
       PROVE  InFile(g, tree, n, flushed[n], Pos("live")) /\ InFile(g, tree', n, flushed[n], Pos("live"))
  <2>1. InFile(f, tree, n, flushed[n], Pos("live")) /\ Grows(f, g, Pos("live"))
        /\ f \in Files /\ g \in Files /\ Pos("live") \in Nat /\ Pos("live") <= Pos("live")
        /\ tree'[n].disk_offset = tree[n].disk_offset /\ tree'[n].kids = tree[n].kids
    BY <1>1, <1>5, <1>7, <1>8, <1>10, <1>17
  <2> HIDE DEF f
  <2>2. InFile(g, tree, n, flushed[n], Pos("live"))
    BY ONLY <2>1, InFileGrows
  <2>3. InFile(g, tree', n, flushed[n], Pos("live"))
    BY ONLY <2>1, InFileGrows
  <2> QED  BY <2>2, <2>3
<1>20. Memory'
  <2>1. \A n \in Nodes : saved'[n] = flushed'[n]
    BY <1>2
  <2>2. \A n \in Nodes : tree'[n].ver = flushed'[n]
    BY <1>2, <1>10, <1>17
  <2>3. \A n \in Nodes : InFile(disk'["live"], tree', n, flushed'[n], Pos("live")')
    BY <1>2, <1>8, <1>19
  <2>4. flushed' \in [Nodes -> Nat]
    BY <1>2, <1>17
  <2> QED  BY <1>15, <1>18, <2>1, <2>2, <2>3, <2>4 DEF Memory
<1>21. InLive'
  <2>1. TreeOK(tree) /\ Links(tree) /\ g \in Files /\ FlushSb \in Sbs /\ Pos("live") \in Nat
    BY <1>1, <1>4, <1>5, <1>8, <1>17 DEF Types
  <2>2. Checkpoint(g, FlushSb, flushed, Pos("live"))
    BY ONLY <2>1, <1>6, <1>19, TreeCheckpoint
  <2>3. Limit' = Pos("live")
    BY <1>1, <1>2, <1>8 DEF Limit
  <2> QED  BY <1>2, <1>8, <1>9, <2>2, <2>3 DEF InLive
<1>22. Persisted' /\ PersistedDown'
  <2>1. closed = NotClosed
    BY <1>1 DEF SafeInv, Persisted
  <2> QED  BY <1>1, <1>2, <2>1 DEF Persisted, PersistedDown, NotClosed
<1> QED  BY <1>12, <1>13, <1>14, <1>16, <1>20, <1>21, <1>22 DEF SafeInv

\* The end of a file where the next write goes, or that ends with the list of stale
\* regions, is never before an IndexBlkMeta.
LEMMA EndOffset ==
  ASSUME NEW f \in Files, NEW p \in PageFiles, p.cur_offset <= BlockSize - 2, SizeOK(f, PosIn(p))
  PROVE  EndOf(f).cur_offset <= BlockSize - 2
<1>1. EndOf(f).cur_offset = FileSize(f) % BlockSize
  BY DEF EndOf
<1>2. p.cur_bid \in Nat /\ p.cur_offset \in 0 .. (BlockSize - 1) /\ BlockSize \in Nat /\ BlockSize > 2
  BY Constants DEF PageFiles
<1>3. CASE FileSize(f) = PosIn(p)
  <2>1. (p.cur_bid * BlockSize + p.cur_offset) % BlockSize = p.cur_offset
    BY <1>2, BlockMod
  <2> QED  BY <1>1, <1>3, <2>1 DEF PosIn
<1>4. ASSUME NEW b \in Nat, FileSize(f) = b * BlockSize PROVE EndOf(f).cur_offset <= BlockSize - 2
  <2>1. 0 \in 0 .. (BlockSize - 1) /\ b * BlockSize \in Nat
    BY <1>2
  <2>2. (b * BlockSize + 0) % BlockSize = 0
    BY <2>1, BlockMod
  <2>3. b * BlockSize + 0 = b * BlockSize
    BY <2>1
  <2> QED  BY <1>1, <1>2, <1>4, <2>2, <2>3
<1> QED  BY <1>3, <1>4 DEF SizeOK

\* The process has ended.
LEMMA DownSafe ==
  ASSUME SafeInv, phase' = "down", pc' = "idle", reason' = "none", at' \in Nat, passes' = passes,
         tree' = EmptyTree, flushed' = flushed, EndOf(disk'["live"]).cur_offset <= BlockSize - 2,
         Checkpoint(disk'["live"], BestSb(disk'["live"]), saved', FileSize(disk'["live"])), PersistedDown'
  PROVE  SafeInv'
<1>1. /\ Control' /\ Lists' /\ ~Rewriting' /\ ~Flushing' /\ ~Writing' /\ reason' # "rewrite"
  BY DEF SafeInv, Control, Lists, Pass, Flushing, Rewriting, Writing
<1>2. Flags'
  <2>1. Alike' /\ \A n \in Nodes : tree'[n].bn_dirty \in BOOLEAN
    BY EmptyFields DEF Alike
  <2> QED  BY <1>1, <2>1 DEF Flags
<1>3. Positions'
  BY <1>1 DEF Positions
<1>4. Revisions'
  BY <1>1 DEF Revisions
<1>5. Current'
  BY <1>1 DEF Current
<1>6. Memory'
  BY <1>1 DEF SafeInv, Memory, Pass
<1>7. InLive' /\ Persisted'
  BY DEF InLive, Limit, Persisted
<1> QED  BY <1>1, <1>2, <1>3, <1>4, <1>5, <1>6, <1>7 DEF SafeInv

\* The end of a destroy.
LEMMA CloseSafe ==
  ASSUME StaleInv, SafeInv, Close
  PROVE  SafeInv'
<1>1. /\ pc = "close" /\ phase' = "down" /\ pc' = "idle" /\ reason' = "none" /\ tree' = EmptyTree
      /\ closed' = [n \in Nodes |-> tree[n].ver]
      /\ UNCHANGED <<disk, pf, passes, list, at, w, flushed, saved>>
  BY DEF Close
<1>2. phase = "up" /\ Clean /\ at \in Nat /\ disk["live"] \in Files /\ pf["live"] \in PageFiles
      /\ reason # "rewrite"
  BY <1>1 DEF SafeInv, Control, Flags, Lists, StaleInv, Types
<1>3. EndOf(disk["live"]).cur_offset <= BlockSize - 2
  <2>1. pf["live"].cur_offset <= BlockSize - 2 /\ SizeOK(disk["live"], PosIn(pf["live"]))
    BY <1>1, <1>2 DEF SafeInv, Positions, Pos, PosIn
  <2> QED  BY <1>2, <2>1, EndOffset
<1>4. Checkpoint(disk["live"], BestSb(disk["live"]), saved, FileSize(disk["live"]))
  <2>1. Checkpoint(disk["live"], BestSb(disk["live"]), saved, Pos("live")) /\ Pos("live") \in Nat
    BY <1>2, PosNat DEF SafeInv, InLive, Limit, StaleInv
  <2> QED  BY <1>2, <2>1, CheckpointInside
<1>5. PersistedDown'
  <2>1. \A n \in Nodes : tree[n].ver = saved[n]
    BY <1>1, <1>2 DEF SafeInv, Memory, Clean
  <2>2. \A n \in Nodes : closed'[n] = saved'[n]
    BY <1>1, <2>1
  <2> QED  BY <2>2 DEF PersistedDown
<1> QED  BY <1>1, <1>2, <1>3, <1>4, <1>5, DownSafe

\* The vacuum begins its walk.
LEMMA StartWalkSafe ==
  ASSUME StaleInv, SafeInv, StartWalk
  PROVE  SafeInv'
<1>1. /\ pc = "walk" /\ disk' = [disk EXCEPT !["tmp"] = NewFile] /\ pf' = [pf EXCEPT !["tmp"] = NewPf]
      /\ list' \in Deepest(Nodes) /\ at' = 1 /\ pc' = "serialize"
      /\ UNCHANGED <<tree, phase, reason, passes, flushed, saved, closed>>
  BY DEF StartWalk, history
<1>2. /\ Types /\ phase = "up" /\ reason = "rewrite" /\ Clean /\ ~Rewriting /\ Rewriting' /\ ~Flushing' /\ ~Writing'
      /\ disk \in [{"live", "tmp"} -> Files] /\ pf \in [{"live", "tmp"} -> PageFiles]
  BY <1>1 DEF StaleInv, Types, SafeInv, Control, Flags, Rewriting, Flushing, Writing
<1>3. /\ disk'["live"] = disk["live"] /\ disk'["tmp"] = NewFile /\ pf'["live"] = pf["live"] /\ pf'["tmp"] = NewPf
  BY <1>1, <1>2
<1>4. list' \in Seq(Nodes) /\ list' # <<>>
      /\ \A n \in Nodes : \E i \in 1 .. Len(list') : list'[i] = n
  <2>1. \A n : n \in Nodes <=> \E i \in 1 .. Len(list') : list'[i] = n
    BY <1>1, DeepestAll
  <2> QED  BY <1>1, <2>1, DeepestType, PageFileAssumption
<1>5. \A i, j \in 1 .. Len(list') : i < j => list'[i] # list'[j] /\ Depth[list'[i]] >= Depth[list'[j]]
  <2>1. /\ list' \in [1 .. Cardinality(Nodes) -> Nodes] /\ Len(list') = Cardinality(Nodes)
        /\ \A i, j \in DOMAIN list' : i < j => list'[i] # list'[j] /\ Depth[list'[i]] >= Depth[list'[j]]
    BY <1>1, DeepestType DEF Deepest
  <2> QED  BY <2>1
<1>6. Control'
  BY <1>1, <1>2 DEF SafeInv, Control, Pass
<1>7. Lists'
  <2>1. at' \in 1 .. Len(list') /\ at' \in Nat
    BY <1>1, <1>4
  <2> QED  BY <1>1, <1>4, <1>5, <2>1 DEF Lists
<1>8. Flags'
  <2>1. Clean'
    BY <1>1, <1>2 DEF Clean
  <2>2. \A n \in Nodes : tree'[n].bn_dirty \in BOOLEAN
    BY <1>1 DEF SafeInv, Flags
  <2> QED  BY <1>1, <1>2, <2>1, <2>2 DEF Flags
<1>9. Positions'
  <2>1. Pos("live")' = Pos("live") /\ Pos("tmp")' = Base
    BY <1>3, NewFileSpec DEF Pos
  <2>2. /\ SizeOK(disk["live"], Pos("live")) /\ Base <= Pos("live") /\ pf["live"].cur_offset <= BlockSize - 2
    BY <1>1, <1>2 DEF SafeInv, Positions
  <2>3. FileSize(NewFile) = Base /\ NewPf.cur_offset <= BlockSize - 2 /\ Base <= Base
    BY Constants, NewFileSpec
  <2> QED  BY <1>1, <1>2, <1>3, <2>1, <2>2, <2>3 DEF Positions
<1>10. Revisions'
  BY <1>1, <1>2, <1>3, NewFileSpec DEF SafeInv, Revisions
<1>11. Current'
  BY <1>2 DEF Current
<1>12. Memory'
  <2>1. at' - 1 = 0 /\ \A i \in 1 .. (at' - 1) : FALSE
    BY <1>1
  <2> QED  BY <1>1, <1>2, <2>1 DEF SafeInv, Memory
<1>13. InLive' /\ Persisted' /\ PersistedDown'
  BY <1>1, <1>2, <1>3 DEF SafeInv, InLive, Limit, Pos, Persisted, PersistedDown
<1> QED  BY <1>6, <1>7, <1>8, <1>9, <1>10, <1>11, <1>12, <1>13 DEF SafeInv

\* The vacuum's file gets its superblock.
LEMMA WriteTmpSuperblockSafe ==
  ASSUME StaleInv, SafeInv, WriteTmpSuperblock
  PROVE  SafeInv'
<1> DEFINE f == disk["tmp"]
           s == 1 % NumSuperblocks
           g == [f EXCEPT !.sb[s] = TmpSb]
<1>1. /\ pc = "tmp_superblock" /\ pc' = "swap" /\ disk' = [disk EXCEPT !["tmp"] = g]
      /\ UNCHANGED <<pf, tree, phase, reason, passes, list, at, w, flushed, saved, closed>>
  BY Zenon DEF WriteTmpSuperblock, history, TmpSb
<1>2. /\ Types /\ StaleOK /\ FileOK(f) /\ f \in Files /\ disk \in [{"live", "tmp"} -> Files]
      /\ phase = "up" /\ reason = "rewrite" /\ Clean /\ Rewriting /\ Rewriting' /\ ~Flushing' /\ ~Writing'
  BY <1>1 DEF StaleInv, Types, SafeInv, Control, Flags, Rewriting, Flushing, Writing, Pass
<1>3. TmpSb \in Sbs /\ SlotOK(TmpSb) /\ s \in Slots /\ TmpSb.revision = 1 /\ TmpSb.root = Place(tree, Root)
  <2>1. TmpSb = [kind |-> "sb", root |-> RootOffset, revision |-> 1, stale |-> <<>>, blob |-> 0, marked |-> {},
            lost |-> FALSE]
        /\ TmpSb \in Sbs /\ SlotOK(TmpSb) /\ s \in Slots
    BY <1>2, TmpSbType
  <2>2. TmpSb.revision = 1 /\ TmpSb.root = RootOffset
    BY <2>1
  <2> QED  BY <2>1, <2>2 DEF RootOffset, Place
<1> HIDE DEF s
<1>4. g \in Files /\ g.data = f.data /\ g.sb = [f.sb EXCEPT ![s] = TmpSb]
  <2> HIDE DEF f
  <2> QED  BY ONLY <1>2, <1>3, SlotWrite
<1> HIDE DEF g
<1>5. disk'["tmp"] = g /\ disk'["live"] = disk["live"]
  BY <1>1, <1>2
<1>6. FileSize(g) = FileSize(f) /\ \A p \in Nat : CellAt(g, p) = CellAt(f, p)
  BY <1>4 DEF FileSize, CellAt
<1>7. BestSb(g) = TmpSb /\ \A x \in ValidSlots(g) : g.sb[x].revision <= 1
  <2>1. \A x \in ValidSlots(f) : f.sb[x].revision < TmpSb.revision
    BY <1>1, <1>2, <1>3 DEF SafeInv, Revisions
  <2>2. BestSb(g) = TmpSb /\ \A x \in ValidSlots(g) : g.sb[x].revision <= TmpSb.revision
    BY ONLY <1>2, <1>3, <1>4, <2>1, BestNew
  <2> QED  BY <1>3, <2>2
<1>8. Control' /\ Lists'
  BY <1>1, <1>2 DEF SafeInv, Control, Lists, Pass, Flushing
<1>9. Flags'
  <2>1. Clean' /\ \A n \in Nodes : tree'[n].bn_dirty \in BOOLEAN
    BY <1>1, <1>2 DEF SafeInv, Flags, Clean
  <2> QED  BY <1>1, <1>2, <2>1 DEF Flags
<1>10. Pos("live")' = Pos("live") /\ Pos("tmp")' = Pos("tmp") /\ Pos("tmp") \in Nat
  BY <1>1, <1>2, PosNat DEF Pos
<1>11. Positions'
  BY <1>1, <1>2, <1>5, <1>6, <1>10 DEF SafeInv, Positions
<1>12. Revisions'
  BY <1>1, <1>2, <1>3, <1>5, <1>7 DEF SafeInv, Revisions
<1>13. Current'
  BY <1>2 DEF Current
<1>14. ASSUME NEW n \in Nodes PROVE InFile(g, tree, n, flushed[n], Pos("tmp"))
  <2>1. /\ InFile(f, tree, n, flushed[n], Pos("tmp")) /\ Grows(f, g, Pos("tmp")) /\ Pos("tmp") \in Nat
        /\ Pos("tmp") <= Pos("tmp") /\ f \in Files /\ g \in Files
        /\ tree[n].disk_offset = tree[n].disk_offset /\ tree[n].kids = tree[n].kids
    BY <1>1, <1>2, <1>4, <1>6, <1>10 DEF SafeInv, Memory, Grows
  <2> HIDE DEF f
  <2> QED  BY ONLY <2>1, InFileGrows
<1>15. Memory'
  BY <1>1, <1>2, <1>5, <1>10, <1>14 DEF SafeInv, Memory, Pass
<1>16. InLive' /\ Persisted' /\ PersistedDown'
  BY <1>1, <1>2, <1>5, <1>10 DEF SafeInv, InLive, Limit, Persisted, PersistedDown
<1> QED  BY <1>8, <1>9, <1>11, <1>12, <1>13, <1>15, <1>16 DEF SafeInv

\* The vacuum's file takes the place of the live one.
LEMMA SwapSafe ==
  ASSUME StaleInv, SafeInv, Swap
  PROVE  SafeInv'
<1> DEFINE f == disk["tmp"]
           e == EndOf(f)
           b == e.cur_bid
           o == e.cur_offset
           r == pf["live"].revision + 1
           p == [cur_bid |-> b, cur_offset |-> o, revision |-> r]
<1>1. /\ pc = "swap" /\ pc' = "idle" /\ reason' = "none" /\ list' = <<>> /\ at' = 0
      /\ disk' = [disk EXCEPT !["live"] = f, !["tmp"] = NewFile]
      /\ pf' = [pf EXCEPT !["live"] = p, !["tmp"] = NewPf]
      /\ UNCHANGED <<tree, phase, passes, w, flushed, saved, closed>>
  BY Zenon DEF Swap
<1>2. /\ Types /\ FileOK(f) /\ f \in Files /\ disk \in [{"live", "tmp"} -> Files] /\ pf["tmp"] \in PageFiles
      /\ pf \in [{"live", "tmp"} -> PageFiles]
      /\ phase = "up" /\ reason = "rewrite" /\ Clean /\ Rewriting /\ ~Rewriting' /\ ~Flushing' /\ ~Writing'
  BY <1>1 DEF StaleInv, Types, SafeInv, Control, Flags, Rewriting, Flushing, Writing, Pass
<1>3. b \in Nat /\ o \in Nat /\ FileSize(f) = b * BlockSize + o /\ FileSize(f) \in Nat
  BY <1>2, EndOfType
<1>4. r \in Nat /\ r >= 1
  BY <1>2 DEF PageFiles
<1>5. /\ FileSize(f) = Pos("tmp") /\ Base <= Pos("tmp") /\ o <= BlockSize - 2
  <2>1. FileSize(f) = Pos("tmp") /\ Base <= Pos("tmp") /\ pf["tmp"].cur_offset <= BlockSize - 2
    BY <1>1, <1>2 DEF SafeInv, Positions
  <2>2. SizeOK(f, PosIn(pf["tmp"]))
    BY <2>1 DEF SizeOK, PosIn, Pos
  <2> QED  BY <1>2, <2>1, <2>2, EndOffset
<1>6. p.cur_bid = b /\ p.cur_offset = o /\ p.revision = r
  <2> HIDE DEF b, o, r
  <2> QED  OBVIOUS
<1> HIDE DEF p
<1>7. disk'["live"] = f /\ pf'["live"] = p
  BY <1>1, <1>2
<1>8. Pos("live")' = FileSize(f)
  BY <1>3, <1>6, <1>7 DEF Pos
<1> HIDE DEF e, b, o, r
<1>9. Control' /\ Lists'
  BY <1>1, <1>2 DEF SafeInv, Control, Lists, Pass, Flushing
<1>10. Flags'
  <2>1. Alike' /\ \A n \in Nodes : tree'[n].bn_dirty \in BOOLEAN
    BY <1>1, <1>2 DEF SafeInv, Flags, Clean, Alike
  <2> QED  BY <1>1, <1>2, <2>1 DEF Flags
<1>11. Positions'
  <2>1. SizeOK(f, FileSize(f)) /\ Base <= FileSize(f) /\ p.cur_offset <= BlockSize - 2
    BY <1>5, <1>6 DEF SizeOK
  <2> QED  BY <1>1, <1>2, <1>7, <1>8, <2>1 DEF Positions
<1>12. Revisions'
  <2>1. ASSUME NEW s \in ValidSlots(f) PROVE f.sb[s].revision <= r
    <3>1. f.sb[s].revision <= 1 /\ f.sb[s].revision \in Nat
      BY <1>1, <1>2 DEF SafeInv, Revisions, Files, ValidSlots, Sbs, Torn
    <3> QED  BY <1>4, <3>1
  <2> QED  BY <1>1, <1>2, <1>6, <1>7, <2>1 DEF Revisions
<1>13. Current'
  BY <1>2 DEF Current
<1>14. /\ \A n \in Nodes : InFile(f, tree, n, flushed[n], FileSize(f)) /\ tree[n].ver = flushed[n] /\ saved[n] = flushed[n]
       /\ Links(tree) /\ flushed \in [Nodes -> Nat]
  BY <1>1, <1>2, <1>5 DEF SafeInv, Memory, Clean
<1>15. Memory'
  BY <1>1, <1>2, <1>7, <1>8, <1>14 DEF Memory, Pass
<1>16. InLive'
  <2> DEFINE sb == BestSb(f)
  <2>1. sb.root = Place(tree, Root)
    BY <1>1 DEF SafeInv, Revisions
  <2>2. sb \in Sbs
    BY <1>2, BestSbSpec DEF FileOK
  <2> HIDE DEF f, sb
  <2>3. TreeOK(tree) /\ \A n \in Nodes : InFile(f, tree, n, saved[n], FileSize(f))
    BY <1>2, <1>14 DEF Types
  <2>4. Checkpoint(f, sb, saved, FileSize(f))
    BY ONLY <1>2, <1>3, <1>14, <2>1, <2>2, <2>3, TreeCheckpoint
  <2> QED  BY <1>1, <1>2, <1>7, <1>8, <2>4 DEF InLive, Limit, sb
<1>17. Persisted' /\ PersistedDown'
  BY <1>1, <1>2 DEF SafeInv, Persisted, PersistedDown
<1> QED  BY <1>9, <1>10, <1>11, <1>12, <1>13, <1>15, <1>16, <1>17 DEF SafeInv

\* A superblock that is not finished leaves the last checkpoint and the place of the next
\* write as they are.
LEMMA HalfWrittenSafe ==
  ASSUME StaleInv, SafeInv, phase = "up", NEW g \in Interrupted, Rare(g) = {}
  PROVE  /\ g \in Files /\ BestSb(g) = BestSb(disk["live"])
         /\ \A lim \in Nat : Grows(disk["live"], g, lim)
         /\ \A p \in Nat : SizeOK(disk["live"], p) => SizeOK(g, p)
         /\ \A s \in ValidSlots(g) : g.sb[s].revision <= pf["live"].revision
         /\ Checkpoint(g, BestSb(g), saved, Pos("live"))
<1> DEFINE f == disk["live"]
           b == WithBlob(f)
           h == [b EXCEPT !.sb[NextSlot] = Torn]
<1>1. Types /\ StaleOK /\ FileOK(f) /\ f \in Files /\ ValidSlots(f) # {}
  BY DEF StaleInv, Types, FileOK
<1>2. b \in Files /\ FileOK(b) /\ WinningSlot(b) = WinningSlot(f) /\ b.sb = f.sb
  BY <1>1, WithBlobOK, WithBlobType DEF StaleOK
<1>3. NextSlot \in Slots /\ pf["live"].revision \in Nat
  BY <1>1, FlushSbType
<1>4. g = f \/ g = b \/ g = h
  BY Zenon DEF Interrupted, HalfWritten
<1>5. NextSlot # WinningSlot(f) => h \in Files /\ h.data = b.data /\ h.sb = [f.sb EXCEPT ![NextSlot] = Torn]
  <2> HIDE DEF b
  <2>1. NextSlot # WinningSlot(b) => h \in Files /\ h.data = b.data /\ h.sb = [b.sb EXCEPT ![NextSlot] = Torn]
    BY ONLY <1>2, <1>3, SlotWrite
  <2> QED  BY <1>2, <2>1
<1>a. h.sb = [b.sb EXCEPT ![NextSlot] = Torn] /\ DOMAIN b.sb = Slots
  <2> HIDE DEF b
  <2> QED  BY <1>2, <1>3, SlotWrite DEF Files
<1> HIDE DEF h
<1>6. g = f \/ g = b \/ (g = h /\ NextSlot # WinningSlot(f))
  BY <1>3, <1>4, <1>a DEF Rare
<1>7. g \in Files
  BY <1>1, <1>2, <1>5, <1>6
<1> HIDE DEF b
<1>8. /\ \A lim \in Nat : Grows(f, g, lim)
      /\ \A p \in Nat : SizeOK(f, p) => SizeOK(g, p)
  <2>1. CASE g = f
    BY <2>1, GrowsSelf
  <2>2. CASE g # f
    <3>1. g.data = b.data
      BY <1>5, <1>6, <2>2
    <3> QED  BY <1>7, <3>1, BlobFile DEF b
  <2> QED  BY <2>1, <2>2
<1>9. BestSb(g) = BestSb(f)
  <2>1. CASE g.sb = f.sb
    BY <2>1, BestSame
  <2>2. CASE g = h /\ NextSlot # WinningSlot(f)
    <3>1. g.sb = [f.sb EXCEPT ![NextSlot] = Torn] /\ NextSlot # WinningSlot(f)
      BY <1>5, <2>2
    <3> HIDE DEF f
    <3> QED  BY ONLY <1>1, <1>3, <1>7, <3>1, BestTorn
  <2> QED  BY <1>2, <1>6, <2>1, <2>2
<1>10. ASSUME NEW s \in ValidSlots(g) PROVE g.sb[s].revision <= pf["live"].revision
  <2>1. \A x \in ValidSlots(f) : f.sb[x].revision <= pf["live"].revision
    BY DEF SafeInv, Revisions
  <2>2. CASE g.sb = f.sb
    BY <2>1, <2>2 DEF ValidSlots
  <2>3. CASE g = h /\ NextSlot # WinningSlot(f)
    <3>1. g.sb = [f.sb EXCEPT ![NextSlot] = Torn] /\ DOMAIN f.sb = Slots
      BY <1>1, <1>5, <2>3 DEF Files
    <3>2. s \in Slots /\ g.sb[s].kind = "sb"
      BY <3>1 DEF ValidSlots
    <3>3. s # NextSlot
      BY <3>1, <3>2 DEF Torn
    <3>4. g.sb[s] = f.sb[s] /\ s \in ValidSlots(f)
      BY <3>1, <3>2, <3>3 DEF ValidSlots
    <3> QED  BY <2>1, <3>4
  <2> QED  BY <1>2, <1>6, <2>2, <2>3
<1>11. Checkpoint(g, BestSb(g), saved, Pos("live"))
  <2> DEFINE sb == BestSb(f)
  <2>1. sb \in Sbs
    BY <1>1, BestSbSpec
  <2>2. Pos("live") \in Nat /\ Pos("live") <= Pos("live") /\ Checkpoint(f, sb, saved, Pos("live"))
    BY <1>1, PosNat DEF SafeInv, InLive, Limit
  <2>3. Grows(f, g, Pos("live"))
    BY <1>8, <2>2
  <2> HIDE DEF sb, f
  <2>4. Checkpoint(g, sb, saved, Pos("live"))
    BY ONLY <1>1, <1>7, <2>1, <2>2, <2>3, SameLoaded
  <2> QED  BY <1>9, <2>4 DEF sb, f
<1> QED  BY <1>7, <1>8, <1>9, <1>10, <1>11

\* The file as the end of a life leaves it.
LEMMA DownFile ==
  ASSUME StaleInv, SafeInv, phase = "up", NEW g \in Interrupted, Rare(g) = {}
  PROVE  EndOf(g).cur_offset <= BlockSize - 2 /\ Checkpoint(g, BestSb(g), saved, FileSize(g))
<1>1. /\ g \in Files /\ \A p \in Nat : SizeOK(disk["live"], p) => SizeOK(g, p)
      /\ Checkpoint(g, BestSb(g), saved, Pos("live"))
  BY HalfWrittenSafe
<1>2. Pos("live") \in Nat /\ pf["live"] \in PageFiles /\ PosIn(pf["live"]) = Pos("live")
  BY PosNat DEF StaleInv, Types, Pos, PosIn
<1>3. SizeOK(g, PosIn(pf["live"]))
  BY <1>1, <1>2 DEF SafeInv, Positions
<1>4. pf["live"].cur_offset <= BlockSize - 2
  <2>1. CASE pc = "meta" /\ reason # "rewrite"
    <3>1. BlockSize - pf["live"].cur_offset > 1
      <4>1. ~(BlockSize - pf["live"].cur_offset <= 1)
        BY <2>1 DEF AtFullBlock, Target, MetaSize, Rare
      <4> QED  BY <1>2, <4>1, Constants DEF PageFiles
    <3> QED  BY <1>2, <3>1, Constants DEF PageFiles
  <2> QED  BY <2>1 DEF SafeInv, Positions
<1>5. EndOf(g).cur_offset <= BlockSize - 2
  BY <1>1, <1>2, <1>3, <1>4, EndOffset
<1>6. Checkpoint(g, BestSb(g), saved, FileSize(g))
  BY <1>1, <1>2, CheckpointInside
<1> QED  BY <1>5, <1>6

\* The process dies.
LEMMA CrashSafe ==
  ASSUME StaleInv, SafeInv, odd' = {}, Crash
  PROVE  SafeInv'
<1>1. PICK g \in Interrupted : disk' = [disk EXCEPT !["live"] = g] /\ Rare(g) = {}
  BY DEF Crash
<1>2. /\ phase = "up" /\ phase' = "down" /\ tree' = EmptyTree
      /\ pc' = "idle" /\ reason' = "none" /\ at' = 0
      /\ UNCHANGED <<passes, flushed, saved, closed>>
  BY DEF Crash, GiveUp
<1>3. disk'["live"] = g
  BY <1>1 DEF StaleInv, Types
<1>4. EndOf(g).cur_offset <= BlockSize - 2 /\ Checkpoint(g, BestSb(g), saved, FileSize(g))
  BY <1>1, <1>2, DownFile
<1>5. PersistedDown'
  BY <1>2 DEF SafeInv, Persisted, PersistedDown
<1> QED  BY <1>2, <1>3, <1>4, <1>5, DownSafe

\* A write fails.  The flush gives up with the flags of its nodes as they are.
LEMMA WriteFailsSafe ==
  ASSUME StaleInv, SafeInv, odd' = {}, WriteFails
  PROVE  SafeInv'
<1>1. PICK g \in Interrupted : /\ disk' = [live |-> g, tmp |-> NewFile]
                              /\ Rare(g) = {} /\ Failure = "failure"
  BY DEF WriteFails
<1>2. /\ pc \in {"chunk", "meta", "superblock", "tmp_superblock", "swap"} /\ ~AtFullBlock
      /\ reason # "rewrite" /\ ~(at > 1)
      /\ phase' = (IF reason = "close" THEN "down" ELSE "up")
      /\ tree' = (IF reason = "close" THEN EmptyTree
                  ELSE IF pc = "superblock" THEN [tree EXCEPT ![Root].hb_dirty = FALSE] ELSE tree)
      /\ pf' = [pf EXCEPT !["tmp"] = NewPf]
      /\ pc' = "idle" /\ reason' = "none" /\ list' = <<>> /\ at' = 0
      /\ UNCHANGED <<passes, flushed, saved, closed>>
  <2>1. reason # "rewrite" /\ ~(at > 1)
    BY <1>1 DEF Failure
  <2>2. ~AtFullBlock
    BY <1>1 DEF Rare
  <2> QED  BY <2>1, <2>2 DEF WriteFails, GiveUp
<1>3. phase = "up" /\ pc \in {"chunk", "meta", "superblock"} /\ ~Rewriting
  BY <1>2 DEF SafeInv, Control, Rewriting
<1>4. disk'["live"] = g /\ pf'["live"] = pf["live"]
  <2>1. pf \in [{"live", "tmp"} -> PageFiles]
    BY DEF StaleInv, Types
  <2> QED  BY <1>1, <1>2, <2>1
<1>5. EndOf(g).cur_offset <= BlockSize - 2 /\ Checkpoint(g, BestSb(g), saved, FileSize(g))
  BY <1>1, <1>2, <1>3, DownFile
<1>6. CASE reason = "close"
  <2>1. PersistedDown'
    BY <1>2, <1>3 DEF SafeInv, Persisted, PersistedDown
  <2>2. phase' = "down" /\ tree' = EmptyTree
    BY <1>2, <1>6
  <2> QED  BY <1>2, <1>4, <1>5, <2>1, <2>2, DownSafe
<1>7. CASE reason # "close"
  <2>1. phase' = "up" /\ tree' = (IF pc = "superblock" THEN [tree EXCEPT ![Root].hb_dirty = FALSE] ELSE tree)
    BY <1>2, <1>7
  <2>2. /\ \A n \in Nodes : /\ tree'[n].ver = tree[n].ver /\ tree'[n].disk_offset = tree[n].disk_offset
                            /\ tree'[n].kids = tree[n].kids /\ tree'[n].bn_dirty = tree[n].bn_dirty
        /\ \A n \in Nodes : tree'[n].hb_dirty = tree[n].bn_dirty
    <3>1. CASE pc = "superblock"
      <4>1. Clean /\ TreeOK(tree) /\ tree' = [tree EXCEPT ![Root].hb_dirty = FALSE]
        BY <2>1, <3>1 DEF SafeInv, Flags, StaleInv, Types
      <4> QED  BY <4>1, RootFields, ZenonT(60) DEF Clean
    <3>2. CASE pc # "superblock"
      <4>1. tree' = tree /\ Flushing /\ pc \in Pass
        BY <1>2, <1>3, <2>1, <3>2 DEF Flushing, Pass
      <4>2. at = 1
        BY <1>2, <4>1 DEF SafeInv, Lists
      <4>3. ASSUME NEW n \in Nodes PROVE tree[n].hb_dirty = tree[n].bn_dirty
        <5>1. Ahead(n) <=> Listed(n)
          BY <4>2 DEF Ahead, Listed
        <5> QED  BY <4>1, <5>1 DEF SafeInv, Flags
      <4> QED  BY <4>1, <4>3
    <3> QED  BY <3>1, <3>2
  <2>3. /\ g \in Files /\ BestSb(g) = BestSb(disk["live"])
        /\ \A lim \in Nat : Grows(disk["live"], g, lim)
        /\ \A p \in Nat : SizeOK(disk["live"], p) => SizeOK(g, p)
        /\ \A s \in ValidSlots(g) : g.sb[s].revision <= pf["live"].revision
        /\ Checkpoint(g, BestSb(g), saved, Pos("live"))
    BY <1>1, <1>3, HalfWrittenSafe
  <2>4. Pos("live")' = Pos("live") /\ Pos("live") \in Nat /\ disk["live"] \in Files /\ pf["live"] \in PageFiles
    BY <1>4, PosNat DEF Pos, StaleInv, Types
  <2>5. ~Rewriting' /\ ~Flushing' /\ ~Writing'
    BY <1>2 DEF Rewriting, Flushing, Writing, Pass
  <2>6. Control' /\ Lists'
    BY <1>2, <2>1, <2>5 DEF SafeInv, Control, Lists, Pass
  <2>7. Flags'
    <3>1. Alike' /\ \A n \in Nodes : tree'[n].bn_dirty \in BOOLEAN
      BY <2>2 DEF SafeInv, Flags, Alike
    <3> QED  BY <1>2, <2>5, <3>1 DEF Flags
  <2>8. Positions'
    <3>1. SizeOK(g, Pos("live")) /\ Base <= Pos("live")
      BY <1>3, <2>3, <2>4 DEF SafeInv, Positions
    <3>2. pf["live"].cur_offset <= BlockSize - 2
      <4>1. CASE pc = "meta"
        <5>1. ~(BlockSize - pf["live"].cur_offset <= 1)
          BY <1>2, <4>1 DEF AtFullBlock, Target, MetaSize
        <5> QED  BY <2>4, <5>1, Constants DEF PageFiles
      <4> QED  BY <1>3, <4>1 DEF SafeInv, Positions
    <3> QED  BY <1>2, <1>4, <2>1, <2>4, <2>5, <3>1, <3>2 DEF Positions
  <2>9. Revisions' /\ Current'
    <3>1. Revisions'
      BY <1>2, <1>4, <2>3, <2>5 DEF Revisions
    <3>2. Current'
      BY <2>5 DEF Current
    <3> QED  BY <3>1, <3>2
  <2>10. Memory'
    <3>1. Links(tree')
      BY <1>3, <2>2, LinksSame DEF SafeInv, Memory
    <3>2. ASSUME NEW n \in Nodes, tree'[n].bn_dirty = FALSE
          PROVE  tree'[n].ver = flushed[n] /\ InFile(g, tree', n, flushed[n], Pos("live"))
      <4>1. tree[n].bn_dirty = FALSE
        BY <2>2, <3>2
      <4>2. tree[n].ver = flushed[n] /\ InFile(disk["live"], tree, n, flushed[n], Pos("live"))
        BY <1>3, <4>1 DEF SafeInv, Memory
      <4>3. Grows(disk["live"], g, Pos("live")) /\ Pos("live") <= Pos("live")
            /\ tree'[n].disk_offset = tree[n].disk_offset /\ tree'[n].kids = tree[n].kids
        BY <2>2, <2>3, <2>4
      <4>4. InFile(g, tree', n, flushed[n], Pos("live"))
        BY ONLY <2>3, <2>4, <4>2, <4>3, InFileGrows
      <4> QED  BY <2>2, <4>2, <4>4
    <3>3. flushed \in [Nodes -> Nat]
      BY DEF SafeInv, Memory
    <3> QED  BY <1>2, <1>4, <2>1, <2>4, <2>5, <3>1, <3>2, <3>3 DEF Memory
  <2>11. InLive' /\ Persisted' /\ PersistedDown'
    <3>1. InLive'
      BY <1>2, <1>4, <2>1, <2>3, <2>4 DEF InLive, Limit
    <3>2. closed = NotClosed
      BY <1>3 DEF SafeInv, Persisted
    <3> QED  BY <1>2, <3>1, <3>2 DEF Persisted, PersistedDown, NotClosed
  <2> QED  BY <2>6, <2>7, <2>8, <2>9, <2>10, <2>11 DEF SafeInv
<1> QED  BY <1>6, <1>7

\* The fields of a node that was loaded.
LEMMA OpenedFields ==
  ASSUME NEW n \in Nodes, NEW x, NEW y, y = Opened(n, x)
  PROVE  /\ y.ver = x.ver /\ y.disk_offset = x.offset /\ y.kids = x.kids
         /\ y.bn_dirty = FALSE /\ y.hb_dirty = FALSE
<1> DEFINE h == FALSE
           a1 == x.ver
           a2 == x.size
           a3 == x.offset
           a6 == x.kids
<1>1. y = Node(a1, a2, a3, h, h, a6)
  BY OpenedSpec
<1> HIDE DEF h, a1, a2, a3, a6
<1>2. y.ver = a1 /\ y.disk_offset = a3 /\ y.kids = a6 /\ y.bn_dirty = h /\ y.hb_dirty = h
  BY ONLY <1>1 DEF Node
<1> QED  BY <1>2, Zenon DEF h, a1, a3, a6

\* The places of the nodes behind a superblock.
LEMMA LoadedPlace ==
  ASSUME NEW f \in Files, NEW sb \in Sbs, \A m \in Nodes : Loaded(f, sb)[m].kind # "bad", NEW n \in Nodes
  PROVE  LET x == Loaded(f, sb)[n]
         IN /\ x.offset = None => x.ver = 0 /\ \A c \in Children(n) : x.kids[c] = 0
            /\ n # Root => Loaded(f, sb)[Parent[n]].kids[n] = IF x.offset = None THEN 0 ELSE x.offset
<1> DEFINE L == Loaded(f, sb)
           x == L[n]
           up == IF n = Root THEN Bad ELSE L[Parent[n]]
           o == IF n = Root THEN sb.root ELSE IF up.kind = "bad" THEN 0 ELSE up.kids[n]
           c == ReadNode(f, o)
           empty == [kind |-> "content", node |-> n, ver |-> 0, size |-> EmptyNode(n).size,
                     kids |-> EmptyNode(n).kids, offset |-> None]
           full == [kind |-> "content", node |-> n, ver |-> c.ver, size |-> c.size, kids |-> c.kids, offset |-> o]
<1>1. x = LoadNode(f, sb, n, up)
  BY LoadedSpec
<1>2. Parent[n] \in Nodes /\ (n # Root => n \in Children(Parent[n]))
  BY PageFileAssumption DEF Children
<1>3. n # Root => up.kind # "bad" /\ up = L[Parent[n]]
  BY <1>2
<1>4. x.kind # "bad" /\ Bad.kind = "bad"
  BY DEF Bad
<1>5. o \in Nat
  <2>1. CASE n = Root
    BY <2>1 DEF Sbs
  <2>2. CASE n # Root
    <3>1. L[Parent[n]].kind # "bad" /\ L[Parent[n]] # Bad
      BY <1>2, <1>4
    <3>2. L[Parent[n]].kids \in [Children(Parent[n]) -> Nat]
      BY <1>2, <3>1, LoadedType
    <3> QED  BY <1>2, <1>3, <2>2, <3>2
  <2> QED  BY <2>1, <2>2
<1>6. (o = 0 /\ x = empty) \/ (o # 0 /\ x = full) \/ x = Bad
  BY <1>1, Zenon DEF LoadNode
<1>7. empty.ver = 0 /\ empty.kids = EmptyNode(n).kids /\ empty.offset = None /\ full.offset = o
  <2> DEFINE a1 == EmptyNode(n).size
             a2 == EmptyNode(n).kids
             a3 == None
  <2> HIDE DEF a1, a2, a3, c, o
  <2>1. [kind |-> "content", node |-> n, ver |-> 0, size |-> a1, kids |-> a2, offset |-> a3].ver = 0
        /\ [kind |-> "content", node |-> n, ver |-> 0, size |-> a1, kids |-> a2, offset |-> a3].kids = a2
        /\ [kind |-> "content", node |-> n, ver |-> 0, size |-> a1, kids |-> a2, offset |-> a3].offset = a3
    OBVIOUS
  <2>2. full.offset = o
    OBVIOUS
  <2> QED  BY <2>1, <2>2 DEF a1, a2, a3
<1>8. \A d \in Children(n) : EmptyNode(n).kids[d] = 0
  <2>1. EmptyTree[n] = EmptyNode(n)
    BY DEF EmptyTree
  <2> QED  BY <2>1, EmptyFields
<1>9. o # None /\ (n # Root => o = L[Parent[n]].kids[n])
  BY <1>3, <1>5 DEF None
<1> HIDE DEF empty, full, c, o, up
<1>10. CASE o = 0 /\ x = empty
  BY <1>7, <1>8, <1>9, <1>10
<1>11. CASE o # 0 /\ x = full
  BY <1>7, <1>9, <1>11
<1> QED  BY <1>4, <1>6, <1>10, <1>11

\* The next life begins with the last checkpoint.
LEMMA OpenSafe ==
  ASSUME StaleInv, SafeInv, Open
  PROVE  SafeInv'
<1> DEFINE f == disk["live"]
           sb == BestSb(f)
           L == Loaded(f, sb)
           b == EndOf(f).cur_bid
           o == EndOf(f).cur_offset
           r == sb.revision
           p == [cur_bid |-> b, cur_offset |-> o, revision |-> r]
           lim == FileSize(f)
<1>1. /\ phase = "down" /\ phase' = "up" /\ disk' = [disk EXCEPT !["tmp"] = NewFile]
      /\ pf' = [live |-> p, tmp |-> NewPf]
      /\ tree' = [n \in Nodes |-> IF L[n].kind = "bad" THEN EmptyNode(n) ELSE Opened(n, L[n])]
      /\ flushed' = [n \in Nodes |-> tree'[n].ver] /\ closed' = NotClosed
      /\ UNCHANGED <<pc, reason, passes, list, at, w, saved>>
  BY OpenSpec
<1>2. /\ Types /\ f \in Files /\ FileOK(f) /\ ValidSlots(f) # {} /\ disk \in [{"live", "tmp"} -> Files]
      /\ pc = "idle" /\ reason = "none"
  BY <1>1 DEF StaleInv, Types, FileOK, SafeInv, Control
<1>3. /\ sb \in Sbs /\ r \in Nat /\ \A s \in ValidSlots(f) : f.sb[s].revision <= r
  <2>1. /\ sb \in Sbs
        /\ \A t \in ValidSlots(f) : r > f.sb[t].revision \/ r = f.sb[t].revision
    BY <1>2, BestSbSpec
  <2>2. r \in Nat /\ \A t \in ValidSlots(f) : f.sb[t].revision \in Nat
    BY <1>2, <2>1 DEF Files, ValidSlots, Sbs, Torn
  <2> QED  BY <2>1, <2>2
<1>4. b \in Nat /\ o \in Nat /\ lim = b * BlockSize + o /\ lim \in Nat
  BY <1>2, EndOfType
<1>5. o <= BlockSize - 2 /\ Base <= lim
  <2>1. o <= BlockSize - 2
    BY <1>1 DEF SafeInv, Positions
  <2>2. Base <= lim
    BY <1>2, Constants DEF FileSize, Files
  <2> QED  BY <2>1, <2>2
<1>6. p.cur_bid = b /\ p.cur_offset = o /\ p.revision = r
  <2> HIDE DEF b, o, r
  <2> QED  OBVIOUS
<1> HIDE DEF p
<1>7. disk'["live"] = f /\ pf'["live"] = p
  BY <1>1, <1>2
<1>8. Pos("live")' = lim
  BY <1>4, <1>6, <1>7 DEF Pos
<1>9. Checkpoint(f, sb, saved, lim)
  BY <1>1 DEF SafeInv, InLive, Limit
<1> HIDE DEF b, o, r
<1>10. ASSUME NEW n \in Nodes
       PROVE  /\ L[n].kind # "bad" /\ L[n].ver = saved[n]
              /\ L[n].offset # None => Stored(f, L[n].offset, Content(n, L[n]), lim)
  BY <1>9 DEF Checkpoint
<1>11. ASSUME NEW n \in Nodes
       PROVE  /\ tree'[n].ver = L[n].ver /\ tree'[n].disk_offset = L[n].offset /\ tree'[n].kids = L[n].kids
              /\ tree'[n].bn_dirty = FALSE /\ tree'[n].hb_dirty = FALSE /\ L[n].ver \in Nat
  <2>1. tree'[n] = Opened(n, L[n])
    BY <1>1, <1>10
  <2>2. L[n].ver \in Nat
    <3>1. L[n] # Bad
      BY <1>10 DEF Bad
    <3> QED  BY <1>2, <1>3, <3>1, LoadedType
  <2> DEFINE x == L[n]
             y == tree'[n]
  <2>3. y = Opened(n, x)
    BY <2>1
  <2> HIDE DEF x, y
  <2>4. /\ y.ver = x.ver /\ y.disk_offset = x.offset /\ y.kids = x.kids
        /\ y.bn_dirty = FALSE /\ y.hb_dirty = FALSE
    BY <2>3, OpenedFields, ZenonT(60)
  <2> QED  BY <2>2, <2>4, Zenon DEF x, y
<1> HIDE DEF sb
<1>12. ASSUME NEW n \in Nodes
       PROVE  /\ L[n].offset = None => L[n].ver = 0 /\ \A c \in Children(n) : L[n].kids[c] = 0
              /\ n # Root => L[Parent[n]].kids[n] = IF L[n].offset = None THEN 0 ELSE L[n].offset
  <2>1. \A m \in Nodes : L[m].kind # "bad"
    BY <1>10
  <2> QED  BY <1>2, <1>3, <2>1, LoadedPlace
<1> HIDE DEF L
<1>13. ASSUME NEW n \in Nodes PROVE InFile(f, tree', n, tree'[n].ver, lim)
  <2>1. CASE L[n].offset = None
    BY <1>11, <1>12, <2>1 DEF InFile
  <2>2. CASE L[n].offset # None
    <3> DEFINE c == Content(n, L[n])
    <3>1. Stored(f, tree'[n].disk_offset, c, lim)
      BY <1>10, <1>11, <2>2
    <3>2. c \in Contents
      BY <3>1 DEF Stored
    <3>3. c.node = n /\ c.ver = tree'[n].ver /\ c.kids = tree'[n].kids
      BY <1>11 DEF Content
    <3> HIDE DEF c
    <3>4. tree'[n].disk_offset # None
      BY <1>11, <2>2
    <3> QED  BY <3>1, <3>2, <3>3, <3>4 DEF InFile
  <2> QED  BY <2>1, <2>2
<1>14. Links(tree')
  <2>1. ASSUME NEW n \in Nodes, n # Root PROVE tree'[Parent[n]].kids[n] = Place(tree', n)
    <3>1. Parent[n] \in Nodes
      BY PageFileAssumption
    <3>2. tree'[Parent[n]].kids = L[Parent[n]].kids /\ tree'[n].disk_offset = L[n].offset
      BY <1>11, <3>1
    <3> QED  BY <1>12, <2>1, <3>2 DEF Place
  <2> QED  BY <2>1 DEF Links
<1>15. ~Rewriting' /\ ~Flushing' /\ ~Writing' /\ pc' = "idle" /\ reason' = "none"
  BY <1>1, <1>2 DEF Rewriting, Flushing, Writing, Pass
<1>16. Control' /\ Lists'
  BY <1>1, <1>2, <1>15 DEF SafeInv, Control, Lists, Pass
<1>17. Flags'
  <2>1. Alike' /\ \A n \in Nodes : tree'[n].bn_dirty \in BOOLEAN
    BY <1>11 DEF Alike
  <2> QED  BY <1>15, <2>1 DEF Flags
<1>18. Positions'
  <2>1. SizeOK(f, lim)
    BY DEF SizeOK
  <2> QED  BY <1>1, <1>5, <1>6, <1>7, <1>8, <1>15, <2>1 DEF Positions
<1>19. Revisions'
  BY <1>3, <1>6, <1>7, <1>15 DEF Revisions
<1>20. Current'
  BY <1>15 DEF Current
<1>21. Memory'
  <2>1. flushed' \in [Nodes -> Nat] /\ \A n \in Nodes : flushed'[n] = tree'[n].ver
    BY <1>1, <1>11
  <2>2. \A n \in Nodes : InFile(disk'["live"], tree', n, flushed'[n], Pos("live")')
    BY <1>7, <1>8, <1>13, <2>1
  <2> QED  BY <1>14, <1>15, <2>1, <2>2 DEF Memory, Pass
<1>22. InLive' /\ Persisted' /\ PersistedDown'
  <2>1. InLive'
    BY <1>1, <1>7, <1>8, <1>9 DEF InLive, Limit, sb
  <2> QED  BY <1>1, <2>1 DEF Persisted, PersistedDown
<1> QED  BY <1>16, <1>17, <1>18, <1>19, <1>20, <1>21, <1>22 DEF SafeInv

-----------------------------------------------------------------------------
(***************************************************************************)
(* The theorems.                                                           *)
(***************************************************************************)

\* Every step keeps the invariant.
LEMMA SafeNext ==
  ASSUME StaleInv, SafeInv, odd' = {}, [Next]_vars
  PROVE  SafeInv'
<1>1. CASE \E n \in Nodes, z \in Sizes : Update(n, z)
  BY <1>1, UpdateSafe
<1>2. CASE \E why \in {"snapshot", "close", "vacuum"} : StartFlush(why)
  BY <1>2, StartFlushSafe
<1>3. CASE FlusherStep
  BY <1>3, CollectSafe, SerializeSafe, WriteChunkSafe, WriteMetaSafe, FlushWrittenSafe, ClearDirtySafe,
     WriteSuperblockSafe, CloseSafe, StartWalkSafe, WalkWrittenSafe, WriteTmpSuperblockSafe, SwapSafe
     DEF FlusherStep
<1>4. CASE WriteFails \/ Crash \/ Open
  BY <1>4, WriteFailsSafe, CrashSafe, OpenSafe
<1>5. CASE UNCHANGED vars
  <2>1. UNCHANGED <<disk, pf, tree, phase, pc, reason, passes, list, at, w, flushed, saved, closed>>
    BY <1>5 DEF vars, flusher, history
  <2>2. Control' /\ Lists'
    BY <2>1 DEF SafeInv, Control, Lists, Flushing
  <2>3. Flags'
    BY <2>1 DEF SafeInv, Flags, Flushing, Alike, Clean, Listed, Ahead
  <2>4. Positions' /\ Revisions'
    BY <2>1 DEF SafeInv, Positions, Revisions, Rewriting, Pos
  <2>5. Current'
    BY <2>1 DEF SafeInv, Current, Writing, Partial, Target, Pos
  <2>6. Memory'
    BY <2>1 DEF SafeInv, Memory, Rewriting, Pos
  <2>7. InLive' /\ Persisted' /\ PersistedDown'
    BY <2>1, FileFrame
  <2> QED  BY <2>2, <2>3, <2>4, <2>5, <2>6, <2>7 DEF SafeInv
<1> QED  BY <1>1, <1>2, <1>3, <1>4, <1>5 DEF Next

\* Both invariants, until one of the switches of Allowed is made use of.
LEMMA SafeAlways == Spec => [](odd = {} => StaleInv /\ SafeInv)
<1> DEFINE Inv == odd = {} => StaleInv /\ SafeInv
<1>1. Init => Inv
  BY StaleInit, SafeInit
<1>2. Inv /\ [Next]_vars => Inv'
  BY StaleNext, SafeNext, OddGrows
<1> HIDE DEF Inv
<1>3. Inv => (odd = {} => StaleInv /\ SafeInv)
  BY DEF Inv
<1> QED  BY <1>1, <1>2, <1>3, PTL DEF Spec

\* The last checkpoint is never lost (CheckpointIntact): whatever flush, superblock or vacuum
\* a crash or a failed write interrupts, the superblock that page_file_open chooses leads to
\* every node, readable and with the version of the last completed flush; for every finite
\* tree, node size, block size and number of superblocks.  It takes one of five events
\* (the history variable odd) to lose a checkpoint: a writer beside the flush of a
\* snapshot, a crash or failure between a full block and its IndexBlkMeta, a flush that
\* fails after its first node, a vacuum that fails, a torn write of the only superblock.
THEOREM CheckpointIsIntact == Spec => [](odd = {} => CheckpointIntact)
<1>1. SafeInv => CheckpointIntact
  BY DEF SafeInv, InLive, Checkpoint, CheckpointIntact
<1> QED  BY <1>1, SafeAlways, PTL

\* What database_destroy has persisted is in the file (CloseKeeps), also after vacuums,
\* crashes and failed flushes in this life and in earlier ones: the dirty flags of the two
\* levels let the flush miss nothing, unless one of the same events came before, as a
\* writer whose node was marked dirty between its serialization and the reset of its flags.
THEOREM CloseKeepsAll == Spec => [](odd = {} => CloseKeeps)
<1>1. SafeInv => CloseKeeps
  BY DEF SafeInv, InLive, Checkpoint, PersistedDown, CloseKeeps
<1> QED  BY <1>1, SafeAlways, PTL

\* The loop of database_flush_dirty_bnodes ends (ConvergesByDepth): the first turn collects
\* every ancestor of a dirty node, writes the deepest first and clears all; the second one
\* finds nothing.
THEOREM FlushConverges == Spec => [](odd = {} => ConvergesByDepth)
<1>1. SafeInv => ConvergesByDepth
  <2>1. Levels \in Nat /\ Levels >= 2
    <3> DEFINE S == {Depth[n] : n \in Nodes}
    <3>1. IsFiniteSet(S)
      <4>1. IsFiniteSet(Nodes)
        BY PageFileAssumption
      <4>2. Depth \in Surjection(Nodes, S)
        BY PageFileAssumption DEF Surjection
      <4> QED  BY <4>1, <4>2, FS_Surjection
    <3>2. S # {}
      BY PageFileAssumption
    <3>3. Cardinality(S) \in Nat /\ Cardinality(S) # 0
      BY <3>1, <3>2, FS_CardinalityType, FS_EmptySet
    <3> HIDE DEF S
    <3>4. 1 + Cardinality(S) \in Nat /\ 1 + Cardinality(S) >= 2
      BY <3>3
    <3> QED  BY <3>4 DEF Levels, S
  <2>2. SafeInv => passes \in 0 .. 2
    BY DEF SafeInv, Control
  <2> QED  BY <2>1, <2>2 DEF ConvergesByDepth
<1> QED  BY <1>1, SafeAlways, PTL
=============================================================================
