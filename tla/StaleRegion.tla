----------------------------- MODULE StaleRegion -----------------------------
(***************************************************************************)
(* src/Storage/stale_region.c: the list of regions of the page file that   *)
(* no node uses any more, sorted by offset; regions that touch are merged. *)
(***************************************************************************)
EXTENDS Integers, Sequences

Region(o, l) == [offset |-> o, length |-> l]
End(x) == x.offset + x.length

\* The leftmost region that reaches the offset s.
LeftOf(r, s) ==
  CHOOSE i \in 1 .. (Len(r) + 1) :
    /\ \A j \in 1 .. (i - 1) : End(r[j]) < s
    /\ i <= Len(r) => End(r[i]) >= s

\* The first region from left on that begins behind e.
RightOf(r, left, e) ==
  CHOOSE i \in left .. (Len(r) + 1) :
    /\ \A j \in left .. (i - 1) : r[j].offset <= e
    /\ i <= Len(r) => r[i].offset > e

Lesser(a, b) == IF a < b THEN a ELSE b
Greater(a, b) == IF a > b THEN a ELSE b

\* Mutant: the merged region ends where the new one does.
StaleAddShort(r, o, l) ==
  LET left == LeftOf(r, o)
      right == RightOf(r, left, o + l)
      first == IF left = right THEN o ELSE Lesser(o, r[left].offset)
  IN IF l = 0 THEN r
     ELSE SubSeq(r, 1, left - 1) \o <<Region(first, o + l - first)>> \o SubSeq(r, right, Len(r))

\* stale_region_add: the regions from left to right - 1 become one.
StaleAdd(r, o, l) ==
  LET left == LeftOf(r, o)
      right == RightOf(r, left, o + l)
      first == IF left = right THEN o ELSE Lesser(o, r[left].offset)
      last == IF left = right THEN o + l ELSE Greater(o + l, End(r[right - 1]))
  IN IF l = 0 THEN r
     ELSE SubSeq(r, 1, left - 1) \o <<Region(first, last - first)>> \o SubSeq(r, right, Len(r))

\* stale_region_total.
StaleTotal(r) ==
  LET sum[i \in 0 .. Len(r)] == IF i = 0 THEN 0 ELSE sum[i - 1] + r[i].length
  IN sum[Len(r)]

-----------------------------------------------------------------------------
(* What a list of regions stands for *)

Cells(o, l) == o .. (o + l - 1)
Covered(r) == UNION {Cells(r[i].offset, r[i].length) : i \in 1 .. Len(r)}
Canonical(r) ==
  /\ \A i \in 1 .. Len(r) : r[i].length > 0
  /\ \A i, j \in 1 .. Len(r) : i < j => End(r[i]) < r[j].offset
=============================================================================
