------------------------------ MODULE Iterator ------------------------------
(***************************************************************************)
(* The scans of database_iterator.c over the trie of module BTree.  An     *)
(* iterator is a stack of frames, one per page from the root down; places  *)
(* count from 1, so that the 0 a reverse scan counts down to is the        *)
(* SIZE_MAX of the code.  The end of a range is not part of it.            *)
(***************************************************************************)
EXTENDS BTree

\* iterator_frame_t: pend is value_pending, a value to be told after its subtree.
Frame(p, i) == [page |-> p, at |-> i, pend |-> FALSE]

NodeFrame(h, n) == Frame(h.nodes[n], 1)

SetTop(stack, f) == Append(Front(stack), f)

\* path_compare and identifier_compare: identifier by identifier, chunk by
\* chunk; what is a proper prefix comes first.
Less(s, t) ==
  \/ Len(s) < Len(t) /\ SubSeq(t, 1, Len(s)) = s
  \/ \E i \in DOMAIN s \cap DOMAIN t :
       s[i] < t[i] /\ SubSeq(s, 1, i - 1) = SubSeq(t, 1, i - 1)

PathLess(a, b) ==
  \/ Len(a) < Len(b) /\ SubSeq(b, 1, Len(a)) = a
  \/ \E i \in DOMAIN a \cap DOMAIN b :
       Less(a[i], b[i]) /\ SubSeq(a, 1, i - 1) = SubSeq(b, 1, i - 1)

\* A bound is a set: empty for none, else the one path.
Before(key, bound) == \E b \in bound : PathLess(key, b)
Beyond(key, bound) == \E b \in bound : ~PathLess(key, b)

\* The path of the chunks of the stack, cut as the entry's metadata says,
\* without the first identifiers of a subtree's prefix.
PathOf(chunks, meta, skip) ==
  LET start(i) == FoldLeft(LAMBDA a, b : a + b, 0, SubSeq(meta, 1, i - 1))
      whole == [i \in DOMAIN meta |-> SubSeq(chunks, start(i) + 1, start(i) + meta[i])]
  IN SubSeq(whole, skip + 1, Len(whole))

\* The chunks of the entries at the given places; separators are no chunks.
StackChunks(h, stack, place(_)) ==
  LET entry(i) == Ents(h, stack[i].page)[place(i)]
      used == SelectSeq([i \in DOMAIN stack |-> i],
                        LAMBDA i : place(i) \in DOMAIN Ents(h, stack[i].page) /\ entry(i).page = 0)
  IN [j \in DOMAIN used |-> entry(used[j]).key]

(***************************************************************************)
(* Forward.                                                                *)
(***************************************************************************)

\* Mutant: a page goes on at the separator that was followed.
MutSeekFrames(h, stack, c) ==
  LET path == DescendPath(h, Last(stack).page, c)
  IN Front(stack) \o [i \in 1 .. Len(path) - 1 |-> Frame(path[i], Route(Ents(h, path[i]), c))]
                  \o <<Frame(Last(path), 1)>>

\* The frames of the pages from the top page of the stack to the leaf for c;
\* each internal page goes on after the separator that was followed.
SeekFrames(h, stack, c) ==
  LET path == DescendPath(h, Last(stack).page, c)
  IN Front(stack) \o [i \in 1 .. Len(path) - 1 |-> Frame(path[i], Route(Ents(h, path[i]), c) + 1)]
                  \o <<Frame(Last(path), 1)>>

\* seek_to_start_path with seek_position_leaf.
RECURSIVE SeekStart(_, _, _)
SeekStart(h, stack, cs) ==
  LET st == SeekFrames(h, stack, Head(cs))
      leaf == Last(st).page
      lb == Search(Ents(h, leaf), Head(cs))
      e == Ents(h, leaf)[lb]
  IN IF ~Found(Ents(h, leaf), Head(cs)) \/ Len(cs) = 1 THEN SetTop(st, Frame(leaf, lb))
     ELSE IF e.child = 0 THEN SetTop(st, Frame(leaf, lb + 1))
     ELSE SeekStart(h, Append(SetTop(st, Frame(leaf, lb + 1)), NodeFrame(h, e.child)), Tail(cs))

\* database_scan_start: the root's frame, and the seek where there is a start.
StartForward(h, lo, hi, skip) ==
  [stack |-> IF lo = {} THEN <<NodeFrame(h, 1)>>
             ELSE SeekStart(h, <<NodeFrame(h, 1)>>, Chunks(CHOOSE k \in lo : TRUE)),
   lo |-> lo, hi |-> hi, skip |-> skip, reverse |-> FALSE, finished |-> FALSE, got |-> {}]

Finish(it) == [it EXCEPT !.finished = TRUE, !.got = {}]

Top(it) == Last(it.stack)
Entry(h, it) == Ents(h, Top(it).page)[Top(it).at]

\* The stack after the entry at the top, with the entry's subtree on it.
Past(it) == SetTop(it.stack, [Top(it) EXCEPT !.at = @ + 1])
PastInto(h, it) ==
  IF Entry(h, it).child = 0 THEN Past(it) ELSE Append(Past(it), NodeFrame(h, Entry(h, it).child))

\* The path of the value at the top, from the places before those the stack is at.
NextPath(h, it) ==
  LET st == PastInto(h, it)
  IN PathOf(StackChunks(h, st, LAMBDA i : st[i].at - 1), Entry(h, it).meta, it.skip)

\* A key at or beyond the end stops the scan, deleted or not.
StopsNext(h, it) == Beyond(NextPath(h, it), it.hi)

\* A value is told if it is visible and not before the start.
TellNext(h, it) ==
  LET key == NextPath(h, it)
      e == Entry(h, it)
      moved == [it EXCEPT !.stack = PastInto(h, it)]
  IN IF StopsNext(h, it) THEN Finish(moved)
     ELSE IF e.val = Tomb \/ Before(key, it.lo) THEN moved
     ELSE [moved EXCEPT !.got = {<<key, e.val>>}]

\* An entry without value leads to a page or to a node.
EnterNext(h, it) ==
  LET e == Entry(h, it)
  IN [it EXCEPT !.stack = IF e.page # 0 THEN Append(Past(it), Frame(e.page, 1)) ELSE PastInto(h, it)]

\* database_scan_next: frame after frame until a value is told or none is left.
RECURSIVE NextFrom(_, _)
NextFrom(h, it) ==
  IF it.got # {} \/ it.finished THEN it
  ELSE IF it.stack = <<>> THEN Finish(it)
  ELSE NextFrom(h, IF Top(it).at > Len(Ents(h, Top(it).page)) THEN [it EXCEPT !.stack = Front(@)]
                   ELSE IF Entry(h, it).hv THEN TellNext(h, it) ELSE EnterNext(h, it))

ScanNext(h, it) == NextFrom(h, [it EXCEPT !.got = {}])

(***************************************************************************)
(* Reverse.                                                                *)
(***************************************************************************)

\* seek_to_rightmost: into the last entry of each page.
RECURSIVE Rightmost(_, _)
Rightmost(h, stack) ==
  LET f == Last(stack)
      ents == Ents(h, f.page)
      n == Len(ents)
      e == ents[n]
      descend(top, frame) == Rightmost(h, Append(SetTop(stack, top), frame))
  IN IF n = 0 THEN stack
     ELSE IF e.hv /\ e.child # 0
     THEN descend([f EXCEPT !.at = n, !.pend = TRUE], NodeFrame(h, e.child))
     ELSE IF e.page # 0 THEN descend([f EXCEPT !.at = n - 1], Frame(e.page, 1))
     ELSE IF ~e.hv /\ e.child # 0 THEN descend([f EXCEPT !.at = n - 1], NodeFrame(h, e.child))
     ELSE SetTop(stack, [f EXCEPT !.at = n])

\* The pages a chunk of the end bound leads to: at each level the last separator
\* below it; 0 where there is none.
EndPages(h, p, c) ==
  LET down[q \in DOMAIN h.pages] ==
        IF h.pages[q].level = 1 THEN <<q>>
        ELSE IF Search(Ents(h, q), c) = 1 THEN <<q, 0>>
        ELSE <<q>> \o down[Ents(h, q)[Search(Ents(h, q), c) - 1].page]
  IN down[p]

\* The internal pages go on at the separator before the one that was followed.
EndFrames(h, stack, pages, c) ==
  Front(stack) \o [i \in 1 .. Len(pages) - 1 |-> Frame(pages[i], Search(Ents(h, pages[i]), c) - 2)]

\* The walk from the end of the trie.
FromTheEnd(h) == Rightmost(h, <<NodeFrame(h, 1)>>)

\* The leaf for the last chunk of the bound: the entry before it.
EndAt(h, above, leaf, c) ==
  LET ub == Search(Ents(h, leaf), c)
  IN IF ub = 1 THEN FromTheEnd(h) ELSE Append(above, Frame(leaf, ub - 1))

\* The entry an earlier chunk of the bound leads to: itself, else the one before.
EndEntry(h, leaf, c) ==
  LET ub == Search(Ents(h, leaf), c) IN IF Found(Ents(h, leaf), c) THEN ub ELSE ub - 1

\* The leaf's frame when the scan goes below its entry d: the value is left pending.
EndLeafFrame(h, leaf, d) ==
  LET e == Ents(h, leaf)[d]
  IN [Frame(leaf, IF e.hv THEN d ELSE d - 1) EXCEPT !.pend = e.hv]

\* seek_to_end_path; where it finds no entry below a chunk it gives up and
\* starts at the rightmost leaf of the trie.
RECURSIVE SeekEnd(_, _, _)
SeekEnd(h, stack, cs) ==
  LET c == Head(cs)
      pages == EndPages(h, Last(stack).page, c)
      leaf == Last(pages)
      d == EndEntry(h, leaf, c)
      e == Ents(h, leaf)[d]
      above == EndFrames(h, stack, pages, c)
  IN IF leaf = 0 THEN FromTheEnd(h)
     ELSE IF Len(cs) = 1 THEN EndAt(h, above, leaf, c)
     ELSE IF d = 0 THEN FromTheEnd(h)
     ELSE IF e.child = 0 THEN Append(above, Frame(leaf, d))
     ELSE SeekEnd(h, above \o <<EndLeafFrame(h, leaf, d),
                                Frame(h.nodes[e.child], Len(Ents(h, h.nodes[e.child])))>>, Tail(cs))

\* database_scan_start_reverse.
StartReverse(h, lo, hi, skip) ==
  [stack |-> IF hi = {} THEN Rightmost(h, <<NodeFrame(h, 1)>>)
             ELSE SeekEnd(h, <<NodeFrame(h, 1)>>, Chunks(CHOOSE k \in hi : TRUE)),
   lo |-> lo, hi |-> hi, skip |-> skip, reverse |-> TRUE, finished |-> FALSE, got |-> {}]

\* The stack before the entry at the top.
Ahead(it) == SetTop(it.stack, [Top(it) EXCEPT !.at = @ - 1])

\* The path of the value at the top: above it the scan stands at the entry it
\* went into if that entry's value is pending, else one before it.
PrevPath(h, it) ==
  LET place(i) == IF i = Len(it.stack) \/ it.stack[i].pend THEN it.stack[i].at
                  ELSE it.stack[i].at + 1
  IN PathOf(StackChunks(h, it.stack, place), Entry(h, it).meta, it.skip)

\* A visible value before the start stops the scan, one beyond the end is skipped.
TellPrev(h, it) ==
  LET key == PrevPath(h, it)
      e == Entry(h, it)
      told == [it EXCEPT !.stack = SetTop(Ahead(it), [Last(Ahead(it)) EXCEPT !.pend = FALSE])]
  IN IF e.val # Tomb /\ Before(key, it.lo) THEN Finish(told)
     ELSE IF e.val = Tomb \/ Beyond(key, it.hi) THEN told
     ELSE [told EXCEPT !.got = {<<key, e.val>>}]

\* The first visit of a value with a subtree goes into the subtree.
PendPrev(h, it) ==
  [it EXCEPT !.stack = Rightmost(h, Append(SetTop(@, [Top(it) EXCEPT !.pend = TRUE]),
                                           NodeFrame(h, Entry(h, it).child)))]

EnterPrev(h, it) ==
  LET e == Entry(h, it)
  IN [it EXCEPT !.stack =
        IF e.page # 0 THEN Append(Ahead(it), Frame(e.page, Len(Ents(h, e.page))))
        ELSE IF e.child # 0 THEN Rightmost(h, Append(Ahead(it), NodeFrame(h, e.child)))
        ELSE Ahead(it)]

\* database_scan_prev: an entry with a value and a subtree is met twice, first
\* for the subtree and then for the value, which sorts before it.
RECURSIVE PrevFrom(_, _)
PrevFrom(h, it) ==
  IF it.got # {} \/ it.finished THEN it
  ELSE IF it.stack = <<>> THEN Finish(it)
  ELSE PrevFrom(h, IF Top(it).at \notin DOMAIN Ents(h, Top(it).page) THEN [it EXCEPT !.stack = Front(@)]
                   ELSE IF ~Entry(h, it).hv THEN EnterPrev(h, it)
                   ELSE IF Entry(h, it).child # 0 /\ ~Top(it).pend THEN PendPrev(h, it)
                   ELSE TellPrev(h, it))

ScanPrev(h, it) == PrevFrom(h, [it EXCEPT !.got = {}])
=============================================================================
