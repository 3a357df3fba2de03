------------------------------- MODULE BTree -------------------------------
(***************************************************************************)
(* The trie of bnode.c and of hbtrie.c as one thread sees it: every trie   *)
(* node is a B+tree of pages, a key's chunks are looked up one B+tree      *)
(* after the other, and a page that grows past MaxEntries is split.  The   *)
(* operators are the functions of the sync-only mode (the _unsafe ones);   *)
(* module HbTrie has the ones with locks, over nodes that are functions.   *)
(*                                                                         *)
(* A key is a path: a sequence of identifiers, each a sequence of chunks;  *)
(* a chunk is a number, compared as memcmp compares chunks of one size.    *)
(* A heap is the pages and, for each trie node, the page its B+tree starts *)
(* at; node 1 is the root of the trie.  A page of level 1 is a leaf.       *)
(***************************************************************************)
EXTENDS Naturals, Sequences, SequencesExt

CONSTANTS
  MaxEntries,  \* what a page holds (node_size over the size of an entry)
  Values,      \* the values stored
  Tomb,        \* a newest version that says "deleted"
  NoVal        \* no value

ASSUME EntriesAssumption == MaxEntries \in Nat /\ MaxEntries >= 3

\* bnode_entry_t.  child is the child of an entry without value and the
\* trie_child of one with a value; page is the child_bnode of a separator;
\* chain says that the value is a version chain, of which val is the newest.
NewEntry(c) ==
  [key |-> c, hv |-> FALSE, val |-> NoVal, chain |-> FALSE, meta |-> <<>>, child |-> 0, page |-> 0]

EmptyHeap == [pages |-> <<[level |-> 1, ents |-> <<>>]>>, nodes |-> <<1>>]

Ents(h, p) == h.pages[p].ents

\* bnode_search: the first entry whose key is not less than c.
Search(ents, c) == 1 + Len(SelectSeq(ents, LAMBDA e : e.key < c))

\* bnode_find: whether the entry there has the key c.
Found(ents, c) == Search(ents, c) <= Len(ents) /\ ents[Search(ents, c)].key = c

\* The separator a descent follows: the key itself, else the one before it.
Route(ents, c) ==
  IF Found(ents, c) THEN Search(ents, c)
  ELSE IF Search(ents, c) = 1 THEN 1 ELSE Search(ents, c) - 1

\* btree_descend_with_path: the pages from p down to the leaf for c.
DescendPath(h, p, c) ==
  LET down[q \in DOMAIN h.pages] ==
        IF h.pages[q].level = 1 THEN <<q>>
        ELSE <<q>> \o down[Ents(h, q)[Route(Ents(h, q), c)].page]
  IN down[p]

Leaf(h, n, c) == Last(DescendPath(h, h.nodes[n], c))

\* bnode_insert: before the first entry that is not less.
InsertEntry(ents, e) == InsertAt(ents, Search(ents, e.key), e)

WithEnts(h, p, ents) == [h EXCEPT !.pages[p].ents = ents]

Separator(c, p) == [NewEntry(c) EXCEPT !.page = p]

\* Mutant: the separator moves up and is not kept in the right half.
MutSplitPage(h, p) ==
  LET half == Len(Ents(h, p)) \div 2
  IN [h EXCEPT !.pages = Append([@ EXCEPT ![p].ents = SubSeq(@, 1, half)],
                                [level |-> @[p].level, ents |-> SubSeq(@[p].ents, half + 2, Len(@[p].ents))])]

\* bnode_split: the upper half goes to a new page of the same level.
SplitPage(h, p) ==
  LET half == Len(Ents(h, p)) \div 2
  IN [h EXCEPT !.pages = Append([@ EXCEPT ![p].ents = SubSeq(@, 1, half)],
                                [level |-> @[p].level, ents |-> SubSeq(@[p].ents, half + 1, Len(@[p].ents))])]

\* A root page that was split gets a new root above it and its right half.
GrowRoot(h, n, p, right) ==
  [pages |-> Append(h.pages, [level |-> h.pages[p].level + 1,
                              ents |-> InsertEntry(<<Separator(Ents(h, p)[1].key, p)>>,
                                                   Separator(Ents(h, right)[1].key, right))]),
   nodes |-> [h.nodes EXCEPT ![n] = Len(h.pages) + 1]]

\* bnode_needs_split.
NeedsSplit(h, p) == Len(Ents(h, p)) > MaxEntries

\* btree_split_after_insert and btree_propagate_split: the last page of the
\* path, and then its ancestors, are split while they hold too much.
RECURSIVE SplitUp(_, _, _)
SplitUp(h, n, path) ==
  LET p == Last(path)
      s == SplitPage(h, p)
      right == Len(s.pages)
  IN IF ~NeedsSplit(h, p) THEN h
     ELSE IF Len(path) = 1 THEN GrowRoot(s, n, p, right)
     ELSE LET parent == path[Len(path) - 1]
              sep == Separator(Ents(s, right)[1].key, right)
          IN SplitUp(WithEnts(s, parent, InsertEntry(Ents(s, parent), sep)), n, Front(path))

AddEntry(h, n, e) ==
  LET path == DescendPath(h, h.nodes[n], e.key)
      leaf == Last(path)
  IN SplitUp(WithEnts(h, leaf, InsertEntry(Ents(h, leaf), e)), n, path)

\* hbtrie_node_create: a node whose B+tree is one empty leaf.
NewNode(h) ==
  [pages |-> Append(h.pages, [level |-> 1, ents |-> <<>>]),
   nodes |-> Append(h.nodes, Len(h.pages) + 1)]

Chunks(key) == FlattenSeq(key)
Meta(key) == [i \in DOMAIN key |-> Len(key[i])]

\* The entry for c in node n: its page and its place (find-leaf).
Spot(h, n, c) ==
  LET leaf == Leaf(h, n, c)
  IN [page |-> leaf, at |-> Search(Ents(h, leaf), c), found |-> Found(Ents(h, leaf), c)]

EntryAt(h, s) == Ents(h, s.page)[s.at]
SetEntryAt(h, s, e) == [h EXCEPT !.pages[s.page].ents[s.at] = e]

\* One chunk of a key on the way down: the child is made where there is none.
Deepen(acc, c) ==
  LET s == Spot(acc.h, acc.n, c)
      fresh == NewNode(acc.h)
      m == Len(fresh.nodes)
  IN IF ~s.found
     THEN [h |-> AddEntry(fresh, acc.n, [NewEntry(c) EXCEPT !.child = m]), n |-> m]
     ELSE IF EntryAt(acc.h, s).child = 0
     THEN [h |-> SetEntryAt(fresh, s, [EntryAt(acc.h, s) EXCEPT !.child = m]), n |-> m]
     ELSE [h |-> acc.h, n |-> EntryAt(acc.h, s).child]

\* The last chunk: a first value is plain, a later one makes a version chain;
\* the upgrade to a chain keeps the old path metadata.
Store(acc, c, v, meta) ==
  LET s == Spot(acc.h, acc.n, c)
      e == EntryAt(acc.h, s)
  IN IF ~s.found
     THEN AddEntry(acc.h, acc.n, [NewEntry(c) EXCEPT !.hv = TRUE, !.val = v, !.meta = meta])
     ELSE SetEntryAt(acc.h, s,
            [e EXCEPT !.hv = TRUE, !.val = v, !.chain = e.hv,
                      !.meta = IF e.hv /\ ~e.chain THEN @ ELSE meta])

\* hbtrie_insert_unsafe.
InsertKey(h, key, v) ==
  LET cs == Chunks(key)
  IN Store(FoldLeft(Deepen, [h |-> h, n |-> 1], Front(cs)), Last(cs), v, Meta(key))

\* The node a key's last chunk is looked up in, 0 where the way ends before.
Walk(h, cs) ==
  FoldLeft(LAMBDA n, c :
             IF n = 0 THEN 0
             ELSE IF Spot(h, n, c).found THEN EntryAt(h, Spot(h, n, c)).child ELSE 0,
           1, cs)

\* hbtrie_find_unsafe: the newest value of a key, NoVal for one deleted or absent.
FindKey(h, key) ==
  LET n == Walk(h, Front(Chunks(key)))
      s == Spot(h, n, Last(Chunks(key)))
  IN IF n = 0 \/ ~s.found THEN NoVal
     ELSE IF ~EntryAt(h, s).hv \/ EntryAt(h, s).val = Tomb THEN NoVal
     ELSE EntryAt(h, s).val

\* hbtrie_delete_unsafe: a tombstone on top of the chain of an entry that has one.
DeleteKey(h, key) ==
  LET n == Walk(h, Front(Chunks(key)))
      s == Spot(h, n, Last(Chunks(key)))
  IN IF n = 0 \/ ~s.found \/ ~EntryAt(h, s).hv THEN h
     ELSE SetEntryAt(h, s, [EntryAt(h, s) EXCEPT !.val = Tomb, !.chain = TRUE])

\* hbtrie_gc_unsafe: the pages of the nodes it reaches; it does not go below an
\* entry with a chain.  A chain whose newest version is a tombstone is removed
\* with its entry, any other becomes a plain value.
RECURSIVE GcPages(_, _)
GcPages(h, p) ==
  {p} \cup UNION {LET e == Ents(h, p)[i] IN
                  IF e.page # 0 THEN GcPages(h, e.page)
                  ELSE IF e.child # 0 /\ ~e.chain THEN GcPages(h, h.nodes[e.child])
                  ELSE {} : i \in DOMAIN Ents(h, p)}

GcEntries(ents) ==
  LET kept == SelectSeq(ents, LAMBDA e : ~(e.chain /\ e.val = Tomb))
  IN [i \in DOMAIN kept |-> [kept[i] EXCEPT !.chain = FALSE]]

GcTrie(h) ==
  [h EXCEPT !.pages = [p \in DOMAIN @ |-> IF p \in GcPages(h, h.nodes[1])
                                          THEN [@[p] EXCEPT !.ents = GcEntries(@)] ELSE @[p]]]
=============================================================================
