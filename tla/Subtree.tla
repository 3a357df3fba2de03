------------------------------ MODULE Subtree ------------------------------
(***************************************************************************)
(* One client of a sync-only database: it puts, deletes and collects, it   *)
(* scans ranges in either direction with an iterator, and it works on      *)
(* subtrees, which are key prefixes (database_subtree.c).  kv is what the  *)
(* calls so far amount to; the trie must hold exactly that.                *)
(***************************************************************************)
EXTENDS Iterator, FiniteSets

CONSTANTS
  Jobs,        \* where the client starts and what it uses: see SubTypeOK
  MaxUpdates   \* how many calls change the trie

\* The keys in play.
AllKeys(j) ==
  {j.start[i] : i \in DOMAIN j.start} \cup {j.prefix \o k : k \in j.keys}
  \cup UNION {{j.prefix \o b[i].key : i \in DOMAIN b} : b \in j.batches}

VARIABLES
  subJob,      \* the job chosen
  heap,     \* the trie
  kv,       \* what it should hold: key -> newest value or NoVal
  it,       \* the iterator; finished when none is open
  out,      \* what the scan in progress, or the last one, has told
  want,     \* all that it should tell
  updates   \* calls so far that changed the trie

subVars == <<subJob, heap, kv, it, out, want, updates>>

ClosedIterator == [Finish(StartForward(EmptyHeap, {}, {}, 0)) EXCEPT !.stack = <<>>]

Sorted(S) ==
  [i \in 1 .. Cardinality(S) |->
     CHOOSE k \in S : Cardinality({j \in S : PathLess(j, k)}) = i - 1]

\* The live keys from lo up to but not including hi, with their values.
Expected(lo, hi, reverse) ==
  LET up == Sorted({k \in AllKeys(subJob) : kv[k] # NoVal /\ ~Before(k, lo) /\ ~Beyond(k, hi)})
      ks == IF reverse THEN Reverse(up) ELSE up
  IN [i \in DOMAIN ks |-> <<ks[i], kv[ks[i]]>>]

\* A trie the program has built: the job's keys were put one after the other.
Built(keys, v) == FoldLeft(LAMBDA h, k : InsertKey(h, k, v), EmptyHeap, keys)

SubInit ==
  /\ subJob \in Jobs
  /\ heap = Built(subJob.start, subJob.value)
  /\ kv = [k \in AllKeys(subJob) |-> IF \E i \in DOMAIN subJob.start : subJob.start[i] = k THEN subJob.value ELSE NoVal]
  /\ it = ClosedIterator
  /\ out = <<>> /\ want = <<>>
  /\ updates = 0

Update ==
  /\ it.finished
  /\ updates < MaxUpdates
  /\ updates' = updates + 1
  /\ it' = ClosedIterator
  /\ out' = <<>> /\ want' = <<>>
  /\ UNCHANGED subJob

\* database_put_sync, and database_subtree_put_sync with the prefix in front.
Put(pre, k, v) ==
  /\ Update
  /\ heap' = InsertKey(heap, pre \o k, v)
  /\ kv' = [kv EXCEPT ![pre \o k] = v]

\* database_delete_sync, and the subtree's.
Delete(pre, k) ==
  /\ Update
  /\ heap' = DeleteKey(heap, pre \o k)
  /\ kv' = [kv EXCEPT ![pre \o k] = NoVal]

\* database_write_batch_sync and the subtree's: the operations in their order.
WriteBatch(pre, ops) ==
  /\ Update
  /\ heap' = FoldLeft(LAMBDA h, o : IF o.val = NoVal THEN DeleteKey(h, pre \o o.key)
                                    ELSE InsertKey(h, pre \o o.key, o.val), heap, ops)
  /\ kv' = FoldLeft(LAMBDA f, o : [f EXCEPT ![pre \o o.key] = o.val], kv, ops)

\* hbtrie_gc in sync-only mode.
CollectTrie ==
  /\ subJob.gc
  /\ Update
  /\ heap' = GcTrie(heap)
  /\ UNCHANGED kv

\* All that a scan tells, from its first call to the one that says it is over.
RECURSIVE RunScan(_, _)
RunScan(h, i) ==
  LET j == ScanNext(h, i)
  IN IF j.finished THEN <<>> ELSE SetToSeq(j.got) \o RunScan(h, j)

\* Names that start with the prefix's last name and go on with a byte below the
\* delimiter sort between the name (an even number) and the bound (the next even
\* number), which is the name with the delimiter's successor behind it.
Successor(pre) ==
  LET id == Last(pre) IN SetTop(pre, SetTop(id, Last(id) + 2))

\* database_scan_range_sync_raw over [prefix, successor): what
\* database_subtree_delete_prefix and database_subtree_count work on.
KeysUnder(h, pre) == RunScan(h, StartForward(h, {pre}, {Successor(pre)}, 0))

HasPrefix(k, pre) == Len(k) >= Len(pre) /\ SubSeq(k, 1, Len(pre)) = pre

\* database_subtree_delete_prefix: every key found is deleted.
DeletePrefix(pre) ==
  /\ Update
  /\ heap' = FoldLeft(LAMBDA h, r : DeleteKey(h, r[1]), heap, KeysUnder(heap, pre))
  /\ kv' = [k \in AllKeys(subJob) |-> IF HasPrefix(k, pre) THEN NoVal ELSE kv[k]]

\* database_subtree_count; out is told the keys that are counted.
Count(pre) ==
  /\ it.finished
  /\ out' = KeysUnder(heap, pre)
  /\ want' = SelectSeq(Expected({}, {}, FALSE), LAMBDA r : HasPrefix(r[1], pre))
  /\ it' = ClosedIterator
  /\ UNCHANGED <<subJob, heap, kv, updates>>

\* subtree_path_to_stripped_key: without the names of the prefix; nothing is
\* told of the key that is the prefix itself.
Strip(pre, results) ==
  LET longer == SelectSeq(results, LAMBDA r : Len(r[1]) > Len(pre))
  IN [i \in DOMAIN longer |-> <<SubSeq(longer[i][1], Len(pre) + 1, Len(longer[i][1])), longer[i][2]>>]

\* database_subtree_scan_range_sync_raw with both bounds.
SubtreeRange(pre, lo, hi) ==
  /\ it.finished
  /\ out' = Strip(pre, RunScan(heap, StartForward(heap, {pre \o lo}, {pre \o hi}, 0)))
  /\ want' = Strip(pre, SelectSeq(Expected({pre \o lo}, {pre \o hi}, FALSE),
                                  LAMBDA r : HasPrefix(r[1], pre)))
  /\ it' = ClosedIterator
  /\ UNCHANGED <<subJob, heap, kv, updates>>

\* database_scan_start and database_scan_start_reverse.
ScanStart(lo, hi, reverse) ==
  /\ it.finished
  /\ it' = IF reverse THEN StartReverse(heap, lo, hi, 0) ELSE StartForward(heap, lo, hi, 0)
  /\ out' = <<>>
  /\ want' = Expected(lo, hi, reverse)
  /\ UNCHANGED <<subJob, heap, kv, updates>>

\* database_scan_next, database_scan_prev.
ScanStep ==
  /\ ~it.finished
  /\ it' = IF it.reverse THEN ScanPrev(heap, it) ELSE ScanNext(heap, it)
  /\ out' = out \o SetToSeq(it'.got)
  /\ UNCHANGED <<subJob, heap, kv, want, updates>>

\* database_scan_end, also in the middle of a scan.
ScanEnd ==
  /\ ~it.finished
  /\ it' = ClosedIterator
  /\ out' = <<>> /\ want' = <<>>
  /\ UNCHANGED <<subJob, heap, kv, updates>>

SubNext ==
  \/ \E k \in subJob.keys : Put(subJob.prefix, k, subJob.value) \/ Delete(subJob.prefix, k)
  \/ \E ops \in subJob.batches : WriteBatch(subJob.prefix, ops)
  \/ CollectTrie
  \/ \E pre \in subJob.prefixes : DeletePrefix(pre) \/ Count(pre)
  \/ \E b \in subJob.ranges : SubtreeRange(b[1], b[2], b[3])
  \/ \E lo, hi \in {{}} \cup {{b} : b \in subJob.bounds}, reverse \in BOOLEAN : ScanStart(lo, hi, reverse)
  \/ ScanStep
  \/ ScanEnd

SubSpec == SubInit /\ [][SubNext]_subVars

(***************************************************************************)
(* Properties.                                                             *)
(***************************************************************************)

\* Every page, entry, frame and result has its shape; no page holds more than
\* MaxEntries.
SubTypeOK ==
  /\ DOMAIN heap = {"pages", "nodes"}
  /\ \A p \in DOMAIN heap.pages :
       /\ heap.pages[p].level \in 1 .. Len(heap.pages)
       /\ Len(Ents(heap, p)) <= MaxEntries
       /\ \A i \in DOMAIN Ents(heap, p) :
            LET e == Ents(heap, p)[i] IN
            /\ e.val \in Values \cup {Tomb, NoVal}
            /\ e.hv <=> e.val # NoVal
            /\ e.chain => e.hv
            /\ e.child \in 0 .. Len(heap.nodes)
            /\ e.page \in 0 .. Len(heap.pages)
  /\ \A n \in DOMAIN heap.nodes : heap.nodes[n] \in DOMAIN heap.pages
  /\ \A i \in DOMAIN it.stack : it.stack[i].page \in DOMAIN heap.pages
  /\ kv \in [AllKeys(subJob) -> Values \cup {NoVal}]
  /\ updates \in 0 .. MaxUpdates

\* The chunks stored below a page.
RECURSIVE Below(_)
Below(p) ==
  UNION {IF Ents(heap, p)[i].page = 0 THEN {Ents(heap, p)[i].key} ELSE Below(Ents(heap, p)[i].page) :
           i \in DOMAIN Ents(heap, p)}

\* After any sequence of puts, deletes, batches, prefix deletions and
\* collections, a get of any key finds its newest value, and finds nothing
\* for a key that was deleted or never put (hbtrie_find_unsafe over what
\* insert, delete and gc leave).
EveryKeyFound == \A k \in AllKeys(subJob) : FindKey(heap, k) = kv[k]

\* seek_to_end_path follows the end bound to its last chunk: the others are in
\* the trie, each in a B+tree of one page.
Followed(bound) ==
  \A b \in bound : \A j \in 1 .. Len(Chunks(b)) - 1 :
    LET n == Walk(heap, SubSeq(Chunks(b), 1, j - 1)) IN
    /\ n # 0
    /\ heap.pages[heap.nodes[n]].level = 1
    /\ Spot(heap, n, Chunks(b)[j]).found

\* A scan tells the live keys of its range, each once, with its newest value and
\* in the order asked for: at each call what it has told so far is the beginning
\* of that, and at its end it is all of it.  The seek to a start or to an end
\* skips nothing of the range.  (A reverse scan: where the seek can follow its
\* end bound.)  Counting a prefix and the range scan of a subtree likewise.
ScanExact ==
  (it.reverse => Followed(it.hi)) => IF it.finished THEN out = want ELSE IsPrefix(out, want)
=============================================================================
