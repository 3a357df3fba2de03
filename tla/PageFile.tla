------------------------------- MODULE PageFile -------------------------------
(***************************************************************************)
(* The page file (src/Storage/page_file.c) and the code of database.c that *)
(* writes it: database_flush_dirty_bnodes, which snapshot and destroy call *)
(* for their checkpoint, and the rewrite and file swap of vacuum.          *)
(*                                                                         *)
(* A file is a sequence of cells; a block is BlockSize cells, the last one *)
(* for its IndexBlkMeta.  A node takes Prefix cells for its size and then  *)
(* its data.  The trie is a fixed tree of hbtrie nodes with one B+tree     *)
(* node each: a node holds a version number and, for each child, the       *)
(* offset of the child in the file.                                        *)
(*                                                                         *)
(* The process may die between any two writes and with a superblock half   *)
(* written.  Writes reach the disk in order; encryption is left out.       *)
(***************************************************************************)
EXTENDS Integers, Sequences, FiniteSets, SequencesExt, StaleRegion

CONSTANTS
  Nodes, Root,
  Parent,          \* node -> parent; Root is its own
  Depth,           \* node -> distance from Root
  BlockSize, Prefix, Sizes,  \* in cells
  NumSuperblocks,
  InlineRegions,   \* stale regions that fit into a superblock's block
  Allowed,         \* what may happen: see PageFileAssumption
  MaxUpdates, MaxFlushes, MaxFaults, MaxBlocks  \* bounds on one behaviour

ASSUME PageFileAssumption ==
  /\ IsFiniteSet(Nodes) /\ Root \in Nodes /\ Parent \in [Nodes -> Nodes] /\ Parent[Root] = Root
  /\ Depth \in [Nodes -> Nat] /\ Depth[Root] = 0
  /\ \A n \in Nodes \ {Root} : Depth[n] = Depth[Parent[n]] + 1
  /\ BlockSize \in Nat /\ BlockSize > 2 /\ Prefix \in Nat \ {0}
  /\ Sizes \subseteq Nat \ {0} /\ Sizes # {}
  /\ NumSuperblocks \in Nat \ {0} /\ InlineRegions \in Nat
  /\ Allowed \subseteq {"overlap", "gap", "vacuum", "failure", "late_failure", "vacuum_failure",
                     "lone_slot"}
  /\ {MaxUpdates, MaxFlushes, MaxFaults, MaxBlocks} \subseteq Nat

MetaSize == 1  \* INDEX_BLK_META_SIZE
Base == NumSuperblocks * BlockSize
None == -1     \* UINT64_MAX as disk_offset, BLK_NOT_FOUND as next_bid
Children(n) == {c \in Nodes \ {Root} : Parent[c] = n}
Hole == [kind |-> "hole"]
Torn == [kind |-> "torn"]
Bad == [kind |-> "bad"]

VARIABLES
  disk,       \* "live" and "tmp" file: [data : cells from Base on, sb : slots]
  pf,         \* "live" and "tmp" page_file_t: cur_bid, cur_offset, revision
  stale,      \* stale_mgr of the live file
  tree,       \* the trie in memory
  phase,      \* "up", "down"
  pc, reason, \* what the flusher does, and what for
  passes,     \* turns of the loop of database_flush_dirty_bnodes
  list, at,   \* dirty_list, or the nodes in the order of the vacuum walk
  w,          \* locals of page_file_write_node
  updates, flushes, faults,
  \* history
  flushed,    \* node -> its version in the file
  saved,      \* node -> its version in the last checkpoint
  marked,     \* cells that were passed to page_file_mark_stale
  lost,       \* page_file_open has not found the list of some of them
  closed,     \* versions in the trie when destroy persisted it
  odd         \* which of the switches of Allowed have been made use of

flusher == <<pc, reason, passes, list, at, w>>
counts == <<updates, flushes, faults>>
history == <<flushed, saved, marked, lost, closed, odd>>
vars == <<disk, pf, stale, tree, phase, flusher, counts, history>>

Zero == [n \in Nodes |-> 0]
NotClosed == [n \in Nodes |-> None]

\* page_file_open of an empty file: superblocks of revision 0 without root.
NewSb == [kind |-> "sb", root |-> 0, revision |-> 0, stale |-> <<>>, blob |-> 0, marked |-> {}, lost |-> FALSE]
NewFile == [data |-> <<>>, sb |-> [s \in 0 .. (NumSuperblocks - 1) |-> NewSb]]
NewPf == [cur_bid |-> NumSuperblocks, cur_offset |-> 0, revision |-> 0]
EmptyNode(n) == [ver |-> 0, size |-> CHOOSE z \in Sizes : TRUE, disk_offset |-> None,
                 bn_dirty |-> FALSE, hb_dirty |-> FALSE, kids |-> [c \in Children(n) |-> 0]]
EmptyTree == [n \in Nodes |-> EmptyNode(n)]
NoWrite == [node |-> Root]

Init ==
  /\ disk = [f \in {"live", "tmp"} |-> NewFile]
  /\ pf = [f \in {"live", "tmp"} |-> NewPf]
  /\ stale = <<>> /\ tree = EmptyTree /\ phase = "up"
  /\ pc = "idle" /\ reason = "none" /\ passes = 0 /\ list = <<>> /\ at = 0 /\ w = NoWrite
  /\ updates = 0 /\ flushes = 0 /\ faults = 0
  /\ flushed = Zero /\ saved = Zero /\ marked = {} /\ lost = FALSE /\ closed = NotClosed /\ odd = {}

-----------------------------------------------------------------------------
(* Reading the file *)

FileSize(f) == Base + Len(f.data)
CellAt(f, o) == IF o - Base + 1 \in 1 .. Len(f.data) THEN f.data[o - Base + 1] ELSE Hole

\* page_file_read_superblock: the valid one with the greatest revision.
ValidSlots(f) == {s \in DOMAIN f.sb : f.sb[s].kind = "sb"}
WinningSlot(f) ==
  CHOOSE s \in ValidSlots(f) :
    \A t \in ValidSlots(f) : \/ f.sb[s].revision > f.sb[t].revision
                             \/ f.sb[s].revision = f.sb[t].revision /\ s <= t
BestSb(f) == f.sb[WinningSlot(f)]

\* page_file_read_node: length cells from o on, from block to block by way of
\* next_bid.  An offset without room for data before the IndexBlkMeta is an error.
Cell(c, i) == [kind |-> "node", content |-> c, part |-> i]
BlkMeta(next) == [kind |-> "meta", next_bid |-> next]
IsMetaPos(o) == o % BlockSize = BlockSize - MetaSize
Length(c) == Prefix + c.size

\* The position after p.
NextPos(f, p) ==
  LET m == CellAt(f, p + 1) IN
  IF p = None THEN None
  ELSE IF ~IsMetaPos(p + 1) THEN p + 1
  ELSE IF m.kind = "meta" /\ m.next_bid # None THEN m.next_bid * BlockSize
  ELSE None

ReadPos(f, o, length) ==
  LET pos[i \in 1 .. length] == IF i = 1 THEN o ELSE NextPos(f, pos[i - 1]) IN pos

ReadNode(f, o) ==
  LET c == CellAt(f, o) IN
  IF IsMetaPos(o) \/ c.kind # "node" THEN Bad
  ELSE LET pos == ReadPos(f, o, Length(c.content)) IN
       IF \A i \in DOMAIN pos : pos[i] # None /\ CellAt(f, pos[i]) = Cell(c.content, i)
       THEN c.content ELSE Bad

\* What is behind a superblock, top down; Bad below an unreadable node.
Loaded(f, sb) ==
  LET node[n \in Nodes] ==
        LET up == IF n = Root THEN Bad ELSE node[Parent[n]]
            o == IF n = Root THEN sb.root ELSE IF up.kind = "bad" THEN 0 ELSE up.kids[n]
        IN IF n # Root /\ up.kind = "bad" THEN Bad
           ELSE IF o = 0
           THEN [kind |-> "content", node |-> n, ver |-> 0, size |-> EmptyNode(n).size,
                 kids |-> EmptyNode(n).kids, offset |-> None]
           ELSE LET c == ReadNode(f, o) IN
                IF c.kind = "bad" \/ c.node # n THEN Bad
                ELSE [kind |-> "content", node |-> n, ver |-> c.ver, size |-> c.size,
                      kids |-> c.kids, offset |-> o]
  IN node

-----------------------------------------------------------------------------
(* Changes to the trie *)

\* Mutant: the B+tree node is not marked.
UpdateHbOnly(n, z) ==
  /\ phase = "up" /\ updates < MaxUpdates
  /\ pc = "idle" \/ ("overlap" \in Allowed /\ reason = "snapshot")
  /\ tree' = [tree EXCEPT ![n] = [@ EXCEPT !.ver = tree[n].ver + 1, !.size = z, !.hb_dirty = TRUE]]
  /\ updates' = updates + 1
  /\ odd' = IF pc = "idle" THEN odd ELSE odd \cup {"overlap"}
  /\ UNCHANGED <<disk, pf, stale, phase, flusher, flushes, faults, flushed, saved, marked, lost, closed>>

\* hbtrie_insert ends with mark_dirty.  Nothing keeps writers away while a snapshot
\* flushes.  A vacuum keeps them away by vacuum_in_progress and its write barrier,
\* which are not part of this module.
Update(n, z) ==
  /\ phase = "up" /\ updates < MaxUpdates
  /\ pc = "idle" \/ ("overlap" \in Allowed /\ reason = "snapshot")
  /\ tree' = [tree EXCEPT ![n] = [@ EXCEPT !.ver = tree[n].ver + 1, !.size = z,
                                           !.bn_dirty = TRUE, !.hb_dirty = TRUE]]
  /\ updates' = updates + 1
  /\ odd' = IF pc = "idle" THEN odd ELSE odd \cup {"overlap"}
  /\ UNCHANGED <<disk, pf, stale, phase, flusher, flushes, faults, flushed, saved, marked, lost, closed>>

-----------------------------------------------------------------------------
(* database_flush_dirty_bnodes *)

StartFlush(why) ==
  /\ phase = "up" /\ pc = "idle" /\ flushes < MaxFlushes
  /\ why = "vacuum" => "vacuum" \in Allowed
  /\ pc' = "collect" /\ reason' = why /\ passes' = 0 /\ flushes' = flushes + 1
  /\ UNCHANGED <<disk, pf, stale, tree, phase, list, at, w, updates, faults, history>>

\* collect_dirty_bnodes_from_hbnode: a dirty child makes its parent dirty, bottom up;
\* then the dirty nodes, the deepest ones first.
HbDirty ==
  LET d[n \in Nodes] == tree[n].hb_dirty \/ \E c \in Children(n) : d[c] IN d
BnDirty(n) == tree[n].bn_dirty \/ \E c \in Children(n) : HbDirty[c]
\* qsort leaves nodes of one depth in any order.
Deepest(S) == {q \in [1 .. Cardinality(S) -> S] :
                 \A i, j \in DOMAIN q : i < j => q[i] # q[j] /\ Depth[q[i]] >= Depth[q[j]]}

Collect ==
  /\ pc = "collect"
  /\ tree' = [n \in Nodes |-> [tree[n] EXCEPT !.bn_dirty = BnDirty(n), !.hb_dirty = HbDirty[n]]]
  /\ list' \in Deepest({n \in Nodes : HbDirty[n] /\ BnDirty(n)})
  /\ at' = 1 /\ passes' = passes + 1
  /\ pc' = IF list' = <<>> THEN "superblock" ELSE "serialize"
  /\ UNCHANGED <<disk, pf, stale, phase, reason, w, counts, history>>

\* page_file_write_node: a live node for the flush, one of the vacuum's file else.
Target == IF reason = "rewrite" THEN "tmp" ELSE "live"
Pos(t) == pf[t].cur_bid * BlockSize + pf[t].cur_offset

\* bnode_serialize_v3, and the offset that page_file_write_node will report.
Serialize ==
  LET n == list[at] IN
  /\ pc = "serialize"
  /\ w' = [node |-> n, written |-> 0, bids |-> 0, offset |-> Pos(Target),
           content |-> [kind |-> "content", node |-> n, ver |-> tree[n].ver, size |-> tree[n].size,
                        kids |-> tree[n].kids]]
  /\ pc' = "chunk"
  /\ UNCHANGED <<disk, pf, stale, tree, phase, reason, passes, list, at, counts, history>>

\* pwrite of cells cs at offset o; the file grows as needed.
PWrite(data, o, cs) ==
  LET k == o - Base
      n == Greater(Len(data), k + Len(cs))
  IN [i \in 1 .. n |-> IF i > k /\ i <= k + Len(cs) THEN cs[i - k]
                       ELSE IF i <= Len(data) THEN data[i] ELSE Hole]

\* One turn of the loop up to the test for bids: the part that fits this block.
WriteChunk ==
  LET p == pf[Target]
      full == BlockSize - p.cur_offset <= MetaSize
      bid == IF full THEN p.cur_bid + 1 ELSE p.cur_bid
      off == IF full THEN 0 ELSE p.cur_offset
      total == Length(w.content)
      n == Lesser(BlockSize - off - MetaSize, total - w.written)
  IN
  /\ pc = "chunk" /\ bid < MaxBlocks
  /\ disk' = [disk EXCEPT ![Target].data =
                PWrite(@, bid * BlockSize + off, [i \in 1 .. n |-> Cell(w.content, w.written + i)])]
  /\ pf' = [pf EXCEPT ![Target] = [@ EXCEPT !.cur_bid = bid, !.cur_offset = off + n]]
  /\ w' = [w EXCEPT !.written = @ + n, !.bids = @ + 1]
  /\ pc' = IF BlockSize - (off + n) <= MetaSize \/ (w.written + n >= total /\ w.bids > 0)
           THEN "meta" ELSE "written"
  /\ UNCHANGED <<stale, tree, phase, reason, passes, list, at, counts, history>>

\* The IndexBlkMeta that leads to the next block, or ends the node.
WriteMeta ==
  LET p == pf[Target]
      more == w.written < Length(w.content)
  IN
  /\ pc = "meta"
  /\ disk' = [disk EXCEPT ![Target].data =
                PWrite(@, (p.cur_bid + 1) * BlockSize - MetaSize,
                       <<BlkMeta(IF more THEN p.cur_bid + 1 ELSE None)>>)]
  /\ pf' = [pf EXCEPT ![Target] = [@ EXCEPT !.cur_bid = p.cur_bid + 1, !.cur_offset = 0]]
  /\ pc' = IF more THEN "chunk" ELSE "written"
  /\ UNCHANGED <<stale, tree, phase, reason, passes, list, at, w, counts, history>>

\* Between the last data and the IndexBlkMeta of a full block.
AtFullBlock == pc = "meta" /\ BlockSize - pf[Target].cur_offset <= MetaSize

\* Mutant: the parent is marked as dirty but keeps the old offset.
RepointFlagOnly(t, n, o, dirty) ==
  IF n = Root THEN t ELSE [t EXCEPT ![Parent[n]].bn_dirty = @ \/ dirty]

\* The parent of n with the new offset of n.
Repoint(t, n, o, dirty) ==
  IF n = Root THEN t
  ELSE [t EXCEPT ![Parent[n]].kids[n] = o, ![Parent[n]].bn_dirty = @ \/ dirty]

\* Back in database_flush_dirty_bnodes.  The old place is marked as stale with the
\* length of the new data.
FlushWritten ==
  LET n == w.node
      old == tree[n].disk_offset
  IN
  /\ pc = "written" /\ reason # "rewrite"
  /\ stale' = IF old = None THEN stale ELSE StaleAdd(stale, old, w.content.size)
  /\ marked' = IF old = None THEN marked ELSE marked \cup Cells(old, w.content.size)
  /\ tree' = Repoint([tree EXCEPT ![n] = [@ EXCEPT !.disk_offset = w.offset, !.bn_dirty = FALSE]],
                     n, w.offset, TRUE)
  /\ flushed' = [flushed EXCEPT ![n] = w.content.ver]
  /\ at' = at + 1
  /\ pc' = IF at < Len(list) THEN "serialize" ELSE "clear"
  /\ w' = NoWrite
  /\ UNCHANGED <<disk, pf, phase, reason, passes, list, counts, saved, lost, closed, odd>>

\* Mutant: only the last node of the pass is cleared.
ClearDirtyLast ==
  /\ pc = "clear"
  /\ tree' = [tree EXCEPT ![Last(list)].hb_dirty = FALSE]
  /\ pc' = "collect" /\ list' = <<>> /\ at' = 0
  /\ UNCHANGED <<disk, pf, stale, phase, reason, passes, w, counts, history>>

\* Step 4 of the loop.
ClearDirty ==
  /\ pc = "clear"
  /\ tree' = [n \in Nodes |-> IF n \in ToSet(list) THEN [tree[n] EXCEPT !.hb_dirty = FALSE] ELSE tree[n]]
  /\ pc' = "collect" /\ list' = <<>> /\ at' = 0
  /\ UNCHANGED <<disk, pf, stale, phase, reason, passes, w, counts, history>>

RootOffset == IF tree[Root].disk_offset = None THEN 0 ELSE tree[Root].disk_offset

\* page_file_write_superblock.  A list of regions that does not fit into the
\* superblock's block goes to a block of its own at the end of the file.
WithBlob(f) ==
  IF Len(stale) <= InlineRegions THEN f
  ELSE LET o == ((FileSize(f) + BlockSize - 1) \div BlockSize) * BlockSize IN
       [f EXCEPT !.data = PWrite(PWrite(@, o + BlockSize - 1, <<Hole>>), o,
                                 <<[kind |-> "blob", regions |-> stale]>>)]
BlobOffset(f) ==
  IF Len(stale) <= InlineRegions THEN 0
  ELSE ((FileSize(f) + BlockSize - 1) \div BlockSize) * BlockSize

WriteSuperblock ==
  LET f == disk["live"]
      r == pf["live"].revision + 1
  IN
  /\ pc = "superblock"
  /\ pf' = [pf EXCEPT !["live"].revision = r]
  /\ disk' = [disk EXCEPT !["live"] =
       [WithBlob(f) EXCEPT !.sb[r % NumSuperblocks] =
          [kind |-> "sb", root |-> RootOffset, revision |-> r, stale |-> stale,
           blob |-> BlobOffset(f), marked |-> marked, lost |-> lost]]]
  /\ tree' = [tree EXCEPT ![Root].hb_dirty = FALSE]
  /\ pc' = CASE reason = "snapshot" -> "idle" [] reason = "close" -> "close" [] OTHER -> "walk"
  /\ reason' = IF reason = "vacuum" THEN "rewrite" ELSE IF reason = "snapshot" THEN "none" ELSE reason
  /\ saved' = flushed
  /\ UNCHANGED <<stale, phase, passes, list, at, w, counts, flushed, marked, lost, closed, odd>>

\* database_destroy has persisted: the log is dropped and the process ends.
Close ==
  /\ pc = "close"
  /\ phase' = "down" /\ pc' = "idle" /\ reason' = "none"
  /\ closed' = [n \in Nodes |-> tree[n].ver]
  /\ tree' = EmptyTree
  /\ UNCHANGED <<disk, pf, stale, passes, list, at, w, counts, flushed, saved, marked, lost, odd>>

-----------------------------------------------------------------------------
(* database_vacuum_rewrite and page_file_vacuum_file_swap *)

StartWalk ==
  /\ pc = "walk"
  /\ disk' = [disk EXCEPT !["tmp"] = NewFile]
  /\ pf' = [pf EXCEPT !["tmp"] = NewPf]
  /\ list' \in Deepest(Nodes) /\ at' = 1
  /\ pc' = "serialize"
  /\ UNCHANGED <<stale, tree, phase, reason, passes, w, counts, history>>

WalkWritten ==
  /\ pc = "written" /\ reason = "rewrite"
  /\ tree' = Repoint([tree EXCEPT ![w.node] = [@ EXCEPT !.disk_offset = w.offset, !.bn_dirty = FALSE]],
                     w.node, w.offset, FALSE)
  /\ flushed' = [flushed EXCEPT ![w.node] = w.content.ver]
  /\ at' = at + 1
  /\ pc' = IF at < Len(list) THEN "serialize" ELSE "tmp_superblock"
  /\ w' = NoWrite
  /\ UNCHANGED <<disk, pf, stale, phase, reason, passes, list, counts, saved, marked, lost, closed, odd>>

WriteTmpSuperblock ==
  /\ pc = "tmp_superblock"
  /\ disk' = [disk EXCEPT !["tmp"].sb[1 % NumSuperblocks] =
       [NewSb EXCEPT !.root = RootOffset, !.revision = 1]]
  /\ pc' = "swap"
  /\ UNCHANGED <<pf, stale, tree, phase, reason, passes, list, at, w, counts, history>>

\* rename, and the state of the page file for what is now at its path.
EndOf(f) == [cur_bid |-> FileSize(f) \div BlockSize, cur_offset |-> FileSize(f) % BlockSize]

Swap ==
  LET e == EndOf(disk["tmp"]) IN
  /\ pc = "swap"
  /\ disk' = [disk EXCEPT !["live"] = disk["tmp"], !["tmp"] = NewFile]
  /\ pf' = [pf EXCEPT !["live"] = [cur_bid |-> e.cur_bid, cur_offset |-> e.cur_offset,
                                   revision |-> @.revision + 1],
                      !["tmp"] = NewPf]
  /\ stale' = <<>> /\ marked' = {} /\ lost' = FALSE
  /\ pc' = "idle" /\ reason' = "none" /\ list' = <<>> /\ at' = 0
  /\ UNCHANGED <<tree, phase, passes, w, counts, flushed, saved, closed, odd>>

-----------------------------------------------------------------------------
(* Writes that fail, and the end of the process *)

\* What page_file_write_superblock leaves of the file when it does not finish.
NextSlot == (pf["live"].revision + 1) % NumSuperblocks
HalfWritten(f) == {f, WithBlob(f), [WithBlob(f) EXCEPT !.sb[NextSlot] = Torn]}
Interrupted == IF pc = "superblock" THEN HalfWritten(disk["live"]) ELSE {disk["live"]}

\* What is rare about leaving the file as f, as a set of switches.  After a vacuum the
\* next slot may be the one of the only checkpoint in the new file.
Rare(f) ==
  (IF AtFullBlock THEN {"gap"} ELSE {}) \cup
  (IF f.sb[WinningSlot(disk["live"])] = Torn THEN {"lone_slot"} ELSE {})

GiveUp == pc' = "idle" /\ reason' = "none" /\ list' = <<>> /\ at' = 0 /\ w' = NoWrite

Failure == IF reason = "rewrite" THEN "vacuum_failure" ELSE IF at > 1 THEN "late_failure" ELSE "failure"

\* A write fails (the disk is full, the node needs more than the 64 blocks of bids[]):
\* the flush or the vacuum returns an error and leaves flags and offsets as they are;
\* page_file_write_superblock takes its revision back.  database_destroy goes on to
\* the end but keeps the log.
WriteFails ==
  /\ pc \in {"chunk", "meta", "superblock", "tmp_superblock", "swap"} /\ faults < MaxFaults
  /\ \E f \in Interrupted :
       /\ Rare(f) \cup {Failure} \subseteq Allowed
       /\ disk' = [live |-> f, tmp |-> NewFile]
       /\ odd' = odd \cup Rare(f) \cup ({Failure} \ {"failure"})
  /\ pf' = [pf EXCEPT !["tmp"] = NewPf]
  /\ phase' = IF reason = "close" THEN "down" ELSE "up"
  /\ tree' = IF reason = "close" THEN EmptyTree
             ELSE IF pc = "superblock" THEN [tree EXCEPT ![Root].hb_dirty = FALSE] ELSE tree
  /\ GiveUp /\ faults' = faults + 1
  /\ UNCHANGED <<stale, passes, updates, flushes, flushed, saved, marked, lost, closed>>

Crash ==
  /\ phase = "up" /\ faults < MaxFaults
  /\ \E f \in Interrupted :
       /\ Rare(f) \subseteq Allowed
       /\ disk' = [disk EXCEPT !["live"] = f]
       /\ odd' = odd \cup Rare(f)
  /\ phase' = "down" /\ tree' = EmptyTree
  /\ GiveUp /\ faults' = faults + 1
  /\ UNCHANGED <<pf, stale, passes, updates, flushes, flushed, saved, marked, lost, closed>>

-----------------------------------------------------------------------------
(* The next life *)

\* page_file_open, and the load of the trie; the children are loaded when they are
\* needed, all from the same superblock.  The tmp file of a vacuum is removed.  A list
\* of stale regions at the end of the file is gone when nodes have been written over it
\* since: page_file_write_node goes on where the last node ended.
Open ==
  LET f == disk["live"]
      sb == BestSb(f)
      e == EndOf(f)
      node == Loaded(f, sb)
      found == sb.blob = 0 \/ CellAt(f, sb.blob) = [kind |-> "blob", regions |-> sb.stale]
  IN
  /\ phase = "down"
  /\ phase' = "up"
  /\ disk' = [disk EXCEPT !["tmp"] = NewFile]
  /\ pf' = [live |-> [cur_bid |-> e.cur_bid, cur_offset |-> e.cur_offset, revision |-> sb.revision],
            tmp |-> NewPf]
  /\ stale' = IF found THEN sb.stale ELSE <<>>
  /\ marked' = sb.marked /\ lost' = (sb.lost \/ ~found)
  /\ tree' = [n \in Nodes |->
                IF node[n].kind = "bad" THEN EmptyNode(n)
                ELSE [EmptyNode(n) EXCEPT !.ver = node[n].ver, !.size = node[n].size,
                                          !.kids = node[n].kids, !.disk_offset = node[n].offset]]
  /\ flushed' = [n \in Nodes |-> tree'[n].ver]
  /\ closed' = NotClosed
  /\ UNCHANGED <<flusher, counts, saved, odd>>

FlusherStep ==
  \/ Collect \/ Serialize \/ WriteChunk \/ WriteMeta \/ FlushWritten
  \/ ClearDirty \/ WriteSuperblock \/ Close
  \/ StartWalk \/ WalkWritten \/ WriteTmpSuperblock \/ Swap

Next ==
  \/ \E n \in Nodes, z \in Sizes : Update(n, z)
  \/ \E why \in {"snapshot", "close", "vacuum"} : StartFlush(why)
  \/ FlusherStep \/ WriteFails \/ Crash \/ Open

Spec == Init /\ [][Next]_vars

-----------------------------------------------------------------------------
(* Properties *)

TypeOK ==
  /\ \A f \in {"live", "tmp"} :
       /\ \A s \in DOMAIN disk[f].sb : disk[f].sb[s].kind \in {"sb", "torn"}
       /\ pf[f].cur_bid \in NumSuperblocks .. MaxBlocks /\ pf[f].cur_offset \in 0 .. BlockSize
       /\ pf[f].revision \in Nat
  /\ \A n \in Nodes : /\ tree[n].ver \in 0 .. MaxUpdates /\ tree[n].size \in Sizes
                      /\ tree[n].disk_offset = None \/ tree[n].disk_offset >= Base
                      /\ {tree[n].bn_dirty, tree[n].hb_dirty} \subseteq BOOLEAN
  /\ phase \in {"up", "down"}
  /\ w.node \in Nodes

\* A crash at any moment loses nothing of the last checkpoint: behind the superblock
\* that page_file_open would choose, every node can be read and has the version that
\* the last completed flush wrote, while a flush or a vacuum is half-way through, with
\* the newest superblock torn, and after writes that failed.
CheckpointIntact ==
  LET node == Loaded(disk["live"], BestSb(disk["live"]))
  IN \A n \in Nodes : node[n].kind # "bad" /\ node[n].ver = saved[n]

\* After database_destroy has persisted the trie, the file holds all of it.  The
\* flush finds what it must write by the dirty flags of two levels, which writers
\* and the flush itself change.
CloseKeeps ==
  closed # NotClosed =>
    \A n \in Nodes : Loaded(disk["live"], BestSb(disk["live"]))[n].ver = closed[n]

\* The merged list of stale regions covers only cells that were marked as stale, no cell
\* twice, and is still sorted with gaps in between; and it covers all of them, unless
\* page_file_open has not found the list of the file.
StaleExact ==
  /\ Canonical(stale)
  /\ Covered(stale) \subseteq marked
  /\ StaleTotal(stale) = Cardinality(Covered(stale))
  /\ ~lost => Covered(stale) = marked

\* tests/test_page_file.cpp on a file that is opened again: "stale mgr should be restored
\* from superblock", so that "stale ratio should persist across reopen".
StaleRestored == phase = "up" => Covered(stale) = marked

\* database.c on the loop of database_flush_dirty_bnodes: "Convergence is bounded by
\* hbtrie depth".  One turn for each level, and a last one that finds nothing dirty.
Levels == 1 + Cardinality({Depth[n] : n \in Nodes})
ConvergesByDepth == passes <= Levels

=============================================================================
