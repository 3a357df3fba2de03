----------------------------- MODULE BnodeCache -----------------------------
(***************************************************************************)
(* The page cache of one file (bnode_cache.c): per shard a hash table, a   *)
(* list in order of use, a count of items and of dirty items and a list of *)
(* evicted pages whose memory is freed later; one memory budget for all    *)
(* shards.  Every operation runs under the lock of the shard it works on   *)
(* and is one step.  flush_dirty takes several locks one after the other;  *)
(* it has no caller besides the tests and is one step too.                 *)
(*                                                                         *)
(* A page is named by its offset: the table holds at most one item for an  *)
(* offset, and a page that waits in the deferred list has no holder.       *)
(* item_count is decremented twice where an item leaves the table          *)
(* (shard_remove does it too); it is kept modulo CountMod, as size_t is    *)
(* modulo 2^64.                                                            *)
(***************************************************************************)
EXTENDS Naturals, Integers, Sequences, FiniteSets, SequencesExt, PrefixSums

CONSTANTS
    BcOffsets,     \* the offsets pages can have, a set of naturals
    BcThreads,     \* threads that hold at most one page each
    BcShardCounts, \* the numbers of shards to consider
    BcBudget,      \* max_memory
    BcBuckets,     \* BNODE_CACHE_INITIAL_BUCKET_COUNT
    BcMaxBuckets,  \* bound: the table is not doubled beyond this
    BcMaxDeferred, \* bound: no eviction with so many pages deferred
    CountMod       \* the modulus of item_count

\* Pages and their holders are finitely many, and a file has a shard
\* (bnode_cache_mgr_create takes 4 where it is asked for none).
ASSUME PagesAssumption ==
    /\ BcOffsets \subseteq Nat /\ IsFiniteSet(BcOffsets) /\ IsFiniteSet(BcThreads)
    /\ BcShardCounts \subseteq Nat \ {0}

VARIABLES
    bcLive,     \* offset -> the cached item, or NoItem
    bcLru,      \* shard -> offsets, most recently used first
    bcCount,    \* shard -> item_count
    bcSize,     \* shard -> bucket_count
    bcDirty,    \* shard -> dirty_count
    bcDeferred, \* shard -> offsets evicted and not yet freed
    bcMem,      \* current_memory
    bcHeld,     \* thread -> the offset of the item it holds, or -1
    bcShards    \* num_shards
bcVars == <<bcLive, bcLru, bcCount, bcSize, bcDirty, bcDeferred, bcMem, bcHeld, bcShards>>

NoItem == [len |-> 0, dirty |-> FALSE, ref |-> 0, inval |-> FALSE]
BcShard(o) == o % bcShards
\* The size of the page at an offset, with its four bytes of length.
PageLen(o) == 1 + (o % 2)

BcInit(n) ==
    /\ bcShards = n
    /\ bcLive = [o \in BcOffsets |-> NoItem]
    /\ bcLru = [s \in 0 .. n - 1 |-> <<>>]
    /\ bcCount = [s \in 0 .. n - 1 |-> 0]
    /\ bcSize = [s \in 0 .. n - 1 |-> BcBuckets]
    /\ bcDirty = [s \in 0 .. n - 1 |-> 0]
    /\ bcDeferred = [s \in 0 .. n - 1 |-> <<>>]
    /\ bcMem = 0
    /\ bcHeld = [t \in BcThreads |-> -1]

-----------------------------------------------------------------------------
(***************************************************************************)
(* The cache as a value, and the helpers of the source on it.              *)
(***************************************************************************)
Cache == [live |-> bcLive, lru |-> bcLru, count |-> bcCount, size |-> bcSize,
          dirty |-> bcDirty, deferred |-> bcDeferred, mem |-> bcMem]

Becomes(c) == /\ bcLive' = c.live /\ bcLru' = c.lru /\ bcCount' = c.count
              /\ bcSize' = c.size /\ bcDirty' = c.dirty
              /\ bcDeferred' = c.deferred
              \* The counter is shared by the shards and has no lock of its
              \* own: with several shards its value is unknown.
              /\ bcMem' = IF bcShards = 1 THEN c.mem ELSE 0
              /\ UNCHANGED bcShards

shard_find(c, o) == c.live[o] # NoItem

shard_resize(c, s) ==
    IF c.count[s] * 4 >= c.size[s] * 3 /\ c.size[s] < BcMaxBuckets
      THEN [c EXCEPT !.size[s] = @ * 2] ELSE c

shard_insert(c, o, item) ==
    LET s == BcShard(o)
    IN  [shard_resize(c, s) EXCEPT !.live[o] = item, !.count[s] = (@ + 1) % CountMod]

shard_remove(c, o) ==
    [c EXCEPT !.live[o] = NoItem, !.count[BcShard(o)] = (@ - 1) % CountMod]

lru_remove(c, o) == [c EXCEPT !.lru[BcShard(o)] = RemoveFirst(@, o)]
lru_push_front(c, o) == [c EXCEPT !.lru[BcShard(o)] = <<o>> \o @]
lru_move_to_front(c, o) == lru_push_front(lru_remove(c, o), o)

\* The decrement that follows shard_remove everywhere.
Uncount(c, s) == [c EXCEPT !.count[s] = (@ - 1) % CountMod]

\* The budget is exceeded; what several shards make of the counter is
\* anyone's guess.
Over(c) == bcShards > 1 \/ c.mem > BcBudget

\* The least recently used page can go.
Victim(c, s) == /\ Over(c) /\ c.lru[s] # <<>>
                /\ LET v == c.live[Last(c.lru[s])] IN v.ref = 0 /\ ~v.dirty

EvictOne(c, s) ==
    LET o == Last(c.lru[s]) IN
    [Uncount(shard_remove(lru_remove(c, o), o), s)
       EXCEPT !.mem = @ - c.live[o].len, !.deferred[s] = <<o>> \o @]

\* What evict_if_needed can leave of c: it evicts while the budget is
\* exceeded (with several shards, some number of times).
evict_if_needed(c, s) ==
    LET N == Cardinality(BcOffsets)
        loop[n \in 0 .. N] ==
          IF n = 0 THEN c
          ELSE LET d == loop[n - 1] IN IF Victim(d, s) THEN EvictOne(d, s) ELSE d
    IN  IF bcShards = 1 THEN {loop[N]} ELSE {loop[n] : n \in 0 .. N}

-----------------------------------------------------------------------------
(***************************************************************************)
(* Operations.                                                             *)
(***************************************************************************)
NoPage(t) == bcHeld[t] = -1
Room(s) == Len(bcDeferred[s]) < BcMaxDeferred

\* bnode_cache_read: a hit pins the item; a miss reads the page, inserts it
\* pinned and evicts.
BcRead(t, o) ==
    /\ NoPage(t) /\ Room(BcShard(o))
    /\ IF shard_find(Cache, o)
         THEN Becomes(lru_move_to_front([Cache EXCEPT !.live[o].ref = @ + 1], o))
         ELSE LET read == [NoItem EXCEPT !.len = PageLen(o), !.ref = 1]
                  c == [lru_push_front(shard_insert(Cache, o, read), o)
                          EXCEPT !.mem = @ + read.len]
              IN  \E d \in evict_if_needed(c, BcShard(o)) : Becomes(d)
    /\ bcHeld' = [bcHeld EXCEPT ![t] = o]

\* bnode_cache_peek: the same without the read.
BcPeek(t, o) ==
    /\ NoPage(t) /\ shard_find(Cache, o)
    /\ Becomes(lru_move_to_front([Cache EXCEPT !.live[o].ref = @ + 1], o))
    /\ bcHeld' = [bcHeld EXCEPT ![t] = o]

\* bnode_cache_write: the page at o gets new contents of length n.
BcWrite(o, n) ==
    /\ LET s == BcShard(o)
           old == bcLive[o]
           put == IF shard_find(Cache, o)
                    THEN lru_move_to_front(
                           [Cache EXCEPT !.live[o].len = n, !.live[o].dirty = TRUE,
                                         !.dirty[s] = IF old.dirty THEN @ ELSE (@ + 1) % CountMod,
                                         !.mem = @ - old.len + n], o)
                    ELSE [lru_push_front(shard_insert(Cache, o,
                            [NoItem EXCEPT !.len = n, !.dirty = TRUE]), o)
                          EXCEPT !.dirty[s] = (@ + 1) % CountMod, !.mem = @ + n]
       IN  Room(s) /\ \E d \in evict_if_needed(put, s) : Becomes(d)
    /\ UNCHANGED bcHeld

\* The item leaves the cache and its memory is freed.
Drop(c, o) ==
    LET s == BcShard(o) IN
    [Uncount(lru_remove(shard_remove(c, o), o), s)
       EXCEPT !.mem = @ - c.live[o].len,
              !.dirty[s] = IF c.live[o].dirty THEN (@ - 1) % CountMod ELSE @]

\* bnode_cache_release: the last holder of an invalidated item frees it.
BcRelease(t) ==
    /\ ~NoPage(t)
    /\ LET o == bcHeld[t]
           c == [Cache EXCEPT !.live[o].ref = @ - 1]
       IN  Becomes(IF c.live[o].ref = 0 /\ c.live[o].inval THEN Drop(c, o)
                   ELSE IF c.live[o].ref = 0 THEN lru_move_to_front(c, o) ELSE c)
    /\ bcHeld' = [bcHeld EXCEPT ![t] = -1]

\* Mutant: an item in use is dropped as well.
MutBcInvalidate(o) ==
    /\ shard_find(Cache, o)
    /\ Becomes(Drop(Cache, o))
    /\ UNCHANGED bcHeld

\* bnode_cache_invalidate: an item in use is only marked (and taken out of
\* the dirty items, though not out of their count).
BcInvalidate(o) ==
    /\ shard_find(Cache, o)
    /\ Becomes(IF bcLive[o].ref > 0
                 THEN [Cache EXCEPT !.live[o].inval = TRUE, !.live[o].dirty = FALSE]
                 ELSE Drop(Cache, o))
    /\ UNCHANGED bcHeld

\* One dirty item is written to a new offset and follows it into its shard;
\* in another shard the items are counted once more on either side.
FlushOne(c, o, n) ==
    LET s == BcShard(o)
        item == [c.live[o] EXCEPT !.dirty = FALSE]
        out == [shard_remove(c, o) EXCEPT !.dirty[s] = (@ - 1) % CountMod]
    IN  IF s = BcShard(n)
          THEN [shard_insert(out, n, item)
                  EXCEPT !.lru[s] = [i \in DOMAIN @ |-> IF @[i] = o THEN n ELSE @[i]]]
          ELSE LET in == lru_push_front(shard_insert(Uncount(lru_remove(out, o), s), n, item), n)
               IN  [in EXCEPT !.count[BcShard(n)] = (@ + 1) % CountMod]

\* bnode_cache_flush_dirty, here for the case of one dirty page: the holders
\* of the item see its new offset.
BcFlushDirty(o, n) ==
    /\ {p \in BcOffsets : bcLive[p].dirty /\ ~bcLive[p].inval} = {o}
    /\ bcLive[n] = NoItem /\ n \notin Range(bcDeferred[BcShard(n)])
    /\ Becomes(FlushOne(Cache, o, n))
    /\ bcHeld' = [t \in BcThreads |-> IF bcHeld[t] = o THEN n ELSE bcHeld[t]]

\* bnode_cache_complete_evict: the first deferred page with this offset.
BcCompleteEvict(o) ==
    /\ o \in Range(bcDeferred[BcShard(o)])
    /\ Becomes([Cache EXCEPT !.deferred[BcShard(o)] = RemoveFirst(@, o)])
    /\ UNCHANGED bcHeld

BcNext ==
    \/ \E t \in BcThreads, o \in BcOffsets : BcRead(t, o) \/ BcPeek(t, o)
    \/ \E t \in BcThreads : BcRelease(t)
    \/ \E o \in BcOffsets : BcInvalidate(o) \/ BcCompleteEvict(o)
                            \/ \E n \in {1, 2} : BcWrite(o, n)
    \/ \E o, n \in BcOffsets : BcFlushDirty(o, n)

-----------------------------------------------------------------------------
\* An item that a thread holds is in the table with as many references as
\* it has holders, and so is never evicted or freed under them
\* (evict_if_needed, invalidate and release).
HeldIntact ==
    \A o \in BcOffsets :
        bcLive[o].ref = Cardinality({t \in BcThreads : bcHeld[t] = o})

\* The list in order of use and the table hold the same items, each once, in
\* the shard of their offset, after every sequence of operations.
ListedOnce ==
    \A s \in 0 .. bcShards - 1 :
        /\ \A i, j \in DOMAIN bcLru[s] : bcLru[s][i] = bcLru[s][j] => i = j
        /\ Range(bcLru[s]) = {o \in BcOffsets : bcLive[o] # NoItem /\ BcShard(o) = s}

\* With one shard the memory counter stays the memory of the cached pages
\* through hits, updates, evictions, invalidations that wait for the last
\* holder, and flushes that move a page.
MemoryExact ==
    bcShards = 1 =>
        bcMem = Total([i \in 1 .. Len(bcLru[0]) |-> bcLive[bcLru[0][i]].len])

\* The page cache as its users rely on it: what a thread holds stays, every page
\* is listed once, and the memory counted is the memory used.
PagesSound == HeldIntact /\ ListedOnce /\ MemoryExact
=============================================================================
