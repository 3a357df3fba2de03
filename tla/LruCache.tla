------------------------------ MODULE LruCache ------------------------------
(***************************************************************************)
(* One shard of the cache of values in front of the trie (database_lru.c): *)
(* a map from paths to nodes, the nodes in order of use, and the memory    *)
(* they take.  The locked operations run under the shard's lock; those     *)
(* with suffix _unsafe are the same without it, for a database opened with *)
(* sync_only.  A path is a model value, a value its size.                  *)
(***************************************************************************)
EXTENDS Naturals, Sequences, FiniteSets, SequencesExt, PrefixSums

CONSTANTS LruKeys,     \* the paths of this shard
          LruSizes,    \* the sizes values can have
          LruBudget    \* the shard's max_memory

\* Sizes and budgets are size_t.
ASSUME ValuesAssumption == LruSizes \subseteq Nat /\ LruBudget \in Nat

VARIABLES
    lruNodes,  \* the nodes, most recently used first: [key, size]
    lruMem,    \* current_memory
    lruCount,  \* entry_count
    lruUsed,   \* the keys in the order of their last use (history)
    lruSync    \* the database is sync_only
lruVars == <<lruNodes, lruMem, lruCount, lruUsed, lruSync>>

LruInit == /\ lruNodes = <<>> /\ lruMem = 0 /\ lruCount = 0 /\ lruUsed = <<>>
           /\ lruSync \in BOOLEAN

\* calculate_entry_memory: the node and its path are one unit.
EntryMemory(v) == 1 + v

LruKeysOf(nodes) == {nodes[i].key : i \in DOMAIN nodes}
\* The node that the map has for k, by its place in the list.
NodeAt(nodes, k) == CHOOSE i \in DOMAIN nodes : nodes[i].key = k
NodeOf(nodes, k) == nodes[NodeAt(nodes, k)]
\* lru_remove unlinks it.
Others(nodes, k) == RemoveAt(nodes, NodeAt(nodes, k))
\* The memory of every node.
Sizes(nodes) == [i \in 1 .. Len(nodes) |-> EntryMemory(nodes[i].size)]
\* The history: k is the key used last.
Touched(k) == lruUsed' = <<k>> \o RemoveFirst(lruUsed, k)

\* lru_move_to_front
MoveToFront(nodes, k) == <<NodeOf(nodes, k)>> \o Others(nodes, k)

\* lru_evict as long as the new entry does not fit: what remains.
EvictFor(nodes, mem, need) ==
    LET kept == PrefixSums(Sizes(nodes))
        fits == {n \in 0 .. Len(nodes) :
                   mem - (kept[Len(nodes)] - kept[n]) + need <= LruBudget}
    IN  SubSeq(nodes, 1, IF fits = {} THEN 0 ELSE Max(fits))

Get(k) ==
    /\ k \in LruKeysOf(lruNodes)
    /\ lruNodes' = MoveToFront(lruNodes, k)
    /\ Touched(k)
    /\ UNCHANGED <<lruMem, lruCount, lruSync>>

\* An update in place adds the difference of the sizes and evicts nothing.
PutExisting(k, v) ==
    LET old == NodeOf(lruNodes, k) IN
    /\ lruNodes' = [MoveToFront(lruNodes, k) EXCEPT ![1] = [key |-> k, size |-> v]]
    /\ lruMem' = lruMem + EntryMemory(v) - EntryMemory(old.size)
    /\ UNCHANGED lruCount

\* Mutant: the memory of the evicted entries is not given back.
MutPutNew(k, v) ==
    LET kept == EvictFor(lruNodes, lruMem, EntryMemory(v)) IN
    /\ lruNodes' = <<[key |-> k, size |-> v]>> \o kept
    /\ lruMem' = lruMem + EntryMemory(v)
    /\ lruCount' = Len(kept) + 1

\* A new entry evicts from the end until it fits or the shard is empty.
PutNew(k, v) ==
    LET kept == EvictFor(lruNodes, lruMem, EntryMemory(v))
        gone == SubSeq(lruNodes, Len(kept) + 1, Len(lruNodes))
    IN  /\ lruNodes' = <<[key |-> k, size |-> v]>> \o kept
        /\ lruMem' = lruMem - Total(Sizes(gone)) + EntryMemory(v)
        /\ lruCount' = lruCount - Len(gone) + 1

Put(k, v) == /\ IF k \in LruKeysOf(lruNodes) THEN PutExisting(k, v) ELSE PutNew(k, v)
             /\ Touched(k) /\ UNCHANGED lruSync

Delete(k) ==
    /\ k \in LruKeysOf(lruNodes)
    /\ lruNodes' = Others(lruNodes, k)
    /\ lruMem' = lruMem - EntryMemory(NodeOf(lruNodes, k).size)
    /\ lruCount' = lruCount - 1
    /\ lruUsed' = RemoveFirst(lruUsed, k)
    /\ UNCHANGED lruSync

database_lru_cache_get(k)           == ~lruSync /\ Get(k)
database_lru_cache_get_unsafe(k)    == lruSync /\ Get(k)
database_lru_cache_put(k, v)        == ~lruSync /\ Put(k, v)
database_lru_cache_put_unsafe(k, v) == lruSync /\ Put(k, v)
database_lru_cache_delete(k)        == ~lruSync /\ Delete(k)
database_lru_cache_delete_unsafe(k) == lruSync /\ Delete(k)

database_lru_cache_clear ==
    /\ lruNodes # <<>>
    /\ lruNodes' = <<>> /\ lruMem' = 0 /\ lruCount' = 0 /\ lruUsed' = <<>>
    /\ UNCHANGED lruSync

LruNext ==
    \/ \E k \in LruKeys :
        \/ database_lru_cache_get(k) \/ database_lru_cache_get_unsafe(k)
        \/ database_lru_cache_delete(k) \/ database_lru_cache_delete_unsafe(k)
        \/ \E v \in LruSizes : \/ database_lru_cache_put(k, v)
                               \/ database_lru_cache_put_unsafe(k, v)
    \/ database_lru_cache_clear

-----------------------------------------------------------------------------
\* The cached keys are the most recently used ones, in that order: whatever
\* was evicted was used before everything that is still there.
LruRecency == /\ Len(lruNodes) <= Len(lruUsed)
              /\ \A i \in DOMAIN lruNodes : lruNodes[i].key = lruUsed[i]

\* The memory counter is the memory of the nodes and the count their number,
\* after every sequence of insertions, updates, evictions and deletions.
LruAccounts == /\ lruMem = Total(Sizes(lruNodes))
               /\ lruCount = Len(lruNodes)

\* An insertion leaves the shard within its budget or with the new node alone,
\* also when updates in place (database_lru_cache_put, 315) took it beyond.
LruBudgetKept ==
    [][(LruKeysOf(lruNodes') \ LruKeysOf(lruNodes) # {})
         => lruMem' <= LruBudget \/ Len(lruNodes') = 1]_lruVars

\* The value cache keeps the most recently used values and counts them exactly.
ValuesSound == LruRecency /\ LruAccounts
=============================================================================
