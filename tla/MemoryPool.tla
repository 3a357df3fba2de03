----------------------------- MODULE MemoryPool -----------------------------
(***************************************************************************)
(* One size class of the block allocator (memory_pool.c): a free list      *)
(* under a lock, a cache of blocks per thread without one, and a flag per  *)
(* block against double frees.  A free block is linked through its first   *)
(* word, which belongs to the owner while the block is in use: class_free  *)
(* takes a block whose first word equals the head of the list for one that *)
(* is already there, and drops it.                                         *)
(***************************************************************************)
EXTENDS Naturals, Sequences, FiniteSets, SequencesExt

CONSTANTS MpBlocks,    \* the blocks of the class, a sequence without repetition
          MpThreads,
          TlsSize      \* TLS_CACHE_SIZE

VARIABLES
    mpList,    \* free_list, the head first
    mpCount,   \* free_blocks
    mpTls,     \* thread -> its cached blocks, the last one on top
    mpFreed,   \* freed_flags: the blocks whose flag is set
    mpWord,    \* the first word of a block: a block, or NoBlock
    mpOwner,   \* block -> the thread that has allocated it, or NoOwner
    mpDropped  \* blocks dropped as double frees by class_free (history)
mpVars == <<mpList, mpCount, mpTls, mpFreed, mpWord, mpOwner, mpDropped>>

NoBlock == "none"
NoOwner == "free"
Blocks  == Range(MpBlocks)

\* The blocks are cut out of one allocation, each at its own address.
ASSUME BlockAssumption ==
    /\ MpBlocks \in Seq(Blocks) /\ IsInjective(MpBlocks)
    /\ NoOwner \notin MpThreads /\ TlsSize \in Nat

HeadOf(list) == IF list = <<>> THEN NoBlock ELSE Head(list)

\* memory_pool_class_init: every block on the list, no flag set.
MpInit ==
    /\ mpList = MpBlocks /\ mpCount = Len(MpBlocks)
    /\ mpTls = [t \in MpThreads |-> <<>>]
    /\ mpFreed = {}
    /\ mpWord = [b \in Blocks |->
         LET i == CHOOSE i \in DOMAIN MpBlocks : MpBlocks[i] = b
         IN  IF i = Len(MpBlocks) THEN NoBlock ELSE MpBlocks[i + 1]]
    /\ mpOwner = [b \in Blocks |-> NoOwner]
    /\ mpDropped = {}

\* memory_pool_alloc: the thread's cache first; no lock, the flag is cleared.
AllocCached(t) ==
    /\ mpTls[t] # <<>>
    /\ LET b == Last(mpTls[t]) IN
        /\ mpTls' = [mpTls EXCEPT ![t] = Front(@)]
        /\ mpFreed' = mpFreed \ {b}
        /\ mpOwner' = [mpOwner EXCEPT ![b] = t]
    /\ UNCHANGED <<mpList, mpCount, mpWord, mpDropped>>

\* memory_pool_class_alloc: the head of the list; an empty list falls back to
\* malloc, which leaves the class alone.
AllocShared(t) ==
    /\ mpTls[t] = <<>> /\ mpList # <<>>
    /\ LET b == Head(mpList) IN
        /\ mpList' = Tail(mpList) /\ mpCount' = mpCount - 1
        /\ mpFreed' = mpFreed \ {b}
        /\ mpWord' = [mpWord EXCEPT ![b] = NoBlock]
        /\ mpOwner' = [mpOwner EXCEPT ![b] = t]
    /\ UNCHANGED <<mpTls, mpDropped>>

\* The owner writes its first word; it may be the address of another block
\* (the path of a cache node, say).
Store(t, b, c) ==
    /\ mpOwner[b] = t /\ b # c /\ mpWord[b] # c
    /\ mpWord' = [mpWord EXCEPT ![b] = c]
    /\ UNCHANGED <<mpList, mpCount, mpTls, mpFreed, mpOwner, mpDropped>>

\* What memory_pool_class_free makes of the list: pushed or dropped.
ClassFree(st, b) ==
    IF st.word[b] = HeadOf(st.list) /\ st.list # <<>>
      THEN [st EXCEPT !.dropped = @ \cup {b}]
      ELSE [list |-> <<b>> \o st.list, count |-> st.count + 1,
            word |-> [st.word EXCEPT ![b] = HeadOf(st.list)], dropped |-> st.dropped]

ClassNow == [list |-> mpList, count |-> mpCount, word |-> mpWord, dropped |-> mpDropped]
ClassBecomes(st) == /\ mpList' = st.list /\ mpCount' = st.count
                    /\ mpWord' = st.word /\ mpDropped' = st.dropped

\* Mutant: the flag is set and never looked at.
MutFreeAgain(t, b) ==
    /\ b \in mpFreed /\ Len(mpTls[t]) < TlsSize
    /\ mpTls' = [mpTls EXCEPT ![t] = Append(@, b)]
    /\ UNCHANGED <<mpList, mpCount, mpFreed, mpWord, mpOwner, mpDropped>>

\* memory_pool_free of a block whose flag is set: skipped.
FreeAgain(t, b) ==
    /\ b \in mpFreed
    /\ UNCHANGED mpVars

\* memory_pool_free: into the thread's cache, or onto the list when it is full.
FreeBlock(t, b) ==
    /\ mpOwner[b] = t /\ b \notin mpFreed
    /\ mpFreed' = mpFreed \cup {b}
    /\ mpOwner' = [mpOwner EXCEPT ![b] = NoOwner]
    /\ IF Len(mpTls[t]) < TlsSize
         THEN /\ mpTls' = [mpTls EXCEPT ![t] = Append(@, b)]
              /\ UNCHANGED <<mpList, mpCount, mpWord, mpDropped>>
         ELSE ClassBecomes(ClassFree(ClassNow, b)) /\ UNCHANGED mpTls

\* memory_pool_tls_drain, one block at a time from the top.
TlsDrain(t) ==
    /\ mpTls[t] # <<>>
    /\ ClassBecomes(ClassFree(ClassNow, Last(mpTls[t])))
    /\ mpTls' = [mpTls EXCEPT ![t] = Front(@)]
    /\ UNCHANGED <<mpFreed, mpOwner>>

MpNext ==
    \E t \in MpThreads :
        \/ AllocCached(t) \/ AllocShared(t) \/ TlsDrain(t)
        \/ \E b \in Blocks : \/ FreeBlock(t, b) \/ FreeAgain(t, b)
                             \/ \E c \in Blocks : Store(t, b, c)

-----------------------------------------------------------------------------
Places(b) ==
    Cardinality({i \in DOMAIN mpList : mpList[i] = b})
    + Cardinality({p \in MpThreads \X (1 .. TlsSize) :
                     p[2] \in DOMAIN mpTls[p[1]] /\ mpTls[p[1]][p[2]] = b})
    + (IF mpOwner[b] = NoOwner THEN 0 ELSE 1)

\* A block is never in two places: not twice on the list, not cached by two
\* threads, not handed out while it is free.
OnePlace == \A b \in Blocks : Places(b) <= 1

\* A block is in no place only when class_free took it for a double free, and
\* the counter is the length of the list.
LeakedByGuess == /\ \A b \in Blocks : Places(b) = 0 => b \in mpDropped
                 /\ mpCount = Len(mpList)

\* No block is handed out twice, and none is lost unless class_free's test for
\* a double free was wrong about it.
BlocksSound == OnePlace /\ LeakedByGuess
=============================================================================
