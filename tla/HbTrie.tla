------------------------------- MODULE HbTrie -------------------------------
(***************************************************************************)
(* The nodes of the trie under concurrent use (src/src/HBTrie/hbtrie.c):   *)
(* hbtrie_insert and hbtrie_delete with their lock crabbing and seqlocks,  *)
(* hbtrie_find without locks, children that are on disk only and are       *)
(* loaded on the way (with the lock released, by writers; without a lock,  *)
(* by readers), hbtrie_gc, and the eviction of loaded children.            *)
(*                                                                         *)
(* The B+tree of a node is a function from chunks to entries; module BTree *)
(* has its pages.  The boundaries between the identifiers of a path make   *)
(* no difference to the walk, so a key is a sequence of chunks.  Version   *)
(* chains are reduced to their newest version; module MvccStore has them.  *)
(*                                                                         *)
(* A pointer to an entry points into the vector of a page.  An insertion   *)
(* through an existing entry reads the entry once more after it has        *)
(* unlocked the node, and a lookup reads flags and value after its last    *)
(* comparison of the seqlock.  When another thread has changed the node in *)
(* between, the memory behind the pointer may be another entry's or freed, *)
(* and the union may have changed its meaning: torn says that this has     *)
(* happened, and a behaviour ends there.                                   *)
(***************************************************************************)
EXTENDS Integers, Sequences, FiniteSets

CONSTANTS
  Chunks, Keys, Values,
  NoValue,     \* no value: never stored, or deleted
  Threads,     \* numbers
  Free,
  MaxNode,     \* bound: nodes ever allocated
  Scenarios    \* what may happen: [call, heap, disk, serial], see Init

\* A key has chunks, and nobody who holds a lock is nobody.
ASSUME TrieAssumption ==
  /\ Keys \subseteq Seq(Chunks) \ {<< >>}
  /\ Threads \subseteq Int /\ Free \notin Threads
  /\ MaxNode \in Nat \ {0}

Nodes == 1 .. MaxNode
Root == 1
Null == 0

\* bnode_entry_t: has_value, has_versions, the union as child or value,
\* trie_child, child_disk_offset.
NoEntry == [hv |-> FALSE, mv |-> FALSE, child |-> Null, val |-> NoValue,
            trie_child |-> Null, off |-> 0]
Empty == [c \in Chunks |-> NoEntry]

\* An entry of the B+tree: one that has been inserted and not removed.
Present(e) == e # NoEntry

VARIABLES
  scn,      \* the scenario
  ent,      \* node -> chunk -> entry
  seq,      \* node -> seqlock counter
  lock,     \* node -> holder of write_lock
  used,     \* nodes 1 .. used have been allocated
  freed,    \* nodes given back
  pc, cur, pos,   \* thread -> step, node, index into the key
  nxt,      \* thread -> the node it goes to next, or has loaded
  seen,     \* thread -> the seqlock value it started from
  got,      \* thread -> what a reader returns
  stack,    \* thread -> nodes a collector or an eviction has still to visit
  held,     \* thread -> the entries of its node when it took a pointer to one
  may,      \* thread -> the values its key has had during its call
  broken,   \* a value was taken for a node, a null pointer followed, or a
            \* node used after it was freed
  torn      \* an entry was used through a pointer after it had changed

heap == <<ent, seq, lock, used, freed>>
locals == <<pc, cur, pos, nxt, seen, got, stack, held>>
vars == <<scn, heap, locals, may, broken, torn>>

Job(t) == scn.call[t]
Key(t) == Job(t).key
Chunk(t) == Key(t)[pos[t]]
Entry(t) == ent[cur[t]][Chunk(t)]
AtEnd(t) == pos[t] = Len(Key(t))
Writer(t) == Job(t).op \in {"insert", "delete"}
Disk(off) == scn.disk[off]

\* Where the walk continues below an entry.
Below(e) == IF e.hv THEN e.trie_child ELSE e.child
WithBelow(e, n) == IF e.hv THEN [e EXCEPT !.trie_child = n] ELSE [e EXCEPT !.child = n]

SetEntry(t, e) == ent' = [ent EXCEPT ![cur[t]][Chunk(t)] = e]
Goto(t, p) == pc' = [pc EXCEPT ![t] = p]

\* The entries of a node.  Those of a node that gets or loses one may move, so
\* that a pointer taken before may point to another entry or to freed memory.
Shape(n) == {c \in Chunks : Present(ent[n][c])}
Moved(t) == Shape(cur[t]) # held[t]

\* In a serial scenario a call begins when the call before it has returned.
MayStart(t) ==
  /\ pc[t] = "idle"
  /\ scn.serial => \A u \in Threads : u < t => pc[u] = "done"

(***************************************************************************)
(* Writers: hbtrie_insert and hbtrie_delete.                               *)
(***************************************************************************)
\* The lock of the root, and its seqlock odd.
StartWrite(t) ==
  /\ MayStart(t) /\ Writer(t) /\ lock[Root] = Free
  /\ lock' = [lock EXCEPT ![Root] = t]
  /\ seq' = [seq EXCEPT ![Root] = @ + 1]
  /\ cur' = [cur EXCEPT ![t] = Root] /\ pos' = [pos EXCEPT ![t] = 1]
  /\ Goto(t, "at")
  /\ UNCHANGED <<scn, ent, used, freed, nxt, seen, got, stack, held, broken>>

\* seq even, unlock, return.
Release(t) ==
  /\ pc[t] = "release"
  /\ seq' = [seq EXCEPT ![cur[t]] = @ + 1]
  /\ lock' = [lock EXCEPT ![cur[t]] = Free]
  /\ Goto(t, "done")
  /\ UNCHANGED <<scn, ent, used, freed, cur, pos, nxt, seen, got, stack, held, broken>>

\* Final position, no entry: a new one in legacy mode.
NewValue(t) ==
  /\ pc[t] = "at" /\ AtEnd(t) /\ Job(t).op = "insert" /\ ~Present(Entry(t))
  /\ SetEntry(t, [NoEntry EXCEPT !.hv = TRUE, !.val = Job(t).val])
  /\ Goto(t, "release")
  /\ UNCHANGED <<scn, seq, lock, used, freed, cur, pos, nxt, seen, got, stack, held, broken>>

\* Mutant: the union is overwritten with the child still in it.
MutSaveChild(t) ==
  LET e == Entry(t)
  IN /\ pc[t] = "at" /\ AtEnd(t) /\ Job(t).op = "insert" /\ Present(e) /\ ~e.hv
     /\ SetEntry(t, [e EXCEPT !.child = Null])
     /\ Goto(t, "first")
     /\ UNCHANGED <<scn, seq, lock, used, freed, cur, pos, nxt, seen, got, stack, held, broken>>

\* Final position, an entry that only leads on: its child moves to trie_child
\* before the union takes the value.
SaveChild(t) ==
  LET e == Entry(t)
  IN /\ pc[t] = "at" /\ AtEnd(t) /\ Job(t).op = "insert" /\ Present(e) /\ ~e.hv
     /\ SetEntry(t, IF e.child = Null THEN e
                    ELSE [e EXCEPT !.trie_child = e.child, !.child = Null])
     /\ Goto(t, "first")
     /\ UNCHANGED <<scn, seq, lock, used, freed, cur, pos, nxt, seen, got, stack, held, broken>>

FirstValue(t) ==
  /\ pc[t] = "first"
  /\ SetEntry(t, [Entry(t) EXCEPT !.hv = TRUE, !.mv = FALSE, !.child = Null,
                                  !.val = Job(t).val])
  /\ Goto(t, "release")
  /\ UNCHANGED <<scn, seq, lock, used, freed, cur, pos, nxt, seen, got, stack, held, broken>>

\* Final position, an entry with a value: a version in front of it.
AddVersion(t) ==
  /\ pc[t] = "at" /\ AtEnd(t) /\ Job(t).op = "insert" /\ Entry(t).hv
  /\ SetEntry(t, [Entry(t) EXCEPT !.mv = TRUE, !.val = Job(t).val])
  /\ Goto(t, "release")
  /\ UNCHANGED <<scn, seq, lock, used, freed, cur, pos, nxt, seen, got, stack, held, broken>>

\* A deletion at its final position adds a tombstone where there is a value.
AddTombstone(t) ==
  /\ pc[t] = "at" /\ AtEnd(t) /\ Job(t).op = "delete"
  /\ IF Entry(t).hv THEN SetEntry(t, [Entry(t) EXCEPT !.mv = TRUE, !.val = NoValue])
     ELSE UNCHANGED ent
  /\ Goto(t, "release")
  /\ UNCHANGED <<scn, seq, lock, used, freed, cur, pos, nxt, seen, got, stack, held, broken>>

\* A deletion, and an insertion that has made the entry, keep the child in a
\* variable of their own.
Onward(t, e) == IF Job(t).op = "insert" /\ Present(e) THEN "crab" ELSE "enter"

\* Further down there is nothing: an insertion makes a child, in a new entry or
\* below the entry that is there.
MakeChild(t, e) ==
  /\ used' = used + 1
  /\ ent' = [ent EXCEPT ![used + 1] = Empty,
                        ![cur[t]][Chunk(t)] = WithBelow(e, used + 1)]
  /\ nxt' = [nxt EXCEPT ![t] = used + 1]

NewChild(t) ==
  LET e == Entry(t)
  IN /\ pc[t] = "at" /\ ~AtEnd(t) /\ Job(t).op = "insert"
     /\ Below(e) = Null /\ e.off = 0 /\ used < MaxNode
     /\ MakeChild(t, e)
     /\ Goto(t, Onward(t, e))
     /\ UNCHANGED <<scn, seq, lock, freed, cur, pos, seen, got, stack, held, broken>>

\* A deletion that finds no way on has nothing to delete.
NoWayOn(t) ==
  LET e == Entry(t)
  IN /\ pc[t] = "at" /\ ~AtEnd(t) /\ Job(t).op = "delete"
     /\ Below(e) = Null /\ e.off = 0
     /\ Goto(t, "release")
     /\ UNCHANGED <<scn, heap, cur, pos, nxt, seen, got, stack, held, broken>>

Descend(t) ==
  /\ pc[t] = "at" /\ ~AtEnd(t) /\ Below(Entry(t)) # Null
  /\ nxt' = [nxt EXCEPT ![t] = Below(Entry(t))]
  /\ Goto(t, Onward(t, Entry(t)))
  /\ UNCHANGED <<scn, heap, cur, pos, seen, got, stack, held, broken>>

\* Lock the child, its seqlock odd, the parent's even, unlock the parent.
HandOver(t) ==
  /\ lock[nxt[t]] = Free
  /\ lock' = [lock EXCEPT ![nxt[t]] = t, ![cur[t]] = Free]
  /\ seq' = [seq EXCEPT ![nxt[t]] = @ + 1, ![cur[t]] = @ + 1]
  /\ broken' = (broken \/ nxt[t] \in freed)

\* With the child in a variable the writer is in it.
Enter(t) ==
  /\ pc[t] = "enter" /\ HandOver(t)
  /\ cur' = [cur EXCEPT ![t] = nxt[t]] /\ pos' = [pos EXCEPT ![t] = @ + 1]
  /\ Goto(t, "at")
  /\ UNCHANGED <<scn, ent, used, freed, nxt, seen, got, stack, held>>

\* An insertion through an existing entry has locked entry->trie_child or
\* entry->child, and unlocked the parent ...
Crab(t) ==
  /\ pc[t] = "crab" /\ HandOver(t)
  /\ held' = [held EXCEPT ![t] = Shape(cur[t])]
  /\ Goto(t, IF Entry(t).hv THEN "totrie" ELSE "tochild")
  /\ UNCHANGED <<scn, ent, used, freed, cur, pos, nxt, seen, got, stack>>

\* ... and reads the same field of the entry again to go there.
Again(t) == IF pc[t] = "totrie" THEN Entry(t).trie_child
            ELSE IF Entry(t).hv THEN Null ELSE Entry(t).child

Reread(t) ==
  /\ pc[t] \in {"totrie", "tochild"} /\ Again(t) = nxt[t]
  /\ cur' = [cur EXCEPT ![t] = nxt[t]] /\ pos' = [pos EXCEPT ![t] = @ + 1]
  /\ Goto(t, "at")
  /\ UNCHANGED <<scn, heap, nxt, seen, got, stack, held, broken>>

\* The child is on disk only: the lock is released for the I/O ...
UnlockForIo(t) ==
  LET e == Entry(t)
  IN /\ pc[t] = "at" /\ ~AtEnd(t) /\ Present(e) /\ Below(e) = Null /\ e.off # 0
     /\ seq' = [seq EXCEPT ![cur[t]] = @ + 1]
     /\ lock' = [lock EXCEPT ![cur[t]] = Free]
     /\ seen' = [seen EXCEPT ![t] = e.off]
     /\ Goto(t, IF e.hv THEN "iotrie" ELSE "iochild")
     /\ UNCHANGED <<scn, ent, used, freed, cur, pos, nxt, got, stack, held, broken>>

\* ... hbtrie_load_child_node makes a node of what the page file has ...
LoadNode(t) ==
  /\ pc[t] \in {"iotrie", "iochild"} /\ used < MaxNode
  /\ used' = used + 1
  /\ ent' = [ent EXCEPT ![used + 1] = Disk(seen[t])]
  /\ nxt' = [nxt EXCEPT ![t] = used + 1]
  /\ Goto(t, IF pc[t] = "iotrie" THEN "retrie" ELSE "rechild")
  /\ UNCHANGED <<scn, seq, lock, freed, cur, pos, seen, got, stack, held, broken>>

\* Mutant: who came second frees the node it loaded, and goes on with it.
MutReattachFreed(t) ==
  LET e == Entry(t)
  IN /\ pc[t] \in {"retrie", "rechild"} /\ lock[cur[t]] = Free
     /\ lock' = [lock EXCEPT ![cur[t]] = t]
     /\ seq' = [seq EXCEPT ![cur[t]] = @ + 1]
     /\ IF Below(e) = Null THEN SetEntry(t, WithBelow(e, nxt[t])) /\ UNCHANGED freed
        ELSE freed' = freed \cup {nxt[t]} /\ UNCHANGED ent
     /\ Goto(t, Onward(t, e))
     /\ UNCHANGED <<scn, used, cur, pos, nxt, seen, got, stack, held, broken>>

\* Mutant: after the I/O the chunk is tried again, with the loaded node lost.
MutReattachLoop(t) ==
  /\ pc[t] \in {"retrie", "rechild"} /\ lock[cur[t]] = Free
  /\ lock' = [lock EXCEPT ![cur[t]] = t]
  /\ seq' = [seq EXCEPT ![cur[t]] = @ + 1]
  /\ Goto(t, "at")
  /\ UNCHANGED <<scn, ent, used, freed, cur, pos, nxt, seen, got, stack, held, broken>>

\* ... and, locked again, the entry is found again.  Whoever came first wins:
\* the loaded node is attached only where there is none.  Which of the two
\* fields is used was decided before the lock was released.
Reattach(t) ==
  LET e == Entry(t)
      trie == pc[t] = "retrie"
      slot == IF trie THEN e.trie_child ELSE e.child
  IN /\ pc[t] \in {"retrie", "rechild"} /\ lock[cur[t]] = Free
     /\ lock' = [lock EXCEPT ![cur[t]] = t]
     /\ seq' = [seq EXCEPT ![cur[t]] = @ + 1]
     /\ IF ~Present(e) \/ (~trie /\ e.hv)
        THEN /\ broken' = (Present(e) \/ Job(t).op = "insert")
             /\ freed' = freed \cup {nxt[t]} /\ UNCHANGED <<ent, nxt>>
        ELSE IF slot = Null
        THEN /\ SetEntry(t, IF trie THEN [e EXCEPT !.trie_child = nxt[t]]
                                    ELSE [e EXCEPT !.child = nxt[t]])
             /\ UNCHANGED <<freed, nxt, broken>>
        ELSE /\ freed' = freed \cup {nxt[t]}
             /\ nxt' = [nxt EXCEPT ![t] = slot]
             /\ UNCHANGED <<ent, broken>>
     /\ Goto(t, IF Present(e) THEN Onward(t, e) ELSE "release")
     /\ UNCHANGED <<scn, used, cur, pos, seen, got, stack, held>>

(***************************************************************************)
(* Readers: hbtrie_find.                                                   *)
(***************************************************************************)
StartFind(t) ==
  /\ MayStart(t) /\ Job(t).op = "find"
  /\ cur' = [cur EXCEPT ![t] = Root] /\ pos' = [pos EXCEPT ![t] = 1]
  /\ Goto(t, "seq")
  /\ UNCHANGED <<scn, heap, nxt, seen, got, stack, held, broken>>

\* From the root again.
Retry(t) == /\ cur' = [cur EXCEPT ![t] = Root] /\ pos' = [pos EXCEPT ![t] = 1]
            /\ Goto(t, "seq")

\* The seqlock before the look: odd means a writer.
ReadSeq(t) ==
  /\ pc[t] = "seq"
  /\ seen' = [seen EXCEPT ![t] = seq[cur[t]]]
  /\ IF seq[cur[t]] % 2 = 1 THEN Retry(t)
     ELSE Goto(t, "look") /\ UNCHANGED <<cur, pos>>
  /\ broken' = (broken \/ cur[t] \in freed)
  /\ UNCHANGED <<scn, heap, nxt, got, stack, held>>

Return(t, v) == /\ got' = [got EXCEPT ![t] = v] /\ Goto(t, "done")

\* The final entry is found ...
FindEntry(t) ==
  /\ pc[t] = "look" /\ AtEnd(t)
  /\ held' = [held EXCEPT ![t] = Shape(cur[t])]
  /\ Goto(t, "compare")
  /\ UNCHANGED <<scn, heap, cur, pos, nxt, seen, got, stack, broken>>

\* ... the seqlock is compared ...
CompareSeq(t) ==
  /\ pc[t] = "compare"
  /\ IF seq[cur[t]] # seen[t] THEN Retry(t)
     ELSE Goto(t, "flags") /\ UNCHANGED <<cur, pos>>
  /\ UNCHANGED <<scn, heap, nxt, seen, got, stack, held, broken>>

\* ... has_value and has_versions are read ...
ReadFlags(t) ==
  /\ pc[t] = "flags"
  /\ IF Chunk(t) \notin held[t] \/ ~Entry(t).hv THEN Return(t, NoValue)
     ELSE Goto(t, IF Entry(t).mv THEN "chain" ELSE "single") /\ UNCHANGED got
  /\ UNCHANGED <<scn, heap, cur, pos, nxt, seen, stack, held, broken>>

\* ... and the union, as the flags had it.
ReadValue(t) ==
  /\ pc[t] = (IF Entry(t).mv THEN "chain" ELSE "single")
  /\ Return(t, Entry(t).val)
  /\ UNCHANGED <<scn, heap, cur, pos, nxt, seen, stack, held, broken>>

\* On the way: the child, from memory; nothing there is "not found", which is
\* returned before the seqlock is compared.
ReadChild(t) ==
  LET e == Entry(t)
  IN /\ pc[t] = "look" /\ ~AtEnd(t) /\ (Below(e) # Null \/ e.off = 0)
     /\ IF Below(e) = Null THEN Return(t, NoValue) /\ UNCHANGED nxt
        ELSE /\ nxt' = [nxt EXCEPT ![t] = Below(e)]
             /\ Goto(t, "validate") /\ UNCHANGED got
     /\ UNCHANGED <<scn, heap, cur, pos, seen, stack, held, broken>>

\* On the way, a child that is on disk only: it is read ...
ReadLoad(t) ==
  LET e == Entry(t)
  IN /\ pc[t] = "look" /\ ~AtEnd(t) /\ Below(e) = Null /\ e.off # 0 /\ used < MaxNode
     /\ used' = used + 1
     /\ ent' = [ent EXCEPT ![used + 1] = Disk(e.off)]
     /\ nxt' = [nxt EXCEPT ![t] = used + 1]
     /\ Goto(t, IF e.hv THEN "puttrie" ELSE "putchild")
     /\ UNCHANGED <<scn, seq, lock, freed, cur, pos, seen, got, stack, held, broken>>

\* ... and stored in the entry, whatever has happened there since.
ReadStore(t) ==
  LET e == Entry(t)
  IN /\ pc[t] \in {"puttrie", "putchild"}
     /\ SetEntry(t, IF pc[t] = "puttrie" THEN [e EXCEPT !.trie_child = nxt[t]]
                                         ELSE [e EXCEPT !.child = nxt[t]])
     /\ broken' = (broken \/ (pc[t] = "putchild" /\ e.hv))
     /\ Goto(t, "validate")
     /\ UNCHANGED <<scn, seq, lock, used, freed, cur, pos, nxt, seen, got, stack, held>>

Validate(t) ==
  /\ pc[t] = "validate"
  /\ IF seq[cur[t]] # seen[t] THEN Retry(t)
     ELSE /\ cur' = [cur EXCEPT ![t] = nxt[t]] /\ pos' = [pos EXCEPT ![t] = @ + 1]
          /\ Goto(t, "seq")
  /\ UNCHANGED <<scn, heap, nxt, seen, got, stack, held, broken>>

\* An entry is used through a pointer that may have gone astray: its node has
\* got or lost entries, or the field no longer holds what it held.
UseTorn(t) ==
  /\ \/ pc[t] \in {"totrie", "tochild"} /\ (Moved(t) \/ Again(t) # nxt[t])
     \/ pc[t] = "flags" /\ Chunk(t) \in held[t] /\ Moved(t)
     \/ pc[t] = "chain" /\ (Moved(t) \/ ~Entry(t).mv)
     \/ pc[t] = "single" /\ (Moved(t) \/ Entry(t).mv)
  /\ torn' = TRUE
  /\ UNCHANGED <<scn, heap, locals, broken>>

(***************************************************************************)
(* hbtrie_gc and hbtrie_null_entries_by_offset.                            *)
(***************************************************************************)
StartWalk(t) ==
  /\ MayStart(t) /\ Job(t).op \in {"gc", "evict"}
  /\ stack' = [stack EXCEPT ![t] = <<Root>>]
  /\ Goto(t, Job(t).op)
  /\ UNCHANGED <<scn, heap, cur, pos, nxt, seen, got, held, broken>>

SeqOf(S) == CHOOSE s \in [1 .. Cardinality(S) -> S] : \A i, j \in DOMAIN s : i < j => s[i] < s[j]

\* The children of a node that the collector goes on to: an entry with a chain
\* is collected, and what is below it is not visited.
GcChildren(n) ==
  {Below(ent[n][c]) : c \in {c \in Chunks : ~ent[n][c].mv}} \ {Null}

\* One node under its lock: chains shrink to their newest version, a single
\* value becomes legacy again, and an old tombstone takes its entry with it.
\* Whether it is old enough depends on the running transactions.
GcNode(t) ==
  LET n == Head(stack[t])
      old == {c \in Chunks : ent[n][c].mv /\ ent[n][c].val = NoValue}
  IN /\ pc[t] = "gc" /\ stack[t] # << >> /\ lock[n] = Free
     /\ \E gone \in SUBSET old :
          ent' = [ent EXCEPT ![n] =
            [c \in Chunks |-> IF c \in gone THEN NoEntry
                              ELSE IF ent[n][c].mv /\ c \notin old
                              THEN [ent[n][c] EXCEPT !.mv = FALSE] ELSE ent[n][c]]]
     /\ seq' = [seq EXCEPT ![n] = @ + 2]
     /\ stack' = [stack EXCEPT ![t] = SeqOf(GcChildren(n)) \o Tail(@)]
     /\ broken' = (broken \/ n \in freed)
     /\ UNCHANGED <<scn, lock, used, freed, pc, cur, pos, nxt, seen, got, held>>

\* One node, without a lock: the loaded children of the evicted offset are
\* freed and forgotten.  Nothing asks whether they were changed since they were
\* loaded, or whether somebody is in them.
EvictNode(t) ==
  LET n == Head(stack[t])
      hit == {c \in Chunks : ent[n][c].off = Job(t).off /\ Below(ent[n][c]) # Null}
      rest == {Below(ent[n][c]) : c \in Chunks \ hit} \ {Null}
      dead == {Below(ent[n][c]) : c \in hit}
  IN /\ pc[t] = "evict" /\ stack[t] # << >>
     /\ ent' = [ent EXCEPT ![n] =
          [c \in Chunks |-> IF c \in hit THEN WithBelow(ent[n][c], Null) ELSE ent[n][c]]]
     /\ freed' = freed \cup dead
     /\ stack' = [stack EXCEPT ![t] = SeqOf(rest) \o Tail(@)]
     /\ broken' = (broken \/ \E u \in Threads :
                      pc[u] \notin {"idle", "done"} /\ {cur[u], nxt[u]} \cap dead # {})
     /\ UNCHANGED <<scn, seq, lock, used, pc, cur, pos, nxt, seen, got, held>>

EndWalk(t) ==
  /\ pc[t] \in {"gc", "evict"} /\ stack[t] = << >>
  /\ Goto(t, "done")
  /\ UNCHANGED <<scn, heap, cur, pos, nxt, seen, got, stack, held, broken>>

\* The entry of a key: through the children in memory, or on disk where there
\* is none in memory.
PlaceOf(k) ==
  LET go(e) == LET n == IF e.trie_child # Null THEN e.trie_child
                        ELSE IF e.hv THEN Null ELSE e.child
               IN IF n # Null THEN ent[n] ELSE IF e.off # 0 THEN Disk(e.off) ELSE Empty
      table[i \in 1 .. Len(k)] == IF i = 1 THEN ent[Root] ELSE go(table[i - 1][k[i - 1]])
  IN table[Len(k)][k[Len(k)]]

Contents == [k \in Keys |-> PlaceOf(k).val]

\* What a caller could have been told.
Observe ==
  may' = [t \in Threads |-> IF pc'[t] = "idle" THEN {}
                            ELSE IF pc[t] = "done" \/ Job(t).op # "find" THEN may[t]
                            ELSE may[t] \cup {Contents[Key(t)], Contents'[Key(t)]}]

(***************************************************************************)
(* A scenario gives each thread its call, the nodes in memory at the start *)
(* (node 1 is the root), the nodes on disk, and whether the calls are made *)
(* one after the other.                                                    *)
(***************************************************************************)
Init ==
  /\ scn \in Scenarios
  /\ used = Len(scn.heap) /\ freed = {}
  /\ ent = [n \in Nodes |-> IF n <= Len(scn.heap) THEN scn.heap[n] ELSE Empty]
  /\ seq = [n \in Nodes |-> 0] /\ lock = [n \in Nodes |-> Free]
  /\ pc = [t \in Threads |-> IF scn.call[t].op = "none" THEN "done" ELSE "idle"]
  /\ cur = [t \in Threads |-> Root] /\ pos = [t \in Threads |-> 1]
  /\ nxt = [t \in Threads |-> Null] /\ seen = [t \in Threads |-> 0]
  /\ got = [t \in Threads |-> NoValue] /\ stack = [t \in Threads |-> << >>]
  /\ held = [t \in Threads |-> {}]
  /\ may = [t \in Threads |-> {}] /\ broken = FALSE /\ torn = FALSE

WriterStep(t) ==
  \/ StartWrite(t) \/ Release(t) \/ NewValue(t) \/ SaveChild(t) \/ FirstValue(t)
  \/ AddVersion(t) \/ AddTombstone(t) \/ NewChild(t) \/ NoWayOn(t) \/ Descend(t)
  \/ Enter(t) \/ Crab(t) \/ Reread(t) \/ UnlockForIo(t) \/ LoadNode(t) \/ Reattach(t)

ReaderStep(t) ==
  \/ StartFind(t) \/ ReadSeq(t) \/ FindEntry(t) \/ CompareSeq(t) \/ ReadFlags(t)
  \/ ReadValue(t) \/ ReadChild(t) \/ ReadLoad(t) \/ ReadStore(t) \/ Validate(t)

WalkStep(t) == StartWalk(t) \/ GcNode(t) \/ EvictNode(t) \/ EndWalk(t)

Step(t) == (WriterStep(t) \/ ReaderStep(t) \/ WalkStep(t)) /\ UNCHANGED torn

Next == /\ ~broken /\ ~torn
        /\ \E t \in Threads : Step(t) \/ UseTorn(t)
        /\ Observe

\* A writer that can take a step takes one.
WriterOn(t) ==
  /\ ~broken /\ ~torn
  /\ (WriterStep(t) /\ UNCHANGED torn) \/ (Writer(t) /\ UseTorn(t))
  /\ Observe

Spec == Init /\ [][Next]_vars /\ \A t \in Threads : WF_vars(WriterOn(t))

(***************************************************************************)
(* Properties.                                                             *)
(***************************************************************************)
TypeOK ==
  /\ used \in Nodes /\ freed \subseteq Nodes
  /\ \A n \in Nodes : seq[n] \in Nat /\ lock[n] \in Threads \cup {Free}
  /\ \A n \in Nodes, c \in Chunks :
       /\ ent[n][c].child \in 0 .. used /\ ent[n][c].trie_child \in 0 .. used
       /\ ent[n][c].val \in Values \cup {NoValue}
       /\ ent[n][c].hv => ent[n][c].child = Null
  /\ \A t \in Threads : cur[t] \in Nodes /\ nxt[t] \in 0 .. used

\* A seqlock is odd exactly while its node is locked, a thread holds at most
\* the two locks of a handover, and it holds the lock of the node it writes, or
\* of the node it is about to go to.
LockDiscipline ==
  /\ \A n \in Nodes : (seq[n] % 2 = 1) <=> (lock[n] # Free)
  /\ \A t \in Threads :
       /\ pc[t] \in {"at", "first", "enter", "crab", "release"} => lock[cur[t]] = t
       /\ pc[t] \in {"totrie", "tochild"} => lock[nxt[t]] = t

\* No thread follows a null pointer, takes a value for a node or enters a node
\* that has been freed.
NeverBroken == ~broken

\* "Readers never block writers and never see partial updates" (README.md): no
\* entry is used through a pointer after another thread has changed it.
NeverTorn == ~torn

Status == [t \in Threads |-> IF pc[t] = "done" \/ ~Writer(t) THEN "returned"
                             ELSE IF pc[t] = "release" THEN "applied" ELSE "pending"]

Writers == {t \in Threads : Writer(t)}

Abstract == INSTANCE KeyMap WITH
  Callers <- Threads,
  call <- [t \in Threads |-> [key |-> Key(t), val |-> Job(t).val]],
  map <- Contents, status <- Status

\* The trie implements the map: every step of a writer, a reader's lazy load,
\* the collector and the eviction either is one writer's effect or its return,
\* or leaves the contents of all keys alone.
Implements == Abstract!Spec

Reading(t) == pc[t] = "done" /\ Job(t).op = "find"

\* hbtrie_find returns a value that its key had at some moment of the call, or
\* nothing; with no writer under way it returns what the key has.
ReadsItsKey ==
  \A t \in Threads :
    Reading(t) => got[t] \in may[t] \cup (IF scn.serial THEN {} ELSE {NoValue})

\* As the comment at the retry loop has it, a look that a writer disturbed is
\* made again: a key that is there during the whole call is found.
RetriesWhenDisturbed == \A t \in Threads : Reading(t) => got[t] \in may[t]

\* Nobody waits for ever: the locks are taken from the root downwards, so every
\* insertion and deletion returns, unless a pointer goes astray first.
WritersReturn == \A t \in Threads : (pc[t] = "at") ~> (pc[t] = "done" \/ broken \/ torn)

\* Until an entry is used through a pointer that has gone astray, writers that
\* hand their locks over from node to node and readers without locks never
\* follow a pointer they may not follow, and a reader answers for its own key.
TrieSound == TypeOK /\ LockDiscipline /\ NeverBroken /\ ReadsItsKey
=============================================================================
