------------------------------ MODULE WalManager ------------------------------
(***************************************************************************)
(* The thread-local write-ahead log (src/Database/wal_manager.c) with what *)
(* database.c does around it: database_put_sync logs and then applies,     *)
(* database_snapshot and database_destroy write the checkpoint, and        *)
(* database_create_with_config replays the log on top of the checkpoint.   *)
(*                                                                         *)
(* The process may die, and the power may fail, between any two steps.  A  *)
(* file is a sequence of entries with a prefix that fsync has made safe;   *)
(* a manifest record is written and synced at once.  Failing system calls, *)
(* encryption and the migration of the old log are not modelled.  The      *)
(* payload of an entry is its key: the value written is the ID itself.     *)
(***************************************************************************)
EXTENDS Integers, Sequences, FiniteSets, SequencesExt

CONSTANTS
  Threads, Keys,
  Owner,        \* the caller of database_snapshot and database_destroy
  Nobody,       \* free lock; also "no thread" in the name of a compacted file
  LifeThreads,  \* sequence: threads that write in the first, second... life
  Configs,      \* wal_config_t: [sync_mode, max_file_size in entries], and drain:
                \* there is a timer wheel (none in sync_only) and debounce_ms > 0
  Sizes,        \* entry sizes, of {"small", "half", "direct"}
  Allowed,      \* environment: subset of {"power", "same_second", "destroy"}
  MaxSealed,    \* max_sealed_wals, 0 for no limit
  MaxWrites, MaxSecond, MaxSnapshots  \* bounds on one behaviour

ASSUME WalManagerAssumption ==
  /\ {Owner, Nobody} \cap Threads = {} /\ Owner # Nobody
  /\ LifeThreads \in Seq(SUBSET Threads) /\ LifeThreads # <<>>
  /\ Configs \subseteq [sync_mode : {"IMMEDIATE", "DEBOUNCED", "ASYNC"}, max_file_size : Nat \ {0},
                        drain : BOOLEAN]
  /\ Sizes \subseteq {"small", "half", "direct"}
  /\ Allowed \subseteq {"power", "same_second", "destroy"}
  /\ MaxSealed \in Nat
  /\ MaxWrites \in Nat \ {0} /\ MaxSecond \in Nat \ {0} /\ MaxSnapshots \in Nat

Actors == Threads \cup {Owner}
Ids == 1 .. MaxWrites
Seconds == 1 .. MaxSecond
\* thread_T.wal is <<T, 0>>, thread_T_S.wal is <<T, S>> and compacted_S.wal is
\* <<Nobody, S>>.
Names == (Threads \cup {Nobody}) \X (0 .. MaxSecond)
NoFile == <<>>
Entries == [id : Ids, key : Keys]

VARIABLES
  \* on disk
  file,            \* existing file -> [data : entries, synced : length made safe]
  manifest,        \* sequence of <<file, status>>
  page,            \* checkpoint: chains per key and last_txn of the superblock
  \* in the process
  phase, life, now, next_id, config, snapshots,
  trie,            \* key -> IDs of its versions, newest insertion first
  last_committed,
  threads,         \* registered thread WALs, in order
  cur,             \* thread -> file behind fd, NoFile if none
  orphan,          \* thread -> that file has been unlinked
  current_size,    \* thread -> entries written to it
  entry_buf, timer_active, newest,
  sealed_count, manifest_lock,
  pc, job, list, at,
  \* history
  acked,           \* thread -> IDs it logged and returned in this life
  promised,        \* IDs returned whose fsync has returned, too
  dropped,         \* a destroy has dropped log files
  reused           \* a file was opened under a name the manifest already knew

mode == config.sync_mode

disk == <<file, manifest, page>>
twals == <<threads, cur, orphan, current_size, entry_buf, timer_active, newest>>
proc == <<phase, life, now, next_id, config, snapshots>>
mem == <<trie, last_committed>>
cmp == <<list, at>>
history == <<acked, promised, dropped, reused>>
vars == <<disk, proc, mem, twals, sealed_count, manifest_lock, pc, job, cmp, history>>

TypeOK ==
  /\ DOMAIN file \subseteq Names
  /\ \A n \in DOMAIN file : /\ file[n].data \in Seq(Entries)
                            /\ file[n].synced \in 0 .. Len(file[n].data)
  /\ manifest \in Seq(Names \X {"ACTIVE", "SEALED", "COMPACTED"})
  /\ phase \in {"up", "down"} /\ life \in 1 .. Len(LifeThreads)
  /\ next_id \in 1 .. (MaxWrites + 1)
  /\ \A t \in Threads : /\ cur[t] \in Names \cup {NoFile}
                        /\ cur[t] \in DOMAIN file \cup {NoFile} \/ orphan[t]
                        /\ current_size[t] \in 0 .. MaxWrites
                        /\ entry_buf[t] \in Seq(Entries)
  /\ sealed_count \in Nat
  /\ manifest_lock \in Actors \cup {Nobody}
  /\ promised \subseteq Ids

Init ==
  /\ file = <<>> /\ manifest = <<>>
  /\ page = [chain |-> [k \in Keys |-> <<>>], last |-> 0]
  /\ phase = "up" /\ life = 1 /\ now = 1 /\ next_id = 1 /\ snapshots = 0
  /\ config \in Configs
  /\ trie = [k \in Keys |-> <<>>] /\ last_committed = 0
  /\ threads = <<>> /\ sealed_count = 0 /\ manifest_lock = Nobody
  /\ cur = [t \in Threads |-> NoFile] /\ orphan = [t \in Threads |-> FALSE]
  /\ current_size = [t \in Threads |-> 0] /\ newest = [t \in Threads |-> 0]
  /\ entry_buf = [t \in Threads |-> <<>>] /\ timer_active = [t \in Threads |-> FALSE]
  /\ pc = [a \in Actors |-> "idle"] /\ job = [t \in Threads |-> <<>>]
  /\ list = [a \in Actors |-> <<>>] /\ at = [a \in Actors |-> 0]
  /\ acked = [t \in Threads |-> {}] /\ promised = {}
  /\ dropped = FALSE /\ reused = FALSE

-----------------------------------------------------------------------------
(* Files and the manifest *)

Goto(a, to) == pc' = [pc EXCEPT ![a] = to]

IdsOf(es) == {es[i].id : i \in 1 .. Len(es)}

\* The members of a finite set of numbers, the least one first.
Ascending(S) ==
  [i \in 1 .. Cardinality(S) |-> CHOOSE x \in S : Cardinality({y \in S : y <= x}) = i]

\* open(O_CREAT | O_APPEND): an existing file keeps its entries.
Created(n) == IF n \in DOMAIN file THEN file
              ELSE [m \in DOMAIN file \cup {n} |->
                      IF m = n THEN [data |-> <<>>, synced |-> 0] ELSE file[m]]

\* write, and fsync if asked.
Written(f, n, es, sync) ==
  [f EXCEPT ![n] = [data |-> @.data \o es,
                    synced |-> IF sync THEN Len(@.data) + Len(es) ELSE @.synced]]

Record(n, status) == manifest' = Append(manifest, <<n, status>>)

Recorded(n) == \E i \in 1 .. Len(manifest) : manifest[i][1] = n

\* Names are unique to the second they are made in.
Fresh(n) == "same_second" \in Allowed \/ ~Recorded(n)

\* History: the open found a file of an earlier thread, or of the same second.
Reuse(n) == reused' = (reused \/ Recorded(n))

\* thread_wal_flush_buffer_locked, then fsync if sync: the bytes written through
\* a descriptor whose file has been unlinked are gone.
Flush(t, extra, sync) ==
  LET es == entry_buf[t] \o extra IN
  /\ file' = IF orphan[t] \/ cur[t] = NoFile THEN file ELSE Written(file, cur[t], es, sync)
  /\ entry_buf' = [entry_buf EXCEPT ![t] = <<>>]
  /\ current_size' = [current_size EXCEPT ![t] = @ + Len(es)]

-----------------------------------------------------------------------------
(* database_put_sync *)

StartPut(t) ==
  /\ phase = "up" /\ pc[t] = "idle" /\ pc[Owner] \in {"idle", "flush", "page"}
  /\ t \in LifeThreads[life] /\ next_id <= MaxWrites
  /\ \E k \in Keys, z \in Sizes :
       job' = [job EXCEPT ![t] = [entry |-> [id |-> next_id, key |-> k], sec |-> now, size |-> z]]
  /\ next_id' = next_id + 1
  /\ Goto(t, "get")
  /\ UNCHANGED <<disk, phase, life, now, config, snapshots, mem, twals, sealed_count,
                 manifest_lock, cmp, history>>

\* get_thread_wal, and create_thread_wal for the first write of the thread.
GetThreadWal(t) ==
  /\ pc[t] = "get"
  /\ IF cur[t] # NoFile THEN UNCHANGED <<file, manifest, twals, reused>>
     ELSE /\ manifest_lock = Nobody
          /\ Reuse(<<t, 0>>)
          /\ file' = Created(<<t, 0>>)
          /\ Record(<<t, 0>>, "ACTIVE")
          /\ cur' = [cur EXCEPT ![t] = <<t, 0>>]
          /\ threads' = Append(threads, t)
          /\ UNCHANGED <<orphan, current_size, entry_buf, timer_active, newest>>
  /\ Goto(t, "room")
  /\ UNCHANGED <<page, proc, mem, sealed_count, manifest_lock, job, cmp, acked, promised, dropped>>

\* thread_wal_write: a full file is flushed, and rotated once there is room for
\* another sealed one.
MakeRoom(t) ==
  /\ pc[t] = "room"
  /\ IF current_size[t] + Len(entry_buf[t]) < config.max_file_size
     THEN Goto(t, "append") /\ UNCHANGED <<file, entry_buf, current_size>>
     ELSE /\ Flush(t, <<>>, mode = "IMMEDIATE")
          /\ Goto(t, IF MaxSealed > 0 /\ sealed_count >= MaxSealed THEN "compact" ELSE "seal")
  /\ UNCHANGED <<manifest, page, proc, mem, threads, cur, orphan, timer_active, newest,
                 sealed_count, manifest_lock, job, cmp, history>>

\* thread_wal_rotate: the old file is safe and sealed ...
Seal(t) ==
  /\ pc[t] = "seal" /\ manifest_lock = Nobody
  /\ file' = IF orphan[t] THEN file ELSE Written(file, cur[t], <<>>, TRUE)
  /\ Record(cur[t], "SEALED")
  /\ sealed_count' = sealed_count + 1
  /\ Goto(t, "reopen")
  /\ UNCHANGED <<page, proc, mem, twals, manifest_lock, job, cmp, history>>

\* ... and a new one is named after the second of the newest entry.
Reopen(t) ==
  LET n == <<t, newest[t]>> IN
  /\ pc[t] = "reopen" /\ manifest_lock = Nobody /\ Fresh(n) /\ Reuse(n)
  /\ file' = Created(n)
  /\ Record(n, "ACTIVE")
  /\ cur' = [cur EXCEPT ![t] = n]
  /\ orphan' = [orphan EXCEPT ![t] = FALSE]
  /\ current_size' = [current_size EXCEPT ![t] = 0]
  /\ newest' = [newest EXCEPT ![t] = 0]
  /\ Goto(t, "append")
  /\ UNCHANGED <<page, proc, mem, threads, entry_buf, timer_active, sealed_count,
                 manifest_lock, job, cmp, acked, promised, dropped>>

\* Mutant: the timer is armed for the second entry of the buffer.
WalAppendTimerLate(t) ==
  LET j == job[t]
      buffered == Append(entry_buf[t], j.entry)
  IN
  /\ pc[t] = "append"
  /\ newest' = [newest EXCEPT ![t] = j.sec]
  /\ \/ /\ mode = "IMMEDIATE" \/ j.size # "small"
        /\ Flush(t, <<j.entry>>, mode = "IMMEDIATE" \/ (j.size = "direct" /\ mode = "DEBOUNCED"))
        /\ UNCHANGED timer_active
     \/ /\ mode # "IMMEDIATE" /\ j.size = "small"
        /\ entry_buf' = [entry_buf EXCEPT ![t] = buffered]
        /\ timer_active' = [timer_active EXCEPT ![t] = @ \/ (config.drain /\ Len(buffered) = 2)]
        /\ UNCHANGED <<file, current_size>>
  /\ Goto(t, "apply")
  /\ UNCHANGED <<manifest, page, proc, mem, threads, cur, orphan, sealed_count,
                 manifest_lock, job, cmp, history>>

\* The rest of thread_wal_write.  An entry is flushed at once in IMMEDIATE mode
\* or when the buffer is more than half full; one that does not fit the buffer is
\* written directly, and synced unless the mode is ASYNC; the first entry in an
\* empty buffer starts the drain timer, if there is a wheel to start it on.
WalAppend(t) ==
  LET j == job[t]
      buffered == Append(entry_buf[t], j.entry)
  IN
  /\ pc[t] = "append"
  /\ newest' = [newest EXCEPT ![t] = j.sec]
  /\ \/ /\ mode = "IMMEDIATE" \/ j.size # "small"
        /\ Flush(t, <<j.entry>>, mode = "IMMEDIATE" \/ (j.size = "direct" /\ mode = "DEBOUNCED"))
        /\ UNCHANGED timer_active
     \/ /\ mode # "IMMEDIATE" /\ j.size = "small"
        /\ entry_buf' = [entry_buf EXCEPT ![t] = buffered]
        /\ timer_active' = [timer_active EXCEPT ![t] = @ \/ (config.drain /\ Len(buffered) = 1)]
        /\ UNCHANGED <<file, current_size>>
  /\ Goto(t, "apply")
  /\ UNCHANGED <<manifest, page, proc, mem, threads, cur, orphan, sealed_count,
                 manifest_lock, job, cmp, history>>

\* hbtrie_insert and tx_manager_commit; put returns, whatever the log write said.
Apply(t) ==
  LET e == job[t].entry IN
  /\ pc[t] \in {"apply", "apply_unlogged"}
  /\ trie' = [trie EXCEPT ![e.key] = <<e.id>> \o @]
  /\ last_committed' = IF e.id > last_committed THEN e.id ELSE last_committed
  /\ IF pc[t] = "apply"
     THEN /\ acked' = [acked EXCEPT ![t] = @ \cup {e.id}]
          /\ promised' = IF mode = "IMMEDIATE" THEN promised \cup {e.id} ELSE promised
     ELSE UNCHANGED <<acked, promised>>
  /\ job' = [job EXCEPT ![t] = <<>>]
  /\ Goto(t, "idle")
  /\ UNCHANGED <<disk, proc, twals, sealed_count, manifest_lock, cmp, dropped, reused>>

\* twal->lock is held from the check of the size to the end of the write, but
\* not during compaction.
LockFree(t) == pc[t] \notin {"seal", "reopen", "append"}

\* wal_flush_timer_callback.
TimerFire(t) ==
  /\ phase = "up" /\ timer_active[t] /\ LockFree(t)
  /\ Flush(t, <<>>, mode = "DEBOUNCED")
  /\ timer_active' = [timer_active EXCEPT ![t] = FALSE]
  /\ promised' = IF mode = "DEBOUNCED" THEN promised \cup acked[t] ELSE promised
  /\ UNCHANGED <<manifest, page, proc, mem, threads, cur, orphan, newest, sealed_count,
                 manifest_lock, pc, job, cmp, acked, dropped, reused>>

-----------------------------------------------------------------------------
(* compact_wal_files: mark_compacted = 0 for a writer at the limit of sealed  *)
(* files, 1 for wal_manager_seal_and_compact.                                 *)

\* The files with a SEALED record, in the order of the manifest.
SealedAt == {i \in 1 .. Len(manifest) : manifest[i][2] = "SEALED"}
Sealed == [j \in 1 .. Cardinality(SealedAt) |-> manifest[Ascending(SealedAt)[j]][1]]

\* Entries in the order of their IDs.
ById(es) ==
  LET ids == {e.id : e \in es} IN
  [i \in 1 .. Cardinality(ids) |-> CHOOSE e \in es : e.id = Ascending(ids)[i]]

Lowered(n) == IF sealed_count >= n THEN sealed_count - n ELSE 0

\* Read the manifest: every SEALED record ever written counts.
CompactRead(a) ==
  /\ pc[a] = "compact" /\ manifest_lock = Nobody
  /\ list' = [list EXCEPT ![a] = Sealed]
  /\ at' = [at EXCEPT ![a] = 1]
  /\ Goto(a, IF Sealed = <<>> THEN (IF a = Owner THEN "closed" ELSE "recheck")
             ELSE IF a = Owner THEN "mark" ELSE "merge")
  /\ UNCHANGED <<disk, proc, mem, twals, sealed_count, manifest_lock, job, history>>

\* Mutant: the merged file is not synced before its sources are deleted.
CompactMergeUnsynced(t) ==
  LET n == <<Nobody, now>>
      present == {i \in 1 .. Len(list[t]) : list[t][i] \in DOMAIN file}
      es == UNION {ToSet(file[list[t][i]].data) : i \in present}
  IN
  /\ pc[t] = "merge" /\ Fresh(n) /\ Reuse(n)
  /\ file' = Written(Created(n), n, ById(es), FALSE)
  /\ list' = [list EXCEPT ![t] = Append(@, n)]
  /\ Goto(t, "mark")
  /\ UNCHANGED <<manifest, page, proc, mem, twals, sealed_count, manifest_lock, job, at, acked,
                 promised, dropped>>

\* Read the listed files, sort by ID, write and sync compacted_<second>.wal.
CompactMerge(t) ==
  LET n == <<Nobody, now>>
      present == {i \in 1 .. Len(list[t]) : list[t][i] \in DOMAIN file}
      es == UNION {ToSet(file[list[t][i]].data) : i \in present}
  IN
  /\ pc[t] = "merge" /\ Fresh(n) /\ Reuse(n)
  /\ file' = Written(Created(n), n, ById(es), TRUE)
  /\ list' = [list EXCEPT ![t] = Append(@, n)]
  /\ Goto(t, "mark")
  /\ UNCHANGED <<manifest, page, proc, mem, twals, sealed_count, manifest_lock, job, at, acked,
                 promised, dropped>>

\* One COMPACTED record per listed file, under manifest_lock.  A writer's list
\* ends with the compacted file, which is recorded as SEALED.
CompactMark(a) ==
  LET n == list[a][at[a]]
      end == at[a] = Len(list[a])
  IN
  /\ pc[a] = "mark" /\ manifest_lock \in {Nobody, a}
  /\ Record(n, IF end /\ a # Owner THEN "SEALED" ELSE "COMPACTED")
  /\ manifest_lock' = IF end THEN Nobody ELSE a
  /\ at' = [at EXCEPT ![a] = IF end THEN 1 ELSE @ + 1]
  /\ sealed_count' = IF end THEN Lowered(Len(list[a]) - (IF a = Owner THEN 0 ELSE 1)) ELSE sealed_count
  /\ list' = IF end /\ a # Owner THEN [list EXCEPT ![a] = Front(@)] ELSE list
  /\ Goto(a, IF end THEN "unlink" ELSE "mark")
  /\ UNCHANGED <<file, page, proc, mem, twals, job, history>>

\* unlink, one listed file after the other; whoever has it open keeps writing to
\* a file without a name.
CompactUnlink(a) ==
  LET n == list[a][at[a]]
      end == at[a] = Len(list[a])
  IN
  /\ pc[a] = "unlink"
  /\ file' = [m \in DOMAIN file \ {n} |-> file[m]]
  /\ orphan' = [t \in Threads |-> orphan[t] \/ cur[t] = n]
  /\ at' = [at EXCEPT ![a] = IF end THEN 0 ELSE @ + 1]
  /\ list' = IF end THEN [list EXCEPT ![a] = <<>>] ELSE list
  /\ Goto(a, IF ~end THEN "unlink" ELSE IF a = Owner THEN "closed" ELSE "recheck")
  /\ dropped' = (dropped \/ a = Owner)
  /\ UNCHANGED <<manifest, page, proc, mem, threads, cur, current_size, entry_buf,
                 timer_active, newest, sealed_count, manifest_lock, job, acked, promised, reused>>

\* Back in thread_wal_write: still too many sealed files is an error.
Recheck(t) ==
  /\ pc[t] = "recheck"
  /\ Goto(t, IF sealed_count >= MaxSealed THEN "apply_unlogged" ELSE "seal")
  /\ UNCHANGED <<disk, proc, mem, twals, sealed_count, manifest_lock, job, cmp, history>>

-----------------------------------------------------------------------------
(* database_snapshot and database_destroy *)

StartSnapshot ==
  /\ phase = "up" /\ pc[Owner] = "idle" /\ snapshots < MaxSnapshots
  /\ snapshots' = snapshots + 1
  /\ Goto(Owner, "flush")
  /\ at' = [at EXCEPT ![Owner] = 1]
  /\ UNCHANGED <<disk, phase, life, now, next_id, config, mem, twals, sealed_count,
                 manifest_lock, job, list, history>>

\* The caller destroys the database when no operation runs.
StartDestroy ==
  /\ "destroy" \in Allowed
  /\ phase = "up" /\ \A a \in Actors : pc[a] = "idle"
  /\ life < Len(LifeThreads)
  /\ Goto(Owner, "destroy_flush")
  /\ at' = [at EXCEPT ![Owner] = 1]
  /\ UNCHANGED <<disk, proc, mem, twals, sealed_count, manifest_lock, job, list, history>>

\* wal_manager_flush: buffer, fsync and timer of one registered WAL.
FlushOne ==
  /\ pc[Owner] \in {"flush", "destroy_flush"}
  /\ at[Owner] <= Len(threads)
  /\ LET t == threads[at[Owner]] IN
     /\ LockFree(t)
     /\ Flush(t, <<>>, TRUE)
     /\ timer_active' = [timer_active EXCEPT ![t] = FALSE]
     /\ promised' = promised \cup acked[t]
  /\ at' = [at EXCEPT ![Owner] = @ + 1]
  /\ UNCHANGED <<manifest, page, proc, mem, threads, cur, orphan, newest, sealed_count,
                 manifest_lock, pc, job, list, acked, dropped, reused>>

FlushEnd ==
  /\ pc[Owner] \in {"flush", "destroy_flush"} /\ at[Owner] > Len(threads)
  /\ Goto(Owner, IF pc[Owner] = "flush" THEN "page" ELSE "destroy_page")
  /\ UNCHANGED <<disk, proc, mem, twals, sealed_count, manifest_lock, job, cmp, history>>

\* database_flush_dirty_bnodes: module PageFile shows when this is one step.
Persist ==
  /\ pc[Owner] \in {"page", "destroy_page"}
  /\ page' = [chain |-> trie, last |-> last_committed]
  /\ Goto(Owner, IF pc[Owner] = "page" THEN "idle" ELSE "seal_all")
  /\ at' = [at EXCEPT ![Owner] = IF pc[Owner] = "page" THEN 0 ELSE 1]
  /\ UNCHANGED <<file, manifest, proc, mem, twals, sealed_count, manifest_lock, job, list, history>>

\* wal_manager_seal_and_compact seals the WALs registered in this life.
SealOne ==
  /\ pc[Owner] = "seal_all" /\ at[Owner] <= Len(threads)
  /\ LET t == threads[at[Owner]] IN
     /\ Record(cur[t], "SEALED")
     /\ cur' = [cur EXCEPT ![t] = NoFile]
  /\ at' = [at EXCEPT ![Owner] = @ + 1]
  /\ UNCHANGED <<file, page, proc, mem, threads, orphan, current_size, entry_buf,
                 timer_active, newest, sealed_count, manifest_lock, pc, job, list, history>>

SealEnd ==
  /\ pc[Owner] = "seal_all" /\ at[Owner] > Len(threads)
  /\ Goto(Owner, "compact")
  /\ UNCHANGED <<disk, proc, mem, twals, sealed_count, manifest_lock, job, cmp, history>>

-----------------------------------------------------------------------------
(* The process ends, and starts again *)

Tick ==
  /\ now < MaxSecond /\ now' = now + 1
  /\ UNCHANGED <<disk, phase, life, next_id, config, snapshots, mem, twals, sealed_count,
                 manifest_lock, pc, job, cmp, history>>

\* What is left of the files when the power fails.
Survivors ==
  {f \in [DOMAIN file -> UNION {{[data |-> SubSeq(file[n].data, 1, m), synced |-> m] :
               m \in file[n].synced .. Len(file[n].data)} : n \in DOMAIN file}] :
     \A n \in DOMAIN file : \E m \in file[n].synced .. Len(file[n].data) :
        f[n] = [data |-> SubSeq(file[n].data, 1, m), synced |-> m]}

Stop ==
  /\ phase' = "down"
  /\ threads' = <<>> /\ sealed_count' = 0 /\ manifest_lock' = Nobody
  /\ cur' = [t \in Threads |-> NoFile] /\ orphan' = [t \in Threads |-> FALSE]
  /\ current_size' = [t \in Threads |-> 0] /\ newest' = [t \in Threads |-> 0]
  /\ entry_buf' = [t \in Threads |-> <<>>]
  /\ timer_active' = [t \in Threads |-> FALSE]
  /\ pc' = [a \in Actors |-> "idle"] /\ job' = [t \in Threads |-> <<>>]
  /\ list' = [a \in Actors |-> <<>>] /\ at' = [a \in Actors |-> 0]
  /\ trie' = [k \in Keys |-> <<>>] /\ last_committed' = 0
  /\ acked' = [t \in Threads |-> {}]

\* The end of database_destroy.
Closed ==
  /\ pc[Owner] = "closed"
  /\ Stop
  /\ UNCHANGED <<disk, life, now, next_id, config, snapshots, promised, dropped, reused>>

Crash ==
  /\ phase = "up" /\ life < Len(LifeThreads)
  /\ Stop
  /\ IF "power" \in Allowed THEN file' \in Survivors ELSE UNCHANGED file
  /\ UNCHANGED <<manifest, page, life, now, next_id, config, snapshots, promised, dropped, reused>>

\* wal_manager_recover reads a file for every record that is not COMPACTED, and
\* the thread files without a record.
Records(n) == {manifest[i][2] : i \in {j \in 1 .. Len(manifest) : manifest[j][1] = n}}
RecoveryReads ==
  {n \in DOMAIN file : Records(n) \ {"COMPACTED"} # {} \/ (Records(n) = {} /\ n[1] # Nobody)}

\* Mutant: entries are replayed from the largest ID to the smallest.
ReplayedDescending(k, es) ==
  Ascending({e.id : e \in {x \in es : x.key = k}}) \o page.chain[k]

\* The checkpoint, then the entries in the order of their IDs on top of it.
Replayed(k, es) ==
  Reverse(Ascending({e.id : e \in {x \in es : x.key = k}})) \o page.chain[k]

Recover ==
  LET es == UNION {ToSet(file[n].data) : n \in RecoveryReads} IN
  /\ phase = "down"
  /\ phase' = "up" /\ life' = life + 1
  /\ trie' = [k \in Keys |-> Replayed(k, es)]
  /\ last_committed' = IF es = {} THEN page.last
                       ELSE CHOOSE i \in {e.id : e \in es} : \A e \in es : e.id <= i
  /\ UNCHANGED <<disk, now, next_id, config, snapshots, twals, sealed_count, manifest_lock,
                 pc, job, cmp, history>>

ThreadStep(t) ==
  \/ StartPut(t) \/ GetThreadWal(t) \/ MakeRoom(t) \/ Seal(t) \/ Reopen(t)
  \/ WalAppend(t) \/ Apply(t) \/ TimerFire(t) \/ CompactMerge(t) \/ Recheck(t)

OwnerStep ==
  \/ StartSnapshot \/ StartDestroy \/ FlushOne \/ FlushEnd \/ Persist
  \/ SealOne \/ SealEnd \/ Closed

Next ==
  \/ \E t \in Threads : ThreadStep(t)
  \/ \E a \in Actors : CompactRead(a) \/ CompactMark(a) \/ CompactUnlink(a)
  \/ OwnerStep \/ Tick \/ Crash \/ Recover

Spec == Init /\ [][Next]_vars

-----------------------------------------------------------------------------
(* Properties *)

InCheckpoint == UNION {ToSet(page.chain[k]) : k \in Keys}
InLog == UNION {IdsOf(SubSeq(file[n].data, 1, file[n].synced)) : n \in RecoveryReads}

\* A write that the log has made safe (an fsync returned after it) can be
\* recovered at every moment: it is in the checkpoint or in the safe part of a
\* file that recovery would read, whatever rotation, compaction, snapshot or
\* destroy is half-way through, and however often the process died.
Durable == promised \subseteq InCheckpoint \cup InLog

\* Where there is a wheel, no entry waits in the buffer of thread_wal_write without a
\* drain timer, whatever flushes, rotations and snapshots came in between.  Without
\* one (sync_only) a buffer waits for its own thread, a snapshot or the destroy.
BufferCovered ==
  config.drain => \A t \in Threads : entry_buf[t] # <<>> => timer_active[t]

\* What a reader at read point p finds in chain c; a single version has no test.
Visible(c, p) ==
  IF Len(c) = 1 THEN c[1]
  ELSE IF \A i \in 1 .. Len(c) : c[i] > p THEN 0
  ELSE c[CHOOSE i \in 1 .. Len(c) : c[i] <= p /\ \A j \in 1 .. (i - 1) : c[j] > p]

\* Recovery shows for each key the newest safe write or one that is newer still.
RecoversNewest ==
  \A k \in Keys : \A i \in promised :
    i \in ToSet(trie'[k]) => Visible(trie'[k], last_committed') >= i

\* As long as no destroy has dropped log files.
ReplayNewest == [][(phase = "down" /\ phase' = "up" /\ ~dropped) => RecoversNewest]_vars

\* wal_manager.h on wal_manager_seal_and_compact: "all WAL entries are in COMPACTED
\* files and will be skipped by wal_manager_recover() on next database creation",
\* so that a reopened database shows what was written last.
ReopenNewest == [][(phase = "down" /\ phase' = "up") => RecoversNewest]_vars

=============================================================================
