------------------------------ MODULE TxManager ------------------------------
(***************************************************************************)
(* The MVCC transaction manager (src/HBTrie/mvcc.c) together with the      *)
(* generator it draws transaction IDs from (src/Workers/transaction_id.c). *)
(*                                                                         *)
(* Every thread runs tx_manager_begin, then tx_manager_commit or           *)
(* tx_manager_abort, or calls tx_manager_get_min_active, and may be        *)
(* preempted wherever the code gives up a lock or reads a word that        *)
(* another thread may write.  The seqlocks around the 24-byte IDs          *)
(* make one read and one write of such a word atomic.                      *)
(*                                                                         *)
(* An ID is the pair of the clock reading (seconds and nanoseconds as one  *)
(* tick) and the global count.  The three-field ID, with its high-water    *)
(* mark, is the subject of module TransactionId.                           *)
(***************************************************************************)
EXTENDS Integers, FiniteSets

CONSTANTS
  Threads,    \* application and worker threads that call the manager
  NoThread,   \* owner of a free lock
  NShards,    \* TX_MANAGER_SHARDS (64 in the code)
  MaxClock,   \* bound: clock readings are 1..MaxClock
  MaxTxns     \* bound: transaction IDs issued in one behaviour

ASSUME TxManagerAssumption ==
  /\ NoThread \notin Threads
  /\ NShards \in Nat \ {0}
  /\ MaxClock \in Nat \ {0}
  /\ MaxTxns \in Nat \ {0}

TxShards == 0 .. (NShards - 1)

\* transaction_id_t with real clock readings, the initial value {0,0,0} of
\* last_committed_txn_id, and TXN_ID_SENTINEL, which is above every issued ID.
Ids == [time : 1 .. MaxClock, count : 0 .. (MaxTxns - 1)]
ZeroId == [time |-> 0, count |-> 0]
TXN_ID_SENTINEL == [time |-> MaxClock + 1, count |-> MaxTxns]
AnyId == Ids \cup {ZeroId, TXN_ID_SENTINEL}

\* The lexicographic order that transaction_id_compare decides.
IdLess(a, b) == a.time < b.time \/ (a.time = b.time /\ a.count < b.count)
IdLeq(a, b) == a = b \/ IdLess(a, b)

txn_shard_index(id) == id.count % NShards

VARIABLES
  clock,                  \* CLOCK_REALTIME
  g_global_count,         \* the atomic counter behind transaction_id_get_next
  txns,                   \* shard -> IDs in the shard's active list
  min_txn_id,             \* shard -> the shard's minimum, SENTINEL if empty
  shard_lock,                   \* shard -> thread inside the shard lock
  min_active_txn_id,      \* the GC cutoff
  last_committed_txn_id,  \* the read point of new readers
  committed,              \* history: IDs whose descriptor became TXN_COMMITTED
  late,                   \* history: shards where an ID below the minimum has
                          \* registered since that minimum was set
  pc,                     \* thread -> where it stands
  id,                     \* thread -> txn_id of the descriptor it works on
  cur,                    \* thread -> local copy of an ID read without a lock
  idx                     \* thread -> loop index of recompute_global_min

shared == <<txns, min_txn_id, shard_lock, min_active_txn_id, last_committed_txn_id,
            committed, late>>
txVars == <<clock, g_global_count, shared, pc, id, cur, idx>>

PCs == {"idle",                           \* between calls
        "stamped", "numbered", "active",  \* tx_manager_begin
        "cas", "reread", "unlink",        \* tx_manager_commit, shard locked
        "check",                          \* after the shard lock is released
        "scan", "none_active", "store",   \* recompute_global_min
        "reload", "got_min"}              \* tx_manager_get_min_active

TxTypeOK ==
  /\ clock \in 1 .. MaxClock
  /\ g_global_count \in 0 .. MaxTxns
  /\ txns \in [TxShards -> SUBSET Ids]
  /\ min_txn_id \in [TxShards -> Ids \cup {TXN_ID_SENTINEL}]
  /\ shard_lock \in [TxShards -> Threads \cup {NoThread}]
  /\ min_active_txn_id \in AnyId
  /\ last_committed_txn_id \in Ids \cup {ZeroId}
  /\ committed \in SUBSET Ids
  /\ late \in SUBSET TxShards
  /\ pc \in [Threads -> PCs]
  /\ id \in [Threads -> Ids \cup {ZeroId}]
  /\ cur \in [Threads -> AnyId]
  /\ idx \in [Threads -> 0 .. NShards]

\* tx_manager_create.
TxInit ==
  /\ clock = 1
  /\ g_global_count = 0
  /\ txns = [s \in TxShards |-> {}]
  /\ min_txn_id = [s \in TxShards |-> TXN_ID_SENTINEL]
  /\ shard_lock = [s \in TxShards |-> NoThread]
  /\ min_active_txn_id = TXN_ID_SENTINEL
  /\ last_committed_txn_id = ZeroId
  /\ committed = {}
  /\ late = {}
  /\ pc = [t \in Threads |-> "idle"]
  /\ id = [t \in Threads |-> ZeroId]
  /\ cur = [t \in Threads |-> ZeroId]
  /\ idx = [t \in Threads |-> 0]

Goto(t, to) == pc' = [pc EXCEPT ![t] = to]

\* External: the wall clock moves; NTP may also step it back.
ClockStep ==
  /\ \E c \in 1 .. MaxClock : c # clock /\ clock' = c
  /\ UNCHANGED <<g_global_count, shared, pc, id, cur, idx>>

-----------------------------------------------------------------------------
(* tx_manager_begin *)

\* Bound: no more threads enter than there are IDs left to issue.
IdsLeft == g_global_count + Cardinality({u \in Threads : pc[u] = "stamped"}) < MaxTxns

\* transaction_id_get_next reads the clock ...
BeginStamp(t) ==
  /\ pc[t] = "idle"
  /\ IdsLeft
  /\ id' = [id EXCEPT ![t] = [time |-> clock, count |-> 0]]
  /\ Goto(t, "stamped")
  /\ UNCHANGED <<clock, g_global_count, shared, cur, idx>>

\* Mutant: the counter is read but not incremented.
BeginNumberNoIncrement(t) ==
  /\ pc[t] = "stamped"
  /\ g_global_count < MaxTxns
  /\ id' = [id EXCEPT ![t].count = g_global_count]
  /\ Goto(t, "numbered")
  /\ UNCHANGED <<clock, g_global_count, shared, cur, idx>>

\* ... and only then takes a number from the counter.
BeginNumber(t) ==
  /\ pc[t] = "stamped"
  /\ g_global_count < MaxTxns
  /\ id' = [id EXCEPT ![t].count = g_global_count]
  /\ g_global_count' = g_global_count + 1
  /\ Goto(t, "numbered")
  /\ UNCHANGED <<clock, shared, cur, idx>>

\* The critical section that makes the transaction visible in its shard.
BeginRegister(t) ==
  LET s == txn_shard_index(id[t]) IN
  /\ pc[t] = "numbered"
  /\ shard_lock[s] = NoThread
  /\ txns' = [txns EXCEPT ![s] = @ \cup {id[t]}]
  /\ min_txn_id' = [min_txn_id EXCEPT ![s] =
                      IF @ = TXN_ID_SENTINEL THEN id[t] ELSE @]
  /\ late' = IF min_txn_id[s] # TXN_ID_SENTINEL /\ IdLess(id[t], min_txn_id[s])
             THEN late \cup {s} ELSE late
  /\ Goto(t, "active")
  /\ UNCHANGED <<clock, g_global_count, shard_lock, min_active_txn_id,
                 last_committed_txn_id, committed, id, cur, idx>>

-----------------------------------------------------------------------------
(* tx_manager_commit and tx_manager_abort *)

\* Take the shard lock, mark the descriptor, read last_committed_txn_id.
CommitLock(t) ==
  LET s == txn_shard_index(id[t]) IN
  /\ pc[t] = "active"
  /\ shard_lock[s] = NoThread
  /\ shard_lock' = [shard_lock EXCEPT ![s] = t]
  /\ committed' = committed \cup {id[t]}
  /\ cur' = [cur EXCEPT ![t] = last_committed_txn_id]
  /\ Goto(t, "cas")
  /\ UNCHANGED <<clock, g_global_count, txns, min_txn_id, late, min_active_txn_id,
                 last_committed_txn_id, id, idx>>

\* Mutant: a failed CAS counts as success.
CommitCasGivesUp(t) ==
  /\ pc[t] = "cas"
  /\ last_committed_txn_id' = IF IdLess(cur[t], id[t]) /\ last_committed_txn_id = cur[t]
                              THEN id[t] ELSE last_committed_txn_id
  /\ Goto(t, "unlink")
  /\ UNCHANGED <<clock, g_global_count, txns, min_txn_id, late, shard_lock,
                 min_active_txn_id, committed, id, cur, idx>>

\* Mutant: compare and store in two steps instead of a CAS.
CommitCasBlind(t) ==
  /\ pc[t] = "cas"
  /\ last_committed_txn_id' = IF IdLess(cur[t], id[t]) THEN id[t]
                              ELSE last_committed_txn_id
  /\ Goto(t, "unlink")
  /\ UNCHANGED <<clock, g_global_count, txns, min_txn_id, late, shard_lock,
                 min_active_txn_id, committed, id, cur, idx>>

\* One turn of the CAS loop that raises last_committed_txn_id.
CommitCas(t) ==
  /\ pc[t] = "cas"
  /\ \/ /\ ~IdLess(cur[t], id[t])
        /\ Goto(t, "unlink")
        /\ UNCHANGED last_committed_txn_id
     \/ /\ IdLess(cur[t], id[t])
        /\ last_committed_txn_id = cur[t]
        /\ last_committed_txn_id' = id[t]
        /\ Goto(t, "unlink")
     \/ /\ IdLess(cur[t], id[t])
        /\ last_committed_txn_id # cur[t]
        /\ Goto(t, "reread")
        /\ UNCHANGED last_committed_txn_id
  /\ UNCHANGED <<clock, g_global_count, txns, min_txn_id, late, shard_lock,
                 min_active_txn_id, committed, id, cur, idx>>

\* Mutant: the loop goes on with the stale value.
CommitRereadStale(t) ==
  /\ pc[t] = "reread"
  /\ Goto(t, "cas")
  /\ UNCHANGED <<clock, g_global_count, shared, id, cur, idx>>

\* The re-read that a failed CAS needs, or the loop would never end.
CommitReread(t) ==
  /\ pc[t] = "reread"
  /\ cur' = [cur EXCEPT ![t] = last_committed_txn_id]
  /\ Goto(t, "cas")
  /\ UNCHANGED <<clock, g_global_count, shared, id, idx>>

MinOf(S) == CHOOSE x \in S : \A y \in S : IdLeq(x, y)

\* Mutant: a new minimum only when the shard became empty.
ShardMinAfterEmptyOnly(s, x) ==
  IF txns[s] \ {x} = {} THEN TXN_ID_SENTINEL ELSE min_txn_id[s]

\* Swap-and-pop from the active list; a new shard minimum when it was ours.
ShardMinAfter(s, x) ==
  LET rest == txns[s] \ {x}
  IN IF min_txn_id[s] = x \/ rest = {}
     THEN IF rest = {} THEN TXN_ID_SENTINEL ELSE MinOf(rest)
     ELSE min_txn_id[s]

Unlink(s, x) ==
  /\ late' = IF min_txn_id[s] = x THEN late \ {s} ELSE late
  /\ min_txn_id' = [min_txn_id EXCEPT ![s] = ShardMinAfter(s, x)]
  /\ txns' = [txns EXCEPT ![s] = @ \ {x}]

CommitUnlink(t) ==
  LET s == txn_shard_index(id[t]) IN
  /\ pc[t] = "unlink"
  /\ Unlink(s, id[t])
  /\ shard_lock' = [shard_lock EXCEPT ![s] = NoThread]
  /\ Goto(t, "check")
  /\ UNCHANGED <<clock, g_global_count, min_active_txn_id,
                 last_committed_txn_id, committed, id, cur, idx>>

\* Mutant: abort raises the read point as commit does.
AbortLikeCommit(t) ==
  LET s == txn_shard_index(id[t]) IN
  /\ pc[t] = "active"
  /\ shard_lock[s] = NoThread
  /\ Unlink(s, id[t])
  /\ last_committed_txn_id' = IF IdLess(last_committed_txn_id, id[t]) THEN id[t]
                              ELSE last_committed_txn_id
  /\ Goto(t, "check")
  /\ UNCHANGED <<clock, g_global_count, shard_lock, min_active_txn_id, committed,
                 id, cur, idx>>

\* tx_manager_abort holds the shard lock throughout and reads nothing global.
AbortTxn(t) ==
  LET s == txn_shard_index(id[t]) IN
  /\ pc[t] = "active"
  /\ shard_lock[s] = NoThread
  /\ Unlink(s, id[t])
  /\ Goto(t, "check")
  /\ UNCHANGED <<clock, g_global_count, shard_lock, min_active_txn_id,
                 last_committed_txn_id, committed, id, cur, idx>>

-----------------------------------------------------------------------------
(* recompute_global_min, and who calls it *)

StartScan(t) ==
  /\ Goto(t, "scan")
  /\ cur' = [cur EXCEPT ![t] = TXN_ID_SENTINEL]
  /\ idx' = [idx EXCEPT ![t] = 0]

\* The end of tx_manager_commit and tx_manager_abort: recompute only when this
\* transaction was the global minimum or there is none.
CheckGlobalMin(t) ==
  /\ pc[t] = "check"
  /\ IF min_active_txn_id \in {id[t], TXN_ID_SENTINEL}
     THEN StartScan(t)
     ELSE Goto(t, "idle") /\ UNCHANGED <<cur, idx>>
  /\ UNCHANGED <<clock, g_global_count, shared, id>>

\* tx_manager_get_min_active (called by tx_manager_gc): load, recompute once if
\* the cutoff was never computed, and load again.  cur[t] is the result.
GetMinActive(t) ==
  /\ pc[t] = "idle"
  /\ id' = [id EXCEPT ![t] = ZeroId]
  /\ IF min_active_txn_id = TXN_ID_SENTINEL
     THEN StartScan(t)
     ELSE /\ cur' = [cur EXCEPT ![t] = min_active_txn_id]
          /\ Goto(t, "got_min")
          /\ UNCHANGED idx
  /\ UNCHANGED <<clock, g_global_count, shared>>

\* One iteration: read one shard's minimum, no lock held.
ScanShard(t) ==
  LET m == min_txn_id[idx[t]] IN
  /\ pc[t] = "scan"
  /\ idx[t] < NShards
  /\ cur' = [cur EXCEPT ![t] =
               IF m # TXN_ID_SENTINEL /\ (@ = TXN_ID_SENTINEL \/ IdLess(m, @))
               THEN m ELSE @]
  /\ idx' = [idx EXCEPT ![t] = @ + 1]
  /\ UNCHANGED <<clock, g_global_count, shared, pc, id>>

ScanEnd(t) ==
  /\ pc[t] = "scan"
  /\ idx[t] = NShards
  /\ Goto(t, IF cur[t] = TXN_ID_SENTINEL THEN "none_active" ELSE "store")
  /\ UNCHANGED <<clock, g_global_count, shared, id, cur, idx>>

\* "No active transactions -- min_active = last_committed".
ScanNoneActive(t) ==
  /\ pc[t] = "none_active"
  /\ cur' = [cur EXCEPT ![t] = last_committed_txn_id]
  /\ Goto(t, "store")
  /\ UNCHANGED <<clock, g_global_count, shared, id, idx>>

\* The store, and the return to commit/abort or to tx_manager_get_min_active
\* (a thread that serves no transaction has id = ZeroId).
StoreGlobalMin(t) ==
  /\ pc[t] = "store"
  /\ min_active_txn_id' = cur[t]
  /\ Goto(t, IF id[t] = ZeroId THEN "reload" ELSE "idle")
  /\ UNCHANGED <<clock, g_global_count, txns, min_txn_id, late, shard_lock,
                 last_committed_txn_id, committed, id, cur, idx>>

GetMinActiveReload(t) ==
  /\ pc[t] = "reload"
  /\ cur' = [cur EXCEPT ![t] = min_active_txn_id]
  /\ Goto(t, "got_min")
  /\ UNCHANGED <<clock, g_global_count, shared, id, idx>>

\* The caller of tx_manager_get_min_active has used the cutoff.
MinActiveDone(t) ==
  /\ pc[t] = "got_min"
  /\ Goto(t, "idle")
  /\ UNCHANGED <<clock, g_global_count, shared, id, cur, idx>>

-----------------------------------------------------------------------------

CommitSteps(t) == CommitCas(t) \/ CommitReread(t) \/ CommitUnlink(t)

RecomputeSteps(t) ==
  \/ CheckGlobalMin(t) \/ ScanShard(t) \/ ScanEnd(t) \/ ScanNoneActive(t)
  \/ StoreGlobalMin(t) \/ GetMinActiveReload(t)

ThreadStep(t) ==
  \/ BeginStamp(t) \/ BeginNumber(t) \/ BeginRegister(t)
  \/ CommitLock(t) \/ CommitSteps(t) \/ AbortTxn(t)
  \/ GetMinActive(t) \/ RecomputeSteps(t) \/ MinActiveDone(t)

TxNext == ClockStep \/ \E t \in Threads : ThreadStep(t)

TxSpec == TxInit /\ [][TxNext]_txVars

-----------------------------------------------------------------------------
(* Properties *)

Registered(t) == pc[t] \in {"active", "cas", "reread", "unlink"}

\* No two transactions ever work under one ID, although the clock reading and
\* the count are taken in two steps and the clock may stand still or go back.
IdsUnique ==
  \A t, u \in Threads :
    /\ t # u
    /\ pc[t] \in {"numbered", "active", "cas", "reread", "unlink"}
    /\ pc[u] \in {"numbered", "active", "cas", "reread", "unlink"}
    => id[t].count # id[u].count

\* Read your writes: once the CAS loop of tx_manager_commit is over, every
\* committed transaction is at or below last_committed_txn_id, whatever the
\* order in which concurrent commits interleave their reads and CASes.
CommittedIsReadable ==
  \A x \in committed :
    \/ IdLeq(x, last_committed_txn_id)
    \/ \E t \in Threads : pc[t] \in {"cas", "reread"} /\ id[t] = x

\* The read point is the ID of a committed transaction, never of one that is
\* still running or was aborted.
ReadPointIsCommitted == last_committed_txn_id \in committed \cup {ZeroId}

\* Concurrent commits never move the read point backwards.
ReadPointMonotonic ==
  [][IdLeq(last_committed_txn_id, last_committed_txn_id')]_last_committed_txn_id

ShardMinLeast(s) == \A x \in txns[s] : IdLeq(min_txn_id[s], x)

\* The active list of a shard holds exactly the transactions that have begun and
\* not ended; its minimum is SENTINEL when the list is empty and otherwise one
\* of them, and the least of them unless a smaller ID has registered since it
\* was set (tx_manager_begin draws the ID before it takes the shard lock).
ShardBookkeeping ==
  \A s \in TxShards :
    /\ txns[s] = {id[t] : t \in {u \in Threads :
                      Registered(u) /\ txn_shard_index(id[u]) = s}}
    /\ min_txn_id[s] \in IF txns[s] = {} THEN {TXN_ID_SENTINEL} ELSE txns[s]
    /\ s \notin late => ShardMinLeast(s)

\* The comment in tx_manager_begin: "new IDs are always >= current shard min
\* because IDs are monotonically increasing".  Two threads may register in the
\* other order than they drew their IDs, and this does not hold.
ShardMinBelow == \A s \in TxShards : ShardMinLeast(s)

\* A commit that has entered its CAS loop returns: the loop re-reads the value
\* another commit installed (the livelock the comment at the re-read describes).
CommitReturns ==
  \A t \in Threads : pc[t] \in {"cas", "reread"} ~> pc[t] = "idle"

=============================================================================
