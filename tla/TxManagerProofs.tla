--------------------------- MODULE TxManagerProofs ---------------------------
(***************************************************************************)
(* Proofs about the transaction manager for any number of threads, shards, *)
(* clock readings and transactions.                                        *)
(***************************************************************************)
EXTENDS TxManager, WellFoundedInduction, TLAPS

USE TxManagerAssumption

-----------------------------------------------------------------------------
(* The order on IDs, and the least ID of a set *)

\* IDs are records of two natural numbers.
LEMMA IdFields ==
  \A x \in AnyId : x.time \in Nat /\ x.count \in Nat
BY DEF AnyId, Ids, ZeroId, TXN_ID_SENTINEL

\* transaction_id_compare orders IDs transitively.
LEMMA IdTransitive ==
  ASSUME NEW a \in AnyId, NEW b \in AnyId, NEW c \in AnyId,
         IdLeq(a, b), IdLeq(b, c)
  PROVE  IdLeq(a, c)
BY IdFields DEF IdLeq, IdLess

\* A non-empty set of natural numbers has a least element.
LEMMA LeastNat ==
  ASSUME NEW T \in SUBSET Nat, T # {}
  PROVE  \E x \in T : \A y \in T : x <= y
<1> DEFINE R == OpToRel(<, Nat)
<1>1. \A x, y \in Nat : y < x => <<y, x>> \in R
  BY DEF OpToRel
<1>2. IsWellFoundedOn(R, Nat)
  BY NatLessThanWellFounded
<1> HIDE DEF R
<1>3. PICK x \in T : \A y \in T : ~ (<<y, x>> \in R)
  BY <1>2, WFMin
<1>4. \A y \in T : ~ (y < x)
  BY <1>1, <1>3
<1>5. x \in Nat /\ \A y \in T : y \in Nat
  BY <1>3
<1> QED
  BY <1>3, <1>4, <1>5

\* The minimum that commit and abort compute is an element of the active list.
LEMMA MinOfMember ==
  ASSUME NEW S \in SUBSET Ids, S # {}
  PROVE  MinOf(S) \in S /\ \A y \in S : IdLeq(MinOf(S), y)
<1> DEFINE times == {x.time : x \in S}
<1>1. PICK t \in times : \A u \in times : t <= u
  <2>1. times \in SUBSET Nat /\ times # {}
    BY DEF Ids
  <2> QED
    BY <2>1, LeastNat
<1> DEFINE counts == {x.count : x \in {y \in S : y.time = t}}
<1>2. PICK c \in counts : \A u \in counts : c <= u
  <2>1. counts \in SUBSET Nat /\ counts # {}
    BY <1>1 DEF Ids
  <2> QED
    BY <2>1, LeastNat
<1>3. PICK x \in S : x.time = t /\ x.count = c
  BY <1>2
<1>4. ASSUME NEW y \in S PROVE IdLeq(x, y)
  <2>1. t <= y.time
    BY <1>1
  <2>2. y.time = t => c <= y.count
    BY <1>2
  <2>3. x.time \in Nat /\ x.count \in Nat /\ y.time \in Nat /\ y.count \in Nat
    BY DEF Ids
  <2>4. x.time = y.time /\ x.count = y.count => x = y
    BY DEF Ids
  <2> QED
    BY <1>3, <2>1, <2>2, <2>3, <2>4 DEF IdLeq, IdLess
<1> QED
  BY <1>3, <1>4 DEF MinOf

\* Two different IDs are ordered one way or the other.
LEMMA IdTotal ==
  ASSUME NEW a \in AnyId, NEW b \in AnyId, ~IdLess(a, b)
  PROVE  IdLeq(b, a)
<1>1. a.time \in Nat /\ a.count \in Nat /\ b.time \in Nat /\ b.count \in Nat
  BY IdFields
<1>2. a.time = b.time /\ a.count = b.count => a = b
  BY DEF AnyId, Ids, ZeroId, TXN_ID_SENTINEL
<1> QED
  BY <1>1, <1>2 DEF IdLeq, IdLess

\* Every ID belongs to a shard.
LEMMA ShardOfId ==
  ASSUME NEW x \in Ids
  PROVE  txn_shard_index(x) \in TxShards
<1>1. x.count \in Nat
  BY DEF Ids
<1> QED
  BY <1>1 DEF txn_shard_index, TxShards

-----------------------------------------------------------------------------
(* The inductive invariant *)

\* The thread holds an ID whose time, or whose time and count, are drawn.
Stamped(t) == pc[t] \in {"stamped", "numbered", "active", "cas", "reread", "unlink"}
Numbered(t) == pc[t] \in {"numbered", "active", "cas", "reread", "unlink"}

\* An ID in use was issued by transaction_id_get_next.
IdInv ==
  \A t \in Threads :
    /\ Stamped(t) => id[t] \in Ids
    /\ Numbered(t) => id[t].count < g_global_count

\* Inside the CAS loop the transaction is marked committed, and the value the
\* loop compares with was a read point and is not above the present one.
CasInv ==
  \A t \in Threads :
    /\ pc[t] \in {"cas", "reread"} => id[t] \in committed
    /\ pc[t] = "cas" => cur[t] \in Ids \cup {ZeroId}
                        /\ IdLeq(cur[t], last_committed_txn_id)

IInv ==
  /\ TxTypeOK
  /\ IdInv
  /\ IdsUnique
  /\ CasInv
  /\ CommittedIsReadable
  /\ ReadPointIsCommitted
  /\ ShardBookkeeping

\* The invariant holds at the start.
LEMMA InitIInv == TxInit => IInv
<1> SUFFICES ASSUME TxInit PROVE IInv
  OBVIOUS
<1>1. TxTypeOK
  BY DEF TxInit, TxTypeOK, AnyId, PCs
<1>2. IdInv /\ IdsUnique /\ CasInv /\ CommittedIsReadable /\ ReadPointIsCommitted
  BY DEF TxInit, IdInv, IdsUnique, CasInv, CommittedIsReadable,
         ReadPointIsCommitted, Stamped, Numbered
<1>3. ShardBookkeeping
  BY DEF TxInit, ShardBookkeeping, ShardMinLeast, Registered
<1> QED
  BY <1>1, <1>2, <1>3 DEF IInv

\* What ShardMinAfter returns is SENTINEL for a list that becomes empty and
\* otherwise a member of it.
LEMMA ShardMinMember ==
  ASSUME TxTypeOK, ShardBookkeeping, NEW s \in TxShards, NEW x
  PROVE  LET rest == txns[s] \ {x} IN
         ShardMinAfter(s, x) \in IF rest = {} THEN {TXN_ID_SENTINEL} ELSE rest
<1> DEFINE rest == txns[s] \ {x}
<1>1. rest \in SUBSET Ids
  BY DEF TxTypeOK
<1>2. CASE rest = {}
  BY <1>2 DEF ShardMinAfter
<1>3. CASE rest # {} /\ min_txn_id[s] = x
  <2>1. MinOf(rest) \in rest
    BY <1>1, <1>3, MinOfMember
  <2> QED
    BY <1>3, <2>1 DEF ShardMinAfter
<1>4. CASE rest # {} /\ min_txn_id[s] # x
  BY <1>4 DEF ShardMinAfter, ShardBookkeeping
<1> QED
  BY <1>2, <1>3, <1>4

-----------------------------------------------------------------------------
(* Each step preserves each part of the invariant *)

\* Every step keeps the types.
LEMMA TypeStep ==
  ASSUME IInv, [TxNext]_txVars
  PROVE  TxTypeOK'
<1> USE DEF IInv, TxTypeOK, Goto, shared, PCs, AnyId
<1>1. CASE ClockStep
  BY <1>1 DEF ClockStep
<1>2. ASSUME NEW t \in Threads, BeginStamp(t) PROVE TxTypeOK'
  <2>1. [time |-> clock, count |-> 0] \in Ids
    BY DEF Ids
  <2> QED
    BY <1>2, <2>1 DEF BeginStamp
<1>3. ASSUME NEW t \in Threads, BeginNumber(t) PROVE TxTypeOK'
  <2>1. id[t] \in Ids
    BY <1>3 DEF BeginNumber, IdInv, Stamped
  <2>2. [id[t] EXCEPT !.count = g_global_count] \in Ids
    BY <1>3, <2>1 DEF BeginNumber, Ids
  <2>3. g_global_count + 1 \in 0 .. MaxTxns
    BY <1>3 DEF BeginNumber
  <2> QED
    BY <1>3, <2>2, <2>3 DEF BeginNumber
<1>4. ASSUME NEW t \in Threads, BeginRegister(t) PROVE TxTypeOK'
  <2>1. id[t] \in Ids
    BY <1>4 DEF BeginRegister, IdInv, Stamped
  <2>2. txn_shard_index(id[t]) \in TxShards
    BY <2>1, ShardOfId
  <2> QED
    BY <1>4, <2>1, <2>2 DEF BeginRegister
<1>5. ASSUME NEW t \in Threads, CommitLock(t) PROVE TxTypeOK'
  <2>1. id[t] \in Ids
    BY <1>5 DEF CommitLock, IdInv, Stamped
  <2> QED
    BY <1>5, <2>1 DEF CommitLock
<1>6. ASSUME NEW t \in Threads, CommitCas(t) PROVE TxTypeOK'
  <2>1. id[t] \in Ids
    BY <1>6 DEF CommitCas, IdInv, Stamped
  <2> QED
    BY <1>6, <2>1 DEF CommitCas
<1>7. ASSUME NEW t \in Threads, CommitReread(t) PROVE TxTypeOK'
  BY <1>7 DEF CommitReread
<1>8. ASSUME NEW t \in Threads, CommitUnlink(t) \/ AbortTxn(t) PROVE TxTypeOK'
  <2> DEFINE s == txn_shard_index(id[t])
  <2>1. id[t] \in Ids
    BY <1>8 DEF CommitUnlink, AbortTxn, IdInv, Stamped
  <2>2. s \in TxShards
    BY <2>1, ShardOfId
  <2>3. ShardMinAfter(s, id[t]) \in Ids \cup {TXN_ID_SENTINEL}
    BY <2>2, ShardMinMember
  <2> QED
    BY <1>8, <2>3 DEF CommitUnlink, AbortTxn, Unlink
<1>9. ASSUME NEW t \in Threads, CheckGlobalMin(t) \/ GetMinActive(t) PROVE TxTypeOK'
  BY <1>9 DEF CheckGlobalMin, GetMinActive, StartScan
<1>10. ASSUME NEW t \in Threads, ScanShard(t) PROVE TxTypeOK'
  <2>1. idx[t] \in TxShards
    BY <1>10 DEF ScanShard, TxShards
  <2>2. min_txn_id[idx[t]] \in AnyId
    BY <2>1
  <2> QED
    BY <1>10, <2>2 DEF ScanShard
<1>11. ASSUME NEW t \in Threads,
              ScanEnd(t) \/ ScanNoneActive(t) \/ StoreGlobalMin(t)
              \/ GetMinActiveReload(t) \/ MinActiveDone(t)
       PROVE  TxTypeOK'
  BY <1>11 DEF ScanEnd, ScanNoneActive, StoreGlobalMin, GetMinActiveReload,
               MinActiveDone
<1>12. CASE UNCHANGED txVars
  BY <1>12 DEF txVars
<1> QED
  BY <1>1, <1>2, <1>3, <1>4, <1>5, <1>6, <1>7, <1>8, <1>9, <1>10, <1>11, <1>12
     DEF TxNext, ThreadStep, CommitSteps, RecomputeSteps

\* The steps of CheckGlobalMin, tx_manager_get_min_active and
\* recompute_global_min.
Recomputing(t) == CheckGlobalMin(t) \/ GetMinActive(t) \/ ScanShard(t) \/ ScanEnd(t)
                  \/ ScanNoneActive(t) \/ StoreGlobalMin(t)
                  \/ GetMinActiveReload(t) \/ MinActiveDone(t)

\* They work outside transactions: no thread that holds an ID is concerned, and
\* lists, committed set and read point stay.
LEMMA RecomputingFrame ==
  ASSUME TxTypeOK, NEW t \in Threads, Recomputing(t)
  PROVE  /\ UNCHANGED <<g_global_count, txns, min_txn_id, committed,
                        last_committed_txn_id, late>>
         /\ ~Stamped(t) /\ ~Stamped(t)'
         /\ \A u \in Threads \ {t} : pc'[u] = pc[u] /\ id'[u] = id[u] /\ cur'[u] = cur[u]
BY DEF TxTypeOK, Recomputing, CheckGlobalMin, GetMinActive, StartScan, ScanShard,
       ScanEnd, ScanNoneActive, StoreGlobalMin, GetMinActiveReload,
       MinActiveDone, Goto, shared, Stamped

\* Every step keeps the IDs in order and unique.
LEMMA IdStep ==
  ASSUME IInv, [TxNext]_txVars
  PROVE  IdInv' /\ IdsUnique'
<1> USE DEF IInv, TxTypeOK, IdInv, IdsUnique, Stamped, Numbered, Goto, shared
<1>1. CASE ClockStep
  BY <1>1 DEF ClockStep
<1>2. ASSUME NEW t \in Threads, BeginStamp(t) PROVE IdInv' /\ IdsUnique'
  <2>1. [time |-> clock, count |-> 0] \in Ids
    BY DEF Ids
  <2> QED
    BY <1>2, <2>1 DEF BeginStamp
<1>3. ASSUME NEW t \in Threads, BeginNumber(t) PROVE IdInv' /\ IdsUnique'
  <2>1. id[t] \in Ids
    BY <1>3 DEF BeginNumber
  <2>2. id'[t] \in Ids /\ id'[t].count = g_global_count
    BY <1>3, <2>1 DEF BeginNumber, Ids
  <2>3. \A u \in Threads \ {t} : id'[u] = id[u] /\ pc'[u] = pc[u]
    BY <1>3 DEF BeginNumber
  <2>4. \A u \in Threads \ {t} : Numbered(u) => id[u].count < g_global_count
    OBVIOUS
  <2>5. \A u \in Threads : Numbered(u) => id[u].count \in Nat
    BY DEF Ids
  <2>6. g_global_count' = g_global_count + 1 /\ g_global_count \in Nat
    BY <1>3 DEF BeginNumber
  <2>7. IdInv'
    BY <2>2, <2>3, <2>5, <2>6
  <2>8. IdsUnique'
    BY <2>2, <2>3, <2>4, <2>5, <2>6
  <2> QED
    BY <2>7, <2>8
<1>4. ASSUME NEW t \in Threads,
             BeginRegister(t) \/ CommitLock(t) \/ CommitCas(t) \/ CommitReread(t)
             \/ CommitUnlink(t) \/ AbortTxn(t)
      PROVE  IdInv' /\ IdsUnique'
  BY <1>4 DEF BeginRegister, CommitLock, CommitCas, CommitReread, CommitUnlink, AbortTxn
<1>5. ASSUME NEW t \in Threads, Recomputing(t) PROVE IdInv' /\ IdsUnique'
  BY <1>5, RecomputingFrame
<1>6. CASE UNCHANGED txVars
  BY <1>6 DEF txVars
<1> QED
  BY <1>1, <1>2, <1>3, <1>4, <1>5, <1>6
     DEF TxNext, ThreadStep, CommitSteps, RecomputeSteps, Recomputing

\* The commit protocol: what a commit has read stays at or below the read
\* point, and a committed transaction is readable or still in its CAS loop.
LEMMA CommitStep ==
  ASSUME IInv, [TxNext]_txVars
  PROVE  /\ CasInv' /\ CommittedIsReadable' /\ ReadPointIsCommitted'
         /\ IdLeq(last_committed_txn_id, last_committed_txn_id')
<1> DEFINE Goal == /\ CasInv' /\ CommittedIsReadable' /\ ReadPointIsCommitted'
                   /\ IdLeq(last_committed_txn_id, last_committed_txn_id')
<1> USE DEF IInv, TxTypeOK, CasInv, CommittedIsReadable, ReadPointIsCommitted, Goto, shared
<1>1. CASE ClockStep
  BY <1>1 DEF ClockStep, IdLeq
<1>2. ASSUME NEW t \in Threads, BeginStamp(t) \/ BeginNumber(t) \/ BeginRegister(t)
      PROVE  Goal
  BY <1>2 DEF BeginStamp, BeginNumber, BeginRegister, IdLeq
<1>3. ASSUME NEW t \in Threads, CommitLock(t) PROVE Goal
  BY <1>3 DEF CommitLock, IdLeq
<1>4. ASSUME NEW t \in Threads, CommitCas(t) PROVE Goal
  <2>1. id[t] \in Ids /\ cur[t] \in AnyId /\ last_committed_txn_id \in AnyId
    BY <1>4 DEF CommitCas, IdInv, Stamped, AnyId
  <2>2. CASE ~IdLess(cur[t], id[t])
    <3>1. IdLeq(id[t], cur[t])
      BY <2>1, <2>2, IdTotal DEF AnyId
    <3>2. IdLeq(id[t], last_committed_txn_id)
      BY <1>4, <2>1, <3>1, IdTransitive DEF CommitCas, AnyId
    <3> QED
      BY <1>4, <2>2, <3>2 DEF CommitCas, IdLeq
  <2>3. CASE IdLess(cur[t], id[t]) /\ last_committed_txn_id = cur[t]
    <3>1. last_committed_txn_id' = id[t] /\ id' = id /\ cur' = cur /\ committed' = committed
      BY <1>4, <2>3 DEF CommitCas
    <3>2. IdLeq(last_committed_txn_id, id[t]) /\ IdLeq(id[t], id[t])
      BY <2>3 DEF IdLeq
    <3>3. \A x \in Ids \cup {ZeroId} : IdLeq(x, last_committed_txn_id) => IdLeq(x, id[t])
      BY <2>1, <3>2, IdTransitive DEF AnyId
    <3>4. pc'[t] = "unlink" /\ \A u \in Threads \ {t} : pc'[u] = pc[u]
      BY <1>4, <2>3 DEF CommitCas
    <3>5. CasInv'
      BY <3>1, <3>3, <3>4
    <3>6. CommittedIsReadable'
      BY <3>1, <3>2, <3>3, <3>4
    <3>7. ReadPointIsCommitted'
      BY <1>4, <3>1 DEF CommitCas
    <3> QED
      BY <3>1, <3>2, <3>5, <3>6, <3>7
  <2>4. CASE IdLess(cur[t], id[t]) /\ last_committed_txn_id # cur[t]
    BY <1>4, <2>4 DEF CommitCas, IdLeq
  <2> QED
    BY <2>2, <2>3, <2>4
<1>5. ASSUME NEW t \in Threads, CommitReread(t) PROVE Goal
  BY <1>5 DEF CommitReread, IdLeq
<1>6. ASSUME NEW t \in Threads, CommitUnlink(t) \/ AbortTxn(t) PROVE Goal
  BY <1>6 DEF CommitUnlink, AbortTxn, IdLeq
<1>7. ASSUME NEW t \in Threads, Recomputing(t) PROVE Goal
  BY <1>7, RecomputingFrame DEF Stamped, IdLeq
<1>8. CASE UNCHANGED txVars
  BY <1>8 DEF txVars, IdLeq
<1> QED
  BY <1>1, <1>2, <1>3, <1>4, <1>5, <1>6, <1>7, <1>8
     DEF TxNext, ThreadStep, CommitSteps, RecomputeSteps, Recomputing

\* The active lists follow the running transactions through registration and
\* swap-and-pop.
LEMMA ShardStep ==
  ASSUME IInv, [TxNext]_txVars
  PROVE  ShardBookkeeping'
<1> USE DEF IInv, TxTypeOK, Goto, shared
<1>1. CASE ClockStep
  BY <1>1 DEF ClockStep, ShardBookkeeping, ShardMinLeast, Registered
<1>2. ASSUME NEW t \in Threads,
             BeginStamp(t) \/ BeginNumber(t) \/ CommitLock(t) \/ CommitCas(t)
             \/ CommitReread(t) \/ Recomputing(t)
      PROVE  ShardBookkeeping'
  <2>1. UNCHANGED <<txns, min_txn_id, late>>
    BY <1>2, RecomputingFrame DEF BeginStamp, BeginNumber, CommitLock, CommitCas, CommitReread
  <2>2. \A u \in Threads : Registered(u)' <=> Registered(u)
    BY <1>2, RecomputingFrame DEF BeginStamp, BeginNumber, CommitLock, CommitCas,
       CommitReread, Registered, Stamped
  <2>3. \A u \in Threads : Registered(u) => id'[u] = id[u]
    BY <1>2, RecomputingFrame DEF BeginStamp, BeginNumber, CommitLock, CommitCas,
       CommitReread, Registered, Stamped
  <2>4. ASSUME NEW s \in TxShards
        PROVE  {id[u] : u \in {v \in Threads : Registered(v) /\ txn_shard_index(id[v]) = s}}
               = {id'[u] : u \in {v \in Threads : Registered(v)' /\ txn_shard_index(id'[v]) = s}}
    BY <2>2, <2>3
  <2> QED
    BY <2>1, <2>4 DEF ShardBookkeeping, ShardMinLeast, txn_shard_index
<1>3. ASSUME NEW t \in Threads, BeginRegister(t) PROVE ShardBookkeeping'
  <2> DEFINE sh == txn_shard_index(id[t])
  <2>1. id[t] \in Ids /\ sh \in TxShards
    BY <1>3, ShardOfId DEF BeginRegister, IdInv, Stamped
  <2>2. id[t] # TXN_ID_SENTINEL
    BY <2>1 DEF Ids, TXN_ID_SENTINEL
  <2>3. /\ id' = id /\ pc[t] = "numbered" /\ pc'[t] = "active"
        /\ \A u \in Threads \ {t} : pc'[u] = pc[u]
        /\ txns' = [txns EXCEPT ![sh] = @ \cup {id[t]}]
        /\ min_txn_id' = [min_txn_id EXCEPT ![sh] =
                            IF @ = TXN_ID_SENTINEL THEN id[t] ELSE @]
        /\ late' = IF min_txn_id[sh] # TXN_ID_SENTINEL /\ IdLess(id[t], min_txn_id[sh])
                   THEN late \cup {sh} ELSE late
    BY <1>3 DEF BeginRegister
  <2>4. \A u \in Threads : Registered(u)' <=> Registered(u) \/ u = t
    BY <2>3 DEF Registered
  <2>5. ASSUME NEW s \in TxShards
        PROVE  txns'[s] = {id'[u] : u \in {v \in Threads :
                              Registered(v)' /\ txn_shard_index(id'[v]) = s}}
    BY <2>1, <2>3, <2>4 DEF ShardBookkeeping
  <2>6. ASSUME NEW s \in TxShards
        PROVE  min_txn_id'[s] \in IF txns'[s] = {} THEN {TXN_ID_SENTINEL} ELSE txns'[s]
    BY <2>1, <2>2, <2>3 DEF ShardBookkeeping
  <2>7. ASSUME NEW s \in TxShards, s \notin late' PROVE ShardMinLeast(s)'
    <3>1. CASE s # sh
      BY <2>1, <2>3, <2>7, <3>1 DEF ShardBookkeeping, ShardMinLeast
    <3>2. CASE s = sh /\ min_txn_id[sh] = TXN_ID_SENTINEL
      <4>1. txns[sh] = {}
        <5>1. TXN_ID_SENTINEL \notin txns[sh]
          BY <2>1 DEF Ids, TXN_ID_SENTINEL
        <5> QED
          BY <2>1, <3>2, <5>1 DEF ShardBookkeeping
      <4>2. txns'[s] = {id[t]} /\ min_txn_id'[s] = id[t]
        BY <2>1, <2>3, <3>2, <4>1
      <4> QED
        BY <4>2 DEF ShardMinLeast, IdLeq
    <3>3. CASE s = sh /\ min_txn_id[sh] # TXN_ID_SENTINEL
      <4>1. txns'[s] = txns[s] \cup {id[t]} /\ min_txn_id'[s] = min_txn_id[s]
        BY <2>1, <2>3, <3>3
      <4>2. ~IdLess(id[t], min_txn_id[s]) /\ s \notin late
        BY <2>3, <2>7, <3>3
      <4>3. id[t] \in AnyId /\ min_txn_id[s] \in AnyId
        BY <2>1 DEF AnyId
      <4>4. IdLeq(min_txn_id[s], id[t])
        BY <4>2, <4>3, IdTotal
      <4>5. \A x \in txns[s] : IdLeq(min_txn_id[s], x)
        BY <4>2 DEF ShardBookkeeping, ShardMinLeast
      <4> QED
        BY <4>1, <4>4, <4>5 DEF ShardMinLeast
    <3> QED
      BY <3>1, <3>2, <3>3
  <2> QED
    BY <2>5, <2>6, <2>7 DEF ShardBookkeeping, txn_shard_index
<1>4. ASSUME NEW t \in Threads, CommitUnlink(t) \/ AbortTxn(t) PROVE ShardBookkeeping'
  <2> DEFINE sh == txn_shard_index(id[t])
  <2>1. id[t] \in Ids /\ sh \in TxShards
    BY <1>4, ShardOfId DEF CommitUnlink, AbortTxn, IdInv, Stamped
  <2>2. /\ id' = id /\ Registered(t) /\ pc'[t] = "check"
        /\ \A u \in Threads \ {t} : pc'[u] = pc[u]
        /\ txns' = [txns EXCEPT ![sh] = @ \ {id[t]}]
        /\ min_txn_id' = [min_txn_id EXCEPT ![sh] = ShardMinAfter(sh, id[t])]
        /\ late' = IF min_txn_id[sh] = id[t] THEN late \ {sh} ELSE late
    BY <1>4 DEF CommitUnlink, AbortTxn, Unlink, Registered
  <2>3. \A u \in Threads : Registered(u)' <=> Registered(u) /\ u # t
    BY <2>2 DEF Registered
  <2>4. \A u \in Threads : Registered(u) /\ u # t => id[u] # id[t]
    BY <2>2 DEF IdsUnique, Registered
  <2>5. ASSUME NEW s \in TxShards
        PROVE  txns'[s] = {id'[u] : u \in {v \in Threads :
                              Registered(v)' /\ txn_shard_index(id'[v]) = s}}
    <3>1. CASE s = sh
      <4>1. txns[s] = {id[u] : u \in {v \in Threads :
                              Registered(v) /\ txn_shard_index(id[v]) = s}}
        BY DEF ShardBookkeeping
      <4>2. txns'[s] = txns[s] \ {id[t]}
        BY <2>1, <2>2, <3>1
      <4> QED
        BY <2>2, <2>3, <2>4, <4>1, <4>2
    <3>2. CASE s # sh
      BY <2>1, <2>2, <2>3, <3>2 DEF ShardBookkeeping
    <3> QED
      BY <3>1, <3>2
  <2>6. ShardMinAfter(sh, id[t]) \in
          IF txns[sh] \ {id[t]} = {} THEN {TXN_ID_SENTINEL} ELSE txns[sh] \ {id[t]}
    BY <2>1, ShardMinMember
  <2>7. ASSUME NEW s \in TxShards
        PROVE  min_txn_id'[s] \in IF txns'[s] = {} THEN {TXN_ID_SENTINEL} ELSE txns'[s]
    BY <2>1, <2>2, <2>6 DEF ShardBookkeeping
  <2>8. ASSUME NEW s \in TxShards, s \notin late' PROVE ShardMinLeast(s)'
    <3> DEFINE rest == txns[sh] \ {id[t]}
    <3>1. CASE s # sh
      BY <2>1, <2>2, <2>8, <3>1 DEF ShardBookkeeping, ShardMinLeast
    <3>2. CASE s = sh
      <4>1. txns'[s] = rest /\ min_txn_id'[s] = ShardMinAfter(sh, id[t])
        BY <2>1, <2>2, <3>2
      <4>2. CASE rest = {}
        BY <4>1, <4>2 DEF ShardMinLeast
      <4>3. CASE rest # {} /\ min_txn_id[sh] = id[t]
        <5>1. ShardMinAfter(sh, id[t]) = MinOf(rest)
          BY <4>3 DEF ShardMinAfter
        <5>2. rest \in SUBSET Ids
          BY <2>1
        <5>3. \A y \in rest : IdLeq(MinOf(rest), y)
          BY <4>3, <5>2, MinOfMember
        <5> QED
          BY <4>1, <5>1, <5>3 DEF ShardMinLeast
      <4>4. CASE rest # {} /\ min_txn_id[sh] # id[t]
        <5>1. ShardMinAfter(sh, id[t]) = min_txn_id[sh] /\ sh \notin late
          BY <2>2, <2>8, <3>2, <4>4 DEF ShardMinAfter
        <5>2. \A x \in txns[sh] : IdLeq(min_txn_id[sh], x)
          BY <2>1, <5>1 DEF ShardBookkeeping, ShardMinLeast
        <5> QED
          BY <4>1, <5>1, <5>2 DEF ShardMinLeast
      <4> QED
        BY <4>2, <4>3, <4>4
    <3> QED
      BY <3>1, <3>2
  <2> QED
    BY <2>5, <2>7, <2>8 DEF ShardBookkeeping, txn_shard_index
<1>5. CASE UNCHANGED txVars
  BY <1>5 DEF txVars, ShardBookkeeping, ShardMinLeast, Registered
<1> QED
  BY <1>1, <1>2, <1>3, <1>4, <1>5
     DEF TxNext, ThreadStep, CommitSteps, RecomputeSteps, Recomputing

-----------------------------------------------------------------------------
(* The theorems *)

\* The invariant is inductive.
THEOREM Inductive == TxSpec => []IInv
<1>1. IInv /\ [TxNext]_txVars => IInv'
  BY TypeStep, IdStep, CommitStep, ShardStep DEF IInv
<1> QED
  BY InitIInv, <1>1, PTL DEF TxSpec

\* tx_manager keeps its types: in particular last_committed_txn_id is always
\* the zero ID or an issued one, never TXN_ID_SENTINEL.
THEOREM TypeCorrect == TxSpec => []TxTypeOK
<1>1. IInv => TxTypeOK
  BY DEF IInv
<1> QED
  BY Inductive, <1>1, PTL

\* transaction_id_get_next never gives two running transactions one count.
THEOREM UniqueIds == TxSpec => []IdsUnique
<1>1. IInv => IdsUnique
  BY DEF IInv
<1> QED
  BY Inductive, <1>1, PTL

\* Every transaction whose tx_manager_commit is past its CAS loop is at or
\* below the read point that the next reader takes.
THEOREM ReadYourWrites == TxSpec => []CommittedIsReadable
<1>1. IInv => CommittedIsReadable
  BY DEF IInv
<1> QED
  BY Inductive, <1>1, PTL

\* The read point is always the ID of a committed transaction.
THEOREM ReadsCommitted == TxSpec => []ReadPointIsCommitted
<1>1. IInv => ReadPointIsCommitted
  BY DEF IInv
<1> QED
  BY Inductive, <1>1, PTL

\* Registration and swap-and-pop keep every shard's list and minimum in step
\* with the running transactions.
THEOREM ShardsExact == TxSpec => []ShardBookkeeping
<1>1. IInv => ShardBookkeeping
  BY DEF IInv
<1> QED
  BY Inductive, <1>1, PTL

\* No step of any thread lowers the read point.
THEOREM MonotonicReads == TxSpec => ReadPointMonotonic
<1>1. IInv /\ [TxNext]_txVars =>
        [IdLeq(last_committed_txn_id, last_committed_txn_id')]_last_committed_txn_id
  BY CommitStep
<1> QED
  BY Inductive, <1>1, PTL DEF TxSpec, ReadPointMonotonic

=============================================================================
