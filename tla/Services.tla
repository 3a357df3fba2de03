------------------------------ MODULE Services ------------------------------
(***************************************************************************)
(* The parts below the trie that share no state: the page cache, the cache *)
(* of values, the block allocator and the timing wheel.  Each is a         *)
(* component of its own; a behaviour exercises one of them, chosen at the  *)
(* start, while the others rest in their initial state (interleaving parts *)
(* that share nothing would multiply the states and show nothing more).    *)
(***************************************************************************)
EXTENDS BnodeCache, LruCache, MemoryPool, TimingWheel

VARIABLE svPart  \* the part this behaviour is about
svVars == <<bcVars, lruVars, mpVars, twVars, svPart>>

Parts == {"pages", "values", "blocks", "timers"}

Init ==
    /\ svPart \in Parts
    /\ \E n \in BcShardCounts : BcInit(n) /\ (svPart # "pages" => n = 1)
    /\ LruInit /\ (svPart # "values" => ~lruSync)
    /\ MpInit /\ TwInit

PageStep  == svPart = "pages" /\ BcNext /\ UNCHANGED <<lruVars, mpVars, twVars, svPart>>
ValueStep == svPart = "values" /\ LruNext /\ UNCHANGED <<bcVars, mpVars, twVars, svPart>>
BlockStep == svPart = "blocks" /\ MpNext /\ UNCHANGED <<bcVars, lruVars, twVars, svPart>>
TimerStep == svPart = "timers" /\ TwNext /\ UNCHANGED <<bcVars, lruVars, mpVars, svPart>>

Next == PageStep \/ ValueStep \/ BlockStep \/ TimerStep
Spec == Init /\ [][Next]_svVars

\* Every counter and list of the four parts stays within the bounds of its
\* type: references, deferred pages, entries, cached blocks and slots.
TypeOK ==
    /\ svPart \in Parts /\ bcShards \in BcShardCounts /\ lruSync \in BOOLEAN
    /\ bcHeld \in [BcThreads -> BcOffsets \cup {-1}]
    /\ \A s \in 0 .. bcShards - 1 : /\ bcCount[s] \in 0 .. CountMod - 1
                                      /\ bcDirty[s] \in 0 .. CountMod - 1
                                      /\ Len(bcDeferred[s]) <= BcMaxDeferred + Cardinality(BcOffsets)
    /\ Range(lruUsed) \subseteq LruKeys /\ lruMem \in Nat /\ lruCount \in Nat
    /\ mpFreed \subseteq Blocks /\ mpOwner \in [Blocks -> MpThreads \cup {NoOwner}]
    /\ \A t \in MpThreads : Len(mpTls[t]) <= TlsSize
    /\ twMap \subseteq TwTimers /\ twPos \in [Wheels -> 0 .. Slots - 1]

\* An insertion brings the value cache back into its budget, and a timer's step
\* ends on the tick it has to.
ServiceSteps == LruBudgetKept /\ StepOnTime
=============================================================================
