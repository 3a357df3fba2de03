SPECIFICATION BaSpec
CONSTANTS
    b1 = b1
    b2 = b2
    b3 = b3
    BcOffsets = {0, 1}
    BcThreads = {t1, t2}
    BcShardCounts = {1, 2}
    BcBudget = 2
    BcBuckets = 2
    BcMaxBuckets = 4
    BcMaxDeferred = 1
    CountMod = 4
    LruKeys = {k1, k2, k3}
    LruSizes = {1, 3}
    LruBudget = 6
    MpBlocks <- MCBlocks
    MpThreads = {t1, t2}
    TlsSize = 1
    TwTimers = {u1, u2}
    Durations = {1, 3, 4}
    Slots = 2
    Interval = 3
    MaxTicks = 3
    Threads = {t1, t2}
    Opener = t1
    BatchSize = 2
    ForeignIds <- ForeignAhead
    BackSteps = {"down"}
    MaxTime = 2
    MaxNano = 1
    MaxDraws = 2
    MaxLives = 2
INVARIANTS
    DistinctDraws
    AboveRecovered
    PagesSound
    ValuesSound
    BlocksSound
    
PROPERTIES
    ServiceSteps
CHECK_DEADLOCK FALSE
