SPECIFICATION RtSpec
CONSTANTS
  Threads = {t1, t2}
  NoThread = NoThread
  NShards = 2
  MaxClock = 2
  MaxTxns = 3
  w1 = w1
  w2 = w2
  j1 = j1
  j2 = j2
  Free = Free
  Workers <- MCWorkers
  Jobs <- MCJobs
  KindSets <- MCKindSets
  NumShards = 2
INVARIANTS
  IdsUnique
  CommittedIsReadable
  ReadPointIsCommitted
  ShardBookkeeping
  PoolSound
  JobsSettled
PROPERTIES
  ReadPointMonotonic
  CommitReturns
  CloseEnds
CHECK_DEADLOCK FALSE
