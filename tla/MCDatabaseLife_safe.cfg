SPECIFICATION Spec
CONSTANTS
    w1 = w1  w2 = w2  c1 = c1  k1 = k1  e1 = e1  e2 = e2
    Writers <- MCWriters
    Testing <- MCTesting
    Evictors <- MCEvictors
    Casts <- MCCasts
    Cursors <- MCCursors
    Workers <- MCWorkers
    MaxEvict = 2
    MaxVacuums = 1
    MaxTimers = 1
    Capacity = 1
    Batch = 1
INVARIANTS WalkIntruders Teardown
PROPERTY Progress
