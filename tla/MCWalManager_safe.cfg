SPECIFICATION Spec
CONSTANTS
  A = A
  B = B
  C = C
  Threads = {A, B, C}
  Keys = {k}
  Owner = Owner
  Nobody = Nobody
  LifeThreads <- TwoThenOne
  Configs <- AllModes
  Sizes = {"small", "half", "direct"}
  Allowed = {"power", "destroy"}
  MaxSealed = 1
  MaxWrites = 3
  MaxSecond = 2
  MaxSnapshots = 1
SYMMETRY FirstLife
INVARIANTS Durable BufferCovered
PROPERTY ReplayNewest
CHECK_DEADLOCK FALSE
