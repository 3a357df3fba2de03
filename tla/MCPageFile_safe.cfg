SPECIFICATION Spec
CONSTANTS
  top = top
  mid = mid
  low = low
  Nodes = {top, mid, low}
  Root = top
  Parent <- Chain
  Depth <- ChainDepth
  BlockSize = 5
  Prefix = 2
  Sizes = {1, 4}
  NumSuperblocks = 2
  InlineRegions = 1
  Allowed = {"vacuum", "failure"}
  MaxUpdates = 2
  MaxFlushes = 3
  MaxFaults = 2
  MaxBlocks = 30
INVARIANTS CheckpointIntact CloseKeeps StaleExact ConvergesByDepth
CHECK_DEADLOCK FALSE
