SPECIFICATION Spec
CONSTANTS
  NoValue = "none"
  Values = {"old", "new", "two"}
  Free = 0
  Threads = {1, 2, 3}
  MaxNode = 5
  Keys <- MCKeys
  Chunks <- MCChunks
  Scenarios <- MCTorn
INVARIANTS NeverTorn
CHECK_DEADLOCK FALSE
