SPECIFICATION Spec
CONSTANTS
  NoValue = "none"
  Values = {"old", "new", "two"}
  Free = 0
  Threads = {1, 2, 3}
  MaxNode = 5
  Keys <- MCKeys
  Chunks <- MCChunks
  Scenarios <- MCScenarios
INVARIANTS TrieSound
PROPERTIES Implements WritersReturn
CHECK_DEADLOCK FALSE
