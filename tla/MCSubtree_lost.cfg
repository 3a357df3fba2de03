SPECIFICATION SubSpec
CONSTANTS
  MaxEntries = 3
  Values = {"v", "w"}
  Tomb = "tomb"
  NoVal = "none"
  MaxUpdates = 2
  Jobs <- MCDescending
INVARIANTS EveryKeyFound
