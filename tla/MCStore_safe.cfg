SPECIFICATION StoreSpec
CONSTANTS
  t1 = t1
  t2 = t2
  t3 = t3
  a = a
  b = b
  Threads = {t1, t2, t3}
  Keys = {a, b}
  Programs <- MCPrograms
  Under <- MCUnder
  MaxTxns = 4
  NoValue = NoValue
  NoThread = NoThread
  MaxEntries = 3
  Values = {"v", "w"}
  Tomb = "tomb"
  NoVal = "none"
  MaxUpdates = 3
  Jobs <- MCJobs
INVARIANTS FreshRead QuietNewest CountExact SyncKeysFound SyncScansExact
CHECK_DEADLOCK FALSE
