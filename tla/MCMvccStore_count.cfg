SPECIFICATION Spec
CONSTANTS
  t1 = t1
  t2 = t2
  t3 = t3
  a = a
  b = b
  Threads = {t1, t2, t3}
  Keys = {a, b}
  Programs <- MCPrograms
  Under <- MCUnder
  MaxTxns = 4
  NoValue = NoValue
  NoThread = NoThread
INVARIANT IncrementsAtomic
CHECK_DEADLOCK FALSE
