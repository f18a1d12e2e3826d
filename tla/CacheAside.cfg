\* Every operation, in front of a table.
CONSTANTS
  Threads = {t1, t2, t3}
  Keys = {k1, k2}
  Ops = {"Set", "Get", "Update", "UpdateOrSet", "GetOrSet", "GetOrSetLock", "Delete"}
  FnMayPanic = TRUE
  None = None
SPECIFICATION AsideFairSpec
INVARIANTS
  CacheInv
  NoLastingStale
PROPERTIES
  NoLostUpdate
  EveryOpReturns
\* The system stops when every operation is over.
CHECK_DEADLOCK FALSE
