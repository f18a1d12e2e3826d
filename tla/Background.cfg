SPECIFICATION MCSpec
CHECK_DEADLOCK FALSE
CONSTANTS
  Sets = {s1, s2, s3}
  MaxSize = 2
  Cap = 1
  Futures = {f1, f2}
  Awaits = {a1, a2, a3}
  Zero = Zero
INVARIANTS
  QueueInv
  FutureInv
PROPERTIES
  AllExecuted
  EveryoneReturns
