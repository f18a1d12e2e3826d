\* No call is late: safety, refinement and liveness.
CONSTANTS
  Calls = {c1, c2, c3, c4}
  NoBatch = NoBatch
  ExecMayPanic = FALSE
SPECIFICATION PromptFairSpec
INVARIANTS
  OwnResult
  WaitNeverPanics
PROPERTIES
  ResultStable
  ImplementsBatchService
  EveryCallReturns
CHECK_DEADLOCK FALSE
