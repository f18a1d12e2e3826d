\* Without the timing assumption: a late call may get the result of another batch.
CONSTANTS
  Calls = {c1, c2, c3, c4}
  NoBatch = NoBatch
  ExecMayPanic = FALSE
SPECIFICATION Spec
SYMMETRY CallSymmetry
INVARIANTS
  OwnResult
CHECK_DEADLOCK FALSE
