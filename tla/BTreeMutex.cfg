CONSTANTS
  Threads = {t1, t2, t3}
  Keys = {k1, k2}
  Items = {1, 2, 3}
  InitItems = {1, 2}
  InitMayFail = TRUE
  None = None
SPECIFICATION Spec
SYMMETRY TreeSymmetry
INVARIANTS
  TreesInv
  ScanIsSnapshot
CHECK_DEADLOCK FALSE
