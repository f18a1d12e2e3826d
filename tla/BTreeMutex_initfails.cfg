CONSTANTS
  Threads = {t1, t2}
  Keys = {k1}
  Items = {1, 2, 3}
  InitItems = {1, 2}
  InitMayFail = TRUE
  None = None
SPECIFICATION Spec
SYMMETRY TreeSymmetry
INVARIANTS
  HoldsInitItems
CHECK_DEADLOCK FALSE
