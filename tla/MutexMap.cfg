CONSTANTS
  Procs = {p1, p2, p3}
  Keys = {k1, k2}
  Modes = {"w", "r"}
  None = None
SPECIFICATION FairSpec
INVARIANTS
  Exclusion
PROPERTIES
  ImplementsKeyedLocks
  Independence
