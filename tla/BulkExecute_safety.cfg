\* Every interleaving, late calls and panics of exec included.
CONSTANTS
  Calls = {c1, c2, c3, c4, c5}
  NoBatch = NoBatch
  ExecMayPanic = TRUE
SPECIFICATION Spec
SYMMETRY CallSymmetry
INVARIANTS
  TypeOK
  ExecExclusive
  ExecutedAtMostOnce
  NothingLost
  ChannelsSafe
\* When every call has returned, or is stuck, the system stops.
CHECK_DEADLOCK FALSE
