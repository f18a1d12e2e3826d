CONSTANTS
  Calls = {c1, c2, c3}
  Keys = {k1, k2}
  MaxVersion = 2
  NoBatch = NoBatch
  ExecMayPanic = FALSE
SPECIFICATION LoaderPromptSpec
SYMMETRY LoaderSymmetry
INVARIANTS
  FreshAnswer
  LoaderInv
CHECK_DEADLOCK FALSE
