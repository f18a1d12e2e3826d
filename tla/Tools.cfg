CONSTANTS
  G = 2
  Bits16 = 5
  Bits32 = 9
  Bits64 = 19
  Nil = Nil
  Error = Error
  Funcs = {"main", "f", "g"}
  Main = "main"
  Packages <- MCPackages
SPECIFICATION MCSpec
INVARIANTS
  MaxSizeSuffices
  DecodesBack
  CallsAgree
  OnlyWhereNeeded
  OnceIsEnough
CHECK_DEADLOCK FALSE
