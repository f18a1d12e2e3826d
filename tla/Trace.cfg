SPECIFICATION MCSpec
CHECK_DEADLOCK FALSE
CONSTANTS
  Queries = {"q", ""}
  MaxMeasures = 2
  MaxSampled = 2
  MaxTraces = 1
  Paths = {"a", "b", ""}
  Texts = {"q", "r", "u", ""}
  Reports <- MCReports
INVARIANTS
  NothingMissed
  NothingOld
  Explained
  StatsRight
  RowsAddUp
