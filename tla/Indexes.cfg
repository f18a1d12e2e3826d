SPECIFICATION MCSpec
CHECK_DEADLOCK FALSE
CONSTANTS
  N = 3
  MaxByte = 2
  Values <- MCValues
  Key <- MCKey
  Name <- MCName
  Keys <- MCKeys
  Number <- MCNumber
  Primes <- MCPrimes
  MaxItemCount = 3
  MaxSaves = 2
INVARIANTS
  TreesAgree
  RangesFound
  NeverWrong
  IndexWithinData
  RoomForAll
