SPECIFICATION FairSpec
CONSTANTS
  NIL = NIL
  DevMsg = DevMsg
  m1 = m1
  m2 = m2
  PoolOrder <- MCPoolOrder
  ChunkLen <- MCChunkLen
  MaxParts = 3
  MaxCalls = 3
  Drivers = {"int"}
  CallersBelow = {TRUE}
CHECK_DEADLOCK FALSE
INVARIANTS StringIntact
