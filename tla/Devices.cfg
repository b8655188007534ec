SPECIFICATION DevicesSpec
CONSTANTS
  HeapStart = 1
  HeapLimits = {0, 6}
  StackStart = 17
  MainStackSize = 2
  MainSizes = {2, 4}
  RecSizes = {1, 2}
  StackSizes = {2, 3}
  Checks = {FALSE}
  FifoDepth = 3
  Counts = {0, 1, 3, 8}
  NIL = NIL
  DevMsg = DevMsg
  m1 = m1
  m2 = m2
  PoolOrder <- mcPoolOrder
  ChunkLen <- mcChunkLen
  MaxParts = 3
  MaxCalls = 3
  Drivers = {"int", "bw"}
  CallersBelow = {FALSE, TRUE}
  BufLens = {1, 3, 5}
  RxLevel = 3
  RxDepth = 5
  LineSizes = {0, 1, 2, 3, 4, 5, 6, 7, 8}
  AlarmBits = 4
  Margin = 2
  Inside = 1
  Late = 1
  Behind = 1
  AlarmDelays <- mcAlarmDelays
  AlarmPrios = {"below", "same", "above"}
  SemActors = {1, 2, 3}
  Urgencies <- mcUrgencies
  Nobody = Nobody
  Items = {1, 2, 3, 4}
  Queues = {"ready", "waiting"}
  Pools = {"pool"}
  PoolStart <- mcPoolStart
  NoItem = NoItem
CHECK_DEADLOCK FALSE
INVARIANTS Disjoint SealsIntact NoOverrun BytesMatch TextKept AlarmsSound OneHolder ListsSound
PROPERTIES CallsReturn WaitersServed ActsAsLock
