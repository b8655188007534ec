SPECIFICATION MemorySpec
CONSTANTS
  HeapStart = 1
  HeapLimits = {0}
  StackStart = 17
  MainStackSize = 2
  MainSizes = {2, 4}
  RecSizes = {1, 2}
  StackSizes = {2, 3}
  Checks = {FALSE,TRUE}
CHECK_DEADLOCK FALSE
INVARIANTS SealsIntact
