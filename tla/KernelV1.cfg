SPECIFICATION FairSemSpec
CONSTANTS
  NIL = NIL
  s1 = s1
  s2 = s2
  sem = sem
  MaxNumThreads = 3
  LoopPeriod = 2
  DefaultPrio = 1
  Prios = {0, 1, 2}
  Signals = {s1, s2, sem}
  Programs <- mcPrograms
INVARIANTS QueuesSound ReadyForReason OneOwner
PROPERTIES EnabledRuns ImplementsFifoLock ClaimSucceeds
