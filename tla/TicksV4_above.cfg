SPECIFICATION FairSpec
CONSTANTS
  NIL = NIL
  TICK = TICK
  LOOP = LOOP
  a = a
  b = b
  l = l
  hi = hi
  lo = lo
  Actors = {a, b}
  LoopActors = {}
  RdyQs = {hi, lo}
  RdyQOf <- TwoRdyQOf
  Prio <- AboveTick
  TickCounts = {0, 2}
INVARIANTS NextTick
