SPECIFICATION FairSpec
CONSTANTS
  NIL = NIL
  TICK = TICK
  LOOP = LOOP
  a = a
  b = b
  l = l
  hi = hi
  lo = lo
  Actors = {a, b, l}
  LoopActors = {l}
  RdyQs = {hi, lo}
  RdyQOf <- TwoRdyQOf
  Prio <- BelowTick
  TickCounts = {1, 2}
INVARIANTS NextTick LoopSound
PROPERTIES WaitersRun
