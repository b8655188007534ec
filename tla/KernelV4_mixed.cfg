SPECIFICATION Spec
CONSTANTS
  NIL = NIL
  d = d
  u = u
  v = v
  hi = hi
  lo = lo
  dev = dev
  main = main
  ev = ev
  wk = wk
  out = out
  m1 = m1
  m2 = m2
  m3 = m3
  RdyQs <- MCRdyQs
  Producers <- MCProducers
  Feeds <- MCFeeds
  Actors <- MixedActors
  EvQs <- MixedEvQs
  Prio <- MixedPrio
  RdyQOf <- MixedRdyQOf
  Serves <- MixedServes
  Forwards <- MixedForwards
  PoolOrder <- ThreeMsgs
  Awaited = {}
  MaxLoad = 3
CHECK_DEADLOCK FALSE
INVARIANTS TypeOK Conserved ReadyIsServed
