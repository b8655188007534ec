SPECIFICATION FairSpec
CONSTANTS
  NIL = NIL
  d = d
  u = u
  v = v
  hi = hi
  lo = lo
  dev = dev
  main = main
  ev = ev
  wk = wk
  out = out
  m1 = m1
  m2 = m2
  m3 = m3
  RdyQs <- MCRdyQs
  Producers <- MCProducers
  Feeds <- MCFeeds
  Actors <- LayeredActors
  EvQs <- LayeredEvQs
  Prio <- LayeredPrio
  RdyQOf <- LayeredRdyQOf
  Serves <- LayeredServes
  Forwards <- LayeredForwards
  PoolOrder <- ThreeMsgs
  Awaited = {dev}
  MaxLoad = 2
CHECK_DEADLOCK FALSE
INVARIANTS NoLostWakeup
PROPERTIES MsgReturns ImplementsMailboxes
