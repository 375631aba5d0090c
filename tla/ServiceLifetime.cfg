CONSTANTS
  w1 = w1  w2 = w2
  p1 = p1  p2 = p2  p3 = p3
  Workers <- MCWorkers
  Packets <- MCPackets3
  Nop = Nop
  NoTask = NoTask
SPECIFICATION FairSpec
INVARIANT LifetimeByOrder
PROPERTY ExitEnds
CHECK_DEADLOCK FALSE
