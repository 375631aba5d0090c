CONSTANTS
  w1 = w1  w2 = w2  w3 = w3
  Workers <- MCWorkers2
  Runner = Runner
  Nop = Nop
  NoTask = NoTask
  NoOwner = NoOwner
SPECIFICATION FairSpec
PROPERTIES LocalExits
CHECK_DEADLOCK FALSE
