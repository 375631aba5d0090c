CONSTANTS
  w1 = w1  w2 = w2  w3 = w3
  Workers <- MCWorkers3
  Runner = Runner
  Nop = Nop
  NoTask = NoTask
  NoOwner = NoOwner
SPECIFICATION FairSpec
INVARIANTS ScriptNotAbandoned EndsAfterScript
PROPERTIES MainReturns
CHECK_DEADLOCK FALSE
