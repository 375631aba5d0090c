CONSTANTS
  w1 = w1  w2 = w2  w3 = w3
  r1 = r1  r2 = r2  r3 = r3
  q1 = q1
  a1 = a1  a2 = a2
  Workers <- MCWorkers3
  Runs <- MCRuns3
  Queries <- MCQueries1
  Addresses <- MCAddresses2
  Languages <- MCLanguages
  PyMain = PyMain
  NoTask = NoTask
  Nop = Nop
  NoId = NoId
  Unset = Unset
  Absent = Absent
  Null = Null
SPECIFICATION Spec
SYMMETRY MCSymmetry
INVARIANTS TypeOK RegistryPointsToLive RegisteredUnlessReused PromiseAlive WaitHasProducer CrashNeedsRace
PROPERTY ImplementsContract
CHECK_DEADLOCK FALSE
