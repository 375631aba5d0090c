CONSTANTS
  w1 = w1  w2 = w2  w3 = w3
  t1 = t1  t2 = t2
  Workers <- MCWorkers3
  Tasks <- MCTasks2
  Nop = Nop
  NoTask = NoTask
  NoOwner = NoOwner
SPECIFICATION FairSpec
INVARIANTS TypeOK MutexHeld NoLostWakeup RunOnce EnoughFill
PROPERTIES ImplementsWorkQueue TasksServed
CHECK_DEADLOCK FALSE
