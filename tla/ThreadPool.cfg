CONSTANTS
  w1 = w1
  w2 = w2
  c1 = c1
  c2 = c2
  t1 = t1
  t2 = t2
  Free = Free
  Workers <- const_Workers
  Callers <- const_Callers
  Tasks <- const_Tasks
  MaxTasks = 3
SPECIFICATION FairSpec
INVARIANT TypeOK TakenInOrder EveryTaskHasAWorker NoSleeperAfterStop
PROPERTY ShutdownReturns TaskServed
CHECK_DEADLOCK FALSE
