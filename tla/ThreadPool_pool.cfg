SPECIFICATION FairSpec
CONSTANTS
  w1 = w1
  w2 = w2
  w3 = w3
  w4 = w4
  p1 = p1
  p2 = p2
  None = none
  Workers <- MCWorkers
  Producers <- MCProducers
  MinSize = 2
  MaxSize = 3
  QueueSize = 3
  Levels = {0}
  Reserved = 1
  MaxTasks = 5
  Faults <- AllFaults
INVARIANTS TypeOK EnoughNotified
PROPERTIES ThreadsBounded PoolDrains StopReturns
CHECK_DEADLOCK FALSE
