SPECIFICATION Spec
CONSTANTS
  r1 = r1
  r2 = r2
  r3 = r3
  r4 = r4
  r5 = r5
  Clients <- MCClients
  Timeouts <- MCTimeouts
  PoolSize = 2
  Faults <- OpenFault
INVARIANTS TypeOK QueuedOnce EnoughNotified
PROPERTY ImplementsBoundedPool
CHECK_DEADLOCK FALSE
