SPECIFICATION Spec
CONSTANTS
  r1 = r1
  r2 = r2
  r3 = r3
  r4 = r4
  r5 = r5
  Clients <- MCClients
  Timeouts <- MixedTimeouts
  PoolSize = 2
  Faults <- NoFaults
INVARIANT BlockedUntilAvailable
