SPECIFICATION FairSpec
CONSTANTS
  p1 = p1
  p2 = p2
  slot = slot
  Procs <- MCProcs
  Lost <- MCLost
  PoolSize = 2
  RetryCount = 2
  TTL = 2
  Drift = 1
  Second = 3
  MaxTime = 3
  MaxCalls = 2
  Faults <- AllFaults
INVARIANTS TypeOK HolderOwnsKey ValidityWithinSecond
PROPERTIES OnlyOwnKeyDeleted UnlockReturns
