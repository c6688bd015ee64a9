SPECIFICATION FairSpec
CONSTANTS
  w1 = w1
  Workers <- MCWorkers
  Configured <- MCConfigured
  Interval = 1
  Timeout = 1
  Duration = 4
  MaxTry = 1
  StopTries = 2
  MaxRuns = 2
  Faults <- AllFaults
INVARIANTS TypeOK LeaseKept DeregisteredFirst
PROPERTIES Rejoins ShutdownCompletes
