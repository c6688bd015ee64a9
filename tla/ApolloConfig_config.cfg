SPECIFICATION FairSpec
CONSTANTS
  Hosts <- MCOneHost
  Topics <- MCTopics
  Ports <- MCOnePort
  MaxId = 2
  Faults <- GetFault
INVARIANTS TypeOK AckedIsApplied
PROPERTIES TableConverges StopReturns
