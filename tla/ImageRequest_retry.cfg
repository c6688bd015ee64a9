SPECIFICATION FairSpec
CONSTANTS
  w1 = w1
  w2 = w2
  Nobody = nobody
  Workers <- OneWorker
  RetryCount = 3
  TrimPeriod = 2
  MaxRequests = 1
  Faults <- AllFaults
INVARIANT DecodeErrorMeansJunk
