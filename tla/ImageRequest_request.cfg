SPECIFICATION FairSpec
CONSTANTS
  w1 = w1
  w2 = w2
  Nobody = nobody
  Workers <- MCWorkers
  RetryCount = 2
  TrimPeriod = 2
  MaxRequests = 2
  Faults <- AllFaults
INVARIANTS TypeOK LabelIsOwn OkMeansAccepted TrimNotSkipped ReportedAsAnswered
PROPERTY EveryRequestAnswered
