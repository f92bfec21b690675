SPECIFICATION FairSpec
CONSTANTS
  EventCount = 3
  BatchSize = 2
  InsertBatchSize = 2
  WorkerCount = 2
  MaxRetries = 1
  MaxLatency = 2
  MaxFaults = 3
INVARIANTS
  LoadTestTypeOK
  ResultIsTrue
  NothingIsCutShort
PROPERTIES
  LoadTestEnds
CHECK_DEADLOCK FALSE
