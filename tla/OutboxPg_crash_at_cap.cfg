SPECIFICATION FairSpec
CONSTANTS
  w1 = w1
  w2 = w2
  Event = {1}
  Worker = {w1}
  BatchSize = 1
  MaxRetries = 2
  RowMaxRetries <- MCRowMax1
  MaxFaults = 1
  SlowHolders = FALSE
  SlowReplays = FALSE
  MaxReplays = 0
PROPERTIES
  StaleEventsAreRecovered
CHECK_DEADLOCK FALSE
