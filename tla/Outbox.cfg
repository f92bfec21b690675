SPECIFICATION AdaptersFairSpec
CONSTANTS
  w1 = w1
  w2 = w2
  m1 = m1
  Event = {1, 2}
  Worker = {w1, w2}
  Scheduler = {m1}
  BatchSize = 2
  MaxRetries = 1
  RowMaxRetries <- MCRowMaxMixed
  MaxFaults = 2
  SlowHolders = FALSE
  SlowReplays = FALSE
  MaxReplays = 1
INVARIANTS
  TypeOK
  ClaimIsExclusive
  DecidesOnCurrentCount
  EveryClaimIsCounted
  RetryBudget
  StrandedOnlyByFault
PROPERTIES
  KeepsPromise
  EveryEventSettles
CHECK_DEADLOCK FALSE
