SPECIFICATION Spec
CONSTANTS
  w1 = w1
  w2 = w2
  Event = {1}
  Worker = {w1, w2}
  BatchSize = 1
  MaxRetries = 1
  RowMaxRetries <- MCRowMax2
  MaxFaults = 0
  SlowHolders = TRUE
  SlowReplays = TRUE
  MaxReplays = 1
SYMMETRY Symmetry
PROPERTIES
  OnlyDocumentedChanges
CHECK_DEADLOCK FALSE
