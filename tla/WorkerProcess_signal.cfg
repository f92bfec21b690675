SPECIFICATION ProcessSpec
CONSTANTS
  WorkerCount = 2
  MaxOverlap = 1
INVARIANT
  SignalsAreHandled
CHECK_DEADLOCK FALSE
