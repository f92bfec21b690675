SPECIFICATION ProcessSpec
CONSTANTS
  WorkerCount = 2
  MaxOverlap = 1
INVARIANT
  EveryProducerIsHeld
CHECK_DEADLOCK FALSE
