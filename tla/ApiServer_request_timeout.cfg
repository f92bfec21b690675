SPECIFICATION ApiFairSpec
CONSTANTS
  Event = {1}
  Slot = {1}
  MaxRetries = 1
  MaxSignals = 1
PROPERTY
  RequestsEnd
CHECK_DEADLOCK FALSE
