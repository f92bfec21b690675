SPECIFICATION FairSpec
CONSTANTS
  Event = {1, 2}
  Route <- MCRoute
  Home <- MCHome
  Partition = {1, 2}
  MaxCalls = 2
  MaxAppends = 3
INVARIANTS
  PublishersTypeOK
  OrderOfABatch
PROPERTIES
  KeepsContract
  CallsReturn
CHECK_DEADLOCK FALSE
