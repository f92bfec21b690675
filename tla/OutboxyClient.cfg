SPECIFICATION FairSpec
CONSTANTS
  c1 = c1
  c2 = c2
  k1 = k1
  k2 = k2
  NoKey = NoKey
  Client = {c1, c2}
  Id = {1, 2}
  Key = {k1, k2}
  Database = "postgresql"
  MaxRows = 2
  ChunkSize = 2
INVARIANTS
  OneOpenRowPerKey
  NoEventIsDropped
PROPERTIES
  PublishesOnce
  CallsEnd
CHECK_DEADLOCK FALSE
