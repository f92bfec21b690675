SPECIFICATION Spec
CONSTANTS
  c1 = c1
  c2 = c2
  k1 = k1
  k2 = k2
  NoKey = NoKey
  Client = {c1, c2}
  Id = {1, 2, 3}
  Key = {k1, k2}
  Database = "mysql"
  MaxRows = 2
  ChunkSize = 2
INVARIANTS
  NoEventIsDropped
CHECK_DEADLOCK FALSE
