SPECIFICATION FairSpec
CONSTANTS
  c1 = c1
  c2 = c2
  m1 = m1
  m2 = m2
  Consumer = {c1, c2}
  Message = {m1, m2}
  Api = "repository"
  Database = "mysql"
  MaxBatch = 2
  MaxFaults = 1
  MaxForgets = 1
INVARIANTS
  HandledOnce
  NothingLost
PROPERTIES
  HandlesExactlyOnce
  EveryMessageSettles
CHECK_DEADLOCK FALSE
