SPECIFICATION ProgramsFairSpec
CONSTANTS
  WorkerCount = 2
  MaxOverlap = 2
  Event = {1}
  Slot = {1, 2}
  MaxRetries = 2
  MaxSignals = 2
  r1 = r1
  r2 = r2
  config = config
  events = events
  ixClaim = ixClaim
  ixKey = ixKey
  ixWorker = ixWorker
  inbox = inbox
  ixStatus = ixStatus
  ixSource = ixSource
  Runner = {r1, r2}
  Object = {config, events, ixClaim, ixKey, ixWorker, inbox, ixStatus, ixSource}
  Script <- Files
  IfNotExists = {config, events, inbox}
  MaxFaults = 2
INVARIANTS
  QuietAfterStop
  StopIsGraceful
  EverythingIsReleased
  RecoveryRunsAlone
  ApiTypeOK
  NoRequestIsCutOff
  PoolsAreEnded
  MigrationsTypeOK
  RecordedIsBuilt
  IncompleteOnlyIfCut
PROPERTIES
  StopEnds
  AnswersAreTrue
  ApiStops
  MigrationsFinish
CHECK_DEADLOCK FALSE
