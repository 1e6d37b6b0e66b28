SPECIFICATION Spec
CONSTANTS
  m = m
  w = w
  x = x
  Clients = {m, w, x}
  Shards = {1}
  EpochRefreshFrequency = 2
  CleanupSafetyMargin = 6
  MinEpochDuration = 6
  FullCheckpointFrequency = 1
  EpochAdvanceOnCountThreshold = 2
  WatermarkTimes = {1, 2}
  Plans <- MCPlans
  Past = 2
  Instants = {18, 25, 26}
INVARIANTS
  NothingLost
  ReadsComplete
PROPERTY
  NeverBack
CHECK_DEADLOCK FALSE
