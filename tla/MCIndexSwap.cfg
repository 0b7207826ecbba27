SPECIFICATION Spec
CONSTANTS
  NShards = 2
  Stored = 2
  Legacy = {2}
  Abandonable = {1}
  MinRows = 1
  TrainSample = 1
  Asks = {"attach", "retune", "detach"}
  FailingSteps = {"remove", "replace"}
  Limit <- MCLimit
INVARIANTS
  IndexIsTheRows
  NothingLost
  CleanShardsAreOnDisk
  ShardCacheIsCurrent
CHECK_DEADLOCK FALSE
