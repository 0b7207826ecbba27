SPECIFICATION Spec
CONSTANTS
  k1 = k1
  k2 = k2
  Keys <- MCKeys
  MaxJobs = 3
  Asks <- AsksPair
  BatchJobs = 2
  MaxRemovals = 1
  InterruptFinish = FALSE
  CancelDelete = FALSE
  Limit <- LimitOrderly
SYMMETRY KeySymmetry
INVARIANTS
  DoneRowsDurable
  JobsKeepOrder
  IdsAreSound
PROPERTIES
  ImplementsLedger
  RemovalsCapped
