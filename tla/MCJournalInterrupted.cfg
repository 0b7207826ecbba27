SPECIFICATION Spec
CONSTANTS
  k1 = k1
  k2 = k2
  Keys <- MCKeys
  MaxJobs = 2
  Asks <- AsksAll
  BatchJobs = 2
  MaxRemovals = 1
  InterruptFinish = TRUE
  CancelDelete = TRUE
  Limit <- LimitInterrupted
PROPERTIES
  FinishedIsFinal
