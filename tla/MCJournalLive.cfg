SPECIFICATION FairSpec
CONSTANTS
  k1 = k1
  k2 = k2
  Keys <- MCKeys
  MaxJobs = 2
  Asks <- AsksEmpty
  BatchJobs = 2
  MaxRemovals = 1
  InterruptFinish = FALSE
  CancelDelete = FALSE
  Limit <- LimitLive
PROPERTY
  AckedJobFinishes
