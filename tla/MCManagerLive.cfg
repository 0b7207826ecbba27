SPECIFICATION FairSpec
CONSTANTS
  n1 = n1
  n2 = n2
  c1 = c1
  c2 = c2
  Clients = {c1}
  Names = {n1, n2}
  Catalog0 <- TwoNames
  Created0 = 2
  MaxResident = 1
  MaxCreates = 2
  Slots = 3
  Ops = {"touch", "delete"}
  ProbesDim = FALSE
  Overlap = TRUE
  Limit <- LimitLive
PROPERTIES
  RequestsEnd
  BootResumesJobs
