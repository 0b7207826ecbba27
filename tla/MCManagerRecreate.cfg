SPECIFICATION Spec
CONSTANTS
  n1 = n1
  n2 = n2
  c1 = c1
  c2 = c2
  Clients = {c1, c2}
  Names = {n1}
  Catalog0 <- OneName
  Created0 = 1
  MaxResident = 1
  MaxCreates = 3
  Slots = 3
  Ops = {"create", "delete"}
  ProbesDim = FALSE
  Overlap = TRUE
  Limit <- NoEvents
PROPERTIES
  DeleteSparesOthers
