SPECIFICATION Spec
CONSTANTS
  n1 = n1
  n2 = n2
  c1 = c1
  c2 = c2
  Clients = {c1, c2}
  Names = {n1, n2}
  Catalog0 <- Pair
  Created0 = 1
  MaxResident = 1
  MaxCreates = 2
  Slots = 4
  Ops = {"touch", "create", "delete"}
  ProbesDim = TRUE
  Overlap = FALSE
  Limit <- LimitSafety
SYMMETRY Clientele
INVARIANTS
  OneOwner
  ResidentIsCatalogued
  OpenIsResident
  WithinBudget
  ClosedAtExit
  CatalogHasFiles
