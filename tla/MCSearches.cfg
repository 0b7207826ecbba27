SPECIFICATION Spec
CONSTANTS
  c1 = c1
  c2 = c2
  w1 = w1
  w2 = w2
  Clients <- MCClients
  Writers <- MCWriters
  Scopes <- MCScopes
  Filters <- MCFilters
  Kinds <- MCKinds
  MaxCached = 1
  ScopedBatch = 1
  MaxWrites = 2
  MaxUpsets = 2
SYMMETRY MCSymmetry
INVARIANTS
  CacheIsCurrent
  SeesReturnedWrites
  OneState
  NoFutureForgotten
