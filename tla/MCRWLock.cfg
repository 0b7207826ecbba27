SPECIFICATION FairSpec
CONSTANTS
  r1 = r1
  r2 = r2
  r3 = r3
  w1 = w1
  w2 = w2
  Readers <- MCReaders3
  Writers <- MCWriters2
INVARIANTS
  Exclusion
  NoLostWakeup
PROPERTIES
  LockIsGranted
