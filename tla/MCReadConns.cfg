SPECIFICATION FairSpec
CONSTANTS
  t1 = t1
  t2 = t2
  t3 = t3
  Threads <- MCThreads3
INVARIANTS
  UsesOpen
  NoLeak
PROPERTIES
  SweepReturns
  AllClosed
