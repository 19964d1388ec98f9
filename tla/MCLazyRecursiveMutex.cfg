SPECIFICATION FairSpec
CONSTANTS
  Threads = {t1, t2}
  Prims = {p1, p2}
  Fallback = fallback
  Null = null
  Publication = publication
  MaxDepth = 3
INVARIANTS
  MutualExclusion
  UnlockFindsItsLevels
PROPERTIES
  ImplementsLock
  NestedLockReturns
