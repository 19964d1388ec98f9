SPECIFICATION FairSpec
CONSTANTS
  Threads = {t1, t2, t3}
  Prims = {p1, p2}
  Fallback = fallback
  Null = null
  Publication = publication
INVARIANTS
  TypeOK
  AskedOnce
  PublishedBeforeUse
  OneLivePrimitive
  MutualExclusion
  UnlockFindsItsLock
PROPERTIES
  ImplementsLock
  ResolvedForGood
  ResolveTerminates
