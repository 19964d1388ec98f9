SPECIFICATION Spec
CONSTANTS
  Threads = {t1, t2, t3}
  Prims = {p1}
  Fallback = fallback
  Null = null
  Publication = publication
INVARIANTS
  WriterAlone
  UnlockFindsItsMode
PROPERTIES
  ImplementsLock
