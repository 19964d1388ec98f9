SPECIFICATION Spec
CONSTANTS
  Threads = {t1, t2}
  Platforms = {p1, p2}
  Legacy = {p1}
  Numbers = {n1, n2}
  Variables = {v1, v2}
  Fallback = fallback
  Null = null
INVARIANTS
  TypeOK
  TrueMeansAlive
  ContextsKept
