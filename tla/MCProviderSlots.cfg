SPECIFICATION Spec
CONSTANTS
  Threads = {t1, t2, t3}
  Nullable = {synchronization}
  WithFallback = {execution}
  WithExchange = {memory}
  Providers = {p1}
  Fallback = fallback
  Null = null
  MaxStores = 3
INVARIANTS
  TypeOK
  InstalledInOrder
  ReplacedInOrder
