CONSTANTS
  Threads = {l, w1, w2}
  Loop = l
  DbConns = {d1}
  CacheConns = {k1, k2}
  DbFirst = {d1}
  CacheFirst = {k1}
  DbLimit = 1
  CacheLimit = 2
  MaxRequests = 1
  MaxStops = 1
SPECIFICATION Spec
INVARIANTS ContextOwned OneFailureAfterRestart
PROPERTIES RequestsEnd
CHECK_DEADLOCK FALSE
