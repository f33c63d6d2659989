CONSTANTS
  Clients = {c1, c2, c3, c4, c5}
  Conns = {k1, k2}
  NoConn = NoConn
  MinConn = 1
  MaxConn = 2
  MayAbort = TRUE
SPECIFICATION Spec
INVARIANTS ExclusiveConn ConnsAccounted NoLostWakeup SleepersHaveReleaser
PROPERTIES FreeConnReachesWaiter PoolImplementsLeases
CHECK_DEADLOCK FALSE
