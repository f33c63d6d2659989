CONSTANTS
  Conns = {c1, c2}
  Fds = {f1, f2}
  Addrs = {a1, a2}
  Workers = {w1}
  LoginConns = {c1}
  UnknownConns = {}
  NoConn = NoConn
  RequestLen = 1
  BufLimit = 1
  RespLen = 2
  MaxSent = 2
  Windows = {1}
SPECIFICATION Spec
INVARIANTS CloseHasReason NothingForgotten
