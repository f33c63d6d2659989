CONSTANTS
  Conns = {c1, c2}
  Fds = {f1}
  Addrs = {a1}
  Workers = {w1}
  LoginConns = {c1}
  UnknownConns = {c2}
  NoConn = NoConn
  RequestLen = 2
  BufLimit = 2
  RespLen = 2
  MaxSent = 3
  Windows = {1, 2}
SPECIFICATION Spec
INVARIANTS NoStaleEvent
PROPERTIES AnswerToAsker RequestEnds
