CONSTANTS
  Conns = {c1}
  Fds = {f1}
  Addrs = {a1}
  Workers = {w1}
  LoginConns = {}
  UnknownConns = {}
  NoConn = NoConn
  RequestLen = 2
  BufLimit = 2
  RespLen = 1
  MaxSent = 2
  Windows = {1}
SPECIFICATION Spec
PROPERTIES PeerCloseReleases
