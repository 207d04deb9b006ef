CONSTANTS
  u1 = u1
  u2 = u2
  n1 = n1
  n2 = n2
  NoConn = NoConn
  ZeroUUID = ZeroUUID
  Conn = {c1, c2}
  UUID = {u1, u2}
  Username = {n1, n2}
  Body = {b1}
  SwitchAnywhere = TRUE
  AcceptFails = TRUE
  Requests <- Everything
  StartList <- One
SPECIFICATION FairSpec
INVARIANTS
  TypeOK
  OnlyLastStaysOpen
  ListIsSnapshot
PROPERTIES
  ThreadEnds
  SocketsClose
