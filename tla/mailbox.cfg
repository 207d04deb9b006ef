CONSTANTS
  u1 = u1
  u2 = u2
  n1 = n1
  n2 = n2
  NoConn = NoConn
  ZeroUUID = ZeroUUID
  Conn = {c1, c2, c3}
  UUID = {u1, u2}
  Username = {n1, n2}
  Body = {b1, b2}
  SwitchAnywhere = FALSE
  AcceptFails = FALSE
  Requests <- Post
  StartList <- Two
SYMMETRY ConnBody
SPECIFICATION Spec
INVARIANTS
  HandedOnce
  PackedForRequester
  IDsDistinct
PROPERTIES
  TakenByRecipient
  MailboxSpec
