CONSTANTS
  p1 = p1
  p2 = p2
  n1 = n1
  n2 = n2
  ZeroUUID = ZeroUUID
  EmptyName = EmptyName
  NoKey = NoKey
  ZeroKey = ZeroKey
  Program = {p1, p2}
  UUID = {u1, u2, u3}
  Username = {n1, n2}
  Key = {k1}
  Types = {"SEND_SYM_KEY"}
  Losses = {}
  Cuts = {}
  MaxRestarts = 1
  MailboxBound = 1
  PartUUID = {}
  Orphan = {o1}
  NameParts <- Beginnings
  Picks <- Own
SYMMETRY OwnSymmetry
SPECIFICATION Spec
INVARIANTS
  TypeOK
  KeyFiledUnderSender
  RecipientsKnown
  KeyHeldWasSent
