CONSTANTS
  p1 = p1
  p2 = p2
  n1 = n1
  n2 = n2
  ZeroUUID = ZeroUUID
  EmptyName = EmptyName
  NoKey = NoKey
  ZeroKey = ZeroKey
  Program = {p1, p2}
  UUID = {u1, u2}
  Username = {n1, n2}
  Key = {k1}
  Types = {"SEND_SYM_KEY", "SEND_TEXT_MSG"}
  Losses = {}
  Cuts = {}
  MaxRestarts = 0
  MailboxBound = 2
  PartUUID = {}
  Orphan = {}
  NameParts <- Beginnings
  Picks <- Own
SYMMETRY OwnSymmetry
SPECIFICATION Spec
INVARIANTS
  AllPrinted
