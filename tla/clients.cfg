CONSTANTS
  p1 = p1
  p2 = p2
  n1 = n1
  n2 = n2
  ZeroUUID = ZeroUUID
  EmptyName = EmptyName
  NoKey = NoKey
  ZeroKey = ZeroKey
  Program = {p1}
  UUID = {u1, u2}
  Username = {n1}
  Key = {k1}
  Types = {"ASK_SYM_KEY", "SEND_SYM_KEY", "SEND_FILE"}
  Losses = {p1}
  Cuts = {p1}
  MaxRestarts = 1
  MailboxBound = 1
  PartUUID = {part}
  Orphan = {o1}
  NameParts <- Beginnings
  Picks <- Own
SYMMETRY UUIDSymmetry
SPECIFICATION Spec
INVARIANTS
  LookupsFind
  RecipientsKnown
  KeyHeldWasSent
