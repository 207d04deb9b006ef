CONSTANTS
  p1 = p1
  p2 = p2
  n1 = n1
  n2 = n2
  ZeroUUID = ZeroUUID
  EmptyName = EmptyName
  NoKey = NoKey
  ZeroKey = ZeroKey
  Program = {p1, p2}
  UUID = {u1}
  Username = {n1}
  Key = {}
  Types = {}
  Losses = {}
  Cuts = {p1}
  MaxRestarts = 0
  MailboxBound = 0
  PartUUID = {part}
  Orphan = {}
  NameParts <- Beginnings
  Picks <- Shared
SPECIFICATION Spec
PROPERTIES
  KeySetForTarget
