CONSTANTS
  Names = {n1}
  Passwords = {p1, p2}
  EditKinds = {"share"}
  NoVault = NoVault
  NoPassword = NoPassword
  NoName = NoName
  Clients = {c1, c2}
  ShareParams <- OkAndBadShares
  SaveMayFail = FALSE
  Syncing = FALSE
  MaxBlocks = 3
  MaxLocked = 1
  MaxKeys = 2
SPECIFICATION Spec
INVARIANTS
  LedgerExplainsEntries
SYMMETRY Interchangeable
