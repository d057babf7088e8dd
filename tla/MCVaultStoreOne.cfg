CONSTANTS
  Names = {n1}
  Passwords = {p1, p2}
  EditKinds = {"share"}
  NoVault = NoVault
  NoPassword = NoPassword
  NoName = NoName
  Clients = {c1}
  ShareParams <- OkAndBadShares
  SaveMayFail = TRUE
  Syncing = TRUE
  MaxBlocks = 4
  MaxLocked = 1
  MaxKeys = 3
SPECIFICATION Spec
INVARIANTS
  EveryArtifactOpens
  PasswordIsAcknowledged
  SharesRecover
PROPERTIES
  LedgerOnlyGrows
  PromiseKept
