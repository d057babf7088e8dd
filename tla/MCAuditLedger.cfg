CONSTANTS
  Records = {r1, r2}
  MaxBlocks = 4
  MaxTampers = 3
SPECIFICATION Spec
INVARIANTS
  WrittenIsAccepted
  HeadHashPinsHistory
PROPERTIES
  EditedBlockIsNamed
\* Nobody has to write to a ledger: it may stay as it is for ever.
CHECK_DEADLOCK FALSE
