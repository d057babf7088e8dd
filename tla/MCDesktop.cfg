SPECIFICATION Spec
CONSTANTS
  Passwords = {"p", "q"}
  MaxAttempts = 2
  MaxRecovered = 1
  Names = {1, 2}
  Categories = {"mail"}
  CategoryOf <- OneCategory
  Sections = {"Vault", "Trash", "Zero Trust"}
  Queries = {0, 1, 2}
  PageSize = 1
  Contents <- TwoContents
  ClearSeconds = 1
  LockSeconds = 1
  RevealFirst = TRUE
  MaxChanges = 2
  MaxMoves = 2
INVARIANTS TypeOK ScreenIsTrue ClipboardIsBrief LocksWhenIdle NoSessionIsLost BusyForAReason
PROPERTIES WhatIsCopiedWasShown DeletesWhatWasAsked UnlockEnds
\* A rejected dialog or a closed window is the end of the process.
CHECK_DEADLOCK FALSE
