SPECIFICATION Spec
CONSTANTS
  Devices = {"desk", "phone"}
  Groups = {"ops", "admin"}
  Aliases <- OneAlias
  Users = {"u"}
  Rules <- SomeRules
  StarterRules <- StarterPack
  Contexts <- SomeContexts
  MaxRules = 2
  MaxEdits = 3
INVARIANT CriticalNeedsBoth
\* Nobody has to ask for anything.
CHECK_DEADLOCK FALSE
