SPECIFICATION Spec
CONSTANTS
  Devices = {"desk", "phone"}
  Groups = {"ops", "admin"}
  Aliases <- OneAlias
  Users = {"u"}
  Rules <- SomeRules
  StarterRules <- StarterPack
  Contexts <- SomeContexts
  MaxRules = 2
  MaxEdits = 3
INVARIANTS TypeOK HighNeedsMfa RulesBindEverybody
PROPERTIES MoreProofNeverLoses TighteningTrustsOnlyThisDevice
\* Nobody has to ask for anything.
CHECK_DEADLOCK FALSE
