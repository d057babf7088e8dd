SPECIFICATION Spec
CONSTANTS
  Devices = {"desk"}
  OwnDevice = "desk"
  RuleIds = {"starter", "own"}
  StarterRules <- OneRule
  People = {1}
  Timeouts = {300}
  Teams = {"Personal"}
  MaxRequests = 2
  MaxRules = 2
  MaxOpened = 3
  Readable = {TRUE}

PROPERTIES SavedDecisionsStay
\* The user may leave the window alone for ever.
CHECK_DEADLOCK FALSE
