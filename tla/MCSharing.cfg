SPECIFICATION Spec
CONSTANTS
  Entries = {"db"}
  Received = {"gift"}
  Labels <- MCLabels
  HandLabels = {2}
  Keys <- MCKeys
  Principals <- MCPrincipals
  Devices = {"laptop"}
  Nobody = "nobody"
  MaxGrants = 2
INVARIANTS TypeOK ShownIsWhoHasAccess OffboardedGetsNothing RegistryIsTheSession
PROPERTIES PickedRowIsWhatIsRevoked
\* Nobody has to do anything with the vault or the directory.
CHECK_DEADLOCK FALSE
