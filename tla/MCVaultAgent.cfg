CONSTANTS
  Agents = {a1, a2}
  Clients = {c1, c2}
  Nobody = Nobody
  Timeout = 2
  Sent = {"GET", "CODE?", "LOCK"}
SPECIFICATION PoliteSpec
INVARIANTS
  EndsLocked
  WaitsForOneAgent
PROPERTIES
  IdleLocks
  NobodyIsLeftWaiting
