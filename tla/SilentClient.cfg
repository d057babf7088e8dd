CONSTANTS
  Agents = {a1}
  Clients = {c1}
  Nobody = Nobody
  Timeout = 2
  Sent = {"LIST", "GET", "GET?", "CODE", "CODE?", "LOCK", "other"}
SPECIFICATION FairSpec
PROPERTIES
  IdleLocks
