SPECIFICATION Spec
CONSTANTS
  Configs <- Exchanged
  AllowHTTPS = TRUE
  Ids = {r1}
  MaxChanges = 1
  MaxFaults = 0
  MaxCrashes = 0
  Faulty = {}
CHECK_DEADLOCK FALSE
INVARIANTS
  SettledPortsOpen
