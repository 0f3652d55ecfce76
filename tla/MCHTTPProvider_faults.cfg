SPECIFICATION Spec
CONSTANTS
  Configs <- Configurations
  AllowHTTPS = TRUE
  Ids = {r1, r2}
  MaxChanges = 2
  MaxFaults = 1
  MaxCrashes = 1
  Faulty = {"config", "cert", "close", "open", "address", "set"}
CHECK_DEADLOCK FALSE
INVARIANTS
  RecordedPortsOpen
  SettledIsRight
  ToldIsRecorded
PROPERTIES
  EventuallySettled
