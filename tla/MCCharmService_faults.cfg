SPECIFICATION Spec
CONSTANTS
  Args = {a, b}
  NoArgs = NoArgs
  MaxFaults = 2
  MaxUpgrades = 1
  MaxOps = 2
INVARIANTS
  NoOrphan
  RecordedIsInstalled
  UnitAccounted
  
  RestartPicksUpUpgrade
PROPERTIES
  OperationsReturn
