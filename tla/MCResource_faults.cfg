SPECIFICATION Spec
CONSTANTS
  Names = {r1, r2, r3}
  Contents = {c1, c2}
  Missing = Missing
  Faults = {"get", "installer", "crash"}
  MaxFaults = 2
  MaxAttached = 4
SYMMETRY Symmetric
CHECK_DEADLOCK FALSE
INVARIANTS
  UpToDate
  InstalledOnce
