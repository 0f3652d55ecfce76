SPECIFICATION Spec
CONSTANTS
  Words = {w1}
  NumUnits = 1
  Rels = {r1}
  Ports = {80,81}
  Unset = Unset
  Torn = Torn
  Absent = Absent
  MaxChanges = 3
  MaxFaults = 1
INVARIANTS
  SettledAgree
PROPERTIES
  CommitIsLast
  EventuallySettled
CHECK_DEADLOCK FALSE
