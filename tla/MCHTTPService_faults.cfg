SPECIFICATION ServiceSpec
CHECK_DEADLOCK FALSE
CONSTANTS
  u1 = u1  a1 = a1  a2 = a2  c1 = c1
  Urls = {u1}
  Args = {a1, a2}
  Certs = {c1}
  BadCerts = {}
  Ports = {80, 81, 443}
  Nil = Nil
  Torn = Torn
  Absent = Absent
  NumFields = 1
  Requests <- AnyState
  Callers = {k1, k2}
  Faults = {"dial", "save"}
  Confs <- Configurations
  MaxChanges = 1
  MaxOps = 2
  MaxFaults = 2
INVARIANTS
  ServiceTypeOK
  UnwantedIsDown
  LastSetIsWanted
  WantedIsServed
PROPERTIES
  EventuallySettled
