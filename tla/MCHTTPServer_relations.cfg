SPECIFICATION Spec
CONSTANTS
  u1 = u1  u2 = u2  a1 = a1  a2 = a2  c1 = c1  c2 = c2  bad = bad
  Urls = {u1, u2}
  Args = {a1, a2}
  Certs = {c1, c2, bad}
  BadCerts = {bad}
  Ports = {80, 443}
  Nil = Nil
  Torn = Torn
  Absent = Absent
  NumFields = 1
  Requests <- FewRequests
  Callers = {k1}
  Faults = {"handler"}
INVARIANTS
  HandlerGetsRelations
