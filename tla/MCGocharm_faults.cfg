SPECIFICATION Spec
CONSTANTS
  Chars = {"a", "b", ".", "root"}
  Names <- MCNames
  Hooks <- MCHooks
  Options = {o1}
  Details = {d1, d2}
  Relations = {r1}
  MaxCalls = 3
  MaxRuns = 2
  MaxEdits = 1
  MaxFaults = 1
INVARIANTS
  SeparateNameSpaces
  DeliveredIsThere
PROPERTIES
  UserFilesKept
CHECK_DEADLOCK FALSE
