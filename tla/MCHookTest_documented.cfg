SPECIFICATION Spec
CONSTANTS
  Cap = 2
  MaxOps = 2
  Free = Free
  Test = Test
PROPERTIES
  OperationsReturn
CHECK_DEADLOCK FALSE
