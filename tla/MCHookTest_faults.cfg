SPECIFICATION Spec
CONSTANTS
  Cap = 2
  MaxOps = 4
  Free = Free
  Test = Test
INVARIANTS
  EventsTellTheState
PROPERTIES
  OnlyTheChannelBlocks
CHECK_DEADLOCK FALSE
