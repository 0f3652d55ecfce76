SPECIFICATION Spec
CONSTANTS
  f1 = f1  f2 = f2  f3 = f3  w1 = w1  w2 = w2
  Funcs = {f1, f2, f3, w1, w2}
  Values = {v0, v1}
  Zero = v0
  WildFuncs <- Wild
  Hooks <- HookNames
  Registered <- HookTable
  NumRegs = 3
  NumContexts = 2
  MaxFaults = 2
INVARIANTS
  DurableUnlessFault
  SuccessIsComplete
  UnreadableIsKept
  SavedIsPrefix
  RunOrder
PROPERTIES
  HookEnds
  IsDurableStore
