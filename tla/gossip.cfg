CONSTANTS
  e1 = e1
  e2 = e2
  e3 = e3
  None = None
  Event = {e1, e2, e3}
  Garbled = {}
  Sources = 2
  Ahead = {1}
  Limit = 1
  Window = 2
  Cap = 1
  MaxAge = 1
  Delay = 2
  MayFail = TRUE
SPECIFICATION Spec
SYMMETRY SomeEvents
INVARIANTS TypeOK EmptyMeansQuiet
PROPERTY WindowLeavesRoom
