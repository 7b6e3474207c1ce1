SPECIFICATION Spec
CONSTANTS
  Bridges = {d1, d2}
  i1 = i1
  i2 = i2
  Ids = {i1, i2}
  Types = {venet, other}
  HandleOf <- MCHandleOf
  Null = null
INVARIANT RunningBridgeKeepsState
CHECK_DEADLOCK FALSE
