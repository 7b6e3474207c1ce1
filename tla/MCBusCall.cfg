SPECIFICATION BusSpec
CONSTANTS
  Bridges = {d1}
  i1 = i1
  i2 = i2
  Ids = {i1, i2}
  Types = {venet}
  HandleOf <- MCHandleOf
  Locks = {k1, k2}
  Null = null
INVARIANTS TypeOK BridgeInv OnlyLocksAndMappingsLeak FreedOnce SignalIsThere
  CallInv AnswerIsOwn OpenGetsItsDevice PreparedIsComplete
SYMMETRY Symmetry
CHECK_DEADLOCK FALSE
