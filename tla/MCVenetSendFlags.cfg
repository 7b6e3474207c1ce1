SPECIFICATION Spec
CONSTANTS
  Senders = {t1, t2}
  x = x
  y = y
  Nbl = {x, y}
  NoNbl = none
  NbCount <- MCNbCount
  CancelId <- MCCancelId
  NumTcbs = 2
SYMMETRY Symmetry
INVARIANT ShutdownStays
CHECK_DEADLOCK FALSE
