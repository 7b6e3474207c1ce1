SPECIFICATION FairSpec
CONSTANTS
  Senders = {t1, t2}
  x = x
  y = y
  Nbl = {x, y}
  NoNbl = none
  NbCount <- MCNbCount
  CancelId <- MCCancelId
  NumTcbs = 2
PROPERTY LoopGoesOn
CHECK_DEADLOCK FALSE
