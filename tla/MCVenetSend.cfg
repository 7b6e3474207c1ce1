SPECIFICATION FairSpec
CONSTANTS
  Senders = {t1, t2}
  x = x
  y = y
  Nbl = {x, y}
  NoNbl = none
  NbCount <- MCNbCount
  CancelId <- MCCancelId
  NumTcbs = 2
INVARIANTS TypeOK SingleProcessor SentInOrder NothingLost NullTcbOnlyAfterFree UnsetMeansInUse
PROPERTY SendReturns
CHECK_DEADLOCK FALSE
