SPECIFICATION FairSpec
CONSTANTS
  Power = p
  Host = h
  Dpcs = {c1, c2}
  NorthThreads = {p, c1, c2}
  SouthThreads = {h}
  Drainer = {p, c1, c2}
  Count = 2
  MaxEvents = 2
INVARIANTS TypeOK LeftIsDirty UnmaskedWhenOn MaskedWhenOff DpcsDoNotOverlap
PROPERTY FirstEventHandled
CHECK_DEADLOCK FALSE
