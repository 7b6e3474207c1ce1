SPECIFICATION IoqSpec
CONSTANTS
  Count = 3
  Drainer = {d1, d2}
  MaxEvents = 7
INVARIANTS IoqInv CountAtRest IterationNeverFails
PROPERTIES InOrder ImplementsChannel
