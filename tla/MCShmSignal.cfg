SPECIFICATION SigSpec
CONSTANTS
  NorthThreads = {n1, n2}
  SouthThreads = {s1}
SYMMETRY Symmetry
INVARIANTS SigInv NoLostSignal
