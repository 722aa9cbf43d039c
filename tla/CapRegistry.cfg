SPECIFICATION Spec

CONSTANTS
  g1 = g1
  g2 = g2
  c1 = c1
  c2 = c2
  c3 = c3
  Groups <- TwoGroups
  Caps <- ThreeCaps
  Members <- PairAndOne
  Callers = {k1, k2, k3}
  NoGroup = NoGroup
  NoCap = NoCap

INVARIANTS
  TypeOK
  CallsAreSafe
  OpenIsReady
PROPERTIES
  UnregisterEnds
CHECK_DEADLOCK FALSE
