SPECIFICATION Spec
CONSTANTS
  Socks = {s1, s2}
  Pids = {p1, p2}
  None = None
  MaxTime = 6
  Tools <- BothTools
  StampEntries = 1
  RingSize = 1
  LifeEntries = 1
  LifeRing = 1
INVARIANTS SpanIsTimeInState SpanIsLifetime PidIsCallers NothingLeft
CHECK_DEADLOCK FALSE
SYMMETRY Sym
