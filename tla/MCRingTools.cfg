SPECIFICATION Spec
CONSTANTS
  Cpus = {c1, c2}
  Tools <- AllTools
  RingSize = 2
  MaxEvents = 3
  None = None
INVARIANTS VerdictKept MarkExact
PROPERTIES StopExits LogKept
CHECK_DEADLOCK FALSE
