SPECIFICATION Spec
CONSTANTS
  t1 = t1
  t2 = t2
  t3 = t3
  t4 = t4
  p1 = p1
  p2 = p2
  p3 = p3
  Pids = {p1, p2, p3}
  Elems = {e1, e2, e3}
  RingSize = 1
  None = None
  Threads = {t1, t2, t3, t4}
  PidOf <- TwoThreads
  Args = {ip, null}
  IpArgs = {ip}
  NullArg = null
  MaxEntries = 2
  MaxCalls = 4
INVARIANTS OwnArgs NoLeak NeverSilent
CHECK_DEADLOCK FALSE
SYMMETRY Sym
