SPECIFICATION Spec
CONSTANTS
  Cpus = {c1, c2}
  Pids = {1, 2, 3}
  Chapters = {3, 4, 5, 6, 8}
  ArgCounts = {0, 1, 3}
  MAXARGS = 2
  TABLE_SIZE = 2
  RingSize = 4
  MaxExecs = 3
  None = None
INVARIANTS LineIsWhole DrainedIsDone ArgsInOrder
CHECK_DEADLOCK FALSE
SYMMETRY Sym
