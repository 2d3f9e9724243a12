SPECIFICATION ToolsSpec
CONSTANTS
  Tools = {"tap"}
  Cpus = {c1, c2, c3}
  Uids = {u1, u2, u3}
  MaxEntries = 2
  MaxEvents = 8
  MaxExecs = 4
  Keys = {k1}
  RingSize = 3
  MaxPkts = 2
  MaxTime = 2
  Tids = {1, 2, 3, 4, 5, 6}
  Kept = {1, 2}
  MaxForks = 3
  Keep = 2
  MaxKeep = 3
  MaxLog = 5
  Counts = {0, 1, 3}
  Tops = {0, 1, 2}
  MaxRows = 2
  MaxFrames = 5
  None = None
  Null = Null
INVARIANTS TappedChosen
CHECK_DEADLOCK FALSE
