SPECIFICATION Spec
CONSTANTS
  Cpus = {c1, c2}
  Keys <- SomeFlows
  Src <- MCSrc
  Port <- MCPort
  RingSize = 2
  MaxPkts = 4
  MaxTime = 7
  None = None
  Suspicious = {4444}
  MAX_FLOWS = 2
  MAX_GAPS = 2
  BEACON_MIN_SAMPLES = 2
  BEACON_MIN_INTERVAL = 1
  BEACON_MAX_INTERVAL = 2
  MAX_SCAN_SRC = 1
  MAX_SCAN_PORTS = 2
  SCAN_WINDOW = 2
  SCAN_PORT_THRESH = 1
  SCAN_COOLDOWN = 2
  TsMod = 64

PROPERTIES AlertsAlwaysApart
CHECK_DEADLOCK FALSE
SYMMETRY Sym
