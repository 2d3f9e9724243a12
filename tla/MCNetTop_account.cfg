SPECIFICATION Spec
CONSTANTS
  Cpus = {c1, c2}
  Pids <- MCPids
  Socks = {s1}
  TcpSocks = {s1}
  IpSocks = {s1}
  HookedSocks = {s1}
  Elems = {e1, e2}
  Slots = {t1}
  Sizes = {1}
  MaxCalls = 2
  MaxComm = 1
  Attachable = {"tcp_sendmsg"}
  Hidden = {}
  ReapIdle = 0
  MaxRows = 2
  ReuseInPass = FALSE
  MaxTime = 2
  None = None
INVARIANTS BytesConserved CompletePass RatesAddUp OneLinePerProcess
PROPERTIES MeterKept
CHECK_DEADLOCK FALSE
SYMMETRY Sym
