SPECIFICATION FairSpec
CONSTANTS
  Counters = {xc}
  Firewalls = {fw, fw2}
  TcStats = {tc, tc2}
  OpenCounts = {oc, oc2}
  Sessions = {{oc}}
  Packets <- Frames
  Machines <- Hosts
  Args <- CommandLine
  MaxRules = 2
  MaxPkts = 0

PROPERTIES PauseExits
CHECK_DEADLOCK FALSE
