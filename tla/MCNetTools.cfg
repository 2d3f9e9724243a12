SPECIFICATION FairSpec
CONSTANTS
  Counters = {xc}
  Firewalls = {fw, fw2}
  TcStats = {tc, tc2}
  OpenCounts = {oc, oc2}
  Sessions = {{xc, fw}, {tc, fw}, {xc, tc}, {fw, fw2}, {tc, tc2}, {oc, oc2}}
  Packets <- Frames
  Machines <- Hosts
  Args <- CommandLine
  MaxRules = 2
  MaxPkts = 2
INVARIANTS InForce NothingSlips Restored PacketsAccounted
PROPERTIES CtrlCExits
CHECK_DEADLOCK FALSE
