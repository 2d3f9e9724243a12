SPECIFICATION FairSpec
CONSTANTS
  Cpus = {c1}
  Pids <- MCPids
  Socks = {s1, s2, s3}
  TcpSocks = {s1}
  IpSocks = {s1, s2}
  HookedSocks = {s1}
  Elems = {e1}
  Slots = {t1}
  Sizes = {1}
  MaxCalls = 2
  MaxComm = 0
  Attachable = {"tcp_sendmsg", "tcp_cleanup_rbuf", "udp_sendmsg", "udpv6_sendmsg", "skb_consume_udp", "tcp_retransmit_skb", "tcp_close"}
  Hidden = {}
  ReapIdle = 0
  MaxRows = 1
  ReuseInPass = FALSE
  MaxTime = 2
  None = None
INVARIANTS TypeOK BytesConserved OwnerIsUser
PROPERTIES DeadRowsReaped
CHECK_DEADLOCK FALSE
