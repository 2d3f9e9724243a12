------------------------------ MODULE MCTcpTools -----------------------------
(* Small instances of TcpTools.  Nothing tells two socket addresses, or two *)
(* processes, apart.                                                        *)
EXTENDS TcpTools, TLC
BothTools == {"tcpstates", "tcplife"}
Sym == Permutations(Socks) \cup Permutations(Pids)
=============================================================================
