----------------------------- MODULE MCNetTools ------------------------------
(* Small instances of NetTools.                                             *)
EXTENDS NetTools
\* A machine without anything of others, one with an unused qdisc, and one with an XDP
\* program and filters of others.
Clean == [xdp |-> "none", clsact |-> FALSE, filters |-> NoFilters]
Hosts == {Clean, [Clean EXCEPT !.clsact = TRUE],
          [xdp |-> "foreign", clsact |-> TRUE, filters |-> [d \in Dirs |-> <<"foreign">>]]}

\* 70000 is cut to 4464, and 9999 is one too many for two rules.
CommandLine == <<11111, 70000, 9999>>

Frame(a, b, q) == [l3 |-> a, l4 |-> b, whole |-> TRUE, port |-> q, seen |-> q]
Cut(k) == [k EXCEPT !.whole = FALSE]            \* the l4 header is cut off
Options(k, q) == [k EXCEPT !.seen = q]          \* IP options shift the l4 header
Frames ==
  {Frame("arp", "short", 0), Frame("ip", "short", 0), Frame("ip6", "short", 0), Frame("ip6", "tcp", 11111),
   Frame("ip", "tcp", 11111), Frame("ip", "udp", 80), Cut(Frame("ip", "udp", 11111)),
   Options(Frame("ip", "tcp", 11111), 0), Options(Frame("ip", "tcp", 80), 11111),
   Frame("ip", "udp", 4464), Frame("ip", "tcp", 9999)}
=============================================================================
