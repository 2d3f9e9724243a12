------------------------------- MODULE TcpLife -------------------------------
(***************************************************************************)
(* 13-tcplife: one summary per finished TCP connection.  handle_set_state  *)
(* stamps the birth of a connection once, stashes the identity of its      *)
(* process where the kernel runs in that process, and at CLOSE emits the   *)
(* summary and deletes both entries.  The kernel holds the socket's lock   *)
(* around tcp_set_state(), so a handler is one step.  The byte counters,   *)
(* the RTT and the addresses are read off the socket and left out.         *)
(***************************************************************************)
EXTENDS TcpSock, Sequences

CONSTANTS
  LifeEntries,     \* max_entries of births and of idents
  LifeRing         \* summaries the ring buffer holds

VARIABLES
  births,     \* LRU_HASH: address -> time of the first opening transition
  idents,     \* LRU_HASH: address -> stashed pid
  summaries,  \* summaries submitted and not yet consumed
  opened,     \* ghost: when we saw the socket's first opening transition
  caller,     \* ghost: the process whose connect() on the socket we saw
  closer,     \* ghost: the task on the CPU when we saw the socket go to LAST_ACK
  midlife,    \* ghost: addresses with a live socket when the program was attached
  lost        \* ghost: addresses an entry of which was evicted

lifeVars == <<births, idents, summaries, opened, caller, closer, midlife, lost>>

\* struct event: lifetime and pid; stashed says where pid comes from, and the
\* ghosts opened, closed, caller and closer what is true of the socket.
Summaries == [sk : Socks, span : Nat, pid : Pids \cup {0}, stashed : BOOLEAN, opened : Nat \cup {None},
              closed : Nat, caller : Pids \cup {None}, closer : Pids \cup {0, None}]

LifeTypeOK ==
  /\ births \in [Socks -> Nat \cup {None}] /\ idents \in [Socks -> Pids \cup {0, None}]
  /\ summaries \in Seq(Summaries) /\ opened \in [Socks -> Nat \cup {None}]
  /\ caller \in [Socks -> Pids \cup {None}] /\ closer \in [Socks -> Pids \cup {0, None}]
  /\ midlife \subseteq Socks /\ lost \subseteq Socks

LifeInit ==
  /\ births = [a \in Socks |-> None] /\ idents = [a \in Socks |-> None] /\ summaries = <<>>
  /\ opened = [a \in Socks |-> None] /\ caller = [a \in Socks |-> None]
  /\ closer = [a \in Socks |-> None] /\ midlife = {} /\ lost = {}

\* bpf_map_update_elem() of key a on an LRU_HASH m: a full map loses an entry.
Keys(m) == {x \in Socks : m[x] # None}
LruUpdates(m, a, val) ==
  {[x \in Socks |-> IF x = a THEN val ELSE IF x = v THEN None ELSE m[x]] :
     v \in IF a \in Keys(m) \/ Cardinality(Keys(m)) < LifeEntries THEN {None} ELSE Keys(m)}

\* births is stamped by every opening state, but only once (BPF_NOEXIST).
\* (Mutant: BPF_ANY, the last opening transition wins.)
BirthsAny(a, new) == IF new < TCP_FIN_WAIT1 THEN LruUpdates(births, a, time) ELSE {births}
BirthsAfter(a, new) ==
  IF new < TCP_FIN_WAIT1 /\ births[a] = None THEN LruUpdates(births, a, time) ELSE {births}

\* The identity is stashed at SYN_SENT and at LAST_ACK.
\* (Mutant: also at ESTABLISHED, where chapter 12 found the wrong process.)
StashSoftirq == {TCP_SYN_SENT, TCP_ESTABLISHED, TCP_LAST_ACK}
StashStates == {TCP_SYN_SENT, TCP_LAST_ACK}
IdentsAfter(a, new, cur) ==
  IF new \in StashStates THEN LruUpdates(idents, a, cur) ELSE {idents}

Open(a, new, cur) ==
  /\ births' \in BirthsAfter(a, new) /\ idents' \in IdentsAfter(a, new, cur)
  /\ opened' = [opened EXCEPT ![a] = IF @ = None /\ new < TCP_FIN_WAIT1 THEN time ELSE @]
  /\ caller' = [caller EXCEPT ![a] = IF new = TCP_SYN_SENT THEN cur ELSE @]
  /\ closer' = [closer EXCEPT ![a] = IF new = TCP_LAST_ACK THEN cur ELSE @]
  /\ lost' = lost \cup (Keys(births) \ Keys(births')) \cup (Keys(idents) \ Keys(idents'))
  /\ UNCHANGED summaries

\* CLOSE: no birth, no summary -- and an early return; otherwise the summary, if
\* the ring has room, with the stashed identity or that of the current task.
Summary(a, cur) ==
  [sk |-> a, span |-> time - births[a], pid |-> IF idents[a] # None THEN idents[a] ELSE cur,
   stashed |-> idents[a] # None, opened |-> opened[a], closed |-> time,
   caller |-> caller[a], closer |-> closer[a]]

\* (Mutant: a full ring returns without the cleanup.)
CleanupIfSent(a, m) ==
  IF births[a] = None \/ Len(summaries) = LifeRing THEN m ELSE [m EXCEPT ![a] = None]
Cleanup(a, m) == IF births[a] = None THEN m ELSE [m EXCEPT ![a] = None]

Close(a, cur) ==
  /\ births' = Cleanup(a, births) /\ idents' = Cleanup(a, idents)
  /\ summaries' = IF births[a] # None /\ Len(summaries) < LifeRing
                  THEN Append(summaries, Summary(a, cur)) ELSE summaries
  /\ opened' = [opened EXCEPT ![a] = None] /\ caller' = [caller EXCEPT ![a] = None]
  /\ closer' = [closer EXCEPT ![a] = None] /\ UNCHANGED lost

\* handle_set_state().
LifeHandler(a, new, cur) ==
  /\ IF new = TCP_CLOSE THEN Close(a, cur) ELSE Open(a, new, cur)
  /\ UNCHANGED midlife

LifeAttach ==
  /\ midlife' = {a \in Socks : st[a] # TCP_CLOSE}
  /\ UNCHANGED <<births, idents, summaries, opened, caller, closer, lost>>

LifeHandleEvent ==
  /\ summaries # <<>> /\ summaries' = Tail(summaries)
  /\ UNCHANGED <<births, idents, opened, caller, closer, midlife, lost>>

\* The lifetime of a summary runs from the first opening transition seen of THIS
\* socket to its close (tcplife.h, span_us), handshake included, unless an entry
\* at its address was evicted.
SpanIsLifetime ==
  \A i \in DOMAIN summaries : LET e == summaries[i] IN
    e.sk \notin lost => e.opened # None /\ e.span = e.closed - e.opened

\* A summary names the task that was on the CPU when the socket went to LAST_ACK, or
\* else the process that called connect() on it: not the task its close interrupted, nor
\* one on top of which it was established, nor a user of an earlier socket at the
\* address.  Entries the LRU map evicted are left out, and identities left behind by
\* sockets that were open when the program was attached.
PidIsCallers ==
  \A i \in DOMAIN summaries : LET e == summaries[i] IN
    e.sk \notin lost =>
      /\ e.closer # None => e.pid = e.closer
      /\ e.closer = None /\ e.caller # None => e.pid = e.caller
      /\ e.stashed /\ e.sk \notin midlife => e.closer # None \/ e.caller # None
=============================================================================
