------------------------------- MODULE TcpSock -------------------------------
(***************************************************************************)
(* TCP sockets as the kprobes on tcp_set_state() see them (chapters 12 and *)
(* 13): which transitions a socket makes, in whose context the kernel runs *)
(* when it makes them, and that the address of a dead socket is reused.    *)
(* The kernel is external.  Of the context one thing is taken for granted: *)
(* connect() runs in its caller.                                           *)
(***************************************************************************)
EXTENDS Naturals, FiniteSets

CONSTANTS
  Socks,      \* addresses of struct sock
  Pids,       \* processes; 0 is the idle task ("swapper")
  None,       \* no value
  MaxTime,    \* bound: state changes in one behaviour
  Tools       \* the programs that watch the sockets

ASSUME SockAssumption ==
  0 \notin Pids /\ None \notin Nat \cup Pids \cup Socks /\ MaxTime \in Nat

\* enum of the kernel's TCP states.
TCP_ESTABLISHED == 1
TCP_SYN_SENT    == 2
TCP_SYN_RECV    == 3
TCP_FIN_WAIT1   == 4
TCP_FIN_WAIT2   == 5
TCP_CLOSE       == 7
TCP_CLOSE_WAIT  == 8
TCP_LAST_ACK    == 9
TCP_LISTEN      == 10
TCP_CLOSING     == 11
States == {1, 2, 3, 4, 5, 7, 8, 9, 10, 11}

\* The calls tcp_set_state(sk, new) the kernel makes in each state.  (LISTEN, and
\* the SYN_RECV of a listener's child, are entered without such a call.)
Moves ==
  {<<TCP_CLOSE, TCP_SYN_SENT>>, <<TCP_CLOSE, TCP_CLOSE>>, <<TCP_SYN_SENT, TCP_SYN_RECV>>,
   <<TCP_SYN_RECV, TCP_FIN_WAIT1>>, <<TCP_SYN_SENT, TCP_ESTABLISHED>>, <<TCP_SYN_SENT, TCP_CLOSE>>,
   <<TCP_SYN_RECV, TCP_ESTABLISHED>>, <<TCP_SYN_RECV, TCP_CLOSE>>,
   <<TCP_ESTABLISHED, TCP_FIN_WAIT1>>, <<TCP_ESTABLISHED, TCP_CLOSE_WAIT>>,
   <<TCP_ESTABLISHED, TCP_CLOSE>>, <<TCP_FIN_WAIT1, TCP_FIN_WAIT2>>,
   <<TCP_FIN_WAIT1, TCP_CLOSING>>, <<TCP_FIN_WAIT1, TCP_CLOSE>>, <<TCP_FIN_WAIT2, TCP_CLOSE>>,
   <<TCP_CLOSING, TCP_CLOSE>>, <<TCP_CLOSE_WAIT, TCP_LAST_ACK>>, <<TCP_CLOSE_WAIT, TCP_CLOSE>>,
   <<TCP_LAST_ACK, TCP_CLOSE>>, <<TCP_LISTEN, TCP_CLOSE>>}

\* connect() runs in the process that calls it, whichever of those that share the
\* socket that is.  What the peer's segments cause runs in softirq, on top of any task;
\* so may LAST_ACK, which the code says is "usually" process context.
ProcessContext == {TCP_SYN_SENT}

VARIABLES
  st,         \* skc_state of the socket at each address
  attached,   \* tools whose kprobe is attached
  time        \* bpf_ktime_get_ns(), in state changes

sockVars == <<st, attached, time>>

SockTypeOK ==
  st \in [Socks -> States] /\ attached \subseteq Tools /\ time \in Nat

\* A program may be started in the middle of connections.
SockInit == st \in [Socks -> States] /\ attached = {} /\ time = 1

\* tcp_set_state(sk, new) is called while task cur is on the CPU.
SetState(a, new, cur) ==
  /\ time < MaxTime
  /\ <<st[a], new>> \in Moves
  /\ new \in ProcessContext => cur \in Pids
  /\ time' = time + 1 /\ st' = [st EXCEPT ![a] = new]
  /\ UNCHANGED attached

\* The slab gives the address of a dead socket to a new one: a fresh one, one that
\* listens, or the child of a listening one.
Fresh == {TCP_CLOSE, TCP_LISTEN, TCP_SYN_RECV}
SlabReuse(a, s) ==
  /\ st[a] = TCP_CLOSE
  /\ s \in Fresh /\ st' = [st EXCEPT ![a] = s]
  /\ UNCHANGED <<attached, time>>

ProgAttach(t) ==
  t \in Tools \ attached /\ attached' = attached \cup {t} /\ UNCHANGED <<st, time>>
=============================================================================
