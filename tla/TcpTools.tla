------------------------------- MODULE TcpTools ------------------------------
(***************************************************************************)
(* tcpstates and tcplife on one machine: both hang a kprobe on             *)
(* tcp_set_state(), each from the moment it is started, and both see every *)
(* later transition of every socket.                                       *)
(***************************************************************************)
EXTENDS TcpStates, TcpLife

vars == <<sockVars, statesVars, lifeVars>>

TypeOK == SockTypeOK /\ StatesTypeOK /\ LifeTypeOK

Init == SockInit /\ StatesInit /\ LifeInit

\* tcp_set_state(sk, new) with the programs attached to it.
HandleSetState(a, new, cur) ==
  /\ SetState(a, new, cur)
  /\ IF "tcpstates" \in attached THEN StatesHandler(a, new) ELSE UNCHANGED statesVars
  /\ IF "tcplife" \in attached THEN LifeHandler(a, new, cur) ELSE UNCHANGED lifeVars

Reuse(a, s) == SlabReuse(a, s) /\ UNCHANGED <<statesVars, lifeVars>>

Attach(t) ==
  /\ ProgAttach(t) /\ UNCHANGED statesVars
  /\ IF t = "tcplife" THEN LifeAttach ELSE UNCHANGED lifeVars

HandleEvent ==
  /\ \/ StatesHandleEvent /\ UNCHANGED lifeVars
     \/ LifeHandleEvent /\ UNCHANGED statesVars
  /\ UNCHANGED sockVars

Next ==
  \/ \E a \in Socks, new \in States, cur \in Pids \cup {0} : HandleSetState(a, new, cur)
  \/ \E a \in Socks, s \in Fresh : Reuse(a, s)
  \/ HandleEvent \/ \E t \in Tools : Attach(t)

Spec == Init /\ [][Next]_vars

\* At CLOSE every entry of the socket is deleted, whether or not its events could
\* be emitted: nothing is left for the next socket at its address.  (tcplife leaves
\* the identity of a socket that was open before it was attached.)
NothingLeft ==
  \A a \in Socks : st[a] = TCP_CLOSE =>
    /\ timestamps[a] = None
    /\ a \notin midlife \cup lost => births[a] = None /\ idents[a] = None
=============================================================================
