------------------------------ MODULE TcpStates ------------------------------
(***************************************************************************)
(* tcpstates (12-tcpstates): one event per TCP state change, with the time *)
(* the socket spent in the state it leaves.  The timestamp of the previous *)
(* change is kept in an LRU map keyed by the socket's address.  The kernel *)
(* holds the socket's lock around tcp_set_state(), so the handler is one   *)
(* step of that call; TcpTools puts the two together.                      *)
(***************************************************************************)
EXTENDS TcpSock, Integers, Sequences

CONSTANTS StampEntries,   \* max_entries of timestamps
          RingSize        \* events the ring buffer holds

VARIABLES
  timestamps,   \* address -> time of the last change we recorded
  events,       \* events submitted and not yet consumed
  since,        \* ghost: when the socket entered the state it is in, if we saw it
  evicted       \* ghost: sockets whose timestamp was evicted in that state

statesVars == <<timestamps, events, since, evicted>>

\* struct event; since and evicted carry the ghosts of the socket along.
Event == [sk : Socks, span : Nat, has_span : BOOLEAN, oldstate : States, newstate : States,
          time : Nat, since : Nat \cup {None}, evicted : BOOLEAN]

StatesTypeOK ==
  /\ timestamps \in [Socks -> Nat \cup {None}] /\ since \in [Socks -> Nat \cup {None}]
  /\ events \in Seq(Event) /\ evicted \subseteq Socks

StatesInit ==
  /\ timestamps = [a \in Socks |-> None] /\ events = <<>>
  /\ since = [a \in Socks |-> None] /\ evicted = {}

\* bpf_map_update_elem(BPF_ANY) on a full LRU_HASH evicts another entry.
Stamped == {x \in Socks : timestamps[x] # None}
Victims(a) == IF a \in Stamped \/ Cardinality(Stamped) < StampEntries THEN {None} ELSE Stamped

Stamp(a, new, v) == [x \in Socks |-> IF x = v THEN None
                                     ELSE IF x # a THEN timestamps[x]
                                     ELSE IF new = TCP_CLOSE THEN None ELSE time]

\* (Mutant: the span is taken after the new timestamp is written.)
SpanLate(a) == [has |-> TRUE, us |-> 0]
Span(a) == IF timestamps[a] = None THEN [has |-> FALSE, us |-> 0]
           ELSE [has |-> TRUE, us |-> time - timestamps[a]]

\* handle_set_state(): take the span, stamp or drop, emit if the ring has room.
StatesHandler(a, new) ==
  /\ \E v \in (IF new = TCP_CLOSE THEN {None} ELSE Victims(a)) :
       /\ timestamps' = Stamp(a, new, v)
       /\ evicted' = (evicted \ {a}) \cup ({v} \ {None})
  /\ LET s == Span(a)
         e == [sk |-> a, span |-> s.us, has_span |-> s.has, oldstate |-> st[a], newstate |-> new,
               time |-> time, since |-> since[a], evicted |-> a \in evicted] IN
       events' = IF Len(events) < RingSize THEN Append(events, e) ELSE events
  /\ since' = [since EXCEPT ![a] = IF new = TCP_CLOSE THEN None ELSE time]

\* ring_buffer__poll() hands the oldest event to handle_event(), which prints the
\* time in the old state, or a blank when has_span is not set.
StatesHandleEvent ==
  /\ events # <<>> /\ events' = Tail(events)
  /\ UNCHANGED <<timestamps, since, evicted>>

\* A span is the time THIS socket spent in the state it leaves, never one that
\* reaches back to another socket at the same address; it is blank exactly when
\* we did not see the socket enter that state or its timestamp was evicted.
SpanIsTimeInState ==
  \A i \in DOMAIN events : LET e == events[i] IN
    IF e.has_span THEN e.since # None /\ e.span = e.time - e.since
                  ELSE e.since = None \/ e.evicted

=============================================================================
