-------------------------------- MODULE IdsTap -------------------------------
(***************************************************************************)
(* 23-ids, the wire tap: main() opens an AF_PACKET socket, attaches the    *)
(* socket filter ids_tap() and binds the socket to an interface; the       *)
(* filter copies one record per packet into a ring buffer.  Until bind()   *)
(* the socket is given the packets of all interfaces.  A record's place in *)
(* the buffer is taken by bpf_ringbuf_reserve(), its time stamp            *)
(* afterwards, so two CPUs can leave records out of time order.  Frames    *)
(* that are not IPv4 TCP or UDP return before the reserve and leave no     *)
(* trace; they are not modelled.  A flow key stands for addresses,         *)
(* protocol and destination port; the length is left out.                  *)
(***************************************************************************)
EXTENDS Naturals, Sequences, FiniteSets

CONSTANTS
  Cpus,
  Keys,        \* flows: source, destination address, destination port, protocol
  RingSize,    \* records the ring buffer holds
  MaxPkts,     \* bound: packets in one behaviour
  MaxTime,     \* bound: clock
  None

ASSUME TapAssumption ==
  RingSize \in Nat /\ MaxPkts \in Nat /\ MaxTime \in Nat \ {0} /\ None \notin Cpus

VARIABLES
  pc,       \* the call main() makes next; "poll" in its loop
  lo,       \* is the chosen interface the loopback one?
  quiet,    \* PACKET_IGNORE_OUTGOING is set
  now,      \* bpf_ktime_get_ns()
  pkts,     \* packets on the wires so far, since the filter is attached
  ring,     \* records; cpu is the CPU still filling one in, or None
  taken,    \* ghost: records handed to handle_event()
  foreign   \* ghost: was one of them from another interface?

tapVars == <<pc, lo, quiet, now, pkts, ring, taken, foreign>>
sockVars == <<lo, quiet, taken, foreign>>

\* The chosen interface and another one.
Ifaces == {"chosen", "other"}
Record == [key : Keys, at : Ifaces, ts : 0..MaxTime, cpu : Cpus \cup {None}]

\* The calls of main() in order; each may fail, and then what is held is freed.
Unbound == {"bind"}
Bound   == {"ring", "signal", "poll"}
Calls   == {"load", "socket", "ignore", "attach"} \cup Unbound \cup Bound

TapTypeOK ==
  /\ pc \in Calls \cup {"exited"} /\ lo \in BOOLEAN /\ quiet \in BOOLEAN
  /\ now \in 1..MaxTime /\ pkts \in 0..MaxPkts
  /\ ring \in Seq(Record) /\ Len(ring) <= RingSize /\ taken \in Nat /\ foreign \in BOOLEAN

TapInit ==
  /\ pc = "load" /\ lo \in BOOLEAN /\ quiet = FALSE
  /\ now = 1 /\ pkts = 0 /\ ring = <<>> /\ taken = 0 /\ foreign = FALSE

-----------------------------------------------------------------------------
(* main() up to its loop, and its end.                                     *)

Call(from, to) == pc = from /\ pc' \in {to, "exited"} /\ UNCHANGED <<sockVars, now, pkts, ring>>

\* A failure only gives a warning.
IgnoreOutgoing ==
  /\ pc = "ignore" /\ pc' = "attach" /\ quiet' \in BOOLEAN
  /\ UNCHANGED <<lo, now, pkts, ring, taken, foreign>>

\* The handlers; a signal that comes before them kills the process.
InstallHandlers == Call("signal", "poll")

\* A signal or an error of ring_buffer__poll() ends the loop, and the socket is closed.
\* (Records taken before poll returns are as good as taken before the signal.)
LeaveLoop == pc = "poll" /\ pc' = "exited" /\ UNCHANGED <<sockVars, now, pkts, ring>>

MainStep ==
  \/ Call("load", "socket") \/ Call("socket", "ignore") \/ IgnoreOutgoing
  \/ Call("attach", "bind") \/ Call("bind", "ring") \/ Call("ring", "signal")
  \/ InstallHandlers \/ LeaveLoop

-----------------------------------------------------------------------------
(* ids_tap(), from the attach until the socket is closed.                  *)

Tapping == pc \in Unbound \cup Bound

Tick == Tapping /\ now < MaxTime /\ now' = now + 1 /\ UNCHANGED <<pc, sockVars, pkts, ring>>

\* The copies of a packet an AF_PACKET socket is given: one as it is sent, one as
\* it is received; a packet sent on lo is also received there.
Copies(i, dir) == IF lo = (i = "chosen") THEN {"outgoing", "host"} ELSE {dir}
\* (Mutant: PACKET_IGNORE_OUTGOING is not asked for.)
SeenAll(i, dir) == Copies(i, dir)
\* PACKET_IGNORE_OUTGOING drops the outgoing ones.
Seen(i, dir) == Copies(i, dir) \ IF quiet THEN {"outgoing"} ELSE {}

\* ids_tap() up to the reserve, for every copy that reaches the socket; a full
\* ring drops the record.
Reserve(c, k, i, dir) ==
  /\ Tapping /\ (i = "other" => pc \in Unbound)
  /\ pkts < MaxPkts /\ pkts' = pkts + 1
  /\ \A j \in DOMAIN ring : ring[j].cpu # c
  /\ LET room == RingSize - Len(ring)
         n    == Cardinality(Seen(i, dir)) IN
       ring' = ring \o [j \in 1..IF n < room THEN n ELSE room |->
                          [key |-> k, at |-> i, ts |-> 0, cpu |-> c]]
  /\ UNCHANGED <<pc, sockVars, now>>

\* The rest of ids_tap(): stamp, fill in, submit.
Submit(c) ==
  /\ \E i \in DOMAIN ring :
       ring[i].cpu = c /\ ring' = [ring EXCEPT ![i].ts = now, ![i].cpu = None]
  /\ UNCHANGED <<pc, sockVars, now, pkts>>

TapStep ==
  \/ MainStep \/ Tick
  \/ \E c \in Cpus : Submit(c)
                     \/ \E k \in Keys, i \in Ifaces, dir \in {"outgoing", "host"} : Reserve(c, k, i, dir)

\* ring_buffer__poll() hands over the oldest record once it is submitted.
Take ==
  /\ pc = "poll" /\ ring # <<>> /\ Head(ring).cpu = None /\ ring' = Tail(ring)
  /\ taken' = taken + 1 /\ foreign' = (foreign \/ Head(ring).at = "other")
  /\ UNCHANGED <<pc, lo, quiet, now, pkts>>

\* The tap by itself, whatever handle_event() makes of the records.
TapSpec == TapInit /\ [][TapStep \/ Take]_tapVars

-----------------------------------------------------------------------------
\* No packet is recorded twice, on lo or on a NIC: a second copy would put a gap of
\* zero between any two real ones (main() sets PACKET_IGNORE_OUTGOING before it
\* attaches the filter, and warns when it cannot).
OncePerPacket == quiet => Len(ring) + taken <= pkts

\* "so we only see that interface's traffic": no packet of another interface reaches
\* the rules.
ChosenOnly == ~foreign
=============================================================================
