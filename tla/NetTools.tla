------------------------------- MODULE NetTools ------------------------------
(***************************************************************************)
(* The loaders of 16-bpftool (opencount), 17-xdp (xdpcount), 18-tc         *)
(* (tcstat) and 21-firewall (xdpfw) on one machine with one interface.     *)
(* They change state that outlives the process: the pins under             *)
(* /sys/fs/bpf, the XDP program of the interface, and its clsact qdisc     *)
(* with the filters.  A Ctrl-C that comes before main() installed its      *)
(* handler kills the process; afterwards it sets stop.  A process may also *)
(* crash at any time; what it leaves is met by the next one that starts.   *)
(* An XDP program, a qdisc and filters of others may be there beforehand.  *)
(***************************************************************************)
EXTENDS Naturals, FiniteSets, Sequences

CONSTANTS
  Counters,     \* processes that run xdpcount
  Firewalls,    \* processes that run xdpfw
  TcStats,      \* processes that run tcstat
  OpenCounts,   \* processes that run opencount
  Sessions,     \* the sets of processes that are started together
  Machines,     \* what others may have put on the interface: xdp, clsact, filters
  Packets,      \* frames: l3; l4 ("short": the IP header is cut off); whole: is the l4
                \* header there, 20 bytes into the IP header?; port: the destination
                \* port; seen: what is in its place for an IP header of 20 bytes
  Args,         \* the numbers on xdpfw's command line
  MaxRules,     \* MAX_RULES
  MaxPkts       \* bound: packets in one behaviour

Procs    == Counters \cup Firewalls \cup TcStats \cup OpenCounts
XdpTools == Counters \cup Firewalls
Dirs     == {"ingress", "egress"}
Pins     == {"open_count", "count_open"}
NoPins    == [f \in Pins |-> "none"]
NoFilters == [d \in Dirs |-> <<>>]
Cats     == {"OTHER", "TCP", "UDP", "ICMP", "IPV4_OTHER", "IPV6_OTHER", "ARP"}

\* A process runs one program.
ASSUME ProcsAssumption ==
  /\ {"none", "foreign"} \cap Procs = {} /\ Counters \cap Firewalls = {}
  /\ XdpTools \cap TcStats = {} /\ XdpTools \cap OpenCounts = {} /\ TcStats \cap OpenCounts = {}

ASSUME ToolsAssumption ==
  /\ MaxPkts \in Nat /\ MaxRules \in Nat \ {0} /\ Args \in Seq(Nat)
  /\ Machines \subseteq [xdp : {"none", "foreign"}, clsact : BOOLEAN, filters : [Dirs -> Seq({"foreign"})]]
  /\ \A m \in Machines : m.filters # NoFilters => m.clsact

VARIABLES
  pc,          \* process -> where its main() is
  stop,        \* processes whose handler has set stop
  xdp,         \* the process whose program is on the interface's XDP hook, or "foreign", "none"
  clsact,      \* is the qdisc there?
  filters,     \* direction -> whose filters are on it, the newest first
  pins,        \* pin under /sys/fs/bpf/ebpf101 -> process it belongs to, or "none"
  warned,      \* opencounts that could not make both pins
  rules,       \* firewall -> ports in its blocklist map
  dropped,     \* packets tallied in the blocklists
  counts,      \* category -> packets counted by xdpcount
  counted,     \* direction -> packets counted by the tc programs of each tcstat
  pkts,        \* packets so far, in each direction
  found,       \* ghost: the machine before the tools started
  orphaned,    \* ghost: processes that died, and none of their kind cleaned up since
  ousted,      \* ghost: processes whose program, filter or pin another step removed or covered
  passed,      \* ghost: packets passed by xdpfw, or met by neither xdpfw nor xdpcount
  misjudged    \* ghost: frames for which a firewall did not do what its command line asks

ghostVars == <<found, orphaned, ousted>>
hostVars == <<xdp, clsact, filters, pins, warned, ghostVars>>
statVars == <<dropped, counts, counted, pkts, passed, misjudged>>
vars == <<pc, stop, hostVars, rules, statVars>>

Where == {"off", "start", "rules", "attach", "attach2", "pin map", "pin prog", "signal", "loop", "pause",
          "paused", "cleanup", "exited", "killed"}

TypeOK ==
  /\ pc \in [Procs -> Where] /\ stop \subseteq Procs /\ xdp \in XdpTools \cup {"none", "foreign"}
  /\ clsact \in BOOLEAN /\ filters \in [Dirs -> Seq(TcStats \cup {"foreign"})] /\ (filters # NoFilters => clsact)
  /\ pins \in [Pins -> OpenCounts \cup {"none"}] /\ warned \subseteq OpenCounts
  /\ found \in Machines /\ orphaned \subseteq Procs /\ ousted \subseteq Procs
  /\ rules \in [Firewalls -> SUBSET (0..65535)]
  /\ dropped \in 0..MaxPkts /\ counts \in [Cats -> 0..MaxPkts] /\ misjudged \subseteq Packets
  /\ counted \in [Dirs -> [TcStats -> 0..MaxPkts]] /\ pkts \in [Dirs -> 0..MaxPkts]
  /\ passed \in 0..MaxPkts

Init ==
  /\ \E s \in Sessions : pc = [p \in Procs |-> IF p \in s THEN "start" ELSE "off"]
  /\ found \in Machines /\ xdp = found.xdp /\ clsact = found.clsact /\ filters = found.filters
  /\ stop = {} /\ pins = NoPins /\ warned = {} /\ orphaned = {} /\ ousted = {}
  /\ rules = [f \in Firewalls |-> {}] /\ dropped = 0 /\ counts = [c \in Cats |-> 0]
  /\ passed = 0 /\ misjudged = {} /\ pkts = [d \in Dirs |-> 0]
  /\ counted = [d \in Dirs |-> [p \in TcStats |-> 0]]

Go(p, from, to) == pc[p] = from /\ pc' = [pc EXCEPT ![p] = to]

-----------------------------------------------------------------------------
\* __open_and_load() succeeds, or main() returns.
\* (Mutant: xdpfw attaches first.)
AttachFirst(p) == "attach"
FirstStep(p) == IF p \in Firewalls THEN "rules" ELSE "attach"
Load(p) ==
  /\ Go(p, "start", FirstStep(p)) \/ Go(p, "start", "exited")
  /\ UNCHANGED <<stop, hostVars, rules, statVars>>

\* The ports xdpfw enters and announces: the first MAX_RULES numbers of its command
\* line, as __u16, or 11111.
ports == IF Args = <<>> THEN {11111}
         ELSE {Args[i] % 65536 : i \in {i \in DOMAIN Args : i <= MaxRules}}

\* xdpfw enters its rules before it attaches; a failed update goes to cleanup.
AddRules(p) ==
  /\ p \in Firewalls
  /\ \/ Go(p, "rules", "attach") /\ rules' = [rules EXCEPT ![p] = ports]
     \/ Go(p, "rules", "exited") /\ UNCHANGED rules
  /\ UNCHANGED <<stop, hostVars, statVars>>

\* bpf_xdp_attach() without XDP_FLAGS_UPDATE_IF_NOEXIST replaces the program that
\* is there; on failure main() frees what it holds and returns.
\* (Mutant: the error is not looked at.)
IgnoreError(p) == "signal"
OnAttachError(p) == "exited"
XdpAttach(p) ==
  /\ p \in XdpTools
  /\ \/ Go(p, "attach", "signal") /\ xdp' = p
        /\ ousted' = ousted \cup ({xdp} \cap Procs)
     \/ Go(p, "attach", OnAttachError(p)) /\ UNCHANGED <<xdp, ousted>>
  /\ UNCHANGED <<stop, clsact, filters, pins, warned, found, orphaned, rules, statVars>>

\* tcstat: bpf_tc_hook_create(), -EEXIST accepted, and the ingress filter; then
\* the egress filter.  Every failure goes to cleanup.
Front(d) == {q \in TcStats : filters[d] # <<>> /\ Head(filters[d]) = q}
TcAttach(p, d) == filters' = [filters EXCEPT ![d] = <<p>> \o @] /\ ousted' = ousted \cup Front(d)
TcHookAndIngress(p) ==
  /\ p \in TcStats
  /\ \/ Go(p, "attach", "attach2") /\ clsact' = TRUE /\ TcAttach(p, "ingress")
     \/ Go(p, "attach", "cleanup") /\ clsact' \in {clsact, TRUE} /\ UNCHANGED <<filters, ousted>>
  /\ UNCHANGED <<stop, xdp, pins, warned, found, orphaned, rules, statVars>>
TcEgress(p) ==
  /\ p \in TcStats
  /\ \/ clsact /\ Go(p, "attach2", "signal") /\ TcAttach(p, "egress")
     \/ Go(p, "attach2", "cleanup") /\ UNCHANGED <<filters, ousted>>
  /\ UNCHANGED <<stop, xdp, clsact, pins, warned, found, orphaned, rules, statVars>>

\* opencount: the program is attached, or main() destroys the skeleton and returns;
\* then the map and the program are pinned, and a failure only gives a warning.  A
\* path that is taken cannot be pinned to (-EEXIST).
OpenAttach(p) ==
  /\ p \in OpenCounts /\ (Go(p, "attach", "pin map") \/ Go(p, "attach", "exited"))
  /\ UNCHANGED <<stop, hostVars, rules, statVars>>
Pin(p, from, to, f) ==
  /\ p \in OpenCounts /\ Go(p, from, to)
  /\ \/ pins[f] = "none" /\ pins' = [pins EXCEPT ![f] = p] /\ UNCHANGED warned
     \/ warned' = warned \cup {p} /\ UNCHANGED pins
  /\ UNCHANGED <<stop, xdp, clsact, filters, ghostVars, rules, statVars>>

\* signal(SIGINT, on_signal).
InstallHandler(p) == Go(p, "signal", "loop") /\ UNCHANGED <<stop, hostVars, rules, statVars>>

\* A process dies in mid-run: of a signal it does not handle, or of a crash.  Its file
\* descriptors are closed; pins, the XDP program and the qdisc stay.
Dies(p) ==
  /\ pc' = [pc EXCEPT ![p] = "killed"] /\ orphaned' = orphaned \cup {p}
  /\ UNCHANGED <<stop, xdp, clsact, filters, pins, warned, found, ousted, rules, statVars>>
Crash(p) == pc[p] \notin {"off", "exited", "killed"} /\ Dies(p)

\* Ctrl-C.  It ends sleep() and pause(), and is only noted when it comes before them.
Interrupt(p) ==
  \/ /\ pc[p] \in {"start", "rules", "attach", "attach2", "pin map", "pin prog", "signal"}
     /\ Dies(p)
  \/ /\ pc[p] \in {"loop", "pause", "paused"} /\ stop' = stop \cup {p}
     /\ pc' = IF pc[p] = "paused" THEN [pc EXCEPT ![p] = "loop"] ELSE pc
     /\ UNCHANGED <<hostVars, rules, statVars>>

\* (Mutant: stop is not volatile, the loop reads it once.)
LoopReadsOnce(p) == FALSE
LoopOver(p) == p \in stop
LeaveLoop(p) ==
  LoopOver(p) /\ Go(p, "loop", "cleanup") /\ UNCHANGED <<stop, hostVars, rules, statVars>>

\* opencount's while (!stop) pause(): the test, then the call.
TestStop(p) ==
  /\ p \in OpenCounts /\ p \notin stop /\ Go(p, "loop", "pause")
  /\ UNCHANGED <<stop, hostVars, rules, statVars>>
Pause(p) == Go(p, "pause", "paused") /\ UNCHANGED <<stop, hostVars, rules, statVars>>

\* bpf_xdp_detach() removes whatever program is on the hook.
\* (Mutant: the XDP tools exit without detaching.)
AfterXdpNothing(p) == xdp
AfterXdpDetach(p) == "none"
\* Both files are unlinked, whoever made them, and the directory goes.
AfterUnpin(p) == NoPins
Kinds == {XdpTools, TcStats, OpenCounts}
KindOf(p) == CHOOSE k \in Kinds : p \in k
\* Those of a kind that have something on the machine.
Owners(k) == {q \in k : \/ xdp = q
                        \/ \E f \in Pins : pins[f] = q
                        \/ \E d \in Dirs : \E i \in DOMAIN filters[d] : filters[d][i] = q}
Cleanup(p) ==
  /\ Go(p, "cleanup", "exited")
  /\ xdp' = IF p \in XdpTools THEN AfterXdpDetach(p) ELSE xdp
  /\ pins' = IF p \in OpenCounts THEN AfterUnpin(p) ELSE pins
  \* bpf_tc_hook_destroy() of both directions deletes the qdisc and all its filters,
  \* also those it found there.
  /\ clsact' = (clsact /\ p \notin TcStats)
  /\ filters' = IF p \in TcStats THEN NoFilters ELSE filters
  /\ orphaned' = orphaned \ KindOf(p) /\ ousted' = ousted \cup Owners(KindOf(p))
  /\ UNCHANGED <<stop, warned, found, rules, statVars>>

-----------------------------------------------------------------------------
\* xdp_count(): the category of a frame, from the headers that are there.
L4Cat == [tcp |-> "TCP", udp |-> "UDP", icmp |-> "ICMP"]
\* (Mutant: a frame without a whole IPv4 header is not counted.)
ShortUncounted(k) ==
  IF k.l3 = "arp" THEN {"ARP"} ELSE IF k.l3 \notin {"ip", "ip6"} THEN {"OTHER"}
  ELSE IF k.l4 \in DOMAIN L4Cat THEN {L4Cat[k.l4]}
  ELSE IF k.l3 = "ip6" THEN {"IPV6_OTHER"} ELSE IF k.l4 = "short" THEN {} ELSE {"IPV4_OTHER"}
Categories(k) ==
  IF k.l3 = "arp" THEN {"ARP"} ELSE IF k.l3 \notin {"ip", "ip6"} THEN {"OTHER"}
  ELSE IF k.l4 \in DOMAIN L4Cat THEN {L4Cat[k.l4]}
  ELSE IF k.l3 = "ip6" THEN {"IPV6_OTHER"} ELSE IF k.l4 = "short" THEN {"OTHER"} ELSE {"IPV4_OTHER"}

\* xdp_fw(): a whole TCP or UDP header behind an IPv4 header, taken to be 20 bytes
\* long, with a port in the blocklist is dropped.
Blockable(k) == k.l3 = "ip" /\ k.l4 \in {"tcp", "udp"} /\ k.whole
Drops(f, k) == Blockable(k) /\ k.seen \in rules[f]

\* account(): tc_ingress() and tc_egress() let every packet pass, and TC_ACT_OK ends
\* the classification, so that only the newest filter sees it.
Account(d) ==
  counted' = [counted EXCEPT ![d] = [p \in TcStats |-> IF p \in Front(d) THEN @[p] + 1 ELSE @[p]]]

Arrive(d) ==
  /\ pkts["ingress"] + pkts["egress"] < MaxPkts /\ pkts' = [pkts EXCEPT ![d] = @ + 1]
  /\ UNCHANGED <<pc, stop, hostVars, rules>>

\* What xdpfw's command line asks for.
Asked == IF Args = <<>> THEN {11111} ELSE {Args[i] : i \in DOMAIN Args}

\* A frame comes in: the XDP program first, then the tc programs at ingress.  A foreign
\* program may keep the frame.
PacketIn(k) ==
  /\ Arrive("ingress")
  /\ counts' = [c \in Cats |-> IF xdp \in Counters /\ c \in Categories(k)
                                THEN counts[c] + 1 ELSE counts[c]]
  /\ misjudged' = IF xdp \in Firewalls /\ (Drops(xdp, k) # (k.port \in Asked))
                  THEN misjudged \cup {k} ELSE misjudged
  /\ IF xdp \in Firewalls /\ Drops(xdp, k)
     THEN dropped' = dropped + 1 /\ UNCHANGED <<counted, passed>>
     ELSE /\ Account("ingress") \/ (xdp = "foreign" /\ UNCHANGED counted)
          /\ passed' = passed + IF xdp \in Counters THEN 0 ELSE 1
          /\ UNCHANGED dropped

PacketOut == Arrive("egress") /\ Account("egress") /\ UNCHANGED <<dropped, counts, passed, misjudged>>

Main(p) ==
  \/ Load(p) \/ AddRules(p) \/ XdpAttach(p) \/ TcHookAndIngress(p) \/ TcEgress(p)
  \/ OpenAttach(p) \/ Pin(p, "pin map", "pin prog", "open_count")
  \/ Pin(p, "pin prog", "signal", "count_open")
  \/ InstallHandler(p) \/ TestStop(p) \/ Pause(p) \/ LeaveLoop(p) \/ Cleanup(p)

Next ==
  \/ \E p \in Procs : Main(p) \/ Interrupt(p) \/ Crash(p)
  \/ PacketOut \/ \E k \in Packets : PacketIn(k)

Spec == Init /\ [][Next]_vars
\* A process that can run goes on running; sleep(1) is cut short by the signal.
FairSpec == Spec /\ \A p \in Procs : WF_vars(Main(p))

-----------------------------------------------------------------------------
\* While a tool says that it is active its programs are in place, whatever earlier
\* instances left behind when they died and whatever others had put there: the program
\* of xdpcount or xdpfw on the interface, the filters of tcstat in front of all others
\* in both directions, and both pins of opencount.  The exceptions are a tool whose
\* program, filter or pin a later attach or another's cleanup has removed or covered,
\* and an opencount that warned that it could not pin.  These go on saying that they
\* are active, and opencount says "Loaded & pinned" all the same.
Active == {"loop", "pause", "paused"}
InForce ==
  \A p \in Procs \ ousted : pc[p] \in Active =>
    /\ p \in XdpTools => xdp = p
    /\ p \in TcStats => \A d \in Dirs : p \in Front(d)
    /\ p \in OpenCounts \ warned => pins = [f \in Pins |-> p]

\* From the first packet it sees, a firewall drops the frames to the ports of its
\* command line and no others: the rules are in the map before the program is attached.
\* That is so of what xdp_fw() takes into account: IPv4 TCP and UDP frames with a whole
\* header, whose destination port is where it is behind an IP header without options,
\* and ports for which the loader enters what it was asked for, which are neither
\* beyond the first MAX_RULES nor met by a larger number cut to 16 bits.
InScope(k) == Blockable(k) /\ k.seen = k.port /\ (k.port \in ports <=> k.port \in Asked)
NothingSlips == \A k \in misjudged : ~InScope(k)

\* Once every tool has come to an end nothing of theirs is left on the machine, whatever
\* failed and whoever replaced whose program, and there is a qdisc only if there was one
\* before; and the machine recovers from a crash: what a dead process left is still
\* there only if no tool of its kind has gone through its cleanup since.  (What others had
\* put there may be gone: an attach replaces an XDP program that it finds, and the cleanup
\* of tcstat deletes a qdisc that it found, with all filters on it.)
AtRest == \A p \in Procs : pc[p] \in {"off", "exited", "killed"}
Restored ==
  AtRest => /\ xdp \in XdpTools => orphaned \cap XdpTools # {}
            /\ (\E d \in Dirs : \E i \in DOMAIN filters[d] : filters[d][i] \in TcStats) => orphaned \cap TcStats # {}
            /\ clsact => found.clsact \/ orphaned \cap TcStats # {}
            /\ pins # NoPins => orphaned \cap OpenCounts # {}

\* Every packet that comes in is accounted for once, whichever tool's program is
\* on the interface when: in one category of xdpcount, as a drop of xdpfw, or as
\* passed by xdpfw or met by neither.
CountsTotal == counts["OTHER"] + counts["TCP"] + counts["UDP"] + counts["ICMP"] + counts["IPV4_OTHER"]
               + counts["IPV6_OTHER"] + counts["ARP"]
PacketsAccounted == CountsTotal + passed + dropped = pkts["ingress"]

\* A tool that prints in its loop, once it gets Ctrl-C, exits, unless it crashes first.
CtrlCExits == \A p \in Procs \ OpenCounts : p \in stop ~> pc[p] \in {"exited", "killed"}

\* "Ctrl-C to detach, unpin, and clean up": opencount exits as well.
PauseExits == \A p \in OpenCounts : p \in stop ~> pc[p] \in {"exited", "killed"}
=============================================================================
