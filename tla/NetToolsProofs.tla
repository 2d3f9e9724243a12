--------------------------- MODULE NetToolsProofs ----------------------------
(***************************************************************************)
(* Proofs about NetTools, for any number of processes of each program, any *)
(* set of packets and any blocklist; and about the lessons of 14-verifier, *)
(* for any logs and any size of print_log_tail()'s ring.                   *)
(***************************************************************************)
EXTENDS NetTools, Lessons, WellFoundedInduction, TLAPS

Typed ==
  /\ pc \in [Procs -> Where] /\ xdp \in XdpTools \cup {"none", "foreign"}
  /\ filters \in [Dirs -> Seq(TcStats \cup {"foreign"})]
  /\ pins \in [Pins -> OpenCounts \cup {"none"}] /\ rules \in [Firewalls -> SUBSET ports]

\* A firewall has its rules before it attaches.
RulesFirst == \A f \in Firewalls : pc[f] = "attach" \/ xdp = f => rules[f] = ports

\* What is on the machine was there before, has been left by a dead process, or by one
\* that has yet to go through its cleanup.
Holding == Where \ {"off", "start", "rules", "attach", "exited", "killed"}
Answers(tools) == \E q \in tools : pc[q] \in Holding \/ q \in orphaned
Filtered == \E d \in Dirs : \E i \in DOMAIN filters[d] : filters[d][i] \in TcStats
Answered ==
  /\ xdp \in XdpTools => Answers(XdpTools)
  /\ Filtered => Answers(TcStats)
  /\ clsact => found.clsact \/ Answers(TcStats)
  /\ pins # NoPins => Answers(OpenCounts)

\* What a process has put in place stays until another step removes or covers it.
Up == Active \cup {"signal"}
XdpStays == \A p \in XdpTools \ ousted : pc[p] \in Up => xdp = p
FiltersStay ==
  \A p \in TcStats \ ousted :
    /\ pc[p] \in Up \cup {"attach2"} => p \in Front("ingress")
    /\ pc[p] \in Up => p \in Front("egress")
PinsStay ==
  \A p \in OpenCounts \ (warned \cup ousted) :
    /\ pc[p] \in Up \cup {"pin prog"} => pins["open_count"] = p
    /\ pc[p] \in Up => pins["count_open"] = p

Inv == Typed /\ RulesFirst /\ Answered /\ XdpStays /\ FiltersStay /\ PinsStay /\ NothingSlips

-----------------------------------------------------------------------------
\* A cleanup forgets the dead of its own kind only.
LEMMA KindIs ==
  ASSUME NEW p \in Procs
  PROVE  /\ p \in KindOf(p)
         /\ p \in XdpTools => KindOf(p) = XdpTools
         /\ p \in TcStats => KindOf(p) = TcStats
         /\ p \in OpenCounts => KindOf(p) = OpenCounts
<1> DEFINE k == KindOf(p)
<1>1. \E x \in Kinds : p \in x
  BY Zenon DEF Kinds, Procs, XdpTools
<1>2. k \in Kinds /\ p \in k
  BY Zenon, <1>1 DEF KindOf
<1> HIDE DEF k
<1>3. /\ p \in XdpTools => k = XdpTools
      /\ p \in TcStats => k = TcStats
      /\ p \in OpenCounts => k = OpenCounts
  BY Zenon, <1>2, ProcsAssumption DEF Kinds
<1> QED
  BY Zenon, <1>2, <1>3 DEF k

\* What a step of p does to pc.
LEMMA Went ==
  ASSUME Typed, NEW p \in Procs, NEW b \in Where, pc' = [pc EXCEPT ![p] = b]
  PROVE  pc' \in [Procs -> Where] /\ pc'[p] = b /\ \A q \in Procs \ {p} : pc'[q] = pc[q]
BY Zenon DEF Typed

LEMMA Tools ==
  /\ XdpTools \subseteq Procs /\ Counters \subseteq XdpTools /\ Firewalls \subseteq XdpTools
  /\ TcStats \subseteq Procs /\ OpenCounts \subseteq Procs
BY Zenon DEF Procs, XdpTools

\* Steps that leave the machine alone keep each part of the invariant, when the
\* process goes nowhere it has no right to be.
LEMMA AnsweredKept ==
  ASSUME Answered, UNCHANGED <<xdp, clsact, filters, pins, found>>,
         \A q \in Procs : pc[q] \in Holding \/ q \in orphaned => pc'[q] \in Holding \/ q \in orphaned'
  PROVE  Answered'
BY Zenon, Tools DEF Answered, Answers, Filtered

LEMMA XdpKept ==
  ASSUME XdpStays, xdp' = xdp, ousted \subseteq ousted',
         \A q \in XdpTools : pc'[q] \in Up => pc[q] \in Up
  PROVE  XdpStays'
BY Zenon DEF XdpStays

LEMMA FiltersKept ==
  ASSUME FiltersStay, filters' = filters, ousted \subseteq ousted',
         \A q \in TcStats : /\ pc'[q] \in Up => pc[q] \in Up
                            /\ pc'[q] = "attach2" => pc[q] = "attach2"
  PROVE  FiltersStay'
<1>1. Front("ingress")' = Front("ingress") /\ Front("egress")' = Front("egress")
  BY Zenon DEF Front
<1> QED
  BY Zenon, <1>1 DEF FiltersStay

LEMMA PinsKept ==
  ASSUME PinsStay, UNCHANGED <<pins, warned>>, ousted \subseteq ousted',
         \A q \in OpenCounts : /\ pc'[q] \in Up => pc[q] \in Up
                               /\ pc'[q] = "pin prog" => pc[q] = "pin prog"
  PROVE  PinsStay'
BY Zenon DEF PinsStay

-----------------------------------------------------------------------------
\* A step that changes nothing but where a process is: a load, a failed attach, the
\* steps of the loop.
LEMMA PcStep ==
  ASSUME Inv, NEW p \in Procs, NEW a, NEW b \in Where, Go(p, a, b),
         UNCHANGED <<xdp, clsact, filters, pins, warned, found, orphaned, ousted, rules, misjudged>>,
         a \in Holding => b \in Holding, b = "attach" => p \notin Firewalls,
         b \notin {"attach2", "pin prog"}, b \in Up => a \in Up
  PROVE  Inv'
<1> USE DEF Inv
<1>1. pc[p] = a /\ pc'[p] = b /\ pc' \in [Procs -> Where] /\ \A q \in Procs \ {p} : pc'[q] = pc[q]
  BY Zenon, Went DEF Go
<1>2. Typed' /\ RulesFirst' /\ NothingSlips'
  BY Zenon, <1>1, Tools DEF Typed, RulesFirst, NothingSlips
<1>3. Answered'
  BY Zenon, <1>1, AnsweredKept
<1>4. XdpStays'
  BY Zenon, <1>1, XdpKept, Tools
<1>5. FiltersStay'
  BY Zenon, <1>1, FiltersKept, Tools
<1>6. PinsStay'
  BY Zenon, <1>1, PinsKept, Tools
<1> QED
  BY Zenon, <1>2, <1>3, <1>4, <1>5, <1>6

\* A process dies; what it held is the dead one's.
LEMMA DiesKeeps ==
  ASSUME Inv, NEW p \in Procs, Dies(p)
  PROVE  Inv'
<1> USE DEF Inv
<1>1. /\ pc' = [pc EXCEPT ![p] = "killed"] /\ orphaned' = orphaned \cup {p}
      /\ UNCHANGED <<xdp, clsact, filters, pins, warned, found, ousted, rules, misjudged>>
  BY Zenon DEF Dies, statVars
<1>2. pc'[p] = "killed" /\ pc' \in [Procs -> Where] /\ \A q \in Procs \ {p} : pc'[q] = pc[q]
  BY Zenon, <1>1, Went DEF Where
<1>3. Typed' /\ RulesFirst' /\ NothingSlips'
  BY Zenon, <1>1, <1>2, Tools DEF Typed, RulesFirst, NothingSlips
<1>4. Answered'
  BY Zenon, <1>1, <1>2, AnsweredKept
<1>5. pc'[p] \notin Up \cup {"attach2", "pin prog"}
  BY Zenon, <1>2 DEF Up, Active
<1>6. XdpStays'
  BY Zenon, <1>1, <1>2, <1>5, XdpKept, Tools
<1>7. FiltersStay'
  BY Zenon, <1>1, <1>2, <1>5, FiltersKept, Tools
<1>8. PinsStay'
  BY Zenon, <1>1, <1>2, <1>5, PinsKept, Tools
<1> QED
  BY Zenon, <1>3, <1>4, <1>6, <1>7, <1>8

\* xdpfw's rules are in the map when it goes on to its attach.
LEMMA RulesKeeps ==
  ASSUME Inv, NEW p \in Firewalls, Go(p, "rules", "attach"), rules' = [rules EXCEPT ![p] = ports],
         UNCHANGED <<hostVars, misjudged>>
  PROVE  Inv'
<1> USE DEF Inv
<1>1. pc[p] = "rules" /\ pc'[p] = "attach" /\ pc' \in [Procs -> Where] /\ \A q \in Procs \ {p} : pc'[q] = pc[q]
  BY Zenon, Went, Tools DEF Go, Where
<1>2. UNCHANGED <<xdp, clsact, filters, pins, warned, found, orphaned, ousted, misjudged>>
  BY Zenon DEF hostVars, ghostVars
<1>3. Typed' /\ RulesFirst' /\ NothingSlips'
  BY Zenon, <1>1, <1>2, Tools DEF Typed, RulesFirst, NothingSlips
<1>4. Answered'
  BY Zenon, <1>1, <1>2, AnsweredKept DEF Holding
<1>5. pc'[p] \notin Up \cup {"attach2", "pin prog"}
  BY Zenon, <1>1 DEF Up, Active
<1>6. XdpStays'
  BY Zenon, <1>1, <1>2, <1>5, XdpKept, Tools
<1>7. FiltersStay'
  BY Zenon, <1>1, <1>2, <1>5, FiltersKept, Tools
<1>8. PinsStay'
  BY Zenon, <1>1, <1>2, <1>5, PinsKept, Tools
<1> QED
  BY Zenon, <1>3, <1>4, <1>6, <1>7, <1>8

\* bpf_xdp_attach() puts the program in the place of the one that was there.
LEMMA XdpAttachKeeps ==
  ASSUME Inv, NEW p \in XdpTools, Go(p, "attach", "signal"), xdp' = p, ousted' = ousted \cup ({xdp} \cap Procs),
         UNCHANGED <<clsact, filters, pins, warned, found, orphaned, rules, misjudged>>
  PROVE  Inv'
<1> USE DEF Inv
<1>1. pc[p] = "attach" /\ pc'[p] = "signal" /\ pc' \in [Procs -> Where] /\ \A q \in Procs \ {p} : pc'[q] = pc[q]
  BY Zenon, Went, Tools DEF Go, Where
<1>2. Typed' /\ RulesFirst' /\ NothingSlips'
  BY Zenon, <1>1, Tools DEF Typed, RulesFirst, NothingSlips
<1>3. Answers(XdpTools)' /\ \A t \in SUBSET Procs : Answers(t) => Answers(t)'
  BY Zenon, <1>1, Tools DEF Answers, Holding
<1>4. Answered'
  BY Zenon, <1>3, Tools DEF Answered, Filtered
<1>5. XdpStays'
  BY Zenon, <1>1, Tools DEF XdpStays
<1>6. FiltersStay'
  BY Zenon, <1>1, FiltersKept, Tools, ProcsAssumption
<1>7. PinsStay'
  BY Zenon, <1>1, PinsKept, Tools, ProcsAssumption
<1> QED
  BY Zenon, <1>2, <1>4, <1>5, <1>6, <1>7

\* tcstat makes the qdisc, or finds it, and puts its filter in front of the others.
LEMMA Prepended ==
  ASSUME Typed, NEW p \in TcStats, NEW d \in Dirs, filters' = [filters EXCEPT ![d] = <<p>> \o @]
  PROVE  /\ filters' \in [Dirs -> Seq(TcStats \cup {"foreign"})] /\ p \in Front(d)'
         /\ \A e \in Dirs \ {d} : Front(e)' = Front(e)
<1>1. /\ filters[d] \in Seq(TcStats \cup {"foreign"}) /\ filters'[d] = <<p>> \o filters[d]
      /\ \A e \in Dirs \ {d} : filters'[e] = filters[e]
  BY Zenon DEF Typed
<1>2. filters' \in [Dirs -> Seq(TcStats \cup {"foreign"})]
  BY <1>1 DEF Typed
<1>3. filters'[d] # <<>> /\ Head(filters'[d]) = p
  BY <1>1
<1>4. \A e \in Dirs \ {d} : Front(e)' = Front(e)
  BY Zenon, <1>1 DEF Front
<1> QED
  BY Zenon, <1>2, <1>3, <1>4 DEF Front

LEMMA TcKeeps ==
  ASSUME Inv, NEW p \in TcStats, UNCHANGED <<xdp, pins, warned, found, orphaned, rules, misjudged>>,
         \/ Go(p, "attach", "attach2") /\ clsact' = TRUE /\ TcAttach(p, "ingress")
         \/ Go(p, "attach", "cleanup") /\ clsact' \in {clsact, TRUE} /\ UNCHANGED <<filters, ousted>>
         \/ clsact /\ Go(p, "attach2", "signal") /\ TcAttach(p, "egress") /\ UNCHANGED clsact
         \/ Go(p, "attach2", "cleanup") /\ UNCHANGED <<clsact, filters, ousted>>
  PROVE  Inv'
<1> USE DEF Inv
<1>1. PICK a \in {"attach", "attach2"}, b \in {"attach2", "signal", "cleanup"} :
        /\ Go(p, a, b)
        /\ \/ a = "attach" /\ b = "attach2" /\ TcAttach(p, "ingress")
           \/ a = "attach2" /\ b = "signal" /\ TcAttach(p, "egress")
           \/ b = "cleanup" /\ UNCHANGED <<filters, ousted>>
  BY Zenon
<1>2. pc[p] = a /\ pc'[p] = b /\ pc' \in [Procs -> Where] /\ \A q \in Procs \ {p} : pc'[q] = pc[q]
  BY Zenon, <1>1, Went, Tools DEF Go, Where
<1>3. /\ filters' \in [Dirs -> Seq(TcStats \cup {"foreign"})] /\ ousted \subseteq ousted'
      /\ b = "attach2" => p \in Front("ingress")' /\ Front("egress")' = Front("egress") /\ Front("ingress") \subseteq ousted'
      /\ b = "signal" => p \in Front("egress")' /\ Front("ingress")' = Front("ingress") /\ Front("egress") \subseteq ousted'
  <2>1. CASE a = "attach" /\ b = "attach2" /\ TcAttach(p, "ingress")
    BY Zenon, <2>1, Prepended DEF Dirs, TcAttach
  <2>2. CASE a = "attach2" /\ b = "signal" /\ TcAttach(p, "egress")
    BY Zenon, <2>2, Prepended DEF Dirs, TcAttach
  <2>3. CASE b = "cleanup" /\ UNCHANGED <<filters, ousted>>
    BY Zenon, <2>3 DEF Typed
  <2> QED
    BY Zenon, <1>1, <2>1, <2>2, <2>3
<1>4. Typed' /\ RulesFirst' /\ NothingSlips'
  BY Zenon, <1>2, <1>3, Tools, ProcsAssumption DEF Typed, RulesFirst, NothingSlips
<1>5. Answers(TcStats)' /\ \A t \in SUBSET Procs : Answers(t) => Answers(t)'
  BY Zenon, <1>2, Tools DEF Answers, Holding, Where
<1>6. Answered'
  BY Zenon, <1>5, Tools DEF Answered
<1>7. XdpStays'
  BY Zenon, <1>2, <1>3, XdpKept, Tools, ProcsAssumption
<1>8. FiltersStay'
  <2> SUFFICES ASSUME NEW t \in TcStats \ ousted'
               PROVE  /\ pc'[t] \in Up \cup {"attach2"} => t \in Front("ingress")'
                      /\ pc'[t] \in Up => t \in Front("egress")'
    BY Zenon DEF FiltersStay
  <2>1. /\ pc[t] \in Up \cup {"attach2"} => t \in Front("ingress")
        /\ pc[t] \in Up => t \in Front("egress")
    BY Zenon, <1>3 DEF FiltersStay
  <2>2. CASE b = "attach2"
    BY Zenon, <1>2, <1>3, <2>1, <2>2, Tools DEF Up, Active
  <2>3. CASE b = "signal"
    <3>1. a = "attach2"
      BY Zenon, <1>1, <2>3
    <3> QED
      BY Zenon, <1>2, <1>3, <2>1, <2>3, <3>1, Tools DEF Up, Active
  <2>4. CASE b = "cleanup"
    <3>1. Front("ingress")' = Front("ingress") /\ Front("egress")' = Front("egress")
      BY Zenon, <1>1, <2>4 DEF Front
    <3> QED
      BY Zenon, <1>2, <2>1, <2>4, <3>1, Tools DEF Up, Active
  <2> QED
    BY Zenon, <2>2, <2>3, <2>4
<1>9. PinsStay'
  BY Zenon, <1>2, <1>3, PinsKept, Tools, ProcsAssumption
<1> QED
  BY Zenon, <1>4, <1>6, <1>7, <1>8, <1>9

\* opencount pins to a free path, or warns.
LEMMA PinKeeps ==
  ASSUME Inv, NEW p \in OpenCounts, NEW from, NEW to, NEW f, Pin(p, from, to, f),
         \/ from = "pin map" /\ to = "pin prog" /\ f = "open_count"
         \/ from = "pin prog" /\ to = "signal" /\ f = "count_open"
  PROVE  Inv'
<1> USE DEF Inv
<1>1. /\ Go(p, from, to) /\ UNCHANGED <<xdp, clsact, filters, found, orphaned, ousted, rules, misjudged>>
      /\ \/ pins[f] = "none" /\ pins' = [pins EXCEPT ![f] = p] /\ UNCHANGED warned
         \/ warned' = warned \cup {p} /\ UNCHANGED pins
  BY Zenon DEF Pin, statVars, ghostVars
<1>2. pc[p] = from /\ pc'[p] = to /\ pc' \in [Procs -> Where] /\ \A q \in Procs \ {p} : pc'[q] = pc[q]
  BY Zenon, <1>1, Went, Tools DEF Go, Where
<1>3. pins' \in [Pins -> OpenCounts \cup {"none"}]
  BY Zenon, <1>1 DEF Typed, Pins
<1>4. Typed' /\ RulesFirst' /\ NothingSlips'
  BY Zenon, <1>1, <1>2, <1>3, Tools, ProcsAssumption DEF Typed, RulesFirst, NothingSlips
<1>5. Answers(OpenCounts)' /\ \A t \in SUBSET Procs : Answers(t) => Answers(t)'
  BY Zenon, <1>1, <1>2, Tools DEF Answers, Holding, Where
<1>6. Answered'
  BY Zenon, <1>1, <1>5, Tools DEF Answered, Filtered
<1>7. XdpStays'
  BY Zenon, <1>1, <1>2, XdpKept, Tools, ProcsAssumption
<1>8. FiltersStay'
  BY Zenon, <1>1, <1>2, FiltersKept, Tools, ProcsAssumption
<1>9. PinsStay'
  <2> SUFFICES ASSUME NEW o \in OpenCounts \ (warned' \cup ousted)
               PROVE  /\ pc'[o] \in Up \cup {"pin prog"} => pins'["open_count"] = o
                      /\ pc'[o] \in Up => pins'["count_open"] = o
    BY Zenon, <1>1 DEF PinsStay
  <2>1. o \notin warned
    BY Zenon, <1>1
  <2>2. /\ pc[o] \in Up \cup {"pin prog"} => pins["open_count"] = o
        /\ pc[o] \in Up => pins["count_open"] = o
    BY Zenon, <2>1 DEF PinsStay
  <2>3. CASE o = p
    <3>1. pins' = [pins EXCEPT ![f] = p]
      BY Zenon, <1>1, <2>3
    <3> QED
      BY Zenon, <1>2, <2>2, <2>3, <3>1 DEF Up, Active, Typed, Pins
  <2>4. CASE o # p
    <3>1. \A g \in Pins : pins[g] = o => pins'[g] = o
      <4>1. o # "none"
        BY Zenon, Tools, ProcsAssumption
      <4>2. CASE pins[f] = "none" /\ pins' = [pins EXCEPT ![f] = p]
        BY Zenon, <4>1, <4>2 DEF Typed
      <4> QED
        BY Zenon, <1>1, <4>2
    <3> QED
      BY Zenon, <1>2, <2>2, <2>4, <3>1, Tools DEF Pins
  <2> QED
    BY Zenon, <2>3, <2>4
<1> QED
  BY Zenon, <1>4, <1>6, <1>7, <1>8, <1>9

\* A cleanup removes what is there of its kind, whoever it belongs to.
LEMMA CleanupKeeps ==
  ASSUME Inv, NEW p \in Procs, Cleanup(p)
  PROVE  Inv'
<1> USE DEF Inv
<1>1. /\ Go(p, "cleanup", "exited") /\ orphaned' = orphaned \ KindOf(p) /\ UNCHANGED <<warned, found, rules, misjudged>>
      /\ ousted' = ousted \cup Owners(KindOf(p))
      /\ xdp' = IF p \in XdpTools THEN "none" ELSE xdp
      /\ pins' = IF p \in OpenCounts THEN NoPins ELSE pins
      /\ clsact' = (clsact /\ p \notin TcStats)
      /\ filters' = IF p \in TcStats THEN NoFilters ELSE filters
  BY Zenon DEF Cleanup, AfterXdpDetach, AfterUnpin, statVars
<1>2. /\ p \in XdpTools => KindOf(p) = XdpTools
      /\ p \in TcStats => KindOf(p) = TcStats
      /\ p \in OpenCounts => KindOf(p) = OpenCounts
  BY Zenon, KindIs
<1>3. pc[p] = "cleanup" /\ pc'[p] = "exited" /\ pc' \in [Procs -> Where] /\ \A q \in Procs \ {p} : pc'[q] = pc[q]
  BY Zenon, <1>1, Went DEF Go, Where
<1>4. p \in XdpTools \/ p \in TcStats \/ p \in OpenCounts
  BY Zenon DEF Procs, XdpTools
<1>5. NoFilters \in [Dirs -> Seq(TcStats \cup {"foreign"})] /\ NoPins \in [Pins -> OpenCounts \cup {"none"}]
  BY DEF NoFilters, NoPins
<1>6. Typed' /\ RulesFirst' /\ NothingSlips'
  BY Zenon, <1>1, <1>3, <1>5, Tools, ProcsAssumption DEF Typed, RulesFirst, NothingSlips
<1>7. /\ p \notin XdpTools => (Answers(XdpTools) => Answers(XdpTools)')
      /\ p \notin TcStats => (Answers(TcStats) => Answers(TcStats)')
      /\ p \notin OpenCounts => (Answers(OpenCounts) => Answers(OpenCounts)')
  BY Zenon, <1>1, <1>2, <1>3, <1>4, Tools, ProcsAssumption DEF Answers
<1>8. p \in TcStats => ~Filtered'
  BY <1>1 DEF Filtered, NoFilters
<1>9. Answered'
  <2>1. "none" \notin XdpTools
    BY Zenon, Tools, ProcsAssumption
  <2>2. p \notin TcStats => (Filtered' <=> Filtered)
    BY Zenon, <1>1 DEF Filtered
  <2> QED
    BY Zenon, <1>1, <1>7, <1>8, <2>1, <2>2 DEF Answered
<1>10. \A q \in Procs : /\ pc'[q] \in Up => q # p /\ pc[q] \in Up
                        /\ pc'[q] = "attach2" => q # p /\ pc[q] = "attach2"
                        /\ pc'[q] = "pin prog" => q # p /\ pc[q] = "pin prog"
  BY Zenon, <1>3 DEF Up, Active
<1>11. XdpStays'
  <2>1. CASE p \in XdpTools
    BY Zenon, <1>1, <1>2, <1>10, <2>1, Tools DEF XdpStays, Owners
  <2>2. CASE p \notin XdpTools
    BY Zenon, <1>1, <1>10, <2>2, XdpKept, Tools
  <2> QED
    BY Zenon, <2>1, <2>2
<1>12. FiltersStay'
  <2>1. CASE p \in TcStats
    <3>1. \A q \in TcStats, d \in Dirs : q \in Front(d) => q \in ousted'
      <4> SUFFICES ASSUME NEW q \in TcStats, NEW d \in Dirs, q \in Front(d) PROVE q \in ousted'
        BY Zenon
      <4>1. 1 \in DOMAIN filters[d] /\ filters[d][1] = q
        BY DEF Front, Typed
      <4>2. q \in Owners(TcStats)
        BY Zenon, <4>1 DEF Owners
      <4> QED
        BY Zenon, <1>1, <1>2, <2>1, <4>2
    <3> QED
      BY Zenon, <1>1, <1>10, <3>1, Tools DEF FiltersStay, Dirs
  <2>2. CASE p \notin TcStats
    BY Zenon, <1>1, <1>10, <2>2, FiltersKept, Tools
  <2> QED
    BY Zenon, <2>1, <2>2
<1>13. PinsStay'
  <2>1. CASE p \in OpenCounts
    BY Zenon, <1>1, <1>2, <1>10, <2>1, Tools DEF PinsStay, Owners, Pins
  <2>2. CASE p \notin OpenCounts
    BY Zenon, <1>1, <1>10, <2>2, PinsKept, Tools
  <2> QED
    BY Zenon, <2>1, <2>2
<1> QED
  BY Zenon, <1>6, <1>9, <1>11, <1>12, <1>13

\* A packet meets a firewall whose rules are all in place.
LEMMA PacketKeeps ==
  ASSUME Inv, PacketOut \/ \E k \in Packets : PacketIn(k)
  PROVE  Inv'
<1> USE DEF Inv
<1>1. UNCHANGED <<pc, xdp, clsact, filters, pins, warned, found, orphaned, ousted, rules>>
  BY Zenon DEF PacketOut, PacketIn, Arrive, hostVars, ghostVars
<1>2. NothingSlips'
  <2>1. CASE PacketOut
    BY Zenon, <2>1 DEF PacketOut, NothingSlips
  <2>2. ASSUME NEW k \in Packets, PacketIn(k) PROVE NothingSlips'
    <3>1. \/ misjudged' = misjudged
          \/ /\ misjudged' = misjudged \cup {k} /\ xdp \in Firewalls
             /\ (Drops(xdp, k) # (k.port \in Asked))
      BY Zenon, <2>2 DEF PacketIn
    <3>2. ASSUME xdp \in Firewalls, InScope(k) PROVE Drops(xdp, k) <=> k.port \in Asked
      <4>1. rules[xdp] = ports
        BY Zenon, <3>2 DEF RulesFirst
      <4>2. Blockable(k) /\ k.seen = k.port /\ (k.port \in ports <=> k.port \in Asked)
        BY Zenon, <3>2 DEF InScope
      <4> QED
        BY Zenon, <4>1, <4>2 DEF Drops
    <3>3. xdp \in Firewalls /\ InScope(k) => Drops(xdp, k) = (k.port \in Asked)
      BY <3>2 DEF Drops, Blockable
    <3> QED
      BY Zenon, <3>1, <3>3 DEF NothingSlips
  <2> QED
    BY Zenon, <2>1, <2>2
<1> QED
  BY Zenon, <1>1, <1>2 DEF Typed, RulesFirst, Answered, Answers, Filtered, XdpStays, FiltersStay, Front, PinsStay

-----------------------------------------------------------------------------
LEMMA InitHolds == Init => Inv
<1> SUFFICES ASSUME Init PROVE Inv
  BY Zenon
<1>1. PICK s \in Sessions : pc = [p \in Procs |-> IF p \in s THEN "start" ELSE "off"]
  BY Zenon DEF Init
<1>2. \A p \in Procs : pc[p] \in {"start", "off"}
  BY Zenon, <1>1
<1>3. /\ found \in Machines /\ xdp = found.xdp /\ clsact = found.clsact /\ filters = found.filters
      /\ pins = NoPins /\ misjudged = {} /\ rules = [f \in Firewalls |-> {}]
  BY Zenon DEF Init
<1>4. xdp \in {"none", "foreign"} /\ filters \in [Dirs -> Seq({"foreign"})]
  BY <1>3, ToolsAssumption
<1>5. Typed
  <2>1. filters \in [Dirs -> Seq(TcStats \cup {"foreign"})]
    BY <1>4
  <2>2. pins \in [Pins -> OpenCounts \cup {"none"}] /\ pc \in [Procs -> Where]
    BY <1>1, <1>3 DEF NoPins, Where
  <2> QED
    BY Zenon, <1>3, <1>4, <2>1, <2>2 DEF Typed
<1>6. xdp \notin XdpTools /\ ~Filtered
  BY <1>4, Tools, ProcsAssumption DEF Filtered
<1>7. RulesFirst /\ Answered /\ NothingSlips
  BY Zenon, <1>2, <1>3, <1>6, Tools DEF RulesFirst, Answered, NothingSlips
<1>8. XdpStays /\ FiltersStay /\ PinsStay
  BY Zenon, <1>2, Tools DEF XdpStays, FiltersStay, PinsStay, Up, Active
<1> QED
  BY Zenon, <1>5, <1>7, <1>8 DEF Inv

LEMMA MainKeeps ==
  ASSUME Inv, NEW p \in Procs, Main(p)
  PROVE  Inv'
<1> USE DEF hostVars, statVars, ghostVars
<1> DEFINE Still == UNCHANGED <<xdp, clsact, filters, pins, warned, found, orphaned, ousted, rules, misjudged>>
<1>1. CASE Load(p)
  <2>1. Still /\ \E b \in {"rules", "attach", "exited"} : Go(p, "start", b) /\ (b = "attach" => p \notin Firewalls)
    BY Zenon, <1>1 DEF Load, FirstStep
  <2> QED
    BY Zenon, <2>1, PcStep DEF Where, Holding, Up, Active
<1>2. CASE AddRules(p)
  BY Zenon, <1>2, RulesKeeps, PcStep DEF AddRules, Where, Holding, Up, Active
<1>3. CASE XdpAttach(p)
  BY Zenon, <1>3, XdpAttachKeeps, PcStep DEF XdpAttach, OnAttachError, Where, Holding, Up, Active
<1>4. CASE TcHookAndIngress(p)
  BY Zenon, <1>4, TcKeeps DEF TcHookAndIngress
<1>5. CASE TcEgress(p)
  BY Zenon, <1>5, TcKeeps DEF TcEgress
<1>6. CASE OpenAttach(p)
  <2>1. Still /\ \E b \in {"pin map", "exited"} : Go(p, "attach", b)
    BY Zenon, <1>6 DEF OpenAttach
  <2> QED
    BY Zenon, <2>1, PcStep DEF Where, Holding, Up, Active
<1>7. CASE Pin(p, "pin map", "pin prog", "open_count") \/ Pin(p, "pin prog", "signal", "count_open")
  <2>1. p \in OpenCounts
    BY Zenon, <1>7 DEF Pin
  <2> QED
    BY Zenon, <1>7, <2>1, PinKeeps
<1>8. CASE InstallHandler(p) \/ TestStop(p) \/ Pause(p) \/ LeaveLoop(p)
  <2>1. Still
    BY Zenon, <1>8 DEF InstallHandler, TestStop, Pause, LeaveLoop
  <2>2. \/ Go(p, "signal", "loop") \/ Go(p, "loop", "cleanup")
        \/ Go(p, "loop", "pause") \/ Go(p, "pause", "paused")
    BY Zenon, <1>8 DEF InstallHandler, TestStop, Pause, LeaveLoop
  <2> QED
    BY Zenon, <2>1, <2>2, PcStep DEF Where, Holding, Up, Active
<1>9. CASE Cleanup(p)
  BY Zenon, <1>9, CleanupKeeps
<1> QED
  BY Zenon, <1>1, <1>2, <1>3, <1>4, <1>5, <1>6, <1>7, <1>8, <1>9 DEF Main

LEMMA Unmoved ==
  ASSUME Inv, UNCHANGED <<pc, xdp, clsact, filters, pins, warned, found, orphaned, ousted, rules, misjudged>>
  PROVE  Inv'
BY Zenon DEF Inv, Typed, RulesFirst, Answered, Answers, Filtered, XdpStays, FiltersStay, Front, PinsStay, NothingSlips

\* Ctrl-C: before signal() it kills, afterwards it is noted.
LEMMA InterruptKeeps ==
  ASSUME Inv, NEW p \in Procs, Interrupt(p)
  PROVE  Inv'
<1>1. CASE Dies(p)
  BY Zenon, <1>1, DiesKeeps
<1>2. CASE /\ pc[p] \in {"loop", "pause", "paused"} /\ UNCHANGED <<hostVars, rules, statVars>>
           /\ pc' = IF pc[p] = "paused" THEN [pc EXCEPT ![p] = "loop"] ELSE pc
  <2>1. UNCHANGED <<xdp, clsact, filters, pins, warned, found, orphaned, ousted, rules, misjudged>>
    BY Zenon, <1>2 DEF hostVars, ghostVars, statVars
  <2>2. Go(p, "paused", "loop") \/ pc' = pc
    BY Zenon, <1>2 DEF Go
  <2> QED
    BY Zenon, <2>1, <2>2, Unmoved, PcStep DEF Where, Holding, Up, Active
<1> QED
  BY Zenon, <1>1, <1>2 DEF Interrupt

LEMMA Inductive == Spec => []Inv
<1>1. Inv /\ [Next]_vars => Inv'
  <2> SUFFICES ASSUME Inv, [Next]_vars PROVE Inv'
    BY Zenon
  <2>1. CASE UNCHANGED vars
    BY Zenon, <2>1, Unmoved DEF vars, hostVars, ghostVars, statVars
  <2>2. ASSUME NEW p \in Procs, Crash(p) PROVE Inv'
    BY Zenon, <2>2, DiesKeeps DEF Crash
  <2> QED
    BY Zenon, <2>1, <2>2, MainKeeps, InterruptKeeps, PacketKeeps DEF Next
<1> QED
  BY <1>1, InitHolds, PTL DEF Spec

\* xdpfw enters its rules before it attaches: from the first packet it sees, it drops
\* the frames to the ports it was asked to block and no others, whoever crashes or
\* replaces whom, except frames that xdp_fw() does not look into or finds another port
\* in, and ports the loader did not enter as asked.
THEOREM FirewallTight == Spec => []NothingSlips
<1>1. Inv => NothingSlips
  BY Zenon DEF Inv
<1> QED
  BY <1>1, Inductive, PTL

\* While xdpcount, xdpfw, tcstat or opencount says that it is active, its XDP program is
\* on the interface, its filters are in front or its pins are in place, over whatever
\* dead processes and others left there, until another process removes or covers them;
\* for opencount, unless it warned.
THEOREM ActiveInForce == Spec => []InForce
<1>1. Inv => InForce
  <2> SUFFICES ASSUME Inv, NEW p \in Procs \ ousted, pc[p] \in Active
               PROVE  /\ p \in XdpTools => xdp = p
                      /\ p \in TcStats => \A d \in Dirs : p \in Front(d)
                      /\ p \in OpenCounts \ warned => pins = [f \in Pins |-> p]
    BY Zenon DEF InForce
  <2>1. pc[p] \in Up
    BY Zenon DEF Up
  <2>2. p \in XdpTools => xdp = p
    BY Zenon, <2>1 DEF Inv, XdpStays
  <2>3. p \in TcStats => \A d \in Dirs : p \in Front(d)
    BY Zenon, <2>1 DEF Inv, FiltersStay, Dirs
  <2>4. ASSUME p \in OpenCounts \ warned PROVE pins = [f \in Pins |-> p]
    <3>1. pins["open_count"] = p /\ pins["count_open"] = p
      BY Zenon, <2>1, <2>4 DEF Inv, PinsStay
    <3> QED
      BY Zenon, <3>1 DEF Inv, Typed, Pins
  <2> QED
    BY Zenon, <2>2, <2>3, <2>4
<1> QED
  BY <1>1, Inductive, PTL

\* The cleanup of the tools: once all have ended, an XDP program, a filter or a pin of
\* theirs, or a qdisc that was not there before, is left only by a process that died, and
\* whose kind has not cleaned up since.
THEOREM MachineRestored == Spec => []Restored
<1>1. Inv => Restored
  <2> SUFFICES ASSUME Inv, AtRest PROVE Restored
    BY Zenon DEF Restored
  <2>1. \A t \in SUBSET Procs : Answers(t) => orphaned \cap t # {}
    BY Zenon DEF AtRest, Answers, Holding
  <2> QED
    BY Zenon, <2>1, Tools DEF Inv, Answered, Filtered, Restored
<1> QED
  BY <1>1, Inductive, PTL
-----------------------------------------------------------------------------
\* Why every packet is accounted for.  A frame has one category, one process at most
\* has its program on the interface, and it runs one program.
Numbers ==
  passed \in Nat /\ dropped \in Nat /\ counts \in [Cats -> Nat] /\ pkts \in [Dirs -> Nat]
AccountInv == Numbers /\ PacketsAccounted

LEMMA OneCategory ==
  ASSUME NEW k
  PROVE  \E c \in Cats : Categories(k) = {c}
<1>1. k.l4 \in DOMAIN L4Cat => L4Cat[k.l4] \in Cats
  BY DEF L4Cat, Cats
<1> QED
  BY Zenon, <1>1 DEF Categories, Cats

LEMMA CountOne ==
  ASSUME Numbers, NEW c \in Cats,
         counts' = [x \in Cats |-> IF x = c THEN counts[x] + 1 ELSE counts[x]]
  PROVE  CountsTotal' = CountsTotal + 1
<1>1. \A x \in Cats : counts[x] \in Nat /\ counts'[x] = IF x = c THEN counts[x] + 1 ELSE counts[x]
  BY Zenon DEF Numbers
<1> QED
  BY <1>1 DEF Cats, CountsTotal

LEMMA TotalNat ==
  ASSUME Numbers
  PROVE  CountsTotal \in Nat
BY DEF Numbers, Cats, CountsTotal

LEMMA PacketInAccounted ==
  ASSUME Typed, AccountInv, NEW k \in Packets, PacketIn(k)
  PROVE  AccountInv'
<1>1. /\ pkts \in [Dirs -> Nat] /\ pkts' = [pkts EXCEPT !["ingress"] = @ + 1]
      /\ CountsTotal \in Nat /\ passed \in Nat /\ dropped \in Nat /\ counts \in [Cats -> Nat]
      /\ CountsTotal + passed + dropped = pkts["ingress"]
  BY Zenon, TotalNat DEF PacketIn, Arrive, AccountInv, Numbers, PacketsAccounted
<1>2. pkts' \in [Dirs -> Nat] /\ pkts'["ingress"] = pkts["ingress"] + 1 /\ pkts["ingress"] \in Nat
  BY <1>1 DEF Dirs
<1>3. PICK c \in Cats : Categories(k) = {c}
  BY Zenon, OneCategory
<1>4. CASE xdp \in Counters
  <2>1. counts' = [x \in Cats |-> IF x = c THEN counts[x] + 1 ELSE counts[x]]
    BY Zenon, <1>3, <1>4 DEF PacketIn
  <2>2. passed' = passed /\ dropped' = dropped
    BY <1>1, <1>4, ProcsAssumption DEF PacketIn
  <2>3. CountsTotal' = CountsTotal + 1
    BY Zenon, <2>1, CountOne DEF AccountInv
  <2>4. counts' \in [Cats -> Nat]
    BY <1>1, <2>1
  <2> QED
    BY <1>1, <1>2, <2>2, <2>3, <2>4 DEF AccountInv, Numbers, PacketsAccounted
<1>5. CASE xdp \notin Counters
  <2>1. counts' = counts
    BY Zenon, <1>1, <1>5 DEF PacketIn
  <2>2. CountsTotal' = CountsTotal
    BY Zenon, <2>1 DEF CountsTotal
  <2>3. \/ passed' = passed /\ dropped' = dropped + 1
        \/ passed' = passed + 1 /\ dropped' = dropped
    BY Zenon, <1>5 DEF PacketIn
  <2> QED
    BY <1>1, <1>2, <2>1, <2>2, <2>3 DEF AccountInv, Numbers, PacketsAccounted
<1> QED
  BY Zenon, <1>4, <1>5

\* Whichever of xdpcount and xdpfw is on the interface when a packet comes in, and
\* whichever is attached, detached or killed in between, the packet is counted in one
\* category, tallied as a drop, or passed.
THEOREM EveryPacketOnce == Spec => []PacketsAccounted
<1>1. Init => AccountInv
  BY DEF Init, AccountInv, Numbers, PacketsAccounted, CountsTotal, Cats, Dirs
<1>2. Inv /\ AccountInv /\ [Next]_vars => AccountInv'
  <2> SUFFICES ASSUME Inv, AccountInv, [Next]_vars PROVE AccountInv'
    BY Zenon
  <2>1. ASSUME UNCHANGED <<passed, dropped, counts, pkts>> PROVE AccountInv'
    BY Zenon, <2>1 DEF AccountInv, Numbers, PacketsAccounted, CountsTotal
  <2>2. ASSUME NEW p \in Procs, Main(p) \/ Interrupt(p) \/ Crash(p) PROVE AccountInv'
    <3>1. UNCHANGED statVars
      BY ZenonT(60), <2>2 DEF Main, Load, AddRules, XdpAttach, TcHookAndIngress, TcEgress, OpenAttach,
         Pin, InstallHandler, TestStop, Pause, LeaveLoop, Cleanup, Interrupt, Crash, Dies
    <3> QED
      BY Zenon, <2>1, <3>1 DEF statVars
  <2>3. CASE PacketOut
    <3>1. pkts' = [pkts EXCEPT !["egress"] = @ + 1] /\ UNCHANGED <<passed, dropped, counts>>
      BY Zenon, <2>3 DEF PacketOut, Arrive
    <3>2. pkts' \in [Dirs -> Nat] /\ pkts'["ingress"] = pkts["ingress"]
      BY <3>1 DEF AccountInv, Numbers, Dirs
    <3> QED
      BY Zenon, <3>1, <3>2 DEF AccountInv, Numbers, PacketsAccounted, CountsTotal
  <2>4. ASSUME NEW k \in Packets, PacketIn(k) PROVE AccountInv'
    BY Zenon, <2>4, PacketInAccounted DEF Inv
  <2>5. CASE UNCHANGED vars
    BY Zenon, <2>1, <2>5 DEF vars, statVars
  <2> QED
    BY Zenon, <2>2, <2>3, <2>4, <2>5 DEF Next
<1>3. AccountInv => PacketsAccounted
  BY Zenon DEF AccountInv
<1> QED
  BY <1>1, <1>2, <1>3, Inductive, PTL DEF Spec

-----------------------------------------------------------------------------
(* The lessons of 14-verifier: the ring of print_log_tail()                *)

\* A set of naturals has a least element: the form of induction used below.
LEMMA Least ==
  ASSUME NEW W \in SUBSET Nat, W # {}
  PROVE  \E m \in W : \A i \in Nat : i < m => i \notin W
<1>1. PICK m \in W : \A y \in W : ~ (<<y, m>> \in OpToRel(<, Nat))
  BY NatLessThanWellFounded, WFMin, Zenon
<1>2. \A i \in W : ~(i < m)
  BY Zenon, <1>1 DEF OpToRel
<1> QED
  BY Zenon, <1>2

LEMMA ModDef ==
  ASSUME NEW a \in Nat, NEW n \in Nat \ {0}
  PROVE  a = n * (a \div n) + (a % n) /\ a % n \in 0..n - 1 /\ a \div n \in Int
OBVIOUS

LEMMA ModUnique ==
  ASSUME NEW q \in Int, NEW p \in Int, NEW n \in Nat \ {0}, NEW r \in 0..n - 1, NEW t \in 0..n - 1,
         n * q + r = n * p + t
  PROVE  r = t
<1>1. n * (q - p) = t - r
  OBVIOUS
<1>2. q - p >= 1 => n * (q - p) >= n
  OBVIOUS
<1>3. q - p <= -1 => n * (q - p) <= -n
  OBVIOUS
<1> QED
  BY <1>1, <1>2, <1>3

\* A line has the slot of the line a whole ring later.
LEMMA ModShift ==
  ASSUME NEW a \in Nat, NEW b \in Nat, NEW n \in Nat \ {0}, b = a + n
  PROVE  b % n = a % n
<1>1. b = n * (b \div n) + (b % n) /\ b % n \in 0..n - 1 /\ b \div n \in Int
  BY Zenon, ModDef
<1>2. a = n * (a \div n) + (a % n) /\ a % n \in 0..n - 1 /\ a \div n \in Int
  BY Zenon, ModDef
<1> DEFINE p == a \div n + 1
<1>3. p \in Int /\ n * p = n * (a \div n) + n
  BY <1>2
<1>4. n * (b \div n) + (b % n) = n * p + (a % n)
  BY <1>1, <1>2, <1>3
<1> HIDE DEF p
<1> QED
  BY Zenon, <1>1, <1>2, <1>3, <1>4, ModUnique

\* Lines less than a whole ring apart have different slots.
LEMMA ModApart ==
  ASSUME NEW a \in Nat, NEW b \in Nat, NEW n \in Nat \ {0}, a < b, b < a + n
  PROVE  a % n # b % n
<1>1. b = n * (b \div n) + (b % n) /\ b \div n \in Int
  BY Zenon, ModDef
<1>2. a = n * (a \div n) + (a % n) /\ a \div n \in Int /\ a % n \in Nat
  BY ModDef
<1> SUFFICES ASSUME a % n = b % n PROVE FALSE
  BY Zenon
<1> DEFINE d == b \div n - a \div n
<1>3. d \in Int /\ n * d = b - a
  BY <1>1, <1>2
<1> HIDE DEF d
<1>4. (d >= 1 => n * d >= n) /\ (d <= 0 => n * d <= 0)
  BY <1>3
<1> QED
  BY <1>3, <1>4


\* The slot i places after that of a.
LEMMA ModAdd ==
  ASSUME NEW a \in Nat, NEW i \in Nat, NEW n \in Nat \ {0}
  PROVE  ((a % n) + i) % n = (a + i) % n
<1>1. a = n * (a \div n) + (a % n) /\ a % n \in Nat /\ a \div n \in Int
  BY ModDef
<1>2. PICK c \in Nat : c = (a % n) + i
  BY <1>1
<1>3. PICK b \in Nat : b = a + i
  OBVIOUS
<1>4. c = n * (c \div n) + (c % n) /\ c % n \in 0..n - 1 /\ c \div n \in Int
  BY Zenon, ModDef
<1>5. b = n * (b \div n) + (b % n) /\ b % n \in 0..n - 1 /\ b \div n \in Int
  BY Zenon, ModDef
<1>6. PICK p \in Int : p = (a \div n) + (c \div n)
  BY <1>1, <1>4
<1>7. n * p = n * (a \div n) + n * (c \div n)
  BY <1>1, <1>4, <1>6
<1>8. n * (b \div n) + (b % n) = n * p + (c % n)
  BY <1>1, <1>2, <1>3, <1>4, <1>5, <1>7
<1>9. b % n = c % n
  BY Zenon, <1>4, <1>5, <1>6, <1>8, ModUnique
<1> QED
  BY Zenon, <1>2, <1>3, <1>9

\* What the scan has after k lines; scans[] of all the prefixes up to line m.
Empty(n) == [ring |-> [j \in 0..n - 1 |-> V!Blank], count |-> 0]
Scans(log, n, m, h) == h = [k \in 0..m |-> IF k = 0 THEN Empty(n) ELSE V!Put(h[k - 1], log[k], n)]

LEMMA ScansExist ==
  ASSUME NEW log, NEW n, NEW m \in Nat
  PROVE  \E h : Scans(log, n, m, h)
<1> DEFINE W == {x \in Nat : ~ \E h : Scans(log, n, x, h)}
<1> SUFFICES ASSUME W # {} PROVE FALSE
  BY Zenon
<1>1. PICK x \in W : \A i \in Nat : i < x => i \notin W
  BY Zenon, Least
<1>2. CASE x = 0
  <2> DEFINE h == [k \in 0..0 |-> Empty(n)]
  <2>1. Scans(log, n, 0, h)
    BY DEF Scans
  <2> QED
    BY Zenon, <2>1, <1>2
<1>3. CASE x # 0
  <2>1. x - 1 \in Nat /\ x - 1 \notin W
    BY <1>1, <1>3
  <2>2. PICK h : Scans(log, n, x - 1, h)
    BY Zenon, <2>1
  <2> DEFINE e == [k \in 0..x |-> IF k = x THEN V!Put(h[x - 1], log[x], n) ELSE h[k]]
  <2>3. ASSUME NEW k \in 0..x PROVE e[k] = IF k = 0 THEN Empty(n) ELSE V!Put(e[k - 1], log[k], n)
    <3>1. CASE k = x
      <4>1. e[k] = V!Put(h[x - 1], log[x], n) /\ e[k - 1] = h[x - 1]
        BY <3>1, <1>3
      <4> QED
        BY Zenon, <4>1, <3>1, <1>3
    <3>2. CASE k # x
      <4>1. k \in 0..x - 1
        BY <3>2
      <4>2. e[k] = h[k]
        BY Zenon, <3>2
      <4>3. h[k] = IF k = 0 THEN Empty(n) ELSE V!Put(h[k - 1], log[k], n)
        BY Zenon, <2>2, <4>1 DEF Scans
      <4>4. k # 0 => e[k - 1] = h[k - 1]
        BY <4>1
      <4> QED
        BY Zenon, <4>2, <4>3, <4>4
    <3> QED
      BY Zenon, <3>1, <3>2
  <2>4. Scans(log, n, x, e)
    BY Zenon, <2>3 DEF Scans
  <2> QED
    BY Zenon, <2>4
<1> QED
  BY Zenon, <1>2, <1>3

LEMMA ScanIs ==
  ASSUME NEW log, NEW n, Len(log) \in Nat
  PROVE  \E h : Scans(log, n, Len(log), h) /\ V!Scan(log, n) = h[Len(log)]
<1> DEFINE s == CHOOSE h : Scans(log, n, Len(log), h)
<1>1. Scans(log, n, Len(log), s)
  BY Zenon, ScansExist
<1>2. V!Scan(log, n) = s[Len(log)]
  BY Zenon DEF V!Scan, Scans, Empty
<1> QED
  BY Zenon, <1>1, <1>2

\* The ring after k lines, against the sequence of the lines that were not blank.
Increasing(f) == \A i, j \in DOMAIN f : i < j => f[i] < f[j]
NonBlank(log, k, f) ==
  /\ f \in Seq(Nat) /\ Increasing(f)
  /\ \A i \in DOMAIN f : f[i] \in 1..k /\ log[f[i]] # V!Blank
  /\ \A x \in 1..k : log[x] # V!Blank => \E i \in DOMAIN f : f[i] = x
Held(s, n, f) ==
  /\ s.ring \in [0..n - 1 -> Nat] /\ s.count = Len(f)
  /\ \A i \in DOMAIN f : Len(f) < i + n => s.ring[(i - 1) % n] = f[i]

\* One more line that is not blank.
LEMMA NonBlankMore ==
  ASSUME NEW log, NEW k \in Nat, NEW f, NonBlank(log, k, f), log[k + 1] # V!Blank
  PROVE  NonBlank(log, k + 1, Append(f, k + 1))
<1> DEFINE g == Append(f, k + 1)
<1>1. f \in Seq(Nat) /\ Len(f) \in Nat /\ DOMAIN f = 1..Len(f)
  BY DEF NonBlank
<1>2. g \in Seq(Nat) /\ DOMAIN g = 1..(Len(f) + 1) /\ g[Len(f) + 1] = k + 1
      /\ \A i \in DOMAIN f : g[i] = f[i] /\ i \in DOMAIN g
  BY <1>1
<1> HIDE DEF g
<1>3. \A i \in DOMAIN g : i = Len(f) + 1 \/ i \in DOMAIN f
  BY <1>1, <1>2
<1>4. ASSUME NEW i \in DOMAIN f PROVE f[i] \in Nat /\ f[i] <= k /\ f[i] >= 1 /\ log[f[i]] # V!Blank
  BY DEF NonBlank
<1>5. Increasing(g)
  <2> SUFFICES ASSUME NEW i \in DOMAIN g, NEW j \in DOMAIN g, i < j PROVE g[i] < g[j]
    BY Zenon DEF Increasing
  <2>1. i \in DOMAIN f
    BY <1>1, <1>2
  <2>2. CASE j = Len(f) + 1
    BY <2>1, <2>2, <1>2, <1>4
  <2>3. CASE j \in DOMAIN f
    BY Zenon, <2>1, <2>3, <1>2 DEF NonBlank, Increasing
  <2> QED
    BY Zenon, <2>2, <2>3, <1>3
<1>6. ASSUME NEW i \in DOMAIN g PROVE g[i] \in 1..(k + 1) /\ log[g[i]] # V!Blank
  <2>1. CASE i = Len(f) + 1
    BY <2>1, <1>2
  <2>2. CASE i \in DOMAIN f
    BY <2>2, <1>2, <1>4
  <2> QED
    BY Zenon, <2>1, <2>2, <1>3
<1>7. ASSUME NEW x \in 1..(k + 1), log[x] # V!Blank PROVE \E i \in DOMAIN g : g[i] = x
  <2>1. CASE x = k + 1
    BY <2>1, <1>1, <1>2
  <2>2. CASE x # k + 1
    <3>1. x \in 1..k
      BY <2>2
    <3>2. PICK i \in DOMAIN f : f[i] = x
      BY Zenon, <3>1, <1>7 DEF NonBlank
    <3> QED
      BY Zenon, <3>2, <1>2
  <2> QED
    BY Zenon, <2>1, <2>2
<1> QED
  BY Zenon, <1>2, <1>5, <1>6, <1>7 DEF NonBlank, g

LEMMA NonBlankSame ==
  ASSUME NEW log, NEW k \in Nat, NEW f, NonBlank(log, k, f), log[k + 1] = V!Blank
  PROVE  NonBlank(log, k + 1, f)
<1>1. \A x \in 1..(k + 1) : log[x] # V!Blank => x \in 1..k
  OBVIOUS
<1>2. 1..k \subseteq 1..(k + 1)
  OBVIOUS
<1> QED
  BY Zenon, <1>1, <1>2 DEF NonBlank

\* It goes to the slot of the line that is no longer wanted.
LEMMA HeldMore ==
  ASSUME NEW s, NEW n \in Nat \ {0}, NEW f \in Seq(Nat), NEW l \in Nat, l # V!Blank, Held(s, n, f)
  PROVE  Held(V!Put(s, l, n), n, Append(f, l))
<1> DEFINE g == Append(f, l)
           c == Len(f)
           r == [s.ring EXCEPT ![c % n] = l]
           t == V!Put(s, l, n)
<1>1. s.ring \in [0..n - 1 -> Nat] /\ s.count = c /\ c \in Nat /\ DOMAIN f = 1..c
  BY DEF Held
<1>2. t.ring = r /\ t.count = c + 1
  BY Zenon, <1>1 DEF V!Put
<1>3. g \in Seq(Nat) /\ Len(g) = c + 1 /\ DOMAIN g = 1..(c + 1) /\ g[c + 1] = l /\ \A i \in DOMAIN f : g[i] = f[i]
  OBVIOUS
<1>4. c % n \in 0..n - 1
  BY ModDef
<1>5. r \in [0..n - 1 -> Nat] /\ r[c % n] = l /\ \A q \in 0..n - 1 : q # c % n => r[q] = s.ring[q]
  BY Zenon, <1>1, <1>4
<1> HIDE DEF r, t, g, c
<1>6. ASSUME NEW i \in DOMAIN g, c + 1 < i + n PROVE r[(i - 1) % n] = g[i]
  <2>1. CASE i = c + 1
    <3>1. i - 1 = c
      BY <2>1, <1>1
    <3> QED
      BY Zenon, <2>1, <3>1, <1>3, <1>5
  <2>2. CASE i # c + 1
    <3>1. i \in DOMAIN f /\ i - 1 \in Nat /\ i - 1 < c /\ c < (i - 1) + n /\ c < i + n
      <4>1. i \in 1..(c + 1) /\ c \in Nat
        BY Zenon, <1>1, <1>3
      <4>2. i \in 1..c /\ i - 1 \in Nat /\ i - 1 < c /\ c < (i - 1) + n /\ c < i + n
        BY <4>1, <2>2, <1>6
      <4> QED
        BY Zenon, <4>2, <1>1
    <3>2. (i - 1) % n # c % n
      BY Zenon, <3>1, <1>1, ModApart
    <3>3. (i - 1) % n \in 0..n - 1
      BY Zenon, <3>1, ModDef
    <3>4. s.ring[(i - 1) % n] = f[i]
      BY Zenon, <3>1 DEF Held, c
    <3> QED
      BY Zenon, <3>1, <3>2, <3>3, <3>4, <1>3, <1>5
  <2> QED
    BY Zenon, <2>1, <2>2
<1> QED
  BY Zenon, <1>2, <1>3, <1>5, <1>6 DEF Held, t, g

\* The lines of a log are numbered, as in V!Logs.
Numbered(log, m) == \A k \in 1..m : log[k] \in {k, V!Blank}

LEMMA ScanHolds ==
  ASSUME NEW log, NEW m \in Nat, Numbered(log, m), NEW n \in Nat \ {0}, NEW h, Scans(log, n, m, h)
  PROVE  \E f : NonBlank(log, m, f) /\ Held(h[m], n, f)
<1> DEFINE W == {k \in Nat : k <= m /\ ~ \E f : NonBlank(log, k, f) /\ Held(h[k], n, f)}
<1> SUFFICES ASSUME W # {} PROVE FALSE
  BY SMT
<1>1. PICK k \in W : \A i \in Nat : i < k => i \notin W
  BY Zenon, Least
<1>2. k \in 0..m /\ k \in Nat
  OBVIOUS
<1>3. h[k] = IF k = 0 THEN Empty(n) ELSE V!Put(h[k - 1], log[k], n)
  BY Zenon, <1>2 DEF Scans
<1>4. CASE k = 0
  <2>1. NonBlank(log, 0, <<>>)
    BY DEF NonBlank, Increasing
  <2>2. Held(Empty(n), n, <<>>)
    BY DEF Held, Empty, V!Blank
  <2> QED
    BY Zenon, <2>1, <2>2, <1>3, <1>4
<1>5. CASE k # 0
  <2>1. PICK j \in Nat : k = j + 1
    BY <1>2, <1>5
  <2>2. j \notin W /\ j <= m /\ k \in 1..m /\ k - 1 = j
    BY <2>1, <1>1, <1>2
  <2>3. PICK f : NonBlank(log, j, f) /\ Held(h[j], n, f)
    BY Zenon, <2>2
  <2>4. log[k] = k \/ log[k] = V!Blank
    BY Zenon, <2>2 DEF Numbered
  <2>5. h[k] = V!Put(h[j], log[k], n)
    BY Zenon, <2>2, <1>3, <1>5
  <2>6. CASE log[k] = V!Blank
    <3>1. h[k] = h[j]
      BY Zenon, <2>5, <2>6 DEF V!Put
    <3>2. NonBlank(log, k, f)
      BY Zenon, <2>1, <2>3, <2>6, NonBlankSame
    <3> QED
      BY Zenon, <3>1, <3>2, <2>3
  <2>7. CASE log[k] # V!Blank
    <3>1. NonBlank(log, k, Append(f, k))
      BY Zenon, <2>1, <2>3, <2>7, NonBlankMore
    <3>2. Held(h[k], n, Append(f, k))
      <4>1. f \in Seq(Nat) /\ k \in Nat /\ k # V!Blank /\ log[k] = k
        BY Zenon, <1>2, <2>3, <2>4, <2>7 DEF NonBlank
      <4>2. Held(V!Put(h[j], k, n), n, Append(f, k))
        BY Zenon, <4>1, <2>3, HeldMore
      <4> QED
        BY Zenon, <4>1, <4>2, <2>5
    <3> QED
      BY Zenon, <3>1, <3>2
  <2> QED
    BY Zenon, <2>6, <2>7
<1> QED
  BY Zenon, <1>4, <1>5

\* What print_log_tail() prints from the ring: the last lines of the list.
Shows(t, d, f) == /\ t \in Seq(Nat) /\ Len(t) = d /\ DOMAIN t = 1..d
                  /\ \A i \in 1..d : (Len(f) - d) + i \in DOMAIN f /\ t[i] = f[(Len(f) - d) + i]
LEMMA RingShows ==
  ASSUME NEW s, NEW n \in Nat \ {0}, NEW f \in Seq(Nat), Held(s, n, f),
         NEW d, d = IF s.count < n THEN s.count ELSE n
  PROVE  Shows([i \in 1..d |-> s.ring[(V!Oldest(s.count, n) + i - 1) % n]], d, f)
<1> DEFINE t == [i \in 1..d |-> s.ring[(V!Oldest(s.count, n) + i - 1) % n]]
<1>1. PICK c \in Nat : c = Len(f) /\ c = s.count /\ DOMAIN f = 1..c
  BY DEF Held
<1>2. d \in Nat /\ d <= c /\ d <= n /\ (c < n => d = c) /\ (~(c < n) => d = n)
  BY <1>1
<1>3. ASSUME NEW i \in 1..d PROVE (c - d) + i \in DOMAIN f /\ t[i] = f[(c - d) + i]
  <2>1. PICK j \in Nat : j + 1 = (c - d) + i
    <3> DEFINE w == ((c - d) + i) - 1
    <3>1. w \in Nat /\ w + 1 = (c - d) + i
      BY <1>2
    <3> QED
      BY Zenon, <3>1
  <2>2. j + 1 \in 1..c /\ c < (j + 1) + n /\ (j + 1) - 1 = j
    BY SMTT(30), <2>1, <1>1, <1>2
  <2>3. s.ring[j % n] = f[j + 1]
    <3>1. j + 1 \in DOMAIN f /\ Len(f) < (j + 1) + n
      BY Zenon, <2>2, <1>1
    <3>2. s.ring[((j + 1) - 1) % n] = f[j + 1]
      BY Zenon, <3>1 DEF Held
    <3> QED
      BY Zenon, <3>2, <2>2
  <2>4. t[i] = s.ring[(V!Oldest(c, n) + i - 1) % n]
    BY Zenon, <1>1
  <2>5. (V!Oldest(c, n) + i - 1) % n = j % n
    <3>1. CASE c < n
      <4>1. V!Oldest(c, n) + i - 1 = j
        <5>1. V!Oldest(c, n) = 0 /\ d = c
          BY Zenon, <3>1, <1>2 DEF V!Oldest
        <5> QED
          BY <5>1, <2>1
      <4> QED
        BY Zenon, <4>1
    <3>2. CASE ~(c < n)
      <4>1. PICK q \in Nat : q = i - 1
        BY <1>2
      <4>2. V!Oldest(c, n) = c % n /\ c % n \in Nat
        <5>1. V!Oldest(c, n) = c % n
          BY Zenon, <3>2 DEF V!Oldest
        <5>2. c % n \in 0..n - 1
          BY Zenon, ModDef
        <5> QED
          BY <5>1, <5>2
      <4>3. V!Oldest(c, n) + i - 1 = (c % n) + q
        BY Zenon, <4>1, <4>2, <1>2
      <4>4. ((c % n) + q) % n = (c + q) % n
        BY Zenon, <4>1, <1>1, ModAdd
      <4>5. PICK b \in Nat : b = c + q
        BY <4>1, <1>1
      <4>6. b = j + n
        <5>1. d = n
          BY Zenon, <3>2, <1>2
        <5> QED
          BY <5>1, <4>1, <4>5, <2>1
      <4>7. b % n = j % n
        BY Zenon, <4>5, <4>6, <2>1, ModShift
      <4> QED
        BY Zenon, <4>3, <4>4, <4>5, <4>7
    <3> QED
      BY Zenon, <3>1, <3>2
  <2> QED
    BY Zenon, <2>1, <2>2, <2>3, <2>4, <2>5, <1>1
<1>4. DOMAIN t = 1..d
  BY Zenon
<1> HIDE DEF t
<1>5. \A i \in 1..d : t[i] \in Nat
  <2>1. \A i \in DOMAIN f : f[i] \in Nat
    OBVIOUS
  <2> QED
    BY Zenon, <2>1, <1>3
<1>6. t \in Seq(Nat) /\ Len(t) = d
  <2>1. t = [i \in 1..d |-> t[i]]
    BY Zenon, <1>4 DEF t
  <2>2. t \in [1..d -> Nat]
    BY Zenon, <2>1, <1>5
  <2> QED
    BY <2>2, <1>2, <1>4
<1> QED
  BY Zenon, <1>1, <1>3, <1>4, <1>6 DEF Shows, t

LEMMA EndOfLog ==
  ASSUME NEW log \in Seq(Nat), log # <<>>, Numbered(log, Len(log))
  PROVE  V!TailOf(V!print_log_tail(log, V!Clamp(Keep)), log)
<1> USE LessonAssumption
<1>1. Keep \in Nat \ {0} /\ V!Clamp(Keep) = Keep
  BY DEF V!Clamp
<1>2. PICK m \in Nat : m = Len(log) /\ DOMAIN log = 1..m
  OBVIOUS
<1>3. PICK h : Scans(log, Keep, m, h) /\ V!Scan(log, Keep) = h[m]
  BY Zenon, <1>2, ScanIs
<1>4. PICK f : NonBlank(log, m, f) /\ Held(h[m], Keep, f)
  BY Zenon, <1>1, <1>2, <1>3, ScanHolds
<1>5. PICK s : s = h[m]
  BY Zenon
<1>6. PICK d : d = IF s.count < Keep THEN s.count ELSE Keep
  BY Zenon
<1>7. PICK t : t = [i \in 1..d |-> s.ring[(V!Oldest(s.count, Keep) + i - 1) % Keep]]
  BY Zenon
<1>8. V!print_log_tail(log, Keep) = t
  BY Zenon, <1>2, <1>3, <1>5, <1>6, <1>7 DEF V!print_log_tail
<1>9. f \in Seq(Nat) /\ Held(s, Keep, f)
  BY Zenon, <1>4, <1>5 DEF NonBlank
<1>10. Shows(t, d, f)
  BY Zenon, <1>1, <1>6, <1>7, <1>9, RingShows
<1>11. PICK c \in Nat : c = Len(f) /\ c = s.count /\ DOMAIN f = 1..c
  BY <1>9 DEF Held
<1>12. d \in Nat /\ d <= c /\ d <= Keep /\ (d < c => d = Keep)
  BY <1>1, <1>6, <1>11
<1>13. Len(t) = d /\ DOMAIN t = 1..d /\ \A i \in 1..d : (c - d) + i \in DOMAIN f /\ t[i] = f[(c - d) + i]
  BY Zenon, <1>10, <1>11 DEF Shows
<1> DEFINE lines == {k \in DOMAIN log : log[k] # V!Blank}
           seen  == {t[i] : i \in DOMAIN t}
<1>14. Len(t) <= Keep
  BY Zenon, <1>12, <1>13
<1>15. seen \subseteq lines
  <2>1. \A i \in DOMAIN f : f[i] \in lines
    BY Zenon, <1>2, <1>4 DEF NonBlank
  <2>2. ASSUME NEW i \in DOMAIN t PROVE t[i] \in lines
    <3>1. (c - d) + i \in DOMAIN f /\ t[i] = f[(c - d) + i]
      BY Zenon, <1>13
    <3> HIDE DEF lines
    <3> QED
      BY Zenon, <2>1, <3>1
  <2> HIDE DEF lines
  <2> QED
    BY Zenon, <2>2
<1>16. ASSUME NEW i \in DOMAIN f, NEW j \in DOMAIN f, i < j PROVE f[i] < f[j]
  BY Zenon, <1>4, <1>16 DEF NonBlank, Increasing
<1>17. ASSUME NEW i \in DOMAIN t, NEW j \in DOMAIN t, i < j PROVE t[i] < t[j]
  <2>1. i \in 1..d /\ j \in 1..d
    BY Zenon, <1>13
  <2>2. (c - d) + i < (c - d) + j
    BY <2>1, <1>12, <1>17
  <2> QED
    BY Zenon, <2>1, <2>2, <1>13, <1>16
<1>18. ASSUME NEW x \in lines \ seen PROVE Len(t) = Keep /\ \A y \in seen : x < y
  <2>1. PICK j \in DOMAIN f : f[j] = x
    BY Zenon, <1>2, <1>4 DEF NonBlank
  <2>2. j \in 1..c
    BY Zenon, <1>11
  <2>3. j <= c - d
    <3> SUFFICES ASSUME ~(j <= c - d) PROVE FALSE
      BY Zenon
    <3>1. PICK i \in 1..d : (c - d) + i = j
      <4> DEFINE i == j - (c - d)
      <4>1. i \in 1..d /\ (c - d) + i = j
        BY <2>2, <1>12
      <4> QED
        BY Zenon, <4>1
    <3>2. t[i] = x
      BY Zenon, <3>1, <2>1, <1>13
    <3> QED
      BY Zenon, <3>2, <1>13
  <2>4. Len(t) = Keep
    BY <2>2, <2>3, <1>12, <1>13
  <2>5. ASSUME NEW i \in 1..d PROVE x < t[i]
    <3>1. j < (c - d) + i
      BY <2>2, <2>3, <1>12
    <3> QED
      BY Zenon, <3>1, <2>1, <1>13, <1>16
  <2> QED
    BY Zenon, <2>4, <2>5, <1>13
<1>19. V!TailOf(t, log)
  BY Zenon, <1>14, <1>15, <1>17, <1>18 DEF V!TailOf
<1> QED
  BY Zenon, <1>1, <1>8, <1>19

-----------------------------------------------------------------------------
(* The lessons                                                             *)

\* Every first program does on some input what is forbidden, and no corrected one does.
LEMMA Verdicts ==
  ASSUME NEW l \in 1..3
  PROVE  ~V!Accepts(l, FALSE) /\ V!Accepts(l, TRUE)
<1> DEFINE x(v, r) == [val |-> v, draw |-> r]
<1>1. x(Null, 0) \in V!Inputs /\ x(0, 1) \in V!Inputs /\ x(0, 63) \in V!Inputs
  BY DEF V!Inputs
<1>2. ~V!bad_null_deref(x(Null, 0)) /\ ~V!bad_unbounded_loop(x(0, 1)) /\ ~V!bad_oob_index(x(0, 63))
  BY DEF V!bad_null_deref, V!Deref, V!bad_unbounded_loop, V!bad_oob_index, V!InBuf
<1>3. ASSUME NEW y \in V!Inputs
      PROVE  V!good_null_deref(y) /\ V!good_bounded_loop(y) /\ V!good_oob_index(y)
  <2>1. y.draw \in 0..63
    BY Zenon DEF V!Inputs
  <2>2. y.draw % 16 \in 0..15
    BY <2>1
  <2>3. V!good_bounded_loop(y)
    BY DEF V!good_bounded_loop
  <2> QED
    BY Zenon, <2>2, <2>3 DEF V!good_null_deref, V!Deref, V!good_oob_index, V!InBuf
<1> HIDE DEF x
<1>4. l = 1 \/ l = 2 \/ l = 3
  OBVIOUS
<1>5. (l = 1 => l # 2 /\ l # 3) /\ (l = 2 => l # 3)
  OBVIOUS
<1>6. /\ l = 1 => ~V!Specimen(l, FALSE, x(Null, 0))
      /\ l = 2 => ~V!Specimen(l, FALSE, x(0, 1))
      /\ l = 3 => ~V!Specimen(l, FALSE, x(0, 63))
  BY Zenon, <1>2, <1>5 DEF V!Specimen
<1>7. \A y \in V!Inputs : V!Specimen(l, TRUE, y)
  BY Zenon, <1>3, <1>4, <1>5 DEF V!Specimen
<1> QED
  BY Zenon, <1>1, <1>4, <1>6, <1>7 DEF V!Accepts

\* A log is a sequence of numbered lines, and there is at least one.
LEMMA LogsAre ==
  ASSUME NEW log \in V!Logs
  PROVE  log \in Seq(Nat) /\ log # <<>> /\ Numbered(log, Len(log))
<1>1. PICK m \in 1..MaxLog : \E S \in SUBSET (1..m) : log = [k \in 1..m |-> IF k \in S THEN V!Blank ELSE k]
  BY SMT DEF V!Logs
<1>2. PICK S \in SUBSET (1..m) : log = [k \in 1..m |-> IF k \in S THEN V!Blank ELSE k]
  BY Zenon, <1>1
<1>3. m \in Nat /\ m >= 1
  BY <1>1
<1>4. DOMAIN log = 1..m /\ \A k \in 1..m : log[k] = IF k \in S THEN V!Blank ELSE k
  BY Zenon, <1>2
<1>5. log \in Seq(Nat) /\ Len(log) = m
  BY <1>2, <1>3 DEF V!Blank
<1>6. log # <<>>
  BY <1>3, <1>5
<1>7. Numbered(log, m)
  BY Zenon, <1>4 DEF Numbered
<1> QED
  BY Zenon, <1>5, <1>6, <1>7

\* logbuf is that of the last load with a log, and a tail is printed only after a failure.
LessonInv ==
  /\ lesson \in 1..4 /\ lessonPc \in {"bad", "tail", "good", "told"}
  /\ lessonPc # "bad" => lesson \in 1..3
  /\ logbuf = written /\ (written = <<>> \/ written \in V!Logs)
  /\ lessonPc = "tail" => err
  /\ LessonsTold

LEMMA LoadBadKeeps ==
  ASSUME LessonInv, V!LoadBad
  PROVE  LessonInv'
<1>1. lesson \in 1..3 /\ lesson' = lesson /\ lessonPc' = (IF err' THEN "tail" ELSE "good")
  <2>1. lesson \in 1..3
    BY DEF LessonInv, V!LoadBad
  <2> QED
    BY Zenon, <2>1 DEF V!LoadBad
<1>2. lesson' \in 1..4 /\ lesson' \in 1..3
  BY <1>1
<1>3. \/ err' = ~V!Accepts(lesson, FALSE) /\ logbuf' \in V!Logs /\ logbuf' = written'
      \/ err' = TRUE /\ logbuf' = <<>> /\ written' = <<>>
  BY Zenon DEF V!LoadBad, V!Cleared
<1>4. err' = TRUE
  BY Zenon, <1>1, <1>3, Verdicts
<1>5. lessonPc' = "tail"
  BY Zenon, <1>1, <1>4
<1>6. lessonPc' \in {"bad", "tail", "good", "told"} /\ lessonPc' # "told" /\ lessonPc' # "good"
  BY Zenon, <1>5
<1>7. LessonsTold'
  BY Zenon, <1>4, <1>6 DEF LessonsTold, V!LessonTold
<1> QED
  BY Zenon, <1>2, <1>3, <1>4, <1>6, <1>7 DEF LessonInv

LEMMA PrintTailKeeps ==
  ASSUME LessonInv, V!PrintTail
  PROVE  LessonInv'
<1>1. /\ UNCHANGED <<lesson, logbuf, err, written, broken>> /\ lessonPc = "tail" /\ lessonPc' = "good"
      /\ tail' = V!print_log_tail(written, V!Clamp(Keep))
  BY Zenon DEF V!PrintTail, LessonInv
<1>2. err /\ lesson \in 1..3 /\ lesson \in 1..4 /\ lessonPc' # "told"
      /\ lessonPc' \in {"bad", "tail", "good", "told"}
  BY Zenon, <1>1 DEF LessonInv
<1>3. IF written = <<>> THEN tail' = Null ELSE V!TailOf(tail', written)
  <2>1. CASE written = <<>>
    BY Zenon, <1>1, <2>1 DEF V!print_log_tail
  <2>2. CASE written # <<>>
    <3>1. written \in V!Logs
      BY Zenon, <2>2 DEF LessonInv
    <3>2. written \in Seq(Nat) /\ Numbered(written, Len(written))
      BY Zenon, <3>1, LogsAre
    <3> QED
      BY Zenon, <2>2, <3>2, <1>1, EndOfLog
  <2> QED
    BY Zenon, <2>1, <2>2
<1>4. LessonsTold'
  BY Zenon, <1>1, <1>2, <1>3 DEF LessonsTold, V!LessonTold, V!TailOf
<1> QED
  BY Zenon, <1>1, <1>2, <1>4 DEF LessonInv

LEMMA OtherLessonsKeep ==
  ASSUME LessonInv, V!LoadGood \/ V!NextLesson \/ UNCHANGED V!vars
  PROVE  LessonInv'
<1>1. CASE V!LoadGood
  <2>1. /\ UNCHANGED <<lesson, logbuf, tail, written>> /\ lessonPc = "good" /\ lessonPc' = "told"
        /\ err' = ~V!Accepts(lesson, TRUE) \/ broken'
    BY Zenon, <1>1 DEF V!LoadGood
  <2>2. lesson \in 1..3 /\ lesson \in 1..4 /\ lessonPc' \in {"bad", "tail", "good", "told"}
        /\ lessonPc' # "tail" /\ lessonPc' # "good"
    BY Zenon, <2>1 DEF LessonInv
  <2>3. ~err' \/ broken'
    BY Zenon, <2>1, <2>2, Verdicts
  <2>4. LessonsTold'
    BY Zenon, <2>2, <2>3 DEF LessonsTold, V!LessonTold
  <2> QED
    BY Zenon, <2>1, <2>2, <2>4 DEF LessonInv
<1>2. CASE V!NextLesson
  <2>1. UNCHANGED <<logbuf, err, tail, written, broken>> /\ lessonPc = "told" /\ lessonPc' = "bad" /\ lesson' = lesson + 1
    BY Zenon, <1>2 DEF V!NextLesson
  <2>2. lesson \in 1..3
    BY Zenon, <2>1 DEF LessonInv
  <2>3. lesson' \in 1..4 /\ lessonPc' \in {"bad", "tail", "good", "told"}
        /\ lessonPc' # "tail" /\ lessonPc' # "good" /\ lessonPc' # "told"
    BY <2>1, <2>2
  <2>4. LessonsTold'
    BY Zenon, <2>3 DEF LessonsTold, V!LessonTold
  <2> QED
    BY Zenon, <2>1, <2>3, <2>4 DEF LessonInv
<1>3. CASE UNCHANGED V!vars
  <2>1. UNCHANGED <<lesson, lessonPc, logbuf, err, tail, written, broken>>
    BY Zenon, <1>3 DEF V!vars
  <2> QED
    BY Zenon, <2>1 DEF LessonInv, LessonsTold, V!LessonTold
<1> QED
  BY Zenon, <1>1, <1>2, <1>3

\* Whatever the logs of the verifier are and however long print_log_tail()'s ring is,
\* each lesson of 14-verifier is told as it is announced, and below a rejection stands
\* the end of the log of that very load.
THEOREM LessonsAreTold == V!Spec => []LessonsTold
<1>1. V!Init => LessonInv
  <2> SUFFICES ASSUME V!Init PROVE LessonInv
    BY Zenon
  <2>1. lesson \in 1..4 /\ lessonPc = "bad" /\ logbuf = <<>> /\ written = <<>>
    BY DEF V!Init
  <2>2. lessonPc \in {"bad", "tail", "good", "told"} /\ lessonPc # "tail" /\ lessonPc # "good" /\ lessonPc # "told"
    BY Zenon, <2>1
  <2> QED
    BY Zenon, <2>1, <2>2 DEF LessonInv, LessonsTold, V!LessonTold
<1>2. LessonInv /\ [V!Next]_(V!vars) => LessonInv'
  BY Zenon, LoadBadKeeps, PrintTailKeeps, OtherLessonsKeep DEF V!Next
<1>3. LessonInv => LessonsTold
  BY Zenon DEF LessonInv
<1> QED
  BY <1>1, <1>2, <1>3, PTL DEF V!Spec
=============================================================================
