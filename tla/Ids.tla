--------------------------------- MODULE Ids ---------------------------------
(***************************************************************************)
(* 23-ids, user space: the flow table, the source table and the three      *)
(* detection rules that handle_event() runs on every record.  Slot order   *)
(* in the tables is immaterial: a table is a function, absent entries are  *)
(* None.  Times are whole units, and the comparison of the coefficient of  *)
(* variation with BEACON_CV_MAX = 1/10 is done in exact integers.          *)
(***************************************************************************)
EXTENDS IdsTap, FiniteSetsExt

CONSTANTS
  Src(_), Port(_),       \* source address and destination port of a flow key
  Suspicious,            \* suspicious[]
  MAX_FLOWS, MAX_GAPS, BEACON_MIN_SAMPLES, BEACON_MIN_INTERVAL, BEACON_MAX_INTERVAL,
  MAX_SCAN_SRC, MAX_SCAN_PORTS, SCAN_WINDOW, SCAN_PORT_THRESH, SCAN_COOLDOWN,
  TsMod                  \* modulus of the time stamps' type (2^64 in the code)

ASSUME IdsAssumption ==
  /\ TsMod \in Nat /\ TsMod > MaxTime + SCAN_WINDOW + SCAN_COOLDOWN /\ MAX_GAPS \in Nat \ {0}
  /\ SCAN_WINDOW \in Nat \ {0} /\ SCAN_COOLDOWN \in Nat
  /\ MAX_FLOWS \in Nat /\ MAX_SCAN_SRC \in Nat /\ MAX_SCAN_PORTS \in Nat /\ SCAN_PORT_THRESH \in Nat
  /\ IsFiniteSet(Keys)

VARIABLES
  flows,   \* key -> struct flow
  scans,   \* source -> struct scan_src
  arr,     \* ghost: key -> time stamps of the records handled, in order
  lastTs,  \* ghost: time stamp of the last record handled
  ordered, \* ghost: have all records come in time order so far?
  turned   \* ghost: sources of which a full seen[] has turned a port away

userVars == <<flows, scans, arr, lastTs, ordered, turned>>
vars == <<tapVars, userVars>>

Srcs  == {Src(k) : k \in Keys}
Ports == {Port(k) : k \in Keys}

\* struct flow and struct scan_src; a port not in seen[] has time 0.
Flow == [last_ts : Nat, gaps : [0..MAX_GAPS - 1 -> Nat], ngaps : Nat,
         beacon_alerted : BOOLEAN, susp_alerted : BOOLEAN]
Scan == [seen : [Ports -> Nat], last_alert_ts : Nat]
ASSUME NoEntryAssumption == None \notin Flow \cup Scan

TypeOK ==
  /\ TapTypeOK
  /\ flows \in [Keys -> Flow \cup {None}] /\ scans \in [Srcs -> Scan \cup {None}]
  /\ Cardinality({k \in Keys : flows[k] # None}) <= MAX_FLOWS
  /\ Cardinality({s \in Srcs : scans[s] # None}) <= MAX_SCAN_SRC
  /\ \A s \in Srcs : scans[s] # None =>
       Cardinality({q \in Ports : scans[s].seen[q] # 0}) <= MAX_SCAN_PORTS

\* main() has come to its loop; what it does before is in IdsTap.
Init ==
  /\ pc = "poll" /\ lo = TRUE /\ quiet = TRUE /\ now = 1 /\ pkts = 0 /\ ring = <<>>
  /\ taken = 0 /\ foreign = FALSE
  /\ flows = [k \in Keys |-> None] /\ scans = [s \in Srcs |-> None] /\ arr = [k \in Keys |-> <<>>]
  /\ lastTs = 0 /\ ordered = TRUE /\ turned = {}

\* Subtraction of __u64.
Minus(a, b) == IF a >= b THEN a - b ELSE TsMod - (b - a)

NewFlow == [last_ts |-> 0, gaps |-> [i \in 0..MAX_GAPS - 1 |-> 0], ngaps |-> 0,
            beacon_alerted |-> FALSE, susp_alerted |-> FALSE]
\* flow_get(): the flow of the key, a new one, or NULL when the table is full.
flow_get(k) ==
  IF flows[k] # None THEN flows[k]
  ELSE IF Cardinality({j \in Keys : flows[j] # None}) < MAX_FLOWS THEN NewFlow ELSE None

\* A loop of rule_beacon() over the first n gaps.
Total(g, n) == LET s[i \in Nat] == IF i = 0 THEN 0 ELSE s[i - 1] + g[i - 1] IN s[n]
\* Its verdict on them: mean in range, variance at most (mean / 10)^2, all scaled by n.
Regular(g, n) ==
  LET sum == Total(g, n)
      sq  == Total([i \in 0..n - 1 |-> g[i] * g[i]], n) IN
    /\ n >= BEACON_MIN_SAMPLES
    /\ sum >= n * BEACON_MIN_INTERVAL /\ sum <= n * BEACON_MAX_INTERVAL
    /\ sum > 0 /\ 100 * (n * sq - sum * sum) <= sum * sum

\* The slot the next gap goes to.  (Mutant: the buffer does not wrap around.)
SlotLast(f) == IF f.ngaps < MAX_GAPS THEN f.ngaps ELSE MAX_GAPS - 1
Slot(f) == f.ngaps % MAX_GAPS

Recorded(f, ts) ==
  IF f.last_ts = 0 THEN [f EXCEPT !.last_ts = ts]
  ELSE [f EXCEPT !.gaps[Slot(f)] = Minus(ts, f.last_ts), !.ngaps = @ + 1, !.last_ts = ts]

rule_beacon(f, ts) ==
  LET r == Recorded(f, ts)
      n == IF r.ngaps < MAX_GAPS THEN r.ngaps ELSE MAX_GAPS IN
    [r EXCEPT !.beacon_alerted = @ \/ (n >= 1 /\ Regular(r.gaps, n))]

rule_suspicious_port(f, k) ==
  [f EXCEPT !.susp_alerted = @ \/ Port(k) \in Suspicious]

\* rule_portscan(): find or take the entry of the source; a full table returns.
ScanEntry(s) ==
  IF scans[s] # None THEN scans[s]
  ELSE IF Cardinality({x \in Srcs : scans[x] # None}) < MAX_SCAN_SRC
       THEN [seen |-> [q \in Ports |-> 0], last_alert_ts |-> 0] ELSE None

Count(seen) == Cardinality({q \in Ports : seen[q] # 0})
\* Entries older than the window go.  (Mutant: a window of one unit more.)
FreshWide(seen, ts) ==
  [q \in Ports |-> IF seen[q] # 0 /\ Minus(ts, seen[q]) <= SCAN_WINDOW THEN seen[q] ELSE 0]
Fresh(seen, ts) ==
  [q \in Ports |-> IF seen[q] # 0 /\ Minus(ts, seen[q]) < SCAN_WINDOW THEN seen[q] ELSE 0]
\* The port is recorded, or its time refreshed.
Touch(seen, q, ts) ==
  IF seen[q] # 0 \/ Count(seen) < MAX_SCAN_PORTS THEN [seen EXCEPT ![q] = ts] ELSE seen

\* (Mutant: no cooldown.)
CooledAlways(last, ts) == TRUE
\* (Mutant: a source is reported once.)
CooledNever(last, ts) == last = 0
Cooled(last, ts) == last = 0 \/ Minus(ts, last) > SCAN_COOLDOWN

rule_portscan(e, q, ts) ==
  LET seen == Touch(Fresh(e.seen, ts), q, ts) IN
    [seen |-> seen,
     last_alert_ts |-> IF Count(seen) > SCAN_PORT_THRESH /\ Cooled(e.last_alert_ts, ts)
                       THEN ts ELSE e.last_alert_ts]

\* The rules judge the record ring_buffer__poll() hands over.
handle_event ==
  /\ Take
  /\ LET p == Head(ring)
         f == flow_get(p.key)
         e == ScanEntry(Src(p.key)) IN
       /\ flows' = [flows EXCEPT ![p.key] =
            IF f = None THEN None ELSE rule_suspicious_port(rule_beacon(f, p.ts), p.key)]
       /\ scans' = [scans EXCEPT ![Src(p.key)] =
            IF e = None THEN None ELSE rule_portscan(e, Port(p.key), p.ts)]
       /\ arr' = [arr EXCEPT ![p.key] = Append(@, p.ts)]
       /\ lastTs' = p.ts /\ ordered' = (ordered /\ p.ts >= lastTs)
       /\ turned' = turned \cup {s \in {Src(p.key)} :
                                  e # None /\ scans'[s].seen[Port(p.key)] # p.ts}

Next == handle_event \/ (TapStep /\ UNCHANGED userVars)
Spec == Init /\ [][Next]_vars

-----------------------------------------------------------------------------
\* The gaps between the time stamps i..j of a sequence, from index 0.
GapsOf(s, i, j) == [n \in 0..j - i - 1 |-> s[i + n + 1] - s[i + n]]

\* The last MAX_GAPS gaps before time stamp j begin at From(j).
From(j) == IF j > MAX_GAPS THEN j - MAX_GAPS ELSE 1
RegularAt(s, j) == j > From(j) /\ Regular(GapsOf(s, From(j), j), j - From(j))

\* The beacon rule decides on the last MAX_GAPS gaps: a flow is flagged exactly
\* when these were regular after some packet of it.
BeaconExact ==
  ordered => \A k \in Keys : flows[k] # None =>
    (flows[k].beacon_alerted <=> \E j \in DOMAIN arr[k] : RegularAt(arr[k], j))

\* The time stamps of a source's records, the last one, and the ports it has touched
\* within the window ending there.
Arrivals(s) == UNION {{arr[k][i] : i \in DOMAIN arr[k]} : k \in {x \in Keys : Src(x) = s}}
LastOf(s) == Max(Arrivals(s))
Touched(s) == {Port(k) : k \in {x \in Keys : Src(x) = s /\ \E i \in DOMAIN arr[x] :
                     LastOf(s) - arr[x][i] < SCAN_WINDOW}}

\* When a source has touched more than SCAN_PORT_THRESH ports within the window
\* ending at its last packet, it has been reported within the cooldown, as long as
\* seen[] has had room for its ports.
ScanReported ==
  ordered => \A s \in Srcs \ turned :
    scans[s] # None /\ Cardinality(Touched(s)) > SCAN_PORT_THRESH =>
      scans[s].last_alert_ts # 0 /\ LastOf(s) <= scans[s].last_alert_ts + SCAN_COOLDOWN

\* The step reports source s.
Alert(s) ==
  /\ scans'[s] # None /\ scans'[s].last_alert_ts # 0
  /\ scans[s] = None \/ scans'[s].last_alert_ts # scans[s].last_alert_ts

\* A source is reported only for a scan: at an alert it had touched more than
\* SCAN_PORT_THRESH ports within the window.
ScanIsReal ==
  [][ordered' => \A s \in Srcs : Alert(s) => Cardinality(Touched(s)') > SCAN_PORT_THRESH]_vars

\* The same source is reported at most once per cooldown, when records come in
\* time order.
Apart(s) == scans[s] # None /\ scans[s].last_alert_ts # 0 =>
              scans'[s].last_alert_ts > scans[s].last_alert_ts + SCAN_COOLDOWN
AlertsApart == [][ordered' => \A s \in Srcs : Alert(s) => Apart(s)]_vars

\* The same source is reported at most once per cooldown, in whatever order two
\* CPUs leave the records.
AlertsAlwaysApart == [][\A s \in Srcs : Alert(s) => Apart(s)]_vars
=============================================================================
