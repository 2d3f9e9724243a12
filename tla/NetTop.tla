------------------------------- MODULE NetTop -------------------------------
(***************************************************************************)
(* nettop: the kernel side of NetTopKernel composed with the poller of     *)
(* 27-nettop/nettop.c, which attaches the kprobes one by one, walks        *)
(* proc_stats_map once per interval, differentiates each row against the   *)
(* previous sample and reaps the rows of processes that have gone.         *)
(* Every system call of the walk is a step: the kernel side runs between.  *)
(***************************************************************************)
EXTENDS NetTopKernel

CONSTANTS
  Attachable,     \* kernel functions this kernel lets us attach a kprobe to
  Hidden,         \* pids that live in a PID namespace our /proc does not show
  ReapIdle,       \* REAP_IDLE_NS, in ticks of the clock
  MaxRows,        \* MAX_ROWS, the size of prev[] and of rows[]
  ReuseInPass,    \* may a pid be given away again in the pass that reaps it?
  MaxTime         \* bound: ticks of the clock

ASSUME PollerAssumption ==
  /\ Attachable \subseteq Hooks /\ Hidden \subseteq Pids
  /\ ReapIdle \in Nat /\ MaxRows \in Nat /\ MaxTime \in Nat
  /\ ReuseInPass \in BOOLEAN

VARIABLES
  phase,     \* what the poller does next
  priming,   \* the pass only sets baselines
  key, val,  \* of the row being visited
  now,       \* mono_ns() when the pass began
  prev,      \* the previous sample
  rows,      \* the lines of this pass; once it is over, the frame printed
  reaped,    \* ghost: bytes of each pid that were in rows when they were reaped
  told,      \* ghost: baseline plus all deltas listed, per entry of prev
  due,       \* ghost: keys present when the pass began and not reaped since
  visited,   \* ghost: keys looked up in this pass
  buried,    \* ghost: keys reaped in this pass
  cut        \* ghost: pids whose listed rates no longer add up (see Cuts, Reap)

cursor   == <<key, val, now>>
ghosts   == <<reaped, told, due, visited, buried, cut>>
pollVars == <<phase, priming, cursor, prev, rows, ghosts>>
vars     == <<kernelVars, pollVars>>

\* The kprobes in the order attach_all() tries them.
HookOrder == <<"tcp_sendmsg", "tcp_cleanup_rbuf", "udp_sendmsg", "udpv6_sendmsg",
               "skb_consume_udp", "tcp_retransmit_skb", "tcp_close">>

Walking == {"next", "look", "judge", "delete"}
Entry   == [in : BOOLEAN, seen : BOOLEAN, bytes : [Dirs -> Nat], retrans : Nat]
Absent  == [in |-> FALSE, seen |-> FALSE, bytes |-> Zero, retrans |-> 0]
Line    == [pid : Tasks, comm : Nat, delta : [Dirs -> Nat], retrans : Nat]

TypeOK ==
  /\ KernelTypeOK /\ \A c \in Cpus : NotNull(c)
  /\ phase \in {"attach", "sleep", "exited"} \cup Walking /\ priming \in BOOLEAN
  /\ key \in Tasks /\ val \in Row /\ now \in Nat
  /\ prev \in [Tasks -> Entry] /\ rows \in Seq(Line)
  /\ reaped \in [Tasks -> [Dirs -> Nat]] /\ told \in [Tasks -> [Dirs -> Nat]]
  /\ due \subseteq Tasks /\ visited \subseteq Tasks /\ buried \subseteq Tasks /\ cut \subseteq Tasks

\* The machine has been up for longer than a row may be idle.
Init ==
  /\ KernelInit /\ clock = ReapIdle + 1
  /\ phase = "attach" /\ priming = TRUE
  /\ key = 0 /\ val = NewRow(0) /\ now = 0
  /\ prev = [p \in Tasks |-> Absent] /\ rows = <<>>
  /\ reaped = [p \in Tasks |-> Zero] /\ told = [p \in Tasks |-> Zero]
  /\ due = {} /\ visited = {} /\ buried = {} /\ cut = {}

Plus(f, g) == [d \in Dirs |-> f[d] + g[d]]

Keys == {k \in Tasks : elem[k] # None}
IsLeast(k, S) == k \in S /\ \A x \in S : k <= x

-----------------------------------------------------------------------------
(* Start-up: attach_all(), then the priming pass of main().                *)

\* Hooks still to be tried; one that cannot be attached is passed over.
Pending == {i \in 1 .. 7 : HookOrder[i] \in Attachable \ hooks}

AttachNext ==
  /\ phase = "attach"
  /\ \E i \in Pending : IsLeast(i, Pending) /\ hooks' = hooks \cup {HookOrder[i]}
  /\ UNCHANGED <<alive, comm, clock, sock, elem, stats, ownerVars, pc, reg, calls, added, pollVars>>

\* MUTANT of SampleBegin: the rows of the last pass are not dropped.
SampleKeepsRows(prime) ==
  /\ priming' = prime /\ now' = clock /\ key' = 0 /\ rows' = rows
  /\ prev' = [p \in Tasks |-> [prev[p] EXCEPT !.seen = FALSE]]
  /\ phase' = "next"
  /\ due' = Keys
  /\ UNCHANGED <<kernelVars, val, reaped, told, visited, buried, cut>>

\* The head of sample(): the clock is read, the seen marks are cleared and the
\* walk starts at key 0.
SampleBegin(prime) ==
  /\ priming' = prime /\ now' = clock /\ key' = 0 /\ rows' = <<>>
  /\ prev' = [p \in Tasks |-> [prev[p] EXCEPT !.seen = FALSE]]
  /\ phase' = "next"
  /\ due' = Keys
  /\ UNCHANGED <<kernelVars, val, reaped, told, visited, buried, cut>>

Prime  == phase = "attach" /\ Pending = {} /\ hooks # {} /\ SampleBegin(TRUE)
Sample == phase = "sleep" /\ SampleBegin(FALSE)

\* No kprobe could be attached, or Ctrl-C, or the -c count is reached: the
\* skeleton is destroyed and with it every kprobe.
Quit ==
  /\ (phase = "attach" /\ Pending = {} /\ hooks = {}) \/ phase = "sleep"
  /\ phase' = "exited" /\ hooks' = {}
  /\ UNCHANGED <<alive, comm, clock, sock, elem, stats, ownerVars, pc, reg, calls, added,
                 priming, cursor, prev, rows, ghosts>>

-----------------------------------------------------------------------------
(* The walk of sample().                                                   *)

\* bpf_map_get_next_key: the key after this one in the order of the table, or
\* the first key when this one is not in the map.
NextKeys == IF key \in Keys THEN {k \in Keys : k > key} ELSE Keys

NextKey ==
  /\ phase = "next"
  /\ \E k \in NextKeys : IsLeast(k, NextKeys) /\ key' = k
  /\ phase' = "look"
  /\ UNCHANGED <<kernelVars, priming, val, now, prev, rows, ghosts>>

LookUp ==
  /\ phase = "look"
  /\ IF elem[key] = None
     THEN phase' = "next" /\ UNCHANGED val
     ELSE phase' = "judge" /\ val' = stats[elem[key]]
  /\ visited' = visited \cup {key}
  /\ UNCHANGED <<kernelVars, priming, key, now, prev, rows, reaped, told, due, buried, cut>>

\* Mutant: a process that is gone still counts as alive.
PidAliveAlways(p) == p \notin Hidden

\* pid_alive() together with the idle time decide whether the row is reaped.
PidAlive(p) == alive[p] /\ p \notin Hidden
Idle(v)     == now > v.last_ns /\ now - v.last_ns > ReapIdle
Reapable    == ~PidAlive(key) /\ Idle(val)

Condemn ==
  /\ phase = "judge" /\ Reapable
  /\ phase' = "delete"
  /\ UNCHANGED <<kernelVars, priming, cursor, prev, rows, ghosts>>

\* bpf_map_delete_elem.  What a free element holds is never read, so the model
\* forgets it.  A row that this pass has seen before leaves its totals in prev[],
\* where the next process of that pid would be compared with them.
Reap ==
  /\ phase = "delete"
  /\ IF elem[key] = None
     THEN UNCHANGED <<elem, stats, reaped>>
     ELSE /\ elem' = [elem EXCEPT ![key] = None]
          /\ stats' = [stats EXCEPT ![elem[key]] = NewRow(0)]
          /\ reaped' = [reaped EXCEPT ![key] = Plus(@, stats[elem[key]].bytes)]
  /\ phase' = "next"
  /\ due' = due \ {key} /\ buried' = buried \cup {key}
  /\ cut' = IF prev[key].seen THEN cut \cup {key} ELSE cut
  /\ UNCHANGED <<envVars, ownerVars, pc, reg, calls, added, priming, cursor, prev, rows,
                 visited, told>>

\* A row that stays: a pid that does not fit into prev[] is passed over, the
\* priming pass records a baseline, any other row is differentiated.
\* (Mutants: the old totals are kept; a full prev[] ends the walk.)
TotalsStale == [prev[key] EXCEPT !.in = TRUE, !.seen = TRUE]
Known    == prev[key].in
PrevFull == Cardinality({p \in Tasks : prev[p].in}) >= MaxRows
Totals   == [in |-> TRUE, seen |-> TRUE, bytes |-> val.bytes, retrans |-> val.retrans]

Continue == phase' = "next" /\ UNCHANGED key

PassOver ==
  /\ phase = "judge" /\ ~Reapable /\ ~Known /\ PrevFull
  /\ Continue
  /\ UNCHANGED <<kernelVars, priming, val, now, prev, rows, ghosts>>

Baseline ==
  /\ phase = "judge" /\ ~Reapable /\ ~Known /\ ~PrevFull /\ priming
  /\ prev' = [prev EXCEPT ![key] = Totals]
  /\ told' = [told EXCEPT ![key] = val.bytes]
  /\ phase' = "next"
  /\ UNCHANGED <<kernelVars, priming, cursor, rows, reaped, due, visited, buried, cut>>

\* A total that went down counts as no traffic.
Minus(a, b) == IF a >= b THEN a - b ELSE 0
Delta  == [d \in Dirs |-> Minus(val.bytes[d], prev[key].bytes[d])]
Resent == Minus(val.retrans, prev[key].retrans)
Listed == (Delta # Zero \/ Resent # 0) /\ Len(rows) < MaxRows

\* A reap restarts the walk, and the second lines it gives have filled rows[]: the
\* traffic of this one is not listed.
Cuts == Delta # Zero /\ Len(rows) >= MaxRows /\ buried # {}

Diff ==
  /\ phase = "judge" /\ ~Reapable /\ (Known \/ (~PrevFull /\ ~priming))
  /\ prev' = [prev EXCEPT ![key] = Totals]
  /\ rows' = IF Listed
             THEN Append(rows, [pid |-> key, comm |-> val.comm, delta |-> Delta,
                                retrans |-> Resent])
             ELSE rows
  /\ told' = [told EXCEPT ![key] = IF Listed THEN Plus(@, Delta) ELSE @]
  /\ cut' = IF Cuts THEN cut \cup {key} ELSE cut
  /\ phase' = "next"
  /\ UNCHANGED <<kernelVars, priming, cursor, reaped, due, visited, buried>>

\* The tail of sample(): the lines are sorted by by_traffic and the entries not
\* seen are dropped; the locals of sample() are forgotten.  main() prints the
\* lines unless this was the priming pass.
Rate(l) == l.delta["tx"] + l.delta["rx"]
ByTraffic(x, y) == Rate(x) > Rate(y) \/ (Rate(x) = Rate(y) /\ x.pid <= y.pid)
Orders(n) == {f \in [1 .. n -> 1 .. n] : \A i, j \in 1 .. n : f[i] = f[j] => i = j}

Finish ==
  /\ phase = "next" /\ NextKeys = {}
  /\ prev' = [p \in Tasks |-> IF prev[p].seen THEN prev[p] ELSE Absent]
  /\ \E f \in Orders(Len(rows)) :
       /\ \A i, j \in DOMAIN f : i < j => ByTraffic(rows[f[i]], rows[f[j]])
       /\ rows' = IF priming THEN <<>> ELSE [i \in DOMAIN rows |-> rows[f[i]]]
  /\ told' = [p \in Tasks |-> IF prev[p].seen THEN told[p] ELSE Zero]
  /\ phase' = "sleep" /\ key' = 0 /\ val' = NewRow(0) /\ now' = 0
  /\ due' = {} /\ visited' = {} /\ buried' = {} /\ cut' = {p \in cut : prev[p].seen}
  /\ UNCHANGED <<kernelVars, priming, reaped>>

-----------------------------------------------------------------------------
Tick == /\ clock < MaxTime /\ clock' = clock + 1
        /\ UNCHANGED <<alive, comm, sock, hooks, elem, stats, ownerVars, pc, reg, calls,
                       added, pollVars>>

\* The pid allocator cycles through the whole pid space, so a pid is not given
\* away again during the pass that reaps its row, unless ReuseInPass says so.
Spawn(p) ==
  /\ ReuseInPass \/ (p \notin buried /\ ~(phase = "delete" /\ p = key))
  /\ ProcSpawn(p) /\ UNCHANGED pollVars

PollStep == \/ NextKey \/ LookUp \/ Condemn \/ Reap
            \/ PassOver \/ Baseline \/ Diff \/ Finish

Next == \/ KernelStep /\ UNCHANGED pollVars
        \/ \E p \in Pids : Spawn(p)
        \/ AttachNext \/ Prime \/ Sample \/ Quit \/ PollStep
        \/ Tick

Spec == Init /\ [][Next]_vars

\* The poller is a loop that only sleeps; the clock runs.
FairSpec == Spec /\ WF_vars(AttachNext \/ Prime \/ PollStep) /\ WF_vars(Sample) /\ WF_vars(Tick)

-----------------------------------------------------------------------------
(* Properties.                                                             *)

\* No byte is lost between account() and the row: whatever the calls of a
\* process have added is in that process's row or was in it when the row was
\* reaped.  Fails when two CPUs race to create a row and one resets it, or when
\* an add goes through a pointer to an element that has changed hands.
InRow(p, d) == IF elem[p] = None THEN 0 ELSE stats[elem[p]].bytes[d]
BytesConserved == \A p \in Tasks, d \in Dirs : added[p][d] = InRow(p, d) + reaped[p][d]

\* The race on a row, the recycling of elements and the reaper cannot be seen from
\* outside: the bytes of a call are added once and whole, to the row of the process that
\* made it and while that process is there, unless no row is free; a row is closed with
\* all that is in it, and only after its process has gone (account() and sample()
\* implement ProcMeter).
Uncounted(c) ==
  IF pc[c] \in Accounting \ {"stamp"}
  THEN {[proc |-> reg[c].pid, dir |-> reg[c].dir, size |-> reg[c].size]} ELSE {}
Meter == INSTANCE ProcMeter WITH
  Lanes <- Cpus,
  Procs <- Tasks,
  here  <- alive,
  call  <- [c \in Cpus |-> Uncounted(c)],
  live  <- [p \in Tasks |-> [d \in Dirs |-> InRow(p, d)]],
  gone  <- reaped
MeterKept == Meter!Spec

\* A pass of sample() is complete although rows come and go meanwhile and every
\* reap restarts the walk: a row that was there when the pass began and has not
\* been reaped has been looked at when the walk finds no further key.
CompletePass == phase = "next" /\ NextKeys = {} => due \subseteq visited

\* sock_owner names the process that last used the socket which is now at that
\* address, except for an entry whose socket died without handle_tcp_close: the
\* deletes keep up with the reuse of addresses and of LRU slots.
OwnerFresh(a) ==
  owner[a] # None => sock[a].st = "open" /\ slotPid[owner[a]] = sock[a].user
OwnerIsUser == \A a \in Socks \ leaked : OwnerFresh(a)

\* Rates add up: for every process in the previous-sample table, the baseline
\* and all the deltas listed since are the total the poller last read, so an
\* interval's traffic is listed once, neither twice nor never.  Only the reaper gets
\* in the way, when it restarts the walk: rows[] may then be full, and a row may be
\* reaped that the pass has seen.
RatesAddUp == \A p \in Tasks \ cut : prev[p].in => prev[p].bytes = told[p]

\* The header line counts processes: in a pass that has reaped no row, no process
\* has two lines, although rows are inserted and grow while the walk is under way.
\* (A reap restarts the walk, and a row that grew meanwhile is listed again.)
OneLinePerProcess ==
  phase = "next" /\ buried = {} =>
    \A i, j \in DOMAIN rows : rows[i].pid = rows[j].pid => i = j

\* The reaper does its work: the row of a process that is gone for good is
\* deleted in the end, so that exited processes cannot fill the map.  (The clock
\* of the model stops at MaxTime; a row stamped too late for it is left out.)
TooLate(p) == elem[p] # None /\ stats[elem[p]].last_ns + ReapIdle >= MaxTime
DeadRowsReaped ==
  \A p \in Pids :
    <>[](~alive[p] /\ phase # "exited" /\ ~TooLate(p)) => <>[](elem[p] = None)
=============================================================================
