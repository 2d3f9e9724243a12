# A verification of ebpf101

The repository is a course in 27 chapters. Each chapter is a small tool: an eBPF
program that runs in the kernel on some hook, and a loader that attaches it and
prints what it collects. What is hard in them is what happens between the two
halves: handlers run on all CPUs at once, maps recycle their elements, rings fill
up, programs are attached one after the other in the middle of what they observe,
addresses and pids are reused, and some state outlives the process that made it.

This directory models the tools that keep state, checks them with TLC on small
instances and proves with TLAPS every safety property that the passing runs check, for
every value of the constants that meets the assumptions named below; what only TLC shows is
liveness.
`PROJECT.json` lists the components, the runs, the lines each definition
stands for, the hazards and the mutants that show each property can fail.

## Inventory

| part | state | operations | what is hard |
|---|---|---|---|
| 27 nettop | proc_stats_map, sock_owner, prev[], rows[] | seven kprobes, account(), attach_all(), sample(), main() | races on a row, pointers into recycled elements, a walk over a map that changes, reaping, reused pids and sockets |
| 12 tcpstates, 13 tcplife | timestamps; births, idents; rings | handle_set_state(), handle_event() | start in mid-connection, softirq context, LRU eviction, full ring, reused addresses |
| 10 opensnoop, 11 netsnoop | stash, ring | trace_enter(), trace_exit(), handle_event() | two programs paired by pid, threads, killed calls, one half attached first |
| 23 ids | ring; flow table, source table | main() from socket() to close(), ids_tap(), handle_event(), three rules | a socket not yet bound, time order over CPUs, unsigned differences, circular buffer, full tables |
| 03 exec_stream, 04 execsnoop; 05, 06, 08 execsnoop with arguments | rings, dict or slot table | the program, argument by argument; handle_event() | rings of several CPUs, dropped end marker, colliding slots |
| 16 opencount, 17 xdpcount, 18 tcstat, 21 xdpfw | pins, XDP hook, clsact qdisc, rules, counters | main() step by step, xdp_count(), xdp_fw(), account() | state that outlives the process, error paths, signals, crashes, two tools on one interface, two instances of one tool |
| 02, 16, 24 counters | a hash map of counts | lookup, read, then insert, add or write back | lost updates, pointers into recycled elements, race for the first insert, full map |
| 19 tailcall | jmp_table, counts | wiring, dispatch(), handlers, cleanup | order of wiring, attaching and tearing down |
| 07 execsnoop, 09 opensnoop, 15 bashreadline, 20 execguard, 26 keyring_snoop | a ring, attached programs, stop | one program per hook, main() step by step, handle_event() | a ring read in the order of its places, discarded places, signals around the wait, verdicts when the ring is full, partial attach |
| 22 taskdump | the walk of an iterator, seq_num, exit status | main(), dump_task(), read() by read() | tasks that come and go between reads, an error half way |
| 14 verifier | one log buffer for all loads | load_only(), print_log_tail(), main() | a stale log, a ring of lines that wraps |
| 01 hello | none | one line per event | nothing is kept between events |
| 25 lab, ids and execguard scripts | none | shell | not a state machine |

The chapters are separate programs. They meet only where they share something of
the kernel's: tcpstates and tcplife hook the same function, and xdpcount, xdpfw
and tcstat may share an interface. Those meetings are modelled by composition.

## Modules

| module | models | extends |
|---|---|---|
| NetTopKernel | nettop.bpf.c: handlers, both maps with their elements | |
| NetTop | nettop.c composed with it: attach_all(), sample() system call by system call, main() | NetTopKernel |
| NetTopProofs | theorems about NetTop: types, the walk, owners, bytes, the meter, the lines printed | NetTop |
| ProcMeter | what nettop promises of its totals: an abstract meter per process | instantiated by NetTop |
| NetTopMain | main() of nettop.c: options, start-up, the frame loop, signals, print_sample() | |
| TcpSock | TCP sockets of the kernel: transitions, context, reuse of addresses (external) | |
| TcpStates, TcpLife | the handlers and loaders of chapters 12 and 13 | TcpSock |
| TcpTools | both tools on one machine | TcpStates, TcpLife |
| TcpToolsProofs | theorems about TcpTools | TcpTools |
| EntryExit | chapters 10 and 11; one of them runs in a behaviour | |
| EntryExitProofs | theorems about EntryExit | EntryExit |
| IdsTap, Ids | main() and the tap of chapter 23; its tables and rules composed with them | Ids extends IdsTap |
| IdsProofs | theorems about Ids | Ids |
| ExecArgs | chapters 03, 04, 05, 06 and 08; one of them runs in a behaviour | |
| ExecArgsProofs | theorems about ExecArgs | ExecArgs |
| NetTools | the loaders and packet programs of chapters 16, 17, 18 and 21 | |
| NetToolsProofs | theorems about NetTools and about Verifier | NetTools, Lessons |
| HashCounters | the counters of chapters 02, 16 and 24 | |
| TailCall | chapter 19 | |
| TaskDump | chapter 22 | |
| Verifier | chapter 14 | |
| Lessons | Verifier's variables under names of their own, to stand beside other modules | instantiates Verifier |
| RingTools | chapters 07, 09, 15, 20 and 26; one of them runs in a behaviour | |
| ReportLog | what these tools promise: an abstract log | instantiated by RingTools |
| RingToolsProofs | theorems about RingTools, its implementation of ReportLog included | RingTools |
| SmallToolsProofs | theorems about HashCounters, TailCall, IdsTap, TaskDump and NetTopMain, and that MCSmallTools implements each | MCSmallTools |
| MC... | small instances for TLC | the module of the same name; MCSmallTools extends HashCounters and Lessons and puts HashCounters, TailCall, IdsTap, TaskDump, Verifier and NetTopMain side by side |

Where several chapters are versions of one tool, a variable chosen in `Init`
(`tool`, `chapter`, `atomic`, the session of NetTools) says which one runs, so one
run covers them all and a property can say for which it holds.

### How state and actions correspond to the code

* **Granularity.** A step is one helper call, atomic add or system call wherever
  another CPU or process can come between and be noticed: every map operation of
  `account()`, every system call of `sample()`, lookup and copy of `trace_exit()`,
  reserve and submit of `ids_tap()` and of the programs of RingTools, every argument of an `execve()`. The handlers
  of chapters 12 and 13 are one step, since the kernel holds the socket's lock
  around `tcp_set_state()`; two sockets still interleave.
* **Pointers.** NetTop, EntryExit and HashCounters keep elements apart from keys. A lookup
  returns an element, and it can belong to another key by the time it is used.
* **Maps.** A full HASH refuses a new key, a full LRU_HASH loses any entry,
  BPF_NOEXIST and BPF_ANY are told apart.
* **Rings.** A full ring drops the record, and the handler goes on or returns as
  the code does. `ring_buffer__poll()` hands records over one at a time.
* **Start.** The sockets of TcpTools are in any state when a program is attached;
  calls of EntryExit are under way; attach_all() attaches hook by hook.
* **Environment.** Sockets, processes, the clock and packets are external: their
  actions are marked so in the map and allow more than any one kernel does.
* **Ghosts** (marked as such) record what happened and are read by properties only.
* **Data.** Addresses, names, texts and layouts are left out. Byte counts are small
  numbers, time is in ticks, packets are records of headers. The variance test of
  `rule_beacon()` is done in exact integers; time differences in ids wrap at `TsMod`.

## Runs

Nine runs must pass and three show a disagreement between the code and what it says.

| run | shows | instance |
|---|---|---|
| nettop_accounting | BytesConserved, CompletePass, RatesAddUp, OneLinePerProcess, MeterKept | two CPUs, two pids with reuse, two elements, the tcp_sendmsg hook, two ticks |
| nettop_hooks | TypeOK, BytesConserved, OwnerIsUser, DeadRowsReaped | all seven hooks, a TCP, a UDP and a non-IP socket, one element, one LRU slot, room for one process in prev[], fair |
| tcptools | SpanIsTimeInState, SpanIsLifetime, PidIsCallers, NothingLeft | two sockets in any state, two processes, maps and rings of one entry, time for five state changes |
| entryexit | OwnArgs, NoLeak, NeverSilent | four threads of three processes, a stash of two, a ring of one, four calls |
| ids_rules | BeaconExact, ScanReported, ScanIsReal, AlertsApart | two CPUs, four flows of two sources, four packets, tables smaller than that |
| execargs | LineIsWhole, DrainedIsDone, ArgsInOrder | five versions, two CPUs, three pids of which two share a slot, argv of 0, 1 and 3 with MAXARGS 2 |
| nettools | InForce, NothingSlips, Restored, PacketsAccounted, CtrlCExits | two of xdpcount, xdpfw and tcstat, or two instances of xdpfw, tcstat or opencount, on a clean machine, one with a qdisc, or one with an XDP program and filters of others; three ports asked for, of which one is cut to 16 bits and one is too many; two packets of eleven kinds; crashes; fair |
| small_tools | CountBounded, CountExact, Cumulative, TailCallsTallied, TappedOnce, DumpWhole, LessonsTold, NetTopFrames | one of six parts in each behaviour: three CPUs, three uids, a map of two entries and eight events; four execs; four packets and a ring of three; six thread ids of which two stay; logs of up to five lines; 0, 1 or 3 frames |
| ringtools | VerdictKept, MarkExact, StopExits, LogKept | each of the five tools, two CPUs, a ring of two, three events, fair |
| ids_repeat | violates AlertsAlwaysApart | as ids_rules |
| ids_window | violates TappedChosen | the tap of small_tools |
| nettools_pause | violates PauseExits | opencount alone, fair |

The parts of small_tools share no state; `which`, chosen in `Init`, says whose steps
are taken, and the variables of the others rest.

**Abstract specifications.** NetTop implements ProcMeter (MeterKept): under the
mapping of a meter to the bytes in a process's row, and of a call begun to a handler
inside account(), a call is added once and whole to the meter of the process that made
it, while that process is there, or refused whole for want of a row, and a meter is
closed, with all that is on it, only after its process has gone. RingTools implements ReportLog (LogKept): records are told
once each and in the order in which they took their places, and each is told in the end
unless the tool ends; the mapping hides CPUs, discarded places and the poll loop.

**Faults.** In NetTools a process may crash at any time and the next one finds what it
left: an XDP program on the hook, a qdisc with filters, pins; and it may find the same
of programs that are not of the course. Main programs take every
error path of their calls; rings and maps fill up; TaskDump's read() may fail.

**Bounds.** Every bound is a named constant. They are chosen so that each limit is
met and passed: maps, tables and rings are smaller than what comes in, there is at
least one more CPU, process or socket than a race needs, and time is long
enough for a window to pass. `MaxCalls = 2` in nettop suffices for the race on a
row (two handlers) and for a handler that overlaps a reap. Three uids, two entries and three CPUs are what it takes for a pointer of 02 or 24 to
lead to an element that has become another uid's. What two calls
cannot show is covered by the proofs, which have no bounds on sizes. In nettop_hooks every
call has one byte; empty calls are covered by the theorems, where sizes are any naturals.
The walk of TaskDump holds at least two tasks, as every system does. The logs of Verifier
have as many lines as fill its ring of two more than twice. Symmetry is used only in
runs of invariants and action properties, over sets whose members the module does
not tell apart. TypeOK is in a run where it says
that no NULL pointer is used (nettop); elsewhere it documents the variables. Deadlock is not checked: every tool may stop, and every behaviour
ends at its bounds.

**Fairness.** DeadRowsReaped assumes that the poller's loop goes on and that the
clock runs: `main()` of nettop only sleeps between passes. CtrlCExits and
PauseExits assume that a process that can run does (weak fairness of each
`main()`); sleep() is ended by the signal. StopExits and LogKept assume that `main()`
and the program on each CPU go on, which the kernel guarantees of a BPF program; an
error of `ring_buffer__poll()` need not happen. One call of `ring_buffer__poll()`
reads on while there are records, so events that never pause could keep it from
returning; the bound on events leaves that out. No fairness is assumed of the
environment: nobody need press Ctrl-C or send a packet.

### What the three violations show

* **ids_repeat.** `ids_tap()` takes the place in the ring before the time stamp,
  so records of two CPUs can be out of time order. The cooldown test of
  `rule_portscan()` subtracts unsigned stamps; a record older than the last alert
  wraps and the source is reported again at once, although the comment says
  "re-alert at most this often" (`23-ids/ids.c:62`).
* **ids_window.** The socket is opened for all protocols, which gives it the packets
  of every interface, and `ids_tap()` is attached before `bind()`. Records of another
  interface made in between stay in the ring and are handed to the rules, although the
  comment says "so we only see that interface's traffic" (`23-ids/ids.c:286`).
* **nettools_pause.** `while (!stop) pause();` in `opencount.c` tests, then sleeps.
  A Ctrl-C in between is noted and lost: the program stays attached and pinned
  until the next signal, although it prints "Ctrl-C to detach, unpin, and clean
  up." (`16-bpftool/opencount.c:83`).

### Where a property has a condition

Some properties are stated with a condition because the code does not keep them
without it. Each was met while modelling, and the models still produce it:

* A reap makes the walk of `sample()` start again, and a row that grew meanwhile
  is listed twice in that frame (OneLinePerProcess: no reap in the pass).
* A socket used and closed while `attach_all()` has not reached tcp_close keeps its
  entry in sock_owner (OwnerIsUser: sockets that did not die unseen).
* A live process that /proc does not show (`Hidden`) can have its row reaped while
  a handler holds it, and a pid reused between the look at /proc and the delete
  loses what its new process counted (Conservation's two assumptions). A recycled
  pid otherwise adds to the old row, under the old name.
* tcplife leaves the identity of a connection opened before it was attached, since
  a CLOSE without a birth returns early (PidIsCallers and NothingLeft: `midlife`).
  LAST_ACK is "usually" process context (`13-tcplife/tcplife.bpf.c:89`); where it is not,
  the identity of connect() is overwritten with that of the task it interrupted.
  PidIsCallers therefore speaks of the task on the CPU at LAST_ACK.
  An evicted birth is stamped again and gives too short a lifetime (`lost`).
* Two threads of a process in the same call share a stash entry; a record can even
  carry the arguments of another process whose entry took over the element
  (OwnArgs: `shared`), and the first of them to return takes the entry of the other,
  which then gives no record (NeverSilent: `robbed`). In netsnoop a filtered connect() consumes an
  entry left by an earlier one (OwnArgs: stashed calls), and an address less than 128
  bytes before an unmapped page counts as filtered.
* Records out of time order can hide a scan as well as repeat an alert
  (`ordered`), and a source the full table turned away is not tracked. A source with more
  ports in the window than `seen[]` holds has one turned away and is left out (`turned`).
* Where PACKET_IGNORE_OUTGOING cannot be set, packets on lo are recorded twice, as the
  warning says (TappedOnce: `quiet`).
* Chapters 03 and 04 print whole lines, but lines of two CPUs can change places,
  although chapter 03 calls its stream ordered. In chapter 05 a process that moves between CPUs can have two commands in
  one line (`moved`); in 06 and 08 a full ring leaves arguments for the next
  command (`lost`); in 08 two pids in one slot cut each other's lines (`Alone`).
* A second XDP tool replaces the program of a running xdpcount or xdpfw, which goes on
  saying that it is active, as does a tcstat whose qdisc another one deleted or in front
  of whose filters another has put its own, and an opencount whose pins another removed
  (InForce: `ousted`). An opencount that could not pin says "Loaded & pinned" after its
  warning (`warned`).
* A tool that is killed or crashes leaves its program, filters or pins behind until
  another instance has run to its end (Restored: `orphaned`). What the tools find they do
  not put back: an attach replaces an XDP program of others, and the cleanup of tcstat
  deletes the whole qdisc, also one that was there before, with the filters of others.
* xdpfw drops what it was asked to and nothing else only for frames that xdp_fw() takes
  into account (NothingSlips: `InScope`). IPv6, cut headers and unknown protocols pass;
  behind IP options, which the code assumes away (`21-firewall/xdpfw.bpf.c:50`), it reads
  a port from the wrong place. The loader ignores ports beyond MAX_RULES and cuts larger
  numbers to 16 bits, so that another port is blocked instead.
* The list of taskdump is of tasks met one after the other while others come and go,
  where a comment speaks of "a consistent snapshot" (`22-iterator/taskdump.bpf.c:9`):
  DumpWhole promises the tasks that were there throughout (`Kept`).
* Under a race the counters of chapters 02 and 24 lose counts and may go down. An update
  puts the count into a new element and frees the old one, so a program that looked the
  old one up may read the count of another uid there: a count can be too high as well as
  too low, where the comment speaks of lost counts only. CountBounded limits it to the
  events of all uids. In 16 the loser of the first insert drops its event (CountExact: no
  race).
* keyring_snoop marks a large add_key() at the entry of key_create_or_update(): a call
  that then fails, or that updates a key, is marked as well (MarkExact).
* taskdump does not look at what fwrite() returns: that the status is 0 says that the
  whole list was read, not that it was written out (DumpWhole).

## Proofs

Eight modules prove 38 theorems, for every value of the constants that meets the named
assumptions; the runs evaluate those assumptions. Each module has one or two inductive
invariants, because the property alone does not survive a step: it speaks of what was
reported, and what will be reported depends on maps, elements and programs under way.
Many leaves name the prover (`Zenon`): translating a leaf for SMT is what takes time in
modules of this size, so SMT is left for the leaves that need arithmetic, records or
sequences.

Two proofs need induction over data: over the terms of a sum (ids) and over the lines of a
log (Verifier). The library's induction theorems take an operator as a parameter, which
the provers cannot instantiate, so these proofs use the least element of a set of numbers
instead (`Least`, from NatLessThanWellFounded and WFMin): the least number for which a
claim fails is not 0, the claim holds of the number before, and one step of the loop
carries it over. That a recursive function exists and satisfies its equation is shown in
the same way (`SumsExist`, `ScansExist`: for each length there is a function that does one step of the
loop from each place to the next).

### nettop

NetTopProofs proves seven theorems about NetTop, for every number of CPUs, processes, sockets, map elements, sizes and bounds. They rest on the assumptions named in
NetTopKernel and NetTop (`KernelAssumption`, `PollerAssumption`: pids are positive,
`None` is none of the other values, bounds are naturals), which every run evaluates.

| theorem | property | argument |
|---|---|---|
| Typing | TypeOK | TypeOK is inductive. It includes NotNull: a handler past its NULL test holds an element, so no handler uses a NULL map pointer. KernelTyping and KernelNotNull treat the handlers, the theorem the poller. |
| WalkIsComplete | CompletePass | By itself CompletePass says nothing of the middle of a walk. WalkInv adds that a row that is due is still there, and has been visited if it lies before the cursor; a deleted key sends the cursor back and can only repeat visits. |
| OwnerIsRight | OwnerIsUser | An entry of sock_owner changes with the last user of the socket, and goes when the socket is closed; LRU slots are never shared by two addresses. |
| Conservation | BytesConserved | RowInv: two keys never share an element, a handler that holds a pointer holds that of its own process's row, a process inside account() exists, and a row about to be deleted belongs to one that does not. Assumes `Hidden = {}` and `ReuseInPass = FALSE`. |
| Metering | MeterKept | NetTop implements ProcMeter. One lemma for each thing a step may do to a meter: MeterBegin, MeterLookup (a full map refuses the call), MeterCount, MeterClose, MeterExit, MeterStutter. They need RowInv: a handler holds the row of its own process, which exists until the call has been counted, so the call is counted on its caller's meter; a row about to be deleted is of a process that has gone; and BytesConserved before and after the step ties a row to what was added and reaped. Same assumptions as Conservation. |
| LinesCountProcesses | OneLinePerProcess | LinesInv: until the pass reaps a row the walk only goes up. It stands at a row that is in the map, so a get_next_key() is never answered with the first key again, and the lines so far are of rows below the cursor that prev[] holds. |
| RatesComplete | RatesAddUp | RateInv: prev[] never holds more than MAX_ROWS entries (finite sets, by FiniteSetTheorems), an entry that is not there counts as zero, a reaped row stays away for the rest of the pass, and a row's baseline, the value just read and its bytes are in that order. The ghost `cut` collects the pids whose rates need not add up: those reaped after the pass had already seen them, and those left out of rows[] because a pass that reaped has filled it. Same assumptions as Conservation. |

The two assumptions of Conservation are not idle: without either of them TLC finds
a behaviour that loses bytes.

### The TCP tools

TcpToolsProofs assumes `SockAssumption`: 0 is no process's pid, `None` is no time, pid or
socket.

| theorem | property | argument |
|---|---|---|
| SpansRight | SpanIsTimeInState | StatesInv: a time stamp in the map is the time at which its socket entered the state it is in, a missing one was not seen or was evicted, a closed socket has none, and none lies in the future. An eviction never takes the entry that is being written. |
| LifetimesRight, CallersRight | SpanIsLifetime, PidIsCallers | LifeInv: the same of births and idents. A birth in the map is the first opening transition of the socket now at the address; at an address seen from the start a socket past its opening has one, a closed socket has none, and no identity is without one. An identity is that of the socket's LAST_ACK, or else of its connect() (IdentsRight), and a socket that has not come to LAST_ACK has no closer yet (NoCloserYet). |
| AllDeleted | NothingLeft | From the same two invariants: the deletions at CLOSE do not depend on the ring. |

### Entry and exit

EntryExitProofs assumes `NoneAssumption` (`None` is neither an element nor a call) and
`EntryExitAssumption`.

| theorem | property | argument |
|---|---|---|
| ArgsRight | OwnArgs | StashInv: a process that is not shared has one thread in the call; while it is, its arguments stay in the stash if they were put there, nothing is under its pid if opensnoop found no room, and the element that trace_exit() holds between lookup and copy is still the one in the stash. |
| NoneSilent | NeverSilent | EntryKept, for shared processes too: the entry of a call stays in the stash until its own exit, unless another thread of the process has taken it (`robbed`); so the lookup of a stashed call succeeds. |
| NothingLeaks | NoLeak | NoLeak is a conjunct of StashInv: an entry is written by a call under way, and every exit that is seen deletes it. |

### The intrusion detector

IdsProofs assumes `IdsAssumption`, `TapAssumption` and `NoEntryAssumption`: natural
bounds, a buffer of gaps and a window that are not empty, finitely many flows, and time
stamps that do not wrap while the tool runs (64 bits of nanoseconds: 584 years). The
clock starts at 1, since the code takes a stamp of 0 for "never". TLC found the inductive
invariant IdsInv to hold in all 1052322 states of an instance of ids_rules before it was
proved.

| theorem | property | argument |
|---|---|---|
| TablesFit | TypeOK | Typed: whatever the order of the records, flows[], scans[] and each seen[] stay within their arrays; a new entry is made only below the limit. It needs Stamped: a submitted record has its time, and a reserved one is not handed over. |
| BeaconsExact | BeaconExact | FlowsJudged: the circular buffer of a flow holds its last MAX_GAPS gaps, turned round by as many places as have been overwritten, and the flag says whether they were regular after one of its packets. Kept carries along that the sums of rule_beacon() over the buffer, of the gaps and of their squares, are those over the gaps in time order: a new gap takes the place of the oldest one in both (TotalGrows, TotalTurns). |
| ScansReported | ScanReported | ScansWindowed: seen[] has only ports of the window ending at the source's last record, with a time at which they were touched (OnlyTouched); unless one was turned away it has all of them, with their last time (AllTouched), and a window over the threshold has been reported within the cooldown. FullForGood: a flow or source without an entry found its table full, and full it stays. |
| ScansReal | ScanIsReal | An action property: fresh entries of seen[] are distinct ports of the window (OnlyTouched), so as many were touched as the rule counts. |
| ReportsApart | AlertsApart | An action property: InTime bounds every stamp by that of the last record while these are in order, so `now - last_alert_ts` does not wrap. |

The history `arr` that these properties compare with is a ghost; it has no bound, while
seen[] and the buffer do. `ordered` is a condition of all but TablesFit: ids_repeat shows
what happens without it.

### The execve() tools

ExecArgsProofs assumes `ExecAssumption` (natural bounds, MAXARGS and TABLE_SIZE not zero,
pids are naturals) and `NoneAssumption` (`None` is no program, argument or slot). TLC found
OrderInv and WholeInv to hold in all 570161 states of the run `execargs`.

| theorem | property | argument |
|---|---|---|
| LinesInOrder | ArgsInOrder | OrderInv, in three parts. RingInv: the records of a process that has not moved lie in one ring, in the order they were sent and before what its program will send. ClosedInv: an argument in a ring is followed there by its EVENT_RET, or its program is still running, unless a record of the process was dropped. SlotInv: a slot holds arguments of its own pid, in order, before all that waits or is to come; so appending the head of a ring keeps it in order. |
| LinesWhole | LineIsWhole | WholeInv, on top of OrderInv, of a process on its own: its slot is the beginning of one command (SlotWhole); each argument in the slot's last place or in a ring is followed by the next one, by its EVENT_RET or by the program about to send it (Followed), and preceded by the one before (RecordsWhole, ProgramWhole). So when the EVENT_RET comes, the slot is complete. |
| NothingLeftBehind | DrainedIsDone | From both: a command owed has its EVENT_RET in a ring (OwedWhole), and the process of a slot in use has an EVENT_RET in a ring or a running program, unless it lost a record (SlotOK). |

### Counters and other small tools

SmallToolsProofs assumes `CountersAssumption` (finitely many CPUs, natural bounds, `None`
is no count or element, uids and CPUs, which name the elements, are apart) and `SmallToolsAssumption`: thread ids are positive, at least two tasks
outlive a dump (init and the reader), and no -c asks for more frames than are counted.

| theorem | property | argument |
|---|---|---|
| CountsExact | CountExact | CountInv: of a uid without a race one program is under way, and the entry and its element are as its lookup and its read saw them (OneProgram); an element holds the count of one uid, is the spare of one CPU or is free (Apart); a uid without an entry was turned away by a full map, and full it stays (TurnedAway). |
| LossIsBounded | CountBounded | count_open() never replaces an element, so its pointers stay good (Settled) and each event adds one to its own uid's count. LossBounded: once a uid has an entry, the events it has lost and the programs that still try to insert one are together fewer than the CPUs. Of hello() and count_exec() NoneAbove: no element, used or free, and nothing read from one, is above the number of programs that have ended. |
| CountsGrow | Cumulative | An action property: the atomic add works on the entry that Settled keeps in place, and a failed insert changes nothing. |
| EveryCallTallied | TailCallsTallied | TailInv: dispatch() is linked only while both slots of jmp_table hold their handlers (Wired), and the calls made are those counted plus the programs under way, a cardinality that each step changes by one. |
| EveryPacketTappedOnce | TappedOnce | TapInv: nothing is recorded before the filter is attached, so PACKET_IGNORE_OUTGOING, set before, holds for every record. |
| ListIsWhole | DumpWhole | DumpInv: the list is sorted and lies below the point the walk has reached, and every steady task below that point is on it; while seq_num is 0 the walk is at its first task, and two tasks that stay ensure that there is a next one. |
| FramesKept | NetTopFrames | MainInv: in the loop fewer frames than asked for were printed, the loop is left without a signal only after the last, and a frame after a signal is followed by the test of the flag. |
| ToolsImplementEach | | The composition that TLC checks implements each of the six, Verifier included, so what is proved of one holds in it. |

### Packet tools

NetToolsProofs assumes `ProcsAssumption` (a process runs one program) and `ToolsAssumption`:
the bounds are naturals, the command line is of naturals, and a machine with filters has a
qdisc.

| theorem | property | argument |
|---|---|---|
| FirewallTight | NothingSlips | RulesFirst: a firewall that is attached, or about to attach, has in the map all ports that the loader takes from its command line. What is then misjudged was not in the scope of xdp_fw(), or its port was not entered as asked. |
| ActiveInForce | InForce | XdpStays, FiltersStay and PinsStay: what a process put in place, step by step of its start, is there until the attach or the cleanup of another removes or covers it; one that dies in front of its cleanup has removed nothing. What dead instances and others left is no obstacle. |
| MachineRestored | Restored | Answered: what is on the machine was there before, has been left by a dead process, or by one that has yet to go through its cleanup. A cleanup forgets the dead of its own kind only (KindIs). |
| EveryPacketOnce | PacketsAccounted | A frame has exactly one category (OneCategory), the process on the interface runs one program (ProcsAssumption), and none but the packet steps touches a counter. |

### The verifier lessons

These proofs are in NetToolsProofs too and assume `LessonAssumption`: the lines asked for,
at least one, fit the ring (12 and 64 in the code, where print_log_tail() clamps them).

| theorem | property | argument |
|---|---|---|
| LessonsAreTold | LessonsTold | Held is the invariant of the loop in print_log_tail(): after each line of the log, `count` is the number of lines so far that were not blank, and slot `c % n` of the ring holds the c-th of them for each of the last n. RingShows reads the slots from the oldest on and finds the last lines in order, whether or not the ring has gone round. LessonInv: between the load and the print, logbuf is the log of this very load (Verdicts, LogsAre). That the specimens are rejected or accepted as announced follows from what they do on every input. |

The property compares with TailOf, which says in terms of sets which lines are the last
ones, and not with another loop.

### Ring tools

RingToolsProofs assumes `RingAssumption` (natural bounds) and `ToolsAssumption` (the tools
are among those modelled).

| theorem | property | argument |
|---|---|---|
| VerdictsRight | VerdictKept | RingInv: no denied execution becomes a record (Typed), every line is of a record owed (InOrder), and every verdict returned is the one given (Unchanged). |
| MarksRight | MarkExact | RingInv: events are numbered, a call has one record of on_key_create(), the last program it passes (KeyOnce), a call turned back before key_create_or_update() never comes there (NotRefused), and a line is marked exactly when its record is large (Marked); with InOrder this carries over from the records to the lines, and once the ring is empty every record has its line. |
| LogFaithful | the safety part of LogKept, `Log!Faithful` | InOrder: the lines, followed by the reportable records still in the ring, are the records owed, in their order. The counting lemmas (CountNext, CountTail...) tie a place in the ring to its number among the reportable records, since those of a bare Enter, which bash_readline() discards, lie between them. |

### Only model-checked

* DeadRowsReaped, CtrlCExits, StopExits and the liveness part of LogKept
  (`AllTold` of ReportLog): liveness under fairness is out of the prover's reach. The
  safety part of LogKept is LogFaithful.
* AlertsAlwaysApart, TappedChosen and PauseExits do not hold; TLC gives a counterexample.

## Assumptions of the models

* Preallocated maps hand a freed element out again at once, as they do in the kernel.
* A program under way finishes before its link's destruction lets the jump table go
  (TailCall). A tailcall that is killed, by a signal it does not catch or by one before
  `signal()` (`19-tailcall/tailcall.c:65`), is not modelled: the kernel then closes its
  maps and its link in an order of its own.
* A process makes one execve() at a time (ExecArgs).
* Frames that `ids_tap()` rejects leave no trace.
* The verifier rejects a program exactly when some input makes it read where it may not,
  or run without bound (Verifier); a load may also fail before the verifier runs.
* Programs of others are there before the tools start, and do not come or go while they
  run (NetTools).
* One interface (NetTools); counters of all CPUs are one counter, because each CPU
  only adds to its own.
* 64-bit byte totals and time stamps do not overflow in nettop and the TCP tools.

## Not modelled

* Chapter 01: one line per event, no state.
* 25 and the scripts of 20 and 23 are shell and text processing.
* The LSM variant of 26 is compiled and never loaded; stage-key is a demonstration.
* Exit statuses, except those of nettop and taskdump. (07, 09, 15 and 20 exit with 0 when
  the ring could not be created, since they test `err < 0` and set `err = 1`.)
* Number formatting (`fmt_rate()`, `decode_flags()`), layout, and the parsing of
  arguments except nettop's and the numbers of xdpfw's ports.

## Plan

Abstract specifications for two more parts: the stash of EntryExit as a set of calls under
way, and the slot table of 08 as an implementation of the dict of 06.
