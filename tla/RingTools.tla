------------------------------ MODULE RingTools ------------------------------
(***************************************************************************)
(* The tools that send one record per event through a BPF ring buffer:     *)
(* execsnoop (07), opensnoop (09), bashreadline (15), execguard (20) and   *)
(* keyring_snoop (26).  In a behaviour one of them runs.                   *)
(*                                                                         *)
(* A program reserves a place in the ring, fills it in, and submits it or  *)
(* hands it back; the reader takes records in the order of their places    *)
(* and stops at one that is still being filled in.  An event is known by   *)
(* its number and its kind, names and ids are left out.                    *)
(***************************************************************************)
EXTENDS Naturals, Sequences

CONSTANTS
  Cpus,
  Tools,      \* the tools considered
  RingSize,   \* records the ring buffer holds
  MaxEvents,  \* bound: events in one behaviour
  None

ASSUME RingAssumption == RingSize \in Nat /\ MaxEvents \in Nat

VARIABLES
  tool,      \* the tool that runs
  pc,        \* where main() is
  stop,      \* set by on_signal()
  hooks,     \* programs attached
  ring,      \* records; at is "filling", "submitted" or "discarded"
  task,      \* CPU -> the event on it, and the programs it has yet to pass
  events,    \* events so far
  lines,     \* ghost: lines printed, in order
  owed,      \* ghost: records of reportable events, in the order they found room
  verdicts   \* ghost: what exec_check() returned, with the verdict it was given

vars == <<tool, pc, stop, hooks, ring, task, events, lines, owed, verdicts>>
mainVars == <<tool, pc, stop, hooks, lines>>

\* The kinds of event a tool tells apart: what readline() returned; the verdict of
\* the LSMs before bpf; an add_key() of a key that is large and of a type that can hold
\* a payload, one of a key that is not, both whether or not key_create_or_update() then
\* creates the key, and one of a large key turned back before that function is called.
Kinds == [execsnoop     |-> {"call"},
          opensnoop     |-> {"call"},
          bashreadline  |-> {"eof", "empty", "text"},
          execguard     |-> {"allowed", "denied"},
          keyring_snoop |-> {"large", "small", "refused"}]

ASSUME ToolsAssumption == Tools \subseteq DOMAIN Kinds

\* The hooked places an event passes, in order.  on_key_create() runs at the entry of
\* key_create_or_update(), before that function can fail or find that it has a key to update.
Path(k) ==
  CASE tool = "execsnoop"     -> <<"trace_execve">>
    [] tool = "opensnoop"     -> <<"trace_openat">>
    [] tool = "bashreadline"  -> <<"bash_readline">>
    [] tool = "execguard"     -> <<"exec_check">>
    [] tool = "keyring_snoop" -> IF k = "refused" THEN <<"on_sys_add_key">>
                                 ELSE <<"on_sys_add_key", "on_key_create">>

\* The program main() attaches, and cannot do without.
Program == IF tool = "keyring_snoop" THEN "on_key_create" ELSE Path("")[1]

Init ==
  /\ tool \in Tools /\ pc = "load" /\ stop = FALSE /\ hooks = {} /\ ring = <<>>
  /\ task = [c \in Cpus |-> None] /\ events = 0
  /\ lines = <<>> /\ owed = <<>> /\ verdicts = {}

-----------------------------------------------------------------------------
(* Kernel side.                                                            *)

\* What happens after the tool has gone is of no interest.
Begin(c, k) ==
  /\ pc # "exited" /\ task[c] = None /\ events < MaxEvents /\ events' = events + 1
  /\ task' = [task EXCEPT ![c] = [id |-> events, kind |-> k, todo |-> Path(k)]]
  /\ UNCHANGED <<mainVars, ring, owed, verdicts>>

Filling(c) == {i \in DOMAIN ring : ring[i].at = "filling" /\ ring[i].cpu = c}

\* The event on c is past the first of its programs.
Advance(c) ==
  LET x == task[c] IN
    task' = [task EXCEPT ![c] = IF Len(x.todo) = 1 THEN None ELSE [x EXCEPT !.todo = Tail(@)]]

\* if (!ret) return 0 in bash_readline(), if (ret != 0) return ret in exec_check().
\* (Mutant: an earlier denial is not looked at.)
WantedAnyVerdict(k) == k # "eof"
Wanted(k) == k \notin {"eof", "denied"}

HasRoom == Len(ring) < RingSize
Reportable(k) == k \notin {"eof", "empty", "denied"}

\* exec_check() returns what it was given: 0, or the denial of an earlier LSM.
Verdict(k) == IF Wanted(k) THEN "allowed" ELSE k
Return(x) ==
  verdicts' = IF tool = "execguard" THEN verdicts \cup {[given |-> x.kind, returned |-> Verdict(x.kind)]}
              ELSE verdicts

\* The program is not attached, has no interest in the event, or finds no room.
Pass(c) ==
  /\ task[c] # None /\ Filling(c) = {}
  /\ LET x == task[c]
         p == Head(x.todo) IN
       /\ p \notin hooks \/ ~Wanted(x.kind) \/ ~HasRoom
       /\ IF p \in hooks THEN Return(x) ELSE UNCHANGED verdicts
  /\ Advance(c) /\ UNCHANGED <<mainVars, ring, events, owed>>

\* bpf_ringbuf_reserve().
Reserve(c) ==
  /\ task[c] # None /\ Filling(c) = {} /\ HasRoom
  /\ LET x == task[c]
         r == [id |-> x.id, kind |-> x.kind, prog |-> Head(x.todo)] IN
       /\ r.prog \in hooks /\ Wanted(x.kind)
       /\ ring' = Append(ring, [rec |-> r, at |-> "filling", cpu |-> c])
       /\ owed' = IF Reportable(x.kind) THEN Append(owed, r) ELSE owed
  /\ UNCHANGED <<mainVars, task, events, verdicts>>

\* bash_readline() discards the place of a line that is empty or unreadable;
\* all else is submitted.
\* (Mutant: n < 1, although the NUL counts, so that a bare Enter is submitted.)
SubmitAll(k) == "submitted"
Commit(k) == IF k = "empty" THEN "discarded" ELSE "submitted"

Fill(c) ==
  /\ \E i \in Filling(c) : ring' = [ring EXCEPT ![i].at = Commit(task[c].kind), ![i].cpu = None]
  /\ Return(task[c]) /\ Advance(c) /\ UNCHANGED <<mainVars, events, owed>>

-----------------------------------------------------------------------------
(* main().                                                                 *)

kernelVars == <<task, events, owed, verdicts>>

\* __open_and_load(), before which execguard tests whether bpf is an active LSM.
Load == /\ pc = "load" /\ pc' \in {"attach", "exited"}
        /\ UNCHANGED <<tool, stop, hooks, ring, lines, kernelVars>>

Attach ==
  /\ pc = "attach"
  /\ \/ hooks' = {Program} /\ pc' = IF tool = "keyring_snoop" THEN "tracepoint" ELSE "ring"
     \/ pc' = "cleanup" /\ UNCHANGED hooks
  /\ UNCHANGED <<tool, stop, ring, lines, kernelVars>>

\* keyring_snoop goes on without its tracepoint.
AttachTracepoint ==
  /\ pc = "tracepoint" /\ pc' = "ring"
  /\ hooks' \in {hooks, hooks \cup {"on_sys_add_key"}}
  /\ UNCHANGED <<tool, stop, ring, lines, kernelVars>>

NewRing == /\ pc = "ring" /\ pc' \in {"handlers", "cleanup"}
           /\ UNCHANGED <<tool, stop, hooks, ring, lines, kernelVars>>

Handlers == /\ pc = "handlers" /\ pc' = "loop"
            /\ UNCHANGED <<tool, stop, hooks, ring, lines, kernelVars>>

Loop == /\ pc = "loop" /\ pc' = IF stop THEN "cleanup" ELSE "poll"
        /\ UNCHANGED <<tool, stop, hooks, ring, lines, kernelVars>>

\* ring_buffer__poll(rb, 100) waits for a record, but not for ever.
\* (Mutant: a timeout of -1.)
NeverTimesOut == FALSE
TimesOut == TRUE
Poll ==
  /\ pc = "poll"
  /\ \/ ring # <<>> /\ pc' = "drain"
     \/ ring = <<>> /\ TimesOut /\ pc' = "loop"
  /\ UNCHANGED <<tool, stop, hooks, ring, lines, kernelVars>>

\* suspicious in handle_event().
Large(k) == k \in {"large", "refused"}
\* (Mutant: the source of the record is not looked at.)
SuspiciousAny(r) == Large(r.kind)
Suspicious(r) == r.prog = "on_key_create" /\ Large(r.kind)

\* Records that are complete are taken one after the other; then poll returns.
handle_event ==
  /\ pc = "drain" /\ ring # <<>> /\ Head(ring).at # "filling" /\ ring' = Tail(ring)
  /\ LET r == Head(ring).rec IN
       lines' = IF Head(ring).at = "discarded" THEN lines
                ELSE Append(lines, [rec |-> r, mark |-> Suspicious(r)])
  /\ UNCHANGED <<tool, pc, stop, hooks, kernelVars>>
PollReturns ==
  /\ pc = "drain" /\ (ring # <<>> => Head(ring).at = "filling") /\ pc' = "loop"
  /\ UNCHANGED <<tool, stop, hooks, ring, lines, kernelVars>>

\* Another error than EINTR ends the loop in every tool.
PollFails == /\ pc = "poll" /\ pc' = "cleanup"
             /\ UNCHANGED <<tool, stop, hooks, ring, lines, kernelVars>>

\* The ring is freed, the programs are detached, main() returns.
Cleanup == /\ pc = "cleanup" /\ pc' = "exited" /\ hooks' = {}
           /\ UNCHANGED <<tool, stop, ring, lines, kernelVars>>

\* SIGINT or SIGTERM.  Before signal() it kills the tool.  In ring_buffer__poll() it
\* interrupts the wait, unless it came just before the wait began.  On EINTR
\* keyring_snoop tests stop again, the others leave the loop.
AfterEintr == IF tool = "keyring_snoop" THEN "loop" ELSE "cleanup"
Unprepared == {"load", "attach", "tracepoint", "ring", "handlers"}
Signal ==
  /\ pc # "exited"
  /\ IF pc \in Unprepared THEN pc' = "exited" /\ hooks' = {} /\ UNCHANGED stop
     ELSE /\ stop' = TRUE /\ UNCHANGED hooks
          /\ pc' \in {pc} \cup IF pc = "poll" /\ ring = <<>> THEN {AfterEintr} ELSE {}
  /\ UNCHANGED <<tool, ring, lines, kernelVars>>

-----------------------------------------------------------------------------
Main ==
  \/ Load \/ Attach \/ AttachTracepoint \/ NewRing \/ Handlers \/ Loop
  \/ Poll \/ handle_event \/ PollReturns \/ Cleanup
Run(c) == Pass(c) \/ Reserve(c) \/ Fill(c)

Next ==
  \/ Main \/ PollFails \/ Signal
  \/ \E c \in Cpus : Run(c) \/ \E k \in Kinds[tool] : Begin(c, k)

Spec == Init /\ [][Next]_vars /\ WF_vars(Main) /\ \A c \in Cpus : WF_vars(Run(c))

-----------------------------------------------------------------------------
\* Seen from outside, CPUs, places and the poll loop vanish (trace_*() and main()
\* implement ReportLog): the lines are those of the reportable events that found room,
\* in the order in which they did, each once, and each in the end unless the tool ends
\* first.  An end of file, a bare Enter and a denied execution leave no line, and a
\* place being filled in or handed back costs its neighbours neither line nor order.
Log == INSTANCE ReportLog WITH
  Most  <- MaxEvents,
  taken <- owed,
  told  <- [i \in DOMAIN lines |-> lines[i].rec],
  over  <- pc = "exited"
LogKept == Log!Spec

\* execguard does not change what the LSMs before it decided, be the ring full or
\* not, and a line that says "allow" is of an execution none of them denied.
VerdictKept ==
  /\ \A v \in verdicts : v.returned = v.given
  /\ tool = "execguard" => \A i \in DOMAIN lines : lines[i].rec.kind = "allowed"

\* keyring_snoop marks one line for each large add_key() whose record at the entry of
\* key_create_or_update() found room, with or without its tracepoint and whichever other
\* record is dropped, and none for a call turned back before that function.  A mark says
\* that a payload was offered: a call that then fails, or updates a key, is marked too.
MarkExact ==
  LET marked  == {i \in DOMAIN lines : lines[i].mark}
      offered == {i \in DOMAIN owed : owed[i].prog = "on_key_create" /\ owed[i].kind = "large"} IN
    /\ \A i, j \in marked : lines[i].rec.id = lines[j].rec.id => i = j
    /\ ring = <<>> => {lines[i].rec.id : i \in marked} = {owed[i].id : i \in offered}

\* A signal ends the tool, even one that comes between the test of stop and the
\* wait in ring_buffer__poll().
StopExits == stop ~> pc = "exited"
=============================================================================
