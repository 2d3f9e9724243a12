------------------------------- MODULE ExecArgs ------------------------------
(***************************************************************************)
(* Chapters 03 to 06 and 08: who executes what.  In 03 and 04 the program  *)
(* at execve() emits one record, which is printed.  In 05, 06 and 08 it    *)
(* emits one EVENT_ARG per argument and one EVENT_RET; user space gathers  *)
(* the arguments of a pid and prints them at the EVENT_RET.                *)
(*   03, 04, 05  perf buffer: one ring per CPU, a full one drops a record; *)
(*   06  one shared ring; when it is full the program gives up;            *)
(*   08  the same in C, with a table indexed by pid % TABLE_SIZE instead   *)
(*       of a dict.                                                        *)
(* One of them runs in a behaviour.  An argument is known by its execve()  *)
(* and its index, which text it holds is immaterial; the name in a record  *)
(* of 03 and 04 counts as the only argument.                               *)
(***************************************************************************)
EXTENDS Naturals, Sequences, FiniteSets

CONSTANTS
  Cpus, Pids,
  Chapters,     \* the versions of the tool: a subset of {3, 4, 5, 6, 8}
  ArgCounts,    \* lengths of argv
  MAXARGS,      \* arguments emitted of one command
  TABLE_SIZE,   \* slots of pending in 08
  RingSize,     \* records a ring holds
  MaxExecs,     \* bound: execve() calls in one behaviour
  None

ASSUME ExecAssumption ==
  /\ MAXARGS \in Nat \ {0} /\ Chapters \subseteq {3, 4, 5, 6, 8} /\ TABLE_SIZE \in Nat \ {0}
  /\ Pids \subseteq Nat /\ ArgCounts \subseteq Nat /\ RingSize \in Nat /\ MaxExecs \in Nat

VARIABLES
  chapter,  \* the version that runs
  execs,    \* execve() calls made so far
  running,  \* CPU -> the execve() its program is at: id, pid, argc, next argument
  rings,    \* ring -> records not yet consumed
  table,    \* slot -> the pending command line
  line,     \* the line printed last
  owed,     \* ghost: complete commands that are not printed yet
  lost,     \* ghost: pids of which a record was dropped
  moved     \* ghost: pids that had records in the rings of two CPUs at once

vars == <<chapter, execs, running, rings, table, line, owed, lost, moved>>

\* A perf buffer has a ring for each CPU, a ring buffer is one for all.
PerCpu == chapter \in {3, 4, 5}

\* The tools that send one record for each execve().
OneRecord == chapter \in {3, 4}

Rings == Cpus \cup {"events"}
RingOf(c) == IF PerCpu THEN c ELSE "events"

Least(m, n) == IF m < n THEN m ELSE n
Exec == [id : 1..MaxExecs, pid : Pids, argc : ArgCounts, next : 0..MAXARGS]
Arg  == [id : 1..MaxExecs, index : 0..MAXARGS - 1, argc : ArgCounts, pid : Pids]
\* struct event: arg is None in an EVENT_RET, which carries the ghost id.
Record  == [pid : Pids, arg : Arg \cup {None}, id : 1..MaxExecs]
Pending == [pid : Pids, argv : Seq(Arg)]
Slots   == Pids \cup (0..TABLE_SIZE - 1)

ASSUME NoneAssumption == None \notin Exec \cup Arg \cup Pending

TypeOK ==
  /\ execs \in 0..MaxExecs /\ running \in [Cpus -> Exec \cup {None}]
  /\ rings \in [Rings -> Seq(Record)] /\ \A r \in Rings : Len(rings[r]) <= RingSize
  /\ table \in [Slots -> Pending \cup {None}] /\ line \in Pending \cup {None}
  /\ chapter = 8 => \A s \in Slots : table[s] # None =>
       s < TABLE_SIZE /\ Len(table[s].argv) \in 1..MAXARGS
  /\ owed \subseteq (1..MaxExecs) \X Pids /\ lost \subseteq Pids /\ moved \subseteq Pids

Init ==
  /\ chapter \in Chapters /\ execs = 0 /\ running = [c \in Cpus |-> None] /\ rings = [r \in Rings |-> <<>>]
  /\ table = [s \in Slots |-> None] /\ line = None
  /\ owed = {} /\ lost = {} /\ moved = {}

\* A process calls execve(); its threads do not do so at the same time.
Execve(c, p, n) ==
  /\ execs < MaxExecs /\ execs' = execs + 1 /\ running[c] = None /\ (OneRecord => n = 1)
  /\ \A d \in Cpus : running[d] # None => running[d].pid # p
  /\ running' = [running EXCEPT ![c] = [id |-> execs + 1, pid |-> p, argc |-> n, next |-> 0]]
  /\ moved' = moved \cup {q \in {p} : \E o \in Rings \ {RingOf(c)} :
                                          \E i \in DOMAIN rings[o] : rings[o][i].pid = q}
  /\ UNCHANGED <<chapter, rings, table, line, owed, lost>>

RoomFor(c) == Len(rings[RingOf(c)]) < RingSize
Emit(c, rec) ==
  IF RoomFor(c) THEN rings' = [rings EXCEPT ![RingOf(c)] = Append(@, rec)] /\ UNCHANGED lost
                ELSE lost' = lost \cup {rec.pid} /\ UNCHANGED rings

\* The program of chapters 03 and 04.
EmitOnly(c) ==
  /\ OneRecord /\ running[c] # None
  /\ LET x == running[c] IN
       /\ Emit(c, [pid |-> x.pid, id |-> x.id,
                   arg |-> [id |-> x.id, index |-> 0, argc |-> x.argc, pid |-> x.pid]])
       /\ owed' = IF RoomFor(c) THEN owed \cup {<<x.id, x.pid>>} ELSE owed
  /\ running' = [running EXCEPT ![c] = None]
  /\ UNCHANGED <<chapter, execs, table, line, moved>>

\* One turn of the loop over argv.  Without room chapter 05 goes on, chapters 06
\* and 08 return.
EmitArg(c) ==
  /\ ~OneRecord /\ running[c] # None
  /\ LET x == running[c] IN
       /\ x.next < Least(x.argc, MAXARGS)
       /\ Emit(c, [pid |-> x.pid, id |-> x.id,
                   arg |-> [id |-> x.id, index |-> x.next, argc |-> x.argc, pid |-> x.pid]])
       /\ running' = [running EXCEPT ![c] =
                        IF RoomFor(c) \/ PerCpu THEN [x EXCEPT !.next = @ + 1] ELSE None]
  /\ UNCHANGED <<chapter, execs, table, line, owed, moved>>

\* The end-of-command marker.
EmitRet(c) ==
  /\ ~OneRecord /\ running[c] # None
  /\ LET x == running[c] IN
       /\ x.next = Least(x.argc, MAXARGS)
       /\ Emit(c, [pid |-> x.pid, arg |-> None, id |-> x.id])
       /\ owed' = IF RoomFor(c) /\ x.argc > 0 THEN owed \cup {<<x.id, x.pid>>} ELSE owed
  /\ running' = [running EXCEPT ![c] = None]
  /\ UNCHANGED <<chapter, execs, table, line, moved>>

\* The slot of a pid in 08, its key in the dict of 05 and 06.
get_slot(pid) == IF chapter = 8 THEN pid % TABLE_SIZE ELSE pid

\* handle_event() on an EVENT_ARG: a slot that is empty or of another pid is taken
\* over.  (Mutant: a slot in use is not checked for the pid.)
SlotForAny(e) == IF table[get_slot(e.pid)] = None THEN [pid |-> e.pid, argv |-> <<>>]
                 ELSE table[get_slot(e.pid)]
SlotFor(e) == IF table[get_slot(e.pid)] # None /\ table[get_slot(e.pid)].pid = e.pid
              THEN table[get_slot(e.pid)] ELSE [pid |-> e.pid, argv |-> <<>>]

\* Chapter 08 keeps MAXARGS arguments, the dict any number.
Full(p) == chapter = 8 /\ Len(p.argv) >= MAXARGS
\* (Mutant: off by one in that test.)
AddArgShort(p, a) == IF chapter = 8 /\ Len(p.argv) >= MAXARGS - 1 THEN p
                     ELSE [p EXCEPT !.argv = Append(@, a)]
AddArg(p, a) == IF Full(p) THEN p ELSE [p EXCEPT !.argv = Append(@, a)]

\* (Mutant: the slot stays active after it was printed.)
ClearNot(s) == table
Clear(s) == [table EXCEPT ![s] = None]

\* print_event() of chapters 03 and 04.
print_event(r) ==
  /\ OneRecord /\ rings[r] # <<>> /\ rings' = [rings EXCEPT ![r] = Tail(@)]
  /\ LET e == Head(rings[r]) IN
       line' = [pid |-> e.pid, argv |-> <<e.arg>>] /\ owed' = owed \ {<<e.id, e.pid>>}
  /\ UNCHANGED <<chapter, execs, running, table, lost, moved>>

handle_event(r) ==
  /\ ~OneRecord /\ rings[r] # <<>> /\ rings' = [rings EXCEPT ![r] = Tail(@)]
  /\ LET e == Head(rings[r])
         s == get_slot(e.pid) IN
       IF e.arg # None
       THEN table' = [table EXCEPT ![s] = AddArg(SlotFor(e), e.arg)] /\ UNCHANGED <<line, owed>>
       ELSE IF table[s] # None /\ table[s].pid = e.pid
            THEN table' = Clear(s) /\ line' = table[s] /\ owed' = owed \ {<<e.id, e.pid>>}
            ELSE UNCHANGED <<table, line, owed>>
  /\ UNCHANGED <<chapter, execs, running, lost, moved>>

Next ==
  \/ \E c \in Cpus : EmitOnly(c) \/ EmitArg(c) \/ EmitRet(c)
                     \/ \E p \in Pids, n \in ArgCounts : Execve(c, p, n)
  \/ \E r \in Rings : handle_event(r) \/ print_event(r)

Spec == Init /\ [][Next]_vars

-----------------------------------------------------------------------------
\* Processes of which all records arrive, in order, in a slot of their own.
Alone(p) ==
  /\ p \notin lost \cup moved
  /\ chapter = 8 => \A q \in Pids \ {p} : q % TABLE_SIZE # p % TABLE_SIZE

\* A printed line is one whole command: the first MAXARGS arguments of a single
\* execve(), in order.
LineIsWhole ==
  line # None /\ Alone(line.pid) => LET a == line.argv[1] IN
    line.argv = [i \in 1..Least(a.argc, MAXARGS) |->
                   [id |-> a.id, index |-> i - 1, argc |-> a.argc, pid |-> line.pid]]

\* Once the rings are drained every complete command has been printed; and once no
\* program is running nothing is pending, in whatever order rings of different CPUs
\* are drained and whoever shares a slot: what is left for a later command is of a
\* process that lost a record.
DrainedIsDone ==
  (\A r \in Rings : rings[r] = <<>>) =>
    /\ \A o \in owed : ~Alone(o[2])
    /\ (\A c \in Cpus : running[c] = None)
         => \A s \in Slots : table[s] # None => table[s].pid \in lost

\* The arguments of a line are those of the process it names, in the order in which
\* they were emitted, although slots collide, records are dropped and several
\* commands may share a line.
ArgsInOrder ==
  line # None =>
    /\ \A i \in DOMAIN line.argv : line.argv[i].pid = line.pid
    /\ line.pid \notin moved => \A i, j \in DOMAIN line.argv : i < j =>
         LET a == line.argv[i]
             b == line.argv[j] IN a.id < b.id \/ (a.id = b.id /\ a.index < b.index)
=============================================================================
