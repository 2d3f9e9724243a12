------------------------------- MODULE TaskDump ------------------------------
(***************************************************************************)
(* 22-iterator: main() read()s a task iterator until it ends; the kernel   *)
(* walks the tasks in the order of their ids and calls dump_task() for     *)
(* each.  A read() that has filled its buffer lets go of the task it has   *)
(* come to, and the next read() looks it up again; tasks start and exit    *)
(* all the time.                                                           *)
(***************************************************************************)
EXTENDS Naturals, Sequences, FiniteSetsExt

CONSTANTS
  Tids,       \* thread ids: positive numbers
  Kept,       \* tasks that never exit: init and kthreadd, or those of a container
  MaxForks,   \* bound: tasks that start during the dump
  None

VARIABLES
  pc,       \* the call main() makes next
  status,   \* main()'s exit status, or None
  tid,      \* the walk: the least id it still has to visit
  task,     \* the task it holds, or None: between two read()s
  num,      \* ctx->meta->seq_num
  shown,    \* has dump_task() run for the task held?
  out,      \* what was read and handed to fwrite(): Header and thread ids
  alive,    \* the tasks there are
  steady,   \* ghost: those that have been there since the iterator was created
  forks

vars == <<pc, status, tid, task, num, shown, out, alive, steady, forks>>
walkVars == <<tid, task, num, shown, out>>
taskVars == <<alive, steady, forks>>

\* The header line, told apart from every thread id.
Header == 0

TypeOK ==
  /\ pc \in {"load", "attach", "create", "read", "exited"} /\ status \in {0, 1, None}
  /\ tid \in Nat /\ task \in Tids \cup {None} /\ num \in Nat /\ shown \in BOOLEAN
  /\ out \in Seq(Tids \cup {Header}) /\ steady \subseteq alive /\ alive \subseteq Tids
  /\ forks \in 0..MaxForks

Init ==
  /\ pc = "load" /\ status = None
  /\ tid = 0 /\ task = None /\ num = 0 /\ shown = FALSE /\ out = <<>>
  /\ alive \in {a \in SUBSET Tids : Kept \subseteq a} /\ steady = alive /\ forks = 0

\* return err ? 1 : 0
\* (Mutant: "return 0".)
ExitZero(err) == 0
ExitStatus(err) == IF err THEN 1 ELSE 0
Exit(err) == pc' = "exited" /\ status' = ExitStatus(err)

\* open_and_load, attach_iter, bpf_iter_create.
Call(from, to) ==
  /\ pc = from
  /\ (pc' = to /\ UNCHANGED status) \/ Exit(TRUE)
  /\ UNCHANGED <<walkVars, taskVars>>

\* The tasks still to come, seen from id t; the kernel takes the first.
From(t) == {x \in alive : x >= t}

Hold(t, n) == tid' = t /\ task' = Min(From(t)) /\ num' = n /\ shown' = FALSE

\* A read() begins with start(); when no task is left it returns 0, after a call of
\* dump_task() with a NULL task, which prints nothing.
Start ==
  /\ pc = "read" /\ task = None
  /\ \/ From(tid) # {} /\ Hold(tid, num) /\ UNCHANGED <<pc, status>>
     \/ From(tid) = {} /\ Exit(FALSE) /\ UNCHANGED <<tid, task, num, shown>>
  /\ UNCHANGED <<out, taskVars>>

\* next(); when no task is left the read() returns the text it has.
NextTask ==
  /\ pc = "read" /\ shown
  /\ \/ From(task + 1) # {} /\ Hold(task + 1, num + 1)
     \/ From(task + 1) = {} /\ tid' = task + 1 /\ task' = None /\ shown' = FALSE /\ UNCHANGED num
  /\ UNCHANGED <<pc, status, out, taskVars>>

\* dump_task()
dump_task ==
  /\ pc = "read" /\ task # None /\ ~shown /\ shown' = TRUE
  /\ out' = out \o (IF num = 0 THEN <<Header>> ELSE <<>>) \o <<task>>
  /\ UNCHANGED <<pc, status, tid, task, num, taskVars>>

\* The buffer is full when next() returns: read() gives up the task, to visit it again.
ReadReturns ==
  /\ pc = "read" /\ task # None /\ ~shown /\ num > 0 /\ task' = None /\ tid' = task
  /\ UNCHANGED <<pc, status, num, shown, out, taskVars>>

ReadFails == pc = "read" /\ task = None /\ Exit(TRUE) /\ UNCHANGED <<walkVars, taskVars>>

\* Tasks of the system, while the iterator is open.  Ids are given out again.
Fork(t) ==
  /\ pc = "read" /\ t \notin alive /\ forks < MaxForks /\ forks' = forks + 1
  /\ alive' = alive \cup {t} /\ UNCHANGED <<pc, status, walkVars, steady>>
TaskExits(t) ==
  /\ pc = "read" /\ t \in alive \ Kept /\ alive' = alive \ {t} /\ steady' = steady \ {t}
  /\ UNCHANGED <<pc, status, walkVars, forks>>

Next ==
  \/ Call("load", "attach") \/ Call("attach", "create") \/ Call("create", "read")
  \/ Start \/ dump_task \/ NextTask \/ ReadReturns \/ ReadFails
  \/ \E t \in Tids : Fork(t) \/ TaskExits(t)

Spec == Init /\ [][Next]_vars

-----------------------------------------------------------------------------
\* main() exits with 0 only when the whole list was read: every task that was there
\* throughout is on it.  Whatever starts and exits meanwhile, the list has one header,
\* above the first task, and no thread id twice.
DumpComplete ==
  /\ status = 0 => \A t \in steady : \E i \in DOMAIN out : out[i] = t
  /\ out # <<>> => out[1] = Header /\ \A i, j \in DOMAIN out : i < j => out[i] < out[j]
=============================================================================
