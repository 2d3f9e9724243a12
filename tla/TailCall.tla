------------------------------- MODULE TailCall ------------------------------
(***************************************************************************)
(* 19-tailcall: dispatch() runs at every execve() and jumps through the    *)
(* PROG_ARRAY jmp_table to the handler of the caller's kind, which bumps   *)
(* its counter; the loader fills the table, then attaches dispatch().      *)
(***************************************************************************)
EXTENDS Naturals

CONSTANTS
  Cpus,
  MaxExecs,   \* bound: execve() calls in one behaviour
  None

\* Slots of jmp_table are IDX_USER and IDX_ROOT; those of counts also IDX_MISS.
IDX_USER == 0
IDX_ROOT == 1
IDX_MISS == 2

VARIABLES
  pc,         \* where main() is
  jmp_table,  \* slot -> the counter its handler bumps, or None
  linked,     \* is dispatch() attached?
  at,         \* CPU -> the counter the program on it is about to bump
  counts,     \* counter -> value
  execs       \* ghost: slot -> execve() calls made while attached

vars == <<pc, jmp_table, linked, at, counts, execs>>
progVars == <<at, counts, execs>>

TypeOK ==
  /\ pc \in {"load", "user", "root", "attach", "loop", "cleanup", "exited"}
  /\ jmp_table \in [{IDX_USER, IDX_ROOT} -> {IDX_USER, IDX_ROOT, None}] /\ linked \in BOOLEAN
  /\ at \in [Cpus -> {IDX_USER, IDX_ROOT, IDX_MISS, None}]
  /\ counts \in [{IDX_USER, IDX_ROOT, IDX_MISS} -> Nat] /\ execs \in [{IDX_USER, IDX_ROOT} -> Nat]

Init ==
  /\ pc = "load" /\ jmp_table = [s \in {IDX_USER, IDX_ROOT} |-> None] /\ linked = FALSE
  /\ at = [c \in Cpus |-> None] /\ counts = [i \in {IDX_USER, IDX_ROOT, IDX_MISS} |-> 0]
  /\ execs = [s \in {IDX_USER, IDX_ROOT} |-> 0]

Load ==
  /\ pc = "load" /\ pc' \in {"user", "exited"}
  /\ UNCHANGED <<jmp_table, linked, progVars>>

\* bpf_map_update_elem(jt, &key, &fd, BPF_ANY), or goto cleanup.
\* (Mutant: the key is not set again for the second slot.)
SameSlot(s) == IDX_USER
Slot(s) == s
\* The program whose fd is stored.
Handler(s) == s
Wire(s, from, to) ==
  /\ pc = from
  /\ \/ pc' = to /\ jmp_table' = [jmp_table EXCEPT ![Slot(s)] = Handler(s)]
     \/ pc' = "cleanup" /\ UNCHANGED jmp_table
  /\ UNCHANGED <<linked, progVars>>

\* bpf_program__attach(dispatch), or goto cleanup.
AttachDispatch ==
  /\ pc = "attach"
  /\ \/ pc' = "loop" /\ linked' = TRUE
     \/ pc' = "cleanup" /\ UNCHANGED linked
  /\ UNCHANGED <<jmp_table, progVars>>

\* The loop ends at a signal; bpf_link__destroy(), then the skeleton's destroy,
\* whose last reference to the table empties it.  Programs under way finish first.
Stop == pc = "loop" /\ pc' = "cleanup" /\ UNCHANGED <<jmp_table, linked, progVars>>
Cleanup ==
  \/ pc = "cleanup" /\ linked /\ linked' = FALSE /\ UNCHANGED <<pc, jmp_table, progVars>>
  \/ /\ pc = "cleanup" /\ ~linked /\ \A c \in Cpus : at[c] = None
     /\ pc' = "exited" /\ jmp_table' = [s \in DOMAIN jmp_table |-> None]
     /\ UNCHANGED <<linked, progVars>>

\* dispatch() with the handler it jumps to; without one it falls through.
Dispatch(c, idx) ==
  /\ linked /\ at[c] = None /\ execs[IDX_USER] + execs[IDX_ROOT] < MaxExecs
  /\ execs' = [execs EXCEPT ![idx] = @ + 1]
  /\ at' = [at EXCEPT ![c] = IF jmp_table[idx] # None THEN jmp_table[idx] ELSE IDX_MISS]
  /\ UNCHANGED <<pc, jmp_table, linked, counts>>

\* bump(): an atomic add.
Index(i) == i
Bump(c) ==
  /\ at[c] # None
  /\ counts' = [counts EXCEPT ![Index(at[c])] = @ + 1] /\ at' = [at EXCEPT ![c] = None]
  /\ UNCHANGED <<pc, jmp_table, linked, execs>>

Next ==
  \/ Load \/ Wire(IDX_USER, "user", "root") \/ Wire(IDX_ROOT, "root", "attach")
  \/ AttachDispatch \/ Stop \/ Cleanup
  \/ \E c \in Cpus : Bump(c) \/ \E idx \in {IDX_USER, IDX_ROOT} : Dispatch(c, idx)

Spec == Init /\ [][Next]_vars

-----------------------------------------------------------------------------
\* With both slots wired before dispatch() is attached, and the link destroyed
\* before the table, no tail call ever falls through, and each execve() is counted
\* once, under the kind of its caller.
Tallied ==
  /\ counts[IDX_MISS] = 0 /\ \A c \in Cpus : at[c] # IDX_MISS
  /\ (\A c \in Cpus : at[c] = None) => \A s \in {IDX_USER, IDX_ROOT} : counts[s] = execs[s]
=============================================================================
