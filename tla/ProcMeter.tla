------------------------------ MODULE ProcMeter ------------------------------
(***************************************************************************)
(* What nettop promises of proc_stats_map, without handlers' steps, map     *)
(* elements or the poller's walk: a meter for each process.  A call that a  *)
(* process has begun is added to the meter of that process once and whole,  *)
(* or refused whole when there is no room for a meter; and a meter is       *)
(* closed, with all that is on it, only when its process has gone.          *)
(***************************************************************************)
EXTENDS Naturals

CONSTANTS
  Lanes,   \* where calls run, one at a time on each
  Procs, Dirs, Sizes

VARIABLES
  here,   \* process -> is there a process of that name?
  call,   \* lane -> the call begun there and not counted yet, if there is one
  live,   \* process -> direction -> bytes on its meter
  gone    \* process -> direction -> bytes of its meters that were closed

vars == <<here, call, live, gone>>

Init ==
  /\ here = [p \in Procs |-> TRUE] /\ call = [l \in Lanes |-> {}]
  /\ live = [p \in Procs |-> [d \in Dirs |-> 0]] /\ gone = live

Begin(l, p, d, n) ==
  /\ here[p] /\ call[l] = {}
  /\ call' = [call EXCEPT ![l] = {[proc |-> p, dir |-> d, size |-> n]}]
  /\ UNCHANGED <<here, live, gone>>

Count(l) ==
  /\ \E k \in call[l] : live' = [live EXCEPT ![k.proc][k.dir] = @ + k.size]
  /\ call' = [call EXCEPT ![l] = {}] /\ UNCHANGED <<here, gone>>

Refuse(l) ==
  /\ call[l] # {} /\ call' = [call EXCEPT ![l] = {}] /\ UNCHANGED <<here, live, gone>>

Close(p) ==
  /\ ~here[p]
  /\ gone' = [gone EXCEPT ![p] = [d \in Dirs |-> gone[p][d] + live[p][d]]]
  /\ live' = [live EXCEPT ![p] = [d \in Dirs |-> 0]]
  /\ UNCHANGED <<here, call>>

\* A process exits when none of its calls is under way; its name may be given away again.
Exit(p) ==
  /\ here[p] /\ \A l \in Lanes : \A k \in call[l] : k.proc # p
  /\ here' = [here EXCEPT ![p] = FALSE] /\ UNCHANGED <<call, live, gone>>
Spawn(p) ==
  /\ ~here[p] /\ here' = [here EXCEPT ![p] = TRUE] /\ UNCHANGED <<call, live, gone>>

Next ==
  \/ \E p \in Procs : Close(p) \/ Exit(p) \/ Spawn(p)
  \/ \E l \in Lanes : Count(l) \/ Refuse(l) \/ \E p \in Procs, d \in Dirs, n \in Sizes : Begin(l, p, d, n)

Spec == Init /\ [][Next]_vars
=============================================================================
