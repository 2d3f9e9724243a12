------------------------------ MODULE ReportLog ------------------------------
(***************************************************************************)
(* What a one-record tool promises, without CPUs, places in a ring or a     *)
(* poll loop: the records it has taken are told in the order in which they  *)
(* were taken, each once, and none is left untold unless the tool ends.     *)
(***************************************************************************)
EXTENDS Naturals, Sequences

CONSTANT Most   \* bound: the records whose telling is awaited

VARIABLES
  taken,   \* the records accepted
  told,    \* the records reported to the user
  over     \* the tool has ended

vars == <<taken, told, over>>

Init == taken = <<>> /\ told = <<>> /\ over = FALSE

GrowsByOne(s, t) == Len(t) = Len(s) + 1 /\ SubSeq(t, 1, Len(s)) = s

Take == ~over /\ GrowsByOne(taken, taken') /\ UNCHANGED <<told, over>>

Tell ==
  /\ ~over /\ Len(told) < Len(taken)
  /\ told' = Append(told, taken[Len(told) + 1])
  /\ UNCHANGED <<taken, over>>

End == over' = TRUE /\ UNCHANGED <<taken, told>>

\* Nothing is told that was not taken, or out of order, or twice.
Faithful == Init /\ [][Take \/ Tell \/ End]_vars

\* What is taken is told in the end.
AllTold == \A n \in 1 .. Most : Len(taken) = n ~> over \/ Len(told) >= n

Spec == Faithful /\ AllTold
=============================================================================
