------------------------------- MODULE Lessons -------------------------------
(* The lessons of 14-verifier with variables of their own names, to stand    *)
(* beside other tools.                                                       *)
EXTENDS Naturals, Sequences

CONSTANTS Keep, MaxKeep, MaxLog, Null   \* Verifier's; Null is its None

\* The lines print_log_tail() is asked for fit its ring: main() asks for 12 of 64.
ASSUME LessonAssumption == MaxKeep \in Nat /\ Keep \in 1..MaxKeep

VARIABLES lessonPc, lesson, logbuf, err, tail, written, broken

V == INSTANCE Verifier WITH pc <- lessonPc, None <- Null

lessonVars == <<lessonPc, lesson, logbuf, err, tail, written, broken>>

\* Verifier's LessonTold: bad programs are reported as rejected, above the end of the
\* log of that very load, and corrected ones as loaded.
LessonsTold == V!LessonTold
=============================================================================
