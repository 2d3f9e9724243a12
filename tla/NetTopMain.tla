------------------------------ MODULE NetTopMain -----------------------------
(***************************************************************************)
(* 27-nettop, main() around sample(): the options, the set-up, the sampling *)
(* loop with its sleep, print_sample(), and the signal that ends it.  What *)
(* sample() finds is modelled in NetTop; here a sample is its number of    *)
(* rows.  The loop reads the flag before it sleeps, so a signal that comes *)
(* between the two is noticed one interval later.                          *)
(***************************************************************************)
EXTENDS Naturals

CONSTANTS
  Counts,    \* values of -c tried; 0: run until a signal
  Tops,      \* values of -n tried
  MaxRows,   \* MAX_ROWS of a sample
  MaxFrames, \* bound: frames are counted up to here
  None

VARIABLES
  pc,        \* main()'s next call
  count,     \* env.count
  top,       \* env.top
  exiting,   \* set by on_sigint()
  samples,   \* samples counted against -c
  frame,     \* the last frame: rows of the sample, lines shown, "... more"
  frames,    \* ghost: frames printed
  late,      \* ghost: of those, printed after the signal
  status     \* how main() ended, or None

vars == <<pc, count, top, exiting, samples, frame, frames, late, status>>
env == <<count, top>>
shownVars == <<frame, frames, late>>

SetUp == {"args", "handlers", "calloc", "load", "attach", "prime"}
Loop  == {"check", "sleep", "asleep", "sample"}

TypeOK ==
  /\ pc \in SetUp \cup Loop \cup {"cleanup", "exited"} /\ count \in Counts /\ top \in Tops
  /\ exiting \in BOOLEAN /\ samples \in Nat /\ frames \in 0..MaxFrames /\ late \in 0..MaxFrames
  /\ frame = None \/ frame \in [rows : 0..MaxRows, lines : Nat, more : Nat]
  /\ status \in {None, "ok", "failed", "usage", "killed"}

Init ==
  /\ pc = "args" /\ count \in Counts /\ top \in Tops /\ exiting = FALSE
  /\ samples = 0 /\ frame = None /\ frames = 0 /\ late = 0 /\ status = None

Exit(s) == pc' = "exited" /\ status' = s

\* argp_parse(): an interval that is not positive, or an unknown option, ends in the usage text.
ParseArgs ==
  /\ pc = "args"
  /\ (pc' = "handlers" /\ UNCHANGED status) \/ Exit("usage")
  /\ UNCHANGED <<env, exiting, samples, shownVars>>

\* signal(); calloc(); open_and_load(); attach_all(); the priming sample().
SignalHandlers == pc = "handlers" /\ pc' = "calloc" /\ UNCHANGED <<env, exiting, samples, shownVars, status>>
Call(from, to) ==
  /\ pc = from
  /\ (pc' = to /\ UNCHANGED status) \/ Exit("failed")
  /\ UNCHANGED <<env, exiting, samples, shownVars>>
Prime == pc = "prime" /\ pc' = "check" /\ UNCHANGED <<env, exiting, samples, shownVars, status>>

\* while (!exiting)
Check ==
  /\ pc = "check" /\ pc' = IF exiting THEN "cleanup" ELSE "sleep"
  /\ UNCHANGED <<env, exiting, samples, shownVars, status>>

\* nanosleep() begins, and runs out.
Sleep  == pc = "sleep" /\ pc' = "asleep" /\ UNCHANGED <<env, exiting, samples, shownVars, status>>
WakeUp == pc = "asleep" /\ pc' = "sample" /\ UNCHANGED <<env, exiting, samples, shownVars, status>>

\* print_sample(): the first rows, and how many there are besides.
print_sample(n) ==
  LET lines == IF n < top THEN n ELSE top IN [rows |-> n, lines |-> lines, more |-> n - lines]

\* if (env.count && ++samples >= env.count) break;
\* (Mutant: "samples++ >= env.count".)
EnoughAfter == count # 0 /\ samples >= count
Enough == count # 0 /\ samples + 1 >= count

Another(f) == IF f < MaxFrames THEN f + 1 ELSE f

\* sample(), print_sample(), and -c.
Sample(n) ==
  /\ pc = "sample"
  /\ frame' = print_sample(n) /\ frames' = Another(frames)
  /\ late' = IF exiting THEN Another(late) ELSE late
  /\ samples' = IF count # 0 THEN samples + 1 ELSE samples
  /\ pc' = IF Enough THEN "cleanup" ELSE "check"
  /\ UNCHANGED <<env, exiting, status>>

\* destroy, free, return 0.
Cleanup == pc = "cleanup" /\ Exit("ok") /\ UNCHANGED <<env, exiting, samples, shownVars>>

\* SIGINT, SIGTERM: kill until the handlers are there; then they set the flag, and
\* cut a nanosleep() short, which breaks out of the loop.
Signal ==
  /\ pc # "exited" /\ ~exiting
  /\ IF pc \in {"args", "handlers"} THEN Exit("killed") /\ UNCHANGED exiting
     ELSE /\ exiting' = TRUE /\ UNCHANGED status
          /\ pc' = IF pc = "asleep" THEN "cleanup" ELSE pc
  /\ UNCHANGED <<env, samples, shownVars>>

Next ==
  \/ ParseArgs \/ SignalHandlers \/ Call("calloc", "load") \/ Call("load", "attach")
  \/ Call("attach", "prime") \/ Prime \/ Check \/ Sleep \/ WakeUp \/ Cleanup
  \/ Signal \/ \E n \in 0..MaxRows : Sample(n)

Spec == Init /\ [][Next]_vars

-----------------------------------------------------------------------------
\* With -c N, main() prints N frames, fewer only after a signal and never more; without
\* it, only a signal ends the loop.  After the signal comes at most one frame.  A frame
\* accounts for every row of its sample.
FramesAsAsked ==
  /\ count # 0 => frames <= count
  /\ status = "ok" /\ ~exiting => count # 0 /\ frames = count
  /\ late <= 1
  /\ frame # None => frame.lines + frame.more = frame.rows
=============================================================================
