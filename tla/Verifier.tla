------------------------------- MODULE Verifier ------------------------------
(***************************************************************************)
(* 14-verifier: main() goes through three lessons; each loads a program    *)
(* the verifier must reject, prints the end of the verifier's log, and     *)
(* loads the corrected program.  A specimen is what it does with the       *)
(* values it cannot foresee: a lookup's result and a random number.  All   *)
(* loads share the static logbuf.                                          *)
(***************************************************************************)
EXTENDS Naturals, Sequences

CONSTANTS
  Keep,      \* lines print_log_tail() is asked for (12)
  MaxKeep,   \* the size of its ring (64)
  MaxLog,    \* bound: lines of a log
  None

VARIABLES
  lesson,    \* index into lessons
  pc,        \* "bad", "tail", "good", "told": main()'s place in it
  logbuf,    \* lines of the buffer: positive numbers, or Blank
  err,       \* did the last load_only() fail?
  tail,      \* what print_log_tail() printed, or None: "no verifier log captured"
  written,   \* ghost: the log of the last load with want_log
  broken     \* ghost: did a load of this lesson fail outside the verifier?

vars == <<lesson, pc, logbuf, err, tail, written, broken>>

-----------------------------------------------------------------------------
(* The specimens: is a run on this input free of what the verifier forbids? *)

Inputs == [val : {None, 0}, draw : 0..63]   \* of a draw's 32 bits, the low 6

Deref(val) == val # None
bad_null_deref(x)  == Deref(x.val)
good_null_deref(x) == x.val = None \/ Deref(x.val)

\* A loop that goes on while the draw is odd, and the draws are all alike.
bad_unbounded_loop(x) == x.draw % 2 = 0
\* The loop leaves at i = 64.
good_bounded_loop(x) == \E i \in 0..64 : ~(i < 64)

InBuf(i) == i \in 0..15
bad_oob_index(x) == InBuf(x.draw)
good_oob_index(x) == InBuf(x.draw % 16)

\* lessons[]: the program of lesson l, on input x.
Specimen(l, good, x) ==
  CASE l = 1 -> IF good THEN good_null_deref(x) ELSE bad_null_deref(x)
    [] l = 2 -> IF good THEN good_bounded_loop(x) ELSE bad_unbounded_loop(x)
    [] l = 3 -> IF good THEN good_oob_index(x) ELSE bad_oob_index(x)

\* The verifier, as far as the lessons go: it takes a program that is safe on every input.
Accepts(l, good) == \A x \in Inputs : Specimen(l, good, x)

-----------------------------------------------------------------------------
(* print_log_tail()                                                        *)

\* A log's k-th line is k, or blank.
Blank == 0
Logs == UNION {{[k \in 1..m |-> IF k \in B THEN Blank ELSE k] : B \in SUBSET (1..m)} : m \in 1..MaxLog}

Clamp(n) == IF n < 1 THEN 1 ELSE IF n > MaxKeep THEN MaxKeep ELSE n

\* A line that is not blank goes to ring[count % n].
Put(s, l, n) ==
  IF l = Blank THEN s
  ELSE [ring |-> [s.ring EXCEPT ![s.count % n] = l], count |-> s.count + 1]
\* The scan of the log.
Scan(log, n) ==
  LET after[k \in 0..Len(log)] ==
        IF k = 0 THEN [ring |-> [j \in 0..n - 1 |-> Blank], count |-> 0]
        ELSE Put(after[k - 1], log[k], n)
  IN  after[Len(log)]

\* Where the oldest line is.
\* (Mutant: the ring is printed from its first slot.)
OldestFirst(count, n) == 0
Oldest(count, n) == IF count < n THEN 0 ELSE count % n

print_log_tail(log, n) ==
  IF log = <<>> THEN None
  ELSE LET s     == Scan(log, n)
           shown == IF s.count < n THEN s.count ELSE n
       IN  [i \in 1..shown |-> s.ring[(Oldest(s.count, n) + i - 1) % n]]

-----------------------------------------------------------------------------
(* main()                                                                  *)

TypeOK ==
  /\ lesson \in 1..4 /\ pc \in {"bad", "tail", "good", "told"} /\ err \in BOOLEAN
  /\ logbuf \in Logs \cup {<<>>} /\ written \in Logs \cup {<<>>} /\ broken \in BOOLEAN
  /\ tail = None \/ DOMAIN tail \subseteq 1..MaxKeep

Init ==
  /\ lesson = 1 /\ pc = "bad" /\ logbuf = <<>> /\ err = FALSE /\ tail = None
  /\ written = <<>> /\ broken = FALSE

\* What load_only() leaves in the buffer before the load: "logbuf[0] = '\0'".
Cleared == <<>>

\* load_only(L->bad, 1): the verifier writes its log, whatever it decides; a failure
\* before it (no memory, no permission) writes none.
LoadBad ==
  /\ lesson <= 3 /\ pc = "bad"
  /\ \/ \E log \in Logs :
          err' = ~Accepts(lesson, FALSE) /\ logbuf' = log /\ written' = log /\ broken' = FALSE
     \/ err' = TRUE /\ logbuf' = Cleared /\ written' = <<>> /\ broken' = TRUE
  /\ pc' = IF err' THEN "tail" ELSE "good"
  /\ UNCHANGED <<lesson, tail>>

PrintTail ==
  /\ pc = "tail" /\ pc' = "good" /\ tail' = print_log_tail(logbuf, Clamp(Keep))
  /\ UNCHANGED <<lesson, logbuf, err, written, broken>>

\* load_only(L->good, 0)
LoadGood ==
  /\ pc = "good" /\ pc' = "told"
  /\ \/ err' = ~Accepts(lesson, TRUE) /\ UNCHANGED broken
     \/ err' = TRUE /\ broken' = TRUE
  /\ UNCHANGED <<lesson, logbuf, tail, written>>

NextLesson ==
  /\ pc = "told" /\ pc' = "bad" /\ lesson' = lesson + 1
  /\ UNCHANGED <<logbuf, err, tail, written, broken>>

Next == LoadBad \/ PrintTail \/ LoadGood \/ NextLesson
Spec == Init /\ [][Next]_vars

-----------------------------------------------------------------------------
\* s is the end of the log: its last lines that are not blank, Keep of them or all there
\* are, in their order.
TailOf(s, log) ==
  LET lines == {k \in DOMAIN log : log[k] # Blank}
      shown == {s[i] : i \in DOMAIN s} IN
    /\ Len(s) <= Keep /\ shown \subseteq lines
    /\ \A i, j \in DOMAIN s : i < j => s[i] < s[j]
    /\ \A x \in lines \ shown : Len(s) = Keep /\ \A y \in shown : x < y

\* Each lesson comes out as main() announces it, unless a load fails outside the
\* verifier: the first program is reported as rejected, the corrected one as loaded.
\* Below a rejection stand the last lines of this load's log, in their order and
\* without the blank ones; no line of an earlier lesson's log.
LessonTold ==
  /\ ~broken /\ lesson <= 3 => /\ pc \in {"tail", "good"} => err
                               /\ pc = "told" => ~err
  /\ pc = "good" /\ err =>
       IF written = <<>> THEN tail = None ELSE TailOf(tail, written)
=============================================================================
