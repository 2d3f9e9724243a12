--------------------------- MODULE ExecArgsProofs ---------------------------
(***************************************************************************)
(* What the execve() tools print, for any number of CPUs, processes and    *)
(* arguments and any size of the rings and of the table.                   *)
(*                                                                         *)
(* OrderInv is inductive: the records of a process that has not moved lie  *)
(* in one ring in the order they were sent (RingInv), an argument is       *)
(* followed by its EVENT_RET or its program still runs (ClosedInv), and a  *)
(* slot holds arguments of its pid that precede all that waits and all     *)
(* that is to come (SlotInv).  On top of it, WholeInv says of a process on *)
(* its own that its slot holds the beginning of one command and that no    *)
(* record of its commands is missing between the slot and the program.     *)
(***************************************************************************)
EXTENDS ExecArgs, TLAPS

\* The records not yet consumed, and the ones a process sends.
Waiting == UNION {{rings[r][i] : i \in DOMAIN rings[r]} : r \in Rings}
ArgRec(a) == [pid |-> a.pid, arg |-> a, id |-> a.id]
RetRec(p, d) == [pid |-> p, arg |-> None, id |-> d]
ArgOf(x, k) == [id |-> x.id, index |-> k, argc |-> x.argc, pid |-> x.pid]

\* The order in which a process sends its records, and how far a program has come.
Earlier(q, e) ==
  q.id < e.id \/ (q.id = e.id /\ q.arg # None /\ (e.arg = None \/ q.arg.index < e.arg.index))
ArgBefore(a, e) == a.id < e.id \/ (a.id = e.id /\ (e.arg = None \/ a.index < e.arg.index))
ArgSent(a, x) == a.id < x.id \/ (a.id = x.id /\ a.index < x.next)
RecSent(e, x) == e.id < x.id \/ (e.id = x.id /\ e.arg # None /\ e.arg.index < x.next)

Runs(c, p) == running[c] # None /\ running[c].pid = p

WellFormed(e) ==
  /\ e.id <= execs
  /\ e.arg # None => /\ e.arg.id = e.id /\ e.arg.pid = e.pid
                     /\ e.arg.index < Least(e.arg.argc, MAXARGS)
  /\ OneRecord => e.arg # None /\ e.arg.argc = 1
ProgramOK(x) ==
  /\ x.id <= execs /\ x.next <= Least(x.argc, MAXARGS)
  /\ OneRecord => x.argc = 1 /\ x.next = 0

\* The records of a process that has not moved lie in one ring, in order, and the
\* program that sends more of them sends them there.
InLine(p) ==
  /\ \A r, o \in Rings : \A i \in DOMAIN rings[r], j \in DOMAIN rings[o] :
       rings[r][i].pid = p /\ rings[o][j].pid = p =>
         r = o /\ (i < j => Earlier(rings[r][i], rings[o][j]))
  /\ \A c \in Cpus, r \in Rings : \A i \in DOMAIN rings[r] :
       Runs(c, p) /\ rings[r][i].pid = p => r = RingOf(c) /\ RecSent(rings[r][i], running[c])

SendInv ==
  /\ \A c \in Cpus : running[c] # None => ProgramOK(running[c])
  /\ \A c, d \in Cpus, p \in Pids : Runs(c, p) /\ Runs(d, p) => c = d
  /\ \A e \in Waiting : WellFormed(e)
  /\ \A p \in Pids \ moved : InLine(p)

RingInv == TypeOK /\ SendInv

\* An argument is followed by its EVENT_RET in the same ring, or its program runs.
Closed(r, i) ==
  LET e == rings[r][i] IN
    \/ \E j \in DOMAIN rings[r] : i < j /\ rings[r][j] = RetRec(e.pid, e.id)
    \/ \E c \in Cpus : Runs(c, e.pid) /\ running[c].id = e.id /\ RingOf(c) = r
ClosedInv ==
  ~OneRecord => \A r \in Rings : \A i \in DOMAIN rings[r] :
                  rings[r][i].arg # None /\ rings[r][i].pid \notin lost => Closed(r, i)

\* What a slot holds is of its pid, in order, before what waits and what is to come.
Increasing(argv) ==
  \A i, j \in DOMAIN argv : i < j =>
    argv[i].id < argv[j].id \/ (argv[i].id = argv[j].id /\ argv[i].index < argv[j].index)
SlotOK(s) ==
  LET t == table[s] IN
    /\ ~OneRecord /\ s = get_slot(t.pid) /\ t.argv # <<>>
    /\ \A i \in DOMAIN t.argv : t.argv[i].pid = t.pid /\ t.argv[i].id <= execs
    /\ t.pid \notin moved =>
         /\ Increasing(t.argv)
         /\ \A i \in DOMAIN t.argv, e \in Waiting : e.pid = t.pid => ArgBefore(t.argv[i], e)
         /\ \A i \in DOMAIN t.argv, c \in Cpus : Runs(c, t.pid) => ArgSent(t.argv[i], running[c])
    /\ t.pid \notin lost =>
         (\E d \in 1..MaxExecs : RetRec(t.pid, d) \in Waiting) \/ \E c \in Cpus : Runs(c, t.pid)
SlotInv == (\A s \in Slots : table[s] # None => SlotOK(s)) /\ ArgsInOrder

-----------------------------------------------------------------------------
(* The rings.                                                                *)

\* What it is to wait, for rings in place of a union of sets.
LEMMA InWaiting == \A e : e \in Waiting <=> \E r \in Rings : \E i \in DOMAIN rings[r] : rings[r][i] = e
BY DEF Waiting

LEMMA RingIsRing == \A c \in Cpus : RingOf(c) \in Rings
BY Zenon DEF RingOf, Rings

\* Emit(c, rec) with room in the ring: rec comes last in the ring of c and no ring
\* changes otherwise.
LEMMA Room ==
  ASSUME TypeOK, NEW c \in Cpus, NEW rec \in Record, Emit(c, rec), RoomFor(c)
  PROVE  /\ UNCHANGED lost /\ rings' \in [Rings -> Seq(Record)]
         /\ \A r \in Rings : Len(rings'[r]) <= RingSize
         /\ \A r \in Rings : rings'[r] = IF r = RingOf(c) THEN Append(rings[r], rec) ELSE rings[r]
         /\ Len(rings[RingOf(c)]) + 1 \in DOMAIN rings'[RingOf(c)]
         /\ rings'[RingOf(c)][Len(rings[RingOf(c)]) + 1] = rec
         /\ \A r \in Rings : \A i \in DOMAIN rings[r] : i \in DOMAIN rings'[r] /\ rings'[r][i] = rings[r][i]
         /\ \A r \in Rings : \A i \in DOMAIN rings'[r] :
              i \in DOMAIN rings[r] \/ (r = RingOf(c) /\ i = Len(rings[r]) + 1)
<1>1. RingOf(c) \in Rings /\ rings \in [Rings -> Seq(Record)] /\ UNCHANGED lost
  BY Zenon, RingIsRing DEF TypeOK, Emit
<1>2. rings' = [rings EXCEPT ![RingOf(c)] = Append(@, rec)]
  BY Zenon DEF Emit
<1>3. \A r \in Rings : rings'[r] = IF r = RingOf(c) THEN Append(rings[r], rec) ELSE rings[r]
  BY Zenon, <1>1, <1>2
<1>4. rings' \in [Rings -> Seq(Record)]
  BY <1>1, <1>2
<1>5. Len(rings[RingOf(c)]) \in Nat /\ Len(rings[RingOf(c)]) < RingSize
  BY <1>1 DEF RoomFor
<1> DEFINE q == rings[RingOf(c)]
           n == Append(q, rec)
<1>6. /\ Len(n) = Len(q) + 1 /\ DOMAIN n = 1..Len(q) + 1 /\ DOMAIN q = 1..Len(q)
      /\ n[Len(q) + 1] = rec /\ \A i \in 1..Len(q) : n[i] = q[i]
  <2>1. q \in Seq(Record)
    BY Zenon, <1>1
  <2> HIDE DEF q
  <2> QED
    BY <2>1
<1>7. rings'[RingOf(c)] = n
  BY Zenon, <1>1, <1>3
<1>8. \A r \in Rings : r # RingOf(c) => rings'[r] = rings[r]
  BY Zenon, <1>3
<1> HIDE DEF n
<1>9. ASSUME NEW r \in Rings PROVE Len(rings'[r]) <= RingSize
  <2>1. CASE r = RingOf(c)
    BY <1>5, <1>6, <1>7, <2>1, ExecAssumption
  <2> QED
    BY Zenon, <1>8, <2>1 DEF TypeOK
<1>10. ASSUME NEW r \in Rings, NEW i \in DOMAIN rings[r] PROVE i \in DOMAIN rings'[r] /\ rings'[r][i] = rings[r][i]
  <2>1. CASE r = RingOf(c)
    BY <1>5, <1>6, <1>7, <2>1
  <2> QED
    BY Zenon, <1>8, <2>1
<1>11. ASSUME NEW r \in Rings, NEW i \in DOMAIN rings'[r]
       PROVE  i \in DOMAIN rings[r] \/ (r = RingOf(c) /\ i = Len(rings[r]) + 1)
  <2>1. CASE r = RingOf(c)
    BY <1>5, <1>6, <1>7, <2>1
  <2> QED
    BY Zenon, <1>8, <2>1
<1>12. /\ Len(rings[RingOf(c)]) + 1 \in DOMAIN rings'[RingOf(c)]
       /\ rings'[RingOf(c)][Len(rings[RingOf(c)]) + 1] = rec
  BY <1>5, <1>6, <1>7
<1> QED
  BY Zenon, <1>1, <1>3, <1>4, <1>9, <1>10, <1>11, <1>12

\* Emit adds at most its own record to what waits.
LEMMA WaitingGrows ==
  ASSUME TypeOK, NEW c \in Cpus, NEW rec \in Record, Emit(c, rec)
  PROVE  Waiting' = IF RoomFor(c) THEN Waiting \cup {rec} ELSE Waiting
<1>1. CASE RoomFor(c)
  <2>1. ASSUME NEW e \in Waiting' PROVE e \in Waiting \cup {rec}
    <3>1. PICK r \in Rings : \E i \in DOMAIN rings'[r] : rings'[r][i] = e
      BY Zenon DEF Waiting, Rings
    <3>2. PICK i \in DOMAIN rings'[r] : rings'[r][i] = e
      BY Zenon, <3>1
    <3>3. CASE i \in DOMAIN rings[r]
      BY <1>1, <3>2, <3>3, Room, InWaiting
    <3>4. CASE r = RingOf(c) /\ i = Len(rings[r]) + 1
      BY Zenon, <1>1, <3>2, <3>4, Room
    <3> QED
      BY Zenon, <1>1, <3>3, <3>4, Room
  <2>2. ASSUME NEW e \in Waiting PROVE e \in Waiting'
    <3>1. PICK r \in Rings : \E i \in DOMAIN rings[r] : rings[r][i] = e
      BY Zenon, InWaiting
    <3>2. PICK i \in DOMAIN rings[r] : rings[r][i] = e
      BY Zenon, <3>1
    <3>3. i \in DOMAIN rings'[r] /\ rings'[r][i] = e
      BY Zenon, <1>1, <3>2, Room
    <3> QED
      BY <3>3 DEF Waiting, Rings
  <2>3. rec \in Waiting'
    BY <1>1, Room, RingIsRing DEF Waiting, Rings
  <2> QED
    BY Zenon, <1>1, <2>1, <2>2, <2>3
<1>2. CASE ~RoomFor(c)
  BY <1>2 DEF Emit, Waiting, Rings
<1> QED
  BY Zenon, <1>1, <1>2

\* Consuming the head of a ring moves its other records one place forward.
LEMMA Taken ==
  ASSUME TypeOK, NEW r \in Rings, rings[r] # <<>>, rings' = [rings EXCEPT ![r] = Tail(@)]
  PROVE  /\ rings' \in [Rings -> Seq(Record)] /\ \A o \in Rings : Len(rings'[o]) <= RingSize
         /\ 1 \in DOMAIN rings[r] /\ rings[r][1] = Head(rings[r]) /\ Head(rings[r]) \in Record
         /\ \A o \in Rings \ {r} : rings'[o] = rings[o]
         /\ \A i \in DOMAIN rings'[r] : i \in Nat /\ i + 1 \in DOMAIN rings[r] /\ rings'[r][i] = rings[r][i + 1] 
         /\ \A i \in DOMAIN rings[r] : i \in Nat /\ (i # 1 => i - 1 \in DOMAIN rings'[r] /\ rings'[r][i - 1] = rings[r][i])
<1>1. rings \in [Rings -> Seq(Record)] /\ rings[r] \in Seq(Record) /\ Len(rings[r]) \in Nat /\ Len(rings[r]) > 0
  BY DEF TypeOK
<1>2. rings'[r] = Tail(rings[r]) /\ \A o \in Rings \ {r} : rings'[o] = rings[o]
  BY Zenon, <1>1
<1>3. rings' \in [Rings -> Seq(Record)]
  BY <1>1
<1>4. /\ Len(rings'[r]) = Len(rings[r]) - 1 /\ DOMAIN rings'[r] = 1..Len(rings[r]) - 1
      /\ \A i \in 1..Len(rings[r]) - 1 : rings'[r][i] = rings[r][i + 1]
  BY <1>1, <1>2
<1>5. \A o \in Rings : Len(rings'[o]) <= RingSize
  BY <1>1, <1>2, <1>4, ExecAssumption DEF TypeOK
<1>6. DOMAIN rings[r] = 1..Len(rings[r]) /\ rings[r][1] = Head(rings[r]) /\ Head(rings[r]) \in Record
  BY <1>1
<1>7. \A i \in DOMAIN rings'[r] : i \in Nat /\ i + 1 \in DOMAIN rings[r] /\ rings'[r][i] = rings[r][i + 1] 
  BY <1>1, <1>4, <1>6
<1>8. \A i \in DOMAIN rings[r] : i \in Nat /\ (i # 1 => i - 1 \in DOMAIN rings'[r] /\ rings'[r][i - 1] = rings[r][i])
  BY <1>1, <1>4, <1>6
<1> QED
  BY <1>1, <1>2, <1>3, <1>5, <1>6, <1>7, <1>8

\* Consuming the head of a ring takes at most that record from what waits.
LEMMA WaitingShrinks ==
  ASSUME TypeOK, NEW r \in Rings, rings[r] # <<>>, rings' = [rings EXCEPT ![r] = Tail(@)]
  PROVE  /\ Head(rings[r]) \in Waiting /\ Waiting' \subseteq Waiting
         /\ Waiting \subseteq Waiting' \cup {Head(rings[r])}
<1>1. Head(rings[r]) \in Waiting
  <2>1. 1 \in DOMAIN rings[r] /\ rings[r][1] = Head(rings[r])
    BY Zenon, Taken
  <2> QED
    BY Zenon, <2>1, InWaiting
<1>2. ASSUME NEW e \in Waiting' PROVE e \in Waiting
  <2>1. PICK o \in Rings : \E i \in DOMAIN rings'[o] : rings'[o][i] = e
    BY DEF Waiting, Rings
  <2>2. PICK i \in DOMAIN rings'[o] : rings'[o][i] = e
    BY Zenon, <2>1
  <2>3. \E k \in DOMAIN rings[o] : rings[o][k] = e
    <3>1. CASE o = r
      <4>1. i + 1 \in DOMAIN rings[r] /\ rings'[r][i] = rings[r][i + 1]
        BY Zenon, <2>2, <3>1, Taken
      <4> QED
        BY Zenon, <2>2, <3>1, <4>1
    <3>2. CASE o # r
      BY Zenon, <2>2, <3>2, Taken
    <3> QED
      BY Zenon, <3>1, <3>2
  <2> QED
    BY Zenon, <2>3, InWaiting
<1>3. ASSUME NEW e \in Waiting, e # Head(rings[r]) PROVE e \in Waiting'
  <2>1. PICK o \in Rings : \E i \in DOMAIN rings[o] : rings[o][i] = e
    BY Zenon, InWaiting
  <2>2. PICK i \in DOMAIN rings[o] : rings[o][i] = e
    BY Zenon, <2>1
  <2>3. \E k \in DOMAIN rings'[o] : rings'[o][k] = e
    <3>1. CASE o # r
      BY Zenon, <2>2, <3>1, Taken
    <3>2. CASE o = r
      <4>1. i # 1
        BY Zenon, <1>3, <2>2, <3>2, Taken
      <4>2. i - 1 \in DOMAIN rings'[o] /\ rings'[o][i - 1] = e
        BY Zenon, <2>2, <3>2, <4>1, Taken
      <4> QED
        BY Zenon, <4>2
    <3> QED
      BY Zenon, <3>1, <3>2
  <2> QED
    BY <2>3 DEF Waiting, Rings
<1> QED
  BY Zenon, <1>1, <1>2, <1>3

\* A chapter keeps its number of records per command, its rings and its slots.
LEMMA Chapter ==
  ASSUME UNCHANGED chapter
  PROVE  /\ OneRecord' = OneRecord /\ PerCpu' = PerCpu /\ \A p : get_slot(p)' = get_slot(p)
         /\ \A c : RingOf(c)' = RingOf(c)
BY Zenon DEF OneRecord, PerCpu, get_slot, RingOf

LEMMA LeastType ==
  ASSUME NEW n \in ArgCounts
  PROVE  n \in Nat /\ Least(n, MAXARGS) \in 0..MAXARGS /\ Least(n, MAXARGS) \in Nat /\ Least(n, MAXARGS) <= n
BY ExecAssumption DEF Least

\* The fields of a running program, and of a record.
LEMMA ExecType ==
  ASSUME TypeOK, NEW c \in Cpus, running[c] # None
  PROVE  /\ running[c] \in Exec /\ running[c].id \in 1..MaxExecs /\ running[c].id \in Nat /\ running[c].pid \in Pids
         /\ running[c].argc \in ArgCounts /\ running[c].next \in 0..MAXARGS /\ running[c].next \in Nat
BY ExecAssumption DEF TypeOK, Exec

LEMMA RecordType ==
  ASSUME TypeOK
  PROVE  /\ Waiting \subseteq Record
         /\ \A r \in Rings : rings[r] \in Seq(Record) /\ \A i \in DOMAIN rings[r] : rings[r][i] \in Waiting /\ i \in Nat
<1>1. rings \in [Rings -> Seq(Record)]
  BY Zenon DEF TypeOK
<1>2. \A r \in Rings : \A i \in DOMAIN rings[r] : rings[r][i] \in Record /\ i \in Nat
  BY <1>1
<1>3. \A r \in Rings : \A i \in DOMAIN rings[r] : rings[r][i] \in Waiting
  BY Zenon, InWaiting
<1>4. \A r \in Rings : rings[r] \in Seq(Record)
  BY Zenon, <1>1
<1>5. \A e \in Waiting : e \in Record
  BY Zenon, <1>2, InWaiting
<1> QED
  BY Zenon, <1>2, <1>3, <1>4, <1>5

LEMMA RecordFields ==
  ASSUME NEW e \in Record
  PROVE  /\ e.pid \in Pids /\ e.id \in 1..MaxExecs /\ e.id \in Nat
         /\ e.arg # None => /\ e.arg \in Arg /\ e.arg.index \in 0..MAXARGS - 1 /\ e.arg.index \in Nat
                            /\ e.arg.argc \in ArgCounts /\ e.arg.id \in Nat /\ e.arg.pid \in Pids
BY ExecAssumption DEF Record, Arg

\* SendInv under each step: a program emits a record, a record is consumed, a
\* process calls execve().
LEMMA SendEmit ==
  ASSUME RingInv, NEW c \in Cpus, running[c] # None, NEW rec \in Record, rec.pid = running[c].pid,
         rec.id = running[c].id, WellFormed(rec), rec.arg # None => rec.arg.index = running[c].next,
         Emit(c, rec), NEW y, running' = [running EXCEPT ![c] = y],
         y # None => /\ rec.arg # None /\ ~OneRecord /\ running[c].next < Least(running[c].argc, MAXARGS)
                     /\ y = [running[c] EXCEPT !.next = @ + 1],
         UNCHANGED <<chapter, execs, moved>>
  PROVE  SendInv'
<1> DEFINE x == running[c]
<1>1. x \in Exec /\ x.id \in Nat /\ x.pid \in Pids /\ x.argc \in ArgCounts /\ x.next \in Nat
  BY Zenon, ExecType DEF RingInv
<1>2. /\ running'[c] = y /\ \A d \in Cpus : d # c => running'[d] = running[d]
  BY Zenon DEF RingInv, TypeOK
<1>3. y # None => y.id = x.id /\ y.pid = x.pid /\ y.argc = x.argc /\ y.next = x.next + 1
  BY Zenon, <1>1 DEF Exec
<1>4. /\ OneRecord' = OneRecord /\ \A d : RingOf(d)' = RingOf(d)
  BY Zenon, Chapter
<1>5. \A d \in Cpus, p \in Pids : Runs(d, p)' => Runs(d, p)
  BY Zenon, <1>2, <1>3 DEF Runs
<1>6. \A d \in Cpus : running'[d] # None => ProgramOK(running[d])'
  <2> TAKE d \in Cpus
  <2>1. CASE d # c
    BY Zenon, <1>2, <1>4, <2>1 DEF RingInv, SendInv, ProgramOK
  <2>2. CASE d = c
    <3> HAVE running'[d] # None
    <3>1. y # None
      BY Zenon, <1>2, <2>2
    <3>2. Least(x.argc, MAXARGS) \in Nat
      BY Zenon, <1>1, LeastType
    <3>3. y.next <= Least(y.argc, MAXARGS) /\ ~OneRecord
      BY <1>1, <1>3, <3>1, <3>2
    <3>4. y.id <= execs
      BY Zenon, <1>3, <3>1 DEF RingInv, SendInv, ProgramOK
    <3> QED
      BY Zenon, <1>2, <1>4, <2>2, <3>1, <3>3, <3>4 DEF ProgramOK
  <2> QED
    BY Zenon, <2>1, <2>2
<1>7. \A d, f \in Cpus, p \in Pids : Runs(d, p)' /\ Runs(f, p)' => d = f
  BY Zenon, <1>5 DEF RingInv, SendInv
<1>8. \A e \in Waiting' : WellFormed(e)'
  <2>1. \A e : WellFormed(e)' <=> WellFormed(e)
    BY Zenon, <1>4 DEF WellFormed
  <2>2. Waiting' \subseteq Waiting \cup {rec}
    BY Zenon, WaitingGrows DEF RingInv
  <2> QED
    BY Zenon, <2>1, <2>2 DEF RingInv, SendInv
<1>9. ASSUME NEW p \in Pids \ moved PROVE InLine(p)'
  <2>1. InLine(p)
    BY Zenon DEF RingInv, SendInv
  <2>2. CASE ~RoomFor(c)
    <3>1. rings' = rings
      BY Zenon, <2>2 DEF Emit
    <3>2. ASSUME NEW d \in Cpus, NEW r \in Rings, NEW i \in DOMAIN rings[r], Runs(d, p)', rings[r][i].pid = p
          PROVE  r = RingOf(d) /\ RecSent(rings[r][i], running'[d])
      <4>1. Runs(d, p) /\ r = RingOf(d) /\ RecSent(rings[r][i], running[d])
        BY Zenon, <1>5, <2>1, <3>2 DEF InLine
      <4>2. CASE d # c
        BY Zenon, <1>2, <4>1, <4>2
      <4>3. CASE d = c
        <5>1. y # None
          BY Zenon, <1>2, <3>2, <4>3 DEF Runs
        <5>2. rings[r][i].arg # None => rings[r][i].arg.index \in Nat
          BY Zenon, RecordType, RecordFields DEF RingInv
        <5> QED
          BY <1>1, <1>2, <1>3, <4>1, <4>3, <5>1, <5>2 DEF RecSent
      <4> QED
        BY Zenon, <4>2, <4>3
    <3> QED
      BY <1>4, <2>1, <3>1, <3>2 DEF InLine, Rings
  <2>3. CASE RoomFor(c)
    <3> DEFINE g == RingOf(c)
               l == Len(rings[g]) + 1
    <3>0. TypeOK
      BY Zenon DEF RingInv
    <3>1. /\ g \in Rings /\ l \in DOMAIN rings'[g] /\ rings'[g][l] = rec /\ l \in Nat
          /\ \A i \in DOMAIN rings[g] : i \in Nat /\ i < l
      <4>1. rings[g] \in Seq(Record) /\ g \in Rings
        BY Zenon, <3>0, RecordType, RingIsRing
      <4>2. Len(rings[g]) \in Nat /\ DOMAIN rings[g] = 1..Len(rings[g])
        BY <4>1
      <4> QED
        BY <2>3, <3>0, <4>1, <4>2, Room
    <3>2. \A r \in Rings : \A i \in DOMAIN rings'[r] :
            (i \in DOMAIN rings[r] /\ rings'[r][i] = rings[r][i]) \/ (r = g /\ i = l)
      BY <2>3, <3>0, Room
    <3>3. \A r \in Rings : \A i \in DOMAIN rings[r] :
            rings[r][i].pid \in Pids /\ rings[r][i].id \in Nat /\ (rings[r][i].arg # None => rings[r][i].arg.index \in Nat)
      BY Zenon, <3>0, RecordType, RecordFields
    <3> HIDE DEF l, g
    <3>4. ASSUME NEW r \in Rings, NEW o \in Rings, NEW i \in DOMAIN rings'[r], NEW j \in DOMAIN rings'[o],
                 rings'[r][i].pid = p, rings'[o][j].pid = p
          PROVE  r = o /\ (i < j => Earlier(rings'[r][i], rings'[o][j]))
      <4>1. CASE i \in DOMAIN rings[r] /\ rings'[r][i] = rings[r][i] /\ j \in DOMAIN rings[o] /\ rings'[o][j] = rings[o][j]
        BY ZenonT(30), <2>1, <3>4, <4>1 DEF InLine
      <4>2. CASE i \in DOMAIN rings[r] /\ rings'[r][i] = rings[r][i] /\ o = g /\ j = l
        <5>1. Runs(c, p)
          BY Zenon, <3>1, <3>4, <4>2 DEF Runs
        <5>2. r = g /\ RecSent(rings[r][i], x)
          BY Zenon, <2>1, <3>4, <4>2, <5>1 DEF InLine, g
        <5>3. Earlier(rings[r][i], rec)
          BY Zenon, <1>1, <3>3, <4>2, <5>2 DEF RecSent, Earlier
        <5> QED
          BY Zenon, <3>1, <4>2, <5>2, <5>3
      <4>3. CASE r = g /\ i = l /\ j \in DOMAIN rings[o] /\ rings'[o][j] = rings[o][j]
        <5>1. Runs(c, p)
          BY Zenon, <3>1, <3>4, <4>3 DEF Runs
        <5>2. o = g
          BY Zenon, <2>1, <3>4, <4>3, <5>1 DEF InLine, g
        <5>3. ~(i < j)
          BY <3>1, <4>3, <5>2
        <5> QED
          BY Zenon, <4>3, <5>2, <5>3
      <4>4. CASE r = g /\ i = l /\ o = g /\ j = l
        BY <3>1, <4>4
      <4> QED
        BY Zenon, <3>2, <4>1, <4>2, <4>3, <4>4
    <3>5. ASSUME NEW d \in Cpus, NEW r \in Rings, NEW i \in DOMAIN rings'[r], Runs(d, p)', rings'[r][i].pid = p
          PROVE  r = RingOf(d) /\ RecSent(rings'[r][i], running'[d])
      <4>1. Runs(d, p)
        BY Zenon, <1>5, <3>5
      <4>2. CASE i \in DOMAIN rings[r] /\ rings'[r][i] = rings[r][i]
        <5>1. r = RingOf(d) /\ RecSent(rings[r][i], running[d])
          BY Zenon, <2>1, <3>5, <4>1, <4>2 DEF InLine
        <5>2. CASE d # c
          BY Zenon, <1>2, <4>2, <5>1, <5>2
        <5>3. CASE d = c
          <6>1. y # None
            BY Zenon, <1>2, <3>5, <5>3 DEF Runs
          <6> QED
            BY <1>1, <1>2, <1>3, <3>3, <4>2, <5>1, <5>3, <6>1 DEF RecSent
        <5> QED
          BY Zenon, <5>2, <5>3
      <4>3. CASE r = g /\ i = l
        <5>1. Runs(c, p)
          BY Zenon, <3>1, <3>5, <4>3 DEF Runs
        <5>2. d = c
          BY Zenon, <4>1, <5>1 DEF RingInv, SendInv
        <5>3. y # None
          BY Zenon, <1>2, <3>5, <5>2 DEF Runs
        <5> QED
          BY <1>1, <1>2, <1>3, <3>1, <4>3, <5>2, <5>3 DEF RecSent, g
      <4> QED
        BY Zenon, <3>2, <4>2, <4>3
    <3> QED
      BY Zenon, <1>4, <3>4, <3>5 DEF InLine, Rings
  <2> QED
    BY Zenon, <2>2, <2>3
<1> QED
  BY Zenon, <1>6, <1>7, <1>8, <1>9 DEF SendInv

LEMMA SendTake ==
  ASSUME RingInv, NEW r \in Rings, rings[r] # <<>>, rings' = [rings EXCEPT ![r] = Tail(@)],
         UNCHANGED <<chapter, execs, running, moved>>
  PROVE  SendInv'
<1>0. TypeOK
  BY Zenon DEF RingInv
<1>1. OneRecord' = OneRecord /\ \A d : RingOf(d)' = RingOf(d)
  BY Zenon, Chapter
<1>2. \A c \in Cpus, p \in Pids : Runs(c, p)' <=> Runs(c, p)
  BY Zenon DEF Runs
<1>3. \A c \in Cpus : running'[c] # None => ProgramOK(running[c])'
  BY Zenon, <1>1 DEF RingInv, SendInv, ProgramOK
<1>4. \A e \in Waiting' : WellFormed(e)'
  <2>1. \A e : WellFormed(e)' <=> WellFormed(e)
    BY Zenon, <1>1 DEF WellFormed
  <2> QED
    BY Zenon, <1>0, <2>1, WaitingShrinks DEF RingInv, SendInv
<1>5. ASSUME NEW o \in Rings, NEW i \in DOMAIN rings'[o]
      PROVE  LET k == IF o = r THEN i + 1 ELSE i IN i \in Nat /\ k \in DOMAIN rings[o] /\ rings'[o][i] = rings[o][k]
  <2>1. CASE o = r
    BY Zenon, <1>0, <2>1, Taken
  <2>2. CASE o # r
    BY Zenon, <1>0, <2>2, Taken, RecordType
  <2> QED
    BY Zenon, <2>1, <2>2
<1>6. ASSUME NEW p \in Pids \ moved PROVE InLine(p)'
  <2>1. InLine(p)
    BY Zenon DEF RingInv, SendInv
  <2>2. ASSUME NEW a \in Rings, NEW b \in Rings, NEW i \in DOMAIN rings'[a], NEW j \in DOMAIN rings'[b],
               rings'[a][i].pid = p, rings'[b][j].pid = p
        PROVE  a = b /\ (i < j => Earlier(rings'[a][i], rings'[b][j]))
    <3> DEFINE k == IF a = r THEN i + 1 ELSE i
               l == IF b = r THEN j + 1 ELSE j
    <3>1. /\ i \in Nat /\ k \in DOMAIN rings[a] /\ rings'[a][i] = rings[a][k]
          /\ j \in Nat /\ l \in DOMAIN rings[b] /\ rings'[b][j] = rings[b][l]
      BY Zenon, <1>5
    <3>2. a = b => (i < j => k < l)
      BY <3>1
    <3> HIDE DEF k, l
    <3>3. a = b /\ (k < l => Earlier(rings[a][k], rings[b][l]))
      BY Zenon, <2>1, <2>2, <3>1 DEF InLine
    <3> QED
      BY Zenon, <3>1, <3>2, <3>3
  <2>3. ASSUME NEW c \in Cpus, NEW a \in Rings, NEW i \in DOMAIN rings'[a], Runs(c, p), rings'[a][i].pid = p
        PROVE  a = RingOf(c) /\ RecSent(rings'[a][i], running[c])
    <3> DEFINE k == IF a = r THEN i + 1 ELSE i
    <3>1. k \in DOMAIN rings[a] /\ rings'[a][i] = rings[a][k]
      BY Zenon, <1>5
    <3> HIDE DEF k
    <3> QED
      BY Zenon, <2>1, <2>3, <3>1 DEF InLine
  <2> QED
    BY Zenon, <1>1, <1>2, <2>2, <2>3 DEF InLine, Rings
<1> QED
  BY Zenon, <1>2, <1>3, <1>4, <1>6 DEF RingInv, SendInv

LEMMA SendExecve ==
  ASSUME RingInv, NEW c \in Cpus, NEW p \in Pids, NEW n \in ArgCounts, Execve(c, p, n)
  PROVE  SendInv'
<1> DEFINE y == [id |-> execs + 1, pid |-> p, argc |-> n, next |-> 0]
<1>0. TypeOK /\ execs \in Nat
  BY ExecAssumption DEF RingInv, TypeOK
<1>1. OneRecord' = OneRecord /\ \A d : RingOf(d)' = RingOf(d)
  BY Zenon, Chapter DEF Execve
<1>2. /\ running'[c] = y /\ \A d \in Cpus : d # c => running'[d] = running[d]
  BY Zenon, <1>0 DEF Execve, TypeOK
<1>3. /\ execs' = execs + 1 /\ rings' = rings /\ Waiting' = Waiting /\ moved \subseteq moved' /\ running[c] = None
      /\ (OneRecord => n = 1) /\ \A d \in Cpus : ~Runs(d, p)
  BY DEF Execve, Waiting, Rings, Runs
<1>4. y.id = execs + 1 /\ y.pid = p /\ y.argc = n /\ y.next = 0
  BY Zenon
<1> HIDE DEF y
<1>5. \A d \in Cpus, q \in Pids : Runs(d, q)' => (d = c /\ q = p) \/ (d # c /\ Runs(d, q))
  BY Zenon, <1>2, <1>4 DEF Runs
<1>6. ASSUME NEW d \in Cpus, running'[d] # None PROVE ProgramOK(running[d])'
  <2>1. CASE d # c
    <3>1. ProgramOK(running[d]) /\ running[d].id \in Nat
      BY Zenon, <1>0, <1>2, <1>6, <2>1, ExecType DEF RingInv, SendInv
    <3> QED
      BY <1>0, <1>1, <1>2, <1>3, <2>1, <3>1 DEF ProgramOK
  <2>2. CASE d = c
    BY <1>0, <1>1, <1>2, <1>3, <1>4, <2>2, LeastType DEF ProgramOK
  <2> QED
    BY Zenon, <2>1, <2>2
<1>7. \A d, f \in Cpus, q \in Pids : Runs(d, q)' /\ Runs(f, q)' => d = f
  BY Zenon, <1>3, <1>5 DEF RingInv, SendInv
<1>8. ASSUME NEW e \in Waiting PROVE WellFormed(e)'
  <2>1. WellFormed(e) /\ e.id \in Nat
    BY Zenon, <1>0, RecordType, RecordFields DEF RingInv, SendInv
  <2> QED
    BY <1>0, <1>1, <1>3, <2>1 DEF WellFormed
<1>9. ASSUME NEW q \in Pids \ moved' PROVE InLine(q)'
  <2>1. InLine(q)
    BY Zenon, <1>3 DEF RingInv, SendInv
  <2>2. ASSUME NEW d \in Cpus, NEW r \in Rings, NEW i \in DOMAIN rings[r], Runs(d, q)', rings[r][i].pid = q
        PROVE  r = RingOf(d) /\ RecSent(rings[r][i], running'[d])
    <3>1. CASE d # c
      BY Zenon, <1>2, <1>5, <2>1, <2>2, <3>1 DEF InLine
    <3>2. CASE d = c /\ q = p
      <4>1. r = RingOf(c)
        BY Zenon, <2>2, <3>2 DEF Execve
      <4>2. rings[r][i].id \in Nat /\ rings[r][i].id <= execs
        BY Zenon, <1>0, RecordType, RecordFields DEF RingInv, SendInv, WellFormed
      <4> QED
        BY <1>0, <1>2, <1>4, <3>2, <4>1, <4>2 DEF RecSent
    <3> QED
      BY Zenon, <1>5, <2>2, <3>1, <3>2
  <2> QED
    BY <1>1, <1>3, <2>1, <2>2 DEF InLine, Rings
<1> QED
  BY Zenon, <1>3, <1>6, <1>7, <1>8, <1>9 DEF SendInv

\* What the program sends.
LEMMA SentArg ==
  ASSUME RingInv, NEW c \in Cpus, running[c] # None, running[c].next < Least(running[c].argc, MAXARGS)
  PROVE  LET a == ArgOf(running[c], running[c].next) IN
           /\ a \in Arg /\ a # None /\ ArgRec(a) \in Record /\ WellFormed(ArgRec(a))
           /\ a.id = running[c].id /\ a.pid = running[c].pid /\ a.argc = running[c].argc /\ a.index = running[c].next
           /\ ArgRec(a).pid = a.pid /\ ArgRec(a).id = a.id /\ ArgRec(a).arg = a
<1> DEFINE x == running[c]
           a == ArgOf(x, x.next)
<1>1. x.id \in 1..MaxExecs /\ x.pid \in Pids /\ x.argc \in ArgCounts /\ x.next \in Nat
  BY Zenon, ExecType DEF RingInv
<1>2. x.next \in 0..MAXARGS - 1
  <2>1. Least(x.argc, MAXARGS) \in 0..MAXARGS /\ x.next < Least(x.argc, MAXARGS)
    BY Zenon, <1>1, LeastType
  <2> QED
    BY <1>1, <2>1, ExecAssumption
<1>3. a.id = x.id /\ a.pid = x.pid /\ a.argc = x.argc /\ a.index = x.next
  BY Zenon DEF ArgOf
<1>4. a \in Arg
  BY Zenon, <1>1, <1>2 DEF ArgOf, Arg
<1>5. a # None
  BY Zenon, <1>4, NoneAssumption
<1> HIDE DEF a
<1>6. ArgRec(a).pid = a.pid /\ ArgRec(a).id = a.id /\ ArgRec(a).arg = a
  BY Zenon DEF ArgRec
<1>7. ArgRec(a) \in Record
  BY Zenon, <1>1, <1>3, <1>4 DEF ArgRec, Record
<1>8. x.id <= execs /\ (OneRecord => x.argc = 1)
  BY Zenon DEF RingInv, SendInv, ProgramOK
<1>9. WellFormed(ArgRec(a))
  BY Zenon, <1>3, <1>5, <1>6, <1>8 DEF WellFormed
<1> QED
  BY Zenon, <1>3, <1>4, <1>5, <1>6, <1>7, <1>9 DEF a

\* A program after the argument it has emitted.
LEMMA Advanced ==
  ASSUME TypeOK, NEW c \in Cpus, running[c] # None, running[c].next < Least(running[c].argc, MAXARGS)
  PROVE  LET y == [running[c] EXCEPT !.next = @ + 1] IN
           /\ y \in Exec /\ y # None /\ y.id = running[c].id /\ y.pid = running[c].pid
           /\ y.argc = running[c].argc /\ y.next = running[c].next + 1
<1> DEFINE x == running[c]
           y == [x EXCEPT !.next = @ + 1]
<1>1. x \in Exec /\ x.next \in Nat /\ x.argc \in ArgCounts
  BY Zenon, ExecType
<1>2. Least(x.argc, MAXARGS) \in 0..MAXARGS /\ x.next < Least(x.argc, MAXARGS)
  BY Zenon, <1>1, LeastType
<1>3. x.next + 1 \in 0..MAXARGS
  BY <1>1, <1>2, ExecAssumption
<1>4. y \in Exec /\ y.id = x.id /\ y.pid = x.pid /\ y.argc = x.argc /\ y.next = x.next + 1
  BY Zenon, <1>1, <1>3 DEF Exec
<1> QED
  BY Zenon, <1>4, NoneAssumption

\* The EVENT_RET that a program emits.
LEMMA SentRet ==
  ASSUME RingInv, NEW c \in Cpus, running[c] # None, ~OneRecord
  PROVE  LET e == RetRec(running[c].pid, running[c].id) IN
           /\ e \in Record /\ WellFormed(e) /\ e.pid = running[c].pid /\ e.id = running[c].id /\ e.arg = None
<1> DEFINE x == running[c]
           e == RetRec(x.pid, x.id)
<1>1. x.id \in 1..MaxExecs /\ x.pid \in Pids /\ x.id <= execs
  BY Zenon, ExecType DEF RingInv, SendInv, ProgramOK
<1>2. e.pid = x.pid /\ e.id = x.id /\ e.arg = None
  BY Zenon DEF RetRec
<1>3. e \in Record
  BY Zenon, <1>1 DEF RetRec, Record
<1>4. WellFormed(e)
  BY Zenon, <1>1, <1>2 DEF WellFormed
<1> QED
  BY Zenon, <1>2, <1>3, <1>4

\* EmitOnly, EmitArg and EmitRet as one Emit and one assignment to the program.
LEMMA AsOnly ==
  ASSUME RingInv, NEW c \in Cpus, EmitOnly(c)
  PROVE  /\ OneRecord /\ running[c] # None /\ running[c].next < Least(running[c].argc, MAXARGS) /\ running[c].next = 0
         /\ running[c].argc = 1 /\ Emit(c, ArgRec(ArgOf(running[c], running[c].next)))
         /\ running' = [running EXCEPT ![c] = None]
         /\ owed' = IF RoomFor(c) THEN owed \cup {<<running[c].id, running[c].pid>>} ELSE owed
         /\ UNCHANGED <<chapter, execs, table, line, moved>>
<1>1. /\ OneRecord /\ running[c] # None /\ running' = [running EXCEPT ![c] = None]
      /\ owed' = IF RoomFor(c) THEN owed \cup {<<running[c].id, running[c].pid>>} ELSE owed
      /\ UNCHANGED <<chapter, execs, table, line, moved>>
  BY Zenon DEF EmitOnly
<1>2. running[c].argc = 1 /\ running[c].next = 0
  BY Zenon, <1>1 DEF RingInv, SendInv, ProgramOK
<1>3. ArgRec(ArgOf(running[c], running[c].next)) =
        [pid |-> running[c].pid, id |-> running[c].id,
         arg |-> [id |-> running[c].id, index |-> 0, argc |-> running[c].argc, pid |-> running[c].pid]]
  BY Zenon, <1>2 DEF ArgRec, ArgOf
<1>4. Emit(c, ArgRec(ArgOf(running[c], running[c].next)))
  BY <1>3, Zenon DEF EmitOnly
<1>5. running[c].next < Least(running[c].argc, MAXARGS)
  BY <1>2, ExecAssumption DEF Least
<1> QED
  BY Zenon, <1>1, <1>2, <1>4, <1>5

LEMMA AsArg ==
  ASSUME RingInv, NEW c \in Cpus, EmitArg(c)
  PROVE  /\ ~OneRecord /\ running[c] # None /\ running[c].next < Least(running[c].argc, MAXARGS)
         /\ Emit(c, ArgRec(ArgOf(running[c], running[c].next)))
         /\ running' = [running EXCEPT ![c] = IF RoomFor(c) \/ PerCpu THEN [running[c] EXCEPT !.next = @ + 1] ELSE None]
         /\ UNCHANGED <<chapter, execs, table, line, owed, moved>>
<1>1. ArgRec(ArgOf(running[c], running[c].next)) =
        [pid |-> running[c].pid, id |-> running[c].id,
         arg |-> [id |-> running[c].id, index |-> running[c].next, argc |-> running[c].argc, pid |-> running[c].pid]]
  BY Zenon DEF ArgRec, ArgOf
<1> QED
  BY <1>1, Zenon DEF EmitArg

LEMMA AsRet ==
  ASSUME RingInv, NEW c \in Cpus, EmitRet(c)
  PROVE  /\ ~OneRecord /\ running[c] # None /\ running[c].next = Least(running[c].argc, MAXARGS)
         /\ Emit(c, RetRec(running[c].pid, running[c].id)) /\ running' = [running EXCEPT ![c] = None]
         /\ owed' = IF RoomFor(c) /\ running[c].argc > 0 THEN owed \cup {<<running[c].id, running[c].pid>>} ELSE owed
         /\ UNCHANGED <<chapter, execs, table, line, moved>>
BY Zenon DEF EmitRet, RetRec

\* The slot of a pid is one of the table.
LEMMA SlotType ==
  ASSUME NEW p \in Pids
  PROVE  get_slot(p) \in Slots /\ (chapter = 8 => get_slot(p) < TABLE_SIZE)
<1>1. p % TABLE_SIZE \in 0..TABLE_SIZE - 1
  BY ExecAssumption
<1> QED
  BY <1>1, ExecAssumption DEF get_slot, Slots

\* The slot after an EVENT_ARG.
LEMMA Added ==
  ASSUME TypeOK, NEW e \in Record, e.arg # None, SlotInv
  PROVE  LET t == SlotFor(e)
             n == AddArg(t, e.arg) IN
           /\ t \in Pending /\ t.pid = e.pid /\ n \in Pending /\ n # None /\ n.pid = e.pid
           /\ n.argv # <<>> /\ (chapter = 8 => Len(n.argv) \in 1..MAXARGS)
           /\ IF Full(t) THEN n = t /\ t.argv # <<>> ELSE n.argv = Append(t.argv, e.arg)
           /\ t.argv # <<>> => table[get_slot(e.pid)] # None /\ table[get_slot(e.pid)].pid = e.pid
                               /\ t = table[get_slot(e.pid)]
           /\ t.argv = <<>> => ~(table[get_slot(e.pid)] # None /\ table[get_slot(e.pid)].pid = e.pid)
<1> DEFINE s == get_slot(e.pid)
           t == SlotFor(e)
           n == AddArg(t, e.arg)
           mine == table[s] # None /\ table[s].pid = e.pid
<1>1. s \in Slots /\ e.pid \in Pids /\ e.arg \in Arg
  BY Zenon, SlotType, RecordFields
<1>2. t = IF mine THEN table[s] ELSE [pid |-> e.pid, argv |-> <<>>]
  BY Zenon DEF SlotFor
<1>3. mine => table[s] \in Pending /\ table[s].argv # <<>> /\ (chapter = 8 => Len(table[s].argv) \in 1..MAXARGS)
  BY Zenon, <1>1 DEF TypeOK, SlotInv, SlotOK
<1>4. [pid |-> e.pid, argv |-> <<>>] \in Pending
  BY <1>1 DEF Pending
<1>5. t \in Pending /\ t.pid = e.pid /\ (mine <=> t.argv # <<>>) /\ (mine => t = table[s])
      /\ (chapter = 8 => Len(t.argv) \in 0..MAXARGS)
  BY <1>2, <1>3, <1>4, ExecAssumption
<1> HIDE DEF t, mine
<1>6. t.argv \in Seq(Arg) /\ Len(t.argv) \in Nat
  BY <1>5 DEF Pending
<1>7. CASE Full(t)
  <2>1. n = t /\ Len(t.argv) >= MAXARGS /\ chapter = 8
    BY Zenon, <1>7 DEF AddArg, Full
  <2>2. t.argv # <<>>
    BY <1>6, <2>1, ExecAssumption
  <2> QED
    BY <1>5, <1>6, <1>7, <2>1, <2>2, NoneAssumption, ExecAssumption DEF t, mine
<1>8. CASE ~Full(t)
  <2>1. n = [t EXCEPT !.argv = Append(@, e.arg)] /\ (chapter = 8 => Len(t.argv) < MAXARGS)
    BY <1>6, <1>8, ExecAssumption DEF AddArg, Full
  <2>2. n.argv = Append(t.argv, e.arg) /\ n.pid = t.pid /\ n \in Pending
    BY <1>1, <1>5, <1>6, <2>1 DEF Pending
  <2>3. Len(n.argv) = Len(t.argv) + 1 /\ n.argv # <<>>
    BY <1>1, <1>6, <2>2
  <2>4. chapter = 8 => Len(n.argv) \in 1..MAXARGS
    BY <1>6, <2>1, <2>3, ExecAssumption
  <2>5. n # None
    BY Zenon, <2>2, NoneAssumption
  <2> QED
    BY Zenon, <1>5, <1>8, <2>2, <2>3, <2>4, <2>5 DEF t, mine
<1> QED
  BY Zenon, <1>7, <1>8

-----------------------------------------------------------------------------
(* The types and the rings, step by step.                                    *)

\* RingInv under each step.
LEMMA RingEmit ==
  ASSUME RingInv, NEW c \in Cpus, EmitOnly(c) \/ EmitArg(c) \/ EmitRet(c)
  PROVE  RingInv'
<1> DEFINE x == running[c]
<1>0. TypeOK
  BY Zenon DEF RingInv
<1>1. ASSUME NEW rec \in Record, rec.pid = x.pid, Emit(c, rec), NEW y \in Exec \cup {None},
             running' = [running EXCEPT ![c] = y], NEW o \in (1..MaxExecs) \X Pids,
             owed' = owed \/ owed' = owed \cup {o}, UNCHANGED <<chapter, execs, table, line, moved>>
      PROVE  TypeOK'
  <2>1. rings' \in [Rings -> Seq(Record)] /\ \A r \in Rings : Len(rings'[r]) <= RingSize
    <3>1. CASE RoomFor(c)
      BY Zenon, <1>0, <1>1, <3>1, Room
    <3>2. CASE ~RoomFor(c)
      BY Zenon, <1>0, <1>1, <3>2 DEF Emit, TypeOK
    <3> QED
      BY Zenon, <3>1, <3>2
  <2>2. lost' \subseteq Pids
    BY Zenon, <1>0, <1>1, RecordFields DEF Emit, TypeOK
  <2>3. running' \in [Cpus -> Exec \cup {None}] /\ owed' \subseteq (1..MaxExecs) \X Pids
    BY Zenon, <1>0, <1>1 DEF TypeOK
  <2> QED
    BY Zenon, <1>0, <1>1, <2>1, <2>2, <2>3 DEF TypeOK, Rings, Slots, Exec, Pending, Arg, Record
<1>2. running[c] # None
  BY Zenon, AsOnly, AsArg, AsRet
<1>3. x \in Exec /\ x.id \in 1..MaxExecs /\ x.pid \in Pids /\ x.next \in Nat /\ x.argc \in ArgCounts
      /\ <<x.id, x.pid>> \in (1..MaxExecs) \X Pids
  BY Zenon, <1>0, <1>2, ExecType
<1>4. CASE EmitOnly(c)
  <2> DEFINE a == ArgOf(x, x.next)
  <2>1. /\ ArgRec(a) \in Record /\ WellFormed(ArgRec(a)) /\ ArgRec(a).pid = x.pid /\ ArgRec(a).id = x.id
        /\ ArgRec(a).arg = a /\ a.index = x.next
    BY Zenon, <1>2, <1>4, AsOnly, SentArg
  <2>2. Emit(c, ArgRec(a)) /\ running' = [running EXCEPT ![c] = None] /\ UNCHANGED <<chapter, execs, table, line, moved>>
        /\ (owed' = owed \/ owed' = owed \cup {<<x.id, x.pid>>})
    BY Zenon, <1>4, AsOnly
  <2> HIDE DEF a
  <2>3. SendInv'
    BY Zenon, <1>2, <2>1, <2>2, SendEmit
  <2>4. TypeOK'
    BY Zenon, <1>1, <1>3, <2>1, <2>2
  <2> QED
    BY Zenon, <2>3, <2>4 DEF RingInv
<1>5. CASE EmitArg(c)
  <2> DEFINE a == ArgOf(x, x.next)
             y == IF RoomFor(c) \/ PerCpu THEN [x EXCEPT !.next = @ + 1] ELSE None
  <2>1. x.next < Least(x.argc, MAXARGS) /\ ~OneRecord
    BY Zenon, <1>5, AsArg
  <2>2. /\ ArgRec(a) \in Record /\ WellFormed(ArgRec(a)) /\ ArgRec(a).pid = x.pid /\ ArgRec(a).id = x.id
        /\ ArgRec(a).arg = a /\ a # None /\ a.index = x.next
    BY Zenon, <1>2, <2>1, SentArg
  <2>3. Emit(c, ArgRec(a)) /\ running' = [running EXCEPT ![c] = y] /\ UNCHANGED <<chapter, execs, table, line, owed, moved>>
    BY Zenon, <1>5, AsArg
  <2>4. y # None => y = [x EXCEPT !.next = @ + 1]
    BY Zenon
  <2>5. [x EXCEPT !.next = @ + 1] \in Exec
    BY Zenon, <1>0, <1>2, <2>1, Advanced
  <2>6. y \in Exec \cup {None}
    BY Zenon, <2>5
  <2> HIDE DEF a, y
  <2>7. SendInv'
    BY Zenon, <1>2, <2>1, <2>2, <2>3, <2>4, SendEmit
  <2>8. TypeOK'
    BY Zenon, <1>1, <1>3, <2>2, <2>3, <2>6
  <2> QED
    BY <2>7, <2>8 DEF RingInv
<1>6. CASE EmitRet(c)
  <2> DEFINE e == RetRec(x.pid, x.id)
  <2>1. e \in Record /\ WellFormed(e) /\ e.pid = x.pid /\ e.id = x.id /\ e.arg = None
    BY Zenon, <1>2, <1>6, AsRet, SentRet
  <2>2. Emit(c, e) /\ running' = [running EXCEPT ![c] = None] /\ UNCHANGED <<chapter, execs, table, line, moved>>
        /\ (owed' = owed \/ owed' = owed \cup {<<x.id, x.pid>>})
    BY Zenon, <1>6, AsRet
  <2> HIDE DEF e
  <2>3. SendInv'
    BY Zenon, <1>2, <2>1, <2>2, SendEmit
  <2>4. TypeOK'
    BY Zenon, <1>1, <1>3, <2>1, <2>2
  <2> QED
    BY <2>3, <2>4 DEF RingInv
<1> QED
  BY Zenon, <1>4, <1>5, <1>6

LEMMA RingExecve ==
  ASSUME RingInv, NEW c \in Cpus, NEW p \in Pids, NEW n \in ArgCounts, Execve(c, p, n)
  PROVE  RingInv'
<1>1. SendInv'
  BY Zenon, SendExecve
<1>2. TypeOK
  BY Zenon DEF RingInv
<1>3. execs' \in 0..MaxExecs /\ execs + 1 \in 1..MaxExecs
  BY <1>2, ExecAssumption DEF Execve, TypeOK
<1>4. [id |-> execs + 1, pid |-> p, argc |-> n, next |-> 0] \in Exec
  BY <1>3, ExecAssumption DEF Exec
<1>5. running' \in [Cpus -> Exec \cup {None}] /\ moved' \subseteq Pids
  BY Zenon, <1>2, <1>4 DEF Execve, TypeOK
<1>6. UNCHANGED <<chapter, rings, table, line, owed, lost>>
  BY Zenon DEF Execve
<1>7. TypeOK'
  BY Zenon, <1>2, <1>3, <1>5, <1>6 DEF TypeOK, Rings, Slots, Exec, Pending, Arg, Record
<1> QED
  BY Zenon, <1>1, <1>7 DEF RingInv

LEMMA RingTake ==
  ASSUME RingInv, SlotInv, NEW r \in Rings, handle_event(r) \/ print_event(r)
  PROVE  RingInv'
<1> DEFINE e == Head(rings[r])
           s == get_slot(e.pid)
<1>0. TypeOK
  BY Zenon DEF RingInv
<1>1. rings[r] # <<>> /\ rings' = [rings EXCEPT ![r] = Tail(@)] /\ UNCHANGED <<chapter, execs, running, lost, moved>>
  BY Zenon DEF handle_event, print_event
<1>2. SendInv'
  BY Zenon, <1>1, SendTake
<1>3. rings' \in [Rings -> Seq(Record)] /\ (\A o \in Rings : Len(rings'[o]) <= RingSize) /\ e \in Record /\ e \in Waiting
  BY Zenon, <1>0, <1>1, Taken, WaitingShrinks
<1>4. s \in Slots /\ (chapter = 8 => s < TABLE_SIZE) /\ e.pid \in Pids
  BY Zenon, <1>3, SlotType, RecordFields
<1>5. CASE print_event(r)
  <2>1. OneRecord /\ line' = [pid |-> e.pid, argv |-> <<e.arg>>] /\ owed' = owed \ {<<e.id, e.pid>>} /\ UNCHANGED table
    BY Zenon, <1>5 DEF print_event
  <2>2. e.arg \in Arg
    BY Zenon, <1>3, <2>1, RecordFields DEF RingInv, SendInv, WellFormed
  <2>3. line' \in Pending
    BY <1>4, <2>1, <2>2 DEF Pending
  <2>4. owed' \subseteq (1..MaxExecs) \X Pids
    BY Zenon, <1>0, <2>1 DEF TypeOK
  <2>5. TypeOK'
    BY Zenon, <1>0, <1>1, <1>3, <2>1, <2>3, <2>4 DEF TypeOK, Rings, Slots, Exec, Pending, Arg, Record
  <2> QED
    BY Zenon, <1>2, <2>5 DEF RingInv
<1>6. CASE handle_event(r)
  <2>1. CASE e.arg # None
    <3> DEFINE n == AddArg(SlotFor(e), e.arg)
    <3>1. table' = [table EXCEPT ![s] = n] /\ UNCHANGED <<line, owed>>
      BY Zenon, <1>6, <2>1 DEF handle_event
    <3>2. n \in Pending /\ (chapter = 8 => Len(n.argv) \in 1..MAXARGS)
      BY Zenon, <1>0, <1>3, <2>1, Added
    <3> HIDE DEF n
    <3>3. table' \in [Slots -> Pending \cup {None}]
      BY Zenon, <1>0, <3>1, <3>2 DEF TypeOK
    <3>4. chapter = 8 => \A q \in Slots : table'[q] # None => q < TABLE_SIZE /\ Len(table'[q].argv) \in 1..MAXARGS
      BY Zenon, <1>0, <1>4, <3>1, <3>2 DEF TypeOK
    <3>5. TypeOK'
      BY Zenon, <1>0, <1>1, <1>3, <3>1, <3>3, <3>4 DEF TypeOK, Rings, Slots, Exec, Pending, Arg, Record
    <3> QED
      BY <1>2, <3>5 DEF RingInv
  <2>2. CASE e.arg = None /\ table[s] # None /\ table[s].pid = e.pid
    <3>1. table' = [table EXCEPT ![s] = None] /\ line' = table[s] /\ owed' = owed \ {<<e.id, e.pid>>}
      BY Zenon, <1>6, <2>2 DEF handle_event, Clear
    <3>2. table' \in [Slots -> Pending \cup {None}] /\ line' \in Pending
          /\ owed' \subseteq (1..MaxExecs) \X Pids
      BY Zenon, <1>0, <1>4, <2>2, <3>1 DEF TypeOK
    <3>3. chapter = 8 => \A q \in Slots : table'[q] # None => q < TABLE_SIZE /\ Len(table'[q].argv) \in 1..MAXARGS
      BY Zenon, <1>0, <1>4, <3>1 DEF TypeOK
    <3>4. TypeOK'
      BY Zenon, <1>0, <1>1, <1>3, <3>2, <3>3 DEF TypeOK, Rings, Slots, Exec, Pending, Arg, Record
    <3> QED
      BY <1>2, <3>4 DEF RingInv
  <2>3. CASE e.arg = None /\ ~(table[s] # None /\ table[s].pid = e.pid)
    <3>1. UNCHANGED <<table, line, owed>>
      BY Zenon, <1>6, <2>3 DEF handle_event
    <3>2. TypeOK'
      BY Zenon, <1>0, <1>1, <1>3, <3>1 DEF TypeOK, Rings, Slots, Exec, Pending, Arg, Record
    <3> QED
      BY <1>2, <3>2 DEF RingInv
  <2> QED
    BY Zenon, <2>1, <2>2, <2>3
<1> QED
  BY Zenon, <1>5, <1>6

-----------------------------------------------------------------------------
(* The slots.                                                                *)

\* What is consumed comes before what still waits of the same process.
LEMMA HeadFirst ==
  ASSUME RingInv, NEW r \in Rings, rings[r] # <<>>, rings' = [rings EXCEPT ![r] = Tail(@)],
         NEW e, e = Head(rings[r]), e.pid \notin moved, NEW f \in Waiting', f.pid = e.pid
  PROVE  Earlier(e, f)
<1>0. TypeOK
  BY Zenon DEF RingInv
<1>1. 1 \in DOMAIN rings[r] /\ rings[r][1] = e /\ e \in Record /\ e.pid \in Pids
  BY Zenon, <1>0, Taken, RecordFields
<1>2. InLine(e.pid)
  BY Zenon, <1>1 DEF RingInv, SendInv
<1>3. PICK o \in Rings : \E i \in DOMAIN rings'[o] : rings'[o][i] = f
  BY DEF Waiting, Rings
<1>4. PICK i \in DOMAIN rings'[o] : rings'[o][i] = f
  BY Zenon, <1>3
<1>5. CASE o = r
  <2>1. i \in Nat /\ i + 1 \in DOMAIN rings[r] /\ rings[r][i + 1] = f
    BY Zenon, <1>0, <1>4, <1>5, Taken
  <2>2. i # 0
    <3>1. rings'[r] \in Seq(Record)
      BY Zenon, <1>0, Taken
    <3> QED
      BY <1>4, <1>5, <3>1
  <2>3. 1 < i + 1
    BY <2>1, <2>2
  <2> QED
    BY <1>1, <1>2, <2>1, <2>3 DEF InLine
<1>6. CASE o # r
  <2>1. i \in DOMAIN rings[o] /\ rings[o][i] = f
    BY Zenon, <1>0, <1>4, <1>6, Taken
  <2> QED
    BY Zenon, <1>1, <1>2, <1>6, <2>1 DEF InLine
<1> QED
  BY Zenon, <1>5, <1>6

\* ClosedInv under each step of a command of several records.
LEMMA ClosedEmit ==
  ASSUME RingInv, ClosedInv, NEW c \in Cpus, EmitArg(c) \/ EmitRet(c)
  PROVE  ClosedInv'
<1> DEFINE x == running[c]
           g == RingOf(c)
<1>0. TypeOK /\ g \in Rings
  BY Zenon, RingIsRing DEF RingInv
<1>1. ~OneRecord /\ OneRecord' = OneRecord /\ \A d : RingOf(d)' = RingOf(d)
  BY Zenon, Chapter, AsArg, AsRet
<1>2. x # None /\ x \in Exec /\ x.next \in Nat
  BY Zenon, <1>0, ExecType, AsArg, AsRet
<1>3. PICK rec \in Record : Emit(c, rec) /\ rec.pid = x.pid /\ rec.id = x.id /\ (EmitRet(c) => rec = RetRec(x.pid, x.id))
                            /\ (EmitArg(c) => rec.arg # None)
  BY <1>2, AsArg, AsRet, SentArg, SentRet
<1>4. RoomFor(c) \/ x.pid \in lost'
  BY Zenon, <1>3 DEF Emit
<1>5. lost \subseteq lost'
  BY Zenon, <1>3 DEF Emit
<1>6. EmitArg(c) /\ RoomFor(c) => running'[c] # None /\ running'[c].pid = x.pid /\ running'[c].id = x.id
  <2> SUFFICES ASSUME EmitArg(c), RoomFor(c) PROVE running'[c] # None /\ running'[c].pid = x.pid /\ running'[c].id = x.id
    BY Zenon
  <2>1. running'[c] = [x EXCEPT !.next = @ + 1]
    BY Zenon, <1>0, AsArg DEF TypeOK
  <2> QED
    BY Zenon, <1>0, <1>2, <2>1, AsArg, Advanced
<1>7. ASSUME NEW d \in Cpus, d # c PROVE running'[d] = running[d]
  BY Zenon, <1>0, <1>7, AsArg, AsRet DEF TypeOK
<1>8. ASSUME NEW r \in Rings, NEW i \in DOMAIN rings[r], rings[r][i].arg # None, rings[r][i].pid \notin lost',
             rings'[r][i] = rings[r][i], \A j \in DOMAIN rings[r] : j \in DOMAIN rings'[r] /\ rings'[r][j] = rings[r][j]
      PROVE  Closed(r, i)'
  <2>1. Closed(r, i)
    BY Zenon, <1>1, <1>5, <1>8 DEF ClosedInv
  <2> DEFINE e == rings[r][i]
  <2>2. CASE \E j \in DOMAIN rings[r] : i < j /\ rings[r][j] = RetRec(e.pid, e.id)
    BY Zenon, <1>8, <2>2 DEF Closed, RetRec
  <2>3. CASE \E d \in Cpus : Runs(d, e.pid) /\ running[d].id = e.id /\ RingOf(d) = r
    <3>1. PICK d \in Cpus : Runs(d, e.pid) /\ running[d].id = e.id /\ RingOf(d) = r
      BY Zenon, <2>3
    <3>2. CASE d # c
      BY Zenon, <1>1, <1>7, <1>8, <3>1, <3>2 DEF Closed, Runs
    <3>3. CASE d = c /\ EmitArg(c)
      <4>1. e.pid = x.pid /\ RoomFor(c)
        BY Zenon, <1>4, <1>8, <3>1, <3>3 DEF Runs
      <4>2. running'[c] # None /\ running'[c].pid = e.pid /\ running'[c].id = e.id /\ RingOf(c)' = r
        BY Zenon, <1>1, <1>6, <3>1, <3>3, <4>1
      <4> QED
        BY Zenon, <1>8, <4>2 DEF Closed, Runs
    <3>4. CASE d = c /\ EmitRet(c)
      <4>1. e.pid = x.pid /\ e.id = x.id /\ RoomFor(c) /\ r = g
        BY Zenon, <1>4, <1>8, <3>1, <3>4 DEF Runs
      <4>2. rec = RetRec(e.pid, e.id)
        BY Zenon, <1>3, <3>4, <4>1
      <4>3. Len(rings[r]) + 1 \in DOMAIN rings'[r] /\ rings'[r][Len(rings[r]) + 1] = rec
        BY Zenon, <1>0, <1>3, <4>1, Room
      <4>4. i < Len(rings[r]) + 1
        <5>1. rings[r] \in Seq(Record)
          BY Zenon, <1>0, RecordType
        <5> QED
          BY <5>1
      <4> QED
        BY Zenon, <1>8, <4>2, <4>3, <4>4 DEF Closed, RetRec
    <3> QED
      BY Zenon, <3>1, <3>2, <3>3, <3>4
  <2> QED
    BY Zenon, <2>1, <2>2, <2>3 DEF Closed
<1>9. ASSUME NEW r \in Rings, NEW i \in DOMAIN rings'[r], rings'[r][i].arg # None, rings'[r][i].pid \notin lost'
      PROVE  Closed(r, i)'
  <2>1. CASE ~RoomFor(c)
    <3>1. rings' = rings
      BY Zenon, <1>3, <2>1 DEF Emit
    <3> QED
      BY Zenon, <1>8, <1>9, <3>1
  <2>2. CASE RoomFor(c)
    <3>1. \A j \in DOMAIN rings[r] : j \in DOMAIN rings'[r] /\ rings'[r][j] = rings[r][j]
      BY Zenon, <1>0, <1>3, <2>2, Room
    <3>2. CASE i \in DOMAIN rings[r]
      BY Zenon, <1>8, <1>9, <3>1, <3>2
    <3>3. CASE r = g /\ i = Len(rings[r]) + 1
      <4>1. rings'[r][i] = rec
        BY Zenon, <1>0, <1>3, <2>2, <3>3, Room
      <4>2. EmitArg(c)
        BY <1>3, <1>9, <4>1 DEF RetRec
      <4> QED
        BY Zenon, <1>1, <1>3, <1>6, <2>2, <3>3, <4>1, <4>2 DEF Closed, Runs
    <3> QED
      BY Zenon, <1>0, <1>3, <2>2, <3>2, <3>3, Room
  <2> QED
    BY Zenon, <2>1, <2>2
<1> QED
  BY Zenon, <1>9 DEF ClosedInv, Rings

LEMMA ClosedTake ==
  ASSUME RingInv, ClosedInv, NEW r \in Rings, rings[r] # <<>>, rings' = [rings EXCEPT ![r] = Tail(@)],
         UNCHANGED <<chapter, running, lost>>
  PROVE  ClosedInv'
<1>0. TypeOK
  BY Zenon DEF RingInv
<1>1. OneRecord' = OneRecord /\ \A d : RingOf(d)' = RingOf(d)
  BY Zenon, Chapter
<1>2. SUFFICES ASSUME ~OneRecord, NEW o \in Rings, NEW i \in DOMAIN rings'[o], rings'[o][i].arg # None,
                      rings'[o][i].pid \notin lost
               PROVE  Closed(o, i)'
  BY Zenon, <1>1 DEF ClosedInv, Rings
<1> DEFINE k == IF o = r THEN i + 1 ELSE i
<1>3. i \in Nat /\ i # 0 /\ k \in DOMAIN rings[o] /\ rings'[o][i] = rings[o][k]
  <2>1. rings'[o] \in Seq(Record)
    BY Zenon, <1>0, Taken
  <2>2. i \in Nat /\ i # 0
    BY <2>1
  <2>3. CASE o = r
    BY Zenon, <1>0, <2>2, <2>3, Taken
  <2>4. CASE o # r
    BY Zenon, <1>0, <2>2, <2>4, Taken
  <2> QED
    BY Zenon, <2>3, <2>4
<1>4. Closed(o, k)
  BY Zenon, <1>2, <1>3 DEF ClosedInv
<1> DEFINE e == rings[o][k]
<1>5. CASE \E c \in Cpus : Runs(c, e.pid) /\ running[c].id = e.id /\ RingOf(c) = o
  BY Zenon, <1>1, <1>3, <1>5 DEF Closed, Runs
<1>6. CASE \E j \in DOMAIN rings[o] : k < j /\ rings[o][j] = RetRec(e.pid, e.id)
  <2>1. PICK j \in DOMAIN rings[o] : k < j /\ rings[o][j] = RetRec(e.pid, e.id)
    BY Zenon, <1>6
  <2>2. j \in Nat
    BY Zenon, <1>0, RecordType
  <2> DEFINE l == IF o = r THEN j - 1 ELSE j
  <2>3. l \in DOMAIN rings'[o] /\ rings'[o][l] = RetRec(e.pid, e.id)
    <3>1. CASE o = r
      <4>1. j # 1
        BY <1>3, <2>1, <2>2, <3>1
      <4> QED
        BY Zenon, <1>0, <2>1, <3>1, <4>1, Taken
    <3>2. CASE o # r
      BY Zenon, <1>0, <2>1, <3>2, Taken
    <3> QED
      BY Zenon, <3>1, <3>2
  <2>4. i < l
    BY <1>3, <2>1, <2>2
  <2> HIDE DEF l, k
  <2> QED
    BY Zenon, <1>3, <2>3, <2>4 DEF Closed, RetRec
<1> HIDE DEF k
<1> QED
  BY Zenon, <1>4, <1>5, <1>6 DEF Closed

\* What a slot in use holds.
LEMMA PendingType ==
  ASSUME TypeOK, NEW s \in Slots, table[s] # None
  PROVE  /\ table[s] \in Pending /\ table[s].pid \in Pids /\ table[s].argv \in Seq(Arg)
         /\ DOMAIN table[s].argv = 1..Len(table[s].argv) /\ Len(table[s].argv) \in Nat
         /\ \A i \in DOMAIN table[s].argv : /\ table[s].argv[i] \in Arg /\ table[s].argv[i].id \in Nat
                                            /\ table[s].argv[i].index \in Nat
<1>1. table[s] \in Pending
  BY Zenon DEF TypeOK
<1>2. table[s].pid \in Pids /\ table[s].argv \in Seq(Arg)
  BY Zenon, <1>1 DEF Pending
<1>3. \A a \in Arg : a.id \in Nat /\ a.index \in Nat
  BY ExecAssumption DEF Arg
<1> QED
  BY <1>1, <1>2, <1>3

\* SlotInv under each step.
LEMMA SlotEmit ==
  ASSUME RingInv, SlotInv, NEW c \in Cpus, EmitOnly(c) \/ EmitArg(c) \/ EmitRet(c)
  PROVE  SlotInv'
<1> DEFINE x == running[c]
<1>0. TypeOK
  BY Zenon DEF RingInv
<1>1. /\ UNCHANGED <<chapter, execs, table, line, moved>> /\ OneRecord' = OneRecord /\ x # None
      /\ \A p : get_slot(p)' = get_slot(p)
  BY Zenon, AsOnly, AsArg, AsRet, Chapter
<1>2. ArgsInOrder'
  BY Zenon, <1>1 DEF SlotInv, ArgsInOrder
<1>3. x.id \in Nat /\ x.next \in Nat /\ x.pid \in Pids /\ x.id \in 1..MaxExecs
  BY Zenon, <1>0, <1>1, ExecType
<1>4. \A d \in Cpus : d # c => running'[d] = running[d]
  BY Zenon, <1>0, AsOnly, AsArg, AsRet DEF TypeOK
<1>5. ASSUME NEW s \in Slots, table[s] # None PROVE SlotOK(s)'
  <2> DEFINE t == table[s]
  <2>1. SlotOK(s) /\ ~OneRecord
    BY Zenon, <1>5 DEF SlotInv, SlotOK
  <2>2. PICK rec \in Record : /\ Emit(c, rec) /\ rec.pid = x.pid /\ rec.id = x.id
                              /\ (EmitRet(c) => rec = RetRec(x.pid, x.id))
                              /\ (rec.arg # None => rec.arg.index = x.next)
    BY <1>1, <2>1, AsOnly, AsArg, AsRet, SentArg, SentRet
  <2>3. Waiting' = IF RoomFor(c) THEN Waiting \cup {rec} ELSE Waiting
    BY Zenon, <1>0, <2>2, WaitingGrows
  <2>4. (RoomFor(c) \/ x.pid \in lost') /\ lost \subseteq lost'
    BY Zenon, <2>2 DEF Emit
  <2>5. \/ running'[c] = None
        \/ /\ running'[c] # None /\ running'[c].id = x.id /\ running'[c].pid = x.pid /\ running'[c].next = x.next + 1
    <3>1. CASE EmitArg(c)
      <4>1. \/ running'[c] = None
            \/ running'[c] = [x EXCEPT !.next = @ + 1]
        BY Zenon, <1>0, <3>1, AsArg DEF TypeOK
      <4> QED
        BY Zenon, <1>0, <1>1, <3>1, <4>1, AsArg, Advanced
    <3>2. CASE EmitRet(c)
      BY Zenon, <1>0, <3>2, AsRet DEF TypeOK
    <3> QED
      BY Zenon, <2>1, <3>1, <3>2, AsOnly
  <2>6. EmitArg(c) /\ RoomFor(c) => running'[c] # None
    <3>1. EmitArg(c) /\ RoomFor(c) => running'[c] = [x EXCEPT !.next = @ + 1]
      BY Zenon, <1>0, AsArg DEF TypeOK
    <3> QED
      BY Zenon, <1>0, <1>1, <3>1, AsArg, Advanced
  <2>7. \A i \in DOMAIN t.argv : t.argv[i].id \in Nat /\ t.argv[i].index \in Nat
    BY Zenon, <1>0, <1>5, PendingType
  <2>8. ASSUME t.pid \notin moved, NEW i \in DOMAIN t.argv, NEW e \in Waiting', e.pid = t.pid
        PROVE  ArgBefore(t.argv[i], e)
    <3>1. CASE e \in Waiting
      BY Zenon, <2>1, <2>8, <3>1 DEF SlotOK
    <3>2. CASE e = rec
      <4>1. ArgSent(t.argv[i], x)
        BY Zenon, <1>1, <2>1, <2>2, <2>8, <3>2 DEF SlotOK, Runs
      <4> QED
        BY Zenon, <1>3, <2>2, <2>7, <3>2, <4>1 DEF ArgSent, ArgBefore
    <3> QED
      BY Zenon, <2>3, <2>8, <3>1, <3>2
  <2>9. ASSUME t.pid \notin moved, NEW i \in DOMAIN t.argv, NEW d \in Cpus, running'[d] # None, running'[d].pid = t.pid
        PROVE  ArgSent(t.argv[i], running'[d])
    <3>1. CASE d # c
      BY Zenon, <1>4, <2>1, <2>9, <3>1 DEF SlotOK, Runs
    <3>2. CASE d = c
      <4>1. ArgSent(t.argv[i], x)
        BY Zenon, <1>1, <2>1, <2>5, <2>9, <3>2 DEF SlotOK, Runs
      <4> QED
        BY <1>3, <2>5, <2>7, <2>9, <3>2, <4>1 DEF ArgSent
    <3> QED
      BY Zenon, <3>1, <3>2
  <2>10. ASSUME t.pid \notin lost'
         PROVE  (\E d \in 1..MaxExecs : RetRec(t.pid, d) \in Waiting') \/ \E d \in Cpus : running'[d] # None /\ running'[d].pid = t.pid
    <3>1. CASE \E d \in 1..MaxExecs : RetRec(t.pid, d) \in Waiting
      BY Zenon, <2>3, <3>1
    <3>2. CASE \E d \in Cpus : Runs(d, t.pid)
      <4>1. PICK d \in Cpus : Runs(d, t.pid)
        BY Zenon, <3>2
      <4>2. CASE d # c
        BY Zenon, <1>4, <4>1, <4>2 DEF Runs
      <4>3. CASE d = c
        <5>1. x.pid = t.pid /\ RoomFor(c)
          BY Zenon, <2>4, <2>10, <4>1, <4>3 DEF Runs
        <5>2. CASE EmitArg(c)
          BY Zenon, <2>5, <2>6, <5>1, <5>2
        <5>3. CASE EmitRet(c)
          BY Zenon, <1>3, <2>2, <2>3, <5>1, <5>3
        <5> QED
          BY Zenon, <2>1, <5>2, <5>3, AsOnly
      <4> QED
        BY Zenon, <4>2, <4>3
    <3> QED
      BY Zenon, <2>1, <2>4, <2>10, <3>1, <3>2 DEF SlotOK
  <2> QED
    BY Zenon, <1>1, <2>1, <2>8, <2>9, <2>10 DEF SlotOK, Runs, RetRec
<1> QED
  BY Zenon, <1>1, <1>2, <1>5 DEF SlotInv, Slots

LEMMA SlotExecve ==
  ASSUME RingInv, SlotInv, NEW c \in Cpus, NEW p \in Pids, NEW n \in ArgCounts, Execve(c, p, n)
  PROVE  SlotInv'
<1> DEFINE y == [id |-> execs + 1, pid |-> p, argc |-> n, next |-> 0]
<1>0. TypeOK /\ execs \in Nat
  BY ExecAssumption DEF RingInv, TypeOK
<1>1. /\ UNCHANGED <<chapter, table, line, lost>> /\ OneRecord' = OneRecord /\ \A q : get_slot(q)' = get_slot(q)
      /\ Waiting' = Waiting /\ moved \subseteq moved' /\ execs' = execs + 1 /\ running[c] = None
  BY Chapter DEF Execve, Waiting, Rings
<1>2. /\ running'[c] = y /\ \A d \in Cpus : d # c => running'[d] = running[d]
  BY Zenon, <1>0 DEF Execve, TypeOK
<1>3. y.id = execs + 1
  BY Zenon
<1> HIDE DEF y
<1>4. ArgsInOrder'
  BY Zenon, <1>1 DEF SlotInv, ArgsInOrder
<1>5. ASSUME NEW s \in Slots, table[s] # None PROVE SlotOK(s)'
  <2> DEFINE t == table[s]
  <2>1. SlotOK(s)
    BY Zenon, <1>5 DEF SlotInv
  <2>2. \A i \in DOMAIN t.argv : t.argv[i].id \in Nat /\ t.argv[i].id <= execs
    BY Zenon, <1>0, <1>5, <2>1, PendingType DEF SlotOK
  <2>3. ASSUME t.pid \notin moved', NEW i \in DOMAIN t.argv, NEW d \in Cpus, running'[d] # None, running'[d].pid = t.pid
        PROVE  ArgSent(t.argv[i], running'[d])
    <3>1. CASE d # c
      BY Zenon, <1>1, <1>2, <2>1, <2>3, <3>1 DEF SlotOK, Runs
    <3>2. CASE d = c
      BY <1>0, <1>2, <1>3, <2>2, <3>2 DEF ArgSent
    <3> QED
      BY Zenon, <3>1, <3>2
  <2>4. ASSUME NEW d \in Cpus, Runs(d, t.pid) PROVE running'[d] # None /\ running'[d].pid = t.pid
    BY Zenon, <1>1, <1>2, <2>4 DEF Runs
  <2>5. \A i \in DOMAIN t.argv : t.argv[i].pid = t.pid /\ t.argv[i].id <= execs'
    BY <1>0, <1>1, <2>1, <2>2 DEF SlotOK
  <2> QED
    BY Zenon, <1>1, <2>1, <2>3, <2>4, <2>5 DEF SlotOK, Runs, RetRec
<1> QED
  BY Zenon, <1>1, <1>4, <1>5 DEF SlotInv, Slots

\* SlotInv in the chapters that print each record.
LEMMA LinePrinted ==
  ASSUME RingInv, SlotInv, NEW r \in Rings, print_event(r)
  PROVE  SlotInv'
<1> DEFINE e == Head(rings[r])
<1>0. TypeOK
  BY Zenon DEF RingInv
<1>1. /\ OneRecord /\ rings[r] # <<>> /\ rings' = [rings EXCEPT ![r] = Tail(@)] /\ UNCHANGED <<chapter, table>>
      /\ line' = [pid |-> e.pid, argv |-> <<e.arg>>]
  BY Zenon DEF print_event
<1>2. e \in Waiting
  BY Zenon, <1>0, <1>1, WaitingShrinks
<1>3. e.arg # None /\ e.arg.pid = e.pid
  BY Zenon, <1>1, <1>2 DEF RingInv, SendInv, WellFormed
<1>4. \A s \in Slots : table'[s] = None
  BY Zenon, <1>1 DEF SlotInv, SlotOK
<1>5. line'.pid = e.pid /\ line'.argv = <<e.arg>> /\ DOMAIN line'.argv = {1} /\ line'.argv[1] = e.arg
  BY <1>1
<1>6. ArgsInOrder'
  BY <1>3, <1>5 DEF ArgsInOrder
<1> QED
  BY Zenon, <1>4, <1>6 DEF SlotInv, Slots

\* A slot whose process is not the one of the record consumed.
LEMMA SlotAside ==
  ASSUME RingInv, SlotInv, NEW r \in Rings, handle_event(r), NEW s \in Slots, table[s] # None, table'[s] = table[s],
         Head(rings[r]).arg # None \/ table[s].pid # Head(rings[r]).pid
  PROVE  SlotOK(s)'
<1> DEFINE e == Head(rings[r])
           t == table[s]
<1>0. TypeOK /\ SlotOK(s)
  BY Zenon DEF RingInv, SlotInv
<1>1. /\ rings[r] # <<>> /\ rings' = [rings EXCEPT ![r] = Tail(@)] /\ UNCHANGED <<chapter, execs, running, lost, moved>>
  BY Zenon DEF handle_event
<1>2. OneRecord' = OneRecord /\ (\A q : get_slot(q)' = get_slot(q)) /\ Waiting' \subseteq Waiting /\ Waiting \subseteq Waiting' \cup {e}
  BY Zenon, <1>0, <1>1, Chapter, WaitingShrinks
<1>3. ASSUME NEW d, RetRec(t.pid, d) \in Waiting PROVE RetRec(t.pid, d) \in Waiting'
  <2>1. RetRec(t.pid, d) # e
    BY DEF RetRec
  <2> QED
    BY Zenon, <1>2, <1>3, <2>1
<1> QED
  BY Zenon, <1>0, <1>1, <1>2, <1>3 DEF SlotOK, Runs, RetRec

\* SlotInv when a record is handed to handle_event(): the slot of its pid and, by
\* SlotAside, the others.
LEMMA SlotTake ==
  ASSUME RingInv, ClosedInv, SlotInv, NEW r \in Rings, handle_event(r)
  PROVE  SlotInv'
<1> DEFINE e == Head(rings[r])
<1>0. TypeOK /\ RingInv'
  BY Zenon, RingTake DEF RingInv
<1>1. /\ ~OneRecord /\ rings[r] # <<>> /\ rings' = [rings EXCEPT ![r] = Tail(@)]
      /\ UNCHANGED <<chapter, execs, running, lost, moved>>
  BY Zenon DEF handle_event
<1>2. OneRecord' = OneRecord /\ (\A q : get_slot(q)' = get_slot(q)) /\ Waiting' \subseteq Waiting /\ Waiting \subseteq Waiting' \cup {e}
      /\ e \in Waiting
  BY Zenon, <1>0, <1>1, Chapter, WaitingShrinks
<1>3. e \in Record /\ e.pid \in Pids /\ e.id \in 1..MaxExecs /\ e.id \in Nat /\ get_slot(e.pid) \in Slots /\ WellFormed(e)
  BY Zenon, <1>0, <1>2, RecordType, RecordFields, SlotType DEF RingInv, SendInv
<1>s. PICK s \in Slots : s = get_slot(e.pid)
  BY Zenon, <1>3
<1>4. \A q \in Slots : table[q] # None /\ table[q].pid = e.pid => q = s
  BY Zenon, <1>s DEF SlotInv, SlotOK
<1>5. CASE e.arg = None /\ ~(table[s] # None /\ table[s].pid = e.pid)
  <2>1. UNCHANGED <<table, line, owed>>
    BY Zenon, <1>5, <1>s DEF handle_event
  <2>2. \A q \in Slots : table'[q] # None => SlotOK(q)'
    BY Zenon, <1>4, <1>5, <2>1, SlotAside
  <2>3. ArgsInOrder'
    BY Zenon, <1>1, <2>1 DEF SlotInv, ArgsInOrder
  <2> QED
    BY Zenon, <2>2, <2>3 DEF SlotInv, Slots
<1>6. CASE e.arg = None /\ table[s] # None /\ table[s].pid = e.pid
  <2>1. table' = [table EXCEPT ![s] = None] /\ line' = table[s]
    BY Zenon, <1>6, <1>s DEF handle_event, Clear
  <2>2. table'[s] = None /\ \A q \in Slots : q # s => table'[q] = table[q]
    BY Zenon, <1>0, <1>3, <2>1 DEF TypeOK
  <2>3. \A q \in Slots : table'[q] # None => SlotOK(q)'
    BY Zenon, <1>4, <1>6, <2>2, SlotAside
  <2>4. SlotOK(s)
    BY Zenon, <1>3, <1>6 DEF SlotInv
  <2>5. ArgsInOrder'
    BY Zenon, <1>1, <2>1, <2>4 DEF SlotOK, Increasing, ArgsInOrder
  <2> QED
    BY <2>3, <2>5 DEF SlotInv, Slots
<1>7. CASE e.arg # None
  <2> DEFINE a == e.arg
             t == SlotFor(e)
             n == AddArg(t, a)
  <2>1. table' = [table EXCEPT ![s] = n] /\ UNCHANGED line
    BY Zenon, <1>7, <1>s DEF handle_event
  <2>2. table'[s] = n /\ \A q \in Slots : q # s => table'[q] = table[q]
    BY Zenon, <1>0, <1>3, <2>1 DEF TypeOK
  <2>3. ArgsInOrder'
    BY Zenon, <1>1, <2>1 DEF SlotInv, ArgsInOrder
  <2>4. \A q \in Slots : q # s /\ table'[q] # None => SlotOK(q)'
    BY Zenon, <1>7, <2>2, SlotAside
  <2>5. /\ t \in Pending /\ n \in Pending /\ n.pid = e.pid /\ n.argv # <<>>
        /\ IF Full(t) THEN n = t /\ t.argv # <<>> ELSE n.argv = Append(t.argv, a)
        /\ t.argv # <<>> => table[s] # None /\ table[s].pid = e.pid /\ t = table[s]
    BY Zenon, <1>0, <1>3, <1>7, <1>s, Added
  <2>6. a \in Arg /\ a.id = e.id /\ a.pid = e.pid /\ a.id <= execs /\ a.index \in Nat /\ a.id \in Nat
    BY Zenon, <1>3, <1>7, RecordFields DEF WellFormed
  <2> HIDE DEF t, n, a
  \* A slot entry is the new argument or was there before.
  <2>7. /\ t.argv \in Seq(Arg) /\ n.argv \in Seq(Arg) /\ DOMAIN t.argv = 1..Len(t.argv) /\ Len(t.argv) \in Nat
    BY <2>5 DEF Pending
  <2>8. \A i \in DOMAIN n.argv : /\ i \in Nat
                                 /\ \/ i \in DOMAIN t.argv /\ n.argv[i] = t.argv[i] /\ i <= Len(t.argv)
                                    \/ i = Len(t.argv) + 1 /\ n.argv[i] = a
    <3>1. CASE Full(t)
      BY <2>5, <2>7, <3>1
    <3>2. CASE ~Full(t)
      <4>1. n.argv = Append(t.argv, a)
        BY Zenon, <2>5, <3>2
      <4> DEFINE u == t.argv
      <4>2. u \in Seq(Arg)
        BY Zenon, <2>7
      <4> HIDE DEF u
      <4>3. \A i \in DOMAIN Append(u, a) : /\ i \in Nat
                                 /\ \/ i \in DOMAIN u /\ Append(u, a)[i] = u[i] /\ i <= Len(u)
                                    \/ i = Len(u) + 1 /\ Append(u, a)[i] = a
        BY <2>6, <4>2
      <4> QED
        BY Zenon, <4>1, <4>3 DEF u
    <3> QED
      BY Zenon, <3>1, <3>2
  <2>9. DOMAIN t.argv # {} => SlotOK(s) /\ table[s].pid = e.pid /\ t = table[s]
    <3>1. DOMAIN t.argv # {} => t.argv # <<>>
      BY <2>7
    <3> QED
      BY Zenon, <1>3, <2>5, <3>1 DEF SlotInv
  <2>10. \A i \in DOMAIN t.argv : t.argv[i].id \in Nat /\ t.argv[i].index \in Nat
    <3>1. \A i \in DOMAIN t.argv : t.argv[i] \in Arg
      BY <2>7
    <3>2. \A b \in Arg : b.id \in Nat /\ b.index \in Nat
      BY ExecAssumption DEF Arg
    <3> QED
      BY Zenon, <3>1, <3>2
  <2>11. \A i \in DOMAIN n.argv : n.argv[i].pid = e.pid /\ n.argv[i].id <= execs
    BY Zenon, <2>6, <2>8, <2>9 DEF SlotOK
  <2>12. ASSUME e.pid \notin moved PROVE Increasing(n.argv)
    <3> SUFFICES ASSUME NEW i \in DOMAIN n.argv, NEW j \in DOMAIN n.argv, i < j
                 PROVE  n.argv[i].id < n.argv[j].id \/ (n.argv[i].id = n.argv[j].id /\ n.argv[i].index < n.argv[j].index)
      BY Zenon DEF Increasing
    <3>1. i \in DOMAIN t.argv /\ n.argv[i] = t.argv[i]
      BY <2>7, <2>8
    <3>2. SlotOK(s) /\ table[s].pid = e.pid /\ t = table[s]
      BY Zenon, <2>9, <3>1
    <3>3. CASE j \in DOMAIN t.argv /\ n.argv[j] = t.argv[j]
      BY Zenon, <2>12, <3>1, <3>2, <3>3 DEF SlotOK, Increasing
    <3>4. CASE n.argv[j] = a
      <4>1. ArgBefore(t.argv[i], e)
        BY Zenon, <1>2, <2>12, <3>1, <3>2 DEF SlotOK
      <4> QED
        BY Zenon, <1>7, <2>6, <3>1, <3>4, <4>1 DEF ArgBefore, a
    <3> QED
      BY Zenon, <2>8, <3>3, <3>4
  <2>13. ASSUME e.pid \notin moved, NEW i \in DOMAIN n.argv, NEW f \in Waiting', f.pid = e.pid
         PROVE  ArgBefore(n.argv[i], f)
    <3>1. CASE i \in DOMAIN t.argv /\ n.argv[i] = t.argv[i]
      BY Zenon, <1>2, <2>9, <2>13, <3>1 DEF SlotOK
    <3>2. CASE n.argv[i] = a
      <4>1. Earlier(e, f)
        BY Zenon, <1>1, <2>13, HeadFirst
      <4> QED
        BY Zenon, <1>7, <2>6, <3>2, <4>1 DEF Earlier, ArgBefore, a
    <3> QED
      BY Zenon, <2>8, <3>1, <3>2
  <2>14. ASSUME e.pid \notin moved, NEW i \in DOMAIN n.argv, NEW c \in Cpus, Runs(c, e.pid)
         PROVE  ArgSent(n.argv[i], running[c])
    <3>1. CASE i \in DOMAIN t.argv /\ n.argv[i] = t.argv[i]
      BY Zenon, <2>9, <2>14, <3>1 DEF SlotOK
    <3>2. CASE n.argv[i] = a
      <4>1. RecSent(e, running[c])
        <5>1. 1 \in DOMAIN rings[r] /\ rings[r][1] = e
          BY Zenon, <1>0, <1>1, Taken
        <5>2. InLine(e.pid)
          BY Zenon, <1>3, <2>14 DEF RingInv, SendInv
        <5> QED
          BY <2>14, <5>1, <5>2 DEF InLine
      <4> QED
        BY Zenon, <2>6, <3>2, <4>1 DEF RecSent, ArgSent, a
    <3> QED
      BY Zenon, <2>8, <3>1, <3>2
  <2>15. ASSUME e.pid \notin lost
         PROVE  (\E d \in 1..MaxExecs : RetRec(e.pid, d) \in Waiting') \/ \E c \in Cpus : Runs(c, e.pid)
    <3>1. 1 \in DOMAIN rings[r] /\ rings[r][1] = e
      BY Zenon, <1>0, <1>1, Taken
    <3>2. Closed(r, 1)
      BY Zenon, <1>1, <1>7, <2>15, <3>1 DEF ClosedInv
    <3>3. CASE \E c \in Cpus : Runs(c, e.pid)
      BY Zenon, <3>3
    <3>4. CASE \E j \in DOMAIN rings[r] : 1 < j /\ rings[r][j] = RetRec(e.pid, e.id)
      <4>1. RetRec(e.pid, e.id) \in Waiting
        BY Zenon, <3>4, InWaiting
      <4>2. RetRec(e.pid, e.id) # e
        BY <1>7 DEF RetRec
      <4> QED
        BY Zenon, <1>2, <1>3, <4>1, <4>2
    <3> QED
      BY Zenon, <3>1, <3>2, <3>3, <3>4 DEF Closed
  <2>16. SlotOK(s)'
    <3>0. PICK m : m = n
      BY Zenon
    <3>1. table'[s] = m /\ m.pid = e.pid /\ m.argv # <<>>
      BY Zenon, <2>2, <2>5, <3>0
    <3>2. s = get_slot(m.pid)' /\ ~OneRecord'
      BY Zenon, <1>1, <1>2, <1>s, <3>1 DEF get_slot
    <3>3. \A i \in DOMAIN m.argv : m.argv[i].pid = m.pid /\ m.argv[i].id <= execs
      BY Zenon, <2>11, <3>0, <3>1
    <3>4. m.pid \notin moved =>
            /\ Increasing(m.argv)
            /\ \A i \in DOMAIN m.argv, f \in Waiting' : f.pid = m.pid => ArgBefore(m.argv[i], f)
            /\ \A i \in DOMAIN m.argv, c \in Cpus : Runs(c, m.pid) => ArgSent(m.argv[i], running[c])
      BY Zenon, <2>12, <2>13, <2>14, <3>0, <3>1
    <3>5. m.pid \notin lost =>
            (\E d \in 1..MaxExecs : RetRec(m.pid, d) \in Waiting') \/ \E c \in Cpus : Runs(c, m.pid)
      BY Zenon, <2>15, <3>1
    <3>6. \A c \in Cpus : Runs(c, m.pid)' <=> Runs(c, m.pid)
      BY Zenon, <1>1 DEF Runs
    <3> QED
      BY Zenon, <1>1, <3>1, <3>2, <3>3, <3>4, <3>5, <3>6 DEF SlotOK, RetRec
  <2> QED
    BY Zenon, <2>3, <2>4, <2>16 DEF SlotInv, Slots
<1> QED
  BY Zenon, <1>5, <1>6, <1>7

LEMMA ClosedExecve ==
  ASSUME RingInv, ClosedInv, NEW c \in Cpus, NEW p \in Pids, NEW n \in ArgCounts, Execve(c, p, n)
  PROVE  ClosedInv'
<1>1. /\ running[c] = None /\ UNCHANGED <<chapter, rings, lost>> /\ running \in [Cpus -> Exec \cup {None}]
      /\ running' = [running EXCEPT ![c] = [id |-> execs + 1, pid |-> p, argc |-> n, next |-> 0]]
  BY Zenon DEF Execve, RingInv, TypeOK
<1>2. OneRecord' = OneRecord /\ \A d : RingOf(d)' = RingOf(d)
  BY Zenon, <1>1, Chapter
<1>3. \A d \in Cpus : d # c => running'[d] = running[d]
  BY Zenon, <1>1
<1> SUFFICES ASSUME ~OneRecord, NEW r \in Rings, NEW i \in DOMAIN rings[r], rings[r][i].arg # None, rings[r][i].pid \notin lost
             PROVE  Closed(r, i)'
  BY Zenon, <1>1, <1>2 DEF ClosedInv, Rings
<1>4. Closed(r, i)
  BY Zenon DEF ClosedInv
<1>5. \A d \in Cpus : \A q : Runs(d, q) => running'[d] = running[d] /\ running'[d] # None
  BY Zenon, <1>1, <1>3 DEF Runs
<1>6. CASE \E j \in DOMAIN rings[r] : i < j /\ rings[r][j] = RetRec(rings[r][i].pid, rings[r][i].id)
  BY Zenon, <1>1, <1>6 DEF Closed, RetRec
<1>7. CASE \E d \in Cpus : Runs(d, rings[r][i].pid) /\ running[d].id = rings[r][i].id /\ RingOf(d) = r
  BY Zenon, <1>1, <1>2, <1>5, <1>7 DEF Closed, Runs
<1> QED
  BY Zenon, <1>4, <1>6, <1>7 DEF Closed

OrderInv == RingInv /\ ClosedInv /\ SlotInv

\* OrderInv holds at first and is kept.
LEMMA OrderInit ==
  ASSUME Init
  PROVE  OrderInv
<1>1. \A r \in Rings : rings[r] = <<>> /\ DOMAIN rings[r] = {} /\ rings[r] \in Seq(Record) /\ Len(rings[r]) <= RingSize
  BY ExecAssumption DEF Init
<1>2. TypeOK
  BY <1>1, ExecAssumption DEF Init, TypeOK
<1>3. Waiting = {} /\ \A c \in Cpus : running[c] = None
  BY Zenon, <1>1 DEF Waiting, Init
<1>4. SendInv
  BY Zenon, <1>1, <1>3 DEF SendInv, Runs, InLine
<1>5. ClosedInv
  BY Zenon, <1>1 DEF ClosedInv
<1>6. SlotInv
  BY Zenon DEF Init, SlotInv, ArgsInOrder
<1> QED
  BY Zenon, <1>2, <1>4, <1>5, <1>6 DEF OrderInv, RingInv

LEMMA OrderStep ==
  ASSUME OrderInv, [Next]_vars
  PROVE  OrderInv'
<1> USE DEF OrderInv
<1>1. ASSUME NEW c \in Cpus, EmitOnly(c) PROVE OrderInv'
  <2>1. OneRecord /\ UNCHANGED chapter
    BY Zenon, <1>1 DEF EmitOnly
  <2>2. ClosedInv'
    BY Zenon, <2>1, Chapter DEF ClosedInv
  <2> QED
    BY Zenon, <1>1, <2>2, RingEmit, SlotEmit
<1>2. ASSUME NEW c \in Cpus, EmitArg(c) \/ EmitRet(c) PROVE OrderInv'
  BY Zenon, <1>2, RingEmit, ClosedEmit, SlotEmit
<1>3. ASSUME NEW c \in Cpus, NEW p \in Pids, NEW n \in ArgCounts, Execve(c, p, n) PROVE OrderInv'
  BY Zenon, <1>3, RingExecve, ClosedExecve, SlotExecve
<1>4. ASSUME NEW r \in Rings, handle_event(r) PROVE OrderInv'
  <2>1. rings[r] # <<>> /\ rings' = [rings EXCEPT ![r] = Tail(@)] /\ UNCHANGED <<chapter, running, lost>>
    BY Zenon, <1>4 DEF handle_event
  <2> QED
    BY Zenon, <1>4, <2>1, RingTake, ClosedTake, SlotTake
<1>5. ASSUME NEW r \in Rings, print_event(r) PROVE OrderInv'
  <2>1. rings[r] # <<>> /\ rings' = [rings EXCEPT ![r] = Tail(@)] /\ UNCHANGED <<chapter, running, lost>>
    BY Zenon, <1>5 DEF print_event
  <2> QED
    BY Zenon, <1>5, <2>1, RingTake, ClosedTake, LinePrinted
<1>6. CASE UNCHANGED vars
  <2> USE <1>6 DEF vars
  <2>1. TypeOK'
    BY Zenon DEF RingInv, TypeOK, Rings, Slots
  <2>2. Waiting' = Waiting /\ Rings' = Rings
    BY DEF Waiting, Rings
  <2>3. SendInv'
    BY SMTT(20), <2>2 DEF RingInv, SendInv, Runs, ProgramOK, WellFormed, InLine, OneRecord, RingOf, PerCpu
  <2>4. ClosedInv'
    BY SMTT(20), <2>2 DEF ClosedInv, Closed, RetRec, Runs, OneRecord, RingOf, PerCpu
  <2>5. \A s \in Slots : SlotOK(s)' = SlotOK(s)
    BY <2>2 DEF SlotOK, Runs, RetRec, OneRecord, get_slot
  <2>6. SlotInv'
    BY Zenon, <2>5 DEF SlotInv, ArgsInOrder, Slots
  <2> QED
    BY Zenon, <2>1, <2>3, <2>4, <2>6 DEF RingInv
<1> QED
  BY Zenon, <1>1, <1>2, <1>3, <1>4, <1>5, <1>6 DEF Next

\* The arguments that print_event() and handle_event() print on a line are those of
\* the process it names, and in the order they were emitted unless that process has
\* moved to another CPU: the slots, the rings and the programs never mix them.
THEOREM LinesInOrder == Spec => []ArgsInOrder
<1>1. Init => OrderInv
  BY Zenon, OrderInit
<1>2. OrderInv /\ [Next]_vars => OrderInv'
  BY Zenon, OrderStep
<1>3. OrderInv => ArgsInOrder
  BY Zenon DEF OrderInv, SlotInv
<1> QED
  BY <1>1, <1>2, <1>3, PTL DEF Spec

\* A process on its own: its slot holds the beginning of one command, and of its
\* commands no record is missing between the slot and the program that sends them.
Held(p) == table[get_slot(p)] # None
Argv(p) == table[get_slot(p)].argv
Final(p) == Argv(p)[Len(Argv(p))]
Followed(a) ==
  IF a.index + 1 < Least(a.argc, MAXARGS)
  THEN \/ ArgRec(ArgOf(a, a.index + 1)) \in Waiting
       \/ \E c \in Cpus : Runs(c, a.pid) /\ running[c].id = a.id /\ running[c].argc = a.argc
                          /\ running[c].next = a.index + 1
  ELSE \/ RetRec(a.pid, a.id) \in Waiting
       \/ \E c \in Cpus : Runs(c, a.pid) /\ running[c].id = a.id
At(a) == ArgRec(a) \in Waiting \/ (Held(a.pid) /\ Final(a.pid) = a)
SlotWhole(p) ==
  Held(p) =>
    /\ Argv(p) = [i \in 1..Len(Argv(p)) |-> ArgOf(Argv(p)[1], i - 1)]
    /\ Len(Argv(p)) <= Least(Argv(p)[1].argc, MAXARGS)
    /\ Followed(Final(p))
RecordsWhole(p) ==
  \A e \in Waiting : e.pid = p /\ e.arg # None =>
    Followed(e.arg) /\ (e.arg.index > 0 => At(ArgOf(e.arg, e.arg.index - 1)))
ProgramWhole(p) ==
  \A c \in Cpus : Runs(c, p) /\ running[c].next > 0 => At(ArgOf(running[c], running[c].next - 1))
OwedWhole(p) ==
  \A d \in 1..MaxExecs : <<d, p>> \in owed =>
    /\ RetRec(p, d) \in Waiting
    /\ (Held(p) /\ Final(p).id = d) \/ \E e \in Waiting : e.pid = p /\ e.arg # None /\ e.id = d
Whole(p) == SlotWhole(p) /\ RecordsWhole(p) /\ ProgramWhole(p) /\ OwedWhole(p)
WholeInv ==
  /\ ~OneRecord => \A p \in Pids : Alone(p) => Whole(p)
  /\ OneRecord => \A d \in 1..MaxExecs, p \in Pids :
                    <<d, p>> \in owed => \E e \in Waiting : e.id = d /\ e.pid = p
  /\ LineIsWhole

-----------------------------------------------------------------------------
\* Who is on its own stays the only user of its slot.
LEMMA OwnSlot ==
  ASSUME NEW p \in Pids, NEW q \in Pids, Alone(p), get_slot(q) = get_slot(p)
  PROVE  q = p
BY Zenon DEF Alone, get_slot

\* What the slot of a process on its own holds.
LEMMA HeldSlot ==
  ASSUME TypeOK, SlotInv, NEW p \in Pids, Alone(p), Held(p)
  PROVE  /\ table[get_slot(p)].pid = p /\ get_slot(p) \in Slots /\ SlotOK(get_slot(p)) /\ Argv(p) \in Seq(Arg)
         /\ Len(Argv(p)) \in DOMAIN Argv(p) /\ Final(p) \in Arg /\ Final(p).pid = p /\ Len(Argv(p)) \in Nat \ {0}
         /\ Argv(p)[1] \in Arg /\ Argv(p)[1].pid = p
<1>1. get_slot(p) \in Slots
  BY Zenon, SlotType
<1>2. SlotOK(get_slot(p))
  BY Zenon, <1>1 DEF SlotInv, Held
<1>3. table[get_slot(p)].pid \in Pids /\ Argv(p) \in Seq(Arg)
  BY Zenon, <1>1, PendingType DEF Held, Argv
<1>4. table[get_slot(p)].pid = p
  BY Zenon, <1>2, <1>3, OwnSlot DEF SlotOK
<1>5. Argv(p) # <<>> /\ \A i \in DOMAIN Argv(p) : Argv(p)[i].pid = p
  BY Zenon, <1>2, <1>4 DEF SlotOK, Argv
<1> DEFINE v == Argv(p)
<1>6. Len(v) \in Nat \ {0} /\ Len(v) \in DOMAIN v /\ 1 \in DOMAIN v /\ v[Len(v)] \in Arg /\ v[1] \in Arg
  <2>1. v \in Seq(Arg) /\ v # <<>>
    BY Zenon, <1>3, <1>5
  <2> HIDE DEF v
  <2> QED
    BY <2>1
<1> QED
  BY Zenon, <1>1, <1>2, <1>3, <1>4, <1>5, <1>6 DEF Final

LEMMA ArgFields ==
  ASSUME NEW a \in Arg
  PROVE  /\ a.id \in Nat /\ a.id \in 1..MaxExecs /\ a.index \in Nat /\ a.argc \in Nat /\ a.argc \in ArgCounts /\ a.pid \in Pids
         /\ Least(a.argc, MAXARGS) \in Nat /\ a = ArgOf(a, a.index)
<1>1. /\ a.id \in Nat /\ a.id \in 1..MaxExecs /\ a.index \in Nat /\ a.argc \in ArgCounts /\ a.pid \in Pids
      /\ a = [id |-> a.id, index |-> a.index, argc |-> a.argc, pid |-> a.pid]
  BY ExecAssumption DEF Arg
<1> QED
  BY Zenon, <1>1, LeastType DEF ArgOf

\* Who is on its own after a step was so before it.
LEMMA AloneBefore ==
  ASSUME NEW p, UNCHANGED chapter, lost \subseteq lost', moved \subseteq moved', Alone(p)'
  PROVE  Alone(p)
BY Zenon DEF Alone

\* A process whose records, program and slot a step leaves alone.
LEMMA WholeAside ==
  ASSUME OrderInv, NEW p \in Pids, Alone(p), Whole(p), UNCHANGED chapter,
         \A f : f.pid = p => (f \in Waiting' <=> f \in Waiting),
         \A c \in Cpus : (Runs(c, p) \/ Runs(c, p)') => running'[c] = running[c],
         table'[get_slot(p)] = table[get_slot(p)],
         \A d \in 1..MaxExecs : <<d, p>> \in owed' => <<d, p>> \in owed
  PROVE  Whole(p)'
<1>0. TypeOK /\ SlotInv /\ Waiting \subseteq Record /\ \A e \in Waiting : WellFormed(e)
  BY Zenon, RecordType DEF OrderInv, RingInv, SendInv
<1>1. get_slot(p)' = get_slot(p)
  BY Zenon DEF get_slot
<1>2. (Held(p)' <=> Held(p)) /\ Argv(p)' = Argv(p) /\ Final(p)' = Final(p)
  BY Zenon, <1>1 DEF Held, Argv, Final
<1>3. \A c \in Cpus : Runs(c, p)' <=> Runs(c, p)
  BY Zenon DEF Runs
<1>4. \A a : ArgRec(a).pid = a.pid /\ (\A k : ArgOf(a, k).pid = a.pid) /\ RetRec(a.pid, a.id).pid = a.pid
  BY Zenon DEF ArgRec, ArgOf, RetRec
<1>5. ASSUME NEW a, a.pid = p, Followed(a) PROVE Followed(a)'
  <2>1. \A f : f.pid = p /\ f \in Waiting => f \in Waiting'
    BY Zenon
  <2>2. \A c \in Cpus : Runs(c, p) => Runs(c, p)' /\ running'[c] = running[c]
    BY Zenon, <1>3
  <2>3. CASE a.index + 1 < Least(a.argc, MAXARGS)
    <3>1. \/ ArgRec(ArgOf(a, a.index + 1)) \in Waiting
          \/ \E c \in Cpus : Runs(c, p) /\ running[c].id = a.id /\ running[c].argc = a.argc
                             /\ running[c].next = a.index + 1
      BY Zenon, <1>5, <2>3 DEF Followed
    <3>2. \/ ArgRec(ArgOf(a, a.index + 1)) \in Waiting'
          \/ \E c \in Cpus : Runs(c, p)' /\ running'[c].id = a.id /\ running'[c].argc = a.argc
                             /\ running'[c].next = a.index + 1
      BY <1>4, <1>5, <2>1, <2>2, <3>1
    <3> QED
      BY Zenon, <1>5, <2>3, <3>2 DEF Followed, ArgRec, ArgOf, Least
  <2>4. CASE ~(a.index + 1 < Least(a.argc, MAXARGS))
    <3>1. \/ RetRec(a.pid, a.id) \in Waiting
          \/ \E c \in Cpus : Runs(c, p) /\ running[c].id = a.id
      BY Zenon, <1>5, <2>4 DEF Followed
    <3>2. \/ RetRec(a.pid, a.id) \in Waiting'
          \/ \E c \in Cpus : Runs(c, p)' /\ running'[c].id = a.id
      BY Zenon, <1>4, <1>5, <2>1, <2>2, <3>1
    <3> QED
      BY Zenon, <1>5, <2>4, <3>2 DEF Followed, RetRec, Least
  <2> QED
    BY Zenon, <2>3, <2>4
<1>6. ASSUME NEW a, a.pid = p, At(a) PROVE At(a)'
  BY Zenon, <1>2, <1>4, <1>6 DEF At, ArgRec
<1>7. SlotWhole(p)'
  <2> SUFFICES ASSUME Held(p)' PROVE SlotWhole(p)'
    BY Zenon DEF SlotWhole
  <2>1. PICK a : a = Final(p)
    BY Zenon
  <2>2. Held(p) /\ a.pid = p /\ Followed(a)
    BY Zenon, <1>0, <1>2, <2>1, HeldSlot DEF Whole, SlotWhole
  <2>3. Followed(a)' /\ Final(p)' = a
    BY Zenon, <1>2, <1>5, <2>1, <2>2
  <2>4. Followed(Final(p))'
    BY Zenon, <2>3
  <2> QED
    BY Zenon, <1>2, <2>2, <2>4 DEF Whole, SlotWhole, ArgOf
<1>8. RecordsWhole(p)'
  <2> SUFFICES ASSUME NEW e \in Waiting', e.pid = p, e.arg # None
               PROVE  Followed(e.arg)' /\ (e.arg.index > 0 => At(ArgOf(e.arg, e.arg.index - 1))')
    BY Zenon DEF RecordsWhole, ArgOf
  <2>1. e \in Waiting /\ e.arg.pid = p
    BY Zenon, <1>0 DEF WellFormed
  <2> QED
    BY <1>4, <1>5, <1>6, <2>1 DEF Whole, RecordsWhole
<1>9. ProgramWhole(p)'
  <2> SUFFICES ASSUME NEW c \in Cpus, Runs(c, p)', running'[c].next > 0
               PROVE  At(ArgOf(running[c], running[c].next - 1))'
    BY Zenon DEF ProgramWhole
  <2>1. Runs(c, p) /\ running'[c] = running[c]
    BY Zenon, <1>3
  <2>2. PICK a : a = ArgOf(running[c], running[c].next - 1)
    BY Zenon
  <2>3. a.pid = p /\ At(a)
    BY Zenon, <2>1, <2>2 DEF Whole, ProgramWhole, Runs, ArgOf
  <2>4. At(a)' /\ a = ArgOf(running[c], running[c].next - 1)'
    BY Zenon, <1>6, <2>1, <2>2, <2>3 DEF ArgOf
  <2> QED
    BY Zenon, <2>4
<1>10. OwedWhole(p)'
  <2> SUFFICES ASSUME NEW d \in 1..MaxExecs, <<d, p>> \in owed'
               PROVE  /\ RetRec(p, d) \in Waiting'
                      /\ (Held(p)' /\ Final(p)'.id = d) \/ \E e \in Waiting' : e.pid = p /\ e.arg # None /\ e.id = d
    BY Zenon DEF OwedWhole, RetRec
  <2>1. /\ RetRec(p, d) \in Waiting
        /\ (Held(p) /\ Final(p).id = d) \/ \E e \in Waiting : e.pid = p /\ e.arg # None /\ e.id = d
    BY Zenon DEF Whole, OwedWhole
  <2> QED
    BY Zenon, <1>2, <2>1 DEF RetRec
<1> QED
  BY Zenon, <1>7, <1>8, <1>9, <1>10 DEF Whole

\* The slot of a process stays as it is, and what follows an argument still does.
LEMMA SlotWholeKept ==
  ASSUME OrderInv, NEW p \in Pids, Alone(p), Whole(p), UNCHANGED <<chapter, table>>,
         \A a : a.pid = p /\ Followed(a) => Followed(a)'
  PROVE  (Held(p)' <=> Held(p)) /\ Final(p)' = Final(p) /\ SlotWhole(p)'
<1>1. get_slot(p)' = get_slot(p)
  BY Zenon DEF get_slot
<1>2. (Held(p)' <=> Held(p)) /\ Argv(p)' = Argv(p) /\ Final(p)' = Final(p)
  BY Zenon, <1>1 DEF Held, Argv, Final
<1> SUFFICES ASSUME Held(p)' PROVE SlotWhole(p)'
  BY Zenon, <1>2 DEF SlotWhole
<1>3. PICK a : a = Final(p)
  BY Zenon
<1>4. Held(p) /\ a.pid = p /\ Followed(a)
  BY Zenon, <1>2, <1>3, HeldSlot DEF Whole, SlotWhole, OrderInv, RingInv
<1>5. Followed(a)' /\ Final(p)' = a
  BY Zenon, <1>2, <1>3, <1>4
<1>6. Followed(Final(p))'
  BY Zenon, <1>5
<1> QED
  BY Zenon, <1>2, <1>4, <1>6 DEF Whole, SlotWhole, ArgOf

\* Whole under each step of the process: execve(), an argument, the EVENT_RET.
LEMMA WholeExecve ==
  ASSUME OrderInv, WholeInv, NEW c \in Cpus, NEW q \in Pids, NEW n \in ArgCounts, Execve(c, q, n),
         ~OneRecord, NEW p \in Pids, Alone(p)'
  PROVE  Whole(p)'
<1>1. /\ running[c] = None /\ moved \subseteq moved' /\ UNCHANGED <<chapter, rings, table, line, owed, lost>>
      /\ \A d \in Cpus : running[d] # None => running[d].pid # q
      /\ running' = [running EXCEPT ![c] = [id |-> execs + 1, pid |-> q, argc |-> n, next |-> 0]]
      /\ running \in [Cpus -> Exec \cup {None}]
  BY Zenon DEF Execve, OrderInv, RingInv, TypeOK
<1>2. Alone(p) /\ Whole(p)
  BY Zenon, <1>1, AloneBefore DEF WholeInv
<1>3. Waiting' = Waiting
  BY <1>1 DEF Waiting, Rings
<1>4. \A d \in Cpus : d # c => running'[d] = running[d]
  BY Zenon, <1>1
<1>5. running'[c].pid = q /\ running'[c].next = 0
  BY Zenon, <1>1
<1>6. CASE p # q
  <2>1. \A d \in Cpus : (Runs(d, p) \/ Runs(d, p)') => running'[d] = running[d]
    BY Zenon, <1>1, <1>4, <1>5, <1>6 DEF Runs
  <2> QED
    BY Zenon, <1>1, <1>2, <1>3, <2>1, WholeAside
<1>7. CASE p = q
  <2>1. \A d \in Cpus : ~Runs(d, p)
    BY Zenon, <1>1, <1>7 DEF Runs
  <2>2. get_slot(p)' = get_slot(p)
    BY Zenon, <1>1 DEF get_slot
  <2>3. (Held(p)' <=> Held(p)) /\ Argv(p)' = Argv(p) /\ Final(p)' = Final(p)
    BY Zenon, <1>1, <2>2 DEF Held, Argv, Final
  <2>4. ASSUME NEW a, a.pid = p, Followed(a) PROVE Followed(a)'
    <3>1. IF a.index + 1 < Least(a.argc, MAXARGS) THEN ArgRec(ArgOf(a, a.index + 1)) \in Waiting
                                                  ELSE RetRec(a.pid, a.id) \in Waiting
      BY Zenon, <2>1, <2>4 DEF Followed
    <3> QED
      BY Zenon, <1>3, <3>1 DEF Followed, ArgRec, ArgOf, RetRec, Least
  <2>5. ASSUME NEW a, a.pid = p, At(a) PROVE At(a)'
    BY Zenon, <1>3, <2>3, <2>5 DEF At, ArgRec
  <2>6. SlotWhole(p)'
    BY Zenon, <1>1, <1>2, <2>4, SlotWholeKept
  <2>7. RecordsWhole(p)'
    <3> SUFFICES ASSUME NEW e \in Waiting', e.pid = p, e.arg # None
                 PROVE  Followed(e.arg)' /\ (e.arg.index > 0 => At(ArgOf(e.arg, e.arg.index - 1))')
      BY Zenon DEF RecordsWhole, ArgOf
    <3>1. e \in Waiting /\ e.arg.pid = p
      BY Zenon, <1>3 DEF OrderInv, RingInv, SendInv, WellFormed
    <3>2. ArgOf(e.arg, e.arg.index - 1).pid = p
      BY Zenon, <3>1 DEF ArgOf
    <3> QED
      BY Zenon, <1>2, <2>4, <2>5, <3>1, <3>2 DEF Whole, RecordsWhole
  <2>8. ProgramWhole(p)'
    <3>1. \A d \in Cpus : Runs(d, p)' => d = c
      BY Zenon, <1>4, <2>1 DEF Runs
    <3> QED
      BY <1>5, <3>1 DEF ProgramWhole
  <2>9. OwedWhole(p)'
    BY Zenon, <1>1, <1>2, <1>3, <2>3 DEF Whole, OwedWhole, RetRec
  <2> QED
    BY Zenon, <2>6, <2>7, <2>8, <2>9 DEF Whole
<1> QED
  BY Zenon, <1>6, <1>7

LEMMA WholeArg ==
  ASSUME OrderInv, WholeInv, NEW c \in Cpus, EmitArg(c), NEW p \in Pids, Alone(p)'
  PROVE  Whole(p)'
<1>0. PICK x : x = running[c]
  BY Zenon
<1>1. PICK b : b = ArgOf(x, x.next)
  BY Zenon
<1>2. /\ ~OneRecord /\ x # None /\ x.next < Least(x.argc, MAXARGS) /\ Emit(c, ArgRec(b))
      /\ running' = [running EXCEPT ![c] = IF RoomFor(c) \/ PerCpu THEN [x EXCEPT !.next = @ + 1] ELSE None]
      /\ UNCHANGED <<chapter, execs, table, line, owed, moved>>
  BY Zenon, <1>0, <1>1, AsArg DEF OrderInv
<1>3. /\ b \in Arg /\ b # None /\ ArgRec(b) \in Record /\ b.id = x.id /\ b.pid = x.pid /\ b.argc = x.argc /\ b.index = x.next
      /\ ArgRec(b).pid = b.pid /\ ArgRec(b).id = b.id /\ ArgRec(b).arg = b
  BY Zenon, <1>0, <1>1, <1>2, SentArg DEF OrderInv
<1>4. /\ x.next \in Nat /\ x.pid \in Pids /\ x.argc \in ArgCounts
      /\ running \in [Cpus -> Exec \cup {None}] /\ TypeOK
  BY Zenon, <1>0, <1>2, ExecType DEF OrderInv, RingInv, TypeOK
<1>5. Waiting' = IF RoomFor(c) THEN Waiting \cup {ArgRec(b)} ELSE Waiting
  BY Zenon, <1>2, <1>3, <1>4, WaitingGrows
<1>6. lost \subseteq lost' /\ (~RoomFor(c) => x.pid \in lost')
  BY Zenon, <1>2, <1>3 DEF Emit
<1>7. Alone(p) /\ Whole(p)
  BY Zenon, <1>2, <1>6, AloneBefore DEF WholeInv
<1>8. \A d \in Cpus : d # c => running'[d] = running[d]
  BY <1>2
<1>9. PICK y : y = [x EXCEPT !.next = @ + 1]
  BY Zenon
<1>10. y # None /\ y.id = x.id /\ y.pid = x.pid /\ y.argc = x.argc /\ y.next = x.next + 1
  BY Zenon, <1>0, <1>2, <1>4, <1>9, Advanced
<1>11. running'[c] = y \/ running'[c] = None
  BY Zenon, <1>2, <1>4, <1>9
<1>12. CASE p # x.pid
  <2>1. \A d \in Cpus : (Runs(d, p) \/ Runs(d, p)') => running'[d] = running[d]
    BY Zenon, <1>0, <1>8, <1>10, <1>11, <1>12 DEF Runs
  <2>2. \A f : f.pid = p => (f \in Waiting' <=> f \in Waiting)
    BY Zenon, <1>3, <1>5, <1>12
  <2> QED
    BY Zenon, <1>2, <1>7, <2>1, <2>2, WholeAside
<1>13. CASE p = x.pid
  <2>1. RoomFor(c) /\ Waiting' = Waiting \cup {ArgRec(b)} /\ running'[c] = y
    BY Zenon, <1>2, <1>4, <1>5, <1>6, <1>9, <1>13 DEF Alone
  <2>2. Runs(c, p) /\ Runs(c, p)' /\ \A d \in Cpus : (Runs(d, p) \/ Runs(d, p)') => d = c
    <3>1. Runs(c, p) /\ \A d \in Cpus : Runs(d, p) => d = c
      BY Zenon, <1>0, <1>2, <1>13 DEF OrderInv, RingInv, SendInv, Runs
    <3> QED
      BY Zenon, <1>8, <1>10, <1>13, <2>1, <3>1 DEF Runs
  <2>3. ASSUME NEW a, a.pid = p, Followed(a) PROVE Followed(a)'
    <3>1. CASE a.index + 1 < Least(a.argc, MAXARGS)
      <4>1. ArgRec(ArgOf(a, a.index + 1)) \in Waiting \/ (x.id = a.id /\ x.argc = a.argc /\ x.next = a.index + 1)
        BY Zenon, <1>0, <2>2, <2>3, <3>1 DEF Followed
      <4>2. x.id = a.id /\ x.argc = a.argc /\ x.next = a.index + 1 => ArgOf(a, a.index + 1) = b
        BY Zenon, <1>1, <1>13, <2>3 DEF ArgOf
      <4>3. ArgRec(ArgOf(a, a.index + 1)) \in Waiting'
        BY Zenon, <2>1, <4>1, <4>2
      <4> QED
        BY Zenon, <3>1, <4>3 DEF Followed, ArgRec, ArgOf, Least
    <3>2. CASE ~(a.index + 1 < Least(a.argc, MAXARGS))
      <4>1. RetRec(a.pid, a.id) \in Waiting \/ x.id = a.id
        BY Zenon, <1>0, <2>2, <2>3, <3>2 DEF Followed
      <4>2. RetRec(a.pid, a.id) \in Waiting' \/ running'[c].id = a.id
        BY Zenon, <1>10, <2>1, <4>1
      <4> QED
        BY Zenon, <2>2, <2>3, <3>2, <4>2 DEF Followed, RetRec, Least
    <3> QED
      BY Zenon, <3>1, <3>2
  <2>4. (Held(p)' <=> Held(p)) /\ Final(p)' = Final(p) /\ SlotWhole(p)'
    BY Zenon, <1>2, <1>7, <2>3, SlotWholeKept
  <2>5. ASSUME NEW a, a.pid = p, At(a) PROVE At(a)'
    BY Zenon, <2>1, <2>4, <2>5 DEF At, ArgRec
  <2>6. Followed(b)'
    <3>1. running'[c].id = b.id /\ running'[c].argc = b.argc /\ running'[c].next = b.index + 1 /\ b.pid = p
      BY Zenon, <1>3, <1>10, <1>13, <2>1
    <3> QED
      BY Zenon, <2>2, <3>1 DEF Followed
  <2>7. x.next > 0 => At(ArgOf(x, x.next - 1))
    BY Zenon, <1>0, <1>7, <2>2 DEF Whole, ProgramWhole
  <2>8. RecordsWhole(p)'
    <3> SUFFICES ASSUME NEW e \in Waiting', e.pid = p, e.arg # None
                 PROVE  Followed(e.arg)' /\ (e.arg.index > 0 => At(ArgOf(e.arg, e.arg.index - 1))')
      BY Zenon DEF RecordsWhole, ArgOf
    <3>1. CASE e \in Waiting
      <4>1. e.arg.pid = p
        BY Zenon, <3>1 DEF OrderInv, RingInv, SendInv, WellFormed
      <4>2. ArgOf(e.arg, e.arg.index - 1).pid = p
        BY Zenon, <4>1 DEF ArgOf
      <4> QED
        BY Zenon, <1>7, <2>3, <2>5, <3>1, <4>1, <4>2 DEF Whole, RecordsWhole
    <3>2. CASE e = ArgRec(b)
      <4>1. e.arg = b /\ ArgOf(b, b.index - 1) = ArgOf(x, x.next - 1) /\ ArgOf(b, b.index - 1).pid = p
        BY Zenon, <1>3, <1>13, <3>2 DEF ArgOf
      <4> QED
        BY Zenon, <1>3, <2>5, <2>6, <2>7, <4>1
    <3> QED
      BY Zenon, <2>1, <3>1, <3>2
  <2>9. ProgramWhole(p)'
    <3>1. y.next - 1 = x.next
      BY <1>4, <1>10
    <3>2. ArgOf(y, y.next - 1) = b
      BY Zenon, <1>1, <1>10, <3>1 DEF ArgOf
    <3>3. At(b)'
      BY Zenon, <2>1 DEF At, ArgRec
    <3>4. ArgOf(running[c], running[c].next - 1)' = b
      BY Zenon, <2>1, <3>2 DEF ArgOf
    <3>5. At(ArgOf(running[c], running[c].next - 1))'
      BY Zenon, <3>3, <3>4
    <3> QED
      BY Zenon, <2>2, <3>5 DEF ProgramWhole
  <2>10. OwedWhole(p)'
    BY Zenon, <1>2, <1>7, <2>1, <2>4 DEF Whole, OwedWhole, RetRec
  <2> QED
    BY Zenon, <2>4, <2>8, <2>9, <2>10 DEF Whole
<1> QED
  BY Zenon, <1>12, <1>13

LEMMA WholeRet ==
  ASSUME OrderInv, WholeInv, NEW c \in Cpus, EmitRet(c), NEW p \in Pids, Alone(p)'
  PROVE  Whole(p)'
<1>0. PICK x : x = running[c]
  BY Zenon
<1>1. PICK b : b = RetRec(x.pid, x.id)
  BY Zenon
<1>2. /\ ~OneRecord /\ x # None /\ x.next = Least(x.argc, MAXARGS) /\ Emit(c, b)
      /\ running' = [running EXCEPT ![c] = None]
      /\ owed' = IF RoomFor(c) /\ x.argc > 0 THEN owed \cup {<<x.id, x.pid>>} ELSE owed
      /\ UNCHANGED <<chapter, execs, table, line, moved>>
  BY Zenon, <1>0, <1>1, AsRet DEF OrderInv
<1>3. b \in Record /\ b.pid = x.pid /\ b.id = x.id /\ b.arg = None
  BY Zenon, <1>0, <1>1, <1>2, SentRet DEF OrderInv
<1>4. /\ x.next \in Nat /\ x.pid \in Pids /\ x.id \in 1..MaxExecs /\ x.argc \in ArgCounts
      /\ running \in [Cpus -> Exec \cup {None}] /\ TypeOK
  BY Zenon, <1>0, <1>2, ExecType DEF OrderInv, RingInv, TypeOK
<1>5. Waiting' = IF RoomFor(c) THEN Waiting \cup {b} ELSE Waiting
  BY Zenon, <1>2, <1>3, <1>4, WaitingGrows
<1>6. lost \subseteq lost' /\ (~RoomFor(c) => x.pid \in lost')
  BY Zenon, <1>2, <1>3 DEF Emit
<1>7. Alone(p) /\ Whole(p)
  BY Zenon, <1>2, <1>6, AloneBefore DEF WholeInv
<1>8. running'[c] = None /\ \A d \in Cpus : d # c => running'[d] = running[d]
  BY Zenon, <1>2, <1>4
<1>9. CASE p # x.pid
  <2>1. \A d \in Cpus : (Runs(d, p) \/ Runs(d, p)') => running'[d] = running[d]
    BY Zenon, <1>0, <1>8, <1>9 DEF Runs
  <2>2. \A f : f.pid = p => (f \in Waiting' <=> f \in Waiting)
    BY Zenon, <1>3, <1>5, <1>9
  <2>3. \A d \in 1..MaxExecs : <<d, p>> \in owed' => <<d, p>> \in owed
    BY Zenon, <1>2, <1>9
  <2> QED
    BY Zenon, <1>2, <1>7, <2>1, <2>2, <2>3, WholeAside
<1>10. CASE p = x.pid
  <2>1. RoomFor(c) /\ Waiting' = Waiting \cup {b}
    BY Zenon, <1>5, <1>6, <1>10 DEF Alone
  <2>2. Runs(c, p) /\ \A d \in Cpus : ~Runs(d, p)' /\ (Runs(d, p) => d = c)
    <3>1. Runs(c, p) /\ \A d \in Cpus : Runs(d, p) => d = c
      BY Zenon, <1>0, <1>2, <1>10 DEF OrderInv, RingInv, SendInv, Runs
    <3> QED
      BY Zenon, <1>8, <3>1 DEF Runs
  <2>3. ASSUME NEW a, a.pid = p, Followed(a) PROVE Followed(a)'
    <3>1. CASE a.index + 1 < Least(a.argc, MAXARGS)
      <4>1. ArgRec(ArgOf(a, a.index + 1)) \in Waiting \/ (x.id = a.id /\ x.argc = a.argc /\ x.next = a.index + 1)
        BY Zenon, <1>0, <2>2, <2>3, <3>1 DEF Followed
      <4>2. ~(x.argc = a.argc /\ x.next = a.index + 1)
        BY <1>2, <1>4, <3>1, LeastType
      <4>3. ArgRec(ArgOf(a, a.index + 1)) \in Waiting'
        BY Zenon, <2>1, <4>1, <4>2
      <4> QED
        BY Zenon, <3>1, <4>3 DEF Followed, ArgRec, ArgOf, Least
    <3>2. CASE ~(a.index + 1 < Least(a.argc, MAXARGS))
      <4>1. RetRec(a.pid, a.id) \in Waiting \/ x.id = a.id
        BY Zenon, <1>0, <2>2, <2>3, <3>2 DEF Followed
      <4>2. RetRec(a.pid, a.id) \in Waiting'
        BY Zenon, <1>1, <1>10, <2>1, <2>3, <4>1
      <4> QED
        BY Zenon, <3>2, <4>2 DEF Followed, RetRec, Least
    <3> QED
      BY Zenon, <3>1, <3>2
  <2>4. (Held(p)' <=> Held(p)) /\ Final(p)' = Final(p) /\ SlotWhole(p)'
    BY Zenon, <1>2, <1>7, <2>3, SlotWholeKept
  <2>5. ASSUME NEW a, a.pid = p, At(a) PROVE At(a)'
    BY Zenon, <2>1, <2>4, <2>5 DEF At, ArgRec
  <2>6. RecordsWhole(p)'
    <3> SUFFICES ASSUME NEW e \in Waiting', e.pid = p, e.arg # None
                 PROVE  Followed(e.arg)' /\ (e.arg.index > 0 => At(ArgOf(e.arg, e.arg.index - 1))')
      BY Zenon DEF RecordsWhole, ArgOf
    <3>1. e \in Waiting
      BY Zenon, <1>3, <2>1
    <3>2. e.arg.pid = p
      BY Zenon, <3>1 DEF OrderInv, RingInv, SendInv, WellFormed
    <3>3. ArgOf(e.arg, e.arg.index - 1).pid = p
      BY Zenon, <3>2 DEF ArgOf
    <3> QED
      BY Zenon, <1>7, <2>3, <2>5, <3>1, <3>2, <3>3 DEF Whole, RecordsWhole
  <2>7. ProgramWhole(p)'
    BY Zenon, <2>2 DEF ProgramWhole
  <2>8. OwedWhole(p)'
    <3> SUFFICES ASSUME NEW d \in 1..MaxExecs, <<d, p>> \in owed'
                 PROVE  /\ RetRec(p, d) \in Waiting'
                        /\ (Held(p)' /\ Final(p)'.id = d) \/ \E e \in Waiting' : e.pid = p /\ e.arg # None /\ e.id = d
      BY Zenon DEF OwedWhole, RetRec
    <3>1. CASE <<d, p>> \in owed
      BY Zenon, <1>7, <2>1, <2>4, <3>1 DEF Whole, OwedWhole
    <3>2. CASE <<d, p>> \notin owed
      <4>1. d = x.id /\ x.argc > 0
        BY Zenon, <1>2, <3>2
      <4>2. RetRec(p, d) \in Waiting'
        BY Zenon, <1>1, <1>10, <2>1, <4>1
      <4>3. x.next > 0
        BY <1>2, <1>4, <4>1, ExecAssumption DEF Least
      <4>4. PICK a : a = ArgOf(x, x.next - 1)
        BY Zenon
      <4>5. At(a) /\ a.id = d /\ a.pid = p
        BY Zenon, <1>0, <1>7, <1>10, <2>2, <4>1, <4>3, <4>4 DEF Whole, ProgramWhole, ArgOf
      <4>6. CASE ArgRec(a) \in Waiting
        <5>1. ArgRec(a).pid = p /\ ArgRec(a).arg = a /\ ArgRec(a).id = d
          BY Zenon, <4>5 DEF ArgRec
        <5>2. a # None
          <6>1. a \in Arg
            <7>1. x.next \in 1..MAXARGS
              BY <1>2, <1>4, <4>3, LeastType
            <7>2. x.next - 1 \in 0..MAXARGS - 1
              BY <7>1, ExecAssumption
            <7> QED
              BY Zenon, <1>4, <4>4, <7>2 DEF ArgOf, Arg
          <6> QED
            BY Zenon, <6>1, NoneAssumption
        <5> QED
          BY Zenon, <2>1, <4>2, <4>6, <5>1, <5>2
      <4>7. CASE Held(p) /\ Final(p) = a
        BY Zenon, <2>4, <4>2, <4>5, <4>7
      <4> QED
        BY Zenon, <4>5, <4>6, <4>7 DEF At
    <3> QED
      BY Zenon, <3>1, <3>2
  <2> QED
    BY Zenon, <2>4, <2>6, <2>7, <2>8 DEF Whole
<1> QED
  BY Zenon, <1>9, <1>10

\* What is at the head of a ring was sent first.
LEMMA Passed ==
  ASSUME OrderInv, NEW r \in Rings, handle_event(r), NEW e, e = Head(rings[r]), Alone(e.pid)
  PROVE  /\ e \in Record /\ WellFormed(e) /\ e \in Waiting /\ e.pid \in Pids
         /\ Waiting' \subseteq Waiting /\ Waiting \subseteq Waiting' \cup {e}
         /\ \A f \in Waiting' : f.pid = e.pid => Earlier(e, f)
         /\ \A c \in Cpus : Runs(c, e.pid) => RecSent(e, running[c])
         /\ Held(e.pid) => ArgBefore(Final(e.pid), e)
         /\ UNCHANGED <<chapter, execs, running, lost, moved>>
<1>1. /\ rings[r] # <<>> /\ rings' = [rings EXCEPT ![r] = Tail(@)]
      /\ UNCHANGED <<chapter, execs, running, lost, moved>>
  BY Zenon DEF handle_event
<1>2. TypeOK /\ RingInv /\ SlotInv /\ e.pid \notin moved
  BY Zenon DEF OrderInv, RingInv, Alone
<1>3. e \in Waiting /\ Waiting' \subseteq Waiting /\ Waiting \subseteq Waiting' \cup {e}
  BY Zenon, <1>1, <1>2, WaitingShrinks
<1>4. e \in Record /\ WellFormed(e) /\ e.pid \in Pids
  BY Zenon, <1>2, <1>3, RecordType, RecordFields DEF RingInv, SendInv
<1>5. \A f \in Waiting' : f.pid = e.pid => Earlier(e, f)
  BY Zenon, <1>1, <1>2, HeadFirst
<1>6. \A c \in Cpus : Runs(c, e.pid) => RecSent(e, running[c])
  <2>1. 1 \in DOMAIN rings[r] /\ rings[r][1] = e
    BY Zenon, <1>1, <1>2, Taken
  <2>2. InLine(e.pid)
    BY ZenonT(30), <1>2, <1>4 DEF RingInv, SendInv
  <2> QED
    BY <2>1, <2>2 DEF InLine
<1>7. Held(e.pid) => ArgBefore(Final(e.pid), e)
  BY <1>2, <1>3, <1>4, HeldSlot DEF SlotOK, Final, Argv
<1> QED
  BY Zenon, <1>1, <1>3, <1>4, <1>5, <1>6, <1>7

\* What follows an argument, and where an argument is, after the head of a ring is
\* consumed.
LEMMA FollowedTake ==
  ASSUME OrderInv, NEW r \in Rings, handle_event(r), NEW e, e = Head(rings[r]), Alone(e.pid),
         NEW a \in Arg, a.pid = e.pid, Followed(a), ~ArgBefore(a, e)
  PROVE  Followed(a)'
<1>1. Waiting \subseteq Waiting' \cup {e} /\ UNCHANGED running
  BY Zenon, Passed
<1>2. a.id \in Nat /\ a.index \in Nat
  BY Zenon, ArgFields
<1>3. \A c \in Cpus : Runs(c, a.pid) => Runs(c, a.pid)'
  BY Zenon, <1>1 DEF Runs
<1>4. CASE a.index + 1 < Least(a.argc, MAXARGS)
  <2>1. ArgRec(ArgOf(a, a.index + 1)).id = a.id /\ ArgRec(ArgOf(a, a.index + 1)).arg.index = a.index + 1
    BY Zenon DEF ArgRec, ArgOf
  <2>2. ArgRec(ArgOf(a, a.index + 1)) # e
    BY <1>2, <2>1 DEF ArgBefore
  <2>3. \/ ArgRec(ArgOf(a, a.index + 1)) \in Waiting'
        \/ \E c \in Cpus : Runs(c, a.pid)' /\ running'[c].id = a.id /\ running'[c].argc = a.argc
                           /\ running'[c].next = a.index + 1
    BY Zenon, <1>1, <1>3, <1>4, <2>2 DEF Followed
  <2> QED
    BY Zenon, <1>4, <2>3 DEF Followed, ArgRec, ArgOf, Least
<1>5. CASE ~(a.index + 1 < Least(a.argc, MAXARGS))
  <2>1. RetRec(a.pid, a.id).id = a.id /\ RetRec(a.pid, a.id).arg = None
    BY Zenon DEF RetRec
  <2>2. RetRec(a.pid, a.id) # e
    BY Zenon, <1>2, <2>1 DEF ArgBefore
  <2>3. RetRec(a.pid, a.id) \in Waiting' \/ \E c \in Cpus : Runs(c, a.pid)' /\ running'[c].id = a.id
    BY Zenon, <1>1, <1>3, <1>5, <2>2 DEF Followed
  <2> QED
    BY Zenon, <1>5, <2>3 DEF Followed, RetRec, Least
<1> QED
  BY Zenon, <1>4, <1>5

\* What a slot still waits for is not behind the head of the ring.
LEMMA NotPast ==
  ASSUME OrderInv, NEW r \in Rings, handle_event(r), NEW e, e = Head(rings[r]), Alone(e.pid),
         NEW a \in Arg, a.pid = e.pid, Followed(a)
  PROVE  /\ e.id <= a.id
         /\ e.id = a.id /\ e.arg = None => a.index + 1 >= Least(a.argc, MAXARGS)
<1>1. /\ Waiting \subseteq Waiting' \cup {e} /\ e \in Record /\ \A f \in Waiting' : f.pid = e.pid => Earlier(e, f)
      /\ \A c \in Cpus : Runs(c, e.pid) => RecSent(e, running[c])
  BY Zenon, Passed
<1>2. a.id \in Nat /\ a.index \in Nat /\ e.id \in Nat /\ Least(a.argc, MAXARGS) \in Nat
  BY Zenon, <1>1, ArgFields, RecordFields
<1>3. CASE a.index + 1 < Least(a.argc, MAXARGS)
  <2> DEFINE f == ArgRec(ArgOf(a, a.index + 1))
  <2>1. f.pid = e.pid /\ f.id = a.id /\ f.arg = ArgOf(a, a.index + 1)
    BY Zenon DEF ArgRec, ArgOf
  <2>2. f.arg # None
    <3>1. a.index + 1 \in 0..MAXARGS - 1
      BY <1>2, <1>3, ExecAssumption, ArgFields, LeastType
    <3>2. ArgOf(a, a.index + 1) \in Arg
      BY Zenon, <3>1 DEF ArgOf, Arg
    <3> QED
      BY Zenon, <2>1, <3>2, NoneAssumption
  <2>3. CASE f \in Waiting
    <3>1. CASE f = e
      BY <1>2, <2>1, <2>2, <3>1
    <3>2. CASE f # e
      <4>1. Earlier(e, f)
        BY Zenon, <1>1, <2>1, <2>3, <3>2
      <4> HIDE DEF f
      <4> QED
        BY <1>2, <2>1, <2>2, <4>1 DEF Earlier
    <3> QED
      BY Zenon, <3>1, <3>2
  <2>4. CASE f \notin Waiting
    <3>1. PICK c \in Cpus : Runs(c, a.pid) /\ running[c].id = a.id
      BY Zenon, <1>3, <2>4 DEF Followed
    <3>2. RecSent(e, running[c])
      BY Zenon, <1>1, <3>1
    <3> QED
      BY <1>2, <3>1, <3>2 DEF RecSent
  <2> QED
    BY Zenon, <2>3, <2>4
<1>4. CASE ~(a.index + 1 < Least(a.argc, MAXARGS))
  <2> DEFINE f == RetRec(a.pid, a.id)
  <2>1. f.pid = e.pid /\ f.id = a.id /\ f.arg = None
    BY Zenon DEF RetRec
  <2>2. e.id <= a.id
    <3>1. CASE f \in Waiting
      <4>1. CASE f = e
        BY <1>2, <2>1, <4>1
      <4>2. CASE f # e
        <5>1. Earlier(e, f)
          BY Zenon, <1>1, <2>1, <3>1, <4>2
        <5> HIDE DEF f
        <5> QED
          BY <1>2, <2>1, <5>1 DEF Earlier
      <4> QED
        BY Zenon, <4>1, <4>2
    <3>2. CASE f \notin Waiting
      <4>1. PICK c \in Cpus : Runs(c, a.pid) /\ running[c].id = a.id
        BY Zenon, <1>4, <3>2 DEF Followed
      <4>2. RecSent(e, running[c])
        BY <1>1, <4>1
      <4> QED
        BY <1>2, <4>1, <4>2 DEF RecSent
    <3> QED
      BY Zenon, <3>1, <3>2
  <2> QED
    BY <1>2, <1>4, <2>2
<1> QED
  BY Zenon, <1>3, <1>4

\* The records of other processes do not concern one that is on its own.
LEMMA WholeTakeOther ==
  ASSUME OrderInv, WholeInv, NEW r \in Rings, handle_event(r), NEW p \in Pids, Alone(p), p # Head(rings[r]).pid
  PROVE  Whole(p)'
<1>1. PICK e : e = Head(rings[r])
  BY Zenon
<1>2. /\ ~OneRecord /\ rings[r] # <<>> /\ rings' = [rings EXCEPT ![r] = Tail(@)]
      /\ UNCHANGED <<chapter, execs, running, lost, moved>> /\ TypeOK /\ SlotInv
  BY Zenon DEF handle_event, OrderInv, RingInv
<1>3. e \in Waiting /\ Waiting' \subseteq Waiting /\ Waiting \subseteq Waiting' \cup {e}
  BY Zenon, <1>1, <1>2, WaitingShrinks
<1>4. e.pid \in Pids
  BY Zenon, <1>2, <1>3, RecordType, RecordFields
<1>5. get_slot(e.pid) # get_slot(p) /\ get_slot(p) \in Slots /\ table \in [Slots -> Pending \cup {None}]
  BY Zenon, <1>1, <1>2, <1>4, OwnSlot, SlotType DEF TypeOK
<1>6. \/ UNCHANGED table
      \/ \E v : table' = [table EXCEPT ![get_slot(e.pid)] = v]
  BY Zenon, <1>1 DEF handle_event, Clear
<1>7. table'[get_slot(p)] = table[get_slot(p)]
  BY Zenon, <1>5, <1>6
<1>8. \A d \in 1..MaxExecs : <<d, p>> \in owed' => <<d, p>> \in owed
  BY Zenon, <1>1 DEF handle_event
<1>9. \A f : f.pid = p => (f \in Waiting' <=> f \in Waiting)
  BY Zenon, <1>1, <1>3
<1>10. Whole(p)
  BY Zenon, <1>2 DEF WholeInv
<1> QED
  BY Zenon, <1>2, <1>7, <1>8, <1>9, <1>10, WholeAside

LEMMA AtTake ==
  ASSUME OrderInv, NEW r \in Rings, handle_event(r), NEW e, e = Head(rings[r]), Alone(e.pid),
         NEW a \in Arg, a.pid = e.pid, At(a), ~ArgBefore(a, e),
         e.arg # None => Held(e.pid)' /\ Final(e.pid)' = e.arg
  PROVE  At(a)'
<1>1. Waiting \subseteq Waiting' \cup {e} /\ (Held(e.pid) => ArgBefore(Final(e.pid), e))
  BY Zenon, Passed
<1>2. ArgRec(a) \in Waiting
  BY Zenon, <1>1 DEF At
<1>3. CASE ArgRec(a) = e
  <2>1. e.arg = a /\ a # None
    BY <1>3, NoneAssumption DEF ArgRec
  <2> QED
    BY Zenon, <2>1 DEF At
<1>4. CASE ArgRec(a) # e
  <2>1. ArgRec(a) \in Waiting'
    BY Zenon, <1>1, <1>2, <1>4
  <2> QED
    BY Zenon, <2>1 DEF At, ArgRec
<1> QED
  BY Zenon, <1>3, <1>4

LEMMA RestTake ==
  ASSUME OrderInv, NEW r \in Rings, handle_event(r), NEW e, e = Head(rings[r]), Alone(e.pid), Whole(e.pid),
         e.arg # None => Held(e.pid)' /\ Final(e.pid)' = e.arg
  PROVE  RecordsWhole(e.pid)' /\ ProgramWhole(e.pid)'
<1>1. /\ e \in Record /\ WellFormed(e) /\ Waiting' \subseteq Waiting /\ UNCHANGED running
      /\ \A f \in Waiting' : f.pid = e.pid => Earlier(e, f)
      /\ \A c \in Cpus : Runs(c, e.pid) => RecSent(e, running[c])
  BY Zenon, Passed
<1>2. /\ e.id \in Nat /\ e.pid \in Pids /\ (e.arg # None => e.arg.index \in Nat)
      /\ Waiting \subseteq Record /\ TypeOK /\ \A f \in Waiting : WellFormed(f)
  BY Zenon, <1>1, RecordFields, RecordType DEF OrderInv, RingInv, SendInv
<1>3. RecordsWhole(e.pid)'
  <2> SUFFICES ASSUME NEW f \in Waiting', f.pid = e.pid, f.arg # None
               PROVE  Followed(f.arg)' /\ (f.arg.index > 0 => At(ArgOf(f.arg, f.arg.index - 1))')
    BY Zenon DEF RecordsWhole, ArgOf
  <2>1. f \in Waiting /\ f \in Record /\ WellFormed(f) /\ Earlier(e, f)
    BY Zenon, <1>1, <1>2
  <2>2. /\ f.arg \in Arg /\ f.arg.pid = e.pid /\ f.arg.id = f.id /\ f.id \in Nat /\ f.arg.index \in 0..MAXARGS - 1
        /\ f.arg.index \in Nat
    BY Zenon, <2>1, RecordFields DEF WellFormed
  <2>3. ~ArgBefore(f.arg, e)
    BY <1>2, <2>1, <2>2 DEF ArgBefore, Earlier
  <2>4. Followed(f.arg) /\ (f.arg.index > 0 => At(ArgOf(f.arg, f.arg.index - 1)))
    BY Zenon, <2>1 DEF Whole, RecordsWhole
  <2>5. Followed(f.arg)'
    BY Zenon, <2>2, <2>3, <2>4, FollowedTake
  <2>6. ASSUME f.arg.index > 0 PROVE At(ArgOf(f.arg, f.arg.index - 1))'
    <3>1. PICK g : g = ArgOf(f.arg, f.arg.index - 1)
      BY Zenon
    <3>2. f.arg.index - 1 \in 0..MAXARGS - 1
      BY <2>2, <2>6, ExecAssumption
    <3>3. g \in Arg /\ g.pid = e.pid /\ g.id = f.id /\ g.index = f.arg.index - 1
      BY Zenon, <2>2, <3>1, <3>2 DEF ArgOf, Arg
    <3>4. ~ArgBefore(g, e)
      BY <1>2, <2>1, <2>2, <3>3 DEF ArgBefore, Earlier
    <3>5. At(g)'
      BY Zenon, <2>4, <2>6, <3>1, <3>3, <3>4, AtTake
    <3>6. g = ArgOf(f.arg, f.arg.index - 1)'
      BY Zenon, <3>1 DEF ArgOf
    <3> QED
      BY Zenon, <3>5, <3>6
  <2> QED
    BY Zenon, <2>5, <2>6
<1>4. ProgramWhole(e.pid)'
  <2> SUFFICES ASSUME NEW c \in Cpus, Runs(c, e.pid)', running'[c].next > 0
               PROVE  At(ArgOf(running[c], running[c].next - 1))'
    BY Zenon DEF ProgramWhole
  <2>1. Runs(c, e.pid) /\ running'[c] = running[c] /\ running[c] # None
    BY Zenon, <1>1 DEF Runs
  <2>2. PICK x : x = running[c]
    BY Zenon
  <2>3. x.id \in 1..MaxExecs /\ x.id \in Nat /\ x.pid = e.pid /\ x.argc \in ArgCounts /\ x.next \in 0..MAXARGS /\ x.next > 0
    BY Zenon, <1>2, <2>1, <2>2, ExecType DEF Runs
  <2>4. PICK g : g = ArgOf(x, x.next - 1)
    BY Zenon
  <2>5. x.next - 1 \in 0..MAXARGS - 1
    BY <2>3, ExecAssumption
  <2>6. g \in Arg /\ g.pid = e.pid /\ g.id = x.id /\ g.index = x.next - 1
    BY Zenon, <1>2, <2>3, <2>4, <2>5 DEF ArgOf, Arg
  <2>7. ~ArgBefore(g, e)
    <3>1. RecSent(e, x)
      BY Zenon, <1>1, <2>1, <2>2
    <3> QED
      BY <1>2, <2>3, <2>6, <3>1, ExecAssumption DEF ArgBefore, RecSent
  <2>8. At(g)
    BY Zenon, <2>1, <2>2, <2>3, <2>4 DEF Whole, ProgramWhole
  <2>9. At(g)'
    BY Zenon, <2>6, <2>7, <2>8, AtTake
  <2>10. g = ArgOf(running[c], running[c].next - 1)'
    BY Zenon, <2>1, <2>2, <2>4 DEF ArgOf
  <2> QED
    BY Zenon, <2>9, <2>10
<1> QED
  BY Zenon, <1>3, <1>4

\* An argument goes to the end of its command.
LEMMA WholeTakeArg ==
  ASSUME OrderInv, WholeInv, NEW r \in Rings, handle_event(r), NEW p \in Pids, Alone(p),
         Head(rings[r]).pid = p, Head(rings[r]).arg # None
  PROVE  Whole(p)'
<1>1. PICK e : e = Head(rings[r])
  BY Zenon
<1>2. PICK a : a = e.arg
  BY Zenon
<1>3. PICK s : s = get_slot(p)
  BY Zenon
<1>4. PICK t : t = SlotFor(e)
  BY Zenon
<1>5. PICK n : n = AddArg(t, a)
  BY Zenon
<1>6. /\ table' = [table EXCEPT ![s] = n] /\ UNCHANGED <<line, owed>> /\ ~OneRecord
  BY Zenon, <1>1, <1>2, <1>3, <1>4, <1>5 DEF handle_event
<1>7. Whole(p) /\ TypeOK /\ SlotInv
  BY Zenon, <1>6 DEF WholeInv, OrderInv, RingInv
<1>8. /\ e \in Record /\ WellFormed(e) /\ e \in Waiting /\ Waiting \subseteq Waiting' \cup {e}
      /\ \A f \in Waiting' : f.pid = p => Earlier(e, f)
      /\ Held(p) => ArgBefore(Final(p), e)
      /\ UNCHANGED <<chapter, execs, running, lost, moved>>
  BY Zenon, <1>1, Passed
<1>9. /\ a \in Arg /\ a.pid = p /\ a.id = e.id /\ a.index < Least(a.argc, MAXARGS) /\ a # None
      /\ a.id \in Nat /\ a.index \in Nat /\ Least(a.argc, MAXARGS) \in Nat /\ a = ArgOf(a, a.index) /\ e.id \in Nat
      /\ Least(a.argc, MAXARGS) <= MAXARGS /\ a.argc \in ArgCounts
  <2>1. a \in Arg /\ a # None /\ e.id \in Nat /\ e.pid = p
    BY Zenon, <1>1, <1>2, <1>8, RecordFields
  <2>2. a.id = e.id /\ a.pid = p /\ a.index < Least(a.argc, MAXARGS)
    BY Zenon, <1>2, <1>8, <2>1 DEF WellFormed
  <2>3. /\ a.id \in Nat /\ a.index \in Nat /\ a.argc \in ArgCounts /\ a = ArgOf(a, a.index)
        /\ Least(a.argc, MAXARGS) \in Nat /\ Least(a.argc, MAXARGS) \in 0..MAXARGS
    BY Zenon, <2>1, ArgFields, LeastType
  <2>4. Least(a.argc, MAXARGS) <= MAXARGS
    BY <2>3, ExecAssumption
  <2> QED
    BY Zenon, <2>1, <2>2, <2>3, <2>4
<1>10. /\ t \in Pending /\ n \in Pending /\ n # None /\ n.pid = p /\ n.argv # <<>>
       /\ IF Full(t) THEN n = t /\ t.argv # <<>> ELSE n.argv = Append(t.argv, a)
       /\ t.argv # <<>> => Held(p) /\ t = table[s]
       /\ t.argv = <<>> => ~Held(p)
  <2>1. Held(p) => table[s].pid = p
    BY Zenon, <1>3, <1>7, HeldSlot
  <2> QED
    BY Zenon, <1>1, <1>2, <1>3, <1>4, <1>5, <1>7, <1>8, <1>9, <2>1, Added DEF Held
<1>11. /\ table'[s] = n /\ get_slot(p)' = s /\ Held(p)' /\ Argv(p)' = n.argv
  <2>1. s \in Slots /\ table \in [Slots -> Pending \cup {None}]
    BY Zenon, <1>3, <1>7, SlotType DEF TypeOK
  <2>2. table'[s] = n
    BY Zenon, <1>6, <2>1
  <2>3. get_slot(p)' = s
    BY Zenon, <1>3, <1>8 DEF get_slot
  <2> QED
    BY Zenon, <1>10, <2>2, <2>3 DEF Held, Argv
<1>12. Followed(a) /\ (a.index > 0 => At(ArgOf(a, a.index - 1)))
  BY Zenon, <1>1, <1>2, <1>7, <1>8, <1>9 DEF Whole, RecordsWhole
<1>13. ~ArgBefore(a, e)
  BY <1>2, <1>9 DEF ArgBefore
<1>14. Followed(a)'
  BY Zenon, <1>1, <1>9, <1>12, <1>13, FollowedTake
\* The slot holds what was sent before.
<1>15. /\ t.argv \in Seq(Arg) /\ Len(t.argv) = a.index
       /\ a.index > 0 => t.argv = [i \in 1..a.index |-> ArgOf(a, i - 1)]
  <2>1. CASE a.index = 0
    <3>1. ~Held(p)
      <4> SUFFICES ASSUME Held(p) PROVE FALSE
        BY Zenon
      <4>1. PICK g : g = Final(p)
        BY Zenon
      <4>2. g \in Arg /\ g.pid = p /\ Followed(g) /\ ArgBefore(g, e)
        BY Zenon, <1>7, <1>8, <4>1, HeldSlot DEF Whole, SlotWhole
      <4>3. e.id <= g.id
        BY Zenon, <1>1, <4>2, NotPast
      <4>4. g.id \in Nat /\ g.index \in Nat
        BY Zenon, <4>2, ArgFields
      <4> QED
        BY <1>2, <1>9, <2>1, <4>2, <4>3, <4>4 DEF ArgBefore
    <3>2. t.argv = <<>>
      BY Zenon, <1>10, <3>1
    <3> QED
      BY <2>1, <3>2
  <2>2. CASE a.index > 0
    <3>1. PICK g : g = ArgOf(a, a.index - 1)
      BY Zenon
    <3>2. g.id = a.id /\ g.index = a.index - 1 /\ g.pid = p /\ g.argc = a.argc
      BY Zenon, <1>9, <3>1 DEF ArgOf
    <3>3. ArgRec(g) \notin Waiting
      <4> SUFFICES ASSUME ArgRec(g) \in Waiting PROVE FALSE
        BY Zenon
      <4>1. ArgRec(g).pid = p /\ ArgRec(g).arg = g /\ ArgRec(g).id = a.id
        BY Zenon, <3>2 DEF ArgRec
      <4>2. ArgRec(g) # e
        BY <1>2, <1>9, <3>2, <4>1
      <4>3. Earlier(e, ArgRec(g))
        BY Zenon, <1>8, <4>1, <4>2
      <4>4. g # None
        <5>1. a.index - 1 \in 0..MAXARGS - 1
          BY <1>9, <2>2, ExecAssumption
        <5>2. g \in Arg
          BY Zenon, <1>9, <3>1, <5>1 DEF ArgOf, Arg
        <5> QED
          BY Zenon, <5>2, NoneAssumption
      <4> QED
        BY <1>2, <1>9, <3>2, <4>1, <4>3, <4>4 DEF Earlier
    <3>4. Held(p) /\ Final(p) = g
      BY Zenon, <1>12, <2>2, <3>1, <3>2, <3>3 DEF At
    <3>5. PICK v : v = Argv(p)
      BY Zenon
    <3>6. PICK b : b = v[1]
      BY Zenon
    <3>7. v = [i \in 1..Len(v) |-> ArgOf(b, i - 1)] /\ v[Len(v)] = g /\ v \in Seq(Arg) /\ Len(v) \in Nat \ {0}
      BY Zenon, <1>7, <3>4, <3>5, <3>6, HeldSlot DEF Whole, SlotWhole, Final
    <3>8. g = ArgOf(b, Len(v) - 1)
      <4>1. Len(v) \in 1..Len(v)
        BY <3>7
      <4> QED
        BY Zenon, <3>7, <4>1
    <3>9. b.id = a.id /\ b.argc = a.argc /\ b.pid = a.pid /\ Len(v) - 1 = a.index - 1
      BY Zenon, <1>9, <3>2, <3>8 DEF ArgOf
    <3>10. Len(v) = a.index
      BY <1>9, <3>7, <3>9
    <3>11. v = [i \in 1..a.index |-> ArgOf(a, i - 1)]
      BY Zenon, <3>7, <3>9, <3>10 DEF ArgOf
    <3>12. t.argv = v
      <4>1. t.argv # <<>>
        BY Zenon, <1>10, <3>4
      <4> QED
        BY Zenon, <1>3, <1>10, <3>5, <4>1 DEF Argv
    <3> QED
      BY Zenon, <3>7, <3>10, <3>11, <3>12
  <2> QED
    BY <1>9, <2>1, <2>2
<1>16. n.argv = Append(t.argv, a)
  BY <1>9, <1>10, <1>15, ExecAssumption DEF Full
<1>17. /\ n.argv = [i \in 1..a.index + 1 |-> ArgOf(a, i - 1)] /\ Len(n.argv) = a.index + 1
       /\ n.argv[1] = ArgOf(a, 0) /\ n.argv[Len(n.argv)] = a
  <2>1. PICK u \in Seq(Arg) : u = t.argv
    BY Zenon, <1>15
  <2>2. /\ Append(u, a) = [i \in 1..Len(u) + 1 |-> IF i = Len(u) + 1 THEN a ELSE u[i]] /\ Len(Append(u, a)) = Len(u) + 1
    BY <1>9, <2>1
  <2>3. Len(u) = a.index
    BY Zenon, <1>15, <2>1
  <2>4. \A i \in 1..a.index + 1 : (IF i = a.index + 1 THEN a ELSE u[i]) = ArgOf(a, i - 1)
    <3> SUFFICES ASSUME NEW i \in 1..a.index + 1 PROVE (IF i = a.index + 1 THEN a ELSE u[i]) = ArgOf(a, i - 1)
      BY Zenon
    <3>1. CASE i = a.index + 1
      <4>1. i - 1 = a.index
        BY <1>9, <3>1
      <4> QED
        BY Zenon, <1>9, <3>1, <4>1
    <3>2. CASE i # a.index + 1
      <4>1. i \in 1..a.index /\ a.index > 0
        BY <1>9, <3>2
      <4>2. u = [k \in 1..a.index |-> ArgOf(a, k - 1)]
        BY Zenon, <1>15, <2>1, <4>1
      <4> QED
        BY Zenon, <3>2, <4>1, <4>2
    <3> QED
      BY Zenon, <3>1, <3>2
  <2>5. n.argv = [i \in 1..a.index + 1 |-> ArgOf(a, i - 1)] /\ Len(n.argv) = a.index + 1
    BY <1>16, <2>1, <2>2, <2>3, <2>4
  <2>6. 1 \in 1..a.index + 1 /\ a.index + 1 \in 1..a.index + 1 /\ 1 - 1 = 0 /\ (a.index + 1) - 1 = a.index
    BY <1>9
  <2> QED
    BY <1>9, <2>5, <2>6
<1>18. Final(p)' = a
  BY Zenon, <1>11, <1>17 DEF Final
<1>19. SlotWhole(p)'
  <2>1. PICK b : b = n.argv[1]
    BY Zenon
  <2>2. b.id = a.id /\ b.argc = a.argc /\ b.pid = a.pid
    BY <1>17, <2>1 DEF ArgOf
  <2>3. n.argv = [i \in 1..Len(n.argv) |-> ArgOf(b, i - 1)]
    BY Zenon, <1>17, <2>2 DEF ArgOf
  <2>4. Len(n.argv) <= Least(b.argc, MAXARGS)
    BY <1>9, <1>17, <2>2
  <2>5. Followed(Final(p))'
    BY Zenon, <1>14, <1>18
  <2>6. (Argv(p) = [i \in 1..Len(Argv(p)) |-> ArgOf(Argv(p)[1], i - 1)])'
    BY Zenon, <1>11, <2>1, <2>3 DEF ArgOf
  <2>7. (Len(Argv(p)) <= Least(Argv(p)[1].argc, MAXARGS))'
    BY Zenon, <1>11, <2>1, <2>4 DEF Least
  <2> QED
    BY Zenon, <2>5, <2>6, <2>7 DEF SlotWhole
<1>20. RecordsWhole(p)' /\ ProgramWhole(p)'
  BY Zenon, <1>1, <1>2, <1>7, <1>11, <1>18, RestTake
<1>21. OwedWhole(p)'
  <2> SUFFICES ASSUME NEW d \in 1..MaxExecs, <<d, p>> \in owed
               PROVE  /\ RetRec(p, d) \in Waiting'
                      /\ a.id = d \/ \E f \in Waiting' : f.pid = p /\ f.arg # None /\ f.id = d
    BY Zenon, <1>6, <1>11, <1>18 DEF OwedWhole, RetRec
  <2>1. /\ RetRec(p, d) \in Waiting
        /\ (Held(p) /\ Final(p).id = d) \/ \E f \in Waiting : f.pid = p /\ f.arg # None /\ f.id = d
    BY Zenon, <1>7 DEF Whole, OwedWhole
  <2>2. RetRec(p, d).pid = p /\ RetRec(p, d).arg = None /\ RetRec(p, d).id = d
    BY Zenon DEF RetRec
  <2>3. RetRec(p, d) \in Waiting'
    BY Zenon, <1>2, <1>8, <1>9, <2>1, <2>2
  <2>4. CASE Held(p) /\ Final(p).id = d
    <3>1. Earlier(e, RetRec(p, d)) /\ ArgBefore(Final(p), e)
      BY Zenon, <1>8, <2>2, <2>3, <2>4
    <3> QED
      BY <1>9, <2>2, <2>3, <2>4, <3>1, ExecAssumption DEF Earlier, ArgBefore
  <2>5. CASE \E f \in Waiting : f.pid = p /\ f.arg # None /\ f.id = d
    BY Zenon, <1>8, <1>9, <2>3, <2>5
  <2> QED
    BY Zenon, <2>1, <2>4, <2>5
<1> QED
  BY Zenon, <1>19, <1>20, <1>21 DEF Whole

\* An EVENT_RET prints the whole command.
LEMMA WholeTakeRet ==
  ASSUME OrderInv, WholeInv, NEW r \in Rings, handle_event(r), NEW p \in Pids, Alone(p),
         Head(rings[r]).pid = p, Head(rings[r]).arg = None
  PROVE  /\ Whole(p)'
         /\ Held(p) => /\ line' = table[get_slot(p)] /\ line'.pid = p
                       /\ line'.argv = [i \in 1..Least(line'.argv[1].argc, MAXARGS) |-> ArgOf(line'.argv[1], i - 1)]
                       /\ line'.argv[1].pid = p
         /\ ~Held(p) => UNCHANGED line
<1>1. PICK e : e = Head(rings[r])
  BY Zenon
<1>2. PICK s : s = get_slot(p)
  BY Zenon
<1>3. /\ ~OneRecord
      /\ IF table[s] # None /\ table[s].pid = p
         THEN table' = [table EXCEPT ![s] = None] /\ line' = table[s] /\ owed' = owed \ {<<e.id, p>>}
         ELSE UNCHANGED <<table, line, owed>>
  BY Zenon, <1>1, <1>2 DEF handle_event, Clear
<1>4. Whole(p) /\ TypeOK /\ SlotInv
  BY Zenon, <1>3 DEF WholeInv, OrderInv, RingInv
<1>5. /\ e \in Record /\ WellFormed(e) /\ e \in Waiting /\ Waiting \subseteq Waiting' \cup {e}
      /\ \A f \in Waiting' : f.pid = p => Earlier(e, f)
      /\ Held(p) => ArgBefore(Final(p), e)
      /\ UNCHANGED <<chapter, execs, running, lost, moved>>
  BY Zenon, <1>1, Passed
<1>6. e.id \in Nat /\ e.arg = None /\ e.pid = p
  BY Zenon, <1>1, <1>5, RecordFields
<1>7. RecordsWhole(p)' /\ ProgramWhole(p)'
  BY Zenon, <1>1, <1>4, <1>6, RestTake
<1>8. get_slot(p)' = s /\ s \in Slots /\ table \in [Slots -> Pending \cup {None}]
  <2>1. get_slot(p)' = s
    BY Zenon, <1>2, <1>5 DEF get_slot
  <2> QED
    BY Zenon, <1>2, <1>4, <2>1, SlotType DEF TypeOK
<1>9. \A d \in Nat : /\ RetRec(p, d).pid = p /\ RetRec(p, d).arg = None /\ RetRec(p, d).id = d
                     /\ RetRec(p, d) \in Waiting /\ d # e.id => RetRec(p, d) \in Waiting'
  <2>1. \A d : RetRec(p, d).pid = p /\ RetRec(p, d).arg = None /\ RetRec(p, d).id = d
    BY Zenon DEF RetRec
  <2> QED
    BY Zenon, <1>5, <2>1
<1>10. CASE Held(p)
  <2>1. table[s] # None /\ table[s].pid = p
    BY Zenon, <1>2, <1>4, <1>10, HeldSlot DEF Held
  <2>2. table' = [table EXCEPT ![s] = None] /\ line' = table[s] /\ owed' = owed \ {<<e.id, p>>}
    BY Zenon, <1>3, <2>1
  <2>3. ~Held(p)'
    BY Zenon, <1>8, <2>2 DEF Held
  <2>4. PICK v : v = Argv(p)
    BY Zenon
  <2>5. PICK b : b = v[1]
    BY Zenon
  <2>6. PICK g : g = Final(p)
    OBVIOUS
  <2>7. /\ v = [i \in 1..Len(v) |-> ArgOf(b, i - 1)] /\ v[Len(v)] = g /\ v \in Seq(Arg) /\ Len(v) \in Nat \ {0}
        /\ Len(v) <= Least(b.argc, MAXARGS) /\ Followed(g) /\ g \in Arg /\ g.pid = p /\ b \in Arg /\ b.pid = p
        /\ ArgBefore(g, e)
    BY Zenon, <1>4, <1>5, <1>10, <2>4, <2>5, <2>6, HeldSlot DEF Whole, SlotWhole, Final
  <2>8. g.id \in Nat /\ g.index \in Nat /\ Least(b.argc, MAXARGS) \in Nat
    BY Zenon, <2>7, ArgFields
  <2>9. e.id <= g.id /\ (e.id = g.id => g.index + 1 >= Least(g.argc, MAXARGS))
    BY Zenon, <1>1, <1>6, <2>7, NotPast
  <2>10. e.id = g.id
    BY <1>6, <2>7, <2>8, <2>9 DEF ArgBefore
  <2>11. g.argc = b.argc /\ g.index = Len(v) - 1
    <3>1. Len(v) \in 1..Len(v)
      BY <2>7
    <3>2. g = ArgOf(b, Len(v) - 1)
      BY Zenon, <2>7, <3>1
    <3> QED
      BY Zenon, <3>2 DEF ArgOf
  <2>12. Len(v) = Least(b.argc, MAXARGS)
    BY <2>7, <2>8, <2>9, <2>10, <2>11
  <2>13. line'.argv = v
    BY Zenon, <1>2, <2>2, <2>4 DEF Argv
  <2>14. /\ line' = table[get_slot(p)] /\ line'.pid = p
         /\ line'.argv = [i \in 1..Least(line'.argv[1].argc, MAXARGS) |-> ArgOf(line'.argv[1], i - 1)]
         /\ line'.argv[1].pid = p
    BY Zenon, <1>2, <2>1, <2>2, <2>5, <2>7, <2>12, <2>13
  <2>15. SlotWhole(p)'
    BY Zenon, <2>3 DEF SlotWhole
  <2>16. OwedWhole(p)'
    <3> SUFFICES ASSUME NEW d \in 1..MaxExecs, <<d, p>> \in owed, d # e.id
                 PROVE  RetRec(p, d) \in Waiting' /\ \E f \in Waiting' : f.pid = p /\ f.arg # None /\ f.id = d
      BY Zenon, <2>2 DEF OwedWhole, RetRec
    <3>1. /\ RetRec(p, d) \in Waiting
          /\ (Held(p) /\ Final(p).id = d) \/ \E f \in Waiting : f.pid = p /\ f.arg # None /\ f.id = d
      BY Zenon, <1>4 DEF Whole, OwedWhole
    <3>2. d \in Nat /\ \E f \in Waiting : f.pid = p /\ f.arg # None /\ f.id = d
      BY <2>6, <2>10, <3>1
    <3> QED
      BY Zenon, <1>5, <1>6, <1>9, <3>1, <3>2
  <2> QED
    BY Zenon, <1>7, <1>10, <2>14, <2>15, <2>16 DEF Whole
<1>11. CASE ~Held(p)
  <2>1. UNCHANGED <<table, line, owed>>
    BY Zenon, <1>2, <1>3, <1>11 DEF Held
  <2>2. ~Held(p)'
    BY Zenon, <1>2, <1>8, <1>11, <2>1 DEF Held
  <2>3. SlotWhole(p)'
    BY <2>2 DEF SlotWhole
  <2>4. OwedWhole(p)'
    <3> SUFFICES ASSUME NEW d \in 1..MaxExecs, <<d, p>> \in owed
                 PROVE  RetRec(p, d) \in Waiting' /\ \E f \in Waiting' : f.pid = p /\ f.arg # None /\ f.id = d
      BY Zenon, <2>1 DEF OwedWhole, RetRec
    <3>1. RetRec(p, d) \in Waiting
      BY Zenon, <1>4 DEF Whole, OwedWhole
    <3>2. PICK f \in Waiting : f.pid = p /\ f.arg # None /\ f.id = d
      BY Zenon, <1>4, <1>11 DEF Whole, OwedWhole
    <3>3. f \in Waiting'
      BY Zenon, <1>5, <1>6, <3>2
    <3>4. Earlier(e, f)
      BY Zenon, <1>5, <3>2, <3>3
    <3>5. d \in Nat /\ e.id < d
      BY <1>6, <3>2, <3>4 DEF Earlier
    <3> QED
      BY <1>6, <1>9, <3>1, <3>2, <3>3, <3>5
  <2> QED
    BY Zenon, <1>7, <1>11, <2>1, <2>3, <2>4 DEF Whole
<1> QED
  BY Zenon, <1>10, <1>11

\* A line that stays is as whole as it was.
LEMMA LineKept ==
  ASSUME LineIsWhole, UNCHANGED <<chapter, line>>, lost \subseteq lost', moved \subseteq moved'
  PROVE  LineIsWhole'
<1>1. line' # None /\ Alone(line.pid)' => line # None /\ Alone(line.pid)
  BY Zenon DEF Alone
<1> QED
  BY Zenon, <1>1 DEF LineIsWhole, Least

\* Chapters 03 and 04: a record is a command, and it is printed as it comes.
LEMMA WholeOnly ==
  ASSUME OrderInv, WholeInv, NEW c \in Cpus, EmitOnly(c)
  PROVE  WholeInv'
<1>0. PICK b : b = ArgOf(running[c], running[c].next)
  BY Zenon
<1>1. /\ OneRecord /\ running[c] # None /\ running[c].next < Least(running[c].argc, MAXARGS)
      /\ Emit(c, ArgRec(b)) /\ UNCHANGED <<chapter, execs, table, line, moved>>
      /\ owed' = IF RoomFor(c) THEN owed \cup {<<running[c].id, running[c].pid>>} ELSE owed
  BY Zenon, <1>0, AsOnly DEF OrderInv
<1>2. ArgRec(b) \in Record /\ ArgRec(b).id = running[c].id /\ ArgRec(b).pid = running[c].pid
  BY Zenon, <1>0, <1>1, SentArg DEF OrderInv
<1>3. OneRecord' /\ lost \subseteq lost'
  BY Zenon, <1>1, Chapter DEF Emit
<1>4. Waiting' = IF RoomFor(c) THEN Waiting \cup {ArgRec(b)} ELSE Waiting
  BY Zenon, <1>1, <1>2, WaitingGrows DEF OrderInv, RingInv
<1>5. \A d \in 1..MaxExecs, p \in Pids : <<d, p>> \in owed' => \E e \in Waiting' : e.id = d /\ e.pid = p
  <2> SUFFICES ASSUME NEW d \in 1..MaxExecs, NEW p \in Pids, <<d, p>> \in owed'
               PROVE  \E e \in Waiting' : e.id = d /\ e.pid = p
    BY Zenon
  <2>1. CASE <<d, p>> \in owed
    BY <1>1, <1>4, <2>1 DEF WholeInv
  <2>2. CASE <<d, p>> \notin owed
    <3>1. RoomFor(c) /\ d = running[c].id /\ p = running[c].pid
      BY Zenon, <1>1, <2>2
    <3> QED
      BY Zenon, <1>2, <1>4, <3>1
  <2> QED
    BY Zenon, <2>1, <2>2
<1>6. LineIsWhole'
  BY Zenon, <1>1, <1>3, LineKept DEF WholeInv
<1> QED
  BY Zenon, <1>3, <1>5, <1>6 DEF WholeInv

\* WholeInv in the chapters that print each record.
LEMMA WholePrint ==
  ASSUME OrderInv, WholeInv, NEW r \in Rings, print_event(r)
  PROVE  WholeInv'
<1>0. PICK e : e = Head(rings[r])
  BY Zenon
<1>1. /\ OneRecord /\ rings[r] # <<>> /\ rings' = [rings EXCEPT ![r] = Tail(@)]
      /\ line' = [pid |-> e.pid, argv |-> <<e.arg>>] /\ owed' = owed \ {<<e.id, e.pid>>}
      /\ UNCHANGED <<chapter, execs, running, table, lost, moved>>
  BY Zenon, <1>0 DEF print_event
<1>2. OneRecord'
  BY Zenon, <1>1, Chapter
<1>3. e \in Waiting /\ Waiting' \subseteq Waiting /\ Waiting \subseteq Waiting' \cup {e}
  BY Zenon, <1>0, <1>1, WaitingShrinks DEF OrderInv, RingInv
<1>4. e \in Record /\ WellFormed(e)
  BY Zenon, <1>3, RecordType DEF OrderInv, RingInv, SendInv
<1>5. \A d \in 1..MaxExecs, p \in Pids : <<d, p>> \in owed' => \E f \in Waiting' : f.id = d /\ f.pid = p
  <2> SUFFICES ASSUME NEW d \in 1..MaxExecs, NEW p \in Pids, <<d, p>> \in owed, <<d, p>> # <<e.id, e.pid>>
               PROVE  \E f \in Waiting' : f.id = d /\ f.pid = p
    BY <1>1
  <2>1. PICK f \in Waiting : f.id = d /\ f.pid = p
    BY <1>1 DEF WholeInv
  <2> QED
    BY Zenon, <1>3, <2>1
<1>6. PICK a : a = e.arg
  BY Zenon
<1>7. a \in Arg /\ a.argc = 1 /\ a.index < Least(1, MAXARGS) /\ a.index \in Nat /\ a = ArgOf(a, a.index) /\ a.pid = e.pid
  BY Zenon, <1>1, <1>4, <1>6, RecordFields, ArgFields DEF WellFormed
<1>8. a.index = 0 /\ Least(a.argc, MAXARGS) = 1
  BY <1>7, ExecAssumption DEF Least
<1>9. line'.pid = e.pid /\ line'.argv = <<a>> /\ line'.argv[1] = a
  BY Zenon, <1>1, <1>6
<1>10. <<a>> = [i \in 1..1 |-> ArgOf(a, i - 1)]
  <2>1. \A i \in 1..1 : <<a>>[i] = ArgOf(a, i - 1)
    BY <1>7, <1>8
  <2> QED
    BY <2>1
<1>11. LineIsWhole'
  BY <1>7, <1>8, <1>9, <1>10 DEF LineIsWhole, ArgOf, Least
<1> QED
  BY Zenon, <1>2, <1>5, <1>11 DEF WholeInv

\* WholeInv is kept.
LEMMA WholeStep ==
  ASSUME OrderInv, WholeInv, [Next]_vars
  PROVE  WholeInv'
<1>1. ASSUME NEW c \in Cpus, EmitOnly(c) PROVE WholeInv'
  BY Zenon, <1>1, WholeOnly
<1>2. ASSUME NEW r \in Rings, print_event(r) PROVE WholeInv'
  BY Zenon, <1>2, WholePrint
<1>3. ASSUME NEW c \in Cpus, EmitArg(c) \/ EmitRet(c) PROVE WholeInv'
  <2>1. ~OneRecord /\ UNCHANGED <<chapter, line, moved>> /\ lost \subseteq lost'
    BY Zenon, <1>3 DEF EmitArg, EmitRet, Emit
  <2>2. ~OneRecord'
    BY Zenon, <2>1, Chapter
  <2>3. LineIsWhole'
    BY Zenon, <2>1, LineKept DEF WholeInv
  <2>4. \A p \in Pids : Alone(p)' => Whole(p)'
    BY Zenon, <1>3, WholeArg, WholeRet
  <2> QED
    BY Zenon, <2>2, <2>3, <2>4 DEF WholeInv
<1>4. ASSUME NEW c \in Cpus, NEW q \in Pids, NEW n \in ArgCounts, Execve(c, q, n) PROVE WholeInv'
  <2>1. UNCHANGED <<chapter, rings, line, owed, lost>> /\ moved \subseteq moved'
    BY Zenon, <1>4 DEF Execve
  <2>2. OneRecord' = OneRecord /\ Waiting' = Waiting
    BY <2>1, Chapter DEF Waiting, Rings
  <2>3. LineIsWhole'
    BY Zenon, <2>1, LineKept DEF WholeInv
  <2>4. ~OneRecord => \A p \in Pids : Alone(p)' => Whole(p)'
    BY Zenon, <1>4, WholeExecve
  <2> QED
    BY Zenon, <2>1, <2>2, <2>3, <2>4 DEF WholeInv
<1>5. ASSUME NEW r \in Rings, handle_event(r) PROVE WholeInv'
  <2>1. ~OneRecord /\ rings[r] # <<>> /\ rings' = [rings EXCEPT ![r] = Tail(@)] /\ UNCHANGED <<chapter, lost, moved>>
    BY Zenon, <1>5 DEF handle_event
  <2>2. ~OneRecord' /\ \A p : Alone(p)' <=> Alone(p)
    BY <2>1, Chapter DEF Alone
  <2>3. PICK e : e = Head(rings[r])
    BY Zenon
  <2>4. e.pid \in Pids
    BY Zenon, <2>1, <2>3, Taken, RecordFields DEF OrderInv, RingInv
  <2>5. ASSUME NEW p \in Pids, Alone(p) PROVE Whole(p)'
    BY Zenon, <1>5, <2>5, WholeTakeOther, WholeTakeArg, WholeTakeRet
  <2>6. LineIsWhole'
    <3>1. CASE UNCHANGED line
      BY Zenon, <2>1, <3>1, LineKept DEF WholeInv
    <3>2. CASE ~UNCHANGED line
      <4>1. e.arg = None /\ table[get_slot(e.pid)] # None /\ table[get_slot(e.pid)].pid = e.pid
            /\ line' = table[get_slot(e.pid)]
        BY Zenon, <1>5, <2>3, <3>2 DEF handle_event
      <4> SUFFICES ASSUME Alone(e.pid) PROVE LineIsWhole'
        BY Zenon, <2>2, <4>1 DEF LineIsWhole
      <4>2. Held(e.pid)
        BY Zenon, <4>1 DEF Held
      <4>3. /\ line'.pid = e.pid /\ line'.argv[1].pid = e.pid
            /\ line'.argv = [i \in 1..Least(line'.argv[1].argc, MAXARGS) |-> ArgOf(line'.argv[1], i - 1)]
        BY Zenon, <1>5, <2>3, <2>4, <4>1, <4>2, WholeTakeRet
      <4> QED
        BY <4>3 DEF LineIsWhole, ArgOf, Least
    <3> QED
      BY Zenon, <3>1, <3>2
  <2> QED
    BY Zenon, <2>2, <2>5, <2>6 DEF WholeInv
<1>6. CASE UNCHANGED vars
  <2> USE <1>6 DEF vars
  <2>1. OneRecord' = OneRecord /\ Waiting' = Waiting /\ \A p : Alone(p)' <=> Alone(p)
    BY DEF Waiting, Rings, OneRecord, Alone
  <2>2. LineIsWhole'
    BY Zenon, LineKept DEF WholeInv
  <2>3. ASSUME ~OneRecord, NEW p \in Pids, Alone(p) PROVE Whole(p)'
    <3>1. Whole(p)
      BY Zenon, <2>3 DEF WholeInv
    <3> QED
      BY Zenon, <2>1, <2>3, <3>1, WholeAside DEF Runs
  <2> QED
    BY <2>1, <2>2, <2>3 DEF WholeInv
<1> QED
  BY Zenon, <1>1, <1>2, <1>3, <1>4, <1>5, <1>6 DEF Next

LEMMA WholeKept == Spec => [](OrderInv /\ WholeInv)
<1>1. Init => OrderInv
  BY Zenon, OrderInit
<1>2. Init => WholeInv
  <2> SUFFICES ASSUME Init PROVE WholeInv
    OBVIOUS
  <2>1. Waiting = {} /\ \A c \in Cpus : \A p : ~Runs(c, p)
    BY DEF Init, Waiting, Runs
  <2>2. \A p \in Pids : ~Held(p)
    BY Zenon, SlotType DEF Init, Held
  <2>3. owed = {} /\ line = None
    BY Zenon DEF Init
  <2> QED
    BY Zenon, <2>1, <2>2, <2>3 DEF WholeInv, Whole, SlotWhole, RecordsWhole, ProgramWhole, OwedWhole, LineIsWhole
<1>3. OrderInv /\ [Next]_vars => OrderInv'
  BY Zenon, OrderStep
<1>4. OrderInv /\ WholeInv /\ [Next]_vars => WholeInv'
  BY Zenon, WholeStep
<1> QED
  BY <1>1, <1>2, <1>3, <1>4, PTL DEF Spec

\* A line of a process on its own is one whole command: what print_event() prints of a
\* record, and handle_event() of a slot, are the first MAXARGS arguments of a single
\* execve(), in order.
THEOREM LinesWhole == Spec => []LineIsWhole
<1>1. WholeInv => LineIsWhole
  BY Zenon DEF WholeInv
<1> QED
  BY <1>1, WholeKept, PTL

\* Once handle_event() has drained the rings, every complete command of a process on
\* its own is printed, and what is left in the table when no program runs is of a
\* process that lost a record.
THEOREM NothingLeftBehind == Spec => []DrainedIsDone
<1>1. OrderInv /\ WholeInv => DrainedIsDone
  <2> SUFFICES ASSUME OrderInv, WholeInv, \A r \in Rings : rings[r] = <<>>
               PROVE  /\ \A o \in owed : ~Alone(o[2])
                      /\ (\A c \in Cpus : running[c] = None)
                           => \A s \in Slots : table[s] # None => table[s].pid \in lost
    BY Zenon DEF DrainedIsDone
  <2>1. Waiting = {}
    BY DEF Waiting
  <2>2. ASSUME NEW o \in owed, Alone(o[2]) PROVE FALSE
    <3>1. PICK d \in 1..MaxExecs, p \in Pids : o = <<d, p>>
      BY DEF OrderInv, RingInv, TypeOK
    <3>2. o[2] = p /\ <<d, p>> \in owed /\ Alone(p)
      BY Zenon, <2>2, <3>1
    <3> QED
      BY Zenon, <2>1, <3>2 DEF WholeInv, Whole, OwedWhole
  <2>3. ASSUME \A c \in Cpus : running[c] = None, NEW s \in Slots, table[s] # None PROVE table[s].pid \in lost
    <3>1. SlotOK(s)
      BY Zenon, <2>3 DEF OrderInv, SlotInv
    <3> QED
      BY Zenon, <2>1, <2>3, <3>1 DEF SlotOK, Runs
  <2> QED
    BY Zenon, <2>2, <2>3
<1> QED
  BY <1>1, WholeKept, PTL

=============================================================================
