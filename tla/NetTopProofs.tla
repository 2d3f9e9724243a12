---------------------------- MODULE NetTopProofs ----------------------------
(***************************************************************************)
(* What holds of nettop for any number of CPUs, processes and sockets and  *)
(* any size of the maps.                                                   *)
(***************************************************************************)
EXTENDS NetTop, FiniteSetTheorems, TLAPS

LEMMA ZeroType == Zero \in [Dirs -> Nat]
BY Zenon DEF Zero

LEMMA NewRowType == ASSUME NEW n \in Nat PROVE NewRow(n) \in Row
BY Zenon, ZeroType DEF NewRow, Row

LEMMA AddToType ==
  ASSUME NEW f \in [Dirs -> Nat], NEW d \in Dirs, NEW n \in Nat
  PROVE  AddTo(f, d, n) \in [Dirs -> Nat]
BY DEF AddTo

LEMMA RowUpdates ==
  ASSUME NEW r \in Row, NEW d \in Dirs, NEW n \in Nat
  PROVE  AddBytes(r, d, n) \in Row /\ Stamp(r, d, n) \in Row /\ AddRetrans(r) \in Row
<1>1. AddBytes(r, d, n) \in Row
  BY ZenonT(60), AddToType DEF AddBytes, Row
<1>2. Stamp(r, d, n) \in Row
  BY ZenonT(60), AddToType DEF Stamp, Row
<1>3. AddRetrans(r) \in Row
  BY DEF AddRetrans, Row
<1> QED
  BY Zenon, <1>1, <1>2, <1>3

LEMMA NoRegType == NoReg \in Reg
BY Zenon DEF NoReg, Reg, Tasks, Dirs

LEMMA ReturnType ==
  ASSUME NEW c \in Cpus, pc \in [Cpus -> Steps], reg \in [Cpus -> Reg], Return(c)
  PROVE  pc' \in [Cpus -> Steps] /\ reg' \in [Cpus -> Reg]
BY SMTT(30), NoRegType DEF Return, Steps

\* The handlers and the environment keep the kernel state well typed.
LEMMA KernelTyping ==
  ASSUME KernelTypeOK, \A c \in Cpus : NotNull(c), KernelStep
  PROVE  KernelTypeOK'
<1> USE DEF KernelTypeOK, kernelVars, envVars, ownerVars
<1>1. ASSUME NEW h \in DOMAIN AccountHooks, NEW c \in Cpus, NEW p \in Tasks, NEW a \in Socks,
             NEW n \in Sizes, HookFires(h, c, p, a, n)
      PROVE  KernelTypeOK'
  <2>1. AccountHooks[h].dir \in Dirs
    BY DEF AccountHooks, Dirs
  <2>2. n \in Nat
    BY Zenon, KernelAssumption
  <2>3. PICK s \in Slots : /\ owner' = [x \in Socks |-> IF x = a THEN s
                                         ELSE IF owner[x] = s THEN None ELSE owner[x]]
                           /\ slotPid' = [slotPid EXCEPT ![s] = p]
    BY ZenonT(60), <1>1 DEF HookFires, Account, SetOwner, LruUpdate, FreeSlots
  <2>4. owner' \in [Socks -> Slots \cup {None}] /\ slotPid' \in [Slots -> Tasks]
    BY Zenon, <2>3
  <2>5. leaked' \subseteq Socks
    BY Zenon, <1>1 DEF HookFires, Account, StillLeaked
  <2>6. sock' \in [Socks -> SockState]
    BY <1>1 DEF HookFires, Account, SockState
  <2>7. pc' \in [Cpus -> Steps]
    BY Zenon, <1>1 DEF HookFires, Account, Steps, Accounting
  <2>8. reg' \in [Cpus -> Reg]
    BY ZenonT(60), <1>1, <2>1, <2>2 DEF HookFires, Account, NoReg, Reg
  <2> QED
    BY <1>1, <2>4, <2>5, <2>6, <2>7, <2>8 DEF HookFires, Account
<1>2. ASSUME NEW c \in Cpus, AccountLookup(c) PROVE KernelTypeOK'
  <2>1. pc' \in [Cpus -> Steps]
    BY Zenon, <1>2 DEF AccountLookup, Steps, Accounting, Holding
  <2>2. reg[c] \in Reg /\ elem[reg[c].pid] \in Elems \cup {None}
    BY Zenon DEF Reg
  <2>3. [reg[c] EXCEPT !.ps = elem[reg[c].pid]] \in Reg
    BY ZenonT(60), <2>2 DEF Reg
  <2>4. reg' \in [Cpus -> Reg]
    BY Zenon, <1>2, <2>3, NoRegType DEF AccountLookup
  <2> QED
    BY Zenon, <1>2, <2>1, <2>4 DEF AccountLookup
<1>3. ASSUME NEW c \in Cpus, AccountInsert(c) PROVE KernelTypeOK'
  <2>1. InitRow(reg[c].pid) \in Row
    BY Zenon, NewRowType DEF InitRow, Reg
  <2>2. elem' \in [Tasks -> Elems \cup {None}] /\ stats' \in [Elems -> Row]
    BY ZenonT(60), <1>3, <2>1 DEF AccountInsert, HashInsertNoExist, FreeElems
  <2> QED
    BY Zenon, <1>3, <2>2 DEF AccountInsert, Steps, Accounting
<1>4. ASSUME NEW c \in Cpus, AccountBytes(c) PROVE KernelTypeOK'
  <2>1. reg[c].dir \in Dirs /\ reg[c].size \in Nat
    BY Zenon DEF Reg
  <2>2. stats' \in [Elems -> Row]
    BY ZenonT(60), <1>4, <2>1, RowUpdates DEF AccountBytes, Column
  <2>3. added' \in [Tasks -> [Dirs -> Nat]]
    BY ZenonT(60), <1>4, <2>1, AddToType DEF AccountBytes
  <2> QED
    BY Zenon, <1>4, <2>2, <2>3 DEF AccountBytes, Steps, Accounting, Holding
<1>5. ASSUME NEW c \in Cpus, AccountStamp(c) PROVE KernelTypeOK'
  <2>1. stats' \in [Elems -> Row]
    BY ZenonT(60), <1>5, RowUpdates DEF AccountStamp, Column, Reg
  <2> QED
    BY Zenon, <1>5, <2>1, ReturnType DEF AccountStamp
<1>6. ASSUME NEW c \in Cpus, RetransmitRow(c) PROVE KernelTypeOK'
  <2>1. pc' \in [Cpus -> Steps]
    BY Zenon, <1>6 DEF RetransmitRow, Steps
  <2>2. reg[c].slot \in Slots
    BY Zenon, <1>6 DEF RetransmitRow, Reg, NotNull
  <2>3. [reg[c] EXCEPT !.ps = elem[slotPid[reg[c].slot]]] \in Reg
    BY ZenonT(60), <2>2 DEF Reg
  <2>4. reg' \in [Cpus -> Reg]
    BY Zenon, <1>6, <2>3, NoRegType DEF RetransmitRow
  <2> QED
    BY Zenon, <1>6, <2>1, <2>4 DEF RetransmitRow
<1>7. ASSUME NEW c \in Cpus, RetransmitAdd(c) PROVE KernelTypeOK'
  <2>1. stats' \in [Elems -> Row]
    BY ZenonT(60), <1>7, RowUpdates DEF RetransmitAdd, Dirs
  <2> QED
    BY Zenon, <1>7, <2>1, ReturnType DEF RetransmitAdd
<1>8. ASSUME NEW c \in Cpus, NEW a \in Socks, HandleTcpRetransmit(c, a) PROVE KernelTypeOK'
  <2>1. [NoReg EXCEPT !.sk = a, !.slot = owner[a]] \in Reg
    BY ZenonT(60), NoRegType DEF Reg
  <2> QED
    BY <1>8, <2>1 DEF HandleTcpRetransmit, Steps
<1>9. ASSUME NEW a \in Socks, HandleTcpClose(a) \/ SockDies(a) \/ OrphanFreed(a)
      PROVE  KernelTypeOK'
  <2>1. \A t \in {"open", "orphan"} : [sock[a] EXCEPT !.st = t] \in SockState
    BY ZenonT(60) DEF SockState
  <2>2. NewSock \in SockState
    BY Zenon DEF SockState, NewSock
  <2>3. sock' \in [Socks -> SockState]
    BY ZenonT(60), <1>9, <2>1, <2>2 DEF HandleTcpClose, SockDies, OrphanFreed
  <2>4. owner' \in [Socks -> Slots \cup {None}] /\ leaked' \subseteq Socks
    BY Zenon, <1>9 DEF HandleTcpClose, ForgetOwner, StillLeaked, SockDies, OrphanFreed
  <2> QED
    BY Zenon, <1>9, <2>3, <2>4 DEF HandleTcpClose, SockDies, OrphanFreed
<1>10. ASSUME NEW p \in Pids, ProcExit(p) PROVE KernelTypeOK'
  BY Zenon, <1>10 DEF ProcExit, Tasks
<1> QED
  BY Zenon, <1>1, <1>2, <1>3, <1>4, <1>5, <1>6, <1>7, <1>8, <1>9, <1>10 DEF KernelStep, AccountStep

\* A pointer is used only on the branch on which the lookup returned one.
LEMMA KernelNotNull ==
  ASSUME KernelTypeOK, \A c \in Cpus : NotNull(c), KernelStep
  PROVE  \A c \in Cpus : NotNull(c)'
<1> SUFFICES ASSUME NEW x \in Cpus PROVE NotNull(x)'
  BY Zenon
<1> USE DEF KernelTypeOK, NotNull, Holding
<1>1. ASSUME NEW h \in DOMAIN AccountHooks, NEW c \in Cpus, NEW p \in Tasks, NEW a \in Socks,
             NEW n \in Sizes, HookFires(h, c, p, a, n)
      PROVE  NotNull(x)'
  BY Zenon, <1>1 DEF HookFires, Account
<1>2. ASSUME NEW c \in Cpus, AccountLookup(c) PROVE NotNull(x)'
  BY Zenon, <1>2 DEF AccountLookup, Reg
<1>3. ASSUME NEW c \in Cpus, AccountInsert(c) PROVE NotNull(x)'
  BY Zenon, <1>3 DEF AccountInsert
<1>4. ASSUME NEW c \in Cpus, AccountBytes(c) PROVE NotNull(x)'
  BY Zenon, <1>4 DEF AccountBytes
<1>5. ASSUME NEW c \in Cpus, AccountStamp(c) \/ RetransmitAdd(c) PROVE NotNull(x)'
  BY Zenon, <1>5 DEF AccountStamp, RetransmitAdd, Return
<1>6. ASSUME NEW c \in Cpus, RetransmitRow(c) PROVE NotNull(x)'
  BY Zenon, <1>6 DEF RetransmitRow, Reg
<1>7. ASSUME NEW c \in Cpus, NEW a \in Socks, HandleTcpRetransmit(c, a) PROVE NotNull(x)'
  BY Zenon, <1>7 DEF HandleTcpRetransmit, NoReg
<1>8. ASSUME NEW a \in Socks, HandleTcpClose(a) \/ SockDies(a) \/ OrphanFreed(a)
      PROVE  NotNull(x)'
  BY Zenon, <1>8 DEF HandleTcpClose, SockDies, OrphanFreed
<1>9. ASSUME NEW p \in Pids, ProcExit(p) PROVE NotNull(x)'
  BY Zenon, <1>9 DEF ProcExit
<1> QED
  BY Zenon, <1>1, <1>2, <1>3, <1>4, <1>5, <1>6, <1>7, <1>8, <1>9 DEF KernelStep, AccountStep

LEMMA PlusType ==
  ASSUME NEW f \in [Dirs -> Nat], NEW g \in [Dirs -> Nat]
  PROVE  Plus(f, g) \in [Dirs -> Nat]
BY DEF Plus

LEMMA MinusType == ASSUME NEW a \in Nat, NEW b \in Nat PROVE Minus(a, b) \in Nat
BY DEF Minus

\* Every variable keeps its type, and no handler uses a NULL pointer: what
\* account(), handle_tcp_retransmit() and sample() rely on at each dereference.
THEOREM Typing == Spec => []TypeOK
<1>1. Init => TypeOK
  BY ZeroType, NewRowType, NoRegType, KernelAssumption, PollerAssumption
     DEF Init, KernelInit, TypeOK, KernelTypeOK, NotNull, Holding, Tasks, Steps, SockState,
         Absent, Entry
<1>2. TypeOK /\ [Next]_vars => TypeOK'
  <2> SUFFICES ASSUME TypeOK, [Next]_vars PROVE TypeOK'
    BY Zenon
  <2> DEFINE PollTypes ==
        /\ phase \in {"attach", "sleep", "exited"} \cup Walking /\ priming \in BOOLEAN
        /\ key \in Tasks /\ val \in Row /\ now \in Nat
        /\ prev \in [Tasks -> Entry] /\ rows \in Seq(Line)
        /\ reaped \in [Tasks -> [Dirs -> Nat]] /\ told \in [Tasks -> [Dirs -> Nat]]
        /\ due \subseteq Tasks /\ visited \subseteq Tasks /\ buried \subseteq Tasks
        /\ cut \subseteq Tasks
  <2>1. KernelTypeOK /\ (\A c \in Cpus : NotNull(c)) /\ PollTypes
    BY Zenon DEF TypeOK
  <2>2. KernelTypeOK' /\ (\A c \in Cpus : NotNull(c)') /\ PollTypes' => TypeOK'
    BY Zenon DEF TypeOK
  <2> HIDE DEF PollTypes
  <2>3. UNCHANGED pollVars => PollTypes'
    BY SMTT(30), <2>1 DEF PollTypes, pollVars, cursor, ghosts
  <2>4. UNCHANGED kernelVars => KernelTypeOK' /\ \A c \in Cpus : NotNull(c)'
    BY Zenon, <2>1 DEF KernelTypeOK, NotNull, kernelVars, envVars, ownerVars
  <2>5. CASE KernelStep /\ UNCHANGED pollVars
    BY SMTT(30), <2>1, <2>2, <2>3, <2>5, KernelTyping, KernelNotNull
  <2>6. ASSUME NEW p \in Pids, Spawn(p) PROVE TypeOK'
    BY SMTT(30), <2>1, <2>2, <2>3, <2>6 DEF Spawn, ProcSpawn, KernelTypeOK, NotNull, Tasks, ownerVars
  <2>7. CASE AttachNext
    <3>1. hooks' \subseteq Hooks
      BY SMTT(30), <2>1, <2>7, PollerAssumption DEF AttachNext, Pending, KernelTypeOK
    <3> QED
      BY Zenon, <2>1, <2>2, <2>3, <2>7, <3>1 DEF AttachNext, KernelTypeOK, NotNull, ownerVars
  <2>8. CASE Tick
    BY SMTT(30), <2>1, <2>2, <2>3, <2>8 DEF Tick, KernelTypeOK, NotNull, ownerVars
  <2>9. CASE Quit
    BY Zenon, <2>1, <2>2, <2>9 DEF Quit, KernelTypeOK, NotNull, ownerVars, PollTypes, cursor, ghosts
  <2>10. ASSUME NEW b \in BOOLEAN, SampleBegin(b) PROVE TypeOK'
    <3>1. \A p \in Tasks : [prev[p] EXCEPT !.seen = FALSE] \in Entry
      BY ZenonT(60), <2>1 DEF PollTypes, Entry
    <3>2. prev' \in [Tasks -> Entry]
      BY Zenon, <2>10, <3>1 DEF SampleBegin
    <3>3. clock \in Nat /\ 0 \in Tasks /\ <<>> \in Seq(Line) /\ Keys \subseteq Tasks
      BY <2>1 DEF KernelTypeOK, Tasks, Keys
    <3> QED
      BY Zenon, <2>1, <2>2, <2>4, <2>10, <3>2, <3>3 DEF SampleBegin, PollTypes, Walking
  <2>11. CASE NextKey
    BY Zenon, <2>1, <2>2, <2>4, <2>11 DEF NextKey, NextKeys, Keys, PollTypes, Walking, ghosts
  <2>12. CASE LookUp
    BY <2>1, <2>2, <2>4, <2>12 DEF LookUp, PollTypes, Walking, KernelTypeOK
  <2>13. CASE Condemn
    BY Zenon, <2>1, <2>2, <2>4, <2>13 DEF Condemn, PollTypes, Walking, cursor, ghosts
  <2>14. CASE Reap
    <3>1. elem[key] # None => stats[elem[key]].bytes \in [Dirs -> Nat]
      BY SMTT(30), <2>1 DEF PollTypes, KernelTypeOK, Row
    <3>2. reaped' \in [Tasks -> [Dirs -> Nat]]
      <4>1. CASE elem[key] = None
        BY Zenon, <2>1, <2>14, <4>1 DEF Reap, PollTypes
      <4>2. CASE elem[key] # None
        <5>1. Plus(reaped[key], stats[elem[key]].bytes) \in [Dirs -> Nat]
          BY ZenonT(60), <2>1, <3>1, <4>2, PlusType DEF PollTypes
        <5>2. reaped' = [reaped EXCEPT ![key] = Plus(reaped[key], stats[elem[key]].bytes)]
          BY Zenon, <2>14, <4>2 DEF Reap
        <5> QED
          BY Zenon, <2>1, <5>1, <5>2 DEF PollTypes
      <4> QED
        BY Zenon, <4>1, <4>2
    <3>3. PollTypes'
      BY Zenon, <2>1, <2>14, <3>2 DEF Reap, PollTypes, Walking, cursor
    <3>4. elem' \in [Tasks -> Elems \cup {None}]
      BY ZenonT(60), <2>1, <2>14 DEF Reap, KernelTypeOK
    <3>5. stats' \in [Elems -> Row]
      <4>1. stats' \in {stats, [stats EXCEPT ![elem[key]] = NewRow(0)]}
        BY ZenonT(60), <2>14 DEF Reap
      <4>2. stats \in [Elems -> Row] /\ NewRow(0) \in Row
        BY ZenonT(60), <2>1, NewRowType DEF KernelTypeOK
      <4> QED
        BY ZenonT(60), <4>1, <4>2
    <3>6. KernelTypeOK' /\ \A c \in Cpus : NotNull(c)'
      BY Zenon, <2>1, <2>14, <3>4, <3>5 DEF Reap, KernelTypeOK, NotNull, envVars, ownerVars
    <3> QED
      BY Zenon, <2>2, <3>3, <3>6
  <2>15. CASE PassOver
    BY Zenon, <2>1, <2>2, <2>4, <2>15 DEF PassOver, Continue, PollTypes, Walking, ghosts
  <2>16. Totals \in Entry /\ val.bytes \in [Dirs -> Nat] /\ val.comm \in Nat
    BY SMTT(30), <2>1 DEF Totals, Entry, PollTypes, Row
  <2>17. CASE Baseline
    BY Zenon, <2>1, <2>2, <2>4, <2>16, <2>17 DEF Baseline, PollTypes, Walking, cursor
  <2>18. Delta \in [Dirs -> Nat] /\ Resent \in Nat
    <3>1. prev[key] \in Entry /\ val \in Row
      BY Zenon, <2>1 DEF PollTypes
    <3>2. prev[key].bytes \in [Dirs -> Nat] /\ prev[key].retrans \in Nat
      BY Zenon, <3>1 DEF Entry
    <3>3. val.bytes \in [Dirs -> Nat] /\ val.retrans \in Nat
      BY SMTT(30), <3>1 DEF Row
    <3> QED
      BY ZenonT(60), <3>2, <3>3, MinusType DEF Delta, Resent
  <2>19. CASE Diff
    <3>1. [pid |-> key, comm |-> val.comm, delta |-> Delta, retrans |-> Resent] \in Line
      BY Zenon, <2>1, <2>16, <2>18 DEF Line, PollTypes
    <3>2. rows' \in Seq(Line)
      BY <2>1, <2>19, <3>1 DEF Diff, PollTypes
    <3>3. told' \in [Tasks -> [Dirs -> Nat]]
      BY ZenonT(60), <2>1, <2>18, <2>19, PlusType DEF Diff, PollTypes
    <3> QED
      BY ZenonT(60), <2>1, <2>2, <2>4, <2>16, <2>19, <3>2, <3>3 DEF Diff, PollTypes, Walking, cursor
  <2>20. CASE Finish
    <3>1. rows' \in Seq(Line)
      <4>1. rows \in Seq(Line) /\ DOMAIN rows = 1 .. Len(rows) /\ Len(rows) \in Nat
        BY <2>1 DEF PollTypes
      <4>2. PICK f \in [1 .. Len(rows) -> 1 .. Len(rows)] :
              rows' = IF priming THEN <<>> ELSE [i \in 1 .. Len(rows) |-> rows[f[i]]]
        BY ZenonT(60), <2>20, <4>1 DEF Finish, Orders
      <4>3. \A i \in 1 .. Len(rows) : rows[f[i]] \in Line
        BY <4>1
      <4> QED
        BY <4>1, <4>2, <4>3
    <3>2. Absent \in Entry /\ NewRow(0) \in Row /\ 0 \in Tasks
      BY Zenon, ZeroType, NewRowType DEF Absent, Entry, Tasks
    <3> QED
      BY Zenon, <2>1, <2>2, <2>4, <2>20, <3>1, <3>2, ZeroType DEF Finish, PollTypes
  <2>21. CASE UNCHANGED vars
    BY Zenon, <2>1, <2>2, <2>3, <2>4, <2>21 DEF vars
  <2> QED
    BY ZenonT(60), <2>5, <2>6, <2>7, <2>8, <2>9, <2>10, <2>11, <2>12, <2>13, <2>14, <2>15, <2>17, <2>19,
       <2>20, <2>21 DEF Next, PollStep, Prime, Sample
<1> QED
  BY <1>1, <1>2, PTL DEF Spec

-----------------------------------------------------------------------------
LEMMA Bookkeeping ==
  ASSUME NEW total \in Nat, NEW row \in Nat, NEW gone \in Nat, NEW n \in Nat, total = row + gone
  PROVE  total + n = (row + n) + gone
OBVIOUS

LEMMA LastBookkeeping ==
  ASSUME NEW total \in Nat, NEW row \in Nat, NEW gone \in Nat, total = row + gone
  PROVE  total = 0 + (gone + row)
OBVIOUS

\* A handler never takes a row away, and creates one only in AccountInsert.
LEMMA KernelRows ==
  ASSUME KernelTypeOK, KernelStep, NEW p \in Tasks
  PROVE  /\ elem[p] # None => elem'[p] = elem[p]
         /\ elem'[p] # elem[p] => \E c \in Cpus : pc[c] = "insert" /\ reg[c].pid = p
<1> USE DEF KernelTypeOK, envVars, ownerVars
<1>1. ASSUME NEW c \in Cpus, AccountInsert(c)
      PROVE  /\ elem[p] # None => elem'[p] = elem[p]
             /\ elem'[p] # elem[p] => pc[c] = "insert" /\ reg[c].pid = p
  BY Zenon, <1>1 DEF AccountInsert, HashInsertNoExist, FreeElems
<1>2. ASSUME NEW h \in DOMAIN AccountHooks, NEW c \in Cpus, NEW q \in Tasks, NEW a \in Socks,
             NEW n \in Sizes, HookFires(h, c, q, a, n)
      PROVE  elem' = elem
  BY Zenon, <1>2 DEF HookFires, Account
<1>3. ASSUME NEW c \in Cpus, AccountLookup(c) \/ AccountBytes(c) \/ AccountStamp(c)
      PROVE  elem' = elem
  BY Zenon, <1>3 DEF AccountLookup, AccountBytes, AccountStamp
<1>4. ASSUME NEW c \in Cpus, RetransmitRow(c) \/ RetransmitAdd(c) PROVE elem' = elem
  BY Zenon, <1>4 DEF RetransmitRow, RetransmitAdd
<1>5. ASSUME NEW c \in Cpus, NEW a \in Socks, HandleTcpRetransmit(c, a) PROVE elem' = elem
  BY Zenon, <1>5 DEF HandleTcpRetransmit
<1>6. ASSUME NEW a \in Socks, HandleTcpClose(a) \/ SockDies(a) \/ OrphanFreed(a)
      PROVE  elem' = elem
  BY Zenon, <1>6 DEF HandleTcpClose, SockDies, OrphanFreed
<1>7. ASSUME NEW q \in Pids, ProcExit(q) PROVE elem' = elem
  BY Zenon, <1>7 DEF ProcExit
<1> QED
  BY Zenon, <1>1, <1>2, <1>3, <1>4, <1>5, <1>6, <1>7 DEF KernelStep, AccountStep

\* A handler inside account() has been there since HookFires let it in.
LEMMA KernelAccounting ==
  ASSUME KernelTypeOK, KernelStep, NEW c \in Cpus, pc'[c] \in Accounting
  PROVE  \/ pc[c] \in Accounting /\ reg'[c].pid = reg[c].pid
         \/ reg'[c].pid # 0 /\ alive[reg'[c].pid] /\ pc'[c] = "lookup"
<1> USE DEF KernelTypeOK, envVars, ownerVars, Accounting, Holding
<1>1. ASSUME NEW h \in DOMAIN AccountHooks, NEW b \in Cpus, NEW p \in Tasks, NEW a \in Socks,
             NEW n \in Sizes, HookFires(h, b, p, a, n)
      PROVE  \/ pc[c] \in Accounting /\ reg'[c].pid = reg[c].pid
             \/ reg'[c].pid # 0 /\ alive[reg'[c].pid] /\ pc'[c] = "lookup"
  BY Zenon, <1>1 DEF HookFires, Account, Nobody, NoReg
<1>2. ASSUME NEW b \in Cpus, AccountStep(b)
      PROVE  pc[c] \in Accounting /\ reg'[c].pid = reg[c].pid
  BY <1>2 DEF AccountStep, AccountLookup, AccountInsert, AccountBytes, AccountStamp, Return, Reg
<1>3. ASSUME NEW b \in Cpus, RetransmitRow(b) \/ RetransmitAdd(b)
      PROVE  pc[c] \in Accounting /\ reg'[c].pid = reg[c].pid
  BY <1>3 DEF RetransmitRow, RetransmitAdd, Return
<1>4. ASSUME NEW b \in Cpus, NEW a \in Socks, HandleTcpRetransmit(b, a)
      PROVE  pc[c] \in Accounting /\ reg'[c].pid = reg[c].pid
  BY Zenon, <1>4 DEF HandleTcpRetransmit
<1>5. ASSUME NEW a \in Socks, HandleTcpClose(a) \/ SockDies(a) \/ OrphanFreed(a)
      PROVE  pc[c] \in Accounting /\ reg'[c].pid = reg[c].pid
  BY Zenon, <1>5 DEF HandleTcpClose, SockDies, OrphanFreed
<1>6. ASSUME NEW p \in Pids, ProcExit(p)
      PROVE  pc[c] \in Accounting /\ reg'[c].pid = reg[c].pid
  BY Zenon, <1>6 DEF ProcExit
<1> QED
  BY ZenonT(60), <1>1, <1>2, <1>3, <1>4, <1>5, <1>6 DEF KernelStep

-----------------------------------------------------------------------------
\* Why a pass is complete.  No row has key 0, where the walk starts; no row due
\* goes away but by the reaper; and the walk has been at every row due up to the
\* key it stands at.
NoRowZero   == elem[0] = None /\ \A c \in Cpus : pc[c] \in Accounting => reg[c].pid # 0
DuePresent  == phase \in Walking => due \subseteq Keys
DueBehind   == phase \in {"next", "judge", "delete"} => \A k \in due : k <= key => k \in visited
DueBefore   == phase = "look" => \A k \in due : k < key => k \in visited
WalkInv     == NoRowZero /\ DuePresent /\ DueBehind /\ DueBefore

LEMMA WalkStep == TypeOK /\ WalkInv /\ [Next]_vars => WalkInv'
<1> SUFFICES ASSUME TypeOK, WalkInv, [Next]_vars PROVE WalkInv'
  BY Zenon
<1>1. Tasks \subseteq Nat /\ due \subseteq Tasks /\ key \in Tasks /\ KernelTypeOK
  BY KernelAssumption DEF Tasks, TypeOK
<1>2. CASE KernelStep /\ UNCHANGED pollVars
  <2>1. 0 \in Tasks
    BY Zenon DEF Tasks
  <2>2. elem'[0] = None
    BY Zenon, <1>1, <1>2, <2>1, KernelRows DEF WalkInv, NoRowZero, Accounting
  <2>3. \A c \in Cpus : pc'[c] \in Accounting => reg'[c].pid # 0
    BY Zenon, <1>1, <1>2, KernelAccounting DEF WalkInv, NoRowZero
  <2>4. Keys \subseteq Keys'
    BY ZenonT(60), <1>1, <1>2, KernelRows DEF Keys
  <2> QED
    BY Zenon, <1>2, <2>2, <2>3, <2>4
       DEF WalkInv, NoRowZero, DuePresent, DueBehind, DueBefore, pollVars, cursor, ghosts
<1>3. ASSUME UNCHANGED <<elem, pc, reg, pollVars>> PROVE WalkInv'
  BY Zenon, <1>3 DEF WalkInv, NoRowZero, DuePresent, DueBehind, DueBefore, Keys, pollVars, cursor, ghosts
<1>4. ASSUME UNCHANGED kernelVars PROVE NoRowZero' /\ Keys' = Keys
  BY Zenon, <1>4 DEF WalkInv, NoRowZero, Keys, kernelVars
<1>5. CASE (\E p \in Pids : Spawn(p)) \/ AttachNext \/ Tick
  BY Zenon, <1>3, <1>5 DEF Spawn, ProcSpawn, AttachNext, Tick
<1>6. CASE Quit
  BY Zenon, <1>6 DEF Quit, WalkInv, NoRowZero, DuePresent, DueBehind, DueBefore, Walking
<1>7. ASSUME NEW b \in BOOLEAN, SampleBegin(b) PROVE WalkInv'
  <2>1. \A k \in due' : ~(k <= 0)
    BY <1>1, <1>7 DEF SampleBegin, Keys, WalkInv, NoRowZero
  <2> QED
    BY Zenon, <1>4, <1>7, <2>1 DEF SampleBegin, WalkInv, DuePresent, DueBehind, DueBefore
<1>8. CASE NextKey
  <2>1. PICK n \in NextKeys : IsLeast(n, NextKeys) /\ key' = n
    BY Zenon, <1>8 DEF NextKey
  <2>2. ASSUME NEW k \in due, k < n PROVE k \in visited
    <3>1. k \in Keys /\ k \in Nat /\ n \in Nat /\ key \in Nat
      BY Zenon, <1>1, <1>8 DEF NextKey, WalkInv, DuePresent, Walking, NextKeys, Keys
    <3>2. k \notin NextKeys
      BY <2>1, <2>2, <3>1 DEF IsLeast
    <3>3. k <= key
      BY <3>1, <3>2 DEF NextKeys
    <3> QED
      BY Zenon, <1>8, <3>3 DEF NextKey, WalkInv, DueBehind
  <2> QED
    BY Zenon, <1>4, <1>8, <2>1, <2>2
       DEF NextKey, WalkInv, DuePresent, DueBehind, DueBefore, Walking, ghosts
<1>9. CASE LookUp
  <2>1. phase' \in {"next", "judge"} /\ due' = due /\ key' = key /\ visited' = visited \cup {key}
    BY Zenon, <1>9 DEF LookUp
  <2>2. \A k \in due : k <= key => k < key \/ k = key
    BY <1>1
  <2> QED
    BY Zenon, <1>4, <1>9, <2>1, <2>2
       DEF LookUp, WalkInv, DuePresent, DueBehind, DueBefore, Walking
<1>10. CASE Reap
  <2>1. \A k \in Keys : k # key => k \in Keys'
    BY SMTT(30), <1>1, <1>10 DEF Reap, Keys, KernelTypeOK
  <2>2. NoRowZero'
    BY Zenon, <1>1, <1>10 DEF Reap, WalkInv, NoRowZero, KernelTypeOK, Tasks
  <2> QED
    BY Zenon, <1>10, <2>1, <2>2
       DEF Reap, WalkInv, DuePresent, DueBehind, DueBefore, Walking, cursor
<1>11. CASE Condemn \/ PassOver \/ Baseline \/ Diff
  <2>1. phase = "judge" /\ phase' \in {"next", "delete"}
    BY SMTT(30), <1>11 DEF Condemn, PassOver, Continue, Baseline, Diff
  <2>2. UNCHANGED <<kernelVars, key, due, visited>>
    BY Zenon, <1>11 DEF Condemn, PassOver, Continue, Baseline, Diff, cursor, ghosts
  <2> QED
    BY Zenon, <1>4, <2>1, <2>2 DEF WalkInv, DuePresent, DueBehind, DueBefore, Walking
<1>12. CASE Finish
  BY ZenonT(60), <1>4, <1>12 DEF Finish, WalkInv, DuePresent, DueBehind, DueBefore, Walking
<1>13. CASE UNCHANGED vars
  BY Zenon, <1>3, <1>13 DEF vars, kernelVars
<1> QED
  BY ZenonT(60), <1>2, <1>5, <1>6, <1>7, <1>8, <1>9, <1>10, <1>11, <1>12, <1>13
     DEF Next, PollStep, Prime, Sample

LEMMA WalkKept == Spec => []WalkInv
<1>1. Init => WalkInv
  BY DEF Init, KernelInit, WalkInv, NoRowZero, DuePresent, DueBehind, DueBefore, Walking,
         Tasks, Accounting, Holding
<1> QED
  BY <1>1, WalkStep, Typing, PTL DEF Spec

\* sample() visits every row that was in the map when the pass began and that it
\* has not reaped itself, whatever the handlers insert meanwhile and however
\* often a reap sends bpf_map_get_next_key back to the first key.
THEOREM WalkIsComplete == Spec => []CompletePass
<1>1. TypeOK /\ WalkInv => CompletePass
  <2> SUFFICES ASSUME TypeOK, WalkInv, phase = "next", NextKeys = {}, NEW k \in due
               PROVE  k \in visited
    BY Zenon DEF CompletePass
  <2>1. k \in Keys /\ k \in Nat /\ key \in Nat
    BY KernelAssumption DEF TypeOK, WalkInv, DuePresent, Walking, Tasks
  <2>2. k <= key
    BY <2>1 DEF NextKeys
  <2> QED
    BY Zenon, <2>2 DEF WalkInv, DueBehind
<1> QED
  BY <1>1, WalkKept, Typing, PTL

-----------------------------------------------------------------------------
\* Whatever sockets are opened, closed and reused, and whatever the LRU map
\* evicts, an entry of sock_owner names the process that last used the socket at
\* that address, unless that socket died without handle_tcp_close.
THEOREM OwnerIsRight == Spec => []OwnerIsUser
<1>1. Init => OwnerIsUser
  BY DEF Init, KernelInit, OwnerIsUser, OwnerFresh
<1>2. TypeOK /\ OwnerIsUser /\ [Next]_vars => OwnerIsUser'
  <2> SUFFICES ASSUME TypeOK, OwnerIsUser, [Next]_vars, NEW x \in Socks \ leaked'
               PROVE  OwnerFresh(x)'
    BY SMTT(30) DEF OwnerIsUser
  <2>1. sock \in [Socks -> SockState] /\ owner \in [Socks -> Slots \cup {None}]
        /\ slotPid \in [Slots -> Tasks] /\ None \notin Slots
    BY Zenon, KernelAssumption DEF TypeOK, KernelTypeOK
  <2>2. ASSUME UNCHANGED <<sock, ownerVars>> PROVE OwnerFresh(x)'
    BY Zenon, <2>2 DEF OwnerIsUser, OwnerFresh, ownerVars
  <2>3. ASSUME NEW h \in DOMAIN AccountHooks, NEW c \in Cpus, NEW p \in Tasks, NEW a \in Socks,
               NEW n \in Sizes, HookFires(h, c, p, a, n)
        PROVE  OwnerFresh(x)'
    <3>1. PICK s \in Slots : /\ owner' = [y \in Socks |-> IF y = a THEN s
                                           ELSE IF owner[y] = s THEN None ELSE owner[y]]
                             /\ slotPid' = [slotPid EXCEPT ![s] = p]
      BY ZenonT(60), <2>3 DEF HookFires, Account, SetOwner, LruUpdate, FreeSlots
    <3>2. sock' = [sock EXCEPT ![a].user = p] /\ sock[a].st = "open"
      BY Zenon, <2>3 DEF HookFires, Account
    <3>3. CASE x = a
      BY Zenon, <2>1, <3>1, <3>2, <3>3 DEF OwnerFresh, SockState
    <3>4. CASE x # a
      <4>1. owner'[x] # None => owner'[x] = owner[x] /\ owner[x] # s
        BY Zenon, <3>1, <3>4
      <4>2. owner'[x] # None => x \notin leaked
        BY Zenon, <2>3, <3>4 DEF HookFires, Account, StillLeaked
      <4> QED
        BY Zenon, <2>1, <3>1, <3>2, <3>4, <4>1, <4>2 DEF OwnerIsUser, OwnerFresh
    <3> QED
      BY Zenon, <3>3, <3>4
  <2>4. ASSUME NEW a \in Socks, HandleTcpClose(a) PROVE OwnerFresh(x)'
    <3>1. CASE x = a
      BY Zenon, <2>1, <2>4, <3>1 DEF HandleTcpClose, ForgetOwner, OwnerFresh
    <3>2. CASE x # a
      BY Zenon, <2>1, <2>4, <3>2 DEF HandleTcpClose, ForgetOwner, StillLeaked, OwnerIsUser, OwnerFresh
    <3> QED
      BY Zenon, <3>1, <3>2
  <2>5. ASSUME NEW a \in Socks, SockDies(a) PROVE OwnerFresh(x)'
    BY Zenon, <2>1, <2>5 DEF SockDies, OwnerIsUser, OwnerFresh
  <2>6. ASSUME NEW a \in Socks, OrphanFreed(a) PROVE OwnerFresh(x)'
    BY Zenon, <2>1, <2>6 DEF OrphanFreed, OwnerIsUser, OwnerFresh, ownerVars
  <2>7. CASE KernelStep /\ UNCHANGED pollVars
    <3>1. ASSUME NEW c \in Cpus, AccountStep(c) \/ RetransmitRow(c) \/ RetransmitAdd(c)
          PROVE  OwnerFresh(x)'
      BY Zenon, <2>2, <3>1 DEF AccountStep, AccountLookup, AccountInsert, AccountBytes, AccountStamp,
         RetransmitRow, RetransmitAdd, envVars
    <3>2. ASSUME NEW c \in Cpus, NEW a \in Socks, HandleTcpRetransmit(c, a)
          PROVE  OwnerFresh(x)'
      BY Zenon, <2>2, <3>2 DEF HandleTcpRetransmit, envVars
    <3>3. ASSUME NEW p \in Pids, ProcExit(p) PROVE OwnerFresh(x)'
      BY SMTT(30), <2>2, <3>3 DEF ProcExit
    <3> QED
      BY Zenon, <2>3, <2>4, <2>5, <2>6, <2>7, <3>1, <3>2, <3>3 DEF KernelStep
  <2>8. CASE (\E p \in Pids : Spawn(p)) \/ AttachNext \/ Tick \/ Quit \/ Reap
    BY Zenon, <2>2, <2>8 DEF Spawn, ProcSpawn, AttachNext, Tick, Quit, Reap, envVars
  <2>9. ASSUME UNCHANGED kernelVars PROVE OwnerFresh(x)'
    BY Zenon, <2>2, <2>9 DEF kernelVars, envVars
  <2>10. CASE \/ Prime \/ Sample \/ NextKey \/ LookUp \/ Condemn \/ PassOver \/ Baseline
              \/ Diff \/ Finish
    BY Zenon, <2>9, <2>10 DEF Prime, Sample, SampleBegin, NextKey, LookUp, Condemn, PassOver, Baseline,
       Diff, Finish
  <2>11. CASE UNCHANGED vars
    BY Zenon, <2>9, <2>11 DEF vars
  <2> QED
    BY Zenon, <2>7, <2>8, <2>10, <2>11 DEF Next, PollStep
<1> QED
  BY <1>1, <1>2, Typing, PTL DEF Spec

-----------------------------------------------------------------------------
\* Why no byte is lost.  Two keys never share an element; a handler that holds a
\* pointer holds the one of its own process's row; a process inside account()
\* exists; and a row about to be deleted belongs to a process that does not.
RowsApart == \A p, q \in Tasks : elem[p] # None /\ elem[p] = elem[q] => p = q
HeldIsRow == \A c \in Cpus : pc[c] \in Holding => elem[reg[c].pid] = reg[c].ps
CallersLive == \A c \in Cpus : pc[c] \in Accounting => alive[reg[c].pid]
CondemnedDead == phase = "delete" => ~alive[key]
RowInv == RowsApart /\ HeldIsRow /\ CallersLive /\ CondemnedDead /\ BytesConserved

\* The only updates of a row that change its byte counts.
LEMMA RowBytes ==
  ASSUME NEW r \in Row, NEW d \in Dirs, NEW n \in Nat
  PROVE  /\ AddBytes(r, d, n).bytes = AddTo(r.bytes, d, n)
         /\ Stamp(r, d, n).bytes = r.bytes
         /\ AddRetrans(r).bytes = r.bytes
BY Zenon DEF AddBytes, Stamp, AddRetrans, Row

\* An update that leaves the rows, their keys and the ghosts alone loses nothing.
LEMMA SameBytes ==
  ASSUME KernelTypeOK, BytesConserved, UNCHANGED <<elem, added, reaped>>,
         \A e \in Elems : stats'[e].bytes = stats[e].bytes
  PROVE  BytesConserved'
BY ZenonT(60) DEF BytesConserved, InRow, KernelTypeOK

LEMMA InsertRow ==
  ASSUME TypeOK, RowInv, UNCHANGED reaped, NEW c \in Cpus, AccountInsert(c)
  PROVE  RowsApart' /\ HeldIsRow' /\ BytesConserved'
<1> USE DEF TypeOK
<1> DEFINE p == reg[c].pid
<1>1. p \in Tasks /\ UNCHANGED <<added, reaped, reg>> /\ pc' = [pc EXCEPT ![c] = "relookup"]
  BY Zenon DEF KernelTypeOK, Reg, AccountInsert
<1>2. CASE UNCHANGED <<elem, stats>>
  <2>1. RowsApart' /\ BytesConserved'
    BY SMTT(30), <1>1, <1>2 DEF RowInv, RowsApart, BytesConserved, InRow
  <2>2. HeldIsRow'
    BY Zenon, <1>1, <1>2 DEF RowInv, HeldIsRow, KernelTypeOK, Holding
  <2> QED
    BY SMTT(30), <2>1, <2>2
<1>3. CASE ~UNCHANGED <<elem, stats>>
  <2>1. PICK e \in FreeElems : elem' = [elem EXCEPT ![p] = e]
                              /\ stats' = [stats EXCEPT ![e] = InitRow(p)] /\ elem[p] = None
    BY ZenonT(60), <1>3 DEF AccountInsert, HashInsertNoExist
  <2>2. e \in Elems /\ e # None /\ \A q \in Tasks : elem[q] # e
    BY SMTT(30), <2>1, KernelAssumption DEF FreeElems
  <2>3. RowsApart'
    BY Zenon, <1>1, <2>1, <2>2 DEF RowInv, RowsApart, KernelTypeOK
  <2>4. HeldIsRow'
    <3> SUFFICES ASSUME NEW x \in Cpus, pc'[x] \in Holding PROVE elem'[reg[x].pid] = reg[x].ps
      BY ZenonT(60), <1>1 DEF HeldIsRow
    <3>1. x # c /\ pc[x] \in Holding /\ reg[x].pid \in Tasks
      BY SMTT(30), <1>1 DEF KernelTypeOK, Holding, Reg
    <3>2. elem[reg[x].pid] = reg[x].ps
      BY SMTT(30), <3>1 DEF RowInv, HeldIsRow
    <3>3. CASE reg[x].pid # p
      BY Zenon, <1>1, <2>1, <3>1, <3>2, <3>3 DEF KernelTypeOK
    <3>4. CASE reg[x].pid = p
      BY ZenonT(60), <2>1, <3>1, <3>2, <3>4 DEF NotNull
    <3> QED
      BY ZenonT(60), <3>3, <3>4
  <2>5. ASSUME NEW q \in Tasks, NEW d \in Dirs PROVE InRow(q, d)' = InRow(q, d)
    <3>1. CASE q = p
      BY Zenon, <1>1, <2>1, <2>2, <3>1 DEF InRow, InitRow, NewRow, Zero, KernelTypeOK
    <3>2. CASE q # p
      BY ZenonT(60), <1>1, <2>1, <2>2, <3>2 DEF InRow, KernelTypeOK
    <3> QED
      BY SMTT(30), <3>1, <3>2
  <2> QED
    BY ZenonT(60), <1>1, <2>3, <2>4, <2>5 DEF RowInv, BytesConserved
<1> QED
  BY SMTT(30), <1>2, <1>3

LEMMA AddToRow ==
  ASSUME TypeOK, RowInv, UNCHANGED reaped, NEW c \in Cpus, AccountBytes(c)
  PROVE  BytesConserved'
<1>1. KernelTypeOK /\ NotNull(c) /\ reaped \in [Tasks -> [Dirs -> Nat]] /\ reg[c] \in Reg
  BY SMTT(30) DEF TypeOK, KernelTypeOK
<1>2. PICK p \in Tasks, e \in Elems, dir \in Dirs, n \in Nat :
        reg[c].pid = p /\ reg[c].ps = e /\ elem[p] = e /\ reg[c].dir = dir /\ reg[c].size = n
  BY SMTT(30), <1>1 DEF KernelTypeOK, Reg, AccountBytes, RowInv, HeldIsRow, NotNull, Holding
<1>3. /\ stats' = [stats EXCEPT ![e] = AddBytes(stats[e], dir, n)]
      /\ added' = [added EXCEPT ![p] = AddTo(added[p], dir, n)]
      /\ UNCHANGED <<elem, reaped>>
  BY Zenon, <1>2 DEF AccountBytes, Column
<1>4. stats[e] \in Row /\ stats[e].bytes \in [Dirs -> Nat] /\ added[p] \in [Dirs -> Nat] /\ e # None
  BY ZenonT(60), <1>1, <1>2, KernelAssumption DEF KernelTypeOK, Row
<1>5. stats'[e].bytes = AddTo(stats[e].bytes, dir, n) /\ added'[p] = AddTo(added[p], dir, n)
  <2>1. stats'[e] = AddBytes(stats[e], dir, n) /\ added'[p] = AddTo(added[p], dir, n)
    BY Zenon, <1>1, <1>2, <1>3 DEF KernelTypeOK
  <2>2. AddBytes(stats[e], dir, n).bytes = AddTo(stats[e].bytes, dir, n)
    BY ZenonT(60), <1>2, <1>4, RowBytes
  <2> QED
    BY ZenonT(60), <2>1, <2>2
<1> SUFFICES ASSUME NEW q \in Tasks, NEW d \in Dirs
             PROVE  added'[q][d] = InRow(q, d)' + reaped'[q][d]
  BY Zenon DEF BytesConserved
<1>6. added[q][d] = InRow(q, d) + reaped[q][d]
  BY ZenonT(60) DEF RowInv, BytesConserved
<1>7. CASE q # p
  BY ZenonT(60), <1>1, <1>2, <1>3, <1>4, <1>6, <1>7 DEF InRow, RowInv, RowsApart, KernelTypeOK
<1>8. CASE q = p
  <2>1. InRow(q, d) = stats[e].bytes[d] /\ InRow(q, d)' = AddTo(stats[e].bytes, dir, n)[d]
    BY ZenonT(60), <1>2, <1>3, <1>4, <1>5, <1>8 DEF InRow
  <2>2. InRow(q, d) \in Nat /\ reaped[q][d] \in Nat /\ reaped'[q][d] = reaped[q][d]
    BY ZenonT(60), <1>1, <1>3, <1>4, <2>1
  <2>3. CASE d = dir
    <3>1. InRow(q, d)' = InRow(q, d) + n /\ added'[q][d] = added[q][d] + n
      BY ZenonT(60), <1>4, <1>5, <1>8, <2>1, <2>3 DEF AddTo
    <3>2. added[q][d] \in Nat
      BY ZenonT(60), <1>4, <1>8
    <3>3. added[q][d] + n = (InRow(q, d) + n) + reaped[q][d]
      BY SMTT(30), <1>2, <1>6, <2>2, <3>2, Bookkeeping
    <3> QED
      BY ZenonT(60), <2>2, <3>1, <3>3
  <2>4. CASE d # dir
    <3>1. InRow(q, d)' = InRow(q, d) /\ added'[q][d] = added[q][d]
      BY ZenonT(60), <1>4, <1>5, <1>8, <2>1, <2>4 DEF AddTo
    <3> QED
      BY Zenon, <1>6, <2>2, <3>1
  <2> QED
    BY Zenon, <2>3, <2>4
<1> QED
  BY ZenonT(60), <1>7, <1>8

\* A deleted row takes its bytes with it, and no handler holds a pointer to it.
LEMMA ReapRow ==
  ASSUME TypeOK, RowInv, Reap
  PROVE  RowsApart' /\ HeldIsRow' /\ BytesConserved'
<1>1. KernelTypeOK /\ key \in Tasks /\ reaped \in [Tasks -> [Dirs -> Nat]]
  BY Zenon DEF TypeOK
<1>2. CASE elem[key] = None
  <2>1. UNCHANGED <<elem, stats, reaped, pc, reg, added>>
    BY SMTT(30), <1>2 DEF Reap
  <2> QED
    BY ZenonT(60), <2>1 DEF RowInv, RowsApart, HeldIsRow, BytesConserved, InRow
<1>3. CASE elem[key] # None
  <2>1. PICK e \in Elems : e = elem[key] /\ e # None
    BY SMTT(30), <1>1, <1>3 DEF KernelTypeOK
  <2>2. /\ elem' = [elem EXCEPT ![key] = None] /\ stats' = [stats EXCEPT ![e] = NewRow(0)]
        /\ reaped' = [reaped EXCEPT ![key] = Plus(reaped[key], stats[e].bytes)]
        /\ UNCHANGED <<pc, reg, added>>
    BY SMTT(30), <1>3, <2>1 DEF Reap
  <2>3. RowsApart'
    BY SMTT(30), <1>1, <2>2 DEF RowInv, RowsApart, KernelTypeOK
  <2>4. HeldIsRow'
    <3> SUFFICES ASSUME NEW c \in Cpus, pc[c] \in Holding PROVE elem'[reg[c].pid] = reg[c].ps
      BY ZenonT(60), <2>2 DEF HeldIsRow
    <3>1. alive[reg[c].pid] /\ ~alive[key]
      BY ZenonT(60) DEF RowInv, CallersLive, CondemnedDead, Accounting, Reap
    <3>2. elem[reg[c].pid] = reg[c].ps
      BY SMTT(30) DEF RowInv, HeldIsRow
    <3> QED
      BY Zenon, <1>1, <2>2, <3>1, <3>2 DEF KernelTypeOK, Reg
  <2>5. ASSUME NEW q \in Tasks, NEW d \in Dirs
        PROVE  added'[q][d] = InRow(q, d)' + reaped'[q][d]
    <3>1. added[q][d] = InRow(q, d) + reaped[q][d] /\ added'[q][d] = added[q][d]
      BY SMTT(30), <2>2 DEF RowInv, BytesConserved
    <3>2. CASE q # key
      BY Zenon, <1>1, <2>1, <2>2, <3>1, <3>2 DEF InRow, RowInv, RowsApart, KernelTypeOK
    <3>3. CASE q = key
      <4>1. InRow(q, d) = stats[e].bytes[d] /\ InRow(q, d)' = 0
        BY SMTT(30), <1>1, <2>1, <2>2, <3>3 DEF InRow, KernelTypeOK
      <4>2. reaped'[q][d] = reaped[q][d] + stats[e].bytes[d]
        BY Zenon, <1>1, <2>2, <3>3 DEF Plus
      <4>3. reaped[q][d] \in Nat /\ stats[e].bytes[d] \in Nat
        BY Zenon, <1>1 DEF KernelTypeOK, Row
      <4> QED
        <5>1. added[q][d] \in Nat
          BY SMTT(30), <1>1 DEF KernelTypeOK
        <5>2. added[q][d] = 0 + (reaped[q][d] + stats[e].bytes[d])
          <6>1. added[q][d] = stats[e].bytes[d] + reaped[q][d]
            BY SMTT(30), <3>1, <4>1
          <6> QED
            BY SMTT(30), <4>3, <5>1, <6>1, LastBookkeeping
        <5> QED
          BY ZenonT(60), <3>1, <4>1, <4>2, <5>2
    <3> QED
      BY SMTT(30), <3>2, <3>3
  <2> QED
    BY Zenon, <2>3, <2>4, <2>5 DEF BytesConserved
<1> QED
  BY Zenon, <1>2, <1>3

\* Only ProcExit changes which processes exist.
LEMMA KernelAlive ==
  ASSUME KernelStep
  PROVE  alive' = alive \/ \E p \in Pids : ProcExit(p)
<1> USE DEF envVars
<1>1. ASSUME NEW h \in DOMAIN AccountHooks, NEW c \in Cpus, NEW p \in Tasks, NEW a \in Socks,
             NEW n \in Sizes, HookFires(h, c, p, a, n)
      PROVE  alive' = alive
  BY Zenon, <1>1 DEF HookFires, Account
<1>2. ASSUME NEW c \in Cpus, AccountStep(c) \/ RetransmitRow(c) \/ RetransmitAdd(c)
      PROVE  alive' = alive
  BY Zenon, <1>2 DEF AccountStep, AccountLookup, AccountInsert, AccountBytes, AccountStamp,
     RetransmitRow, RetransmitAdd
<1>3. ASSUME NEW c \in Cpus, NEW a \in Socks, HandleTcpRetransmit(c, a) PROVE alive' = alive
  BY Zenon, <1>3 DEF HandleTcpRetransmit
<1>4. ASSUME NEW a \in Socks, HandleTcpClose(a) \/ SockDies(a) \/ OrphanFreed(a)
      PROVE  alive' = alive
  BY SMTT(30), <1>4 DEF HandleTcpClose, SockDies, OrphanFreed
<1> QED
  BY Zenon, <1>1, <1>2, <1>3, <1>4 DEF KernelStep

LEMMA KernelRowInv ==
  ASSUME TypeOK, RowInv, KernelStep, UNCHANGED pollVars
  PROVE  RowInv'
<1>1. KernelTypeOK /\ UNCHANGED <<reaped, phase, key>>
  BY SMTT(30) DEF TypeOK, pollVars, cursor, ghosts
<1>2. CondemnedDead'
  <2>1. \A p \in Tasks : alive'[p] => alive[p]
    BY Zenon, <1>1, KernelAlive DEF KernelTypeOK, ProcExit
  <2> QED
    BY SMTT(30), <1>1, <2>1 DEF RowInv, CondemnedDead, TypeOK
<1>3. CallersLive'
  <2> SUFFICES ASSUME NEW c \in Cpus, pc'[c] \in Accounting PROVE alive'[reg'[c].pid]
    BY SMTT(30) DEF CallersLive
  <2>1. alive[reg'[c].pid]
    BY SMTT(30), <1>1, KernelAccounting DEF RowInv, CallersLive
  <2>2. CASE \E p \in Pids : ProcExit(p)
    BY <1>1, <2>1, <2>2 DEF ProcExit, KernelTypeOK
  <2>3. CASE ~\E p \in Pids : ProcExit(p)
    BY Zenon, <2>1, <2>3, KernelAlive
  <2> QED
    BY Zenon, <2>2, <2>3
<1>4. ASSUME UNCHANGED elem PROVE RowsApart'
  BY Zenon, <1>4 DEF RowInv, RowsApart
<1>5. ASSUME UNCHANGED <<elem, stats, added>> PROVE RowsApart' /\ BytesConserved'
  BY ZenonT(60), <1>1, <1>5 DEF RowInv, RowsApart, BytesConserved, InRow
<1>6. ASSUME NEW h \in DOMAIN AccountHooks, NEW c \in Cpus, NEW p \in Tasks, NEW a \in Socks,
             NEW n \in Sizes, HookFires(h, c, p, a, n)
      PROVE  RowInv'
  <2>1. HeldIsRow'
    BY Zenon, <1>1, <1>6 DEF HookFires, Account, RowInv, HeldIsRow, Holding, KernelTypeOK
  <2> QED
    BY Zenon, <1>2, <1>3, <1>5, <1>6, <2>1 DEF HookFires, Account, RowInv
<1>7. ASSUME NEW c \in Cpus, AccountLookup(c) PROVE RowInv'
  <2>1. HeldIsRow'
    BY <1>1, <1>7 DEF AccountLookup, RowInv, HeldIsRow, Holding, KernelTypeOK, Reg
  <2> QED
    BY Zenon, <1>2, <1>3, <1>5, <1>7, <2>1 DEF AccountLookup, RowInv
<1>8. ASSUME NEW c \in Cpus, AccountInsert(c) PROVE RowInv'
  BY Zenon, <1>1, <1>2, <1>3, <1>8, InsertRow DEF RowInv
<1>9. ASSUME NEW c \in Cpus, AccountBytes(c) PROVE RowInv'
  <2>1. HeldIsRow'
    BY Zenon, <1>1, <1>9 DEF AccountBytes, RowInv, HeldIsRow, Holding, KernelTypeOK
  <2> QED
    BY ZenonT(60), <1>1, <1>2, <1>3, <1>4, <1>9, <2>1, AddToRow DEF AccountBytes, RowInv
<1>10. ASSUME NEW c \in Cpus, AccountStamp(c) \/ RetransmitAdd(c) PROVE RowInv'
  <2>1. HeldIsRow'
    BY Zenon, <1>1, <1>10 DEF AccountStamp, RetransmitAdd, Return, RowInv, HeldIsRow, Holding, KernelTypeOK
  <2>2. reg[c].dir \in Dirs /\ clock \in Nat
    BY SMTT(30), <1>1 DEF KernelTypeOK, Reg
  <2>3. \A e \in Elems : stats'[e].bytes = stats[e].bytes
    <3> SUFFICES ASSUME NEW e \in Elems PROVE stats'[e].bytes = stats[e].bytes
      BY Zenon
    <3>1. stats[e] \in Row
      BY Zenon, <1>1 DEF KernelTypeOK
    <3>2. stats'[e] \in {stats[e], Stamp(stats[e], reg[c].dir, clock), AddRetrans(stats[e])}
      BY Zenon, <1>1, <1>10 DEF AccountStamp, RetransmitAdd, Column, KernelTypeOK
    <3>3. /\ Stamp(stats[e], reg[c].dir, clock).bytes = stats[e].bytes
          /\ AddRetrans(stats[e]).bytes = stats[e].bytes
      BY ZenonT(60), <2>2, <3>1, RowBytes
    <3> QED
      BY ZenonT(60), <3>2, <3>3
  <2>4. UNCHANGED <<elem, added>>
    BY ZenonT(60), <1>10 DEF AccountStamp, RetransmitAdd
  <2> QED
    BY ZenonT(60), <1>1, <1>2, <1>3, <1>4, <2>1, <2>3, <2>4, SameBytes DEF RowInv
<1>11. ASSUME UNCHANGED <<elem, stats, added>>, HeldIsRow' PROVE RowInv'
  BY Zenon, <1>2, <1>3, <1>5, <1>11 DEF RowInv
<1>12. ASSUME NEW c \in Cpus, RetransmitRow(c) PROVE RowInv'
  BY Zenon, <1>1, <1>11, <1>12 DEF RetransmitRow, RowInv, HeldIsRow, Holding, KernelTypeOK
<1>13. ASSUME NEW c \in Cpus, NEW a \in Socks, HandleTcpRetransmit(c, a) PROVE RowInv'
  BY Zenon, <1>1, <1>11, <1>13 DEF HandleTcpRetransmit, RowInv, HeldIsRow, Holding, KernelTypeOK
<1>14. ASSUME NEW a \in Socks, HandleTcpClose(a) \/ SockDies(a) \/ OrphanFreed(a) PROVE RowInv'
  BY Zenon, <1>11, <1>14 DEF HandleTcpClose, SockDies, OrphanFreed, RowInv, HeldIsRow
<1>15. ASSUME NEW p \in Pids, ProcExit(p) PROVE RowInv'
  BY Zenon, <1>11, <1>15 DEF ProcExit, RowInv, HeldIsRow
<1> QED
  BY SMTT(30), <1>6, <1>7, <1>8, <1>9, <1>10, <1>12, <1>13, <1>14, <1>15 DEF KernelStep, AccountStep

LEMMA RowsKept ==
  ASSUME Hidden = {}, ReuseInPass = FALSE
  PROVE  Spec => []RowInv
<1>1. Init => RowInv
  <2> SUFFICES ASSUME Init PROVE RowInv
    BY Zenon
  <2>1. RowsApart /\ HeldIsRow /\ CallersLive /\ CondemnedDead
    BY Zenon DEF Init, KernelInit, RowsApart, HeldIsRow, CallersLive, CondemnedDead, Holding, Accounting
  <2>2. BytesConserved
    <3> SUFFICES ASSUME NEW p \in Tasks, NEW d \in Dirs
                 PROVE  added[p][d] = InRow(p, d) + reaped[p][d]
      BY SMTT(30) DEF BytesConserved
    <3>1. added[p][d] = 0 /\ reaped[p][d] = 0 /\ elem[p] = None
      BY Zenon DEF Init, KernelInit, Zero
    <3> QED
      BY <3>1 DEF InRow
  <2> QED
    BY Zenon, <2>1, <2>2 DEF RowInv
<1>2. TypeOK /\ RowInv /\ [Next]_vars => RowInv'
  <2> SUFFICES ASSUME TypeOK, RowInv, [Next]_vars PROVE RowInv'
    BY Zenon
  <2>1. CASE KernelStep /\ UNCHANGED pollVars
    BY Zenon, <2>1, KernelRowInv
  <2>2. ASSUME NEW p \in Pids, Spawn(p) PROVE RowInv'
    <3>1. /\ ~(phase = "delete" /\ p = key) /\ alive' = [alive EXCEPT ![p] = TRUE]
          /\ UNCHANGED <<elem, stats, pc, reg, added, reaped, phase, key>>
      BY Zenon, <2>2 DEF Spawn, ProcSpawn, pollVars, cursor, ghosts
    <3> QED
      BY ZenonT(60), <3>1 DEF RowInv, RowsApart, HeldIsRow, CallersLive, CondemnedDead, BytesConserved, InRow,
         TypeOK, KernelTypeOK, Reg
  <2>3. ASSUME UNCHANGED <<alive, elem, stats, pc, reg, added, reaped>>, CondemnedDead'
        PROVE  RowInv'
    BY ZenonT(60), <2>3 DEF RowInv, RowsApart, HeldIsRow, CallersLive, BytesConserved, InRow
  <2>4. CASE AttachNext \/ Tick \/ Quit
    BY Zenon, <2>3, <2>4 DEF AttachNext, Tick, Quit, pollVars, cursor, ghosts, RowInv, CondemnedDead
  <2>5. CASE Reap
    <3>1. CallersLive' /\ CondemnedDead'
      BY ZenonT(60), <2>5 DEF Reap, envVars, RowInv, CallersLive, CondemnedDead
    <3> QED
      BY SMTT(30), <2>5, <3>1, ReapRow DEF RowInv
  <2>6. CASE Condemn
    <3>1. CondemnedDead'
      BY Zenon, <2>6 DEF Condemn, Reapable, PidAlive, CondemnedDead, kernelVars, envVars, cursor
    <3> QED
      BY Zenon, <2>3, <2>6, <3>1 DEF Condemn, kernelVars, envVars, ghosts
  <2>7. ASSUME UNCHANGED <<kernelVars, reaped>>, phase' # "delete" PROVE RowInv'
    BY Zenon, <2>3, <2>7 DEF kernelVars, envVars, CondemnedDead
  <2>8. CASE Prime \/ Sample \/ NextKey \/ LookUp \/ PassOver \/ Baseline \/ Diff \/ Finish
    BY SMTT(30), <2>7, <2>8 DEF Prime, Sample, SampleBegin, NextKey, LookUp, PassOver, Continue, Baseline,
       Diff, Finish, ghosts
  <2>9. CASE UNCHANGED vars
    BY Zenon, <2>3, <2>9 DEF vars, kernelVars, envVars, pollVars, cursor, ghosts, RowInv, CondemnedDead
  <2> QED
    BY Zenon, <2>1, <2>2, <2>4, <2>5, <2>6, <2>8, <2>9 DEF Next, PollStep
<1> QED
  BY <1>1, <1>2, Typing, PTL DEF Spec

\* No byte is lost or counted twice: as long as /proc shows every process and a
\* pid is not given away between the look at /proc and the delete, the bytes
\* account() was called with are in the row of the process that called it, or
\* were in it when sample() reaped it.
THEOREM Conservation ==
  ASSUME Hidden = {}, ReuseInPass = FALSE
  PROVE  Spec => []BytesConserved
<1>1. RowInv => BytesConserved
  BY Zenon DEF RowInv
<1> QED
  BY <1>1, RowsKept, PTL

-----------------------------------------------------------------------------
\* Why account() and sample() implement ProcMeter.  A row's bytes are what was
\* added less what was reaped, so the two ghosts tell how every row changes; and what
\* a handler carries from one step of account() to the next is the call it began with.

\* What a meter shows is a number, before and after a step.
LEMMA RowNat ==
  ASSUME TypeOK, NEW p \in Tasks, NEW d \in Dirs
  PROVE  added[p][d] \in Nat /\ reaped[p][d] \in Nat /\ InRow(p, d) \in Nat
<1>1. added[p][d] \in Nat /\ reaped[p][d] \in Nat
  BY Zenon DEF TypeOK, KernelTypeOK
<1>2. elem[p] # None => stats[elem[p]] \in Row
  BY Zenon DEF TypeOK, KernelTypeOK
<1> QED
  BY Zenon, <1>1, <1>2 DEF InRow, Row

LEMMA RowNatNext ==
  ASSUME TypeOK', NEW p \in Tasks, NEW d \in Dirs
  PROVE  added'[p][d] \in Nat /\ reaped'[p][d] \in Nat /\ InRow(p, d)' \in Nat
<1>1. added'[p][d] \in Nat /\ reaped'[p][d] \in Nat
  BY Zenon DEF TypeOK, KernelTypeOK
<1>2. elem'[p] # None => stats'[elem'[p]] \in Row
  BY Zenon DEF TypeOK, KernelTypeOK
<1> QED
  BY Zenon, <1>1, <1>2 DEF InRow, Row

LEMMA RestStays ==
  ASSUME NEW total \in Nat, NEW row \in Nat, NEW gone \in Nat, NEW next \in Nat,
         total = row + gone, total = next + gone
  PROVE  next = row
OBVIOUS

\* A step that leaves both ghosts alone leaves the bytes of every row alone.
LEMMA SameRows ==
  ASSUME TypeOK, TypeOK', BytesConserved, BytesConserved', UNCHANGED <<added, reaped>>
  PROVE  \A p \in Tasks, d \in Dirs : InRow(p, d)' = InRow(p, d)
<1> SUFFICES ASSUME NEW p \in Tasks, NEW d \in Dirs PROVE InRow(p, d)' = InRow(p, d)
  BY ZenonT(60)
<1>1. added[p][d] = InRow(p, d) + reaped[p][d] /\ added[p][d] = InRow(p, d)' + reaped[p][d]
  BY ZenonT(60) DEF BytesConserved
<1> QED
  BY ZenonT(60), <1>1, RowNat, RowNatNext, RestStays

\* If it leaves the processes and the calls alone as well, the meter does not move.
LEMMA MeterStutter ==
  ASSUME \A p \in Tasks, d \in Dirs : InRow(p, d)' = InRow(p, d), UNCHANGED <<alive, reaped>>,
         \A c \in Cpus : Uncounted(c)' = Uncounted(c)
  PROVE  UNCHANGED Meter!vars
  BY Zenon DEF Meter!vars

\* A hook fires: the call begins.
LEMMA MeterBegin ==
  ASSUME TypeOK, \A p \in Tasks, d \in Dirs : InRow(p, d)' = InRow(p, d), UNCHANGED reaped,
         NEW h \in DOMAIN AccountHooks, NEW c \in Cpus, NEW p \in Tasks, NEW a \in Socks, NEW n \in Sizes,
         HookFires(h, c, p, a, n)
  PROVE  Meter!Next
<1> DEFINE d == AccountHooks[h].dir
<1>1. /\ alive[p] /\ pc[c] = "idle" /\ UNCHANGED alive /\ pc' = [pc EXCEPT ![c] = "lookup"]
      /\ reg' = [reg EXCEPT ![c] = [NoReg EXCEPT !.pid = p, !.sk = a, !.dir = d, !.size = n]]
  BY Zenon DEF HookFires, Account
<1>2. d \in Dirs
  BY DEF AccountHooks, Dirs
<1>3. pc \in [Cpus -> Steps] /\ reg \in [Cpus -> Reg]
  BY Zenon DEF TypeOK, KernelTypeOK
<1>4. pc'[c] = "lookup" /\ reg'[c].pid = p /\ reg'[c].dir = d /\ reg'[c].size = n
  BY Zenon, <1>1, <1>3 DEF NoReg
<1>5. \A b \in Cpus \ {c} : pc'[b] = pc[b] /\ reg'[b] = reg[b]
  BY Zenon, <1>1, <1>3
<1> HIDE DEF d
<1>6. Uncounted(c) = {} /\ Uncounted(c)' = {[proc |-> p, dir |-> d, size |-> n]}
  BY Zenon, <1>1, <1>4 DEF Uncounted, Accounting, Holding
<1>7. \A b \in Cpus \ {c} : Uncounted(b)' = Uncounted(b)
  BY Zenon, <1>5 DEF Uncounted
<1>8. Meter!Begin(c, p, d, n)
  BY Zenon, <1>1, <1>6, <1>7 DEF Meter!Begin
<1> QED
  BY Zenon, <1>2, <1>8 DEF Meter!Next

\* The handler on a CPU leaves account() with nothing counted, or has counted its call.
LEMMA CallEnds ==
  ASSUME TypeOK, NEW c \in Cpus, NEW s, pc' = [pc EXCEPT ![c] = s], s \in {"idle", "stamp"},
         \A b \in Cpus \ {c} : reg'[b] = reg[b]
  PROVE  [b \in Cpus |-> Uncounted(b)'] = [[b \in Cpus |-> Uncounted(b)] EXCEPT ![c] = {}]
<1>1. pc'[c] = s /\ \A b \in Cpus \ {c} : pc'[b] = pc[b]
  BY Zenon DEF TypeOK, KernelTypeOK
<1>2. Uncounted(c)' = {}
  BY Zenon, <1>1 DEF Uncounted, Accounting, Holding
<1>3. \A b \in Cpus \ {c} : Uncounted(b)' = Uncounted(b)
  BY Zenon, <1>1 DEF Uncounted
<1> QED
  BY Zenon, <1>2, <1>3

\* The lookups of account(): the call goes on, or is refused for want of a row.
LEMMA MeterLookup ==
  ASSUME TypeOK, \A p \in Tasks, d \in Dirs : InRow(p, d)' = InRow(p, d), UNCHANGED reaped,
         NEW c \in Cpus, AccountLookup(c)
  PROVE  [Meter!Next]_(Meter!vars)
<1> DEFINE e == elem[reg[c].pid]
           s == IF e # None THEN "bytes" ELSE IF pc[c] = "lookup" THEN "insert" ELSE "idle"
<1>1. pc \in [Cpus -> Steps] /\ reg \in [Cpus -> Reg]
  BY Zenon DEF TypeOK, KernelTypeOK
<1>2. pc[c] \in {"lookup", "relookup"} /\ UNCHANGED alive /\ pc' = [pc EXCEPT ![c] = s]
  BY Zenon DEF AccountLookup, envVars
<1>3. reg' = [reg EXCEPT ![c] = IF s = "idle" THEN NoReg ELSE [@ EXCEPT !.ps = e]]
  BY Zenon, <1>1, <1>2 DEF AccountLookup
<1>4. s \in {"bytes", "insert", "idle"}
  BY Zenon
<1> HIDE DEF s, e
<1>5. \A b \in Cpus \ {c} : reg'[b] = reg[b] /\ pc'[b] = pc[b]
  BY Zenon, <1>1, <1>2, <1>3
<1>6. CASE s = "idle"
  <2>1. Uncounted(c) # {}
    BY Zenon, <1>2 DEF Uncounted, Accounting, Holding
  <2>2. [b \in Cpus |-> Uncounted(b)'] = [[b \in Cpus |-> Uncounted(b)] EXCEPT ![c] = {}]
    BY Zenon, <1>2, <1>5, <1>6, CallEnds
  <2>3. Meter!Refuse(c)
    BY Zenon, <1>2, <2>1, <2>2 DEF Meter!Refuse
  <2> QED
    BY Zenon, <2>3 DEF Meter!Next
<1>7. CASE s # "idle"
  <2>1. reg'[c] = [reg[c] EXCEPT !.ps = e] /\ reg[c] \in Reg
    BY Zenon, <1>1, <1>3, <1>7
  <2>2. reg'[c].pid = reg[c].pid /\ reg'[c].dir = reg[c].dir /\ reg'[c].size = reg[c].size
    BY Zenon, <2>1 DEF Reg
  <2>3. pc[c] \in Accounting \ {"stamp"} /\ pc'[c] \in Accounting \ {"stamp"}
    BY Zenon, <1>1, <1>2, <1>4, <1>7 DEF Accounting, Holding
  <2>4. Uncounted(c)' = Uncounted(c)
    BY Zenon, <2>2, <2>3 DEF Uncounted
  <2>5. \A b \in Cpus \ {c} : Uncounted(b)' = Uncounted(b)
    BY Zenon, <1>5 DEF Uncounted
  <2>6. \A b \in Cpus : Uncounted(b)' = Uncounted(b)
    BY Zenon, <2>4, <2>5
  <2> QED
    BY Zenon, <1>2, <2>6, MeterStutter
<1> QED
  BY Zenon, <1>6, <1>7

\* The add of account() counts the call.
LEMMA MeterCount ==
  ASSUME TypeOK, TypeOK', BytesConserved, BytesConserved', UNCHANGED reaped,
         NEW c \in Cpus, AccountBytes(c)
  PROVE  Meter!Next
<1> DEFINE p == reg[c].pid
           d == reg[c].dir
           n == reg[c].size
           k == [proc |-> p, dir |-> d, size |-> n]
<1>1. p \in Tasks /\ d \in Dirs /\ n \in Nat
  <2>1. reg[c] \in Reg
    BY ZenonT(60) DEF TypeOK, KernelTypeOK
  <2> QED
    BY Zenon, <2>1 DEF Reg
<1>2. \A q \in Tasks, e \in Dirs :
        InRow(q, e)' = IF q = p /\ e = d THEN InRow(q, e) + n ELSE InRow(q, e)
  <2> SUFFICES ASSUME NEW q \in Tasks, NEW e \in Dirs
               PROVE  InRow(q, e)' = IF q = p /\ e = d THEN InRow(q, e) + n ELSE InRow(q, e)
    BY ZenonT(60)
  <2>1. added[q][e] = InRow(q, e) + reaped[q][e] /\ added'[q][e] = InRow(q, e)' + reaped[q][e]
    BY ZenonT(60) DEF BytesConserved
  <2>2. added' = [added EXCEPT ![p] = [added[p] EXCEPT ![d] = added[p][d] + n]]
    BY Zenon DEF AccountBytes, AddTo
  <2>3. added \in [Tasks -> [Dirs -> Nat]]
    BY Zenon DEF TypeOK, KernelTypeOK
  <2> HIDE DEF p, d, n, k
  <2>4. CASE q = p /\ e = d
    <3>1. added'[q][e] = added[q][e] + n
      BY Zenon, <1>1, <2>2, <2>3, <2>4
    <3>2. added[q][e] + n = InRow(q, e)' + reaped[q][e]
      BY ZenonT(60), <2>1, <3>1
    <3>3. /\ added[q][e] \in Nat /\ reaped[q][e] \in Nat
          /\ InRow(q, e) \in Nat /\ InRow(q, e)' \in Nat /\ n \in Nat
      BY ZenonT(60), <1>1, RowNat, RowNatNext
    <3>4. added[q][e] = InRow(q, e) + reaped[q][e]
      BY ZenonT(60), <2>1
    <3>5. InRow(q, e)' = InRow(q, e) + n
      BY <3>2, <3>3, <3>4
    <3> QED
      BY ZenonT(60), <2>4, <3>5
  <2>5. CASE ~(q = p /\ e = d)
    <3>1. added'[q][e] = added[q][e]
      BY Zenon, <1>1, <2>2, <2>3, <2>5
    <3> QED
      BY ZenonT(60), <2>1, <2>5, <3>1, RowNat, RowNatNext, RestStays
  <2> QED
    BY Zenon, <2>4, <2>5
<1>3. k \in Uncounted(c)
  BY Zenon DEF AccountBytes, Uncounted, Accounting, Holding
<1>4. k.proc = p /\ k.dir = d /\ k.size = n
  OBVIOUS
<1>5. [b \in Cpus |-> Uncounted(b)'] = [[b \in Cpus |-> Uncounted(b)] EXCEPT ![c] = {}]
  BY Zenon, CallEnds DEF AccountBytes
<1>6. UNCHANGED alive
  BY Zenon DEF AccountBytes, envVars
<1> HIDE DEF p, d, n, k
<1>7. [q \in Tasks |-> [e \in Dirs |-> InRow(q, e)']]
      = [[q \in Tasks |-> [e \in Dirs |-> InRow(q, e)]] EXCEPT ![k.proc][k.dir] = @ + k.size]
  BY Zenon, <1>1, <1>2, <1>4
<1>8. Meter!Count(c)
  BY ZenonT(60), <1>3, <1>5, <1>6, <1>7 DEF Meter!Count
<1> QED
  BY Zenon, <1>8 DEF Meter!Next

\* The delete of the reaper closes the meter of a process that has gone.
LEMMA MeterClose ==
  ASSUME TypeOK, TypeOK', BytesConserved, BytesConserved', CondemnedDead, Reap, elem[key] # None
  PROVE  Meter!Next
<1>1. key \in Tasks /\ UNCHANGED added /\ elem'[key] = None
  BY Zenon DEF TypeOK, KernelTypeOK, Reap
<1>2. reaped' = [reaped EXCEPT ![key] = [d \in Dirs |-> reaped[key][d] + InRow(key, d)]]
  BY ZenonT(60), <1>1 DEF Reap, Plus, InRow, TypeOK
<1>3. \A q \in Tasks, e \in Dirs : InRow(q, e)' = IF q = key THEN 0 ELSE InRow(q, e)
  <2> SUFFICES ASSUME NEW q \in Tasks, NEW e \in Dirs
               PROVE  InRow(q, e)' = IF q = key THEN 0 ELSE InRow(q, e)
    BY ZenonT(60)
  <2>1. CASE q = key
    BY Zenon, <1>1, <2>1 DEF InRow
  <2>2. CASE q # key
    <3>1. added[q][e] = InRow(q, e) + reaped[q][e] /\ added'[q][e] = InRow(q, e)' + reaped'[q][e]
      BY ZenonT(60) DEF BytesConserved
    <3>2. added'[q][e] = added[q][e] /\ reaped'[q][e] = reaped[q][e]
      BY Zenon, <1>1, <1>2, <2>2 DEF TypeOK
    <3>3. added[q][e] = InRow(q, e)' + reaped[q][e]
      BY ZenonT(60), <3>1, <3>2
    <3>4. InRow(q, e)' = InRow(q, e)
      BY ZenonT(60), <3>1, <3>3, RowNat, RowNatNext, RestStays
    <3> QED
      BY ZenonT(60), <2>2, <3>4
  <2> QED
    BY Zenon, <2>1, <2>2
<1>4. [p \in Tasks |-> [d \in Dirs |-> InRow(p, d)']]
      = [[p \in Tasks |-> [d \in Dirs |-> InRow(p, d)]] EXCEPT ![key] = [d \in Dirs |-> 0]]
  BY ZenonT(60), <1>1, <1>3
<1>5. reaped' = [reaped EXCEPT ![key] =
                  [d \in Dirs |-> reaped[key][d]
                                  + [p \in Tasks |-> [b \in Dirs |-> InRow(p, b)]][key][d]]]
  BY ZenonT(60), <1>1, <1>2
<1>6. ~alive[key] /\ UNCHANGED <<alive, pc, reg>>
  BY Zenon DEF Reap, CondemnedDead, envVars
<1>7. \A c \in Cpus : Uncounted(c)' = Uncounted(c)
  BY Zenon, <1>6 DEF Uncounted
<1>8. Meter!Close(key)
  BY ZenonT(60), <1>4, <1>5, <1>6, <1>7 DEF Meter!Close
<1> QED
  BY Zenon, <1>1, <1>8 DEF Meter!Next

\* A process exits outside its calls, and a pid is given away again.
LEMMA MeterExit ==
  ASSUME TypeOK, \A p \in Tasks, d \in Dirs : InRow(p, d)' = InRow(p, d), UNCHANGED reaped,
         NEW p \in Pids, ProcExit(p) \/ ProcSpawn(p)
  PROVE  Meter!Next
<1>1. p \in Tasks /\ UNCHANGED <<pc, reg>>
  BY Zenon DEF Tasks, ProcExit, ProcSpawn
<1>2. \A c \in Cpus : Uncounted(c)' = Uncounted(c)
  BY Zenon, <1>1 DEF Uncounted
<1>3. CASE ProcExit(p)
  <2>1. alive[p] /\ alive' = [alive EXCEPT ![p] = FALSE]
    BY Zenon, <1>3 DEF ProcExit
  <2>2. \A c \in Cpus : \A k \in Uncounted(c) : k.proc # p
    BY SMTT(30), <1>3 DEF ProcExit, Uncounted
  <2>3. Meter!Exit(p)
    BY Zenon, <1>2, <2>1, <2>2 DEF Meter!Exit
  <2> QED
    BY Zenon, <1>1, <2>3 DEF Meter!Next
<1>4. CASE ProcSpawn(p)
  <2>1. Meter!Spawn(p)
    BY Zenon, <1>2, <1>4 DEF ProcSpawn, Meter!Spawn
  <2> QED
    BY Zenon, <1>1, <2>1 DEF Meter!Next
<1> QED
  BY Zenon, <1>3, <1>4

\* account() and sample() implement ProcMeter, under the conditions of Conservation:
\* whatever the interleaving of handlers on several CPUs with the walk of the poller, a
\* call is added once and whole to the row of the process that made it, or refused whole
\* for want of a row, and a row is closed whole, and only after its process has gone.
THEOREM Metering ==
  ASSUME Hidden = {}, ReuseInPass = FALSE
  PROVE  Spec => MeterKept
<1>1. Init => Meter!Init
  <2> SUFFICES ASSUME Init PROVE Meter!Init
    BY Zenon
  <2>1. \A p \in Tasks : elem[p] = None
    BY Zenon DEF Init, KernelInit
  <2>2. \A p \in Tasks, d \in Dirs : InRow(p, d) = 0
    BY ZenonT(60), <2>1 DEF InRow
  <2>3. reaped = [p \in Tasks |-> [d \in Dirs |-> 0]]
    BY ZenonT(60) DEF Init, Zero
  <2>4. alive = [p \in Tasks |-> TRUE] /\ \A c \in Cpus : pc[c] = "idle"
    BY Zenon DEF Init, KernelInit
  <2>5. \A c \in Cpus : Uncounted(c) = {}
    BY Zenon, <2>4 DEF Uncounted, Accounting, Holding
  <2> QED
    BY ZenonT(60), <2>2, <2>3, <2>4, <2>5 DEF Meter!Init
<1>2. /\ TypeOK /\ TypeOK' /\ RowInv /\ RowInv' /\ [Next]_vars
      => [Meter!Next]_(Meter!vars)
  <2> SUFFICES ASSUME TypeOK, TypeOK', RowInv, RowInv', [Next]_vars
               PROVE  [Meter!Next]_(Meter!vars)
    BY Zenon
  <2>0. BytesConserved /\ BytesConserved' /\ CondemnedDead
    BY Zenon DEF RowInv
  <2>1. ASSUME UNCHANGED <<added, reaped>> PROVE \A p \in Tasks, d \in Dirs : InRow(p, d)' = InRow(p, d)
    BY ZenonT(60), <2>0, <2>1, SameRows
  <2>2. ASSUME UNCHANGED <<alive, pc, reg, added, reaped>> PROVE UNCHANGED Meter!vars
    <3>1. \A c \in Cpus : Uncounted(c)' = Uncounted(c)
      BY Zenon, <2>2 DEF Uncounted
    <3> QED
      BY Zenon, <2>1, <2>2, <3>1, MeterStutter
  <2>3. ASSUME KernelStep, UNCHANGED pollVars PROVE [Meter!Next]_(Meter!vars)
    <3>0. UNCHANGED reaped
      BY Zenon, <2>3 DEF pollVars, ghosts
    <3>1. ASSUME NEW h \in DOMAIN AccountHooks, NEW c \in Cpus, NEW p \in Tasks, NEW a \in Socks,
                 NEW n \in Sizes, HookFires(h, c, p, a, n)
          PROVE  Meter!Next
      <4>1. UNCHANGED added
        BY Zenon, <3>1 DEF HookFires, Account
      <4> QED
        BY ZenonT(60), <2>1, <3>0, <3>1, <4>1, MeterBegin
    <3>2. ASSUME NEW c \in Cpus, AccountLookup(c) PROVE [Meter!Next]_(Meter!vars)
      <4>1. UNCHANGED added
        BY Zenon, <3>2 DEF AccountLookup
      <4> QED
        BY ZenonT(60), <2>1, <3>0, <3>2, <4>1, MeterLookup
    <3>3. ASSUME NEW c \in Cpus, AccountBytes(c) PROVE Meter!Next
      BY ZenonT(60), <2>0, <3>0, <3>3, MeterCount
    <3>4. ASSUME NEW c \in Cpus,
                 \/ AccountInsert(c) \/ AccountStamp(c) \/ RetransmitRow(c) \/ RetransmitAdd(c)
                 \/ \E a \in Socks : HandleTcpRetransmit(c, a)
          PROVE  UNCHANGED Meter!vars
      <4>1. UNCHANGED <<alive, added>>
        BY Zenon, <3>4 DEF AccountInsert, AccountStamp, RetransmitRow, RetransmitAdd, HandleTcpRetransmit, envVars
      <4>2. pc \in [Cpus -> Steps] /\ reg \in [Cpus -> Reg]
        BY Zenon DEF TypeOK, KernelTypeOK
      <4>3. \A b \in Cpus \ {c} : pc'[b] = pc[b] /\ reg'[b] = reg[b]
        BY Zenon, <3>4, <4>2 DEF AccountInsert, AccountStamp, RetransmitRow, RetransmitAdd, HandleTcpRetransmit, Return
      <4>4. Uncounted(c)' = Uncounted(c)
        <5>1. CASE AccountInsert(c)
          <6>1. pc[c] = "insert" /\ pc'[c] = "relookup" /\ reg' = reg
            BY Zenon, <4>2, <5>1 DEF AccountInsert
          <6> QED
            BY Zenon, <6>1 DEF Uncounted, Accounting, Holding
        <5>2. CASE \/ AccountStamp(c) \/ RetransmitRow(c) \/ RetransmitAdd(c)
                  \/ \E a \in Socks : HandleTcpRetransmit(c, a)
          <6>1. /\ pc[c] \in {"stamp", "idle", "retrans_row", "retrans_add"}
                /\ pc'[c] \in {"idle", "retrans_row", "retrans_add"}
            BY Zenon, <4>2, <5>2 DEF AccountStamp, RetransmitRow, RetransmitAdd, HandleTcpRetransmit, Return
          <6>2. pc[c] \notin Accounting \ {"stamp"} /\ pc'[c] \notin Accounting \ {"stamp"}
            BY <6>1 DEF Accounting, Holding
          <6> QED
            BY Zenon, <6>2 DEF Uncounted
        <5> QED
          BY Zenon, <3>4, <5>1, <5>2
      <4>5. \A b \in Cpus \ {c} : Uncounted(b)' = Uncounted(b)
        BY Zenon, <4>3 DEF Uncounted
      <4>6. \A b \in Cpus : Uncounted(b)' = Uncounted(b)
        BY Zenon, <4>4, <4>5
      <4> QED
        BY Zenon, <2>1, <3>0, <4>1, <4>6, MeterStutter
    <3>5. ASSUME NEW a \in Socks, HandleTcpClose(a) \/ SockDies(a) \/ OrphanFreed(a)
          PROVE  UNCHANGED Meter!vars
      BY Zenon, <2>2, <3>0, <3>5 DEF HandleTcpClose, SockDies, OrphanFreed
    <3>6. ASSUME NEW p \in Pids, ProcExit(p) PROVE Meter!Next
      <4>1. UNCHANGED added
        BY Zenon, <3>6 DEF ProcExit
      <4> QED
        BY ZenonT(60), <2>1, <3>0, <3>6, <4>1, MeterExit
    <3> QED
      BY ZenonT(60), <2>3, <3>1, <3>2, <3>3, <3>4, <3>5, <3>6 DEF KernelStep, AccountStep
  <2>4. ASSUME NEW p \in Pids, Spawn(p) PROVE Meter!Next
    <3>1. ProcSpawn(p) /\ UNCHANGED <<added, reaped>>
      BY Zenon, <2>4 DEF Spawn, ProcSpawn, pollVars, ghosts
    <3> QED
      BY ZenonT(60), <2>1, <3>1, MeterExit
  <2>5. CASE Reap
    <3>1. CASE elem[key] = None
      BY Zenon, <2>2, <2>5, <3>1 DEF Reap, envVars
    <3> QED
      BY ZenonT(60), <2>0, <2>5, <3>1, MeterClose
  <2>6. CASE AttachNext \/ Tick \/ Quit
    BY Zenon, <2>2, <2>6 DEF AttachNext, Tick, Quit, pollVars, ghosts
  <2>7. CASE \/ Prime \/ Sample \/ NextKey \/ LookUp \/ Condemn \/ PassOver \/ Baseline
             \/ Diff \/ Finish
    BY Zenon, <2>2, <2>7 DEF Prime, Sample, SampleBegin, NextKey, LookUp, Condemn, PassOver, Baseline,
       Diff, Finish, kernelVars, envVars, ghosts
  <2>8. CASE UNCHANGED vars
    BY Zenon, <2>2, <2>8 DEF vars, kernelVars, envVars, pollVars, ghosts
  <2> QED
    BY Zenon, <2>3, <2>4, <2>5, <2>6, <2>7, <2>8 DEF Next, PollStep
<1> QED
  BY <1>1, <1>2, Typing, RowsKept, PTL DEF Spec, MeterKept, Meter!Spec

-----------------------------------------------------------------------------
(* The lines that netTop prints: one for each process, with rates that add *)
(* up to the bytes of its row.                                             *)

\* Why no process has two lines.  Until the pass reaps a row the walk only goes up:
\* it stands at a row that is in the map, and the lines so far are of rows below it.
StandsAtRow == phase \in Walking /\ buried = {} => key \in Keys \/ (phase = "next" /\ key = 0)
LinesBehind ==
  phase \in Walking /\ buried = {} =>
    \A i \in DOMAIN rows : /\ rows[i].pid \in Keys /\ prev[rows[i].pid].in /\ rows[i].pid <= key
                           /\ phase # "next" => rows[i].pid < key
LinesApart ==
  phase \in Walking /\ buried = {} => \A i, j \in DOMAIN rows : rows[i].pid = rows[j].pid => i = j
LinesInv == StandsAtRow /\ LinesBehind /\ LinesApart

LEMMA AppendLine ==
  ASSUME NEW s \in Seq(Line), NEW x \in Line
  PROVE  /\ DOMAIN s = 1 .. Len(s) /\ DOMAIN Append(s, x) = 1 .. (Len(s) + 1) /\ Len(s) \in Nat
         /\ \A i \in 1 .. Len(s) : Append(s, x)[i] = s[i]
         /\ Append(s, x)[Len(s) + 1] = x
OBVIOUS

\* The line that Diff lists is one more of the process under the cursor.
LEMMA DiffLines ==
  ASSUME TypeOK, TypeOK', Diff
  PROVE  \A j \in DOMAIN rows' : \/ j \in DOMAIN rows /\ rows'[j] = rows[j]
                                 \/ j = Len(rows) + 1 /\ rows'[j].pid = key
<1>1. CASE rows' = rows
  BY Zenon, <1>1
<1>2. CASE rows' # rows
  <2> DEFINE x == [pid |-> key, comm |-> val.comm, delta |-> Delta, retrans |-> Resent]
  <2>1. rows' = Append(rows, x) /\ rows \in Seq(Line) /\ x.pid = key
    BY Zenon, <1>2 DEF Diff, TypeOK
  <2>2. x \in Line
    <3>1. rows' \in Seq(Line) /\ Len(rows') = Len(rows) + 1 /\ rows'[Len(rows) + 1] = x
      BY <2>1 DEF TypeOK
    <3> QED
      BY <2>1, <3>1
  <2> HIDE DEF x
  <2> QED
    BY <2>1, <2>2, AppendLine
<1> QED
  BY Zenon, <1>1, <1>2

LEMMA LinesStep == TypeOK /\ TypeOK' /\ WalkInv /\ LinesInv /\ [Next]_vars => LinesInv'
<1> SUFFICES ASSUME TypeOK, TypeOK', WalkInv, LinesInv, [Next]_vars PROVE LinesInv'
  BY Zenon
<1>1. /\ Tasks \subseteq Nat /\ key \in Tasks /\ key \in Nat
      /\ Keys \subseteq Nat /\ 0 \notin Keys
      /\ KernelTypeOK /\ prev \in [Tasks -> Entry]
  <2>1. Tasks \subseteq Nat /\ key \in Tasks /\ KernelTypeOK /\ prev \in [Tasks -> Entry]
    BY KernelAssumption DEF Tasks, TypeOK
  <2>2. Keys \subseteq Tasks /\ 0 \notin Keys
    BY Zenon DEF Keys, WalkInv, NoRowZero
  <2> QED
    BY Zenon, <2>1, <2>2
<1>2. ASSUME UNCHANGED <<phase, buried, key, rows>>, Keys \subseteq Keys',
             \A p \in Tasks : prev[p].in => prev'[p].in
      PROVE  LinesInv'
  BY Zenon, <1>1, <1>2 DEF LinesInv, StandsAtRow, LinesBehind, LinesApart, Keys
<1>3. ASSUME UNCHANGED <<elem, phase, buried, key, rows, prev>> PROVE LinesInv'
  BY Zenon, <1>2, <1>3 DEF Keys
<1>4. ASSUME UNCHANGED kernelVars PROVE Keys' = Keys
  BY Zenon, <1>4 DEF Keys, kernelVars
<1>5. CASE KernelStep /\ UNCHANGED pollVars
  <2>1. Keys \subseteq Keys'
    BY ZenonT(60), <1>1, <1>5, KernelRows DEF Keys
  <2> QED
    BY Zenon, <1>2, <1>5, <2>1 DEF pollVars, cursor, ghosts
<1>6. CASE (\E p \in Pids : Spawn(p)) \/ AttachNext \/ Tick
  BY Zenon, <1>3, <1>6 DEF Spawn, ProcSpawn, AttachNext, Tick, pollVars, cursor, ghosts
<1>7. CASE Quit \/ Finish
  <2>1. phase' \notin Walking
    BY ZenonT(60), <1>7 DEF Quit, Finish, Walking
  <2> QED
    BY Zenon, <2>1 DEF LinesInv, StandsAtRow, LinesBehind, LinesApart
<1>8. ASSUME NEW b \in BOOLEAN, SampleBegin(b) PROVE LinesInv'
  BY <1>8 DEF SampleBegin, LinesInv, StandsAtRow, LinesBehind, LinesApart
<1>9. CASE Reap
  <2>1. buried' # {}
    BY Zenon, <1>9 DEF Reap
  <2> QED
    BY Zenon, <2>1 DEF LinesInv, StandsAtRow, LinesBehind, LinesApart
<1>10. CASE NextKey
  <2>1. PICK n \in NextKeys : IsLeast(n, NextKeys) /\ key' = n
    BY Zenon, <1>10 DEF NextKey
  <2>2. phase = "next" /\ phase' = "look" /\ UNCHANGED <<buried, rows, prev>> /\ Keys' = Keys
    BY Zenon, <1>4, <1>10 DEF NextKey, ghosts
  <2>3. n \in Keys /\ n \in Nat /\ n # 0
    BY Zenon, <1>1, <2>1 DEF NextKeys
  <2>4. ASSUME buried = {}, NEW i \in DOMAIN rows PROVE rows[i].pid < n
    <3>1. rows[i].pid \in Keys /\ rows[i].pid <= key /\ rows[i].pid \in Nat
      BY ZenonT(60), <1>1, <2>2, <2>4 DEF LinesInv, LinesBehind, Walking
    <3>2. key \in Keys
      BY <1>1, <2>2, <2>4, <3>1 DEF LinesInv, StandsAtRow, Walking
    <3>3. key < n
      BY Zenon, <2>1, <3>2 DEF NextKeys
    <3> QED
      BY <1>1, <2>3, <3>1, <3>3
  <2>5. StandsAtRow' /\ LinesApart'
    BY Zenon, <2>1, <2>2, <2>3 DEF LinesInv, StandsAtRow, LinesApart, Walking
  <2>6. LinesBehind'
    <3> SUFFICES ASSUME buried = {}, NEW i \in DOMAIN rows
                 PROVE  rows[i].pid \in Keys /\ prev[rows[i].pid].in /\ rows[i].pid <= n /\ rows[i].pid < n
      BY Zenon, <2>1, <2>2 DEF LinesBehind
    <3>1. rows[i].pid \in Keys /\ prev[rows[i].pid].in /\ rows[i].pid \in Nat
      BY ZenonT(60), <1>1, <2>2 DEF LinesInv, LinesBehind, Walking
    <3> QED
      BY <2>3, <2>4, <3>1
  <2> QED
    BY Zenon, <2>5, <2>6 DEF LinesInv
<1>11. CASE LookUp \/ Condemn \/ PassOver \/ Baseline
  <2>1. phase \in {"look", "judge"} /\ phase' \in {"next", "judge", "delete"}
    BY SMTT(30), <1>11 DEF LookUp, Condemn, PassOver, Continue, Baseline
  <2>2. UNCHANGED <<kernelVars, key, rows, buried>>
    BY Zenon, <1>11 DEF LookUp, Condemn, PassOver, Continue, Baseline, cursor, ghosts
  <2>3. \A p \in Tasks : prev[p].in => prev'[p].in
    BY <1>1, <1>11 DEF LookUp, Condemn, PassOver, Baseline, Totals
  <2> QED
    BY Zenon, <1>1, <1>4, <2>1, <2>2, <2>3 DEF LinesInv, StandsAtRow, LinesBehind, LinesApart, Walking, Keys
<1>12. CASE Diff
  <2>1. phase = "judge" /\ phase' = "next" /\ UNCHANGED <<kernelVars, key, buried>>
    BY Zenon, <1>12 DEF Diff, cursor
  <2>2. (\A p \in Tasks : prev[p].in => prev'[p].in) /\ prev'[key].in
    BY Zenon, <1>1, <1>12 DEF Diff, Totals
  <2>3. \A j \in DOMAIN rows' : \/ j \in DOMAIN rows /\ rows'[j] = rows[j]
                                \/ j = Len(rows) + 1 /\ rows'[j].pid = key
    BY Zenon, <1>12, DiffLines
  <2>4. StandsAtRow'
    BY Zenon, <1>4, <2>1 DEF LinesInv, StandsAtRow, Walking
  <2>5. CASE buried = {}
    <3>1. key \in Keys /\ \A i \in DOMAIN rows : rows[i].pid \in Keys /\ prev[rows[i].pid].in /\ rows[i].pid < key
      BY Zenon, <2>1, <2>5 DEF LinesInv, StandsAtRow, LinesBehind, Walking
    <3>2. LinesBehind'
      BY <1>1, <1>4, <2>1, <2>2, <2>3, <3>1 DEF LinesBehind, Keys
    <3>3. LinesApart'
      BY <1>1, <2>1, <2>3, <2>5, <3>1 DEF LinesApart, LinesInv, Walking
    <3> QED
      BY Zenon, <2>4, <3>2, <3>3 DEF LinesInv
  <2>6. CASE buried # {}
    BY Zenon, <2>1, <2>4, <2>6 DEF LinesInv, LinesBehind, LinesApart
  <2> QED
    BY Zenon, <2>5, <2>6
<1>13. CASE UNCHANGED vars
  BY Zenon, <1>3, <1>13 DEF vars, kernelVars, pollVars, cursor, ghosts
<1> QED
  BY ZenonT(60), <1>5, <1>6, <1>7, <1>8, <1>9, <1>10, <1>11, <1>12, <1>13
     DEF Next, PollStep, Prime, Sample

LEMMA LinesKept == Spec => []LinesInv
<1>1. Init => LinesInv
  BY Zenon DEF Init, LinesInv, StandsAtRow, LinesBehind, LinesApart, Walking
<1> QED
  BY <1>1, LinesStep, WalkKept, Typing, PTL DEF Spec

\* Until sample() reaps a row, no process has two lines, whatever the handlers insert
\* and however many rows there are: nactive, which the header prints, counts processes.
THEOREM LinesCountProcesses == Spec => []OneLinePerProcess
<1>1. LinesInv => OneLinePerProcess
  BY Zenon DEF LinesInv, LinesApart, OneLinePerProcess, Walking
<1> QED
  BY <1>1, LinesKept, PTL

-----------------------------------------------------------------------------
\* Why rates add up.  prev[] never holds more than MAX_ROWS entries, so neither do the
\* lines of a pass that reaps nothing; an entry that is not there counts as zero; a
\* reaped row stays away for the rest of the pass; and as long as a row is there, its
\* totals are not below the ones read last.
InPrev == {p \in Tasks : prev[p].in}
PrevFits == IsFiniteSet(InPrev) /\ Cardinality(InPrev) <= MaxRows
NotInPrev == \A p \in Tasks : ~prev[p].in => ~prev[p].seen /\ prev[p].bytes = Zero /\ told[p] = Zero
BuriedGone == \A p \in buried : ~alive[p] /\ elem[p] = None
PrevBelow ==
  \A p \in Tasks \ cut : prev[p].in =>
    IF elem[p] = None THEN p \in buried /\ ~prev[p].seen
                      ELSE \A d \in Dirs : prev[p].bytes[d] <= InRow(p, d)
ValBetween ==
  phase \in {"judge", "delete"} =>
    /\ elem[key] # None
    /\ \A d \in Dirs : val.bytes[d] <= InRow(key, d)
    /\ prev[key].in /\ key \notin cut => \A d \in Dirs : prev[key].bytes[d] <= val.bytes[d]
RateInv == PrevFits /\ NotInPrev /\ BuriedGone /\ PrevBelow /\ ValBetween /\ RatesAddUp

\* A handler only adds to the bytes of a row.
LEMMA KernelAdds ==
  ASSUME TypeOK, KernelStep, NEW p \in Tasks, NEW d \in Dirs
  PROVE  added[p][d] <= added'[p][d]
<1>1. added \in [Tasks -> [Dirs -> Nat]] /\ added[p][d] \in Nat
  BY Zenon DEF TypeOK, KernelTypeOK
<1>2. ASSUME NEW c \in Cpus, AccountBytes(c) PROVE added[p][d] <= added'[p][d]
  <2>1. reg[c] \in Reg
    BY Zenon DEF TypeOK, KernelTypeOK
  <2>2. PICK q \in Tasks, e \in Dirs, n \in Nat : q = reg[c].pid /\ e = reg[c].dir /\ n = reg[c].size
    BY Zenon, <2>1 DEF Reg
  <2>3. added' = [added EXCEPT ![q] = [added[q] EXCEPT ![e] = added[q][e] + n]]
    BY Zenon, <1>2, <2>2 DEF AccountBytes, AddTo
  <2>4. added'[p][d] \in {added[p][d], added[p][d] + n}
    BY Zenon, <1>1, <2>3
  <2> QED
    BY <1>1, <2>2, <2>4
<1>3. CASE \A c \in Cpus : ~AccountBytes(c)
  <2>1. UNCHANGED added
    BY ZenonT(60), <1>3 DEF KernelStep, AccountStep, HookFires, Account, AccountLookup,
       AccountInsert, AccountStamp, RetransmitRow, RetransmitAdd, HandleTcpRetransmit,
       HandleTcpClose, SockDies, OrphanFreed, ProcExit
  <2> QED
    BY <1>1, <2>1
<1> QED
  BY Zenon, <1>2, <1>3

LEMMA RowsGrow ==
  ASSUME TypeOK, TypeOK', BytesConserved, BytesConserved', KernelStep, UNCHANGED reaped,
         NEW p \in Tasks, NEW d \in Dirs
  PROVE  InRow(p, d) <= InRow(p, d)'
<1>1. added[p][d] = InRow(p, d) + reaped[p][d] /\ added'[p][d] = InRow(p, d)' + reaped[p][d]
  BY ZenonT(60) DEF BytesConserved
<1>2. added[p][d] <= added'[p][d]
  BY Zenon, KernelAdds
<1>3. InRow(p, d) \in Nat /\ InRow(p, d)' \in Nat /\ reaped[p][d] \in Nat
  BY ZenonT(60), RowNat, RowNatNext
<1> QED
  BY <1>1, <1>2, <1>3

LEMMA UpTo ==
  ASSUME NEW n \in Nat
  PROVE  IsFiniteSet(1 .. n) /\ Cardinality(1 .. n) = n
<1>1. 1 \in Int /\ n \in Int
  OBVIOUS
<1>2. IsFiniteSet(1 .. n) /\ Cardinality(1 .. n) = IF 1 > n THEN 0 ELSE n - 1 + 1
  BY Zenon, <1>1, FS_Interval
<1> QED
  BY <1>2

\* In a pass that has reaped nothing there is room for one more line.
LEMMA RoomForLine ==
  ASSUME TypeOK, LinesInv, PrevFits, phase = "judge", buried = {}, prev[key].in \/ ~PrevFull
  PROVE  Len(rows) < MaxRows
<1> DEFINE T == InPrev \ {key}
           f == [i \in 1 .. Len(rows) |-> rows[i].pid]
<1>1. rows \in Seq(Line) /\ Len(rows) \in Nat /\ DOMAIN rows = 1 .. Len(rows) /\ MaxRows \in Nat
      /\ key \in Tasks /\ Tasks \subseteq Nat
  BY PollerAssumption, KernelAssumption DEF TypeOK, Tasks
<1>2. IsFiniteSet(T) /\ Cardinality(T) = IF key \in InPrev THEN Cardinality(InPrev) - 1 ELSE Cardinality(InPrev)
  BY Zenon, FS_RemoveElement DEF PrevFits
<1>3. Cardinality(InPrev) \in Nat /\ Cardinality(InPrev) <= MaxRows
  BY Zenon, FS_CardinalityType DEF PrevFits
<1>4. key \notin InPrev => Cardinality(InPrev) < MaxRows
  BY <1>1, <1>3 DEF PrevFull, InPrev
<1>5. Cardinality(T) < MaxRows
  BY <1>1, <1>2, <1>3, <1>4
<1>6. f \in [1 .. Len(rows) -> T]
  <2> SUFFICES ASSUME NEW i \in 1 .. Len(rows) PROVE rows[i].pid \in T
    BY Zenon
  <2>1. rows[i].pid < key /\ prev[rows[i].pid].in /\ rows[i].pid \in Tasks
    BY Zenon, <1>1 DEF LinesInv, LinesBehind, Walking, Keys
  <2> QED
    BY <1>1, <2>1 DEF InPrev
<1>7. IsFiniteSet(1 .. Len(rows)) /\ Cardinality(1 .. Len(rows)) = Len(rows)
  BY Zenon, <1>1, UpTo
<1>8. ASSUME Len(rows) >= MaxRows PROVE FALSE
  <2>1. Cardinality(T) < Cardinality(1 .. Len(rows))
    BY <1>1, <1>2, <1>3, <1>5, <1>7, <1>8
  <2>2. \E i, j \in 1 .. Len(rows) : i # j /\ f[i] = f[j]
    <3> HIDE DEF f, T
    <3> QED
      BY Zenon, <1>2, <1>6, <1>7, <2>1, FS_PigeonHole
  <2> QED
    BY Zenon, <1>1, <2>2 DEF LinesInv, LinesApart, Walking
<1> QED
  BY <1>1, <1>8

\* The handlers: rows only grow, and no row comes back that this pass has reaped,
\* because a process inside account() exists.
LEMMA KernelRates ==
  ASSUME TypeOK, TypeOK', RowInv, RowInv', RateInv, KernelStep, UNCHANGED pollVars
  PROVE  RateInv'
<1>1. UNCHANGED <<phase, key, val, prev, told, buried, cut, reaped>> /\ KernelTypeOK
      /\ buried \subseteq Tasks /\ key \in Tasks
  BY Zenon DEF TypeOK, pollVars, cursor, ghosts
<1>2. PrevFits' /\ NotInPrev' /\ RatesAddUp'
  BY Zenon, <1>1 DEF RateInv, PrevFits, InPrev, NotInPrev, RatesAddUp
<1>3. ASSUME NEW p \in buried PROVE ~alive'[p] /\ elem'[p] = None
  <2>1. ~alive[p] /\ elem[p] = None /\ p \in Tasks
    BY Zenon, <1>1 DEF RateInv, BuriedGone
  <2>2. ~alive'[p]
    BY Zenon, <1>1, <2>1, KernelAlive DEF KernelTypeOK, ProcExit
  <2>3. \A c \in Cpus : ~(pc[c] = "insert" /\ reg[c].pid = p)
    BY Zenon, <2>1 DEF RowInv, CallersLive, Accounting
  <2>4. elem'[p] = elem[p]
    BY Zenon, <1>1, <2>1, <2>3, KernelRows
  <2> QED
    BY Zenon, <2>1, <2>2, <2>4
<1>4. \A p \in Tasks, d \in Dirs : InRow(p, d) <= InRow(p, d)'
  BY ZenonT(60), <1>1, RowsGrow DEF RowInv
<1>5. \A p \in Tasks, d \in Dirs : InRow(p, d) \in Nat /\ InRow(p, d)' \in Nat
  BY ZenonT(60), RowNat, RowNatNext
<1>6. \A p \in Tasks, d \in Dirs : prev[p].bytes[d] \in Nat
  BY DEF TypeOK, Entry
<1>7. \A p \in Tasks : elem[p] # None => elem'[p] = elem[p]
  BY Zenon, <1>1, KernelRows
<1>8. PrevBelow'
  <2> SUFFICES ASSUME NEW p \in Tasks \ cut, prev[p].in
               PROVE  IF elem'[p] = None THEN p \in buried /\ ~prev[p].seen
                      ELSE \A d \in Dirs : prev[p].bytes[d] <= InRow(p, d)'
    BY ZenonT(60), <1>1 DEF PrevBelow
  <2>1. CASE elem[p] = None
    BY Zenon, <1>3, <2>1 DEF RateInv, PrevBelow
  <2>2. CASE elem[p] # None
    <3>1. \A d \in Dirs : prev[p].bytes[d] <= InRow(p, d)
      BY ZenonT(60), <2>2 DEF RateInv, PrevBelow
    <3>2. \A d \in Dirs : prev[p].bytes[d] <= InRow(p, d)'
      BY <1>4, <1>5, <1>6, <3>1
    <3> QED
      BY ZenonT(60), <1>7, <2>2, <3>2
  <2> QED
    BY Zenon, <2>1, <2>2
<1>9. ValBetween'
  <2> SUFFICES ASSUME phase \in {"judge", "delete"} PROVE ValBetween'
    BY ZenonT(60), <1>1 DEF ValBetween
  <2>1. /\ elem[key] # None
        /\ \A d \in Dirs : val.bytes[d] <= InRow(key, d)
        /\ prev[key].in /\ key \notin cut => \A d \in Dirs : prev[key].bytes[d] <= val.bytes[d]
    BY ZenonT(60) DEF RateInv, ValBetween
  <2>2. \A d \in Dirs : val.bytes[d] \in Nat
    BY SMTT(30) DEF TypeOK, Row
  <2>3. \A d \in Dirs : val.bytes[d] <= InRow(key, d)'
    BY SMTT(30), <1>1, <1>4, <1>5, <2>1, <2>2
  <2> QED
    BY ZenonT(60), <1>1, <1>7, <2>1, <2>3 DEF ValBetween
<1>10. BuriedGone'
  BY Zenon, <1>1, <1>3 DEF BuriedGone
<1> QED
  BY Zenon, <1>2, <1>8, <1>9, <1>10 DEF RateInv

\* The reaper: a row that this pass has listed takes its pid out of the account.
LEMMA ReapRates ==
  ASSUME TypeOK, RowInv, RateInv, Reap
  PROVE  RateInv'
<1>1. /\ phase = "delete" /\ phase' = "next" /\ buried' = buried \cup {key}
      /\ cut' = IF prev[key].seen THEN cut \cup {key} ELSE cut
      /\ UNCHANGED <<alive, prev, told>>
  BY Zenon DEF Reap, envVars
<1>2. PrevFits' /\ NotInPrev' /\ RatesAddUp'
  BY Zenon, <1>1 DEF RateInv, PrevFits, InPrev, NotInPrev, RatesAddUp
<1>3. elem[key] # None /\ key \in Tasks /\ ~alive[key] /\ KernelTypeOK
  BY Zenon, <1>1 DEF RateInv, ValBetween, TypeOK, RowInv, CondemnedDead
<1>4. elem' = [elem EXCEPT ![key] = None] /\ stats' = [stats EXCEPT ![elem[key]] = NewRow(0)]
  BY Zenon, <1>3 DEF Reap
<1>5. \A p \in Tasks : elem'[p] = IF p = key THEN None ELSE elem[p]
  BY Zenon, <1>3, <1>4 DEF KernelTypeOK
<1>6. BuriedGone'
  BY Zenon, <1>1, <1>3, <1>5 DEF RateInv, BuriedGone, TypeOK
<1>7. ASSUME NEW p \in Tasks, p # key, NEW d \in Dirs PROVE InRow(p, d)' = InRow(p, d)
  <2>1. elem'[p] = elem[p] /\ (elem[p] # None => elem[p] # elem[key])
    BY Zenon, <1>3, <1>5, <1>7 DEF RowInv, RowsApart
  <2>2. elem[p] # None => stats'[elem[p]] = stats[elem[p]]
    BY Zenon, <1>3, <1>4, <2>1 DEF KernelTypeOK
  <2> QED
    BY ZenonT(60), <2>1, <2>2 DEF InRow
<1>8. PrevBelow'
  <2> SUFFICES ASSUME NEW p \in Tasks \ cut', prev[p].in
               PROVE  IF elem'[p] = None THEN p \in buried' /\ ~prev[p].seen
                      ELSE \A d \in Dirs : prev[p].bytes[d] <= InRow(p, d)'
    BY ZenonT(60), <1>1 DEF PrevBelow
  <2>1. p \in Tasks \ cut
    BY Zenon, <1>1
  <2>2. CASE p = key
    BY Zenon, <1>1, <1>5, <2>2
  <2>3. CASE p # key
    <3>1. IF elem[p] = None THEN p \in buried /\ ~prev[p].seen
          ELSE \A d \in Dirs : prev[p].bytes[d] <= InRow(p, d)
      BY ZenonT(60), <2>1 DEF RateInv, PrevBelow
    <3>2. elem'[p] = elem[p] /\ buried \subseteq buried'
      BY Zenon, <1>1, <1>5, <2>3
    <3>3. \A d \in Dirs : InRow(p, d)' = InRow(p, d)
      BY ZenonT(60), <1>7, <2>3
    <3> QED
      BY ZenonT(60), <3>1, <3>2, <3>3
  <2> QED
    BY Zenon, <2>2, <2>3
<1>9. ValBetween'
  BY Zenon, <1>1 DEF ValBetween
<1> QED
  BY Zenon, <1>2, <1>6, <1>8, <1>9 DEF RateInv

\* An entry is added to prev[] only while there is room.
LEMMA OneMoreFits ==
  ASSUME TypeOK, PrevFits, prev[key].in \/ ~PrevFull, prev' = [prev EXCEPT ![key] = Totals]
  PROVE  PrevFits'
<1>1. InPrev' = InPrev \cup {key}
  BY Zenon DEF InPrev, TypeOK, Totals
<1>2. IsFiniteSet(InPrev) /\ Cardinality(InPrev) \in Nat /\ Cardinality(InPrev) <= MaxRows
  BY Zenon, FS_CardinalityType DEF PrevFits
<1>3. /\ IsFiniteSet(InPrev \cup {key})
      /\ Cardinality(InPrev \cup {key}) = IF key \in InPrev THEN Cardinality(InPrev)
                                          ELSE Cardinality(InPrev) + 1
  BY Zenon, <1>2, FS_AddElement
<1>4. key \notin InPrev => ~(Cardinality(InPrev) >= MaxRows)
  BY Zenon DEF InPrev, PrevFull, TypeOK
<1> QED
  BY <1>1, <1>2, <1>3, <1>4, PollerAssumption DEF PrevFits

\* What both Baseline and Diff do to prev[] leaves the other entries in order.
LEMMA TotalsRates ==
  ASSUME TypeOK, RateInv, phase = "judge", phase' = "next", prev[key].in \/ ~PrevFull,
         prev' = [prev EXCEPT ![key] = Totals], UNCHANGED <<kernelVars, key, buried>>,
         cut' \in {cut, cut \cup {key}},
         \A p \in Tasks : p # key => told'[p] = told[p],
         key \notin cut' => told'[key] = val.bytes
  PROVE  RateInv'
<1>1. key \in Tasks /\ prev \in [Tasks -> Entry] /\ UNCHANGED <<alive, elem, stats>>
  BY Zenon DEF TypeOK, kernelVars, envVars
<1>2. \A p \in Tasks : prev'[p] = IF p = key THEN Totals ELSE prev[p]
  BY Zenon, <1>1
<1>3. Totals.in /\ Totals.seen /\ Totals.bytes = val.bytes
  BY Zenon DEF Totals
<1>4. PrevFits'
  BY Zenon, OneMoreFits DEF RateInv
<1>5. NotInPrev' /\ RatesAddUp'
  BY <1>2, <1>3 DEF RateInv, NotInPrev, RatesAddUp
<1>6. BuriedGone' /\ ValBetween'
  BY Zenon, <1>1 DEF RateInv, BuriedGone, ValBetween
<1>7. \A p \in Tasks, d \in Dirs : InRow(p, d)' = InRow(p, d)
  BY Zenon, <1>1 DEF InRow
<1>8. PrevBelow'
  <2> SUFFICES ASSUME NEW p \in Tasks \ cut', prev'[p].in
               PROVE  IF elem[p] = None THEN p \in buried /\ ~prev'[p].seen
                      ELSE \A d \in Dirs : prev'[p].bytes[d] <= InRow(p, d)
    BY ZenonT(60), <1>1, <1>7 DEF PrevBelow
  <2>1. p \in Tasks \ cut
    BY Zenon
  <2>2. CASE p = key
    BY ZenonT(60), <1>2, <1>3, <2>2 DEF RateInv, ValBetween
  <2>3. CASE p # key
    BY ZenonT(60), <1>2, <2>1, <2>3 DEF RateInv, PrevBelow
  <2> QED
    BY Zenon, <2>2, <2>3
<1> QED
  BY Zenon, <1>4, <1>5, <1>6, <1>8 DEF RateInv

\* A line lists exactly the traffic since the last one, and is left out only when
\* there is none, or when rows[] is full of second lines.
LEMMA DiffTells ==
  ASSUME TypeOK, LinesInv, RateInv, Diff, key \notin cut'
  PROVE  told'[key] = val.bytes
<1>1. key \in Tasks /\ prev[key] \in Entry /\ val \in Row /\ told \in [Tasks -> [Dirs -> Nat]]
  BY Zenon DEF TypeOK
<1>2. /\ prev[key].bytes \in [Dirs -> Nat] /\ val.bytes \in [Dirs -> Nat]
      /\ told[key] \in [Dirs -> Nat]
  BY Zenon, <1>1 DEF Entry, Row
<1>3. phase = "judge" /\ key \notin cut /\ ~Cuts /\ (prev[key].in \/ ~PrevFull)
  BY Zenon DEF Diff, Known
<1>4. told[key] = prev[key].bytes
  BY Zenon, <1>1, <1>3 DEF RateInv, NotInPrev, RatesAddUp
<1>5. \A d \in Dirs : prev[key].bytes[d] <= val.bytes[d]
  <2>1. CASE prev[key].in
    BY ZenonT(60), <1>3, <2>1 DEF RateInv, ValBetween
  <2>2. CASE ~prev[key].in
    <3>1. \A d \in Dirs : prev[key].bytes[d] = 0
      BY <1>1, <2>2 DEF RateInv, NotInPrev, Zero
    <3> QED
      BY <1>2, <3>1
  <2> QED
    BY Zenon, <2>1, <2>2
<1>6. \A d \in Dirs : Delta[d] = val.bytes[d] - prev[key].bytes[d]
  BY Zenon, <1>2, <1>5 DEF Delta, Minus
<1>7. CASE Listed
  <2>1. told'[key] = Plus(told[key], Delta)
    BY Zenon, <1>1, <1>7 DEF Diff
  <2>2. \A d \in Dirs : told[key][d] + Delta[d] = val.bytes[d]
    BY <1>2, <1>4, <1>6
  <2> QED
    BY Zenon, <1>2, <2>1, <2>2 DEF Plus
<1>8. CASE ~Listed
  <2>1. told'[key] = told[key]
    BY Zenon, <1>1, <1>8 DEF Diff
  <2>2. Len(rows) \in Nat /\ MaxRows \in Nat
    BY PollerAssumption DEF TypeOK
  <2>3. Delta = Zero
    <3>1. CASE Len(rows) < MaxRows
      BY Zenon, <1>8, <3>1 DEF Listed
    <3>2. CASE ~(Len(rows) < MaxRows)
      <4>1. buried # {}
        BY Zenon, <1>3, <3>2, RoomForLine DEF RateInv
      <4> QED
        BY <1>3, <2>2, <3>2, <4>1 DEF Cuts
    <3> QED
      BY Zenon, <3>1, <3>2
  <2>4. \A d \in Dirs : Delta[d] = 0
    BY Zenon, <2>3 DEF Zero
  <2>5. \A d \in Dirs : val.bytes[d] = prev[key].bytes[d]
    BY <1>2, <1>6, <2>4
  <2> QED
    BY <1>2, <1>4, <2>1, <2>5
<1> QED
  BY Zenon, <1>7, <1>8

\* The end of the pass: the entries not seen are dropped, and what is left of prev[]
\* is of rows that are there.
LEMMA FinishRates ==
  ASSUME TypeOK, RateInv, Finish
  PROVE  RateInv'
<1>1. /\ prev' = [p \in Tasks |-> IF prev[p].seen THEN prev[p] ELSE Absent]
      /\ told' = [p \in Tasks |-> IF prev[p].seen THEN told[p] ELSE Zero]
      /\ phase' = "sleep" /\ buried' = {} /\ cut' = {p \in cut : prev[p].seen}
      /\ UNCHANGED <<alive, elem, stats>>
  BY ZenonT(60) DEF Finish, kernelVars, envVars
<1>2. Absent.in = FALSE /\ Absent.seen = FALSE /\ Absent.bytes = Zero
  BY Zenon DEF Absent
<1>3. \A p \in Tasks : prev'[p].in => prev[p].in /\ prev[p].seen /\ prev'[p] = prev[p] /\ told'[p] = told[p]
  BY Zenon, <1>1, <1>2
<1>4. PrevFits'
  <2>1. InPrev' \subseteq InPrev
    BY Zenon, <1>3 DEF InPrev
  <2>2. IsFiniteSet(InPrev) /\ Cardinality(InPrev) \in Nat /\ Cardinality(InPrev) <= MaxRows
    BY Zenon, FS_CardinalityType DEF RateInv, PrevFits
  <2>3. IsFiniteSet(InPrev') /\ Cardinality(InPrev') <= Cardinality(InPrev)
    BY Zenon, <2>1, <2>2, FS_Subset
  <2>4. Cardinality(InPrev') \in Nat
    BY Zenon, <2>3, FS_CardinalityType
  <2> QED
    BY <2>2, <2>3, <2>4, PollerAssumption DEF PrevFits
<1>5. NotInPrev'
  BY Zenon, <1>1, <1>2 DEF RateInv, NotInPrev
<1>6. RatesAddUp'
  BY Zenon, <1>1, <1>3 DEF RateInv, RatesAddUp
<1>7. BuriedGone' /\ ValBetween'
  BY Zenon, <1>1 DEF BuriedGone, ValBetween
<1>8. PrevBelow'
  <2> SUFFICES ASSUME NEW p \in Tasks \ cut', prev'[p].in
               PROVE  elem[p] # None /\ \A d \in Dirs : prev'[p].bytes[d] <= InRow(p, d)'
    BY ZenonT(60), <1>1 DEF PrevBelow
  <2>1. p \in Tasks \ cut /\ prev[p].in /\ prev[p].seen /\ prev'[p] = prev[p]
    BY Zenon, <1>1, <1>3
  <2>2. elem[p] # None /\ \A d \in Dirs : prev[p].bytes[d] <= InRow(p, d)
    BY ZenonT(60), <2>1 DEF RateInv, PrevBelow
  <2> QED
    BY ZenonT(60), <1>1, <2>1, <2>2 DEF InRow
<1> QED
  BY Zenon, <1>4, <1>5, <1>6, <1>7, <1>8 DEF RateInv

LEMMA RatesStep ==
  ASSUME ReuseInPass = FALSE
  PROVE  TypeOK /\ TypeOK' /\ RowInv /\ RowInv' /\ LinesInv /\ RateInv /\ [Next]_vars => RateInv'
<1> SUFFICES ASSUME TypeOK, TypeOK', RowInv, RowInv', LinesInv, RateInv, [Next]_vars PROVE RateInv'
  BY Zenon
<1>1. CASE KernelStep /\ UNCHANGED pollVars
  BY Zenon, <1>1, KernelRates
<1>2. ASSUME UNCHANGED <<elem, stats, prev, told, buried, cut>>, \A p \in buried : ~alive'[p], ValBetween'
      PROVE  RateInv'
  BY ZenonT(60), <1>2
     DEF RateInv, PrevFits, InPrev, NotInPrev, BuriedGone, PrevBelow, InRow, RatesAddUp
<1>3. ASSUME NEW p \in Pids, Spawn(p) PROVE RateInv'
  <2>1. /\ p \notin buried /\ alive' = [alive EXCEPT ![p] = TRUE]
        /\ UNCHANGED <<elem, stats, pollVars>>
    BY Zenon, <1>3 DEF Spawn, ProcSpawn
  <2>2. \A q \in buried : ~alive'[q]
    BY Zenon, <2>1 DEF RateInv, BuriedGone, TypeOK, KernelTypeOK
  <2>3. ValBetween'
    BY ZenonT(60), <2>1 DEF RateInv, ValBetween, InRow, pollVars, cursor, ghosts
  <2> QED
    BY ZenonT(60), <1>2, <2>1, <2>2, <2>3 DEF pollVars, ghosts
<1>4. ASSUME UNCHANGED <<alive, elem, stats, prev, told, buried, cut>>, ValBetween' PROVE RateInv'
  BY ZenonT(60), <1>2, <1>4 DEF RateInv, BuriedGone
<1>5. CASE AttachNext \/ Tick \/ UNCHANGED vars
  <2>1. UNCHANGED <<alive, elem, stats, pollVars>>
    BY Zenon, <1>5 DEF AttachNext, Tick, vars, kernelVars, envVars
  <2>2. ValBetween'
    BY ZenonT(60), <2>1 DEF RateInv, ValBetween, InRow, pollVars, cursor, ghosts
  <2> QED
    BY ZenonT(60), <1>4, <2>1, <2>2 DEF pollVars, ghosts
<1>6. CASE Quit
  BY Zenon, <1>4, <1>6 DEF Quit, ValBetween, ghosts
<1>7. ASSUME NEW b \in BOOLEAN, SampleBegin(b) PROVE RateInv'
  <2>1. /\ phase' = "next" /\ UNCHANGED <<alive, elem, stats, told, buried, cut>>
        /\ prev' = [p \in Tasks |-> [prev[p] EXCEPT !.seen = FALSE]]
    BY Zenon, <1>7 DEF SampleBegin, kernelVars, envVars
  <2>2. \A p \in Tasks : prev'[p].in = prev[p].in /\ prev'[p].bytes = prev[p].bytes /\ prev'[p].seen = FALSE
    BY <2>1 DEF TypeOK, Entry
  <2>3. PrevFits' /\ NotInPrev' /\ RatesAddUp'
    BY ZenonT(60), <2>1, <2>2 DEF RateInv, PrevFits, InPrev, NotInPrev, RatesAddUp
  <2>4. BuriedGone' /\ ValBetween'
    BY Zenon, <2>1 DEF RateInv, BuriedGone, ValBetween
  <2>5. PrevBelow'
    BY ZenonT(60), <2>1, <2>2 DEF RateInv, PrevBelow, InRow
  <2> QED
    BY Zenon, <2>3, <2>4, <2>5 DEF RateInv
<1>8. CASE NextKey \/ PassOver
  BY Zenon, <1>4, <1>8 DEF NextKey, PassOver, Continue, ValBetween, kernelVars, envVars, ghosts
<1>9. CASE LookUp
  <2>1. UNCHANGED <<alive, elem, stats, prev, told, buried, cut, key>>
    BY ZenonT(60), <1>9 DEF LookUp, kernelVars, envVars
  <2>2. CASE elem[key] = None
    <3>1. phase' = "next"
      BY Zenon, <1>9, <2>2 DEF LookUp
    <3> QED
      BY Zenon, <1>4, <2>1, <3>1 DEF ValBetween
  <2>3. CASE elem[key] # None
    <3>1. phase' = "judge" /\ val' = stats[elem[key]] /\ key \in Tasks
      BY Zenon, <1>9, <2>3 DEF LookUp, TypeOK
    <3>2. \A d \in Dirs : val'.bytes[d] = InRow(key, d)
      BY ZenonT(60), <2>3, <3>1 DEF InRow
    <3>3. \A d \in Dirs : InRow(key, d) \in Nat /\ InRow(key, d)' = InRow(key, d)
      BY ZenonT(60), <2>1, <3>1, RowNat DEF InRow
    <3>4. prev[key].in /\ key \notin cut => \A d \in Dirs : prev[key].bytes[d] <= InRow(key, d)
      BY ZenonT(60), <2>3, <3>1 DEF RateInv, PrevBelow
    <3>5. \A d \in Dirs : val'.bytes[d] <= InRow(key, d)
      BY <3>2, <3>3
    <3>6. ValBetween'
      BY ZenonT(60), <2>1, <2>3, <3>2, <3>3, <3>4, <3>5 DEF ValBetween
    <3> QED
      BY Zenon, <1>4, <2>1, <3>6
  <2> QED
    BY Zenon, <2>2, <2>3
<1>10. CASE Condemn
  <2>1. phase = "judge" /\ UNCHANGED <<alive, elem, stats, prev, told, buried, cut, key, val>>
    BY Zenon, <1>10 DEF Condemn, kernelVars, envVars, cursor, ghosts
  <2>2. ValBetween'
    BY ZenonT(60), <2>1 DEF RateInv, ValBetween, InRow
  <2> QED
    BY Zenon, <1>4, <2>1, <2>2
<1>11. CASE Reap
  BY Zenon, <1>11, ReapRates
<1>12. CASE Baseline
  <2>1. /\ phase = "judge" /\ phase' = "next" /\ ~PrevFull /\ prev' = [prev EXCEPT ![key] = Totals]
        /\ told' = [told EXCEPT ![key] = val.bytes]
        /\ UNCHANGED <<kernelVars, key, buried, cut>>
    BY Zenon, <1>12 DEF Baseline, cursor
  <2>2. told \in [Tasks -> [Dirs -> Nat]] /\ key \in Tasks
    BY ZenonT(60) DEF TypeOK
  <2>3. told'[key] = val.bytes /\ \A p \in Tasks : p # key => told'[p] = told[p]
    BY Zenon, <2>1, <2>2
  <2> QED
    BY Zenon, <2>1, <2>3, TotalsRates
<1>13. CASE Diff
  <2>1. /\ phase = "judge" /\ phase' = "next" /\ (prev[key].in \/ ~PrevFull)
        /\ prev' = [prev EXCEPT ![key] = Totals] /\ cut' \in {cut, cut \cup {key}}
        /\ UNCHANGED <<kernelVars, key, buried>>
    BY Zenon, <1>13 DEF Diff, cursor, Known
  <2>2. \A p \in Tasks : p # key => told'[p] = told[p]
    BY Zenon, <1>13 DEF Diff, TypeOK
  <2>3. key \notin cut' => told'[key] = val.bytes
    BY Zenon, <1>13, DiffTells
  <2> QED
    BY Zenon, <2>1, <2>2, <2>3, TotalsRates
<1>14. CASE Finish
  BY Zenon, <1>14, FinishRates
<1> QED
  BY ZenonT(60), <1>1, <1>3, <1>5, <1>6, <1>7, <1>8, <1>9, <1>10, <1>11, <1>12, <1>13, <1>14
     DEF Next, PollStep, Prime, Sample

\* What sample() lists adds up to the totals it last read, under the conditions of
\* Conservation and for tables of any size: an interval's traffic is listed once, but
\* for the pids the reaper has taken out of the account.
THEOREM RatesComplete ==
  ASSUME Hidden = {}, ReuseInPass = FALSE
  PROVE  Spec => []RatesAddUp
<1>1. Init => RateInv
  <2> SUFFICES ASSUME Init PROVE RateInv
    BY Zenon
  <2>1. \A p \in Tasks : prev[p] = Absent /\ told[p] = Zero
    BY Zenon DEF Init
  <2>2. Absent.in = FALSE /\ Absent.seen = FALSE /\ Absent.bytes = Zero
    BY Zenon DEF Absent
  <2>3. InPrev = {}
    BY Zenon, <2>1, <2>2 DEF InPrev
  <2>4. PrevFits
    BY <2>3, FS_EmptySet, PollerAssumption DEF PrevFits
  <2>5. NotInPrev /\ PrevBelow /\ RatesAddUp
    BY Zenon, <2>1, <2>2 DEF NotInPrev, PrevBelow, RatesAddUp
  <2> QED
    BY Zenon, <2>4, <2>5 DEF Init, RateInv, BuriedGone, ValBetween
<1>2. RateInv => RatesAddUp
  BY Zenon DEF RateInv
<1> QED
  BY <1>1, <1>2, RatesStep, Typing, RowsKept, LinesKept, PTL DEF Spec
=============================================================================
