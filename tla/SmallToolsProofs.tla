-------------------------- MODULE SmallToolsProofs ---------------------------
(***************************************************************************)
(* Proofs about the small tools, for any number of CPUs, keys, tasks,      *)
(* packets and events and any size of the maps and the ring: the counters  *)
(* of HashCounters, the tail calls, the wire tap, the task iterator and    *)
(* the main loop of nettop, and that the six together implement each.      *)
(***************************************************************************)
EXTENDS MCSmallTools, Sequences, FiniteSetTheorems, WellFoundedInduction, TLAPS

Typed ==
  /\ atomic \in BOOLEAN /\ home \in [Uids -> Elements \cup {None}] /\ val \in [Elements -> Nat]
  /\ spare \in [Cpus -> Elements] /\ at \in [Cpus -> Frame \cup {None}] /\ begun \in Nat
  /\ handled \in [Uids -> Nat] /\ done \in Nat /\ raced \subseteq Uids

\* c is in a program for u.
In(c, u) == at[c] # None /\ at[c].uid = u

\* An element holds the count of one uid, is the spare of one CPU, or is waiting for
\* its uid to come.
Apart ==
  /\ \A u, v \in Uids : home[u] # None /\ home[u] = home[v] => u = v
  /\ \A c, d \in Cpus : spare[c] = spare[d] => c = d
  /\ \A u \in Uids, c \in Cpus : home[u] # spare[c]
  /\ \A u \in Uids : home[u] = None => (\A v \in Uids : home[v] # u) /\ (\A c \in Cpus : spare[c] # u)

\* count_open() never replaces an element: its pointers stay good.
Settled ==
  atomic => \A c \in Cpus, u \in Uids : In(c, u) /\ at[c].ptr # None => home[u] = at[c].ptr

\* Of a uid without a race one program runs, and the map is as it saw it.
OneProgram ==
  \A u \in Uids \ raced, c \in Cpus : In(c, u) =>
    /\ at[c].ptr = home[u]
    /\ at[c].found # None => at[c].ptr # None /\ at[c].found = val[at[c].ptr]
    /\ \A d \in Cpus : In(d, u) => d = c

\* No value in an element, and none that was read from one, is above the number of
\* programs that have ended: each adds one to what it saw.
NoneAbove ==
  /\ \A e \in Elements : val[e] <= done
  /\ \A c \in Cpus : at[c] # None /\ at[c].found # None => at[c].found <= done

HasSpace == Cardinality(Entries) < MaxEntries

\* An event that left its uid without an entry found the map full, and full it stays.
TurnedAway == \A u \in Uids : home[u] = None /\ handled[u] > 0 => ~HasSpace

\* Programs that will try to insert an entry for u.
Inserting(u) == {c \in Cpus : In(c, u) /\ at[c].ptr = None}

\* Events of u that were not counted, or will not be.
LossBounded ==
  atomic => \A u \in Uids : home[u] # None =>
    handled[u] + Cardinality(Inserting(u)) + 1 <= Value(u) + Cardinality(Cpus)

AtMost == atomic => \A u \in Uids : Value(u) <= handled[u]

CountInv ==
  /\ Typed /\ Apart /\ Settled /\ OneProgram /\ NoneAbove /\ TurnedAway
  /\ LossBounded /\ AtMost /\ CountExact

-----------------------------------------------------------------------------
LEMMA InsertingFinite ==
  ASSUME NEW u
  PROVE  IsFiniteSet(Inserting(u)) /\ Cardinality(Inserting(u)) \in Nat /\ Cardinality(Cpus) \in Nat
         /\ Cardinality(Inserting(u)) <= Cardinality(Cpus)
<1>1. Inserting(u) \subseteq Cpus
  BY Zenon DEF Inserting
<1> QED
  BY Zenon, <1>1, CountersAssumption, FS_Subset, FS_CardinalityType

LEMMA ValueNat == Typed => \A u \in Uids : Value(u) \in Nat
BY DEF Typed, Value

\* The program starts and looks its key up.
LEMMA LookupKeeps ==
  ASSUME CountInv, NEW c \in Cpus, NEW u \in Uids, Lookup(c, u)
  PROVE  CountInv'
<1> USE CountersAssumption DEF CountInv
<1> DEFINE f == [uid |-> u, ptr |-> home[u], found |-> None]
<1>1. /\ at[c] = None /\ begun' = begun + 1 /\ at' = [at EXCEPT ![c] = f]
      /\ raced' = raced \cup ({u} \cap {at[d].uid : d \in {d \in Cpus : at[d] # None}})
      /\ UNCHANGED <<atomic, home, val, spare, handled, done>>
  BY Zenon DEF Lookup, mapVars
<1>2. f \in Frame /\ f.uid = u /\ f.ptr = home[u] /\ f.found = None
  BY Zenon DEF Frame, Typed
<1> HIDE DEF f
<1>3. at'[c] = f /\ \A d \in Cpus \ {c} : at'[d] = at[d]
  BY Zenon, <1>1 DEF Typed
<1>4. Typed'
  BY <1>1, <1>2 DEF Typed, Elements
<1>5. raced \subseteq raced' /\ \A d \in Cpus : In(d, u) => u \in raced'
  BY Zenon, <1>1 DEF In
<1>6. \A v \in Uids, d \in Cpus : In(d, v)' => (d = c /\ v = u) \/ (d # c /\ In(d, v) /\ at'[d] = at[d])
  BY Zenon, <1>2, <1>3 DEF In
<1>7. Settled'
  <2> SUFFICES ASSUME atomic, NEW d \in Cpus, NEW v \in Uids, In(d, v)', at'[d].ptr # None
               PROVE  home[v] = at'[d].ptr
    BY Zenon, <1>1 DEF Settled
  <2>1. CASE d = c /\ v = u
    BY Zenon, <1>2, <1>3, <2>1
  <2>2. CASE In(d, v) /\ at'[d] = at[d]
    BY Zenon, <2>2 DEF Settled
  <2> QED
    BY Zenon, <1>6, <2>1, <2>2
<1>8. OneProgram'
  BY <1>1, <1>2, <1>3, <1>5, <1>6 DEF OneProgram
<1>9. Apart' /\ TurnedAway' /\ AtMost' /\ CountExact'
  BY Zenon, <1>1, <1>5 DEF Apart, TurnedAway, HasSpace, Entries, AtMost, Value, CountExact
<1>10. NoneAbove'
  BY Zenon, <1>1, <1>2, <1>3 DEF NoneAbove, Elements
<1>11. LossBounded'
  <2> SUFFICES ASSUME atomic, NEW v \in Uids, home[v] # None
               PROVE  handled[v] + Cardinality(Inserting(v)') + 1 <= Value(v) + Cardinality(Cpus)
    BY Zenon, <1>1 DEF LossBounded, Value
  <2>1. Inserting(v)' = Inserting(v)
    BY <1>1, <1>2, <1>3 DEF Inserting, In
  <2> QED
    BY Zenon, <2>1 DEF LossBounded
<1> QED
  BY Zenon, <1>4, <1>7, <1>8, <1>9, <1>10, <1>11

\* hello() or count_exec() reads through its pointer.
LEMMA ReadKeeps ==
  ASSUME CountInv, NEW c \in Cpus, Read(c)
  PROVE  CountInv'
<1> USE CountersAssumption DEF CountInv
<1> DEFINE n == val[at[c].ptr]
<1>1. /\ ~atomic /\ at[c] # None /\ at[c].ptr # None /\ at' = [at EXCEPT ![c].found = n]
      /\ UNCHANGED <<atomic, home, val, spare, begun, handled, done, raced>>
  BY Zenon DEF Read, mapVars
<1>2. at[c] \in Frame /\ at[c].ptr \in Elements /\ n \in Nat /\ n <= done
  BY <1>1 DEF Typed, Frame, NoneAbove
<1>3. /\ at'[c] \in Frame /\ at'[c].uid = at[c].uid /\ at'[c].ptr = at[c].ptr /\ at'[c].found = n
      /\ \A d \in Cpus \ {c} : at'[d] = at[d]
  BY <1>1, <1>2 DEF Typed, Frame
<1>4. Typed'
  BY <1>1, <1>2, <1>3 DEF Typed, Elements, Frame
<1>5. \A d \in Cpus, v \in Uids : In(d, v)' => In(d, v)
  BY <1>1, <1>3 DEF In, Frame
<1>6. OneProgram'
  <2> SUFFICES ASSUME NEW v \in Uids \ raced, NEW d \in Cpus, In(d, v)'
               PROVE  /\ at'[d].ptr = home[v]
                      /\ at'[d].found # None => at'[d].ptr # None /\ at'[d].found = val[at'[d].ptr]
                      /\ \A e \in Cpus : In(e, v)' => e = d
    BY <1>1 DEF OneProgram
  <2>1. /\ at[d].ptr = home[v]
        /\ at[d].found # None => at[d].ptr # None /\ at[d].found = val[at[d].ptr]
        /\ \A e \in Cpus : In(e, v) => e = d
    BY Zenon, <1>5 DEF OneProgram
  <2> QED
    BY Zenon, <1>1, <1>3, <1>5, <2>1
<1>7. NoneAbove'
  BY Zenon, <1>1, <1>2, <1>3 DEF NoneAbove, Elements
<1>8. Apart' /\ TurnedAway' /\ CountExact'
  BY Zenon, <1>1 DEF Apart, TurnedAway, HasSpace, Entries, Value, CountExact
<1>9. Settled' /\ LossBounded' /\ AtMost'
  BY Zenon, <1>1 DEF Settled, LossBounded, AtMost
<1> QED
  BY Zenon, <1>4, <1>6, <1>7, <1>8, <1>9

\* What the end of a program does to the map, action by action.
LEMMA FinishCases ==
  ASSUME CountInv, NEW c \in Cpus, Finish(c)
  PROVE  LET u == at[c].uid IN
         /\ u \in Uids /\ In(c, u)
         /\ \/ atomic /\ at[c].ptr # None /\ home[u] = at[c].ptr /\ Add(at[c])
            \/ atomic /\ at[c].ptr = None /\ home[u] # None /\ UNCHANGED mapVars
            \/ home[u] = None /\ ~HasSpace /\ UNCHANGED mapVars
            \/ \E n \in Nat : /\ home[u] = None /\ HasSpace /\ n <= done + 1
                              /\ (atomic => n = 1) /\ (u \notin raced => n = 1)
                              /\ home' = [home EXCEPT ![u] = u] /\ val' = [val EXCEPT ![u] = n] /\ UNCHANGED spare
            \/ \E n \in Nat : /\ ~atomic /\ home[u] # None /\ n <= done + 1
                              /\ (u \notin raced => n = val[home[u]] + 1) /\ Recycle(c, u, n)
<1> USE CountersAssumption DEF CountInv
<1> DEFINE u == at[c].uid
           x == at[c]
<1>1. /\ x # None /\ x \in Frame /\ u \in Uids /\ x.ptr \in Elements \cup {None}
      /\ x.found \in Nat \cup {None} /\ In(c, u)
  BY DEF Finish, Typed, In, Frame
<1>2. Room(u) <=> home[u] # None \/ HasSpace
  BY Zenon DEF Room, HasSpace
<1>3. ASSUME atomic, x.ptr # None PROVE home[u] = x.ptr /\ Add(x)
  BY Zenon, <1>1, <1>3 DEF Settled, Finish, CountOpen
<1>4. ASSUME atomic, x.ptr = None PROVE Insert(c, u)
  BY Zenon, <1>4 DEF Finish, CountOpen
<1>5. ASSUME ~atomic PROVE (x.ptr # None => x.found # None) /\ Update(c, u, PlusOne(x))
  BY Zenon, <1>5 DEF Finish, WriteBack
<1>6. ASSUME ~atomic
      PROVE /\ PlusOne(x) \in Nat /\ PlusOne(x) <= done + 1
            /\ u \notin raced /\ home[u] = None => PlusOne(x) = 1
            /\ u \notin raced /\ home[u] # None => PlusOne(x) = val[home[u]] + 1
  <2>1. x.found # None => x.found \in Nat /\ x.found <= done
    BY Zenon, <1>1 DEF NoneAbove
  <2>2. u \notin raced => x.ptr = home[u] /\ (x.found # None => x.found = val[home[u]])
    BY Zenon, <1>1 DEF OneProgram
  <2>3. x.ptr # None => x.found # None
    BY <1>5, <1>6
  <2>4. done \in Nat
    BY Zenon DEF Typed
  <2> HIDE DEF x, u
  <2> QED
    BY <2>1, <2>2, <2>3, <2>4 DEF PlusOne
<1>7. atomic /\ x.ptr = None =>
        \/ home[u] # None /\ UNCHANGED mapVars
        \/ home[u] = None /\ ~HasSpace /\ UNCHANGED mapVars
        \/ /\ home[u] = None /\ HasSpace
           /\ home' = [home EXCEPT ![u] = u] /\ val' = [val EXCEPT ![u] = 1] /\ UNCHANGED spare
  BY Zenon, <1>2, <1>4 DEF Insert, NewElement
<1>8. ~atomic =>
        \/ home[u] # None /\ Recycle(c, u, PlusOne(x))
        \/ home[u] = None /\ ~HasSpace /\ UNCHANGED mapVars
        \/ /\ home[u] = None /\ HasSpace
           /\ home' = [home EXCEPT ![u] = u] /\ val' = [val EXCEPT ![u] = PlusOne(x)] /\ UNCHANGED spare
  BY Zenon, <1>2, <1>5 DEF Update, NewElement
<1>9. 1 \in Nat /\ 1 <= done + 1
  BY DEF Typed
<1> HIDE DEF x, u
<1>10. CASE atomic
  BY Zenon, <1>1, <1>3, <1>7, <1>9, <1>10 DEF x, u
<1>11. CASE ~atomic
  BY Zenon, <1>1, <1>6, <1>8, <1>11 DEF x, u
<1> QED
  BY Zenon, <1>10, <1>11

\* How a program for u on c leaves the map: the other uids' counts are where and what
\* they were, and u's has been dealt with.
MapStep(c, u) ==
  /\ u \in Uids /\ In(c, u)
  /\ home' \in [Uids -> Elements \cup {None}] /\ val' \in [Elements -> Nat] /\ spare' \in [Cpus -> Elements]
  /\ Apart'
  /\ \A e \in Elements : val'[e] <= done + 1
  /\ \A v \in Uids \ {u} : home'[v] = home[v] /\ (home[v] # None => val'[home[v]] = val[home[v]])
  /\ home'[u] = None => home[u] = None /\ ~HasSpace
  /\ home[u] = None /\ home'[u] # None => HasSpace
  /\ atomic /\ home[u] # None => home'[u] = home[u]
  /\ atomic /\ home[u] = None /\ home'[u] # None => val'[home'[u]] = 1
  /\ atomic /\ home[u] # None =>
       val'[home'[u]] = IF at[c].ptr = None THEN val[home[u]] ELSE val[home[u]] + 1
  /\ u \notin raced /\ home'[u] # None => val'[home'[u]] = handled[u] + 1

LEMMA FinishMap ==
  ASSUME CountInv, NEW c \in Cpus, Finish(c), NEW u, u = at[c].uid
  PROVE  MapStep(c, u)
<1> USE CountersAssumption DEF CountInv
<1>1. u \in Uids /\ In(c, u)
  BY Zenon, FinishCases
<1>2. /\ u \notin raced /\ home[u] # None => val[home[u]] = handled[u]
      /\ u \notin raced /\ home[u] = None /\ HasSpace => handled[u] = 0
      /\ u \notin raced => at[c].ptr = home[u]
      /\ handled[u] \in Nat /\ done \in Nat /\ \A e \in Elements : val[e] \in Nat /\ val[e] <= done
      /\ u \in Elements /\ home[u] \in Elements \cup {None}
      /\ home \in [Uids -> Elements \cup {None}] /\ val \in [Elements -> Nat] /\ spare \in [Cpus -> Elements]
      /\ Apart /\ \A e \in Elements : val[e] <= done + 1
  BY <1>1 DEF CountExact, Value, TurnedAway, OneProgram, Typed, NoneAbove, Elements
<1>3. CASE atomic /\ at[c].ptr # None /\ home[u] = at[c].ptr /\ Add(at[c])
  <2>1. val' = [val EXCEPT ![home[u]] = @ + 1] /\ home' = home /\ spare' = spare /\ home[u] # None
    BY Zenon, <1>3 DEF Add
  <2>2. Apart'
    BY Zenon, <1>2, <2>1 DEF Apart
  <2>0. PICK m : m = val[home[u]] + 1
    BY Zenon
  <2>6. home[u] \in Elements /\ m \in Nat /\ m <= done + 1
    <3>1. home[u] \in Elements
      BY Zenon, <1>2, <2>1
    <3>2. val[home[u]] \in Nat /\ val[home[u]] <= done /\ done \in Nat
      BY Zenon, <1>2, <3>1
    <3> HIDE DEF CountInv
    <3> QED
      BY <2>0, <3>1, <3>2
  <2>3. val' \in [Elements -> Nat] /\ val'[home[u]] = val[home[u]] + 1
        /\ \A e \in Elements \ {home[u]} : val'[e] = val[e]
    BY Zenon, <1>2, <2>0, <2>1, <2>6
  <2>4. \A e \in Elements : val'[e] <= done + 1
    BY Zenon, <1>2, <2>0, <2>3, <2>6
  <2>5. ASSUME NEW v \in Uids \ {u}, home[v] # None PROVE val'[home[v]] = val[home[v]]
    <3>1. home[v] \in Elements
      BY Zenon, <1>2, <2>5
    <3>2. home[v] # home[u]
      BY Zenon, <1>1, <1>2, <2>5 DEF Apart
    <3> QED
      BY Zenon, <2>3, <3>1, <3>2
  <2> QED
    BY Zenon, <1>1, <1>2, <1>3, <2>1, <2>2, <2>3, <2>4, <2>5 DEF MapStep
<1>4. CASE atomic /\ at[c].ptr = None /\ home[u] # None /\ UNCHANGED mapVars
  <2>1. home' = home /\ val' = val /\ spare' = spare
    BY Zenon, <1>4 DEF mapVars
  <2>2. Apart'
    BY Zenon, <1>2, <2>1 DEF Apart
  <2> QED
    BY Zenon, <1>1, <1>2, <1>4, <2>1, <2>2 DEF MapStep
<1>5. CASE home[u] = None /\ ~HasSpace /\ UNCHANGED mapVars
  <2>1. home' = home /\ val' = val /\ spare' = spare
    BY Zenon, <1>5 DEF mapVars
  <2>2. Apart'
    BY Zenon, <1>2, <2>1 DEF Apart
  <2> QED
    BY Zenon, <1>1, <1>2, <1>5, <2>1, <2>2 DEF MapStep
<1>6. ASSUME NEW n \in Nat, home[u] = None, HasSpace, n <= done + 1, atomic => n = 1, u \notin raced => n = 1,
             home' = [home EXCEPT ![u] = u], val' = [val EXCEPT ![u] = n], spare' = spare
      PROVE  MapStep(c, u)
  <2>1. /\ home'[u] = u /\ home' \in [Uids -> Elements \cup {None}] /\ \A v \in Uids \ {u} : home'[v] = home[v]
        /\ val'[u] = n /\ val' \in [Elements -> Nat] /\ \A e \in Elements \ {u} : val'[e] = val[e]
        /\ u # None
    BY Zenon, <1>1, <1>2, <1>6
  <2>2. Apart'
    BY <1>1, <1>2, <1>6, <2>1 DEF Apart
  <2>3. \A e \in Elements : val'[e] <= done + 1
    BY Zenon, <1>2, <1>6, <2>1
  <2>4. ASSUME NEW v \in Uids \ {u}, home[v] # None PROVE val'[home[v]] = val[home[v]]
    <3>1. home[v] \in Elements
      BY Zenon, <1>2, <2>4
    <3>2. home[v] # u
      BY Zenon, <1>1, <1>2, <1>6, <2>4 DEF Apart
    <3> QED
      BY Zenon, <2>1, <3>1, <3>2
  <2>5. u \notin raced => val'[home'[u]] = handled[u] + 1
    BY <1>2, <1>6, <2>1
  <2> QED
    BY Zenon, <1>1, <1>2, <1>6, <2>1, <2>2, <2>3, <2>4, <2>5 DEF MapStep
<1>7. ASSUME NEW n \in Nat, ~atomic, home[u] # None, n <= done + 1, u \notin raced => n = val[home[u]] + 1,
             Recycle(c, u, n)
      PROVE  MapStep(c, u)
  <2>1. /\ home' = [home EXCEPT ![u] = spare[c]] /\ val' = [val EXCEPT ![spare[c]] = n]
        /\ spare' = [spare EXCEPT ![c] = home[u]]
    BY Zenon, <1>7 DEF Recycle
  <2>2. /\ spare[c] \in Elements /\ spare[c] # None
        /\ home'[u] = spare[c] /\ home' \in [Uids -> Elements \cup {None}] /\ \A v \in Uids \ {u} : home'[v] = home[v]
        /\ val'[spare[c]] = n /\ val' \in [Elements -> Nat] /\ \A e \in Elements \ {spare[c]} : val'[e] = val[e]
        /\ spare'[c] = home[u] /\ spare' \in [Cpus -> Elements] /\ \A d \in Cpus \ {c} : spare'[d] = spare[d]
    BY Zenon, <1>1, <1>2, <1>7, <2>1
  <2>3. Apart'
    <3> HIDE DEF CountInv
    <3>a. \A v, w \in Uids : home[v] # None /\ home[v] = home[w] => v = w
      BY Zenon, <1>2 DEF Apart
    <3>b. \A d, e \in Cpus : spare[d] = spare[e] => d = e
      BY Zenon, <1>2 DEF Apart
    <3>c. \A v \in Uids, d \in Cpus : home[v] # spare[d]
      BY Zenon, <1>2 DEF Apart
    <3>d. home'[u] = spare[c] /\ \A v \in Uids : v # u => home'[v] = home[v]
      BY Zenon, <2>2
    <3>e. spare'[c] = home[u] /\ \A d \in Cpus : d # c => spare'[d] = spare[d]
      BY Zenon, <2>2
    <3>1. \A v, w \in Uids : home'[v] # None /\ home'[v] = home'[w] => v = w
      BY <1>1, <3>a, <3>c, <3>d
    <3>2. \A d, e \in Cpus : spare'[d] = spare'[e] => d = e
      BY <1>1, <3>b, <3>c, <3>e
    <3>3. \A v \in Uids, d \in Cpus : home'[v] # spare'[d]
      <4> SUFFICES ASSUME NEW v \in Uids, NEW d \in Cpus PROVE home'[v] # spare'[d]
        BY Zenon
      <4>1. CASE v = u /\ d = c
        BY <1>1, <3>c, <3>d, <3>e, <4>1
      <4>2. CASE v = u /\ d # c
        BY Zenon, <3>b, <3>d, <3>e, <4>2
      <4>3. CASE v # u /\ d = c
        BY Zenon, <1>1, <1>7, <3>a, <3>d, <3>e, <4>3
      <4>4. CASE v # u /\ d # c
        BY Zenon, <3>c, <3>d, <3>e, <4>4
      <4> QED
        BY Zenon, <4>1, <4>2, <4>3, <4>4
    <3>4. ASSUME NEW v \in Uids, home'[v] = None
          PROVE  (\A w \in Uids : home'[w] # v) /\ (\A d \in Cpus : spare'[d] # v)
      <4>1. v # u /\ home[v] = None
        BY Zenon, <2>2, <3>4
      <4>2. (\A w \in Uids : home[w] # v) /\ (\A d \in Cpus : spare[d] # v)
        BY Zenon, <1>2, <4>1 DEF Apart
      <4> QED
        BY Zenon, <1>1, <2>2, <4>2
    <3> QED
      BY Zenon, <3>1, <3>2, <3>3, <3>4 DEF Apart
  <2>4. \A e \in Elements : val'[e] <= done + 1
    BY Zenon, <1>2, <1>7, <2>2
  <2>5. ASSUME NEW v \in Uids \ {u}, home[v] # None PROVE val'[home[v]] = val[home[v]]
    <3>1. home[v] \in Elements
      BY Zenon, <1>2, <2>5
    <3>2. home[v] # spare[c]
      BY Zenon, <1>2, <2>5 DEF Apart
    <3> QED
      BY Zenon, <2>2, <3>1, <3>2
  <2>6. u \notin raced => val'[home'[u]] = handled[u] + 1
    BY Zenon, <1>2, <1>7, <2>2
  <2> QED
    BY Zenon, <1>1, <1>2, <1>7, <2>2, <2>3, <2>4, <2>5, <2>6 DEF MapStep
<1> QED
  BY Zenon, <1>3, <1>4, <1>5, <1>6, <1>7, FinishCases

\* The program changes the map and ends.
LEMMA FinishKeeps ==
  ASSUME CountInv, NEW c \in Cpus, Finish(c)
  PROVE  CountInv'
<1> USE CountersAssumption DEF CountInv
<1>0. PICK u : u = at[c].uid
  BY Zenon
<1>1. /\ at[c] # None /\ handled' = [handled EXCEPT ![u] = @ + 1] /\ done' = done + 1
      /\ at' = [at EXCEPT ![c] = None] /\ UNCHANGED <<atomic, begun, raced>>
  BY Zenon, <1>0 DEF Finish
<1>2. MapStep(c, u)
  BY Zenon, <1>0, FinishMap
<1>3. u \in Uids /\ In(c, u)
  BY Zenon, <1>2 DEF MapStep
<1>4. /\ handled'[u] = handled[u] + 1 /\ handled[u] \in Nat /\ done \in Nat /\ at'[c] = None
      /\ \A v \in Uids \ {u} : handled'[v] = handled[v]
      /\ \A d \in Cpus \ {c} : at'[d] = at[d]
  BY Zenon, <1>1, <1>3 DEF Typed
<1>5. Typed'
  <2>1. home' \in [Uids -> Elements \cup {None}] /\ val' \in [Elements -> Nat] /\ spare' \in [Cpus -> Elements]
    BY Zenon, <1>2 DEF MapStep
  <2>2. handled' \in [Uids -> Nat] /\ done' \in Nat /\ at' \in [Cpus -> Frame \cup {None}]
    BY <1>1, <1>3 DEF Typed
  <2> QED
    BY Zenon, <1>1, <2>1, <2>2 DEF Typed, Elements, Frame
<1>6. \A v, d : d \in Cpus /\ In(d, v)' => d # c /\ In(d, v) /\ at'[d] = at[d]
  BY Zenon, <1>4 DEF In
<1>7. \A v \in Uids : home[v] # None => home'[v] # None
  BY Zenon, <1>2 DEF MapStep
<1>8. Settled'
  <2> SUFFICES ASSUME atomic, NEW d \in Cpus, NEW v \in Uids, In(d, v)', at'[d].ptr # None
               PROVE  home'[v] = at'[d].ptr
    BY Zenon, <1>1 DEF Settled
  <2>1. In(d, v) /\ at'[d] = at[d] /\ home[v] = at[d].ptr /\ home[v] # None
    BY Zenon, <1>6 DEF Settled
  <2> QED
    BY Zenon, <1>2, <2>1 DEF MapStep
<1>9. OneProgram'
  <2> SUFFICES ASSUME NEW v \in Uids \ raced, NEW d \in Cpus, In(d, v)'
               PROVE  /\ at'[d].ptr = home'[v]
                      /\ at'[d].found # None => at'[d].ptr # None /\ at'[d].found = val'[at'[d].ptr]
                      /\ \A e \in Cpus : In(e, v)' => e = d
    BY Zenon, <1>1 DEF OneProgram
  <2>1. d # c /\ In(d, v) /\ at'[d] = at[d]
    BY Zenon, <1>6
  <2>2. /\ at[d].ptr = home[v]
        /\ at[d].found # None => at[d].ptr # None /\ at[d].found = val[at[d].ptr]
        /\ \A e \in Cpus : In(e, v) => e = d
    BY Zenon, <2>1 DEF OneProgram
  <2>3. v # u
    BY Zenon, <1>3, <2>1, <2>2
  <2>4. home'[v] = home[v] /\ (home[v] # None => val'[home[v]] = val[home[v]])
    BY Zenon, <1>2, <2>3 DEF MapStep
  <2> QED
    BY Zenon, <1>6, <2>1, <2>2, <2>4
<1>10. NoneAbove'
  <2>1. \A e \in Elements : val'[e] <= done'
    BY Zenon, <1>1, <1>2 DEF MapStep
  <2>2. ASSUME NEW d \in Cpus, at'[d] # None, at'[d].found # None PROVE at'[d].found <= done'
    <3>1. at[d] # None /\ at'[d] = at[d] /\ at[d] \in Frame
      BY Zenon, <1>4, <2>2 DEF Typed
    <3>2. at[d].found <= done /\ at[d].found \in Nat
      BY <2>2, <3>1 DEF NoneAbove, Frame
    <3> QED
      BY <1>1, <1>4, <3>1, <3>2
  <2> QED
    BY Zenon, <2>1, <2>2 DEF NoneAbove, Elements
<1>11. ~HasSpace => ~HasSpace'
  <2> SUFFICES ASSUME ~HasSpace PROVE Entries' = Entries
    BY Zenon DEF HasSpace
  <2> QED
    BY <1>2, <1>3, <1>7 DEF MapStep, Entries
<1>12. TurnedAway'
  BY Zenon, <1>2, <1>3, <1>4, <1>11 DEF TurnedAway, MapStep
<1>13. \A v \in Uids \ {u} : Value(v)' = Value(v)
  BY Zenon, <1>2 DEF MapStep, Value
<1>14. /\ atomic /\ home[u] = None /\ home'[u] # None => Value(u)' = 1 /\ Value(u) = 0 /\ HasSpace
       /\ atomic /\ home[u] # None => Value(u)' = IF at[c].ptr = None THEN Value(u) ELSE Value(u) + 1
       /\ u \notin raced /\ home'[u] # None => Value(u)' = handled[u] + 1
       /\ home'[u] = None => Value(u)' = 0
  BY Zenon, <1>2, <1>7, <1>3 DEF MapStep, Value
<1>15. \A v \in Uids : Value(v) \in Nat
  BY Zenon, ValueNat
<1>16. AtMost'
  <2> SUFFICES ASSUME atomic, NEW v \in Uids PROVE Value(v)' <= handled'[v]
    BY Zenon, <1>1 DEF AtMost
  <2>1. CASE v # u
    BY Zenon, <1>4, <1>13, <2>1 DEF AtMost
  <2>2. CASE v = u
    <3>1. Value(u) <= handled[u] /\ Value(u) \in Nat
      BY Zenon, <1>3, <1>15 DEF AtMost
    <3>2. Value(u)' \in {0, 1, Value(u), Value(u) + 1}
      BY Zenon, <1>14
    <3> QED
      BY <1>4, <2>2, <3>1, <3>2
  <2> QED
    BY Zenon, <2>1, <2>2
<1>17. CountExact'
  BY Zenon, <1>1, <1>2, <1>4, <1>13, <1>14 DEF CountExact, MapStep
<1>18. LossBounded'
  <2> SUFFICES ASSUME atomic, NEW v \in Uids, home'[v] # None
               PROVE  handled'[v] + Cardinality(Inserting(v)') + 1 <= Value(v)' + Cardinality(Cpus)
    BY Zenon, <1>1 DEF LossBounded
  <2>1. CASE v # u
    <3>1. Inserting(v)' = Inserting(v)
      BY <1>3, <1>4, <2>1 DEF Inserting, In
    <3>2. home[v] # None
      BY Zenon, <1>2, <2>1 DEF MapStep
    <3> QED
      BY Zenon, <1>4, <1>13, <2>1, <3>1, <3>2 DEF LossBounded
  <2>2. CASE v = u
    <3>1. Inserting(v)' = Inserting(v) \ {c}
      BY <1>4 DEF Inserting, In
    <3>2. /\ IsFiniteSet(Inserting(v)) /\ Cardinality(Inserting(v)) \in Nat /\ Cardinality(Cpus) \in Nat
          /\ Cardinality(Inserting(v)) <= Cardinality(Cpus)
      BY Zenon, InsertingFinite
    <3>3. Cardinality(Inserting(v)') =
            IF c \in Inserting(v) THEN Cardinality(Inserting(v)) - 1 ELSE Cardinality(Inserting(v))
      BY Zenon, <3>1, <3>2, FS_RemoveElement
    <3>4. c \in Inserting(v) <=> at[c].ptr = None
      BY Zenon, <1>3, <2>2 DEF Inserting
    <3>5. CASE home[u] = None
      <4>1. at[c].ptr = None /\ handled[u] = 0 /\ Value(u)' = 1
        BY <1>3, <1>4, <1>14, <2>2, <3>5 DEF Settled, TurnedAway
      <4> QED
        BY <1>4, <2>2, <3>2, <3>3, <3>4, <4>1
    <3>6. CASE home[u] # None
      <4>1. Value(u) \in Nat /\ handled[u] + Cardinality(Inserting(v)) + 1 <= Value(u) + Cardinality(Cpus)
        BY Zenon, <1>3, <1>15, <2>2, <3>6 DEF LossBounded
      <4> QED
        BY <1>4, <1>14, <2>2, <3>2, <3>3, <3>4, <3>6, <4>1
    <3> QED
      BY Zenon, <3>5, <3>6
  <2> QED
    BY Zenon, <2>1, <2>2
<1>19. Apart'
  BY Zenon, <1>2 DEF MapStep
<1> QED
  BY Zenon, <1>5, <1>8, <1>9, <1>10, <1>12, <1>16, <1>17, <1>18, <1>19

-----------------------------------------------------------------------------
LEMMA CountInductive == Spec => []CountInv
<1>1. Init => CountInv
  <2> SUFFICES ASSUME Init PROVE CountInv
    BY Zenon
  <2>1. Typed /\ Apart
    BY CountersAssumption DEF Init, Typed, Apart, Elements
  <2>2. \A c \in Cpus, u \in Uids : ~In(c, u)
    BY Zenon DEF Init, In
  <2>3. Settled /\ OneProgram
    BY Zenon, <2>2 DEF Settled, OneProgram
  <2>4. NoneAbove /\ TurnedAway /\ LossBounded /\ AtMost /\ CountExact
    BY CountersAssumption DEF Init, NoneAbove, TurnedAway, LossBounded, AtMost, Value, CountExact, Elements
  <2> QED
    BY Zenon, <2>1, <2>3, <2>4 DEF CountInv
<1>2. CountInv /\ [Next]_vars => CountInv'
  <2>1. CASE UNCHANGED vars
    BY <2>1 DEF vars, mapVars, CountInv, Typed, Apart, Settled, OneProgram, In, NoneAbove, TurnedAway, HasSpace,
       Entries, LossBounded, Inserting, AtMost, Value, CountExact, Elements
  <2> QED
    BY Zenon, <2>1, LookupKeeps, ReadKeeps, FinishKeeps DEF Next
<1> QED
  BY <1>1, <1>2, PTL DEF Spec

\* In all three counters (hello(), count_exec() and count_open()) a uid whose
\* events are never handled at the same time is counted exactly, although the
\* elements behind stale pointers of other uids go on being recycled.
THEOREM CountsExact == Spec => []CountExact
<1>1. CountInv => CountExact
  BY Zenon DEF CountInv
<1> QED
  BY <1>1, CountInductive, PTL

\* In count_open() no event is counted twice, and a uid that has room in the map
\* loses at most one event per other CPU, however many events there are.  In hello()
\* and count_exec(), which read through pointers whose elements may have been
\* recycled, no count is higher than the events of all uids together.
THEOREM LossIsBounded == Spec => []CountBounded
<1>1. CountInv => CountBounded
  <2> SUFFICES ASSUME CountInv, NEW u \in Uids
               PROVE  /\ Value(u) <= done
                      /\ atomic => Value(u) <= handled[u]
                      /\ atomic /\ Room(u) /\ handled[u] > 0 => handled[u] + 1 <= Value(u) + Cardinality(Cpus)
    BY Zenon DEF CountBounded
  <2>1. Value(u) <= done
    BY CountersAssumption DEF CountInv, NoneAbove, Value, Typed
  <2>2. atomic => Value(u) <= handled[u]
    BY Zenon DEF CountInv, AtMost
  <2>3. ASSUME atomic, Room(u), handled[u] > 0 PROVE handled[u] + 1 <= Value(u) + Cardinality(Cpus)
    <3>1. home[u] # None
      BY Zenon, <2>3 DEF CountInv, TurnedAway, Room, HasSpace
    <3>2. handled[u] + Cardinality(Inserting(u)) + 1 <= Value(u) + Cardinality(Cpus)
      BY Zenon, <2>3, <3>1 DEF CountInv, LossBounded
    <3>3. handled[u] \in Nat /\ Value(u) \in Nat /\ Cardinality(Inserting(u)) \in Nat /\ Cardinality(Cpus) \in Nat
      BY Zenon, InsertingFinite, ValueNat DEF CountInv, Typed
    <3> QED
      BY <3>2, <3>3
  <2> QED
    BY Zenon, <2>1, <2>2, <2>3
<1> QED
  BY <1>1, CountInductive, PTL

\* The atomic add of count_open() never takes a count down and never loses an
\* entry, whatever the other CPUs do between its lookup and its add.
THEOREM CountsGrow == Spec => Cumulative
<1> DEFINE Grows == atomic => \A u \in Uids : home[u] # None => home'[u] # None /\ Value(u)' >= Value(u)
<1>1. CountInv /\ [Next]_vars => [Grows]_vars
  <2> SUFFICES ASSUME CountInv, Next, atomic, NEW v \in Uids, home[v] # None
               PROVE  home'[v] # None /\ Value(v)' >= Value(v)
    BY Zenon
  <2>1. Value(v) \in Nat
    BY Zenon, ValueNat DEF CountInv
  <2>2. ASSUME NEW c \in Cpus, NEW u \in Uids, Lookup(c, u) PROVE home' = home /\ Value(v)' = Value(v)
    BY Zenon, <2>2 DEF Lookup, mapVars, Value
  <2>3. ASSUME NEW c \in Cpus, Finish(c) PROVE home'[v] # None /\ Value(v)' \in {Value(v), Value(v) + 1}
    <3>1. PICK u : u = at[c].uid
      BY Zenon
    <3>2. MapStep(c, u)
      BY Zenon, <2>3, <3>1, FinishMap
    <3>3. CASE v = u
      BY Zenon, <3>2, <3>3 DEF MapStep, Value
    <3>4. CASE v # u
      BY Zenon, <3>2, <3>4 DEF MapStep, Value
    <3> QED
      BY Zenon, <3>3, <3>4
  <2>4. ASSUME NEW c \in Cpus, Read(c) PROVE FALSE
    BY Zenon, <2>4 DEF Read
  <2> QED
    BY <2>1, <2>2, <2>3, <2>4 DEF Next
<1> QED
  BY <1>1, CountInductive, PTL DEF Spec, Cumulative

-----------------------------------------------------------------------------
\* Why every tail call finds its handler.  dispatch() is attached only while both slots
\* hold their handlers, and a call counts once it is made: in counts, or as a program
\* under way.
Wired == jmp_table[0] = 0 /\ jmp_table[1] = 1
Under(s) == {c \in Cpus : progs[c] = s}
TailInv ==
  /\ T!TypeOK
  /\ linked => tailPc \in {"loop", "cleanup"}
  /\ tailPc = "root" => jmp_table[0] = 0
  /\ tailPc \in {"attach", "loop"} \/ linked => Wired
  /\ counts[2] = 0 /\ \A c \in Cpus : progs[c] # 2
  /\ \A s \in {0, 1} : counts[s] + Cardinality(Under(s)) = execs[s]

LEMMA Counters == T!IDX_USER = 0 /\ T!IDX_ROOT = 1 /\ T!IDX_MISS = 2 /\ None \notin {0, 1, 2}
BY CountersAssumption DEF T!IDX_USER, T!IDX_ROOT, T!IDX_MISS

LEMMA UnderFinite == \A s : IsFiniteSet(Under(s)) /\ Cardinality(Under(s)) \in Nat
<1> SUFFICES ASSUME NEW s PROVE IsFiniteSet(Under(s)) /\ Cardinality(Under(s)) \in Nat
  BY Zenon
<1>1. Under(s) \subseteq Cpus
  BY Zenon DEF Under
<1> QED
  BY Zenon, <1>1, CountersAssumption, FS_Subset, FS_CardinalityType

\* The steps of the loader.
LEMMA LoaderKeeps ==
  ASSUME TailInv, UNCHANGED <<progs, counts, execs>>,
         \/ T!Load \/ T!Wire(0, "user", "root") \/ T!Wire(1, "root", "attach")
         \/ T!AttachDispatch \/ T!Stop \/ T!Cleanup
  PROVE  TailInv'
<1> USE Counters
<1>1. Under(0)' = Under(0) /\ Under(1)' = Under(1)
  BY Zenon DEF Under
<1>2. \A s \in {0, 1} : counts'[s] + Cardinality(Under(s))' = execs'[s]
  BY Zenon, <1>1 DEF TailInv
<1>3. counts'[2] = 0 /\ \A c \in Cpus : progs'[c] # 2
  BY Zenon DEF TailInv
<1>4. CASE T!Load
  BY Zenon, <1>2, <1>3, <1>4 DEF TailInv, Wired, T!Load, T!TypeOK
<1>5. CASE T!Wire(0, "user", "root")
  BY Zenon, <1>2, <1>3, <1>5 DEF TailInv, Wired, T!Wire, T!Slot, T!Handler, T!TypeOK
<1>6. CASE T!Wire(1, "root", "attach")
  BY Zenon, <1>2, <1>3, <1>6 DEF TailInv, Wired, T!Wire, T!Slot, T!Handler, T!TypeOK
<1>7. CASE T!AttachDispatch
  BY Zenon, <1>2, <1>3, <1>7 DEF TailInv, Wired, T!AttachDispatch, T!TypeOK
<1>8. CASE T!Stop
  BY Zenon, <1>2, <1>3, <1>8 DEF TailInv, Wired, T!Stop, T!TypeOK
<1>9. CASE T!Cleanup
  <2>1. CASE linked
    BY Zenon, <1>2, <1>3, <1>9, <2>1 DEF TailInv, Wired, T!Cleanup, T!TypeOK
  <2>2. CASE ~linked
    <3>1. tailPc' = "exited" /\ jmp_table' = [s \in {0, 1} |-> None] /\ linked' = linked
      BY Zenon, <1>9, <2>2 DEF TailInv, T!Cleanup, T!TypeOK
    <3> QED
      BY Zenon, <1>2, <1>3, <2>2, <3>1 DEF TailInv, T!TypeOK
  <2> QED
    BY Zenon, <2>1, <2>2
<1> QED
  BY Zenon, <1>4, <1>5, <1>6, <1>7, <1>8, <1>9

LEMMA DispatchKeeps ==
  ASSUME TailInv, NEW c \in Cpus, NEW i \in {0, 1}, T!Dispatch(c, i)
  PROVE  TailInv'
<1> USE Counters
<1>1. /\ linked /\ progs[c] = None /\ execs' = [execs EXCEPT ![i] = @ + 1]
      /\ UNCHANGED <<tailPc, jmp_table, linked, counts>>
  BY Zenon DEF T!Dispatch
<1>2. progs' = [progs EXCEPT ![c] = i]
  BY Zenon, <1>1 DEF T!Dispatch, TailInv, Wired
<1>3. T!TypeOK'
  BY <1>1, <1>2 DEF TailInv, T!TypeOK
<1>4. \A d \in Cpus : progs'[d] = IF d = c THEN i ELSE progs[d]
  BY Zenon, <1>2 DEF TailInv, T!TypeOK
<1>5. ASSUME NEW s \in {0, 1} PROVE counts[s] + Cardinality(Under(s)') = execs'[s]
  <2>1. Under(s)' = IF s = i THEN Under(s) \cup {c} ELSE Under(s)
    BY Zenon, <1>1, <1>4 DEF Under
  <2>2. c \notin Under(s)
    BY Zenon, <1>1 DEF Under
  <2>3. Cardinality(Under(s)') = IF s = i THEN Cardinality(Under(s)) + 1 ELSE Cardinality(Under(s))
    BY Zenon, <2>1, <2>2, UnderFinite, FS_AddElement
  <2>4. execs'[s] = IF s = i THEN execs[s] + 1 ELSE execs[s]
    BY Zenon, <1>1 DEF TailInv, T!TypeOK
  <2>5. counts[s] \in Nat /\ execs[s] \in Nat /\ Cardinality(Under(s)) \in Nat
    BY Zenon, UnderFinite DEF TailInv, T!TypeOK
  <2>6. counts[s] + Cardinality(Under(s)) = execs[s]
    BY Zenon DEF TailInv
  <2> QED
    BY <2>3, <2>4, <2>5, <2>6
<1> QED
  BY <1>1, <1>3, <1>4, <1>5 DEF TailInv, Wired

LEMMA BumpKeeps ==
  ASSUME TailInv, NEW c \in Cpus, T!Bump(c)
  PROVE  TailInv'
<1> USE Counters
<1> DEFINE i == progs[c]
<1>1. /\ i \in {0, 1} /\ counts' = [counts EXCEPT ![i] = @ + 1] /\ progs' = [progs EXCEPT ![c] = None]
      /\ UNCHANGED <<tailPc, jmp_table, linked, execs>>
  BY Zenon DEF T!Bump, T!Index, TailInv, T!TypeOK
<1>2. T!TypeOK'
  BY <1>1 DEF TailInv, T!TypeOK
<1>3. \A d \in Cpus : progs'[d] = IF d = c THEN None ELSE progs[d]
  BY Zenon, <1>1 DEF TailInv, T!TypeOK
<1>4. ASSUME NEW s \in {0, 1} PROVE counts'[s] + Cardinality(Under(s)') = execs[s]
  <2>1. Under(s)' = Under(s) \ {c}
    BY Zenon, <1>3 DEF Under
  <2>2. c \in Under(s) <=> s = i
    BY Zenon DEF Under
  <2>3. Cardinality(Under(s)') = IF s = i THEN Cardinality(Under(s)) - 1 ELSE Cardinality(Under(s))
    BY Zenon, <2>1, <2>2, UnderFinite, FS_RemoveElement
  <2>4. counts'[s] = IF s = i THEN counts[s] + 1 ELSE counts[s]
    BY Zenon, <1>1 DEF TailInv, T!TypeOK
  <2>5. counts[s] \in Nat /\ execs[s] \in Nat /\ Cardinality(Under(s)) \in Nat
    BY Zenon, UnderFinite DEF TailInv, T!TypeOK
  <2>6. counts[s] + Cardinality(Under(s)) = execs[s]
    BY Zenon DEF TailInv
  <2> HIDE DEF i
  <2> QED
    BY <2>3, <2>4, <2>5, <2>6
<1>5. counts'[2] = 0
  BY Zenon, <1>1 DEF TailInv, T!TypeOK
<1> QED
  BY Zenon, <1>1, <1>2, <1>3, <1>4, <1>5 DEF TailInv, Wired

\* With both slots wired before dispatch() is attached, no tail call falls through and
\* each execve() is counted once, under the kind of its caller, on any number of CPUs.
THEOREM EveryCallTallied == T!Spec => []TailCallsTallied
<1>1. T!Init => TailInv
  <2> SUFFICES ASSUME T!Init PROVE TailInv
    BY Zenon
  <2>1. \A s \in {0, 1} : Under(s) = {}
    BY Zenon, Counters DEF T!Init, Under
  <2>2. \A s \in {0, 1} : Cardinality(Under(s)) = 0
    BY Zenon, <2>1, FS_EmptySet
  <2>3. T!TypeOK
    BY Zenon, Counters DEF T!Init, T!TypeOK
  <2> QED
    BY <2>2, <2>3, Counters DEF T!Init, TailInv, Wired
<1>2. TailInv /\ [T!Next]_(T!vars) => TailInv'
  <2> SUFFICES ASSUME TailInv, [T!Next]_(T!vars) PROVE TailInv'
    BY Zenon
  <2>1. CASE UNCHANGED T!vars
    <3>1. \A s : Under(s)' = Under(s)
      BY Zenon, <2>1 DEF T!vars, Under
    <3> QED
      BY Zenon, <2>1, <3>1 DEF T!vars, TailInv, Wired, T!TypeOK
  <2>2. CASE \/ T!Load \/ T!Wire(0, "user", "root") \/ T!Wire(1, "root", "attach")
             \/ T!AttachDispatch \/ T!Stop \/ T!Cleanup
    <3>1. UNCHANGED <<progs, counts, execs>>
      BY Zenon, <2>2 DEF T!Load, T!Wire, T!AttachDispatch, T!Stop, T!Cleanup, T!progVars
    <3> QED
      BY Zenon, <2>2, <3>1, LoaderKeeps
  <2>3. T!Next => \/ T!Load \/ T!Wire(0, "user", "root") \/ T!Wire(1, "root", "attach")
                  \/ T!AttachDispatch \/ T!Stop \/ T!Cleanup
                  \/ \E c \in Cpus : T!Bump(c) \/ \E i \in {0, 1} : T!Dispatch(c, i)
    BY Zenon, Counters DEF T!Next
  <2> QED
    BY Zenon, <2>1, <2>2, <2>3, DispatchKeeps, BumpKeeps
<1>3. TailInv => TailCallsTallied
  <2> SUFFICES ASSUME TailInv PROVE TailCallsTallied
    BY Zenon
  <2>1. ASSUME \A c \in Cpus : progs[c] = None, NEW s \in {0, 1} PROVE counts[s] = execs[s]
    <3>1. Under(s) = {}
      BY Zenon, <2>1, Counters DEF Under
    <3>2. Cardinality(Under(s)) = 0
      BY Zenon, <3>1, FS_EmptySet
    <3> QED
      BY <3>2, Counters DEF TailInv, T!TypeOK
  <2> QED
    BY Zenon, <2>1, Counters DEF TailInv, TailCallsTallied, T!Tallied
<1> QED
  BY <1>1, <1>2, <1>3, PTL DEF T!Spec

-----------------------------------------------------------------------------
\* Why no packet is recorded twice.  Before the filter is attached nothing is recorded,
\* so PACKET_IGNORE_OUTGOING, which is set then, holds for every record.
TapRecord == [key : Keys, at : I!Ifaces, ts : Nat, cpu : Cpus \cup {None}]
TapInv ==
  /\ ring \in Seq(TapRecord) /\ Len(ring) <= RingSize /\ taken \in Nat /\ pkts \in Nat /\ now \in Nat
  /\ tapPc \in {"load", "socket", "ignore", "attach"} => ring = <<>> /\ taken = 0
  /\ TappedOnce

LEMMA SameCount == \A S : I!Cardinality(S) = Cardinality(S)
BY Zenon DEF I!Cardinality, Cardinality

LEMMA OneCopy ==
  ASSUME NEW i, NEW dir \in {"outgoing", "host"}
  PROVE  /\ Cardinality(I!Seen(i, dir)) \in Nat
         /\ quiet => Cardinality(I!Seen(i, dir)) <= 1
<1>1. IsFiniteSet({"outgoing"}) /\ IsFiniteSet({"host"}) /\ Cardinality({"host"}) = 1
  BY Zenon, FS_Singleton
<1>2. IsFiniteSet({"outgoing"} \cup {"host"})
  BY Zenon, <1>1, FS_AddElement
<1>3. I!Seen(i, dir) \subseteq {"outgoing"} \cup {"host"}
  BY Zenon DEF I!Seen, I!Copies
<1>4. Cardinality(I!Seen(i, dir)) \in Nat
  BY Zenon, <1>2, <1>3, FS_Subset, FS_CardinalityType
<1>5. ASSUME quiet PROVE Cardinality(I!Seen(i, dir)) <= 1
  <2>1. I!Seen(i, dir) \subseteq {"host"}
    BY Zenon, <1>5 DEF I!Seen, I!Copies
  <2> QED
    BY Zenon, <1>1, <2>1, FS_Subset
<1> QED
  BY Zenon, <1>4, <1>5

LEMMA Concat ==
  ASSUME NEW S, NEW s \in Seq(S), NEW t \in Seq(S)
  PROVE  s \o t \in Seq(S) /\ Len(s \o t) = Len(s) + Len(t)
OBVIOUS

LEMMA ReserveKeeps ==
  ASSUME TapInv, NEW c \in Cpus, NEW k \in Keys, NEW i \in I!Ifaces, NEW dir \in {"outgoing", "host"},
         I!Reserve(c, k, i, dir)
  PROVE  TapInv'
<1> USE SmallToolsAssumption
<1> DEFINE room == RingSize - Len(ring)
           n    == Cardinality(I!Seen(i, dir))
           m    == IF n < room THEN n ELSE room
           r    == [key |-> k, at |-> i, ts |-> 0, cpu |-> c]
           new  == [j \in 1..m |-> r]
<1>1. /\ tapPc \notin {"load", "socket", "ignore", "attach"} /\ pkts' = pkts + 1
      /\ ring' = ring \o new /\ UNCHANGED <<tapPc, lo, quiet, taken, foreign, now>>
  <2>1. pkts' = pkts + 1 /\ UNCHANGED <<tapPc, lo, quiet, taken, foreign, now>>
    BY Zenon DEF I!Reserve, I!sockVars
  <2>2. tapPc \notin {"load", "socket", "ignore", "attach"}
    BY Zenon DEF I!Reserve, I!Tapping, I!Unbound, I!Bound
  <2>3. ring' = ring \o new
    BY SameCount, Zenon DEF I!Reserve
  <2> QED
    BY Zenon, <2>1, <2>2, <2>3
<1>2. Len(ring) \in Nat /\ Len(ring) <= RingSize /\ ring \in Seq(TapRecord)
  BY DEF TapInv
<1>3. n \in Nat /\ (quiet => n <= 1)
  BY Zenon, OneCopy
<1> HIDE DEF n
<1>4. m \in Nat /\ m <= n /\ Len(ring) + m <= RingSize
  BY <1>2, <1>3
<1>5. r \in TapRecord
  BY Zenon DEF TapRecord
<1> HIDE DEF m, r
<1>6. new \in Seq(TapRecord) /\ Len(new) = m
  BY <1>4, <1>5
<1> HIDE DEF new
<1>7. ring' \in Seq(TapRecord) /\ Len(ring') = Len(ring) + m
  BY Zenon, <1>1, <1>2, <1>6, Concat
<1>8. TappedOnce'
  <2> SUFFICES ASSUME quiet PROVE Len(ring') + taken <= pkts + 1
    BY Zenon, <1>1 DEF TappedOnce, I!OncePerPacket
  <2>1. Len(ring) + taken <= pkts /\ taken \in Nat /\ pkts \in Nat
    BY Zenon DEF TapInv, TappedOnce, I!OncePerPacket
  <2> QED
    BY <1>2, <1>3, <1>4, <1>7, <2>1
<1> QED
  BY <1>1, <1>4, <1>7, <1>8 DEF TapInv

LEMMA SubmitKeeps ==
  ASSUME TapInv, NEW c \in Cpus, I!Submit(c)
  PROVE  TapInv'
<1>1. PICK i \in DOMAIN ring : ring' = [ring EXCEPT ![i].ts = now, ![i].cpu = None]
  BY Zenon DEF I!Submit
<1>2. UNCHANGED <<tapPc, lo, quiet, taken, foreign, now, pkts>>
  BY Zenon DEF I!Submit, I!sockVars
<1>3. ring \in Seq(TapRecord) /\ now \in Nat /\ ring[i] \in TapRecord
  BY DEF TapInv
<1>4. [ring[i] EXCEPT !.ts = now, !.cpu = None] \in TapRecord
  BY Zenon, <1>3 DEF TapRecord
<1>5. ring' = [ring EXCEPT ![i] = [ring[i] EXCEPT !.ts = now, !.cpu = None]]
  BY Zenon, <1>1
<1>6. ring' \in Seq(TapRecord) /\ Len(ring') = Len(ring) /\ (ring = <<>> => ring' = <<>>)
  BY <1>3, <1>4, <1>5
<1> QED
  BY Zenon, <1>2, <1>6 DEF TapInv, TappedOnce, I!OncePerPacket

LEMMA TakeKeeps ==
  ASSUME TapInv, I!Take
  PROVE  TapInv'
<1>1. /\ tapPc = "poll" /\ ring # <<>> /\ ring' = Tail(ring) /\ taken' = taken + 1
      /\ UNCHANGED <<tapPc, quiet, now, pkts>>
  BY Zenon DEF I!Take
<1>2. ring \in Seq(TapRecord) /\ Len(ring) \in Nat /\ Len(ring) <= RingSize /\ taken \in Nat /\ pkts \in Nat
  BY DEF TapInv
<1>3. ring' \in Seq(TapRecord) /\ Len(ring') = Len(ring) - 1
  BY <1>1, <1>2
<1>4. TappedOnce'
  BY <1>1, <1>2, <1>3 DEF TapInv, TappedOnce, I!OncePerPacket
<1> QED
  BY <1>1, <1>2, <1>3, <1>4, SmallToolsAssumption DEF TapInv

\* The tap of ids records no packet twice once PACKET_IGNORE_OUTGOING is set, on lo or on
\* a NIC, with any number of CPUs in ids_tap() and any size of the ring buffer.
THEOREM EveryPacketTappedOnce == I!TapSpec => []TappedOnce
<1>1. I!TapInit => TapInv
  BY SmallToolsAssumption DEF I!TapInit, TapInv, TappedOnce, I!OncePerPacket
<1>2. TapInv /\ [I!TapStep \/ I!Take]_(I!tapVars) => TapInv'
  <2> SUFFICES ASSUME TapInv, [I!TapStep \/ I!Take]_(I!tapVars) PROVE TapInv'
    BY Zenon
  <2>1. CASE UNCHANGED I!tapVars
    BY Zenon, <2>1 DEF I!tapVars, TapInv, TappedOnce, I!OncePerPacket
  <2>2. CASE I!MainStep
    <3>1. CASE I!IgnoreOutgoing
      BY <3>1 DEF I!IgnoreOutgoing, TapInv, TappedOnce, I!OncePerPacket
    <3>2. CASE ~I!IgnoreOutgoing
      <4>1. UNCHANGED <<lo, quiet, taken, foreign, now, pkts, ring>>
        BY Zenon, <2>2, <3>2 DEF I!MainStep, I!Call, I!InstallHandlers, I!LeaveLoop, I!sockVars
      <4>2. tapPc' \in {"load", "socket", "ignore", "attach"} => tapPc \in {"load", "socket", "ignore", "attach"}
        BY Zenon, <2>2, <3>2 DEF I!MainStep, I!Call, I!InstallHandlers, I!LeaveLoop
      <4> QED
        BY Zenon, <4>1, <4>2 DEF TapInv, TappedOnce, I!OncePerPacket
    <3> QED
      BY Zenon, <3>1, <3>2
  <2>3. CASE I!Tick
    BY <2>3 DEF I!Tick, I!sockVars, TapInv, TappedOnce, I!OncePerPacket
  <2> QED
    BY Zenon, <2>1, <2>2, <2>3, ReserveKeeps, SubmitKeeps, TakeKeeps DEF I!TapStep
<1>3. TapInv => TappedOnce
  BY Zenon DEF TapInv
<1> QED
  BY <1>1, <1>2, <1>3, PTL DEF I!TapSpec

-----------------------------------------------------------------------------
\* Why the list is whole.  Reached is the id up to which the walk has come: everything
\* printed lies below it, and every steady task below it is printed.  The kernel counts
\* seq_num up with the first next(); until then the walk stands at its first task, and
\* two tasks that stay make sure there is a next one.
Reached == IF task = None THEN tid ELSE IF shown THEN task + 1 ELSE task
Listed(t) == \E i \in DOMAIN out : out[i] = t
Sorted == \A i, j \in DOMAIN out : i < j => out[i] < out[j]
FirstTask == /\ task = None => tid = 0
             /\ task # None => \A k \in Kept : task <= k
             /\ ~shown => out = <<>>
DumpTypes ==
  /\ exit \in {0, 1, None} /\ tid \in Nat /\ task \in Tids \cup {None} /\ num \in Nat /\ shown \in BOOLEAN
  /\ out \in Seq(Nat) /\ steady \subseteq alive /\ alive \subseteq Tids /\ Kept \subseteq alive
  /\ shown => task # None
DumpInv ==
  /\ DumpTypes
  /\ \A i \in DOMAIN out : out[i] < Reached
  /\ out # <<>> => out[1] = 0
  /\ Sorted
  /\ num = 0 => FirstTask
  /\ num > 0 \/ shown => out # <<>>
  /\ \A t \in steady : t < Reached => Listed(t)
  /\ exit = 0 => dumpPc = "exited" /\ \A t \in steady : Listed(t)

\* The kernel takes the first of the tasks to come.
LEMMA FirstFrom ==
  ASSUME alive \subseteq Nat, NEW t, D!From(t) # {}
  PROVE  /\ D!Min(D!From(t)) \in D!From(t)
         /\ \A x \in D!From(t) : D!Min(D!From(t)) <= x
<1>1. D!From(t) \subseteq Nat
  BY Zenon DEF D!From
<1>2. PICK m \in D!From(t) : \A y \in D!From(t) : <<y, m>> \notin OpToRel(<, Nat)
  BY Zenon, <1>1, NatLessThanWellFounded, WFMin
<1>3. ASSUME NEW y \in D!From(t) PROVE m <= y
  <2>1. ~(y < m)
    BY <1>1, <1>2, Zenon DEF OpToRel
  <2> QED
    BY <1>1, <2>1
<1> QED
  BY Zenon, <1>1, <1>3 DEF D!Min


\* The walk takes a task to visit next.
LEMMA HoldKeeps ==
  ASSUME DumpInv, NEW t \in Nat, NEW n \in Nat, D!From(t) # {}, D!Hold(t, n), t = Reached,
         UNCHANGED <<dumpPc, exit, out, alive, steady>>, dumpPc = "read",
         n > 0 => out # <<>>, n = 0 => task = None /\ num = 0
  PROVE  DumpInv'
<1> USE SmallToolsAssumption
<1> DEFINE m == D!Min(D!From(t))
<1>1. tid' = t /\ task' = m /\ num' = n /\ shown' = FALSE
  BY Zenon DEF D!Hold
<1>2. m \in D!From(t) /\ \A x \in D!From(t) : m <= x
  BY Zenon, FirstFrom DEF DumpInv, DumpTypes
<1> HIDE DEF m
<1>3. m \in alive /\ m \in Tids /\ m \in Nat /\ m >= t /\ \A x \in alive : x >= t => m <= x
  BY Zenon, <1>2 DEF D!From, DumpInv, DumpTypes
<1>4. task' # None /\ Reached' = m
  BY Zenon, <1>1, <1>3, CountersAssumption DEF Reached
<1>5. DumpTypes'
  BY Zenon, <1>1, <1>3, <1>4 DEF DumpInv, DumpTypes
<1>6. \A i \in DOMAIN out : out[i] < m
  BY <1>3 DEF DumpInv, DumpTypes
<1>7. n = 0 => FirstTask'
  <2> SUFFICES ASSUME n = 0 PROVE FirstTask'
    BY Zenon
  <2>1. tid = 0 /\ t = 0 /\ out = <<>>
    BY Zenon DEF DumpInv, DumpTypes, FirstTask, Reached
  <2>2. ASSUME NEW k \in Kept PROVE m <= k
    <3>1. k \in alive /\ k \in Nat
      BY Zenon DEF DumpInv, DumpTypes
    <3> QED
      BY <3>1, <2>1, <1>3
  <2> QED
    BY Zenon, <1>1, <1>4, <2>1, <2>2 DEF FirstTask
<1>8. ASSUME NEW x \in steady, x < m PROVE Listed(x)
  <2>1. x \in alive /\ x \in Nat
    BY Zenon DEF DumpInv, DumpTypes
  <2>2. x < t
    BY <2>1, <1>3, <1>8
  <2> QED
    BY Zenon, <2>2 DEF DumpInv
<1>9. exit # 0
  BY Zenon DEF DumpInv
<1> QED
  BY Zenon, <1>1, <1>4, <1>5, <1>6, <1>7, <1>8, <1>9 DEF DumpInv, Sorted, Listed

LEMMA TwoLines ==
  ASSUME NEW a \in Nat, NEW b \in Nat, NEW s, s = <<>> \o <<a>> \o <<b>>
  PROVE  s \in Seq(Nat) /\ DOMAIN s = {1, 2} /\ s[1] = a /\ s[2] = b
<1>1. <<>> \o <<a>> = <<a>>
  OBVIOUS
<1> DEFINE h == <<a>>
           l == <<b>>
<1>2. h \in Seq(Nat) /\ l \in Seq(Nat) /\ Len(h) = 1 /\ Len(l) = 1 /\ h[1] = a /\ l[1] = b
  OBVIOUS
<1>3. s = h \o l
  BY Zenon, <1>1
<1> HIDE DEF h, l
<1>4. s \in Seq(Nat) /\ Len(s) = 2 /\ s[1] = h[1] /\ s[2] = l[1]
  BY <1>2, <1>3
<1> QED
  BY <1>2, <1>4

LEMMA DumpTaskKeeps ==
  ASSUME DumpInv, D!dump_task
  PROVE  DumpInv'
<1> USE SmallToolsAssumption, CountersAssumption
<1>1. /\ dumpPc = "read" /\ task # None /\ ~shown /\ shown' = TRUE
      /\ out' = out \o (IF num = 0 THEN <<D!Header>> ELSE <<>>) \o <<task>>
      /\ UNCHANGED <<dumpPc, exit, tid, task, num, alive, steady>>
  BY Zenon DEF D!dump_task, D!taskVars
<1>2. task \in Tids /\ task \in Nat /\ task > 0 /\ Reached = task /\ Reached' = task + 1
  BY <1>1 DEF DumpInv, DumpTypes, Reached
<1>3. out \in Seq(Nat) /\ \A i \in DOMAIN out : out[i] < task
  BY Zenon, <1>2 DEF DumpInv, DumpTypes
<1>4. /\ out' \in Seq(Nat) /\ out' # <<>> /\ out'[1] = 0 /\ Sorted'
      /\ (\A i \in DOMAIN out' : out'[i] < task + 1) /\ (\E i \in DOMAIN out' : out'[i] = task)
      /\ \A x : Listed(x) => Listed(x)'
  <2>1. CASE num = 0
    <3>1. out = <<>>
      BY Zenon, <1>1, <2>1 DEF DumpInv, FirstTask
    <3>2. DOMAIN out' = {1, 2} /\ out'[1] = 0 /\ out'[2] = task /\ out' \in Seq(Nat) /\ out' # <<>>
      <4>1. D!Header \in Nat /\ D!Header = 0
        BY Zenon DEF D!Header
      <4>2. out' = <<>> \o <<D!Header>> \o <<task>>
        BY Zenon, <1>1, <2>1, <3>1
      <4> QED
        BY <1>2, <4>1, <4>2, TwoLines
    <3>3. Sorted'
      BY <1>2, <3>2 DEF Sorted
    <3>4. \A x : ~Listed(x)
      BY <3>1 DEF Listed
    <3> QED
      BY <1>2, <3>2, <3>3, <3>4
  <2>2. CASE num # 0
    <3>1. out # <<>> /\ out[1] = 0 /\ Sorted
      BY <2>2 DEF DumpInv, DumpTypes
    <3>2. out' = Append(out, task)
      BY <1>1, <1>2, <1>3, <2>2
    <3>3. out' \in Seq(Nat) /\ Len(out') = Len(out) + 1 /\ out'[Len(out) + 1] = task
          /\ \A i \in 1..Len(out) : out'[i] = out[i]
      BY <1>2, <1>3, <3>2
    <3>4. Len(out) \in Nat /\ Len(out) > 0 /\ DOMAIN out = 1..Len(out) /\ DOMAIN out' = 1..(Len(out) + 1)
      BY <1>3, <3>1, <3>3
    <3>5. out' # <<>> /\ out'[1] = 0 /\ (\E i \in DOMAIN out' : out'[i] = task)
      BY <3>1, <3>3, <3>4
    <3>6. \A i \in DOMAIN out' : out'[i] < task + 1
      <4> TAKE i \in DOMAIN out'
      <4>1. CASE i = Len(out) + 1
        BY <1>2, <3>3, <4>1
      <4>2. CASE i \in 1..Len(out)
        <5>1. out'[i] = out[i] /\ out[i] < task /\ out[i] \in Nat
          BY <1>3, <3>3, <3>4, <4>2
        <5> QED
          BY <1>2, <5>1
      <4> QED
        BY <3>4, <4>1, <4>2
    <3>7. Sorted'
      <4> SUFFICES ASSUME NEW i \in DOMAIN out', NEW j \in DOMAIN out', i < j PROVE out'[i] < out'[j]
        BY Zenon DEF Sorted
      <4>1. i \in 1..Len(out) /\ out'[i] = out[i]
        BY <3>3, <3>4
      <4>2. CASE j = Len(out) + 1
        BY Zenon, <1>3, <3>3, <3>4, <4>1, <4>2
      <4>3. CASE j \in 1..Len(out)
        BY Zenon, <3>1, <3>3, <3>4, <4>1, <4>3 DEF Sorted
      <4> QED
        BY <3>4, <4>2, <4>3
    <3>8. ASSUME NEW x, Listed(x) PROVE Listed(x)'
      BY <3>3, <3>4, <3>8 DEF Listed
    <3> QED
      BY Zenon, <3>3, <3>5, <3>6, <3>7, <3>8
  <2> QED
    BY Zenon, <2>1, <2>2
<1>5. ASSUME NEW x \in steady, x < task + 1 PROVE Listed(x)'
  <2>1. x \in Nat
    BY Zenon DEF DumpInv, DumpTypes
  <2>2. x = task \/ x < task
    BY <1>2, <1>5, <2>1
  <2> QED
    BY Zenon, <1>2, <1>4, <2>2 DEF DumpInv, Listed
<1>6. DumpTypes'
  BY Zenon, <1>1, <1>4 DEF DumpInv, DumpTypes
<1>7. num = 0 => FirstTask'
  BY Zenon, <1>1 DEF DumpInv, FirstTask
<1>8. exit # 0
  BY Zenon, <1>1 DEF DumpInv
<1> QED
  BY Zenon, <1>1, <1>2, <1>4, <1>5, <1>6, <1>7, <1>8 DEF DumpInv

LEMMA StartKeeps ==
  ASSUME DumpInv, D!Start
  PROVE  DumpInv'
<1> USE SmallToolsAssumption, CountersAssumption
<1>1. dumpPc = "read" /\ task = None /\ UNCHANGED <<out, alive, steady>> /\ Reached = tid /\ tid \in Nat /\ num \in Nat
  BY Zenon DEF D!Start, D!taskVars, Reached, DumpInv, DumpTypes
<1>2. CASE D!From(tid) # {}
  <2>1. D!Hold(tid, num) /\ UNCHANGED <<dumpPc, exit>>
    BY Zenon, <1>2 DEF D!Start
  <2>2. num > 0 => out # <<>>
    BY Zenon DEF DumpInv
  <2> QED
    BY Zenon, <1>1, <1>2, <2>1, <2>2, HoldKeeps
<1>3. CASE D!From(tid) = {}
  <2>1. dumpPc' = "exited" /\ exit' = 0 /\ UNCHANGED <<tid, task, num, shown>>
    BY Zenon, <1>3 DEF D!Start, D!Exit, D!ExitStatus
  <2>2. ASSUME NEW t \in steady PROVE Listed(t)
    <3>1. t \in alive /\ t \in Nat /\ ~(t >= tid)
      BY Zenon, <1>3 DEF D!From, DumpInv, DumpTypes
    <3> QED
      BY <1>1, <3>1 DEF DumpInv
  <2> QED
    BY Zenon, <1>1, <2>1, <2>2 DEF DumpInv, DumpTypes, Reached, Listed, Sorted, FirstTask
<1> QED
  BY Zenon, <1>2, <1>3

LEMMA NextTaskKeeps ==
  ASSUME DumpInv, D!NextTask
  PROVE  DumpInv'
<1> USE SmallToolsAssumption, CountersAssumption
<1>1. /\ dumpPc = "read" /\ shown /\ UNCHANGED <<dumpPc, exit, out, alive, steady>>
      /\ task # None /\ task \in Nat /\ Reached = task + 1 /\ num \in Nat /\ out # <<>>
  BY Zenon DEF D!NextTask, D!taskVars, Reached, DumpInv, DumpTypes
<1>2. CASE D!From(task + 1) # {}
  <2>1. D!Hold(task + 1, num + 1)
    BY Zenon, <1>2 DEF D!NextTask
  <2>2. num + 1 \in Nat /\ num + 1 # 0 /\ task + 1 \in Nat
    BY <1>1
  <2> QED
    BY Zenon, <1>1, <1>2, <2>1, <2>2, HoldKeeps
<1>3. CASE D!From(task + 1) = {}
  <2>1. tid' = task + 1 /\ task' = None /\ shown' = FALSE /\ num' = num
    BY Zenon, <1>3 DEF D!NextTask
  <2>2. Reached' = Reached
    BY Zenon, <1>1, <2>1 DEF Reached
  <2>3. num # 0
    <3> SUFFICES ASSUME num = 0 PROVE FALSE
      BY Zenon
    <3>1. PICK a \in Kept, b \in Kept : a # b
      BY Zenon
    <3>2. a \in alive /\ b \in alive /\ a \in Nat /\ b \in Nat /\ task <= a /\ task <= b
      BY Zenon, <1>1 DEF DumpInv, DumpTypes, FirstTask
    <3>3. a >= task + 1 \/ b >= task + 1
      BY <1>1, <3>1, <3>2
    <3> QED
      BY Zenon, <1>3, <3>2, <3>3 DEF D!From
  <2>4. DumpTypes'
    <3>1. tid' \in Nat
      BY <1>1, <2>1
    <3>2. task' \in Tids \cup {None} /\ num' \in Nat /\ shown' \in BOOLEAN /\ ~shown'
      BY <1>1, <2>1, Zenon
    <3> QED
      BY <1>1, <3>1, <3>2, Zenon DEF DumpInv, DumpTypes
  <2> QED
    BY Zenon, <1>1, <2>1, <2>2, <2>3, <2>4 DEF DumpInv, Listed, Sorted
<1> QED
  BY Zenon, <1>2, <1>3

LEMMA OtherDumpKeeps ==
  ASSUME DumpInv,
         \/ D!Call("load", "attach") \/ D!Call("attach", "create") \/ D!Call("create", "read")
         \/ D!ReadReturns \/ D!ReadFails \/ \E t \in Tids : D!Fork(t) \/ D!TaskExits(t)
  PROVE  DumpInv'
<1> USE SmallToolsAssumption, CountersAssumption
<1>1. CASE D!Call("load", "attach") \/ D!Call("attach", "create") \/ D!Call("create", "read") \/ D!ReadFails
  <2>1. UNCHANGED <<tid, task, num, shown, out, alive, steady>>
    BY Zenon, <1>1 DEF D!Call, D!ReadFails, D!walkVars, D!taskVars
  <2>2. exit # 0 /\ (exit' = exit \/ exit' = 1)
    BY Zenon, <1>1 DEF D!Call, D!ReadFails, D!Exit, D!ExitStatus, DumpInv
  <2>3. exit' # 0 /\ exit' \in {0, 1, None}
    BY <2>2 DEF DumpInv, DumpTypes
  <2> QED
    BY Zenon, <2>1, <2>3 DEF DumpInv, DumpTypes, Reached, Listed, Sorted, FirstTask
<1>2. CASE D!ReadReturns
  <2>1. /\ task # None /\ ~shown /\ num > 0 /\ task' = None /\ tid' = task
        /\ UNCHANGED <<dumpPc, exit, num, shown, out, alive, steady>>
    BY Zenon, <1>2 DEF D!ReadReturns, D!taskVars
  <2>2. Reached' = Reached
    BY Zenon, <2>1 DEF Reached
  <2>3. DumpTypes' /\ num # 0
    <3>1. task \in Nat /\ task \in Tids /\ num \in Nat
      BY <2>1 DEF DumpInv, DumpTypes
    <3>2. num # 0
      BY <2>1, <3>1
    <3> QED
      BY Zenon, <2>1, <3>1, <3>2 DEF DumpInv, DumpTypes
  <2> QED
    BY Zenon, <2>1, <2>2, <2>3 DEF DumpInv, Listed, Sorted
<1>3. ASSUME NEW t \in Tids, D!Fork(t) \/ D!TaskExits(t) PROVE DumpInv'
  <2>1. UNCHANGED <<dumpPc, exit, tid, task, num, shown, out>> /\ steady' \subseteq steady
    BY Zenon, <1>3 DEF D!Fork, D!TaskExits, D!walkVars
  <2>2. steady' \subseteq alive' /\ alive' \subseteq Tids /\ Kept \subseteq alive'
    BY Zenon, <1>3 DEF D!Fork, D!TaskExits, DumpInv, DumpTypes
  <2> QED
    BY Zenon, <2>1, <2>2 DEF DumpInv, DumpTypes, Reached, Listed, Sorted, FirstTask
<1> QED
  BY Zenon, <1>1, <1>2, <1>3

\* The task iterator of 22-iterator: main() exits with 0 only when every task that was
\* there throughout is on the list; the list has one header and no thread id twice, for
\* any tasks that start and exit meanwhile and however the read()s cut it up.
THEOREM ListIsWhole == D!Spec => []DumpWhole
<1> USE SmallToolsAssumption, CountersAssumption
<1>1. D!Init => DumpInv
  <2> SUFFICES ASSUME D!Init PROVE DumpInv
    BY Zenon
  <2>1. out = <<>> /\ Reached = 0 /\ num = 0 /\ task = None /\ tid = 0 /\ ~shown /\ shown \in BOOLEAN /\ exit = None
    BY Zenon DEF D!Init, Reached
  <2>2. DumpTypes /\ \A t \in steady : t \in Nat
    <3>1. steady \subseteq alive /\ alive \subseteq Tids /\ Kept \subseteq alive
      BY Zenon DEF D!Init
    <3>2. out \in Seq(Nat)
      BY <2>1
    <3> QED
      BY Zenon, <2>1, <3>1, <3>2 DEF DumpTypes
  <2>3. exit # 0
    BY <2>1
  <2> QED
    BY <2>1, <2>2, <2>3 DEF DumpInv, Sorted, FirstTask
<1>2. DumpInv /\ [D!Next]_(D!vars) => DumpInv'
  <2> SUFFICES ASSUME DumpInv, [D!Next]_(D!vars) PROVE DumpInv'
    BY Zenon
  <2>1. CASE UNCHANGED D!vars
    BY Zenon, <2>1 DEF D!vars, DumpInv, DumpTypes, Reached, Listed, Sorted, FirstTask
  <2> QED
    BY ZenonT(30), <2>1, StartKeeps, NextTaskKeeps, DumpTaskKeeps, OtherDumpKeeps DEF D!Next
<1>3. DumpInv => DumpWhole
  BY Zenon DEF DumpInv, DumpWhole, D!DumpComplete, D!Header, Listed, Sorted
<1> QED
  BY <1>1, <1>2, <1>3, PTL DEF D!Spec

-----------------------------------------------------------------------------
\* Why -c is kept.  Inside the loop fewer frames than asked for have been printed; the
\* loop is left without a signal only when the last one is; and after a frame that
\* came too late main() goes on to the test of the flag.
Counted == limit # 0 => samples <= limit /\ frames = samples
MainInv ==
  /\ limit \in Counts /\ top \in Tops /\ exiting \in BOOLEAN /\ samples \in Nat /\ frames \in Nat
  /\ Counted
  /\ limit # 0 /\ mainPc \in M!SetUp \cup M!Loop => samples < limit
  /\ ~exiting /\ (mainPc = "cleanup" \/ status = "ok") => limit # 0 /\ samples = limit
  /\ status = "ok" => mainPc = "exited"
  /\ late = 0 \/ (late = 1 /\ exiting /\ mainPc \in {"check", "cleanup", "exited"})
  /\ frame # None => frame.lines + frame.more = frame.rows

LEMMA FrameWhole ==
  ASSUME NEW n \in Nat, top \in Nat
  PROVE  M!print_sample(n).lines + M!print_sample(n).more = M!print_sample(n).rows
BY DEF M!print_sample

LEMMA SampleKeeps ==
  ASSUME MainInv, NEW n \in 0 .. MaxRows, M!Sample(n)
  PROVE  MainInv'
<1> USE SmallToolsAssumption
<1>1. /\ mainPc = "sample" /\ UNCHANGED <<limit, top, exiting, status>>
      /\ samples' = IF limit # 0 THEN samples + 1 ELSE samples
      /\ mainPc' = IF limit # 0 /\ samples + 1 >= limit THEN "cleanup" ELSE "check"
      /\ frames' = IF frames < MaxFrames THEN frames + 1 ELSE frames
      /\ late' = IF exiting THEN (IF late < MaxFrames THEN late + 1 ELSE late) ELSE late
      /\ frame' = M!print_sample(n)
  BY Zenon DEF M!Sample, M!env, M!Enough, M!Another
<1>2. limit \in Nat /\ limit <= MaxFrames /\ samples \in Nat /\ frames \in Nat /\ top \in Nat
  BY DEF MainInv
<1>3. limit # 0 => samples < limit /\ frames = samples
  BY Zenon, <1>1 DEF MainInv, Counted, M!Loop
<1>4. samples' \in Nat /\ frames' \in Nat /\ Counted'
  BY <1>1, <1>2, <1>3 DEF Counted
<1>5. limit # 0 /\ mainPc' # "cleanup" => samples' < limit
  BY <1>1, <1>2
<1>6. mainPc' = "cleanup" => limit # 0 /\ samples' = limit
  BY <1>1, <1>2, <1>3
<1>7. frame'.lines + frame'.more = frame'.rows
  BY <1>1, <1>2, FrameWhole
<1>8. late = 0 /\ status # "ok"
  BY Zenon, <1>1 DEF MainInv
<1>9. late' = 0 \/ (late' = 1 /\ exiting)
  BY <1>1, <1>8
<1> QED
  BY ZenonT(30), <1>1, <1>4, <1>5, <1>6, <1>7, <1>8, <1>9 DEF MainInv, M!SetUp, M!Loop

\* The steps that print nothing.
LEMMA QuietKeeps ==
  ASSUME MainInv,
         \/ M!ParseArgs \/ M!SignalHandlers \/ M!Call("calloc", "load") \/ M!Call("load", "attach")
         \/ M!Call("attach", "prime") \/ M!Prime \/ M!Check \/ M!Sleep \/ M!WakeUp \/ M!Cleanup \/ M!Signal
  PROVE  MainInv'
<1>1. UNCHANGED <<limit, top, samples, frame, frames, late>>
  BY Zenon DEF M!ParseArgs, M!SignalHandlers, M!Call, M!Prime, M!Check, M!Sleep, M!WakeUp, M!Cleanup, M!Signal,
     M!env, M!shownVars
<1>2. Counted'
  BY Zenon, <1>1 DEF MainInv, Counted
<1>3. CASE M!Signal
  BY Zenon, <1>1, <1>2, <1>3 DEF MainInv, M!Signal, M!Exit, M!SetUp, M!Loop
<1>4. CASE M!ParseArgs \/ M!Call("calloc", "load") \/ M!Call("load", "attach") \/ M!Call("attach", "prime")
  BY Zenon, <1>1, <1>2, <1>4 DEF MainInv, M!ParseArgs, M!Call, M!Exit, M!SetUp, M!Loop
<1>5. CASE M!SignalHandlers \/ M!Prime \/ M!Check \/ M!Sleep \/ M!WakeUp
  BY Zenon, <1>1, <1>2, <1>5 DEF MainInv, M!SignalHandlers, M!Prime, M!Check, M!Sleep, M!WakeUp, M!SetUp, M!Loop
<1>6. CASE M!Cleanup
  BY ZenonT(30), <1>1, <1>2, <1>6 DEF MainInv, M!Cleanup, M!Exit, M!SetUp, M!Loop
<1> QED
  BY Zenon, <1>3, <1>4, <1>5, <1>6

\* nettop -c N prints N frames, fewer only after a signal; after the signal comes at most
\* one frame; and a frame's lines and its "... more" account for every row.
THEOREM FramesKept == M!Spec => []NetTopFrames
<1>1. M!Init => MainInv
  <2> SUFFICES ASSUME M!Init PROVE MainInv
    BY Zenon
  <2>1. limit \in Counts /\ limit \in Nat /\ samples = 0 /\ frames = 0 /\ late = 0 /\ frame = None
    BY SmallToolsAssumption DEF M!Init
  <2>2. mainPc = "args" /\ status # "ok" /\ top \in Tops /\ exiting = FALSE
    BY Zenon, SmallToolsAssumption DEF M!Init
  <2>3. Counted /\ samples \in Nat /\ frames \in Nat /\ (limit # 0 => samples < limit)
    BY <2>1 DEF Counted
  <2> QED
    BY Zenon, <2>1, <2>2, <2>3 DEF MainInv
<1>2. MainInv /\ [M!Next]_(M!vars) => MainInv'
  <2> SUFFICES ASSUME MainInv, [M!Next]_(M!vars) PROVE MainInv'
    BY Zenon
  <2>1. CASE UNCHANGED M!vars
    BY Zenon, <2>1 DEF M!vars, MainInv, Counted
  <2>2. M!Next =>
               \/ M!ParseArgs \/ M!SignalHandlers \/ M!Call("calloc", "load") \/ M!Call("load", "attach")
               \/ M!Call("attach", "prime") \/ M!Prime \/ M!Check \/ M!Sleep \/ M!WakeUp \/ M!Cleanup
               \/ M!Signal \/ \E n \in 0 .. MaxRows : M!Sample(n)
    BY Zenon DEF M!Next
  <2> QED
    BY ZenonT(30), <2>1, <2>2, QuietKeeps, SampleKeeps
<1>3. MainInv => NetTopFrames
  <2> SUFFICES ASSUME MainInv PROVE M!FramesAsAsked
    BY Zenon DEF NetTopFrames
  <2>1. limit \in Nat /\ samples \in Nat
    BY SmallToolsAssumption DEF MainInv
  <2> QED
    BY <2>1 DEF MainInv, Counted, M!FramesAsAsked
<1> QED
  BY <1>1, <1>2, <1>3, PTL DEF M!Spec

-----------------------------------------------------------------------------
\* What the run checks is an implementation of every part: a behaviour of the six
\* together is, seen through one part's variables, a behaviour of that part.
LEMMA PartsStart == ToolsInit => Init /\ T!Init /\ I!TapInit /\ D!Init /\ V!Init /\ M!Init
BY Zenon DEF ToolsInit

LEMMA PartsStep ==
  ASSUME ToolsNext \/ UNCHANGED allVars
  PROVE  /\ [Next]_vars /\ [T!Next]_(T!vars) /\ [I!TapStep \/ I!Take]_(I!tapVars)
         /\ [D!Next]_(D!vars) /\ [V!Next]_(V!vars) /\ [M!Next]_(M!vars)
<1>1. vars' = vars \/ Next
  BY Zenon DEF ToolsNext, Counting, Calling, Tapping, Dumping, Teaching, Showing, allVars
<1>2. tailVars' = tailVars \/ T!Next
  BY Zenon DEF ToolsNext, Counting, Calling, Tapping, Dumping, Teaching, Showing, allVars
<1>3. tapVars' = tapVars \/ I!TapStep \/ I!Take
  BY Zenon DEF ToolsNext, Counting, Calling, Tapping, Dumping, Teaching, Showing, allVars
<1>4. dumpVars' = dumpVars \/ D!Next
  BY Zenon DEF ToolsNext, Counting, Calling, Tapping, Dumping, Teaching, Showing, allVars
<1>5. mainVars' = mainVars \/ M!Next
  BY Zenon DEF ToolsNext, Counting, Calling, Tapping, Dumping, Teaching, Showing, allVars
<1>6. lessonVars' = lessonVars \/ V!Next
  BY Zenon DEF ToolsNext, Counting, Calling, Tapping, Dumping, Teaching, Showing, allVars
<1>7. /\ tailVars' = tailVars => T!vars' = T!vars
      /\ tapVars' = tapVars => I!tapVars' = I!tapVars
      /\ dumpVars' = dumpVars => D!vars' = D!vars
      /\ lessonVars' = lessonVars => V!vars' = V!vars
      /\ mainVars' = mainVars => M!vars' = M!vars
  BY Zenon DEF tailVars, tapVars, dumpVars, lessonVars, mainVars,
               T!vars, I!tapVars, I!sockVars, D!vars, V!vars, M!vars
<1> QED
  BY ZenonT(30), <1>1, <1>2, <1>3, <1>4, <1>5, <1>6, <1>7

\* The six tools of the run side by side implement each of them by itself (the programs
\* share no map, ring or file), so what is proved of one holds in the composition.
THEOREM ToolsImplementEach ==
  ToolsSpec => Spec /\ T!Spec /\ I!TapSpec /\ D!Spec /\ V!Spec /\ M!Spec
BY PartsStart, PartsStep, PTL DEF ToolsSpec, Spec, T!Spec, I!TapSpec, D!Spec, V!Spec, M!Spec
=============================================================================
