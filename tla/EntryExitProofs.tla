--------------------------- MODULE EntryExitProofs ---------------------------
(***************************************************************************)
(* Proofs about EntryExit, for any number of processes and threads and any *)
(* sizes of the stash and the ring.                                        *)
(***************************************************************************)
EXTENDS EntryExit, TLAPS

Typed ==
  /\ hooks \in 0..2 /\ calls \in Nat /\ call \in [Threads -> Call \cup {None}]
  /\ stash \in [Pids -> Elems \cup {None}] /\ elem \in [Elems -> Value \cup {None}]
  /\ held \in [Threads -> Elems \cup {None}] /\ ring \in Seq(Event)
  /\ missed \subseteq Pids /\ shared \subseteq Pids /\ robbed \subseteq Threads
  /\ tool \in {"opensnoop", "netsnoop"}

InCall(t) == call[t] # None

\* Elements in use have been written.
Written ==
  /\ \A p \in Pids : stash[p] # None => elem[stash[p]] \in Value
  /\ \A t \in Threads : held[t] # None => elem[held[t]] \in Value

\* Only a call under way has an element in its hands, and before the enter program is
\* attached there is none in the stash.
HeldInCall ==
  /\ \A t \in Threads : held[t] # None => InCall(t)
  /\ hooks = 0 => \A p \in Pids : stash[p] = None

\* A process that is not shared has one thread in the call.
OneThread ==
  \A t, u \in Threads : InCall(t) /\ InCall(u) /\ PidOf[t] = PidOf[u] /\ t # u => PidOf[t] \in shared

\* While a call of such a process is under way its arguments stay in the stash if they
\* were put there, nothing is under the pid if opensnoop found no room for them, and
\* what the exit program holds is what is in the stash.
StashOfCall ==
  \A t \in Threads : InCall(t) /\ PidOf[t] \notin shared =>
    /\ call[t].stashed => stash[PidOf[t]] # None /\ elem[stash[PidOf[t]]].id = call[t].id
    /\ tool = "opensnoop" /\ ~call[t].stashed => stash[PidOf[t]] = None
    /\ held[t] # None => held[t] = stash[PidOf[t]]

\* So does the entry of a call that no other thread of its process has taken.
EntryKept ==
  \A t \in Threads : InCall(t) /\ call[t].stashed /\ t \notin robbed => stash[PidOf[t]] # None

\* A thread outside the call has lost nothing.
RobbedInCall == \A t \in robbed : InCall(t)

StashInv ==
  /\ Typed /\ Written /\ HeldInCall /\ OneThread /\ StashOfCall /\ EntryKept /\ RobbedInCall
  /\ OwnArgs /\ NeverSilent /\ NoLeak

-----------------------------------------------------------------------------
\* trace_enter() and the system call it runs in.
LEMMA EnterKeeps ==
  ASSUME StashInv, NEW t \in Threads, NEW a \in Args, NEW whole \in BOOLEAN, TraceEnter(t, a, whole)
  PROVE  StashInv'
<1> USE EntryExitAssumption, NoneAssumption DEF StashInv, Key
<1> DEFINE p   == PidOf[t]
           put == hooks > 0 /\ Store(a, whole) /\ HasRoom(p)
           new == [id |-> calls, arg |-> a, stashed |-> put]
           val == [arg |-> a, id |-> calls, pid |-> p]
<1>1. /\ call[t] = None /\ calls' = calls + 1 /\ call' = [call EXCEPT ![t] = new]
      /\ IF put THEN Update(p, val) ELSE UNCHANGED stashVars
      /\ shared' = shared \cup {PidOf[u] : u \in Siblings(t)}
      /\ UNCHANGED <<tool, hooks, held, ring, missed, robbed, silent>>
  BY Zenon DEF TraceEnter
<1>2. p \in Pids /\ calls \in Nat /\ put \in BOOLEAN
  BY Zenon DEF Typed
<1>3. new \in Call /\ new.id = calls /\ new.stashed = put
  BY Zenon, <1>2 DEF Call
<1>4. val \in Value /\ val.id = calls
  BY Zenon, <1>2 DEF Value
<1> HIDE DEF new, val, put
<1>5. /\ call' \in [Threads -> Call \cup {None}] /\ call'[t] = new /\ new # None
      /\ \A u \in Threads \ {t} : call'[u] = call[u]
  BY Zenon, <1>1, <1>3 DEF Typed
<1>6. /\ shared \subseteq shared' /\ shared' \subseteq Pids
      /\ \A u \in Threads \ {t} : PidOf[u] = p /\ call[u] # None => p \in shared'
  BY <1>1 DEF Typed, Siblings
<1>7. ~put => stash' = stash /\ elem' = elem
  BY Zenon, <1>1 DEF stashVars
<1>8. ASSUME put
      PROVE  \E e \in Elems : /\ stash' = [stash EXCEPT ![p] = e] /\ elem' = [elem EXCEPT ![e] = val]
                              /\ \A q \in Pids : stash[q] # e
  BY Zenon, <1>1, <1>8 DEF Update, FreeElems, Keys
<1>9. /\ stash' \in [Pids -> Elems \cup {None}] /\ elem' \in [Elems -> Value \cup {None}]
      /\ \A q \in Pids \ {p} : stash'[q] = stash[q] /\ (stash[q] # None => elem'[stash[q]] = elem[stash[q]])
      /\ \A e \in Elems : elem[e] \in Value => elem'[e] \in Value
  BY <1>2, <1>4, <1>7, <1>8 DEF Typed
<1>10. put => stash'[p] # None /\ elem'[stash'[p]] = val
  BY <1>2, <1>4, <1>8 DEF Typed
<1>11. Typed'
  BY <1>1, <1>2, <1>5, <1>6, <1>9 DEF Typed
<1>12. Written'
  BY <1>1, <1>4, <1>7, <1>9, <1>10 DEF Written, Typed
<1>13. HeldInCall'
  BY <1>1, <1>5, <1>7 DEF HeldInCall, InCall, put
<1>14. OneThread'
  BY <1>1, <1>5, <1>6 DEF OneThread, InCall
<1>15. StashOfCall'
  <2> SUFFICES ASSUME NEW u \in Threads, InCall(u)', PidOf[u] \notin shared'
               PROVE  /\ call'[u].stashed => stash'[PidOf[u]] # None /\ elem'[stash'[PidOf[u]]].id = call'[u].id
                      /\ tool = "opensnoop" /\ ~call'[u].stashed => stash'[PidOf[u]] = None
                      /\ held[u] # None => held[u] = stash'[PidOf[u]]
    BY Zenon, <1>1 DEF StashOfCall
  <2>1. CASE u = t
    <3>1. held[u] = None
      BY Zenon, <1>1, <2>1 DEF HeldInCall, InCall
    <3>2. tool = "opensnoop" /\ ~put => stash'[p] = None
      BY <1>2, <1>7 DEF put, Store, HasRoom, HeldInCall, Typed
    <3> QED
      BY Zenon, <1>3, <1>4, <1>5, <1>10, <2>1, <3>1, <3>2
  <2>2. CASE u # t
    <3>1. call'[u] = call[u] /\ InCall(u) /\ PidOf[u] \notin shared /\ PidOf[u] \in Pids \ {p}
      BY <1>5, <1>6, <2>2 DEF InCall
    <3> QED
      BY <1>9, <3>1 DEF StashOfCall
  <2> QED
    BY Zenon, <2>1, <2>2
<1>16. OwnArgs' /\ NeverSilent'
  BY Zenon, <1>1, <1>6 DEF OwnArgs, NeverSilent
<1>17. NoLeak'
  BY Zenon, <1>1, <1>5, <1>9 DEF NoLeak, Keys
<1>18. EntryKept'
  BY <1>1, <1>2, <1>3, <1>5, <1>7, <1>9, <1>10 DEF EntryKept, InCall
<1>19. RobbedInCall'
  BY Zenon, <1>1, <1>5 DEF RobbedInCall, InCall, Typed
<1> QED
  BY Zenon, <1>11, <1>12, <1>13, <1>14, <1>15, <1>16, <1>17, <1>18, <1>19

\* A call that ends unseen: its process is killed, or trace_exit() is not attached yet.
LEMMA LeaveKeeps ==
  ASSUME StashInv, NEW t \in Threads, LeaveUnseen(t)
  PROVE  StashInv'
<1> USE EntryExitAssumption DEF StashInv, Key
<1>1. /\ held[t] = None /\ call' = [call EXCEPT ![t] = None] /\ missed' = missed \cup {PidOf[t]}
      /\ robbed' = robbed \ {t}
      /\ UNCHANGED <<tool, hooks, calls, stash, elem, held, ring, shared, silent>>
  BY Zenon DEF LeaveUnseen
<1>2. call'[t] = None /\ \A u \in Threads \ {t} : call'[u] = call[u]
  BY Zenon, <1>1 DEF Typed
<1>3. Typed'
  BY Zenon, <1>1 DEF Typed
<1>4. Written' /\ HeldInCall' /\ OneThread'
  BY Zenon, <1>1, <1>2 DEF Written, HeldInCall, OneThread, InCall
<1>5. StashOfCall'
  BY <1>1, <1>2 DEF StashOfCall, InCall
<1>6. OwnArgs' /\ NeverSilent'
  BY Zenon, <1>1 DEF OwnArgs, NeverSilent
<1>7. NoLeak'
  BY <1>1, <1>2 DEF NoLeak, Keys
<1>8. EntryKept' /\ RobbedInCall'
  BY Zenon, <1>1, <1>2 DEF EntryKept, RobbedInCall, InCall, Typed
<1> QED
  BY Zenon, <1>3, <1>4, <1>5, <1>6, <1>7, <1>8

\* trace_exit() up to the lookup.
LEMMA LookupKeeps ==
  ASSUME StashInv, NEW t \in Threads, ExitLookup(t)
  PROVE  StashInv'
<1> USE EntryExitAssumption DEF StashInv, Key
<1>1. /\ call[t] # None /\ held' = [held EXCEPT ![t] = stash[PidOf[t]]] /\ hooks = 2
      /\ call' = (IF stash[PidOf[t]] = None THEN [call EXCEPT ![t] = None] ELSE call)
      /\ robbed' = (IF stash[PidOf[t]] = None THEN robbed \ {t} ELSE robbed)
      /\ silent' = silent \cup (IF stash[PidOf[t]] = None /\ call[t].stashed /\ t \notin robbed THEN {t} ELSE {})
      /\ UNCHANGED <<tool, hooks, calls, stash, elem, ring, missed, shared>>
  BY Zenon DEF ExitLookup
<1>2. PidOf[t] \in Pids /\ \A u \in Threads \ {t} : call'[u] = call[u] /\ held'[u] = held[u]
  BY Zenon, <1>1 DEF Typed
<1>3. /\ held'[t] = stash[PidOf[t]] /\ call'[t] = (IF stash[PidOf[t]] = None THEN None ELSE call[t])
  BY Zenon, <1>1 DEF Typed
<1>4. Typed'
  BY Zenon, <1>1, <1>2 DEF Typed
<1>5. Written' /\ HeldInCall' /\ OneThread'
  BY <1>1, <1>2, <1>3 DEF Written, HeldInCall, OneThread, InCall
<1>6. StashOfCall'
  BY <1>1, <1>2, <1>3 DEF StashOfCall, InCall
<1>7. NeverSilent'
  BY Zenon, <1>1 DEF NeverSilent, EntryKept, InCall
<1>8. OwnArgs'
  BY Zenon, <1>1 DEF OwnArgs
<1>9. NoLeak'
  BY <1>1, <1>2, <1>3 DEF NoLeak, Keys
<1>10. EntryKept' /\ RobbedInCall'
  BY Zenon, <1>1, <1>2, <1>3 DEF EntryKept, RobbedInCall, InCall, Typed
<1> QED
  BY Zenon, <1>4, <1>5, <1>6, <1>7, <1>8, <1>9, <1>10

\* The rest of trace_exit(): the record, and the delete.
LEMMA EmitKeeps ==
  ASSUME StashInv, NEW t \in Threads, ExitEmit(t)
  PROVE  StashInv'
<1> USE EntryExitAssumption DEF StashInv, Key
<1> DEFINE p == PidOf[t]
           e == [pid |-> p, val |-> elem[held[t]], call |-> call[t]]
<1>1. /\ held[t] # None /\ stash' = [stash EXCEPT ![p] = None]
      /\ held' = [held EXCEPT ![t] = None] /\ call' = [call EXCEPT ![t] = None]
      /\ robbed' = (robbed \cup Siblings(t)) \ {t}
      /\ UNCHANGED <<tool, hooks, calls, elem, missed, shared, silent>>
  BY Zenon DEF ExitEmit, Delete
<1>2. ring' = ring \/ ring' = Append(ring, e)
  BY Zenon DEF ExitEmit
<1>3. /\ p \in Pids /\ call'[t] = None /\ held'[t] = None /\ stash'[p] = None
      /\ \A u \in Threads \ {t} : call'[u] = call[u] /\ held'[u] = held[u]
      /\ \A q \in Pids \ {p} : stash'[q] = stash[q]
  BY Zenon, <1>1 DEF Typed
<1>4. InCall(t) /\ call[t] \in Call /\ elem[held[t]] \in Value
  BY Zenon, <1>1 DEF HeldInCall, Written, InCall, Typed
<1>5. \A u \in Threads \ {t} : InCall(u) /\ PidOf[u] \notin shared => PidOf[u] # p
  BY Zenon, <1>4 DEF OneThread
<1>6. e \in Event /\ e.pid = p /\ e.val = elem[held[t]] /\ e.call = call[t]
  BY Zenon, <1>3, <1>4 DEF Event
<1>7. p \notin shared /\ (tool = "netsnoop" => call[t].stashed) => elem[held[t]].id = call[t].id
  BY Zenon, <1>1, <1>4 DEF StashOfCall, Typed
<1> HIDE DEF e
<1>8. ring' \in Seq(Event) /\ OwnArgs'
  <2>1. CASE ring' = ring
    BY Zenon, <1>1, <2>1 DEF OwnArgs, Typed
  <2>2. CASE ring' = Append(ring, e)
    <3>1. /\ ring' \in Seq(Event)
          /\ \A i \in DOMAIN ring' : ring'[i] = e \/ (i \in DOMAIN ring /\ ring'[i] = ring[i])
      BY <1>6, <2>2 DEF Typed
    <3> QED
      BY Zenon, <1>1, <1>6, <1>7, <3>1 DEF OwnArgs
  <2> QED
    BY Zenon, <1>2, <2>1, <2>2
<1>9. Typed'
  BY Zenon, <1>1, <1>3, <1>8 DEF Typed, Siblings
<1>10. Written' /\ HeldInCall' /\ OneThread'
  BY <1>1, <1>3 DEF Written, HeldInCall, OneThread, InCall
<1>11. StashOfCall'
  BY <1>1, <1>3, <1>5 DEF StashOfCall, InCall
<1>12. NeverSilent'
  BY Zenon, <1>1 DEF NeverSilent
<1>13. NoLeak'
  BY <1>1, <1>3 DEF NoLeak, Keys
<1>14. EntryKept' /\ RobbedInCall'
  BY <1>1, <1>3 DEF EntryKept, RobbedInCall, InCall, Siblings, Typed
<1> QED
  BY Zenon, <1>8, <1>9, <1>10, <1>11, <1>12, <1>13, <1>14

-----------------------------------------------------------------------------
LEMMA StashInductive == Spec => []StashInv
<1>1. Init => StashInv
  BY EntryExitAssumption DEF Init, StashInv, Typed, Written, HeldInCall, OneThread, StashOfCall, InCall, EntryKept, RobbedInCall, OwnArgs,
     NeverSilent, NoLeak, Keys
<1>2. StashInv /\ [Next]_vars => StashInv'
  <2> SUFFICES ASSUME StashInv, [Next]_vars PROVE StashInv'
    BY Zenon
  <2>1. ASSUME NEW t \in Threads, NEW a \in Args, NEW whole \in BOOLEAN, TraceEnter(t, a, whole)
        PROVE  StashInv'
    BY Zenon, <2>1, EnterKeeps
  <2>2. ASSUME NEW t \in Threads, LeaveUnseen(t) \/ ExitLookup(t) \/ ExitEmit(t) PROVE StashInv'
    BY Zenon, <2>2, LeaveKeeps, LookupKeeps, EmitKeeps
  <2>3. CASE HandleEvent
    <3>1. /\ ring # <<>> /\ ring' = Tail(ring)
          /\ UNCHANGED <<tool, hooks, call, calls, stash, elem, held, missed, shared, robbed, silent>>
      BY Zenon, <2>3 DEF HandleEvent
    <3>2. /\ ring' \in Seq(Event)
          /\ \A i \in DOMAIN ring' : \E j \in DOMAIN ring : ring'[i] = ring[j]
      <4>1. ring \in Seq(Event)
        BY Zenon DEF StashInv, Typed
      <4> QED
        BY <3>1, <4>1
    <3>3. OwnArgs'
      BY ZenonT(30), <3>1, <3>2 DEF StashInv, OwnArgs
    <3> QED
      BY <3>1, <3>2, <3>3 DEF StashInv, Typed, Written, HeldInCall, OneThread, StashOfCall, InCall, EntryKept, RobbedInCall, NeverSilent,
         NoLeak, Keys
  <2>4. CASE Attach
    BY <2>4 DEF Attach, StashInv, Typed, Written, HeldInCall, OneThread, StashOfCall, InCall, EntryKept, RobbedInCall, OwnArgs,
       NeverSilent, NoLeak, Keys
  <2>5. CASE UNCHANGED vars
    BY Zenon, <2>5 DEF vars, StashInv, Typed, Written, HeldInCall, OneThread, StashOfCall, InCall, EntryKept, RobbedInCall, OwnArgs,
       NeverSilent, NoLeak, Keys
  <2> QED
    BY Zenon, <2>1, <2>2, <2>3, <2>4, <2>5 DEF Next
<1> QED
  BY <1>1, <1>2, PTL DEF Spec

\* A record of trace_exit() carries the arguments of its own call, although the element
\* it copies from may have been deleted and reused, unless two threads of the process
\* were in the call at once.
THEOREM ArgsRight == Spec => []OwnArgs
  BY StashInductive, PTL DEF StashInv

\* A call that trace_enter() stashed finds an entry at its exit, unless another thread of
\* its process that was in the call with it took the entry.
THEOREM NoneSilent == Spec => []NeverSilent
  BY StashInductive, PTL DEF StashInv

\* An entry of the stash belongs to a call under way or to one that ended unseen: a
\* full ring or a shared pid leaves none behind.
THEOREM NothingLeaks == Spec => []NoLeak
  BY StashInductive, PTL DEF StashInv
=============================================================================
