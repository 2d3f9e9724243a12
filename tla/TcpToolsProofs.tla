---------------------------- MODULE TcpToolsProofs ---------------------------
(***************************************************************************)
(* Proofs about TcpTools, for any number of sockets and processes, any     *)
(* sizes of the maps and rings, and tools started at any moment.           *)
(***************************************************************************)
EXTENDS TcpTools, TLAPS

\* What is left of a sequence without its head.
LEMMA TailElements ==
  ASSUME NEW S, NEW s \in Seq(S), s # <<>>
  PROVE  /\ Tail(s) \in Seq(S)
         /\ \A i \in DOMAIN Tail(s) : i + 1 \in DOMAIN s /\ Tail(s)[i] = s[i + 1]
  OBVIOUS

\* What one more element adds to a sequence.
LEMMA AppendElements ==
  ASSUME NEW S, NEW s \in Seq(S), NEW e \in S
  PROVE  /\ Append(s, e) \in Seq(S)
         /\ \A i \in DOMAIN Append(s, e) :
              Append(s, e)[i] = e \/ (i \in DOMAIN s /\ Append(s, e)[i] = s[i])
  OBVIOUS

-----------------------------------------------------------------------------
(* tcpstates                                                               *)

\* No timestamp lies in the future.
StampsPast == \A a \in Socks : timestamps[a] # None => timestamps[a] <= time

\* A timestamp in the map is when its socket entered the state it is in; one is
\* missing only if we did not see that or it was evicted.
StampsRight ==
  \A a \in Socks : /\ timestamps[a] # None => timestamps[a] = since[a]
                   /\ timestamps[a] = None => since[a] = None \/ a \in evicted

\* A closed socket has none, and before the program is attached none has.
StampsGone ==
  \A a \in Socks : st[a] = TCP_CLOSE \/ "tcpstates" \notin attached => timestamps[a] = None

StatesInv ==
  SockTypeOK /\ StatesTypeOK /\ StampsPast /\ StampsRight /\ StampsGone /\ SpanIsTimeInState

\* An eviction never hits the socket whose entry is written.
LEMMA VictimIsAnother ==
  ASSUME NEW a \in Socks, NEW v \in Victims(a)
  PROVE  v = None \/ (v \in Socks /\ v # a)
  BY Zenon DEF Victims, Stamped

\* The type of an event.
LEMMA EventType ==
  ASSUME NEW a \in Socks, NEW us \in Nat, NEW has \in BOOLEAN, NEW old \in States, NEW new \in States,
         NEW t \in Nat, NEW s \in Nat \cup {None}, NEW gone \in BOOLEAN
  PROVE  [sk |-> a, span |-> us, has_span |-> has, oldstate |-> old, newstate |-> new,
          time |-> t, since |-> s, evicted |-> gone] \in Event
  BY Zenon DEF Event

\* handle_set_state() of tcpstates, with the change of state it is called for.
LEMMA StatesHandlerKeeps ==
  ASSUME StatesInv, NEW a \in Socks, NEW new \in States, NEW cur, SetState(a, new, cur),
         "tcpstates" \in attached, StatesHandler(a, new)
  PROVE  StatesInv'
<1> USE DEF StatesInv, SockTypeOK, StatesTypeOK
<1>1. SockTypeOK' /\ time' = time + 1 /\ attached' = attached /\ time \in Nat /\ st' = [st EXCEPT ![a] = new]
  BY DEF SetState
<1>2. PICK v \in (IF new = TCP_CLOSE THEN {None} ELSE Victims(a)) :
        timestamps' = Stamp(a, new, v) /\ evicted' = (evicted \ {a}) \cup ({v} \ {None})
  BY Zenon DEF StatesHandler
<1>3. v = None \/ (v \in Socks /\ v # a)
  BY Zenon, <1>2, VictimIsAnother
<1>4. since' = [since EXCEPT ![a] = IF new = TCP_CLOSE THEN None ELSE time]
  BY Zenon DEF StatesHandler
<1>5. \A x \in Socks : timestamps'[x] = IF x = v THEN None ELSE IF x # a THEN timestamps[x]
                                        ELSE IF new = TCP_CLOSE THEN None ELSE time
  BY Zenon, <1>2 DEF Stamp
<1>6. timestamps' \in [Socks -> Nat \cup {None}] /\ since' \in [Socks -> Nat \cup {None}] /\ evicted' \subseteq Socks
  BY Zenon, <1>1, <1>2, <1>3, <1>4 DEF Stamp
<1>7. StampsPast' /\ StampsGone'
  BY <1>1, <1>3, <1>5, SockAssumption DEF StampsPast, StampsGone
<1>8. StampsRight'
  BY <1>1, <1>2, <1>3, <1>4, <1>5, SockAssumption DEF StampsRight
<1> DEFINE e == [sk |-> a, span |-> Span(a).us, has_span |-> Span(a).has, oldstate |-> st[a], newstate |-> new,
                 time |-> time, since |-> since[a], evicted |-> a \in evicted]
<1>9. Span(a).us \in Nat /\ Span(a).has \in BOOLEAN
  BY <1>1 DEF Span, StampsPast
<1>10. e \in Event
  <2> HIDE DEF StatesInv, StatesTypeOK
  <2>1. since[a] \in Nat \cup {None} /\ st[a] \in States
    BY Zenon DEF StatesInv, StatesTypeOK
  <2>2. (a \in evicted) \in BOOLEAN
    OBVIOUS
  <2> QED
    BY ZenonT(30), <1>1, <1>9, <2>1, <2>2, EventType
<1>11. IF e.has_span THEN e.since # None /\ e.span = e.time - e.since
                     ELSE e.since = None \/ e.evicted
  <2>1. CASE timestamps[a] = None
    <3>1. ~Span(a).has /\ (since[a] = None \/ a \in evicted)
      BY Zenon, <2>1 DEF Span, StampsRight
    <3> QED
      BY Zenon, <3>1
  <2>2. CASE timestamps[a] # None
    <3>1. Span(a).has /\ since[a] # None /\ Span(a).us = time - since[a]
      BY Zenon, <2>2 DEF Span, StampsRight
    <3> QED
      BY Zenon, <3>1
  <2> QED
    BY Zenon, <2>1, <2>2
<1>12. events' = Append(events, e) \/ events' = events
  BY Zenon DEF StatesHandler
<1>13. events' \in Seq(Event) /\ SpanIsTimeInState'
  <2> HIDE DEF e
  <2>1. CASE events' = events
    BY Zenon, <2>1 DEF SpanIsTimeInState
  <2>2. CASE events' = Append(events, e)
    BY <2>2, <1>10, <1>11, AppendElements DEF SpanIsTimeInState
  <2> QED
    BY Zenon, <1>12, <2>1, <2>2
<1> QED
  BY Zenon, <1>1, <1>6, <1>7, <1>8, <1>13

-----------------------------------------------------------------------------
(* tcplife                                                                 *)

BirthsPast == \A a \in Socks : births[a] # None => births[a] <= time

\* Before the program is attached it has recorded nothing.
LifeIdle ==
  "tcplife" \notin attached =>
    /\ summaries = <<>>
    /\ \A a \in Socks : births[a] = None /\ idents[a] = None /\ caller[a] = None /\ closer[a] = None

\* A birth in the map is that of the socket now at the address.
BirthsRight == \A a \in Socks \ lost : births[a] = opened[a]

\* States a socket reaches only by way of an opening transition.
Begun == {TCP_ESTABLISHED, TCP_SYN_SENT, TCP_CLOSE_WAIT, TCP_LAST_ACK}

\* Of an address seen from the start: a socket past its opening has its birth in the
\* map, a closed one has not, and there is no identity without a birth.
BirthsKept ==
  "tcplife" \in attached =>
    \A a \in Socks \ (midlife \cup lost) :
      /\ st[a] \in Begun => births[a] # None
      /\ st[a] = TCP_CLOSE => births[a] = None
      /\ idents[a] # None => births[a] # None

\* An identity in the map is that of the socket's LAST_ACK, or else of its connect(),
\* and a closed socket has had neither.
IdentsRight ==
  \A a \in Socks \ lost :
    /\ closer[a] # None => idents[a] = closer[a]
    /\ closer[a] = None /\ caller[a] # None => idents[a] = caller[a]
    /\ a \notin midlife /\ idents[a] # None => closer[a] # None \/ caller[a] # None

\* A socket that has not come to LAST_ACK has no closer yet.
NoCloserYet == \A a \in Socks : st[a] # TCP_LAST_ACK => closer[a] = None

LifeInv ==
  /\ SockTypeOK /\ LifeTypeOK /\ BirthsPast /\ LifeIdle /\ BirthsRight /\ BirthsKept /\ IdentsRight /\ NoCloserYet
  /\ SpanIsLifetime /\ PidIsCallers

\* An update of an LRU map sets its key and may lose another.
LEMMA LruUpdate ==
  ASSUME NEW m, NEW a \in Socks, NEW val, NEW n \in LruUpdates(m, a, val)
  PROVE  /\ n = [x \in Socks |-> n[x]] /\ n[a] = val
         /\ \A x \in Socks \ {a} : n[x] = m[x] \/ n[x] = None
  BY Zenon DEF LruUpdates

\* The transitions into CLOSE_WAIT and LAST_ACK.
LEMMA LateMoves ==
  ASSUME NEW s, NEW new, <<s, new>> \in Moves
  PROVE  (new = TCP_CLOSE_WAIT => s = TCP_ESTABLISHED) /\ (new = TCP_LAST_ACK => s = TCP_CLOSE_WAIT)
  BY DEF Moves, TCP_ESTABLISHED, TCP_SYN_SENT, TCP_SYN_RECV, TCP_FIN_WAIT1, TCP_FIN_WAIT2, TCP_CLOSE,
     TCP_CLOSE_WAIT, TCP_LAST_ACK, TCP_LISTEN, TCP_CLOSING

\* handle_set_state() of tcplife at a transition other than to CLOSE.
LEMMA OpenKeeps ==
  ASSUME LifeInv, NEW a \in Socks, NEW new \in States, NEW cur \in Pids \cup {0}, SetState(a, new, cur),
         "tcplife" \in attached, new # TCP_CLOSE, Open(a, new, cur), UNCHANGED midlife
  PROVE  LifeInv'
<1> USE DEF LifeInv, SockTypeOK, LifeTypeOK
<1>1. /\ SockTypeOK' /\ time' = time + 1 /\ attached' = attached /\ time \in Nat
      /\ st' = [st EXCEPT ![a] = new] /\ (new = TCP_SYN_SENT => cur \in Pids)
  BY DEF SetState, ProcessContext
<1>2. /\ births'[a] = (IF new < TCP_FIN_WAIT1 /\ births[a] = None THEN time ELSE births[a])
      /\ births' = [x \in Socks |-> births'[x]]
      /\ \A x \in Socks \ {a} : births'[x] = births[x] \/ births'[x] = None
  BY LruUpdate DEF Open, BirthsAfter
<1>3. /\ idents'[a] = (IF new \in StashStates THEN cur ELSE idents[a])
      /\ idents' = [x \in Socks |-> idents'[x]]
      /\ \A x \in Socks \ {a} : idents'[x] = idents[x] \/ idents'[x] = None
  BY LruUpdate DEF Open, IdentsAfter
<1>4. /\ lost \subseteq lost' /\ lost' \subseteq Socks
      /\ \A x \in Socks \ {a} : x \notin lost' => births'[x] = births[x] /\ idents'[x] = idents[x]
  BY Zenon, <1>2, <1>3 DEF Open, Keys
<1>5. /\ opened' = [opened EXCEPT ![a] = IF @ = None /\ new < TCP_FIN_WAIT1 THEN time ELSE @]
      /\ caller' = [caller EXCEPT ![a] = IF new = TCP_SYN_SENT THEN cur ELSE @]
      /\ closer' = [closer EXCEPT ![a] = IF new = TCP_LAST_ACK THEN cur ELSE @]
      /\ UNCHANGED summaries
  BY Zenon DEF Open
<1>6. LifeTypeOK'
  <2>1. \A x \in Socks : births'[x] \in Nat \cup {None} /\ idents'[x] \in Pids \cup {0, None}
    BY Zenon, <1>1, <1>2, <1>3
  <2>2. births' \in [Socks -> Nat \cup {None}] /\ idents' \in [Socks -> Pids \cup {0, None}]
    BY Zenon, <1>2, <1>3, <2>1
  <2> QED
    BY Zenon, <1>1, <1>4, <1>5, <2>2
<1>7. BirthsPast' /\ LifeIdle'
  BY <1>1, <1>2, SockAssumption DEF BirthsPast, LifeIdle
<1>8. BirthsRight'
  BY <1>1, <1>2, <1>4, <1>5 DEF BirthsRight
<1>9. BirthsKept'
  <2> SUFFICES ASSUME NEW x \in Socks \ (midlife \cup lost')
               PROVE  /\ st'[x] \in Begun => births'[x] # None
                      /\ st'[x] = TCP_CLOSE => births'[x] = None
                      /\ idents'[x] # None => births'[x] # None
    BY Zenon DEF BirthsKept
  <2>0. \A y \in Socks \ (midlife \cup lost) :
          /\ st[y] \in Begun => births[y] # None
          /\ st[y] = TCP_CLOSE => births[y] = None
          /\ idents[y] # None => births[y] # None
    BY Zenon DEF BirthsKept
  <2>1. CASE x # a
    <3>1. st'[x] = st[x] /\ births'[x] = births[x] /\ idents'[x] = idents[x] /\ x \notin lost
      BY Zenon, <1>1, <1>4, <2>1
    <3> QED
      BY Zenon, <3>1, <2>0
  <2>2. CASE x = a
    <3>1. new \in Begun => births'[a] # None
      <4>1. CASE new \in {TCP_ESTABLISHED, TCP_SYN_SENT}
        BY <1>1, <1>2, <4>1, SockAssumption DEF TCP_ESTABLISHED, TCP_SYN_SENT, TCP_FIN_WAIT1
      <4>2. CASE new \in {TCP_CLOSE_WAIT, TCP_LAST_ACK}
        <5>1. st[a] \in Begun
          BY Zenon, <4>2, LateMoves DEF SetState, Begun
        <5> QED
          BY Zenon, <1>1, <1>2, <1>4, <2>0, <2>2, <5>1, SockAssumption
      <4> QED
        BY Zenon, <4>1, <4>2 DEF Begun
    <3>2. idents'[a] # None => births'[a] # None
      <4>1. CASE new \in StashStates
        BY Zenon, <3>1, <4>1 DEF StashStates, Begun
      <4>2. CASE new \notin StashStates
        <5>1. a \notin lost /\ idents'[a] = idents[a]
          BY Zenon, <1>3, <1>4, <2>2, <4>2
        <5>2. births[a] # None => births'[a] # None
          BY Zenon, <1>2
        <5> QED
          BY Zenon, <2>0, <2>2, <5>1, <5>2
      <4> QED
        BY Zenon, <4>1, <4>2
    <3> QED
      BY Zenon, <1>1, <2>2, <3>1, <3>2
  <2> QED
    BY Zenon, <2>1, <2>2
<1>10. IdentsRight' /\ NoCloserYet'
  <2>1. TCP_SYN_SENT # TCP_LAST_ACK /\ cur # None
    BY SockAssumption DEF TCP_SYN_SENT, TCP_LAST_ACK
  <2>2. st[a] # TCP_LAST_ACK
    BY DEF SetState, Moves, TCP_ESTABLISHED, TCP_SYN_SENT, TCP_SYN_RECV, TCP_FIN_WAIT1, TCP_FIN_WAIT2, TCP_CLOSE,
       TCP_CLOSE_WAIT, TCP_LAST_ACK, TCP_LISTEN, TCP_CLOSING
  <2>3. /\ closer'[a] = (IF new = TCP_LAST_ACK THEN cur ELSE None)
        /\ caller'[a] = (IF new = TCP_SYN_SENT THEN cur ELSE caller[a])
        /\ \A x \in Socks \ {a} : closer'[x] = closer[x] /\ caller'[x] = caller[x]
    BY Zenon, <1>5, <2>2 DEF NoCloserYet
  <2>4. NoCloserYet'
    BY Zenon, <1>1, <2>3 DEF NoCloserYet
  <2> QED
    BY Zenon, <1>1, <1>3, <1>4, <2>1, <2>2, <2>3, <2>4 DEF IdentsRight, NoCloserYet, StashStates
<1>11. SpanIsLifetime' /\ PidIsCallers'
  BY Zenon, <1>4, <1>5 DEF SpanIsLifetime, PidIsCallers
<1> QED
  BY Zenon, <1>1, <1>6, <1>7, <1>8, <1>9, <1>10, <1>11

\* The type of a summary.
LEMMA SummaryType ==
  ASSUME NEW a \in Socks, NEW us \in Nat, NEW pid \in Pids \cup {0}, NEW stashed \in BOOLEAN,
         NEW o \in Nat \cup {None}, NEW t \in Nat, NEW c \in Pids \cup {None}, NEW l \in Pids \cup {0, None}
  PROVE  [sk |-> a, span |-> us, pid |-> pid, stashed |-> stashed, opened |-> o, closed |-> t,
          caller |-> c, closer |-> l] \in Summaries
  BY Zenon DEF Summaries

\* The pid of a summary, given whether its identity was stashed and whether its address
\* was seen from its sockets' birth.
NamesCaller(e, stashed, whole) ==
  /\ e.closer # None => e.pid = e.closer
  /\ e.closer = None /\ e.caller # None => e.pid = e.caller
  /\ stashed /\ whole => e.closer # None \/ e.caller # None

\* The summary of a socket with a birth: its type, its lifetime and its process.
LEMMA SummaryRight ==
  ASSUME LifeInv, NEW a \in Socks, NEW cur \in Pids \cup {0}, births[a] # None
  PROVE  LET e == Summary(a, cur) IN
           /\ e \in Summaries /\ e.sk = a
           /\ a \notin lost => e.opened # None /\ e.span = e.closed - e.opened
           /\ a \notin lost => NamesCaller(e, e.stashed, a \notin midlife)
<1> DEFINE e == Summary(a, cur)
           pid == IF idents[a] # None THEN idents[a] ELSE cur
<1>1. /\ time \in Nat /\ births[a] \in Nat /\ births[a] <= time /\ opened[a] \in Nat \cup {None}
      /\ caller[a] \in Pids \cup {None} /\ closer[a] \in Pids \cup {0, None} /\ pid \in Pids \cup {0} /\ time - births[a] \in Nat
  BY DEF LifeInv, SockTypeOK, LifeTypeOK, BirthsPast
<1>2. (idents[a] # None) \in BOOLEAN
  OBVIOUS
<1>3. e \in Summaries
  BY ZenonT(30), <1>1, <1>2, SummaryType DEF Summary
<1>4. a \notin lost => births[a] = opened[a]
  BY Zenon DEF LifeInv, BirthsRight
<1>5. a \notin lost => e.opened # None /\ e.span = e.closed - e.opened
  BY Zenon, <1>4 DEF Summary
<1>6. /\ e.pid = pid /\ e.stashed = (idents[a] # None) /\ e.caller = caller[a] /\ e.closer = closer[a]
  BY Zenon DEF Summary
<1>7. a \notin lost => NamesCaller(e, e.stashed, a \notin midlife)
  BY Zenon, <1>1, <1>6 DEF LifeInv, IdentsRight, NamesCaller
<1>8. e.sk = a
  BY Zenon DEF Summary
<1> QED
  BY Zenon, <1>3, <1>5, <1>7, <1>8

\* handle_set_state() of tcplife at CLOSE.
LEMMA CloseKeeps ==
  ASSUME LifeInv, NEW a \in Socks, NEW cur \in Pids \cup {0}, SetState(a, TCP_CLOSE, cur),
         "tcplife" \in attached, Close(a, cur), UNCHANGED midlife
  PROVE  LifeInv'
<1> USE DEF LifeInv
<1>1. /\ SockTypeOK' /\ time' = time + 1 /\ attached' = attached /\ time \in Nat
      /\ st' = [st EXCEPT ![a] = TCP_CLOSE] /\ st \in [Socks -> States]
  BY DEF SetState, SockTypeOK, States, TCP_CLOSE
<1>2. /\ births' = (IF births[a] = None THEN births ELSE [births EXCEPT ![a] = None])
      /\ idents' = (IF births[a] = None THEN idents ELSE [idents EXCEPT ![a] = None])
      /\ opened' = [opened EXCEPT ![a] = None] /\ caller' = [caller EXCEPT ![a] = None]
      /\ closer' = [closer EXCEPT ![a] = None] /\ UNCHANGED lost
  BY Zenon DEF Close, Cleanup
<1>3. births \in [Socks -> Nat \cup {None}] /\ idents \in [Socks -> Pids \cup {0, None}]
  BY Zenon DEF LifeTypeOK
<1>3a. \A x \in Socks : /\ births'[x] = (IF x = a THEN None ELSE births[x])
                         /\ idents'[x] = (IF x = a /\ births[a] # None THEN None ELSE idents[x])
                         /\ st'[x] = (IF x = a THEN TCP_CLOSE ELSE st[x])
  BY Zenon, <1>1, <1>2, <1>3
<1>4. BirthsPast' /\ LifeIdle'
  <2>1. BirthsPast'
    <3>1. \A x \in Socks : births[x] # None => births[x] \in Nat /\ births[x] <= time
      BY Zenon, <1>3 DEF BirthsPast
    <3> QED
      BY <1>1, <1>3a, <3>1 DEF BirthsPast
  <2> QED
    BY Zenon, <1>1, <2>1 DEF LifeIdle
<1>5. BirthsRight'
  BY Zenon, <1>1, <1>2, <1>3 DEF BirthsRight, LifeTypeOK
<1>6. BirthsKept'
  <2>1. TCP_CLOSE \notin Begun
    BY DEF Begun, TCP_CLOSE, TCP_ESTABLISHED, TCP_SYN_SENT, TCP_CLOSE_WAIT, TCP_LAST_ACK
  <2>2. \A y \in Socks \ (midlife \cup lost) :
          /\ st[y] \in Begun => births[y] # None
          /\ st[y] = TCP_CLOSE => births[y] = None
          /\ idents[y] # None => births[y] # None
    BY Zenon DEF BirthsKept
  <2> QED
    BY <1>2, <1>3a, <2>1, <2>2 DEF BirthsKept
<1>7. IdentsRight' /\ NoCloserYet'
  <2>1. \A x \in Socks : /\ caller'[x] = (IF x = a THEN None ELSE caller[x])
                         /\ closer'[x] = (IF x = a THEN None ELSE closer[x])
    BY Zenon, <1>2 DEF LifeTypeOK
  <2>2. a \notin midlife \cup lost => idents'[a] = None
    BY Zenon, <1>3a DEF BirthsKept
  <2>3. NoCloserYet'
    BY Zenon, <1>3a, <2>1 DEF NoCloserYet
  <2>4. IdentsRight'
    <3> SUFFICES ASSUME NEW x \in Socks \ lost
                 PROVE  /\ closer'[x] # None => idents'[x] = closer'[x]
                        /\ closer'[x] = None /\ caller'[x] # None => idents'[x] = caller'[x]
                        /\ x \notin midlife /\ idents'[x] # None => closer'[x] # None \/ caller'[x] # None
      BY Zenon, <1>2 DEF IdentsRight
    <3>1. CASE x = a
      BY Zenon, <2>1, <2>2, <3>1
    <3>2. CASE x # a
      <4>1. idents'[x] = idents[x] /\ caller'[x] = caller[x] /\ closer'[x] = closer[x]
        BY Zenon, <1>3a, <2>1, <3>2
      <4> QED
        BY Zenon, <4>1 DEF IdentsRight
    <3> QED
      BY Zenon, <3>1, <3>2
  <2> QED
    BY Zenon, <2>3, <2>4
<1>8. summaries' = summaries \/ (births[a] # None /\ summaries' = Append(summaries, Summary(a, cur)))
  BY Zenon DEF Close
<1>9. summaries' \in Seq(Summaries) /\ SpanIsLifetime' /\ PidIsCallers'
  <2>1. CASE summaries' = summaries
    BY Zenon, <1>2, <2>1 DEF LifeTypeOK, SpanIsLifetime, PidIsCallers
  <2>2. CASE births[a] # None /\ summaries' = Append(summaries, Summary(a, cur))
    <3> DEFINE e == Summary(a, cur)
    <3>1. /\ e \in Summaries /\ e.sk = a
          /\ a \notin lost => e.opened # None /\ e.span = e.closed - e.opened
          /\ a \notin lost => NamesCaller(e, e.stashed, a \notin midlife)
      BY Zenon, <2>2, SummaryRight
    <3> HIDE DEF e
    <3>2. /\ summaries' \in Seq(Summaries)
          /\ \A i \in DOMAIN summaries' :
               summaries'[i] = e \/ (i \in DOMAIN summaries /\ summaries'[i] = summaries[i])
      BY <2>2, <3>1, AppendElements DEF LifeTypeOK, e
    <3> QED
      BY Zenon, <1>2, <3>1, <3>2 DEF SpanIsLifetime, PidIsCallers, NamesCaller
  <2> QED
    BY Zenon, <1>8, <2>1, <2>2
<1>10. LifeTypeOK'
  BY Zenon, <1>1, <1>2, <1>3, <1>9 DEF LifeTypeOK
<1> QED
  BY Zenon, <1>1, <1>4, <1>5, <1>6, <1>7, <1>9, <1>10

-----------------------------------------------------------------------------
(* Both tools on one machine                                               *)

\* The two parts of the inductive invariant, step by step.
LEMMA StatesInductive == Spec => []StatesInv
<1>1. Init => StatesInv
  BY SockAssumption DEF Init, SockInit, StatesInit, StatesInv, SockTypeOK, StatesTypeOK, StampsPast,
     StampsRight, StampsGone, SpanIsTimeInState
<1>2. StatesInv /\ [Next]_vars => StatesInv'
  <2> SUFFICES ASSUME StatesInv, [Next]_vars PROVE StatesInv'
    BY Zenon
  <2>1. ASSUME NEW a \in Socks, NEW new \in States, NEW cur \in Pids \cup {0}, HandleSetState(a, new, cur)
        PROVE  StatesInv'
    <3>1. SetState(a, new, cur)
      BY Zenon, <2>1 DEF HandleSetState
    <3>2. CASE "tcpstates" \in attached
      BY Zenon, <2>1, <3>1, <3>2, StatesHandlerKeeps DEF HandleSetState
    <3>3. CASE "tcpstates" \notin attached
      <4>1. UNCHANGED statesVars
        BY Zenon, <2>1, <3>3 DEF HandleSetState
      <4> QED
        BY <3>1, <3>3, <4>1 DEF SetState, StatesInv, SockTypeOK, StatesTypeOK, StampsPast, StampsRight,
           StampsGone, SpanIsTimeInState, statesVars
    <3> QED
      BY Zenon, <3>2, <3>3
  <2>2. ASSUME NEW a \in Socks, NEW s \in Fresh, Reuse(a, s) PROVE StatesInv'
    <3>1. SockTypeOK' /\ UNCHANGED <<time, attached, timestamps, events, since, evicted>>
      BY Zenon, <2>2 DEF Reuse, SlabReuse, StatesInv, SockTypeOK, statesVars, Fresh, States, TCP_CLOSE, TCP_LISTEN,
         TCP_SYN_RECV
    <3>2. \A x \in Socks : st'[x] = TCP_CLOSE => st[x] = TCP_CLOSE
      BY Zenon, <2>2 DEF Reuse, SlabReuse, StatesInv, SockTypeOK
    <3> QED
      BY Zenon, <3>1, <3>2 DEF StatesInv, StatesTypeOK, StampsPast, StampsRight, StampsGone, SpanIsTimeInState
  <2>3. CASE HandleEvent
    <3>1. UNCHANGED <<st, attached, time, timestamps, since, evicted>>
      BY Zenon, <2>3 DEF HandleEvent, StatesHandleEvent, sockVars, statesVars
    <3>2. events' = events \/ (events # <<>> /\ events' = Tail(events))
      BY Zenon, <2>3 DEF HandleEvent, StatesHandleEvent, statesVars
    <3>3. events \in Seq(Event) /\ SpanIsTimeInState
      BY Zenon DEF StatesInv, StatesTypeOK
    <3>4. events' \in Seq(Event) /\ SpanIsTimeInState'
      <4>1. CASE events' = events
        BY Zenon, <3>3, <4>1 DEF SpanIsTimeInState
      <4>2. CASE events # <<>> /\ events' = Tail(events)
        <5>1. /\ events' \in Seq(Event)
              /\ \A i \in DOMAIN events' : \E j \in DOMAIN events : events'[i] = events[j]
          BY Zenon, <3>3, <4>2, TailElements
        <5> QED
          BY Zenon, <3>3, <5>1 DEF SpanIsTimeInState
      <4> QED
        BY Zenon, <3>2, <4>1, <4>2
    <3> QED
      BY Zenon, <3>1, <3>4 DEF StatesInv, SockTypeOK, StatesTypeOK, StampsPast, StampsRight, StampsGone
  <2>4. ASSUME NEW t \in Tools, Attach(t) PROVE StatesInv'
    BY Zenon, <2>4 DEF Attach, ProgAttach, statesVars, StatesInv, SockTypeOK, StatesTypeOK, StampsPast, StampsRight,
       StampsGone, SpanIsTimeInState
  <2>5. CASE UNCHANGED vars
    BY Zenon, <2>5 DEF vars, sockVars, statesVars, StatesInv, SockTypeOK, StatesTypeOK, StampsPast, StampsRight,
       StampsGone, SpanIsTimeInState
  <2> QED
    BY Zenon, <2>1, <2>2, <2>3, <2>4, <2>5 DEF Next
<1> QED
  BY <1>1, <1>2, PTL DEF Spec

LEMMA LifeInductive == Spec => []LifeInv
<1>1. Init => LifeInv
  BY SockAssumption DEF Init, SockInit, LifeInit, LifeInv, SockTypeOK, LifeTypeOK, BirthsPast, LifeIdle,
     BirthsRight, BirthsKept, IdentsRight, NoCloserYet, SpanIsLifetime, PidIsCallers
<1>2. LifeInv /\ [Next]_vars => LifeInv'
  <2> SUFFICES ASSUME LifeInv, [Next]_vars PROVE LifeInv'
    OBVIOUS
  <2> USE DEF LifeInv
  <2>1. ASSUME NEW a \in Socks, NEW new \in States, NEW cur \in Pids \cup {0}, HandleSetState(a, new, cur)
        PROVE  LifeInv'
    <3>1. SetState(a, new, cur)
      BY Zenon, <2>1 DEF HandleSetState
    <3>2. CASE "tcplife" \in attached
      <4>1. UNCHANGED midlife /\ IF new = TCP_CLOSE THEN Close(a, cur) ELSE Open(a, new, cur)
        BY Zenon, <2>1, <3>2 DEF HandleSetState, LifeHandler
      <4> QED
        BY Zenon, <3>1, <3>2, <4>1, OpenKeeps, CloseKeeps
    <3>3. CASE "tcplife" \notin attached
      <4>1. UNCHANGED lifeVars
        BY Zenon, <2>1, <3>3 DEF HandleSetState
      <4>2. SockTypeOK' /\ UNCHANGED attached /\ time' = time + 1
        BY <3>1 DEF SetState, SockTypeOK
      <4>3. \A x \in Socks : births[x] = None /\ idents[x] = None /\ caller[x] = None /\ closer[x] = None
        BY Zenon, <3>3 DEF LifeIdle
      <4> QED
        BY Zenon, <3>3, <4>1, <4>2, <4>3 DEF lifeVars, LifeTypeOK, BirthsPast, LifeIdle, BirthsRight, BirthsKept,
           IdentsRight, NoCloserYet, SpanIsLifetime, PidIsCallers
    <3> QED
      BY Zenon, <3>2, <3>3
  <2>2. ASSUME NEW a \in Socks, NEW s \in Fresh, Reuse(a, s) PROVE LifeInv'
    <3>1. SockTypeOK' /\ UNCHANGED <<time, attached, births, idents, summaries, opened, caller, closer, midlife, lost>>
      BY Zenon, <2>2 DEF Reuse, SlabReuse, SockTypeOK, lifeVars, Fresh, States, TCP_CLOSE, TCP_LISTEN, TCP_SYN_RECV
    <3>2. /\ st[a] = TCP_CLOSE /\ st'[a] \notin Begun
          /\ \A x \in Socks \ {a} : st'[x] = st[x]
      BY <2>2 DEF Reuse, SlabReuse, SockTypeOK, Fresh, Begun, TCP_CLOSE, TCP_LISTEN, TCP_SYN_RECV,
         TCP_ESTABLISHED, TCP_SYN_SENT, TCP_CLOSE_WAIT, TCP_LAST_ACK
    <3>3. closer[a] = None
      BY <3>2 DEF NoCloserYet, TCP_CLOSE, TCP_LAST_ACK
    <3>4. BirthsKept'
      BY Zenon, <3>1, <3>2 DEF BirthsKept
    <3>5. IdentsRight' /\ NoCloserYet'
      BY Zenon, <3>1, <3>2, <3>3 DEF IdentsRight, NoCloserYet
    <3> QED
      BY Zenon, <3>1, <3>4, <3>5 DEF LifeTypeOK, BirthsPast, LifeIdle, BirthsRight, SpanIsLifetime, PidIsCallers
  <2>3. CASE HandleEvent
    <3>1. UNCHANGED <<st, attached, time, births, idents, opened, caller, closer, midlife, lost>>
      BY Zenon, <2>3 DEF HandleEvent, LifeHandleEvent, sockVars, lifeVars
    <3>2. summaries' = summaries \/ (summaries # <<>> /\ summaries' = Tail(summaries))
      BY Zenon, <2>3 DEF HandleEvent, LifeHandleEvent, lifeVars
    <3>3. summaries \in Seq(Summaries) /\ SpanIsLifetime /\ PidIsCallers
      BY Zenon DEF LifeTypeOK
    <3>4. summaries' \in Seq(Summaries) /\ SpanIsLifetime' /\ PidIsCallers' /\ LifeIdle'
      <4>1. CASE summaries' = summaries
        BY Zenon, <3>1, <3>3, <4>1 DEF SpanIsLifetime, PidIsCallers, LifeIdle
      <4>2. CASE summaries # <<>> /\ summaries' = Tail(summaries)
        <5>1. summaries' \in Seq(Summaries) /\ SpanIsLifetime' /\ PidIsCallers'
          <6>1. /\ summaries' \in Seq(Summaries)
                /\ \A i \in DOMAIN summaries' : \E j \in DOMAIN summaries : summaries'[i] = summaries[j]
            BY Zenon, <3>3, <4>2, TailElements
          <6>2. SpanIsLifetime'
            BY Zenon, <3>1, <3>3, <6>1 DEF SpanIsLifetime
          <6>3. PidIsCallers'
            BY ZenonT(60), <3>1, <3>3, <6>1 DEF PidIsCallers
          <6> QED
            BY Zenon, <6>1, <6>2, <6>3
        <5>2. LifeIdle'
          BY Zenon, <3>1, <4>2 DEF LifeIdle
        <5> QED
          BY Zenon, <5>1, <5>2
      <4> QED
        BY Zenon, <3>2, <4>1, <4>2
    <3> QED
      BY Zenon, <3>1, <3>4 DEF SockTypeOK, LifeTypeOK, BirthsPast, BirthsRight, BirthsKept, IdentsRight, NoCloserYet
  <2>4. ASSUME NEW t \in Tools, Attach(t) PROVE LifeInv'
    <3>1. /\ SockTypeOK' /\ t \notin attached /\ attached' = attached \cup {t} /\ UNCHANGED <<st, time>>
          /\ UNCHANGED <<births, idents, summaries, opened, caller, closer, lost>>
      BY Zenon, <2>4 DEF Attach, ProgAttach, LifeAttach, SockTypeOK, lifeVars
    <3>2. CASE t = "tcplife"
      <4>1. midlife' = {a \in Socks : st[a] # TCP_CLOSE}
        BY Zenon, <2>4, <3>2 DEF Attach, LifeAttach
      <4>2. /\ summaries = <<>>
            /\ \A a \in Socks : births[a] = None /\ idents[a] = None /\ caller[a] = None /\ closer[a] = None
        BY Zenon, <3>1, <3>2 DEF LifeIdle
      <4>3. BirthsKept'
        BY <3>1, <4>1, <4>2 DEF BirthsKept, Begun, TCP_CLOSE, TCP_ESTABLISHED, TCP_SYN_SENT, TCP_CLOSE_WAIT,
           TCP_LAST_ACK
      <4> QED
        BY <3>1, <3>2, <4>1, <4>2, <4>3 DEF LifeTypeOK, BirthsPast, LifeIdle, BirthsRight, IdentsRight, NoCloserYet,
           SpanIsLifetime, PidIsCallers
    <3>3. CASE t # "tcplife"
      <4>1. UNCHANGED midlife
        BY Zenon, <2>4, <3>3 DEF Attach, lifeVars
      <4> QED
        BY Zenon, <3>1, <3>3, <4>1 DEF LifeTypeOK, BirthsPast, LifeIdle, BirthsRight, BirthsKept, IdentsRight, NoCloserYet,
           SpanIsLifetime, PidIsCallers
    <3> QED
      BY Zenon, <3>2, <3>3
  <2>5. CASE UNCHANGED vars
    BY Zenon, <2>5 DEF vars, sockVars, lifeVars, SockTypeOK, LifeTypeOK, BirthsPast, LifeIdle, BirthsRight, BirthsKept,
       IdentsRight, NoCloserYet, SpanIsLifetime, PidIsCallers
  <2> QED
    BY Zenon, <2>1, <2>2, <2>3, <2>4, <2>5 DEF Next
<1> QED
  BY <1>1, <1>2, PTL DEF Spec

\* The span of an event of tcpstates is the time its socket spent in the state it
\* leaves, and is blank only where that time is not known (handle_set_state() of
\* chapter 12), whichever timestamps the LRU map evicts.
THEOREM SpansRight == Spec => []SpanIsTimeInState
  BY StatesInductive, PTL DEF StatesInv

\* The lifetime of a summary of tcplife runs from the first opening transition of its
\* socket to its close (handle_set_state() of chapter 13).
THEOREM LifetimesRight == Spec => []SpanIsLifetime
  BY LifeInductive, PTL DEF LifeInv

\* A summary of tcplife names the task at its socket's LAST_ACK, or else the process that
\* called connect() on it, although most transitions run on top of another task and the
\* address may have been another socket's.
THEOREM CallersRight == Spec => []PidIsCallers
  BY LifeInductive, PTL DEF LifeInv

\* No entry of a closed socket is left in any of the three maps for the next socket at
\* its address, even when the ring was full at its close.
THEOREM AllDeleted == Spec => []NothingLeft
<1>1. StatesInv /\ LifeInv => NothingLeft
  <2> SUFFICES ASSUME StatesInv, LifeInv, NEW a \in Socks, st[a] = TCP_CLOSE
               PROVE  /\ timestamps[a] = None
                      /\ a \notin midlife \cup lost => births[a] = None /\ idents[a] = None
    BY Zenon DEF NothingLeft
  <2>1. timestamps[a] = None
    BY Zenon DEF StatesInv, StampsGone
  <2>2. a \notin midlife \cup lost => births[a] = None /\ idents[a] = None
    BY Zenon DEF LifeInv, BirthsKept, LifeIdle
  <2> QED
    BY Zenon, <2>1, <2>2
<1> QED
  BY <1>1, StatesInductive, LifeInductive, PTL
=============================================================================
