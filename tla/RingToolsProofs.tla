--------------------------- MODULE RingToolsProofs ---------------------------
(***************************************************************************)
(* Proofs about RingTools, for any number of CPUs and events and any size  *)
(* of the ring.                                                            *)
(***************************************************************************)
EXTENDS RingTools, FiniteSetTheorems, TLAPS

KeyTodos == {<<"on_sys_add_key">>, <<"on_key_create">>, <<"on_sys_add_key", "on_key_create">>}
Todos == IF tool = "keyring_snoop" THEN KeyTodos ELSE {<<Program>>}

\* What becomes a record, and where it comes from.
Recs == [id : Nat, kind : Kinds[tool] \ {"eof", "denied"}, prog : {Head(t) : t \in Todos}]
Places == [rec : Recs, at : {"filling", "submitted", "discarded"}, cpu : Cpus \cup {None}]

Typed ==
  /\ tool \in DOMAIN Kinds /\ events \in Nat
  /\ task \in [Cpus -> [id : Nat, kind : Kinds[tool], todo : Todos] \cup {None}]
  /\ ring \in Seq(Places) /\ lines \in Seq([rec : Recs, mark : BOOLEAN]) /\ owed \in Seq(Recs)

\* A place that is being filled in is of the event on its CPU; one that was handed
\* back is of a bare Enter.
Owned ==
  \A i \in DOMAIN ring :
    /\ ring[i].at = "discarded" => ring[i].rec.kind = "empty"
    /\ ring[i].at = "submitted" => ring[i].rec.kind # "empty"
    /\ ring[i].at = "filling" =>
         LET x == task[ring[i].cpu] IN
           /\ ring[i].cpu \in Cpus /\ x # None
           /\ ring[i].rec.id = x.id /\ ring[i].rec.kind = x.kind /\ ring[i].rec.prog = Head(x.todo)
OneFilling ==
  \A i, j \in DOMAIN ring :
    ring[i].at = "filling" /\ ring[j].at = "filling" /\ ring[i].cpu = ring[j].cpu => i = j

\* Events are numbered.
Numbered ==
  /\ \A c \in Cpus : task[c] # None => task[c].id < events
  /\ \A c, d \in Cpus : task[c] # None /\ task[d] # None /\ task[c].id = task[d].id => c = d
  /\ \A i \in DOMAIN owed : owed[i].id < events

\* An add_key() has one record of on_key_create(), the last program it passes.
IsKey(r) == r.prog = "on_key_create"
KeyOnce ==
  /\ \A i, j \in DOMAIN owed : IsKey(owed[i]) /\ IsKey(owed[j]) /\ owed[i].id = owed[j].id => i = j
  /\ \A i \in DOMAIN owed, c \in Cpus : IsKey(owed[i]) /\ task[c] # None /\ task[c].id = owed[i].id =>
       Filling(c) # {} /\ Head(task[c].todo) = "on_key_create"

\* A call turned back before key_create_or_update() does not come to on_key_create().
NotRefused ==
  /\ \A c \in Cpus : task[c] # None /\ task[c].kind = "refused" => task[c].todo = <<"on_sys_add_key">>
  /\ \A i \in DOMAIN owed : IsKey(owed[i]) => owed[i].kind # "refused"

\* The reportable records among the first n places of s, and the order of the lines:
\* what is owed has been told, or lies in the ring, in the same order.
Rep(s, n) == {i \in 1 .. n : s[i].rec.kind # "empty"}
Count(s, n) == Cardinality(Rep(s, n))
InOrder ==
  /\ \A i \in DOMAIN lines : i \in DOMAIN owed /\ owed[i] = lines[i].rec
  /\ Len(owed) = Len(lines) + Count(ring, Len(ring))
  /\ \A j \in DOMAIN ring : ring[j].rec.kind # "empty" =>
       owed[Len(lines) + Count(ring, j)] = ring[j].rec

Marked == \A i \in DOMAIN lines : lines[i].mark = Suspicious(lines[i].rec)
Detached == pc \in {"load", "attach", "exited"} => hooks = {}
Unchanged == \A v \in verdicts : v.returned = v.given

RingInv ==
  /\ Typed /\ Owned /\ OneFilling /\ Numbered /\ KeyOnce /\ NotRefused /\ InOrder
  /\ Marked /\ Detached /\ Unchanged

-----------------------------------------------------------------------------
(* Counting the reportable records.                                        *)

LEMMA CountType ==
  ASSUME NEW s, NEW n \in Nat
  PROVE  IsFiniteSet(Rep(s, n)) /\ Count(s, n) \in Nat
<1>1. IsFiniteSet(1 .. n) /\ Rep(s, n) \subseteq 1 .. n
  BY FS_Interval DEF Rep
<1> QED
  BY Zenon, <1>1, FS_Subset, FS_CardinalityType DEF Count

LEMMA CountZero == ASSUME NEW s PROVE Count(s, 0) = 0
<1>1. Rep(s, 0) = {}
  BY DEF Rep
<1> QED
  BY Zenon, <1>1, FS_EmptySet DEF Count

LEMMA CountSame ==
  ASSUME NEW s, NEW t, NEW n \in Nat, \A i \in 1 .. n : s[i].rec.kind = t[i].rec.kind
  PROVE  Count(s, n) = Count(t, n)
<1>1. Rep(s, n) = Rep(t, n)
  BY Zenon DEF Rep
<1> QED
  BY Zenon, <1>1 DEF Count

LEMMA CountNext ==
  ASSUME NEW s, NEW n \in Nat
  PROVE  Count(s, n + 1) = IF s[n + 1].rec.kind = "empty" THEN Count(s, n) ELSE Count(s, n) + 1
<1>1. CASE s[n + 1].rec.kind = "empty"
  <2>1. Rep(s, n + 1) = Rep(s, n)
    BY <1>1 DEF Rep
  <2> QED
    BY Zenon, <1>1, <2>1 DEF Count
<1>2. CASE s[n + 1].rec.kind # "empty"
  <2>1. Rep(s, n + 1) = Rep(s, n) \cup {n + 1} /\ n + 1 \notin Rep(s, n)
    BY <1>2 DEF Rep
  <2> QED
    BY Zenon, <1>2, <2>1, CountType, FS_AddElement DEF Count
<1> QED
  BY Zenon, <1>1, <1>2

LEMMA CountUpTo ==
  ASSUME NEW s, NEW n \in Nat, NEW j \in 1 .. n
  PROVE  Count(s, j) <= Count(s, n) /\ (s[j].rec.kind # "empty" => Count(s, j) >= 1)
<1>1. Rep(s, j) \subseteq Rep(s, n)
  BY DEF Rep
<1>2. Count(s, j) <= Count(s, n)
  BY Zenon, <1>1, CountType, FS_Subset DEF Count
<1>3. j - 1 \in Nat /\ (j - 1) + 1 = j
  OBVIOUS
<1>4. s[j].rec.kind # "empty" => Count(s, j) = Count(s, j - 1) + 1
  BY Zenon, <1>3, CountNext
<1> QED
  BY <1>2, <1>3, <1>4, CountType

\* Without the first place the others count as before.
LEMMA CountTail ==
  ASSUME NEW s, NEW t, NEW n \in Nat, \A i \in 1 .. n : t[i] = s[i + 1]
  PROVE  Count(s, n + 1) = IF s[1].rec.kind = "empty" THEN Count(t, n) ELSE Count(t, n) + 1
<1> DEFINE R == Rep(s, n + 1) \ {1}
           f == [i \in Rep(t, n) |-> i + 1]
<1>1. f \in [Rep(t, n) -> R]
  BY DEF Rep
<1>2. \A i, j \in Rep(t, n) : f[i] = f[j] => i = j
  BY DEF Rep
<1>3. \A k \in R : k - 1 \in Rep(t, n) /\ f[k - 1] = k
  BY DEF Rep
<1>4. f \in Bijection(Rep(t, n), R)
  BY Zenon, <1>1, <1>2, <1>3 DEF Bijection, Injection, Surjection, IsInjective
<1>5. Cardinality(R) = Count(t, n)
  BY <1>4, CountType, FS_Bijection DEF ExistsBijection, Count
<1>6. 1 \in Rep(s, n + 1) <=> s[1].rec.kind # "empty"
  BY DEF Rep
<1>7. Cardinality(R) = IF 1 \in Rep(s, n + 1) THEN Count(s, n + 1) - 1 ELSE Count(s, n + 1)
  BY CountType, FS_RemoveElement DEF Count
<1>8. Count(s, n + 1) \in Nat /\ Count(t, n) \in Nat
  BY CountType
<1> QED
  BY <1>5, <1>6, <1>7, <1>8

-----------------------------------------------------------------------------
(* Programs and kinds.                                                     *)

LEMMA ToolNames ==
  ASSUME tool \in DOMAIN Kinds
  PROVE  /\ tool \in {"execsnoop", "opensnoop", "bashreadline", "execguard", "keyring_snoop"}
         /\ tool = "execguard" => Kinds[tool] = {"allowed", "denied"}
         /\ tool = "keyring_snoop" => Kinds[tool] = {"large", "small", "refused"}
         /\ "refused" \in Kinds[tool] => tool = "keyring_snoop"
BY DEF Kinds

LEMMA TodoFacts ==
  ASSUME tool \in DOMAIN Kinds
  PROVE  /\ \A k \in Kinds[tool] : Path(k) \in Todos
         /\ \A t \in Todos : /\ Len(t) = 1 \/ Tail(t) \in Todos
                             /\ Head(t) = "on_key_create" => Len(t) = 1 /\ tool = "keyring_snoop"
<1>1. CASE tool = "keyring_snoop"
  <2>1. \A k : Path(k) \in KeyTodos
    BY Zenon, <1>1 DEF Path, KeyTodos
  <2>2. Tail(<<"on_sys_add_key", "on_key_create">>) = <<"on_key_create">>
    OBVIOUS
  <2>3. \A t \in KeyTodos : /\ Len(t) = 1 \/ Tail(t) \in KeyTodos
                            /\ Head(t) = "on_key_create" => Len(t) = 1
    <3> TAKE t \in KeyTodos
    <3>1. CASE t = <<"on_sys_add_key">> \/ t = <<"on_key_create">>
      BY Zenon, <3>1
    <3>2. CASE t = <<"on_sys_add_key", "on_key_create">>
      <4>1. Tail(t) \in KeyTodos /\ Head(t) = "on_sys_add_key"
        BY <2>2, <3>2 DEF KeyTodos
      <4> QED
        BY Zenon, <4>1
    <3> QED
      BY Zenon, <3>1, <3>2 DEF KeyTodos
  <2> QED
    BY Zenon, <1>1, <2>1, <2>3 DEF Todos
<1>2. CASE tool # "keyring_snoop"
  <2> DEFINE q == CASE tool = "execsnoop"    -> "trace_execve"
                    [] tool = "opensnoop"    -> "trace_openat"
                    [] tool = "bashreadline" -> "bash_readline"
                    [] tool = "execguard"    -> "exec_check"
  <2>1. \A k : Path(k) = <<q>>
    <3> SUFFICES ASSUME NEW k PROVE Path(k) = <<q>>
      BY Zenon
    <3>1. CASE tool = "execsnoop"
      <4>1. q = "trace_execve"
        BY Zenon, <3>1
      <4>2. Path(k) = <<"trace_execve">>
        BY Zenon, <3>1 DEF Path
      <4> QED
        BY Zenon, <4>1, <4>2
    <3>2. CASE tool = "opensnoop"
      <4>1. q = "trace_openat"
        BY Zenon, <3>2
      <4>2. Path(k) = <<"trace_openat">>
        BY Zenon, <3>2 DEF Path
      <4> QED
        BY Zenon, <4>1, <4>2
    <3>3. CASE tool = "bashreadline"
      <4>1. q = "bash_readline"
        BY Zenon, <3>3
      <4>2. Path(k) = <<"bash_readline">>
        BY Zenon, <3>3 DEF Path
      <4> QED
        BY Zenon, <4>1, <4>2
    <3>4. CASE tool = "execguard"
      <4>1. q = "exec_check"
        BY Zenon, <3>4
      <4>2. Path(k) = <<"exec_check">>
        BY Zenon, <3>4 DEF Path
      <4> QED
        BY Zenon, <4>1, <4>2
    <3> QED
      BY Zenon, <1>2, <3>1, <3>2, <3>3, <3>4, ToolNames
  <2>2. q # "on_key_create"
    BY Zenon, <1>2, ToolNames
  <2> HIDE DEF q
  <2>3. Program = q
    BY Zenon, <1>2, <2>1 DEF Program
  <2> QED
    BY <1>2, <2>1, <2>2, <2>3 DEF Todos
<1> QED
  BY Zenon, <1>1, <1>2

LEMMA SameTool ==
  ASSUME UNCHANGED tool
  PROVE  Todos' = Todos /\ Recs' = Recs /\ Places' = Places
<1>1. Todos' = Todos
  BY Zenon DEF Todos, Program, Path
<1>2. Recs' = Recs
  BY Zenon, <1>1 DEF Recs
<1> QED
  BY Zenon, <1>1, <1>2 DEF Places

-----------------------------------------------------------------------------
\* Steps of main() between its calls, and signals.
LEMMA QuietKeeps ==
  ASSUME RingInv, UNCHANGED <<tool, ring, lines, task, events, owed, verdicts>>, Detached'
  PROVE  RingInv'
<1> USE DEF RingInv
<1>1. Typed'
  BY Zenon, SameTool DEF Typed
<1>2. Owned' /\ OneFilling' /\ Numbered' /\ Unchanged'
  BY Zenon DEF Owned, OneFilling, Numbered, Unchanged
<1>4. NotRefused'
  BY Zenon DEF NotRefused, IsKey
<1>3. KeyOnce' /\ InOrder' /\ Marked'
  BY DEF KeyOnce, IsKey, Filling, InOrder, Count, Rep, Marked, Suspicious
<1> QED
  BY Zenon, <1>1, <1>2, <1>3, <1>4

\* An event begins, with a number of its own.
LEMMA BeginKeeps ==
  ASSUME RingInv, NEW c \in Cpus, NEW k \in Kinds[tool], Begin(c, k)
  PROVE  RingInv'
<1> USE DEF RingInv
<1> DEFINE x == [id |-> events, kind |-> k, todo |-> Path(k)]
<1>1. /\ task[c] = None /\ events' = events + 1 /\ task' = [task EXCEPT ![c] = x]
      /\ UNCHANGED <<tool, pc, hooks, lines, ring, owed, verdicts>>
  BY Zenon DEF Begin, mainVars
<1>2. x \in [id : Nat, kind : Kinds[tool], todo : Todos] /\ x.id = events
  BY Zenon, TodoFacts DEF Typed
<1> HIDE DEF x
<1>3. /\ task'[c] = x /\ \A d \in Cpus \ {c} : task'[d] = task[d]
      /\ task' \in [Cpus -> [id : Nat, kind : Kinds[tool], todo : Todos] \cup {None}]
  BY Zenon, <1>1, <1>2 DEF Typed
<1>4. Typed'
  BY <1>1, <1>3, SameTool DEF Typed
<1>5. Owned'
  BY <1>1, <1>3 DEF Owned
<1>6. /\ \A d \in Cpus : task[d] # None => task[d].id \in Nat /\ task[d].id < events
      /\ \A i \in DOMAIN owed : owed[i].id \in Nat /\ owed[i].id < events
      /\ events \in Nat
  <2>1. \A i \in DOMAIN owed : owed[i] \in Recs
    BY DEF Typed
  <2>2. \A i \in DOMAIN owed : owed[i].id \in Nat
    BY Zenon, <2>1 DEF Recs
  <2>3. \A d \in Cpus : task[d] # None => task[d].id \in Nat
    BY Zenon DEF Typed
  <2> QED
    BY Zenon, <2>2, <2>3 DEF Typed, Numbered
<1>7. Numbered'
  BY <1>1, <1>2, <1>3, <1>6 DEF Numbered
<1>8. KeyOnce'
  <2>1. \A d \in Cpus : Filling(d)' = Filling(d)
    BY Zenon, <1>1 DEF Filling
  <2>2. \A i \in DOMAIN owed : owed[i].id # events
    BY <1>6
  <2> QED
    BY <1>1, <1>2, <1>3, <2>1, <2>2 DEF KeyOnce, IsKey
<1>9. OneFilling' /\ InOrder' /\ Marked' /\ Detached' /\ Unchanged'
  BY Zenon, <1>1 DEF OneFilling, InOrder, Count, Rep, Marked, Suspicious, Detached, Unchanged
<1>10. NotRefused'
  <2>1. x.kind = "refused" => x.todo = <<"on_sys_add_key">>
    BY Zenon, ToolNames DEF x, Path, Typed
  <2> QED
    BY Zenon, <1>1, <1>3, <2>1 DEF NotRefused, IsKey
<1> QED
  BY Zenon, <1>4, <1>5, <1>7, <1>8, <1>9, <1>10

\* The event goes on to its next program, or ends.
LEMMA Advanced ==
  ASSUME Typed, NEW c \in Cpus, task[c] # None, Advance(c), UNCHANGED tool
  PROVE  /\ task' \in [Cpus -> [id : Nat, kind : Kinds[tool], todo : Todos] \cup {None}]
         /\ \A d \in Cpus \ {c} : task'[d] = task[d]
         /\ \/ task'[c] = None
            \/ /\ task'[c].id = task[c].id /\ task'[c].kind = task[c].kind
               /\ Len(task[c].todo) # 1 /\ Head(task[c].todo) # "on_key_create"
<1> DEFINE x == task[c]
<1>1. x \in [id : Nat, kind : Kinds[tool], todo : Todos]
  BY Zenon DEF Typed
<1>2. task' = [task EXCEPT ![c] = IF Len(x.todo) = 1 THEN None ELSE [x EXCEPT !.todo = Tail(x.todo)]]
  BY Zenon DEF Advance
<1>3. CASE Len(x.todo) = 1
  BY Zenon, <1>2, <1>3 DEF Typed
<1>4. CASE Len(x.todo) # 1
  <2> DEFINE y == [x EXCEPT !.todo = Tail(x.todo)]
  <2>1. Tail(x.todo) \in Todos /\ Head(x.todo) # "on_key_create"
    BY Zenon, <1>1, <1>4, TodoFacts DEF Typed
  <2>2. y \in [id : Nat, kind : Kinds[tool], todo : Todos] /\ y.id = x.id /\ y.kind = x.kind
    BY Zenon, <1>1, <2>1
  <2> HIDE DEF y
  <2>3. task' = [task EXCEPT ![c] = y]
    BY Zenon, <1>2, <1>4 DEF y
  <2> QED
    BY Zenon, <1>4, <2>1, <2>2, <2>3 DEF Typed
<1> QED
  BY Zenon, <1>3, <1>4

LEMMA RefusedKept ==
  ASSUME Typed, NotRefused, NEW c \in Cpus, task[c] # None, Advance(c), UNCHANGED <<tool, owed>>
  PROVE  NotRefused'
<1>1. /\ \A d \in Cpus \ {c} : task'[d] = task[d]
      /\ task'[c] = None \/ (task'[c].kind = task[c].kind /\ Len(task[c].todo) # 1)
  BY Zenon, Advanced
<1>2. Len(<<"on_sys_add_key">>) = 1
  BY Zenon
<1> QED
  BY Zenon, <1>1, <1>2 DEF NotRefused, IsKey

\* exec_check() returns what it was given.
LEMMA Returned ==
  ASSUME Typed, Unchanged, NEW c \in Cpus, task[c] # None, Return(task[c])
  PROVE  Unchanged'
<1>1. task[c].kind \in Kinds[tool]
  BY Zenon DEF Typed
<1>2. tool = "execguard" => Verdict(task[c].kind) = task[c].kind
  BY Zenon, <1>1, ToolNames DEF Typed, Verdict, Wanted
<1> QED
  BY <1>2 DEF Return, Unchanged

\* The ids of a CPU's event do not change while it goes on.
LEMMA NumbersKept ==
  ASSUME Numbered, UNCHANGED <<events, owed>>,
         \A d \in Cpus : task'[d] # None => task[d] # None /\ task'[d].id = task[d].id
  PROVE  Numbered'
BY Zenon DEF Numbered

LEMMA PassKeeps ==
  ASSUME RingInv, NEW c \in Cpus, Pass(c)
  PROVE  RingInv'
<1> USE DEF RingInv
<1>1. /\ task[c] # None /\ Filling(c) = {} /\ Advance(c) /\ (Return(task[c]) \/ UNCHANGED verdicts)
      /\ UNCHANGED <<tool, pc, hooks, lines, ring, events, owed>>
  BY Zenon DEF Pass, mainVars
<1>2. /\ task' \in [Cpus -> [id : Nat, kind : Kinds[tool], todo : Todos] \cup {None}]
      /\ \A d \in Cpus \ {c} : task'[d] = task[d]
      /\ task'[c] = None \/ task'[c].id = task[c].id
  BY Zenon, <1>1, Advanced
<1>3. Typed'
  BY Zenon, <1>1, <1>2, SameTool DEF Typed
<1>4. Owned'
  BY <1>1, <1>2 DEF Owned, Filling
<1>5. Numbered'
  BY Zenon, <1>1, <1>2, NumbersKept
<1>6. KeyOnce'
  <2>1. \A d \in Cpus : Filling(d)' = Filling(d)
    BY Zenon, <1>1 DEF Filling
  <2> QED
    BY <1>1, <1>2, <2>1 DEF KeyOnce, IsKey
<1>7. OneFilling' /\ InOrder' /\ Marked' /\ Detached'
  BY Zenon, <1>1 DEF OneFilling, InOrder, Count, Rep, Marked, Suspicious, Detached
<1>8. Unchanged'
  BY Zenon, <1>1, Returned DEF Unchanged
<1>9. NotRefused'
  BY Zenon, <1>1, RefusedKept
<1> QED
  BY Zenon, <1>3, <1>4, <1>5, <1>6, <1>7, <1>8, <1>9

\* A place is taken at the end of the ring.
LEMMA ReserveKeeps ==
  ASSUME RingInv, NEW c \in Cpus, Reserve(c)
  PROVE  RingInv'
<1> USE DEF RingInv
<1> DEFINE x == task[c]
           r == [id |-> x.id, kind |-> x.kind, prog |-> Head(x.todo)]
           e == [rec |-> r, at |-> "filling", cpu |-> c]
<1>1. /\ x # None /\ Filling(c) = {} /\ Wanted(x.kind) /\ ring' = Append(ring, e)
      /\ owed' = IF Reportable(x.kind) THEN Append(owed, r) ELSE owed
      /\ UNCHANGED <<tool, pc, hooks, lines, task, events, verdicts>>
  BY Zenon DEF Reserve, mainVars
<1>2. x \in [id : Nat, kind : Kinds[tool], todo : Todos]
  BY Zenon, <1>1 DEF Typed
<1>3. /\ r \in Recs /\ r.id = x.id /\ r.kind = x.kind /\ r.prog = Head(x.todo)
      /\ Reportable(x.kind) <=> r.kind # "empty"
  BY Zenon, <1>1, <1>2 DEF Recs, Wanted, Reportable
<1> HIDE DEF r
<1>4. e \in Places /\ e.rec = r /\ e.at = "filling" /\ e.cpu = c
  BY Zenon, <1>3 DEF Places
<1> HIDE DEF e
<1> DEFINE n == Len(ring)
           m == Len(owed)
<1>5. /\ ring' \in Seq(Places) /\ n \in Nat /\ Len(ring') = n + 1 /\ ring'[n + 1] = e
      /\ \A i \in 1 .. n : ring'[i] = ring[i]
      /\ DOMAIN ring = 1 .. n /\ DOMAIN ring' = 1 .. n + 1
  BY <1>1, <1>4 DEF Typed
<1>6. /\ owed' \in Seq(Recs) /\ m \in Nat /\ DOMAIN owed = 1 .. m
      /\ \A i \in 1 .. m : owed'[i] = owed[i]
      /\ r.kind # "empty" => Len(owed') = m + 1 /\ owed'[m + 1] = r
      /\ r.kind = "empty" => owed' = owed
  BY <1>1, <1>3 DEF Typed
<1>6d. DOMAIN owed' = 1 .. Len(owed')
  BY <1>6
<1>6e. \A i \in DOMAIN owed' : i \in DOMAIN owed \/ owed'[i] = r
  <2>1. CASE r.kind = "empty"
    BY Zenon, <1>6, <2>1
  <2>2. CASE r.kind # "empty"
    <3>1. m \in Nat /\ Len(owed') = m + 1 /\ DOMAIN owed = 1 .. m /\ owed'[m + 1] = r
      BY Zenon, <1>6, <2>2
    <3>2. \A i \in 1 .. m + 1 : i \in 1 .. m \/ i = m + 1
      BY <3>1
    <3>3. DOMAIN owed' = 1 .. m + 1
      BY Zenon, <1>6d, <3>1
    <3> QED
      BY Zenon, <3>1, <3>2, <3>3
  <2> QED
    BY Zenon, <2>1, <2>2
<1> HIDE DEF n, m
<1>7. Typed'
  BY Zenon, <1>1, <1>5, <1>6, SameTool DEF Typed
<1>8. Owned'
  BY <1>1, <1>3, <1>4, <1>5 DEF Owned
<1>9. OneFilling'
  BY <1>1, <1>4, <1>5 DEF OneFilling, Filling
<1>10. Numbered'
  BY Zenon, <1>1, <1>3, <1>6, <1>6e DEF Numbered
<1>11. KeyOnce'
  <2>1. \A d \in Cpus : Filling(d) \subseteq Filling(d)'
    BY <1>5 DEF Filling
  <2>2. n + 1 \in Filling(c)'
    BY <1>4, <1>5 DEF Filling
  <2>3. \A i \in DOMAIN owed : IsKey(owed[i]) => owed[i].id # r.id
    BY Zenon, <1>1, <1>3 DEF KeyOnce
  <2>4. \A d \in Cpus : task[d] # None /\ task[d].id = r.id => d = c
    BY Zenon, <1>1, <1>3 DEF Numbered
  <2>5. CASE r.kind = "empty"
    BY <1>1, <1>6, <2>1, <2>5 DEF KeyOnce, IsKey
  <2>6. CASE r.kind # "empty"
    <3>0. m \in Nat
      BY Zenon, <1>6
    <3>1. DOMAIN owed' = 1 .. m + 1 /\ \A i \in 1 .. m + 1 : i \in 1 .. m \/ i = m + 1
      <4>1. \A i \in 1 .. m + 1 : i \in 1 .. m \/ i = m + 1
        BY <3>0
      <4> QED
        BY Zenon, <1>6, <1>6d, <2>6, <4>1
    <3>2. \A i, j \in DOMAIN owed' : IsKey(owed'[i]) /\ IsKey(owed'[j]) /\ owed'[i].id = owed'[j].id => i = j
      <4> SUFFICES ASSUME NEW i \in 1 .. m + 1, NEW j \in 1 .. m + 1,
                          IsKey(owed'[i]), IsKey(owed'[j]), owed'[i].id = owed'[j].id
                   PROVE  i = j
        BY Zenon, <3>1
      <4>1. CASE i \in 1 .. m /\ j \in 1 .. m
        BY Zenon, <1>6, <4>1 DEF KeyOnce
      <4>2. CASE i = m + 1 /\ j \in 1 .. m
        BY Zenon, <1>6, <2>3, <2>6, <4>2
      <4>3. CASE i \in 1 .. m /\ j = m + 1
        BY Zenon, <1>6, <2>3, <2>6, <4>3
      <4> QED
        BY Zenon, <3>0, <3>1, <4>1, <4>2, <4>3
    <3>3. ASSUME NEW i \in DOMAIN owed', NEW d \in Cpus, IsKey(owed'[i]), task[d] # None, task[d].id = owed'[i].id
          PROVE  Filling(d)' # {} /\ Head(task[d].todo) = "on_key_create"
      <4>1. CASE i = m + 1
        <5>1. owed'[i] = r
          BY Zenon, <1>6, <2>6, <4>1
        <5>2. d = c
          BY Zenon, <2>4, <3>3, <5>1
        <5> QED
          BY Zenon, <1>3, <2>2, <3>3, <5>1, <5>2 DEF IsKey
      <4>2. CASE i \in 1 .. m
        BY Zenon, <1>6, <2>1, <3>3, <4>2 DEF KeyOnce
      <4> QED
        BY Zenon, <3>1, <4>1, <4>2
    <3> QED
      BY Zenon, <1>1, <3>2, <3>3 DEF KeyOnce, IsKey
  <2> QED
    BY Zenon, <2>5, <2>6
<1>12. InOrder'
  <2> DEFINE l == Len(lines)
  <2>1. l \in Nat /\ DOMAIN lines = 1 .. l /\ lines' = lines
    BY <1>1 DEF Typed
  <2>2. m = l + Count(ring, n) /\ \A i \in 1 .. l : i \in 1 .. m /\ owed[i] = lines[i].rec
    BY Zenon, <1>6, <2>1 DEF InOrder, n, m
  <2> HIDE DEF l
  <2>3. \A j \in 0 .. n : Count(ring', j) = Count(ring, j) /\ Count(ring, j) \in Nat
    BY <1>5, CountSame, CountType
  <2>4. Count(ring', n + 1) = IF r.kind = "empty" THEN Count(ring, n) ELSE Count(ring, n) + 1
    <3>1. n \in Nat /\ Count(ring', n) = Count(ring, n)
      BY <1>5, <2>3
    <3>2. ring'[n + 1].rec.kind = r.kind
      BY Zenon, <1>4, <1>5
    <3> QED
      BY Zenon, <3>1, <3>2, CountNext
  <2>5. Len(owed') = l + Count(ring', n + 1)
    <3>1. Count(ring, n) \in Nat
      BY <1>5, <2>3
    <3> QED
      BY <1>6, <2>1, <2>2, <2>4, <3>1 DEF m
  <2>6. ASSUME NEW j \in 1 .. n + 1, ring'[j].rec.kind # "empty"
        PROVE  owed'[l + Count(ring', j)] = ring'[j].rec
    <3>1. CASE j = n + 1
      BY <1>4, <1>5, <1>6, <2>1, <2>2, <2>3, <2>4, <2>6, <3>1
    <3>2. CASE j \in 1 .. n
      <4>1. Count(ring, j) <= Count(ring, n) /\ Count(ring, j) >= 1 /\ Count(ring', j) = Count(ring, j)
        BY <1>5, <2>3, <2>6, <3>2, CountUpTo
      <4>2. l + Count(ring, j) \in 1 .. m
        <5>1. Count(ring, n) \in Nat /\ Count(ring, j) \in Nat
          BY <1>5, <2>3, <3>2
        <5> QED
          BY <2>1, <2>2, <4>1, <5>1
      <4>3. owed[l + Count(ring, j)] = ring[j].rec
        BY Zenon, <1>5, <2>6, <3>2 DEF InOrder, l
      <4> QED
        BY Zenon, <1>5, <1>6, <3>2, <4>1, <4>2, <4>3
    <3> QED
      BY <1>5, <3>1, <3>2
  <2> QED
    BY <1>5, <1>6, <1>6d, <2>1, <2>2, <2>5, <2>6 DEF InOrder, l
<1>13. Marked' /\ Detached' /\ Unchanged'
  BY Zenon, <1>1 DEF Marked, Suspicious, Detached, Unchanged
<1>14. NotRefused'
  <2>1. IsKey(r) => r.kind # "refused"
    <3>1. Head(<<"on_sys_add_key">>) # "on_key_create"
      OBVIOUS
    <3> QED
      BY Zenon, <1>1, <1>3, <3>1 DEF NotRefused, IsKey
  <2> QED
    BY Zenon, <1>1, <1>6, <1>6e, <2>1 DEF NotRefused, IsKey
<1> QED
  BY Zenon, <1>7, <1>8, <1>9, <1>10, <1>11, <1>12, <1>13, <1>14

\* The place is submitted or handed back, and the event goes on.
LEMMA FillKeeps ==
  ASSUME RingInv, NEW c \in Cpus, Fill(c)
  PROVE  RingInv'
<1> USE DEF RingInv
<1>1. PICK i \in Filling(c) : ring' = [ring EXCEPT ![i].at = Commit(task[c].kind), ![i].cpu = None]
  BY Zenon DEF Fill
<1>2. /\ i \in DOMAIN ring /\ ring[i].at = "filling" /\ ring[i].cpu = c /\ ring[i] \in Places
      /\ \A j \in DOMAIN ring : ring[j] \in Places
  BY <1>1 DEF Filling, Typed
<1>3. task[c] # None /\ ring[i].rec.kind = task[c].kind
  BY Zenon, <1>2 DEF Owned
<1>4. Return(task[c]) /\ Advance(c) /\ UNCHANGED <<tool, pc, hooks, lines, events, owed>>
  BY Zenon DEF Fill, mainVars
<1>5. /\ task' \in [Cpus -> [id : Nat, kind : Kinds[tool], todo : Todos] \cup {None}]
      /\ \A d \in Cpus \ {c} : task'[d] = task[d]
      /\ task'[c] = None \/ (task'[c].id = task[c].id /\ Head(task[c].todo) # "on_key_create")
  BY Zenon, <1>3, <1>4, Advanced
<1> DEFINE e == [rec |-> ring[i].rec, at |-> Commit(task[c].kind), cpu |-> None]
<1>6. e \in Places /\ e.rec = ring[i].rec /\ e.at = Commit(task[c].kind) /\ e.at \in {"submitted", "discarded"}
  BY Zenon, <1>2 DEF Places, Commit
<1>7. ring'[i] = e
  BY Zenon, <1>1, <1>2 DEF Places, Typed
<1>8. /\ ring' \in Seq(Places) /\ Len(ring') = Len(ring) /\ DOMAIN ring' = DOMAIN ring
      /\ DOMAIN ring = 1 .. Len(ring) /\ Len(ring) \in Nat
      /\ \A j \in DOMAIN ring : j # i => ring'[j] = ring[j]
  <2> HIDE DEF e
  <2> DEFINE n == Len(ring)
  <2>1. n \in Nat /\ ring \in [1 .. n -> Places] /\ DOMAIN ring = 1 .. n
    BY DEF Typed
  <2> HIDE DEF n
  <2>2. DOMAIN ring' = 1 .. n /\ \A j \in 1 .. n : j # i => ring'[j] = ring[j]
    BY Zenon, <1>1, <2>1
  <2>3. ring' = [j \in 1 .. n |-> ring'[j]]
    BY Zenon, <1>1, <2>1
  <2>4. ring' \in [1 .. n -> Places]
    BY Zenon, <1>6, <1>7, <2>1, <2>2, <2>3
  <2>5. ring' \in Seq(Places) /\ Len(ring') = n
    BY <2>1, <2>4
  <2> QED
    BY Zenon, <2>1, <2>2, <2>5 DEF n
<1> HIDE DEF e
<1>9. \A j \in DOMAIN ring : ring'[j].rec = ring[j].rec
  BY Zenon, <1>6, <1>7, <1>8
<1>10. Typed'
  BY Zenon, <1>4, <1>5, <1>8, SameTool DEF Typed
<1>11. \A j \in DOMAIN ring : ring'[j].at = "filling" => j # i /\ ring'[j] = ring[j] /\ ring[j].cpu # c
  BY Zenon, <1>2, <1>6, <1>7, <1>8 DEF OneFilling
<1>12. OneFilling'
  BY Zenon, <1>8, <1>11 DEF OneFilling
<1>13. Owned'
  <2> SUFFICES ASSUME NEW j \in DOMAIN ring
               PROVE  /\ ring'[j].at = "discarded" => ring'[j].rec.kind = "empty"
                      /\ ring'[j].at = "submitted" => ring'[j].rec.kind # "empty"
                      /\ ring'[j].at = "filling" =>
                           LET x == task'[ring'[j].cpu] IN
                             /\ ring'[j].cpu \in Cpus /\ x # None
                             /\ ring'[j].rec.id = x.id /\ ring'[j].rec.kind = x.kind
                             /\ ring'[j].rec.prog = Head(x.todo)
    BY Zenon, <1>8 DEF Owned
  <2>1. CASE j = i
    BY Zenon, <1>3, <1>6, <1>7, <2>1 DEF Commit
  <2>2. CASE j # i
    <3>1. ring'[j] = ring[j]
      BY Zenon, <1>8, <2>2
    <3> QED
      BY <1>5, <1>11, <3>1 DEF Owned
  <2> QED
    BY Zenon, <2>1, <2>2
<1>14. Numbered'
  BY Zenon, <1>3, <1>4, <1>5, NumbersKept
<1>15. KeyOnce'
  <2>1. \A d \in Cpus \ {c} : Filling(d)' = Filling(d)
    BY Zenon, <1>2, <1>8, <1>11 DEF Filling
  <2> QED
    BY <1>3, <1>4, <1>5, <2>1 DEF KeyOnce, IsKey
<1>16. InOrder'
  <2>1. \A j \in 0 .. Len(ring) : Count(ring', j) = Count(ring, j)
    BY <1>8, <1>9, CountSame
  <2> QED
    BY <1>4, <1>8, <1>9, <2>1 DEF InOrder
<1>17. Marked' /\ Detached'
  BY Zenon, <1>4 DEF Marked, Suspicious, Detached
<1>18. Unchanged'
  BY Zenon, <1>3, <1>4, Returned
<1>19. NotRefused'
  BY Zenon, <1>3, <1>4, RefusedKept
<1> QED
  BY Zenon, <1>10, <1>12, <1>13, <1>14, <1>15, <1>16, <1>17, <1>18, <1>19

\* The reader takes the first place, and prints its record unless it was handed back.
LEMMA HandleStep ==
  ASSUME RingInv, handle_event
  PROVE  LET h == ring[1].rec IN
         /\ h \in Recs /\ 1 \in DOMAIN ring /\ ring[1].at # "filling" /\ ring' = Tail(ring)
         /\ IF h.kind = "empty" THEN lines' = lines
            ELSE lines' = Append(lines, [rec |-> h, mark |-> Suspicious(h)])
         /\ pc = "drain" /\ UNCHANGED <<tool, pc, hooks, task, events, owed, verdicts>>
<1> USE DEF RingInv
<1>1. /\ ring # <<>> /\ Head(ring).at # "filling" /\ ring' = Tail(ring)
      /\ lines' = IF Head(ring).at = "discarded" THEN lines
                  ELSE Append(lines, [rec |-> Head(ring).rec, mark |-> Suspicious(Head(ring).rec)])
      /\ pc = "drain" /\ UNCHANGED <<tool, pc, hooks, task, events, owed, verdicts>>
  BY Zenon DEF handle_event, kernelVars
<1>2. 1 \in DOMAIN ring /\ Head(ring) = ring[1] /\ ring[1] \in Places
  BY <1>1 DEF Typed
<1>3. ring[1].rec \in Recs /\ (ring[1].at = "discarded" <=> ring[1].rec.kind = "empty")
  BY <1>1, <1>2 DEF Places, Owned
<1> QED
  BY Zenon, <1>1, <1>2, <1>3

LEMMA HandleKeeps ==
  ASSUME RingInv, handle_event
  PROVE  RingInv'
<1> USE DEF RingInv
<1> DEFINE h == ring[1].rec
           p == [rec |-> h, mark |-> Suspicious(h)]
           n == Len(ring)
           l == Len(lines)
<1>1. /\ h \in Recs /\ 1 \in DOMAIN ring /\ ring[1].at # "filling" /\ ring' = Tail(ring)
      /\ IF h.kind = "empty" THEN lines' = lines ELSE lines' = Append(lines, p)
      /\ UNCHANGED <<tool, pc, hooks, task, events, owed, verdicts>>
  BY Zenon, HandleStep
<1>2. Suspicious(h) \in BOOLEAN
  BY Zenon DEF Suspicious
<1>3. p \in [rec : Recs, mark : BOOLEAN] /\ p.rec = h /\ p.mark = Suspicious(h)
  BY Zenon, <1>1, <1>2
<1> HIDE DEF p, h
<1>4. /\ n \in Nat /\ n - 1 \in Nat /\ (n - 1) + 1 = n /\ DOMAIN ring = 1 .. n
      /\ ring' \in Seq(Places) /\ Len(ring') = n - 1 /\ DOMAIN ring' = 1 .. n - 1
      /\ \A i \in 1 .. n - 1 : ring'[i] = ring[i + 1] /\ i + 1 \in 1 .. n
  BY <1>1 DEF Typed
<1>5. /\ l \in Nat /\ DOMAIN lines = 1 .. l
      /\ lines' \in Seq([rec : Recs, mark : BOOLEAN]) /\ \A i \in 1 .. l : lines'[i] = lines[i]
      /\ h.kind = "empty" => Len(lines') = l
      /\ h.kind # "empty" => Len(lines') = l + 1 /\ lines'[l + 1] = p
  <2> DEFINE L == [rec : Recs, mark : BOOLEAN]
  <2>1. lines \in Seq(L) /\ p \in L
    BY Zenon, <1>3 DEF Typed
  <2> HIDE DEF L
  <2>2. l \in Nat /\ DOMAIN lines = 1 .. l
    BY <2>1
  <2>3. CASE h.kind = "empty"
    <3>1. lines' = lines
      BY Zenon, <1>1, <2>3
    <3> QED
      BY Zenon, <2>1, <2>2, <2>3, <3>1 DEF L
  <2>4. CASE h.kind # "empty"
    <3>1. lines' = Append(lines, p)
      BY Zenon, <1>1, <2>4
    <3>2. /\ lines' \in Seq(L) /\ \A i \in 1 .. l : lines'[i] = lines[i]
          /\ Len(lines') = l + 1 /\ lines'[l + 1] = p
      BY <2>1, <2>2, <3>1
    <3> QED
      BY Zenon, <2>2, <2>4, <3>2 DEF L
  <2> QED
    BY Zenon, <2>3, <2>4
<1> HIDE DEF n, l
<1>5a. l \in Nat /\ Len(lines') = IF h.kind = "empty" THEN l ELSE l + 1
  BY Zenon, <1>5
<1>5b. \A i \in DOMAIN lines' : i \in 1 .. l \/ (h.kind # "empty" /\ i = l + 1)
  <2>1. DOMAIN lines' = 1 .. Len(lines')
    BY <1>5
  <2> QED
    BY <1>5a, <2>1
<1>6. Typed'
  BY Zenon, <1>1, <1>4, <1>5, SameTool DEF Typed
<1>7. Owned' /\ OneFilling'
  BY <1>1, <1>4 DEF Owned, OneFilling
<1>8. Numbered' /\ NotRefused' /\ Detached' /\ Unchanged'
  BY Zenon, <1>1 DEF Numbered, NotRefused, IsKey, Detached, Unchanged
<1>9. KeyOnce'
  <2>1. \A c \in Cpus : Filling(c) # {} => Filling(c)' # {}
    <3> SUFFICES ASSUME NEW c \in Cpus, NEW i \in Filling(c) PROVE Filling(c)' # {}
      BY Zenon
    <3>1. i \in 1 .. n /\ i # 1 /\ ring[i].at = "filling" /\ ring[i].cpu = c
      BY Zenon, <1>1, <1>4 DEF Filling
    <3>2. i - 1 \in 1 .. n - 1 /\ (i - 1) + 1 = i
      BY <1>4, <3>1
    <3>3. i - 1 \in Filling(c)'
      BY Zenon, <1>4, <3>1, <3>2 DEF Filling
    <3> QED
      BY Zenon, <3>3
  <2> QED
    BY Zenon, <1>1, <2>1 DEF KeyOnce, IsKey
<1>10. Marked'
  <2>1. \A i \in 1 .. l : lines'[i].mark = Suspicious(lines'[i].rec)
    BY Zenon, <1>5 DEF Marked
  <2>2. h.kind # "empty" => lines'[l + 1].mark = Suspicious(lines'[l + 1].rec)
    BY Zenon, <1>3, <1>5
  <2> QED
    BY Zenon, <1>5b, <2>1, <2>2 DEF Marked, Suspicious
<1>11. InOrder'
  <2>1. Len(owed) = l + Count(ring, n) /\ \A i \in 1 .. l : i \in DOMAIN owed /\ owed[i] = lines[i].rec
    BY Zenon, <1>5 DEF InOrder, n, l
  <2>2. \A j \in 0 .. n - 1 : /\ Count(ring, j + 1) = IF h.kind = "empty" THEN Count(ring', j) ELSE Count(ring', j) + 1
                             /\ Count(ring, j + 1) \in Nat /\ Count(ring', j) \in Nat
    <3> TAKE j \in 0 .. n - 1
    <3>1. j \in Nat /\ j + 1 \in Nat /\ \A i \in 1 .. j : ring'[i] = ring[i + 1]
      BY <1>4
    <3>2. Count(ring, j + 1) \in Nat /\ Count(ring', j) \in Nat
      BY Zenon, <3>1, CountType
    <3>3. Count(ring, j + 1) = IF ring[1].rec.kind = "empty" THEN Count(ring', j) ELSE Count(ring', j) + 1
      BY <3>1, CountTail
    <3> QED
      BY Zenon, <3>2, <3>3 DEF h
  <2>3. Len(owed) = Len(lines') + Count(ring', n - 1)
    <3>1. /\ Count(ring, n) = IF h.kind = "empty" THEN Count(ring', n - 1) ELSE Count(ring', n - 1) + 1
          /\ Count(ring, n) \in Nat /\ Count(ring', n - 1) \in Nat
      BY <1>4, <2>2
    <3> QED
      BY <1>5a, <2>1, <3>1
  <2>4. h.kind # "empty" => l + 1 \in DOMAIN owed /\ owed[l + 1] = h
    <3> SUFFICES ASSUME h.kind # "empty" PROVE l + 1 \in DOMAIN owed /\ owed[l + 1] = h
      BY Zenon
    <3>1. Count(ring, 1) = 1
      <4>1. Count(ring, 0 + 1) = Count(ring, 0) + 1
        BY CountNext DEF h
      <4> QED
        BY <4>1, CountZero
    <3>2. owed[l + 1] = h
      BY Zenon, <1>1, <3>1 DEF InOrder, h, l
    <3>3. Count(ring, 1) <= Count(ring, n) /\ Count(ring, n) \in Nat
      BY Zenon, <1>1, <1>4, CountUpTo, CountType
    <3>4. l + 1 \in 1 .. Len(owed)
      BY <1>5a, <2>1, <3>1, <3>3
    <3> QED
      BY <3>2, <3>4 DEF Typed
  <2>5. \A i \in DOMAIN lines' : i \in DOMAIN owed /\ owed[i] = lines'[i].rec
    BY Zenon, <1>3, <1>5, <1>5b, <2>1, <2>4
  <2>6. ASSUME NEW j \in 1 .. n - 1, ring'[j].rec.kind # "empty"
        PROVE  owed[Len(lines') + Count(ring', j)] = ring'[j].rec
    <3>1. owed[l + Count(ring, j + 1)] = ring[j + 1].rec /\ ring'[j] = ring[j + 1]
      BY Zenon, <1>4, <2>6 DEF InOrder, l
    <3>2. Len(lines') + Count(ring', j) = l + Count(ring, j + 1)
      <4>1. j \in 0 .. n - 1
        BY <1>4
      <4> QED
        BY <1>5a, <2>2, <4>1
    <3> QED
      BY Zenon, <3>1, <3>2
  <2> QED
    BY Zenon, <1>1, <1>4, <2>3, <2>5, <2>6 DEF InOrder
<1> QED
  BY Zenon, <1>6, <1>7, <1>8, <1>9, <1>10, <1>11

-----------------------------------------------------------------------------
LEMMA InitHolds == Init => RingInv
<1> SUFFICES ASSUME Init PROVE RingInv
  BY Zenon
<1>1. /\ tool \in DOMAIN Kinds /\ ring = <<>> /\ lines = <<>> /\ owed = <<>> /\ task = [c \in Cpus |-> None]
      /\ events = 0 /\ verdicts = {} /\ hooks = {}
  BY Zenon, ToolsAssumption DEF Init
<1>2. Typed
  BY <1>1 DEF Typed
<1>3. InOrder
  BY <1>1, CountZero DEF InOrder
<1>4. Owned /\ OneFilling /\ Numbered /\ KeyOnce /\ NotRefused /\ Marked /\ Detached /\ Unchanged
  BY <1>1 DEF Owned, OneFilling, Numbered, KeyOnce, NotRefused, Marked, Detached, Unchanged
<1> QED
  BY Zenon, <1>2, <1>3, <1>4 DEF RingInv

\* Only an attach makes a program run, and only main()'s end takes it away.
LEMMA MainKeeps ==
  ASSUME RingInv, Main \/ PollFails \/ Signal
  PROVE  RingInv'
<1> DEFINE Quiet == UNCHANGED <<tool, ring, lines, task, events, owed, verdicts>>
<1>1. CASE handle_event
  BY Zenon, <1>1, HandleKeeps
<1>2. CASE Load \/ NewRing \/ Handlers \/ Loop \/ Poll \/ PollReturns \/ PollFails
  <2>1. Quiet /\ hooks' = hooks /\ (pc = "load" \/ pc' \notin {"load", "attach", "exited"})
    BY Zenon, <1>2 DEF Load, NewRing, Handlers, Loop, Poll, PollReturns, PollFails, kernelVars
  <2> QED
    BY Zenon, <2>1, QuietKeeps DEF RingInv, Detached
<1>3. CASE Attach \/ AttachTracepoint \/ Cleanup
  <2>1. Quiet /\ (hooks' = {} \/ pc' \notin {"load", "attach", "exited"})
    BY Zenon, <1>3 DEF Attach, AttachTracepoint, Cleanup, kernelVars
  <2> QED
    BY Zenon, <2>1, QuietKeeps DEF Detached
<1>4. CASE Signal
  <2>1. Quiet /\ (hooks' = {} \/ (hooks' = hooks /\ (pc' = pc \/ pc' \notin {"load", "attach", "exited"})))
    BY Zenon, <1>4 DEF Signal, AfterEintr, kernelVars
  <2> QED
    BY Zenon, <2>1, QuietKeeps DEF RingInv, Detached
<1> QED
  BY Zenon, <1>1, <1>2, <1>3, <1>4 DEF Main

LEMMA StepKeeps == RingInv /\ [Next]_vars => RingInv'
<1> SUFFICES ASSUME RingInv, [Next]_vars PROVE RingInv'
  BY Zenon
<1>1. CASE UNCHANGED vars
  BY Zenon, <1>1, QuietKeeps DEF vars, RingInv, Detached
<1>2. CASE Main \/ PollFails \/ Signal
  BY Zenon, <1>2, MainKeeps
<1>3. ASSUME NEW c \in Cpus, Run(c) PROVE RingInv'
  BY Zenon, <1>3, PassKeeps, ReserveKeeps, FillKeeps DEF Run
<1>4. ASSUME NEW c \in Cpus, NEW k \in Kinds[tool], Begin(c, k) PROVE RingInv'
  BY Zenon, <1>4, BeginKeeps
<1> QED
  BY Zenon, <1>1, <1>2, <1>3, <1>4 DEF Next

LEMMA Inductive == Spec => []RingInv
BY InitHolds, StepKeeps, PTL DEF Spec

\* execguard passes every verdict on as it was, be the ring full or not, and prints
\* "allow" only for an execution that no LSM before it denied.
THEOREM VerdictsRight == Spec => []VerdictKept
<1>1. RingInv => VerdictKept
  <2> SUFFICES ASSUME RingInv PROVE VerdictKept
    BY Zenon
  <2>1. \A i \in DOMAIN lines : lines[i].rec \in Recs
    <3>1. \A i \in DOMAIN owed : owed[i] \in Recs
      BY DEF RingInv, Typed
    <3> QED
      BY Zenon, <3>1 DEF RingInv, InOrder
  <2>2. tool = "execguard" => \A i \in DOMAIN lines : lines[i].rec.kind = "allowed"
    BY Zenon, <2>1, ToolNames DEF RingInv, Typed, Recs
  <2> QED
    BY Zenon, <2>2 DEF RingInv, Unchanged, VerdictKept
<1> QED
  BY <1>1, Inductive, PTL

\* keyring_snoop marks one line for each large add_key() whose record at the entry of
\* key_create_or_update() found room, with or without its tracepoint, and none for a
\* call turned back before that function.
THEOREM MarksRight == Spec => []MarkExact
<1>1. RingInv => MarkExact
  <2> SUFFICES ASSUME RingInv PROVE MarkExact
    OBVIOUS
  <2> USE DEF RingInv
  <2> DEFINE marked  == {i \in DOMAIN lines : lines[i].mark}
             offered == {i \in DOMAIN owed : owed[i].prog = "on_key_create" /\ owed[i].kind = "large"}
  <2>1. /\ \A i \in DOMAIN owed : owed[i] \in Recs
        /\ \A i \in DOMAIN lines : i \in DOMAIN owed /\ owed[i] = lines[i].rec
    BY DEF Typed, InOrder
  <2>2. \A i \in DOMAIN lines : lines[i].mark <=> IsKey(owed[i]) /\ owed[i].kind \in {"large", "refused"}
    BY Zenon, <2>1 DEF Marked, Suspicious, IsKey, Large
  <2>3. marked = {i \in DOMAIN lines : i \in offered}
    BY Zenon, <2>1, <2>2 DEF NotRefused, IsKey
  <2>4. \A i, j \in marked : lines[i].rec.id = lines[j].rec.id => i = j
    BY <2>1, <2>3 DEF KeyOnce, IsKey
  <2>5. ring = <<>> => marked = offered
    <3> SUFFICES ASSUME ring = <<>> PROVE marked = offered
      BY Zenon
    <3>1. Count(ring, Len(ring)) = 0
      BY Zenon, CountZero
    <3>2. Len(owed) = Len(lines)
      BY <3>1 DEF InOrder, Typed
    <3>3. DOMAIN owed = DOMAIN lines
      BY <3>2 DEF Typed
    <3> QED
      BY Zenon, <2>3, <3>3
  <2>6. ring = <<>> => {lines[i].rec.id : i \in marked} = {owed[i].id : i \in offered}
    <3> HIDE DEF offered
    <3>1. \A i \in marked : lines[i].rec.id = owed[i].id
      BY Zenon, <2>1
    <3> HIDE DEF marked
    <3> QED
      BY Zenon, <2>5, <3>1
  <2> QED
    BY Zenon, <2>4, <2>6 DEF MarkExact
<1> QED
  BY <1>1, Inductive, PTL

-----------------------------------------------------------------------------
(* RingTools implements the safety part of ReportLog.                      *)

Told == [i \in DOMAIN lines |-> lines[i].rec]
Over == pc = "exited"

\* Steps that neither accept a record nor print one.
LEMMA LogStutter ==
  ASSUME UNCHANGED <<owed, lines>>, pc = "exited" => pc' = "exited"
  PROVE  [Log!Take \/ Log!Tell \/ Log!End]_(Log!vars)
<1>1. Told' = Told /\ owed' = owed
  BY Zenon DEF Told
<1>2. CASE Over' = Over
  BY Zenon, <1>1, <1>2 DEF Log!vars, Told, Over
<1>3. CASE Over' = TRUE
  BY Zenon, <1>1, <1>3 DEF Log!End, Told, Over
<1>4. Over' = Over \/ Over' = TRUE
  <2>1. Over \in BOOLEAN /\ Over' \in BOOLEAN /\ (Over => Over')
    BY Zenon DEF Over
  <2> QED
    BY Zenon, <2>1
<1> QED
  BY Zenon, <1>2, <1>3, <1>4

LEMMA LogTake ==
  ASSUME RingInv, NEW c \in Cpus, Reserve(c)
  PROVE  [Log!Take \/ Log!Tell \/ Log!End]_(Log!vars)
<1> USE DEF RingInv
<1> DEFINE r == [id |-> task[c].id, kind |-> task[c].kind, prog |-> Head(task[c].todo)]
<1>1. /\ r.prog \in hooks /\ owed' = (IF Reportable(task[c].kind) THEN Append(owed, r) ELSE owed)
      /\ UNCHANGED <<lines, pc>>
  BY Zenon DEF Reserve, mainVars
<1> HIDE DEF r
<1>2. pc # "exited"
  BY Zenon, <1>1 DEF Detached
<1>3. CASE owed' = owed
  BY Zenon, <1>1, <1>3, LogStutter
<1>4. CASE owed' = Append(owed, r)
  <2>1. owed \in Seq(Recs)
    BY Zenon DEF Typed
  <2>2. Len(owed') = Len(owed) + 1 /\ SubSeq(owed', 1, Len(owed)) = owed
    BY <1>4, <2>1
  <2>3. Told' = Told /\ Over' = Over /\ ~Over
    BY Zenon, <1>1, <1>2 DEF Told, Over
  <2> QED
    BY Zenon, <2>2, <2>3 DEF Log!Take, Log!GrowsByOne, Told, Over
<1> QED
  BY Zenon, <1>1, <1>3, <1>4

LEMMA LogTell ==
  ASSUME RingInv, RingInv', handle_event
  PROVE  [Log!Take \/ Log!Tell \/ Log!End]_(Log!vars)
<1> DEFINE h == ring[1].rec
           l == Len(lines)
<1>1. /\ IF h.kind = "empty" THEN lines' = lines
         ELSE lines' = Append(lines, [rec |-> h, mark |-> Suspicious(h)])
      /\ pc = "drain" /\ UNCHANGED <<pc, owed>>
  BY Zenon, HandleStep
<1>2. CASE lines' = lines
  BY Zenon, <1>1, <1>2, LogStutter
<1>3. CASE lines' = Append(lines, [rec |-> h, mark |-> Suspicious(h)])
  <2>1. lines \in Seq([rec : Recs, mark : BOOLEAN]) /\ owed \in Seq(Recs)
    BY Zenon DEF RingInv, Typed
  <2>2. l \in Nat /\ DOMAIN lines = 1 .. l
    BY <2>1
  <2>3. DOMAIN lines' = 1 .. l + 1 /\ \A i \in 1 .. l : lines'[i] = lines[i]
    BY <1>3, <2>1
  <2> HIDE DEF l, h
  <2>4. \A i \in 1 .. l + 1 : i \in DOMAIN owed /\ owed[i] = lines'[i].rec
    BY Zenon, <1>1, <2>3 DEF RingInv, InOrder
  <2>5. Told \in Seq(Recs) /\ Len(Told) = l
    <3>1. \A i \in 1 .. l : lines[i].rec \in Recs
      <4>1. \A i \in 1 .. l : owed[i] = lines[i].rec /\ i \in DOMAIN owed
        BY <2>2, <2>3, <2>4
      <4> QED
        BY <2>1, <4>1
    <3> QED
      BY <2>2, <3>1 DEF Told
  <2>6. Told' = Append(Told, owed[l + 1])
    <3>1. Told' = [i \in 1 .. l + 1 |-> owed[i]]
      BY Zenon, <2>3, <2>4 DEF Told
    <3>2. \A i \in 1 .. l : Told[i] = owed[i]
      BY <2>2, <2>3, <2>4 DEF Told
    <3> QED
      BY <2>2, <2>5, <3>1, <3>2
  <2>7. l < Len(owed)
    BY <2>1, <2>2, <2>4
  <2>8. ~Over /\ Over' = Over
    BY Zenon, <1>1 DEF Over
  <2> QED
    BY Zenon, <1>1, <2>5, <2>6, <2>7, <2>8 DEF Log!Tell, Told, Over
<1> QED
  BY Zenon, <1>1, <1>2, <1>3

\* The lines of a tool are those of the reportable events that found room in its ring,
\* in the order in which they did, each once: trace_*(), bash_readline(), exec_check(),
\* on_key_create() and the poll loop implement ReportLog, up to its liveness.
THEOREM LogFaithful == Spec => Log!Faithful
<1>1. Init => Log!Init
  <2> SUFFICES ASSUME Init PROVE Log!Init
    BY Zenon
  <2>1. lines = <<>> /\ owed = <<>> /\ pc = "load"
    BY Zenon DEF Init
  <2>2. Told = <<>> /\ Over = FALSE
    BY <2>1 DEF Told, Over
  <2> QED
    BY Zenon, <2>1, <2>2 DEF Log!Init, Told, Over
<1>2. RingInv /\ RingInv' /\ [Next]_vars => [Log!Take \/ Log!Tell \/ Log!End]_(Log!vars)
  <2> SUFFICES ASSUME RingInv, RingInv', [Next]_vars PROVE [Log!Take \/ Log!Tell \/ Log!End]_(Log!vars)
    BY Zenon
  <2>1. CASE UNCHANGED vars
    BY Zenon, <2>1, LogStutter DEF vars
  <2>2. CASE handle_event
    BY Zenon, <2>2, LogTell
  <2>3. CASE Load \/ Attach \/ AttachTracepoint \/ NewRing \/ Handlers \/ Loop \/ Poll \/ PollReturns
             \/ Cleanup \/ PollFails \/ Signal
    <3>1. UNCHANGED <<owed, lines>> /\ pc # "exited"
      BY Zenon, <2>3 DEF Load, Attach, AttachTracepoint, NewRing, Handlers, Loop, Poll, PollReturns, Cleanup, PollFails,
         Signal, kernelVars
    <3> QED
      BY Zenon, <3>1, LogStutter
  <2>4. ASSUME NEW c \in Cpus, Reserve(c) PROVE [Log!Take \/ Log!Tell \/ Log!End]_(Log!vars)
    BY Zenon, <2>4, LogTake
  <2>5. ASSUME NEW c \in Cpus, Pass(c) \/ Fill(c) \/ \E k \in Kinds[tool] : Begin(c, k)
        PROVE  [Log!Take \/ Log!Tell \/ Log!End]_(Log!vars)
    <3>1. UNCHANGED <<owed, lines, pc>>
      BY Zenon, <2>5 DEF Pass, Fill, Begin, mainVars
    <3> QED
      BY Zenon, <3>1, LogStutter
  <2> QED
    BY Zenon, <2>1, <2>2, <2>3, <2>4, <2>5 DEF Next, Main, Run
<1> QED
  BY <1>1, <1>2, Inductive, PTL DEF Spec, Log!Faithful
=============================================================================
