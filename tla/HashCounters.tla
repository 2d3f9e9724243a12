----------------------------- MODULE HashCounters ----------------------------
(***************************************************************************)
(* Event counters in a shared hash map: 02-maps and 24-pythonbpf (execve() *)
(* per uid, per pid: read, add, write back) and 16-bpftool (openat() per   *)
(* uid: atomic add, insert with BPF_NOEXIST).  A lookup gives a pointer    *)
(* into an element of the map; a program reads or changes the element      *)
(* later, and other CPUs come between.  An update of a key that is there   *)
(* puts the new value into the CPU's spare element and keeps the old       *)
(* element, to which others may still point, as the next spare.            *)
(***************************************************************************)
EXTENDS Naturals, FiniteSets

CONSTANTS
  Cpus,
  Uids,         \* keys: user ids (02, 16) or pids (24)
  MaxEntries,   \* max_entries of the map
  MaxEvents,    \* bound: events in one behaviour
  None

\* A key enters the map once, for nothing is deleted: its first element is named by the
\* key, and the spare a CPU starts with by the CPU.
Elements == Uids \cup Cpus

ASSUME CountersAssumption ==
  /\ IsFiniteSet(Cpus) /\ MaxEvents \in Nat /\ MaxEntries \in Nat
  /\ None \notin Nat \cup Elements /\ Uids \cap Cpus = {}

VARIABLES
  atomic,    \* does 16's count_open() run, or one of 02's hello() and 24's count_exec()?
  home,      \* uid -> the element that holds its count, or None
  val,       \* element -> the value in it
  spare,     \* CPU -> its spare element
  at,        \* CPU -> the program it is in: its key, its pointer, and the value it read
  begun,     \* events so far
  handled,   \* ghost: uid -> programs that ran to their end
  done,      \* ghost: programs that ran to their end, of all uids
  raced      \* ghost: uids for which two programs ran at the same time

mapVars == <<home, val, spare>>
vars == <<atomic, mapVars, at, begun, handled, done, raced>>

Frame == [uid : Uids, ptr : Elements \cup {None}, found : Nat \cup {None}]
Entries == {x \in Uids : home[x] # None}

TypeOK ==
  /\ atomic \in BOOLEAN /\ home \in [Uids -> Elements \cup {None}] /\ val \in [Elements -> Nat]
  /\ spare \in [Cpus -> Elements] /\ at \in [Cpus -> Frame \cup {None}] /\ begun \in 0..MaxEvents
  /\ handled \in [Uids -> 0..MaxEvents] /\ done \in 0..MaxEvents /\ raced \subseteq Uids
  /\ Cardinality(Entries) <= MaxEntries

Init ==
  /\ atomic \in BOOLEAN /\ home = [u \in Uids |-> None] /\ val = [e \in Elements |-> 0]
  /\ spare = [c \in Cpus |-> c] /\ at = [c \in Cpus |-> None]
  /\ begun = 0 /\ handled = [u \in Uids |-> 0] /\ done = 0 /\ raced = {}

\* The program starts and looks its key up.
Lookup(c, u) ==
  /\ at[c] = None /\ begun < MaxEvents /\ begun' = begun + 1
  /\ at' = [at EXCEPT ![c] = [uid |-> u, ptr |-> home[u], found |-> None]]
  /\ raced' = raced \cup ({u} \cap {at[d].uid : d \in {d \in Cpus : at[d] # None}})
  /\ UNCHANGED <<atomic, mapVars, handled, done>>

\* *p, deref(prev): what is in the element by now.
Read(c) ==
  /\ ~atomic /\ at[c] # None /\ at[c].ptr # None /\ at[c].found = None
  /\ at' = [at EXCEPT ![c].found = val[at[c].ptr]]
  /\ UNCHANGED <<atomic, mapVars, begun, handled, done, raced>>

\* bpf_map_update_elem(): a full map refuses a new key.
Room(u) == home[u] # None \/ Cardinality(Entries) < MaxEntries
NewElement(u, n) ==
  IF Room(u) THEN home' = [home EXCEPT ![u] = u] /\ val' = [val EXCEPT ![u] = n] /\ UNCHANGED spare
             ELSE UNCHANGED mapVars
Recycle(c, u, n) ==
  /\ home' = [home EXCEPT ![u] = spare[c]] /\ val' = [val EXCEPT ![spare[c]] = n]
  /\ spare' = [spare EXCEPT ![c] = home[u]]
Update(c, u, n) == IF home[u] = None THEN NewElement(u, n) ELSE Recycle(c, u, n)

\* count_open(): __sync_fetch_and_add on the element, or an insert that loses to
\* one another CPU made meanwhile.
\* (Mutant: BPF_ANY, the insert overwrites.)
InsertAny(c, u) == Update(c, u, 1)
\* (Mutant: init is 0.)
InsertZero(c, u) == IF home[u] = None THEN NewElement(u, 0) ELSE UNCHANGED mapVars
Insert(c, u) == IF home[u] = None THEN NewElement(u, 1) ELSE UNCHANGED mapVars
Add(x) == val' = [val EXCEPT ![x.ptr] = @ + 1] /\ UNCHANGED <<home, spare>>
CountOpen(c, x) == IF x.ptr # None THEN Add(x) ELSE Insert(c, x.uid)

\* hello(), count_exec(): the value that was read, plus one, is written back.
\* (Mutant: "(prev or 0) + 1", which tests the pointer.)
PlusTruth(x) == (IF x.ptr = None THEN 0 ELSE 1) + 1
PlusOne(x) == (IF x.ptr = None THEN 0 ELSE x.found) + 1
WriteBack(c, x) == (x.ptr # None => x.found # None) /\ Update(c, x.uid, PlusOne(x))

Finish(c) ==
  /\ at[c] # None
  /\ IF atomic THEN CountOpen(c, at[c]) ELSE WriteBack(c, at[c])
  /\ handled' = [handled EXCEPT ![at[c].uid] = @ + 1] /\ done' = done + 1
  /\ at' = [at EXCEPT ![c] = None]
  /\ UNCHANGED <<atomic, begun, raced>>

Next == \E c \in Cpus : Read(c) \/ Finish(c) \/ \E u \in Uids : Lookup(c, u)
Spec == Init /\ [][Next]_vars

-----------------------------------------------------------------------------
\* What user space reads for u.
Value(u) == IF home[u] = None THEN 0 ELSE val[home[u]]

\* A uid that has an entry is counted exactly, as long as no two of its events
\* are handled at the same time, whatever is recycled for the others.
CountExact == \A u \in Uids \ raced : home[u] # None => Value(u) = handled[u]

\* With the atomic add a count never goes down, whatever runs at the same time.
Cumulative ==
  [][atomic => \A u \in Uids : home[u] # None => home'[u] # None /\ Value(u)' >= Value(u)]_vars

\* count_open() counts no event twice, and the race for the first insert costs a uid
\* at most one event per other CPU: after that every event is counted.  hello() and
\* count_exec() may read another uid's count through a pointer whose element has been
\* recycled, and so show a uid more events than it had; but no count is ever higher
\* than the events of all uids together.
CountBounded ==
  \A u \in Uids :
    /\ Value(u) <= done
    /\ atomic => Value(u) <= handled[u]
    /\ atomic /\ Room(u) /\ handled[u] > 0 => handled[u] + 1 <= Value(u) + Cardinality(Cpus)
=============================================================================
