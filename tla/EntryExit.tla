------------------------------ MODULE EntryExit ------------------------------
(***************************************************************************)
(* Entry/exit correlation, the pattern of 10-openat-ret and 11-connect: a  *)
(* program on sys_enter stashes the arguments of a call under the pid (the *)
(* tgid, so all threads of a process share it), a program on sys_exit      *)
(* looks the stash up, copies it into a ring-buffer record and deletes it. *)
(* opensnoop stashes every openat(); netsnoop copies 128 bytes from the    *)
(* address given to connect() and stashes them only for IP addresses.  In  *)
(* a behaviour one of the two tools runs.                                  *)
(*                                                                         *)
(* The stash is a preallocated BPF_MAP_TYPE_HASH: a lookup returns a       *)
(* pointer to an element, an update of a present key swaps in a free       *)
(* element, and a freed element is reused at once.                         *)
(***************************************************************************)
EXTENDS Naturals, Sequences, FiniteSets

CONSTANTS
  Pids,        \* process ids (tgid)
  Threads,     \* threads
  PidOf,       \* the process of each thread
  Args,        \* arguments of the traced call: addresses, or names and flags
  IpArgs,      \* addresses of family AF_INET or AF_INET6
  NullArg,     \* a null pointer
  Elems,       \* elements of the stash, the spare one of each CPU included
  MaxEntries,  \* max_entries of the stash
  RingSize,    \* records the ring buffer holds
  MaxCalls,    \* bound: calls in one behaviour
  None

ASSUME EntryExitAssumption == PidOf \in [Threads -> Pids] /\ MaxEntries \in Nat /\ RingSize \in Nat

VARIABLES
  tool,     \* the chapter that runs: "opensnoop" or "netsnoop"
  hooks,    \* programs attached so far: none, the enter one, both
  call,     \* thread -> the call it is in
  calls,    \* calls made; a ghost that also numbers them
  stash,    \* pid -> element of the map
  elem,     \* element -> its value
  held,     \* thread -> element its exit program looked up
  ring,     \* records submitted and not yet consumed
  missed,   \* ghost: pids of which a stashed call ended unseen
  shared,   \* ghost: pids that had two threads in the call at once
  robbed,   \* ghost: threads in the call whose entry another thread of the process took
  silent    \* ghost: threads that found no entry for a stashed call nobody took

vars == <<tool, hooks, call, calls, stash, elem, held, ring, missed, shared, robbed, silent>>
stashVars == <<stash, elem>>

\* A call: its number, its arguments, and whether its enter program stored them.
Call  == [id : Nat, arg : Args, stashed : BOOLEAN]
ASSUME NoneAssumption == None \notin Elems /\ None \notin Call
\* A stashed value: the arguments; the ghosts id and pid say whose they are.
Value == [arg : Args, id : Nat, pid : Pids]
\* A record: what the program fills in, and the ghost call it is emitted for.
Event == [pid : Pids, val : Value, call : Call]

Keys == {p \in Pids : stash[p] # None}

TypeOK ==
  /\ hooks \in 0..2 /\ calls \in 0..MaxCalls /\ call \in [Threads -> Call \cup {None}]
  /\ stash \in [Pids -> Elems \cup {None}] /\ elem \in [Elems -> Value \cup {None}]
  /\ Cardinality(Keys) <= MaxEntries
  /\ held \in [Threads -> Elems \cup {None}] /\ ring \in Seq(Event) /\ Len(ring) <= RingSize
  /\ missed \subseteq Pids /\ shared \subseteq Pids
  /\ robbed \subseteq Threads /\ silent \subseteq Threads
  /\ tool \in {"opensnoop", "netsnoop"}

Init ==
  /\ hooks = 0 /\ calls = 0 /\ call = [t \in Threads |-> None]
  /\ stash = [p \in Pids |-> None] /\ elem = [e \in Elems |-> None]
  /\ held = [t \in Threads |-> None] /\ ring = <<>>
  /\ missed = {} /\ shared = {} /\ robbed = {} /\ silent = {} /\ tool \in {"opensnoop", "netsnoop"}

FreeElems == Elems \ {stash[p] : p \in Keys}

\* __u32 pid = bpf_get_current_pid_tgid() >> 32, in both programs.
Key(t) == PidOf[t]

\* __attach() attaches the programs one after the other, the enter one first.
Attach ==
  /\ hooks < 2 /\ hooks' = hooks + 1
  /\ UNCHANGED <<tool, call, calls, stash, elem, held, ring, missed, shared, robbed, silent>>

\* bpf_map_update_elem(&stash, &pid, &v, BPF_ANY); a full map refuses a new key.
HasRoom(p) == stash[p] # None \/ Cardinality(Keys) < MaxEntries
\* (Mutant: BPF_NOEXIST, an old entry of the pid is not overwritten.)
UpdateNoExist(p, v) ==
  \E e \in FreeElems :
    IF stash[p] # None THEN UNCHANGED stashVars
    ELSE stash' = [stash EXCEPT ![p] = e] /\ elem' = [elem EXCEPT ![e] = v]
\* (Mutant: BPF_MAP_TYPE_LRU_HASH, which may evict the entry of another pid.)
UpdateLru(p, v) ==
  \E e \in FreeElems, q \in Keys \cup {p} :
    stash' = [stash EXCEPT ![q] = None, ![p] = e] /\ elem' = [elem EXCEPT ![e] = v]
Update(p, v) ==
  \E e \in FreeElems : stash' = [stash EXCEPT ![p] = e] /\ elem' = [elem EXCEPT ![e] = v]

\* bpf_probe_read_user() fails as a whole, and leaves zeroes, when one of the 128
\* bytes is not mapped (whole is FALSE), even if those of the address are.
FamilyRead(a, whole) == IF whole /\ a \in IpArgs THEN "ip" ELSE "other"

\* Does the enter program get as far as the update?
Store(a, whole) == tool = "netsnoop" => a # NullArg /\ FamilyRead(a, whole) = "ip"

\* The threads of t's process that are in the call with t.
Siblings(t) == {u \in Threads \ {t} : PidOf[u] = PidOf[t] /\ call[u] # None}

\* Thread t enters the call with arguments a; trace_enter(), if it is attached,
\* stashes them.
TraceEnter(t, a, whole) ==
  /\ call[t] = None /\ calls < MaxCalls /\ calls' = calls + 1
  /\ LET p   == Key(t)
         put == hooks > 0 /\ Store(a, whole) /\ HasRoom(p) IN
       /\ call' = [call EXCEPT ![t] = [id |-> calls, arg |-> a, stashed |-> put]]
       /\ IF put THEN Update(p, [arg |-> a, id |-> calls, pid |-> PidOf[t]]) ELSE UNCHANGED stashVars
       /\ shared' = shared \cup {PidOf[u] : u \in Siblings(t)}
  /\ UNCHANGED <<tool, hooks, held, ring, missed, robbed, silent>>

\* The call ends before the exit program is attached, or its process is killed.
LeaveUnseen(t) ==
  /\ call[t] # None /\ held[t] = None
  /\ call' = [call EXCEPT ![t] = None]
  /\ missed' = missed \cup {Key(t)} /\ robbed' = robbed \ {t}
  /\ UNCHANGED <<tool, hooks, calls, stash, elem, held, ring, shared, silent>>

\* trace_exit() up to the lookup: without an entry it returns.
ExitLookup(t) ==
  /\ hooks = 2 /\ call[t] # None /\ held[t] = None
  /\ held' = [held EXCEPT ![t] = stash[Key(t)]]
  /\ IF stash[Key(t)] # None THEN UNCHANGED <<call, robbed, silent>>
     ELSE /\ call' = [call EXCEPT ![t] = None] /\ robbed' = robbed \ {t}
          /\ silent' = silent \cup IF call[t].stashed /\ t \notin robbed THEN {t} ELSE {}
  /\ UNCHANGED <<tool, hooks, calls, stash, elem, ring, missed, shared>>

\* (Mutant: the entry stays behind when the ring is full.)
DeleteIfSent(p) == IF Len(ring) < RingSize THEN [stash EXCEPT ![p] = None] ELSE stash
Delete(p) == [stash EXCEPT ![p] = None]

\* The rest of trace_exit(): reserve, copy from the element, delete, submit.
ExitEmit(t) ==
  /\ held[t] # None
  /\ ring' = IF Len(ring) < RingSize
             THEN Append(ring, [pid |-> Key(t), val |-> elem[held[t]], call |-> call[t]])
             ELSE ring
  /\ stash' = Delete(Key(t))
  /\ held' = [held EXCEPT ![t] = None] /\ call' = [call EXCEPT ![t] = None]
  /\ robbed' = (robbed \cup Siblings(t)) \ {t}
  /\ UNCHANGED <<tool, hooks, calls, elem, missed, shared, silent>>

\* ring_buffer__poll() hands the oldest record to handle_event(), which prints it.
HandleEvent ==
  /\ ring # <<>> /\ ring' = Tail(ring)
  /\ UNCHANGED <<tool, hooks, call, calls, stash, elem, held, missed, shared, robbed, silent>>

Next ==
  \/ \E t \in Threads, a \in Args, whole \in BOOLEAN : TraceEnter(t, a, whole)
  \/ \E t \in Threads : LeaveUnseen(t) \/ ExitLookup(t) \/ ExitEmit(t)
  \/ HandleEvent \/ Attach

Spec == Init /\ [][Next]_vars

-----------------------------------------------------------------------------
\* A record pairs the return value of a call with the arguments of that same
\* call, whatever an earlier process left under the pid: for opensnoop always,
\* for netsnoop when the enter program stashed the call, and for both unless two
\* threads of the process were in the call at once.
OwnArgs ==
  \A i \in DOMAIN ring : LET e == ring[i] IN
    e.pid \notin shared /\ (tool = "netsnoop" => e.call.stashed) => e.val.id = e.call.id

\* The exit of a stashed call finds an entry, and so gives a record whenever the ring
\* has room for it, in a process of many threads too.  One thing alone takes the entry
\* away before: the exit of another thread of the process, in the call at the same time.
NeverSilent == silent = {}

\* trace_exit() leaves nothing behind, be the ring full or the pid shared: an entry
\* belongs to a call still under way, or was left by one whose exit was not seen.
NoLeak ==
  \A p \in Keys : p \in missed \/ \E t \in Threads : Key(t) = p /\ call[t] # None
=============================================================================
