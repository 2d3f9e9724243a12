---------------------------- MODULE NetTopKernel ----------------------------
(***************************************************************************)
(* The kernel side of nettop (27-nettop/nettop.bpf.c): the kprobe handlers *)
(* that add traffic to one row per process, and the maps proc_stats_map    *)
(* (pid -> totals) and sock_owner (socket address -> pid).                 *)
(*                                                                         *)
(* Handlers run on all CPUs at once, and the poller (module NetTop) reads  *)
(* and deletes rows meanwhile, so each helper call and each atomic add is  *)
(* a step of its own.  bpf_map_lookup_elem returns a POINTER: elements are *)
(* kept apart from keys, because a deleted element returns to the          *)
(* preallocated pool and may hold another key's value when it is used.     *)
(***************************************************************************)
EXTENDS Naturals, FiniteSets, Sequences

CONSTANTS
  Cpus,           \* CPUs on which handlers run
  Pids,           \* tgids of processes; 0, the idle task, is not one of them
  Socks,          \* addresses of struct sock
  TcpSocks,       \* the ones of the TCP slab; the others are UDP sockets
  IpSocks,        \* sockets whose family is AF_INET or AF_INET6
  HookedSocks,    \* TCP sockets that are released through tcp_close()
  Elems,          \* elements of proc_stats_map, MAX_PROCS of them
  Slots,          \* elements of sock_owner, MAX_SOCKS of them
  Sizes,          \* byte counts of one call
  None,           \* no element, no slot, no pid
  MaxCalls,       \* bound: handler invocations in one behaviour
  MaxComm         \* bound: programs that run under one pid, in turn

ASSUME KernelAssumption ==
  /\ Pids \subseteq Nat \ {0}
  /\ TcpSocks \subseteq Socks /\ IpSocks \subseteq Socks /\ HookedSocks \subseteq TcpSocks
  /\ Sizes \subseteq Nat
  /\ None \notin Elems \cup Slots \cup Socks \cup Nat
  /\ MaxCalls \in Nat /\ MaxComm \in Nat

Tasks == Pids \cup {0}
Dirs  == {"tx", "rx"}
Zero  == [d \in Dirs |-> 0]

\* The kprobes that call account(): protocol of the socket, direction.
AccountHooks == [tcp_sendmsg      |-> [tcp |-> TRUE,  dir |-> "tx"],
                 tcp_cleanup_rbuf |-> [tcp |-> TRUE,  dir |-> "rx"],
                 udp_sendmsg      |-> [tcp |-> FALSE, dir |-> "tx"],
                 udpv6_sendmsg    |-> [tcp |-> FALSE, dir |-> "tx"],
                 skb_consume_udp  |-> [tcp |-> FALSE, dir |-> "rx"]]
Hooks == DOMAIN AccountHooks \cup {"tcp_retransmit_skb", "tcp_close"}

\* struct proc_stats.  comm is the program that ran when the row was created.
Row == [bytes : [Dirs -> Nat], calls : [Dirs -> Nat], retrans : Nat,
        last_ns : Nat, comm : Nat]
NewRow(c) == [bytes |-> Zero, calls |-> Zero, retrans |-> 0, last_ns |-> 0, comm |-> c]
AddTo(f, d, n)    == [f EXCEPT ![d] = @ + n]
AddBytes(r, d, n) == [r EXCEPT !.bytes = AddTo(@, d, n)]
Stamp(r, d, t)    == [r EXCEPT !.calls = AddTo(@, d, 1), !.last_ns = t]
AddRetrans(r)     == [r EXCEPT !.retrans = @ + 1]

VARIABLES
  alive,     \* which tasks exist
  comm,      \* the program now running under each pid
  clock,     \* CLOCK_MONOTONIC, the time base of bpf_ktime_get_ns()
  sock,      \* each socket address: closed or not, and the pid that used it last
  hooks,     \* attached kprobes
  elem,      \* proc_stats_map: key -> element
  stats,     \* element -> value
  owner,     \* sock_owner: key -> slot
  slotPid,   \* slot -> value
  pc,        \* where the handler running on each CPU stands
  reg,       \* its arguments and the pointers it holds
  calls,     \* handler invocations so far
  added,     \* ghost: bytes the calls of each pid have added to some row
  leaked     \* ghost: addresses whose socket died without handle_tcp_close

envVars    == <<alive, comm, clock, sock, hooks>>
ownerVars  == <<owner, slotPid, leaked>>
kernelVars == <<envVars, elem, stats, ownerVars, pc, reg, calls, added>>

Reg   == [pid : Tasks, sk : Socks \cup {None}, dir : Dirs, size : Nat,
          ps : Elems \cup {None}, slot : Slots \cup {None}]
NoReg == [pid |-> 0, sk |-> None, dir |-> "tx", size |-> 0, ps |-> None, slot |-> None]
Holding    == {"bytes", "stamp"}
Accounting == {"lookup", "insert", "relookup"} \cup Holding
Steps      == {"idle", "retrans_row", "retrans_add"} \cup Accounting

SockState == [st : {"open", "orphan"}, user : Tasks \cup {None}]

KernelTypeOK ==
  /\ alive \in [Tasks -> BOOLEAN] /\ comm \in [Tasks -> Nat] /\ clock \in Nat
  /\ sock \in [Socks -> SockState]
  /\ hooks \subseteq Hooks
  /\ elem \in [Tasks -> Elems \cup {None}] /\ stats \in [Elems -> Row]
  /\ owner \in [Socks -> Slots \cup {None}] /\ slotPid \in [Slots -> Tasks]
  /\ pc \in [Cpus -> Steps] /\ reg \in [Cpus -> Reg]
  /\ calls \in Nat /\ added \in [Tasks -> [Dirs -> Nat]] /\ leaked \subseteq Socks

\* No pointer is NULL where the handler on CPU c uses it.
NotNull(c) == /\ pc[c] \in Holding \cup {"retrans_add"} => reg[c].ps # None
              /\ pc[c] = "retrans_row" => reg[c].slot # None

\* The maps are empty when the program is loaded; processes and sockets are
\* there already.
KernelInit ==
  /\ alive = [p \in Tasks |-> TRUE]
  /\ comm = [p \in Tasks |-> 0]
  /\ sock = [a \in Socks |-> [st |-> "open", user |-> None]]
  /\ hooks = {}
  /\ elem = [p \in Tasks |-> None] /\ stats = [e \in Elems |-> NewRow(0)]
  /\ owner = [a \in Socks |-> None] /\ slotPid = [s \in Slots |-> 0]
  /\ pc = [c \in Cpus |-> "idle"] /\ reg = [c \in Cpus |-> NoReg]
  /\ calls = 0 /\ added = [p \in Tasks |-> Zero] /\ leaked = {}

-----------------------------------------------------------------------------
(* The two kinds of map, as the handlers use them.                         *)

FreeElems == Elems \ {elem[p] : p \in Tasks}
FreeSlots == Slots \ {owner[a] : a \in Socks}

\* bpf_map_update_elem on an LRU_HASH: the new value goes into a free element,
\* or, when there is none, into the element of an entry it evicts.
LruUpdate(a, p) ==
  \E s \in (IF FreeSlots # {} THEN FreeSlots ELSE Slots) :
    /\ owner' = [x \in Socks |-> IF x = a THEN s
                                 ELSE IF owner[x] = s THEN None ELSE owner[x]]
    /\ slotPid' = [slotPid EXCEPT ![s] = p]

\* Mutant: BPF_ANY, which replaces the element of a key that is there.
HashInsertAny(p, row) ==
  IF FreeElems = {}
  THEN UNCHANGED <<elem, stats>>
  ELSE \E e \in FreeElems : /\ elem' = [elem EXCEPT ![p] = e]
                            /\ stats' = [stats EXCEPT ![e] = row]

\* bpf_map_update_elem(..., BPF_NOEXIST) on a HASH: nothing happens when the key
\* is there (-EEXIST) or when all elements are in use (-E2BIG).
HashInsertNoExist(p, row) ==
  IF elem[p] # None \/ FreeElems = {}
  THEN UNCHANGED <<elem, stats>>
  ELSE \E e \in FreeElems : /\ elem' = [elem EXCEPT ![p] = e]
                            /\ stats' = [stats EXCEPT ![e] = row]

\* The handler on CPU c returns.
Return(c) == pc' = [pc EXCEPT ![c] = "idle"] /\ reg' = [reg EXCEPT ![c] = NoReg]

StillLeaked(a) == {x \in leaked \ {a} : owner'[x] # None}

-----------------------------------------------------------------------------
(* account(), entered through one of the hooks that call it.               *)

\* Kernel threads are not counted.  (Mutant: they are.)
NobodyCounts(p) == FALSE
Nobody(p) == p = 0

\* The process becomes the owner of the socket.
SetOwner(a, p)  == LruUpdate(a, p)

Account(c, p, a, n, d) ==
  /\ ~Nobody(p)
  /\ a \in IpSocks
  /\ SetOwner(a, p)
  /\ leaked' = StillLeaked(a)
  /\ sock' = [sock EXCEPT ![a].user = p]
  /\ pc' = [pc EXCEPT ![c] = "lookup"]
  /\ reg' = [reg EXCEPT ![c] = [NoReg EXCEPT !.pid = p, !.sk = a, !.dir = d, !.size = n]]
  /\ UNCHANGED <<alive, comm, clock, hooks, elem, stats, added>>

\* A process-context hook fires on CPU c.  The receive hooks ignore a call that
\* delivered nothing.
HookFires(h, c, p, a, n) ==
  /\ h \in hooks /\ pc[c] = "idle" /\ calls < MaxCalls
  /\ alive[p] /\ sock[a].st = "open" /\ (a \in TcpSocks) = AccountHooks[h].tcp
  /\ AccountHooks[h].dir = "rx" => n > 0
  /\ calls' = calls + 1
  /\ Account(c, p, a, n, AccountHooks[h].dir)

\* The lookup of the row, before and after the attempt to insert it.
AccountLookup(c) ==
  /\ pc[c] \in {"lookup", "relookup"}
  /\ LET e == elem[reg[c].pid]
         missing == IF pc[c] = "lookup" THEN "insert" ELSE "idle" IN
       /\ pc' = [pc EXCEPT ![c] = IF e = None THEN missing ELSE "bytes"]
       /\ reg' = [reg EXCEPT ![c] = IF pc'[c] = "idle" THEN NoReg ELSE [@ EXCEPT !.ps = e]]
  /\ UNCHANGED <<envVars, elem, stats, ownerVars, calls, added>>

\* init, zeroed but for the name of the program.  (Mutant: not zeroed.)
InitUnset(p) == [NewRow(comm[p]) EXCEPT !.last_ns = None]
InitRow(p)   == NewRow(comm[p])

AccountInsert(c) ==
  /\ pc[c] = "insert"
  /\ HashInsertNoExist(reg[c].pid, InitRow(reg[c].pid))
  /\ pc' = [pc EXCEPT ![c] = "relookup"]
  /\ UNCHANGED <<envVars, ownerVars, reg, calls, added>>

\* is_tx selects the column.  (Mutant: it is ignored.)
ColumnTx(c) == "tx"
Column(c)   == reg[c].dir

AccountBytes(c) ==
  /\ pc[c] = "bytes"
  /\ stats' = [stats EXCEPT ![reg[c].ps] = AddBytes(@, Column(c), reg[c].size)]
  /\ added' = [added EXCEPT ![reg[c].pid] = AddTo(@, reg[c].dir, reg[c].size)]
  /\ pc' = [pc EXCEPT ![c] = "stamp"]
  /\ UNCHANGED <<envVars, elem, ownerVars, reg, calls>>

\* The add to *_calls, which nothing reads, and the plain store of last_ns.
AccountStamp(c) ==
  /\ pc[c] = "stamp"
  /\ stats' = [stats EXCEPT ![reg[c].ps] = Stamp(@, Column(c), clock)]
  /\ Return(c)
  /\ UNCHANGED <<envVars, elem, ownerVars, calls, added>>

-----------------------------------------------------------------------------
(* handle_tcp_retransmit: the timer fires on any CPU, for an orphan too.    *)

HandleTcpRetransmit(c, a) ==
  /\ "tcp_retransmit_skb" \in hooks /\ pc[c] = "idle" /\ calls < MaxCalls
  /\ a \in TcpSocks
  /\ owner[a] # None
  /\ reg' = [reg EXCEPT ![c] = [NoReg EXCEPT !.sk = a, !.slot = owner[a]]]
  /\ pc' = [pc EXCEPT ![c] = "retrans_row"]
  /\ calls' = calls + 1
  /\ UNCHANGED <<envVars, elem, stats, ownerVars, added>>

\* The second lookup reads its key through the pointer the first one returned.
RetransmitRow(c) ==
  /\ pc[c] = "retrans_row"
  /\ LET e == elem[slotPid[reg[c].slot]] IN
       /\ pc' = [pc EXCEPT ![c] = IF e = None THEN "idle" ELSE "retrans_add"]
       /\ reg' = [reg EXCEPT ![c] = IF e = None THEN NoReg ELSE [@ EXCEPT !.ps = e]]
  /\ UNCHANGED <<envVars, elem, stats, ownerVars, calls, added>>

RetransmitAdd(c) ==
  /\ pc[c] = "retrans_add"
  /\ stats' = [stats EXCEPT ![reg[c].ps] = AddRetrans(@)]
  /\ Return(c)
  /\ UNCHANGED <<envVars, elem, ownerVars, calls, added>>

\* A socket is released when the last reference to its file is dropped, so no
\* send or receive on it is under way.
Unused(a) == \A c \in Cpus : ~(pc[c] \in Accounting /\ reg[c].sk = a)

\* The delete from sock_owner.  (Mutant: it is forgotten.)
KeepEntry(a)   == UNCHANGED owner
ForgetOwner(a) == owner' = [owner EXCEPT ![a] = None]

\* tcp_close(): the kprobe runs on entry, and the socket then lives on as an
\* orphan until the peer has acknowledged its queue.
HandleTcpClose(a) ==
  /\ "tcp_close" \in hooks
  /\ a \in HookedSocks /\ sock[a].st = "open" /\ Unused(a)
  /\ ForgetOwner(a)
  /\ leaked' = StillLeaked(a)
  /\ sock' = [sock EXCEPT ![a].st = "orphan"]
  /\ UNCHANGED <<alive, comm, clock, hooks, elem, stats, slotPid, pc, reg, calls, added>>

-----------------------------------------------------------------------------
(* Around the handlers: sockets, whose addresses are reused at once, and   *)
(* processes.                                                              *)

NewSock == [st |-> "open", user |-> None]

\* A socket goes away without handle_tcp_close: UDP, a TCP socket released on
\* another path, or any socket before that kprobe is attached.
SockDies(a) ==
  /\ sock[a].st = "open" /\ Unused(a)
  /\ a \in HookedSocks => "tcp_close" \notin hooks
  /\ sock' = [sock EXCEPT ![a] = NewSock]
  /\ leaked' = IF owner[a] # None THEN leaked \cup {a} ELSE leaked
  /\ UNCHANGED <<alive, comm, clock, hooks, elem, stats, owner, slotPid, pc, reg, calls, added>>

OrphanFreed(a) ==
  /\ sock[a].st = "orphan"
  /\ sock' = [sock EXCEPT ![a] = NewSock]
  /\ UNCHANGED <<alive, comm, clock, hooks, elem, stats, ownerVars, pc, reg, calls, added>>

\* A process exits when none of its threads is inside a system call.
ProcExit(p) ==
  /\ alive[p]
  /\ \A c \in Cpus : ~(pc[c] \in Accounting /\ reg[c].pid = p)
  /\ alive' = [alive EXCEPT ![p] = FALSE]
  /\ UNCHANGED <<comm, clock, sock, hooks, elem, stats, ownerVars, pc, reg, calls, added>>

\* The pid is given to a new process, which runs a program of its own.
ProcSpawn(p) ==
  /\ ~alive[p] /\ comm[p] < MaxComm
  /\ alive' = [alive EXCEPT ![p] = TRUE]
  /\ comm' = [comm EXCEPT ![p] = @ + 1]
  /\ UNCHANGED <<clock, sock, hooks, elem, stats, ownerVars, pc, reg, calls, added>>

AccountStep(c) == AccountLookup(c) \/ AccountInsert(c) \/ AccountBytes(c) \/ AccountStamp(c)

\* Every kernel step but the reuse of a pid, which NetTop constrains.
KernelStep ==
  \/ \E h \in DOMAIN AccountHooks, c \in Cpus, p \in Tasks, a \in Socks, n \in Sizes :
       HookFires(h, c, p, a, n)
  \/ \E c \in Cpus : AccountStep(c) \/ RetransmitRow(c) \/ RetransmitAdd(c)
  \/ \E c \in Cpus, a \in Socks : HandleTcpRetransmit(c, a)
  \/ \E a \in Socks : HandleTcpClose(a) \/ SockDies(a) \/ OrphanFreed(a)
  \/ \E p \in Pids : ProcExit(p)
=============================================================================
