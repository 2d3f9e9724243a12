---------------------------- MODULE MCSmallTools -----------------------------
(* Small instances of six parts of the repository that share no state: the   *)
(* counters of chapters 02, 16 and 24 (HashCounters), the tail calls of 19,  *)
(* the wire tap of 23, the task iterator of 22, the lessons of 14 and the    *)
(* main loop of 27.  A behaviour runs one of them; the others stay in one of *)
(* their initial states.                                                     *)
EXTENDS HashCounters, Lessons, TLC

CONSTANTS
  Tools,                  \* those tried
  MaxExecs,               \* TailCall
  Keys, RingSize, MaxPkts, MaxTime,   \* IdsTap
  Tids, Kept, MaxForks,   \* TaskDump
  Counts, Tops, MaxRows, MaxFrames   \* NetTopMain

\* Two tasks at least outlive a dump: init and the reader itself.  No -c asks for more
\* frames than are counted.
ASSUME SmallToolsAssumption ==
  /\ Tids \subseteq Nat \ {0} /\ Kept \subseteq Tids /\ \E a, b \in Kept : a # b
  /\ RingSize \in Nat
  /\ MaxRows \in Nat /\ MaxFrames \in Nat /\ Counts \subseteq 0..MaxFrames /\ Tops \subseteq Nat
  /\ None # "ok"

VARIABLES
  which,   \* the tool that runs
  tailPc, jmp_table, linked, progs, counts, execs,
  tapPc, lo, quiet, now, pkts, ring, taken, foreign,
  dumpPc, exit, tid, task, num, shown, out, alive, steady, forks,
  mainPc, limit, top, exiting, samples, frame, frames, late, status

T == INSTANCE TailCall WITH pc <- tailPc, at <- progs
I == INSTANCE IdsTap WITH pc <- tapPc
D == INSTANCE TaskDump WITH pc <- dumpPc, status <- exit
M == INSTANCE NetTopMain WITH pc <- mainPc, count <- limit

tailVars   == <<tailPc, jmp_table, linked, progs, counts, execs>>
tapVars    == <<tapPc, lo, quiet, now, pkts, ring, taken, foreign>>
dumpVars   == <<dumpPc, exit, tid, task, num, shown, out, alive, steady, forks>>
mainVars   == <<mainPc, limit, top, exiting, samples, frame, frames, late, status>>
allVars    == <<which, vars, tailVars, tapVars, dumpVars, lessonVars, mainVars>>

ToolsInit ==
  /\ which \in Tools
  /\ Init /\ T!Init /\ I!TapInit /\ D!Init /\ V!Init /\ M!Init
  /\ which # "counters" => atomic
  /\ which # "tap"      => lo
  /\ which # "taskdump" => alive = Tids
  /\ which # "nettop"   => limit = 0 /\ top = 1

Counting == Next /\ UNCHANGED <<which, tailVars, tapVars, dumpVars, lessonVars, mainVars>>
Calling  == T!Next /\ UNCHANGED <<which, vars, tapVars, dumpVars, lessonVars, mainVars>>
Tapping  == (I!TapStep \/ I!Take) /\ UNCHANGED <<which, vars, tailVars, dumpVars, lessonVars, mainVars>>
Dumping  == D!Next /\ UNCHANGED <<which, vars, tailVars, tapVars, lessonVars, mainVars>>
Teaching == V!Next /\ UNCHANGED <<which, vars, tailVars, tapVars, dumpVars, mainVars>>
Showing  == M!Next /\ UNCHANGED <<which, vars, tailVars, tapVars, dumpVars, lessonVars>>

ToolsNext ==
  \/ which = "counters" /\ Counting
  \/ which = "tailcall" /\ Calling
  \/ which = "tap"      /\ Tapping
  \/ which = "taskdump" /\ Dumping
  \/ which = "verifier" /\ Teaching
  \/ which = "nettop"   /\ Showing

ToolsSpec == ToolsInit /\ [][ToolsNext]_allVars

Sym == Permutations(Cpus) \cup Permutations(Uids)

-----------------------------------------------------------------------------
\* TailCall's Tallied: no tail call falls through and each execve() is counted
\* once, under the kind of its caller.
TailCallsTallied == T!Tallied

\* IdsTap's OncePerPacket: no packet is recorded twice.
TappedOnce == I!OncePerPacket

\* IdsTap's ChosenOnly, the comment on the socket in ids.c: "so we only see that
\* interface's traffic".
TappedChosen == I!ChosenOnly

\* TaskDump's DumpComplete: exit status 0 means that the whole list was read.
DumpWhole == D!DumpComplete

\* NetTopMain's FramesAsAsked: -c N gives N frames, and a signal at most one more.
NetTopFrames == M!FramesAsAsked
=============================================================================
