----------------------------- MODULE MCEntryExit -----------------------------
(* A small instance of EntryExit: t1 and t2 are threads of one process.     *)
EXTENDS EntryExit, TLC
CONSTANTS t1, t2, t3, t4, p1, p2, p3
TwoThreads == (t1 :> p1) @@ (t2 :> p1) @@ (t3 :> p2) @@ (t4 :> p3)
Sym == Permutations(Elems)
=============================================================================
