------------------------------ MODULE MCNetTop ------------------------------
(* Small instances of NetTop.                                              *)
EXTENDS NetTop, TLC
MCPids  == 1 .. 2
Sym == Permutations(Cpus) \cup Permutations(Elems)
=============================================================================
