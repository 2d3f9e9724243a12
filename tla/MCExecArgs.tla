------------------------------ MODULE MCExecArgs -----------------------------
(* Small instances of ExecArgs.                                             *)
EXTENDS ExecArgs, TLC
Sym == Permutations(Cpus)
=============================================================================
