-------------------------------- MODULE MCIds --------------------------------
(* Small instances of Ids.  A flow key is <<source, destination port>>.     *)
EXTENDS Ids, TLC
MCSrc(k)  == k[1]
MCPort(k) == k[2]
SomeFlows == {<<"a", 80>>, <<"a", 4444>>, <<"a", 22>>, <<"b", 80>>}
Sym == Permutations(Cpus)
=============================================================================
