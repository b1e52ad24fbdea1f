---------------------------- MODULE MCWriteBehind ----------------------------
(* WriteBehind with two sources and a queue short enough to be full.        *)
EXTENDS WriteBehind, TLC

CONSTANTS s1, s2

MCSubject == {s1, s2}
MCOne == {s1}
Symmetry == Permutations(MCSubject)
=============================================================================
