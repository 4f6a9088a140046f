------------------------------ MODULE MCRelease ------------------------------
(* Release with two modules and two runs, the most that can overlap.       *)
EXTENDS Release, TLC

Symmetry == Permutations(Module) \cup Permutations(Run)
=============================================================================
