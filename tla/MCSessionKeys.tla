---------------------------- MODULE MCSessionKeys ----------------------------
(* Model-checking instances of SessionKeys.                                *)
EXTENDS SessionKeys, TLC

Symmetry == Permutations(Ids) \cup Permutations(Threads)
=============================================================================
