----------------------------- MODULE MCSiwxNonces -----------------------------
(* A model-checking instance of SiwxNonces.                                *)
EXTENDS SiwxNonces, TLC

CONSTANTS m1, m2, m3

\* A message that expires and two that do not.
MCExpiration == (m1 :> 1) @@ (m2 :> NoExpiration) @@ (m3 :> NoExpiration)

\* One of these is not valid from the start.
MCNotBefore == (m1 :> 0) @@ (m2 :> 0) @@ (m3 :> 2)

\* Threads are interchangeable.
Symmetry == Permutations(Threads)
=============================================================================
