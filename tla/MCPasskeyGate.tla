---------------------------- MODULE MCPasskeyGate ----------------------------
(* Model-checking instances of PasskeyGate.                                *)
EXTENDS PasskeyGate, TLC

CONSTANTS k1, k2, w1, w2

\* A passkey, its replacement by another key for another wallet, and a
\* replacement whose key does not decode.
MCRecords ==
    {[key |-> k1, wallet |-> w1], [key |-> k2, wallet |-> w2],
     [key |-> BadKey, wallet |-> w1]}

\* Threads and nonces are interchangeable.
Symmetry == Permutations(Threads) \cup Permutations(Nonces)
=============================================================================
