---------------------------- MODULE MCMethodRouter ----------------------------
(* Model values for MethodRouter. *)
EXTENDS MethodRouter

Request(v, m, p, c) == [via |-> v, method |-> m, proof |-> p, chain |-> c]

\* The first request comes through WalletConnect and is of any kind; the second
\* queues behind it, or comes over HTTP without the proof it will need.
MCOffered ==
    [r \in Ids |->
        IF r = 1 THEN
            {Request("wc", m, "yes", "listed") : m \in ProofFirst}
            \cup {Request("wc", m, "no", "listed") : m \in ProofLate \cup {"sign_auth", "wc_auth"}}
            \cup {Request("wc", "transaction", "no", "listed"),
                  Request("wc", "transaction", "yes", "unlisted")}
        ELSE {Request("rpc", "solana_sign_in", "no", "listed"),
              Request("wc", "transaction", "yes", "listed")}]
=============================================================================
