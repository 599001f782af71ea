------------------------------- MODULE MCKeyAgent ------------------------------
(* Model values for KeyAgent. *)
EXTENDS KeyAgent

CONSTANTS n1

Request(k, c, b, l) == [kind |-> k, cred |-> c, bound |-> b, lines |-> l]

\* The first request is of any kind, the second competes with it for the one
\* challenge, or signs beside one that brings the token.  Every credential and
\* every size of the lines occurs.
MCOffered ==
    [i \in Ids |->
        {Request("transaction", n1, TRUE, "small")}
        \cup IF i # 1 THEN {} ELSE
            {Request(k, n1, TRUE, "small") : k \in {"message", "typed_data", "siwx", "unlock"}}
            \cup {Request(k, n1, FALSE, "small") :
                    k \in {"create_session_key", "revoke_session_key", "transaction"}}
            \cup {Request("user_op", n1, TRUE, "both"),
                  Request("auth", "token", FALSE, "small"),
                  Request("auth", "token", FALSE, "line"),
                  Request("auth", "badtoken", FALSE, "small")}]

\* Requests whose lines do and do not fit the pipes.
MCSizes == [i \in Ids |-> {Request("auth", "token", FALSE, l) : l \in {"small", "line"}}]
=============================================================================
