---------------------------- MODULE MCWalletConnect ---------------------------
(* Model values for WalletConnect: one pairing, one session, two chains of a   *)
(* family and the family's wildcard.                                           *)
EXTENDS WalletConnect

MCCovers(e, c) == e = c \/ e = "family"

Message(t, k, tr, cs, ms) ==
    [topic |-> t, kind |-> k, to |-> "session", trusted |-> tr,
     scope |-> [chains |-> cs, methods |-> ms]]

Contents1 == [
    propose  |-> Message("pairing", "propose", "yes", {"family", "c1"}, {"sign", "send"}),
    modest   |-> Message("pairing", "propose", "yes", {"c1"}, {"sign"}),
    widen    |-> Message("session", "update", "yes", {"c1", "c2"}, {"sign", "send"}),
    stranger |-> Message("pairing", "propose", "no", {"c1"}, {"sign"}),
    narrow   |-> Message("session", "update", "yes", {"c1"}, {"sign"}),
    delete   |-> Message("session", "delete", "yes", {}, {}),
    send     |-> Message("session", "request", "yes", {"c2"}, {"send"}),
    auth     |-> Message("pairing", "auth", "yes", {}, {}),
    ping     |-> Message("session", "ping", "yes", {}, {}),
    noise    |-> Message("session", "garbage", "yes", {}, {})]

\* A session that is narrowed, one that asks for more, one that is deleted, and
\* the other messages.
MCScripts == {{"propose", "narrow", "send"}, {"modest", "widen", "send"}, {"propose", "delete", "send"},
              {"propose", "ping"}, {"propose", "noise"}, {"stranger", "auth"}}

MCContent(m) == Contents1[m]
=============================================================================
