----------------------------- MODULE WalletConnect ----------------------------
(***************************************************************************)
(* The WalletConnect wallet server (crates/oc-walletconnect/src/           *)
(* wallet_server.rs, relay.rs, session.rs) as the Network-Agent runs it    *)
(* (crates/oc-netagent/src/lib.rs): the relay loop, the session table, the *)
(* replay guard and the pairings that are injected while the loop runs.    *)
(*                                                                         *)
(* The loop is one task: it receives, subscribes new topics, waits for     *)
(* the next message, and handles it to the end before it looks again.      *)
(* Pairings come from another task that shares the session table.  The     *)
(* relay keeps a message for RelayTtl seconds, delivers it any number of   *)
(* times in any order to whoever is subscribed to its topic, and may drop  *)
(* the connection at any moment.  Until the socket reports the loss, what  *)
(* is sent on it vanishes and nothing arrives.                             *)
(*                                                                         *)
(* Times are remaining seconds.  What a request does once it is handed to  *)
(* the router is the module MethodRouter; here the handler returns.        *)
(***************************************************************************)
EXTENDS Naturals, FiniteSets, FiniteSetsExt

CONSTANTS
    Topics,             \* relay topics: of pairings and of sessions
    Pairings,           \* the topics of the pairing URIs users paste
    Chains,             \* entries of a chain list, wildcards included
    Methods,
    Covers(_, _),       \* whether an entry of a chain list covers a chain
    Msgs,               \* messages dapps may publish
    Content(_),         \* the content of a message
    None,               \* no message
    PairingTtl,         \* life of a pairing (DEFAULT_PAIRING_TTL)
    RelayTtl,           \* how long the relay keeps a message
    Retention,          \* ReplayGuard::RETENTION_SECS
    Capacity,           \* ReplayGuard::DEFAULT_CAPACITY
    Scripts,            \* the sets of messages that may be published in one behaviour
    MaxOutages          \* bound on lost connections and restarts

\* A publish on the relay carries a TTL; the guard remembers at least as long.
ASSUME WalletConnectAssumption ==
    /\ None \notin Msgs
    /\ Pairings \subseteq Topics
    /\ {PairingTtl, RelayTtl, Retention, Capacity} \subseteq Nat \ {0}
    /\ RelayTtl <= Retention
    /\ Scripts \subseteq SUBSET Msgs
    /\ MaxOutages \in Nat

VARIABLES
    sessions,           \* the session table, by topic
    stored,             \* per pairing: seconds its record in the session store is good for
    subs,               \* subscribed_topics
    relaySubs,          \* what the relay has this connection subscribed to
    link,               \* the connection: "up", lost and not noticed ("stale"), or "down"
    life,               \* per message: seconds the relay still keeps it
    sent,               \* messages published so far
    inbound,            \* messages in the socket, not yet read
    seen,               \* the replay guard: seconds an entry still counts
    pc,                 \* where the loop is
    cur,                \* the message being handled
    snap,               \* the copy of its session made before the handling
    woken,              \* a wakeup for the waiting loop
    cancel,             \* the cooperative cancel flag
    outages,            \* lost connections and restarts so far
    handled,            \* history: messages acted on, and how often
    granted,            \* history: what is negotiated and not given back, by topic
    lapsed              \* history: the guard has evicted a live entry, or was asked about a
                        \* message that stayed in the socket past its time at the relay

tables == <<sessions, stored, subs, relaySubs>>
relay == <<link, life, sent, inbound, outages>>
vars == <<tables, relay, seen, pc, cur, snap, woken, cancel, handled, granted, lapsed>>

Scopes == [chains : SUBSET Chains, methods : SUBSET Methods]
NoScope == [chains |-> {}, methods |-> {}]

\* kind: the JSON-RPC method, or "garbage" for what does not decode, decrypt or parse.
\* to: the topic of the session a proposal settles.  trusted: whether the
\* proposal's origin is a configured one.  scope: what a proposal or an update
\* lists, and for a request its method and the chain it names, if any.
Contents ==
    [topic : Topics, kind : {"propose", "update", "delete", "ping", "auth", "request", "garbage"},
     to : Topics, trusted : {"yes", "no"}, scope : Scopes]

ASSUME ContentAssumption == \A m \in Msgs : Content(m) \in Contents

States == {"none", "propose", "active"}
Absent == [state |-> "none", scope |-> NoScope, left |-> 0]

TypeOK ==
    /\ sessions \in [Topics -> [state : States, scope : Scopes, left : 0..PairingTtl]]
    /\ stored \in [Pairings -> 0..PairingTtl]
    /\ subs \subseteq Topics
    /\ relaySubs \subseteq Topics
    /\ link \in {"up", "stale", "down"}
    /\ life \in [Msgs -> 0..RelayTtl]
    /\ sent \subseteq Msgs
    /\ inbound \subseteq Msgs
    /\ seen \in [Msgs -> 0..Retention]
    /\ Cardinality({m \in Msgs : seen[m] > 0}) <= Capacity
    /\ pc \in {"receive", "subscribe", "select", "process", "dispatch", "handler", "respond", "stopped"}
    /\ cur \in Msgs \cup {None}
    /\ snap \in [state : States, scope : Scopes, left : 0..PairingTtl]
    /\ woken \in {"no", "yes"}
    /\ cancel \in {"no", "yes"}
    /\ outages \in 0..MaxOutages
    /\ handled \in [Msgs -> 0..2]
    /\ granted \in [Topics -> Scopes]
    /\ lapsed \in {"no", "yes"}

\* The loop starts, unless the relay cannot be reached.
Init ==
    /\ sessions = [t \in Topics |-> Absent]
    /\ stored = [t \in Pairings |-> 0]
    /\ subs = {}
    /\ relaySubs = {}
    /\ link = "up"
    /\ life = [m \in Msgs |-> 0]
    /\ sent = {}
    /\ inbound = {}
    /\ seen = [m \in Msgs |-> 0]
    /\ pc \in {"receive", "stopped"}
    /\ cur = None
    /\ snap = Absent
    /\ woken = "no"
    /\ cancel = "no"
    /\ outages = 0
    /\ handled = [m \in Msgs |-> 0]
    /\ granted = [t \in Topics |-> NoScope]
    /\ lapsed = "no"
-----------------------------------------------------------------------------
(* Sessions.                                                               *)

needs_relay(t) == sessions[t].state # "none" /\ sessions[t].left > 0

NeedRelay == {t \in Topics : needs_relay(t)}

is_chain_allowed(scope, c) == \E e \in scope.chains : Covers(e, c)

\* Whether a scope admits a request: its method, and its chain if it names one.
Admits(scope, q) ==
    /\ q.methods \subseteq scope.methods
    /\ \A c \in q.chains : is_chain_allowed(scope, c)

\* Any update is accepted.
validate_update_always(s, q) == q.methods \subseteq Methods

\* validate_update_subset: an update lists only what the session has.
validate_update_subset(s, q) ==
    q.chains \subseteq s.chains /\ q.methods \subseteq s.methods

\* What a topic's peer has left after an update or a deletion.
Narrowed(g, q) == [chains |-> g.chains \cap q.chains, methods |-> g.methods \cap q.methods]
-----------------------------------------------------------------------------
(* The other tasks.                                                        *)

Wake == woken' = IF pc = "select" THEN "yes" ELSE woken

\* add_pairing and the store's upsert.  The lock on the table is not to be
\* had while an auth request is with its handler.  Bound: a URI is pasted once
\* in a run of the daemon.
add_pairing(t) ==
    /\ sessions[t].state = "none"
    /\ pc = "handler" => Content(cur).kind # "auth"
    /\ sessions' = [sessions EXCEPT ![t] = [state |-> "propose", scope |-> NoScope, left |-> PairingTtl]]
    /\ stored' \in {stored, [stored EXCEPT ![t] = PairingTtl]}
    /\ Wake
    /\ UNCHANGED <<subs, relaySubs, relay, seen, pc, cur, snap, cancel, handled, granted, lapsed>>

\* A dapp publishes.
Publish(m) ==
    /\ m \notin sent
    /\ \E s \in Scripts : sent \cup {m} \subseteq s
    /\ sent' = sent \cup {m}
    /\ life' = [life EXCEPT ![m] = RelayTtl]
    /\ UNCHANGED <<tables, link, inbound, outages, seen, pc, cur, snap, woken, cancel, handled, granted, lapsed>>

Cancel ==
    /\ cancel = "no"
    /\ cancel' = "yes"
    /\ UNCHANGED <<tables, relay, seen, pc, cur, snap, woken, handled, granted, lapsed>>

\* The connection is lost, and with it the subscriptions.  The loop takes its
\* connection with it when it ends.
Disconnect ==
    /\ link = "up"
    /\ pc # "stopped"
    /\ outages < MaxOutages
    /\ outages' = outages + 1
    /\ link' \in {"stale", "down"}
    /\ relaySubs' = {}
    /\ inbound' = {}
    /\ UNCHANGED <<sessions, stored, subs, life, sent, seen, pc, cur, snap, woken, cancel, handled, granted,
                   lapsed>>

\* The socket reports the loss.
Notice ==
    /\ link = "stale"
    /\ pc # "stopped"
    /\ link' = "down"
    /\ UNCHANGED <<tables, life, sent, inbound, outages, seen, pc, cur, snap, woken, cancel, handled, granted,
                   lapsed>>

\* The relay delivers a message it still keeps, possibly again.
Deliver(m) ==
    /\ link = "up"
    /\ pc # "stopped"
    /\ life[m] > 0
    /\ Content(m).topic \in relaySubs
    /\ inbound' = inbound \cup {m}
    /\ UNCHANGED <<tables, link, life, sent, outages, seen, pc, cur, snap, woken, cancel, handled, granted,
                   lapsed>>

Less(n) == IF n = 0 THEN 0 ELSE n - 1

\* A second passes while the loop waits for a message or, in a handler, for the
\* user.  What is in the socket stays there meanwhile.
Tick ==
    /\ \/ pc = "select" /\ inbound = {}
       \/ pc = "handler"
    /\ \/ \E t \in Topics : sessions[t].left > 0
       \/ \E m \in Msgs : life[m] > 0 \/ seen[m] > 0
    /\ sessions' = [t \in Topics |-> [sessions[t] EXCEPT !.left = Less(@)]]
    /\ stored' = [t \in Pairings |-> Less(stored[t])]
    /\ life' = [m \in Msgs |-> Less(life[m])]
    /\ seen' = [m \in Msgs |-> Less(seen[m])]
    /\ snap' = [snap EXCEPT !.left = Less(@)]
    /\ UNCHANGED <<subs, relaySubs, link, sent, inbound, outages, pc, cur, woken, cancel, handled, granted,
                   lapsed>>

\* The daemon restarts: the stored pairings are back (one that has expired is of
\* no use), settled sessions and the replay guard are not.  The guard's promises
\* are for one run of the daemon.  The loop does not start when the store cannot
\* be loaded or the relay cannot be reached.
Restart ==
    /\ outages < MaxOutages
    /\ outages' = outages + 1
    /\ sessions' = [t \in Topics |->
            IF t \in Pairings /\ stored[t] > 0
            THEN [state |-> "propose", scope |-> NoScope, left |-> stored[t]] ELSE Absent]
    /\ subs' = {}
    /\ relaySubs' = {}
    /\ link' = "up"
    /\ inbound' = {}
    /\ seen' = [m \in Msgs |-> 0]
    /\ pc' \in {"receive", "stopped"}
    /\ cur' = None
    /\ snap' = Absent
    /\ woken' = "no"
    /\ cancel' = "no"
    /\ handled' = [m \in Msgs |-> 0]
    /\ granted' = [t \in Topics |-> NoScope]
    /\ lapsed' = "no"
    /\ UNCHANGED <<stored, life, sent>>
-----------------------------------------------------------------------------
(* The loop.                                                               *)

Goto(l) == pc' = l

Done == cur' = None /\ snap' = Absent /\ Goto("receive")

\* The receive at the top of the loop: whatever comes back is ignored.
Receive ==
    /\ pc = "receive"
    /\ \/ inbound = {} /\ UNCHANGED inbound
       \/ \E m \in inbound : inbound' = inbound \ {m}
    /\ Goto("subscribe")
    /\ UNCHANGED <<tables, link, life, sent, outages, seen, cur, snap, woken, cancel, handled, granted, lapsed>>

\* Only settled sessions are subscribed.
Subscribe_settled ==
    /\ pc = "subscribe"
    /\ subs' = subs \cup {t \in NeedRelay : sessions[t].state = "active"}
    /\ relaySubs' = IF link = "up" THEN relaySubs \cup (subs' \ subs) ELSE relaySubs
    /\ woken' = "no"
    /\ Goto("select")
    /\ UNCHANGED <<sessions, stored, relay, seen, cur, snap, cancel, handled, granted, lapsed>>

\* New topics are subscribed.  A send that fails is ignored.
Subscribe ==
    /\ pc = "subscribe"
    /\ subs' = subs \cup NeedRelay
    /\ relaySubs' = IF link = "up" THEN relaySubs \cup (NeedRelay \ subs) ELSE relaySubs
    /\ woken' = "no"
    /\ Goto("select")
    /\ UNCHANGED <<sessions, stored, relay, seen, cur, snap, cancel, handled, granted, lapsed>>

\* The select: a wakeup, the cancel flag, a message, an error or a timeout.
SelectWake ==
    /\ pc = "select"
    /\ woken = "yes"
    /\ woken' = "no"
    /\ Goto("receive")
    /\ UNCHANGED <<tables, relay, seen, cur, snap, cancel, handled, granted, lapsed>>

\* Nothing arrives within 30 s.  On a connection that is known to be lost the
\* receive returns at once.
SelectTimeout ==
    /\ pc = "select"
    /\ link # "down"
    /\ Goto("receive")
    /\ UNCHANGED <<tables, relay, seen, cur, snap, woken, cancel, handled, granted, lapsed>>

\* The loop goes on after the close.
SelectCancel_going_on ==
    /\ pc = "select"
    /\ cancel = "yes"
    /\ Goto("receive")
    /\ UNCHANGED <<tables, relay, seen, cur, snap, woken, cancel, handled, granted, lapsed>>

SelectCancel ==
    /\ pc = "select"
    /\ cancel = "yes"
    /\ Goto("stopped")
    /\ UNCHANGED <<tables, relay, seen, cur, snap, woken, cancel, handled, granted, lapsed>>

SelectMessage(m) ==
    /\ pc = "select"
    /\ m \in inbound
    /\ inbound' = inbound \ {m}
    /\ cur' = m
    /\ Goto("process")
    /\ UNCHANGED <<tables, link, life, sent, outages, seen, snap, woken, cancel, handled, granted, lapsed>>

\* The error path: reconnect and subscribe everything that needs the relay,
\* or give up after the last retry.
Reconnect ==
    /\ pc = "select"
    /\ link = "down"
    /\ \/ /\ link' = "up"
          /\ subs' = NeedRelay
          /\ relaySubs' = NeedRelay
          /\ Goto("receive")
       \/ Goto("stopped") /\ UNCHANGED <<link, subs, relaySubs>>
    /\ UNCHANGED <<sessions, stored, life, sent, inbound, outages, seen, cur, snap, woken, cancel,
                   handled, granted, lapsed>>
-----------------------------------------------------------------------------
(* One message.                                                            *)

\* The guard forgets a second early.
Remembered_short == Retention - 1

Remembered == Retention

\* Nothing is evicted.
Recorded_unbounded(m) == {[seen EXCEPT ![m] = Remembered]}

\* is_replay for a message that is not one: record it, evicting the entry seen
\* first when the guard is full.
Recorded(m) ==
    LET live == {o \in Msgs : seen[o] > 0}
        old  == {o \in live : \A n \in live : seen[o] <= seen[n]}
    IN  IF Cardinality(live) < Capacity
        THEN {[seen EXCEPT ![m] = Remembered]}
        ELSE {[seen EXCEPT ![o] = 0, ![m] = Remembered] : o \in old}

\* The session is copied and the guard asked; a message without a session, one
\* that is not Base64, and one seen before, are dropped.
Lookup(m) ==
    LET s == sessions[Content(m).topic] IN
    \/ /\ s.state = "none" \/ seen[m] > 0 \/ Content(m).kind = "garbage"
       /\ Done
       /\ UNCHANGED seen
    \/ /\ s.state # "none" /\ seen[m] = 0
       /\ snap' = s
       /\ seen' \in Recorded(m)
       /\ Goto("dispatch")
       /\ UNCHANGED cur

Process ==
    /\ pc = "process"
    /\ Lookup(cur)
    /\ lapsed' = IF life[cur] = 0 \/ \E o \in Msgs : seen[o] > 0 /\ seen'[o] = 0 THEN "yes" ELSE lapsed
    /\ UNCHANGED <<tables, relay, woken, cancel, handled, granted>>

Acted == handled' = [handled EXCEPT ![cur] = IF @ = 2 THEN 2 ELSE @ + 1]

\* What does not decrypt or parse costs only itself.
Garbage ==
    /\ pc = "dispatch"
    /\ Content(cur).kind = "garbage"
    /\ Done
    /\ UNCHANGED <<tables, relay, seen, woken, cancel, handled, granted, lapsed>>

\* handle_session_propose: with a trusted origin the session is settled with
\* what the proposal lists and the pairing's expiry.  The approval and the
\* subscription are sent before the session is in the table, and a send that
\* fails ends the loop.
handle_session_propose ==
    LET c == Content(cur) IN
    /\ pc = "dispatch"
    /\ c.kind = "propose"
    /\ \/ c.trusted = "no" /\ Goto("respond") /\ UNCHANGED <<sessions, relaySubs, handled, granted>>
       \/ /\ c.trusted = "yes" /\ link # "down"
          /\ sessions' = [sessions EXCEPT ![c.to] =
                [state |-> "active", scope |-> c.scope, left |-> snap.left]]
          /\ relaySubs' = IF link = "up" THEN relaySubs \cup {c.to} ELSE relaySubs
          /\ granted' = IF handled[cur] = 0 THEN [granted EXCEPT ![c.to] = c.scope] ELSE granted
          /\ Acted
          /\ Goto("respond")
       \/ c.trusted = "yes" /\ link = "down" /\ Goto("stopped")
          /\ UNCHANGED <<sessions, relaySubs, handled, granted>>
    /\ UNCHANGED <<stored, subs, relay, seen, cur, snap, woken, cancel, lapsed>>

\* wc_sessionDelete, wc_sessionUpdate and wc_sessionPing are answered without
\* regard to the negotiated methods.
session_delete ==
    /\ pc = "dispatch"
    /\ Content(cur).kind = "delete"
    /\ sessions' = [sessions EXCEPT ![Content(cur).topic] = Absent]
    /\ granted' = [granted EXCEPT ![Content(cur).topic] = NoScope]
    /\ Acted
    /\ Goto("respond")
    /\ UNCHANGED <<stored, subs, relaySubs, relay, seen, cur, snap, woken, cancel, lapsed>>

session_update ==
    LET c == Content(cur) IN
    /\ pc = "dispatch"
    /\ c.kind = "update"
    /\ \/ ~validate_update_subset(snap.scope, c.scope) /\ UNCHANGED <<sessions, granted, handled>>
       \/ /\ validate_update_subset(snap.scope, c.scope)
          /\ sessions' = IF sessions[c.topic].state = "none" THEN sessions
                         ELSE [sessions EXCEPT ![c.topic].scope = c.scope]
          /\ granted' = [granted EXCEPT ![c.topic] = Narrowed(@, c.scope)]
          /\ Acted
    /\ Goto("respond")
    /\ UNCHANGED <<stored, subs, relaySubs, relay, seen, cur, snap, woken, cancel, lapsed>>

session_ping ==
    /\ pc = "dispatch"
    /\ Content(cur).kind = "ping"
    /\ Goto("respond")
    /\ UNCHANGED <<tables, relay, seen, cur, snap, woken, cancel, handled, granted, lapsed>>

\* wc_authRequest goes straight to the handler, with the table locked.
auth_request ==
    /\ pc = "dispatch"
    /\ Content(cur).kind = "auth"
    /\ Acted
    /\ Goto("handler")
    /\ UNCHANGED <<tables, relay, seen, cur, snap, woken, cancel, granted, lapsed>>

\* Any other request: its chain and its method must be the session's.
session_request ==
    LET c == Content(cur) IN
    /\ pc = "dispatch"
    /\ c.kind = "request"
    /\ \/ /\ sessions[c.topic].state # "none"
          /\ Admits(sessions[c.topic].scope, c.scope)
          /\ Acted
          /\ Goto("handler")
       \/ /\ sessions[c.topic].state = "none" \/ ~Admits(sessions[c.topic].scope, c.scope)
          /\ Goto("respond")
          /\ UNCHANGED handled
    /\ UNCHANGED <<tables, relay, seen, cur, snap, woken, cancel, granted, lapsed>>

\* The handler returns with a result or an error.
HandlerReturns ==
    /\ pc = "handler"
    /\ Goto("respond")
    /\ UNCHANGED <<tables, relay, seen, cur, snap, woken, cancel, handled, granted, lapsed>>

\* The response is published; a socket that is gone ends the loop.
Respond ==
    /\ pc = "respond"
    /\ \/ link # "down" /\ Done
       \/ link = "down" /\ Goto("stopped") /\ UNCHANGED <<cur, snap>>
    /\ UNCHANGED <<tables, relay, seen, woken, cancel, handled, granted, lapsed>>

Select ==
    \/ SelectWake
    \/ SelectTimeout
    \/ SelectCancel
    \/ Reconnect
    \/ \E m \in Msgs : SelectMessage(m)

Dispatch ==
    \/ Garbage
    \/ handle_session_propose
    \/ session_delete
    \/ session_update
    \/ session_ping
    \/ auth_request
    \/ session_request

Loop == Receive \/ Subscribe \/ Select \/ Process \/ Dispatch \/ HandlerReturns \/ Respond

Next ==
    \/ Loop
    \/ \E t \in Pairings : add_pairing(t)
    \/ \E m \in Msgs : Publish(m) \/ Deliver(m)
    \/ Cancel
    \/ Disconnect
    \/ Notice
    \/ Tick
    \/ Restart

Spec == Init /\ [][Next]_vars

\* The runtime runs the loop, whose receives time out, and select! polls its
\* branches in random order.
FairSpec == Spec /\ WF_vars(Loop) /\ SF_vars(SelectCancel)
-----------------------------------------------------------------------------
(* Properties.                                                             *)

\* A request reaches the handler only within what the peer has negotiated and
\* not given back: cross_chain_rejection, is_method_allowed and
\* validate_update_subset together, however often and in whatever order the
\* relay delivers, until the replay guard lapses.
HandledWithinGrant ==
    [][\A m \in Msgs :
        Content(m).kind = "request" /\ handled'[m] > handled[m] /\ lapsed = "no"
            => Admits(granted[Content(m).topic], Content(m).scope)]_handled

\* A message is acted on once, however often the relay delivers it: its entry in
\* the replay guard outlives it at the relay, until the guard overflows or the
\* loop is so long in a handler that a copy is read from the socket too late.
HandledOnce == lapsed = "no" => \A m \in Msgs : handled[m] <= 1

\* A pairing that is pasted while the loop runs is subscribed before it
\* expires or the loop ends, even if the wakeup found the loop busy; and again
\* after every loss of the connection, once the loss is noticed.
PairingSubscribed ==
    \A t \in Pairings :
        needs_relay(t) ~> \/ t \in relaySubs \/ ~needs_relay(t)
                          \/ pc = "stopped" \/ link = "stale"

\* Setting the cancel flag ends the loop (the M3 fix), whatever it is doing.
CancelStops == cancel = "yes" ~> pc = "stopped" \/ cancel = "no"

\* Every message that is read from a healthy connection is looked at: "The recv
\* result is handled by the tokio::select! below".
NothingDiscarded == [][\A m \in inbound \ inbound' : cur' = m \/ outages' > outages]_vars
=============================================================================
