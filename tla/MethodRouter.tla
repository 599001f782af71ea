----------------------------- MODULE MethodRouter -----------------------------
(***************************************************************************)
(* The Network-Agent's method router (crates/oc-netagent/src/              *)
(* wc_method_router.rs) in the two servers of the daemon, the approval     *)
(* channel and the approval queue: from a dapp's request to the            *)
(* Key-Agent's answer.                                                     *)
(*                                                                         *)
(* The WalletConnect loop ("wc") handles one request at a time, presents   *)
(* the internal token, obeys the policy file and always asks for approval. *)
(* The local HTTP-RPC server ("rpc") handles requests concurrently,        *)
(* demands a passkey proof and asks for approval when the Web UI runs.     *)
(* Both submit through a bounded channel of their own that a bridge task   *)
(* forwards into the one the UI's receiver reads.                          *)
(*                                                                         *)
(* The Key-Agent has modules of its own; here it signs or refuses.  The    *)
(* simulation of a transaction only adds warnings for the user to read:    *)
(* it never reports a revert, so no request is blocked on it.              *)
(***************************************************************************)
EXTENDS ApprovalQueue

CONSTANTS
    Offered,            \* per id: the requests dapps may make
    Capacity,           \* bound of the approval channels (64)
    WebUi               \* "on" or "off": config.webui.enabled

ASSUME RouterAssumption ==
    /\ Capacity \in Nat \ {0}
    /\ WebUi \in {"on", "off"}

VARIABLES
    req,                \* per id: its server, and what its handler does once approved
    pc,                 \* per id: where its handler is
    left,               \* per id: seconds until the requester stops waiting
    chan,               \* per server: its approval channel
    inbox,              \* the channel the UI's receiver reads
    loop                \* the WalletConnect loop: "up" or "down"

routerVars == <<req, pc, left, chan, inbox, loop>>
vars == <<queueVars, routerVars>>

Servers == {"wc", "rpc"}

\* Methods whose handler takes the passkey proof before, and after, approval.
ProofFirst == {"transaction", "personal_sign", "typed_data", "user_op", "intent_execute"}
ProofLate == {"solana_message", "solana_sign_in"}
Methods == ProofFirst \cup ProofLate \cup {"sign_auth", "wc_auth", "query"}

\* chain: whether the policy file, when there is one, lets the chain pass.
Requests == [via : Servers, method : Methods, proof : {"yes", "no"}, chain : {"listed", "unlisted"}]

ASSUME OfferedAssumption == \A r \in Ids : Offered[r] \subseteq Requests

\* What is left to do after the approval: call the Key-Agent, refuse for want
\* of a proof or a token, or execute an intent.
Rests == {"forward", "refuse", "intent"}
NoRequest == [via |-> "rpc", rest |-> "refuse"]

Ended == {"signed", "failed", "panicked", "gone"}

TypeOK ==
    /\ QueueTypeOK
    /\ req \in [Ids -> [via : Servers, rest : Rests]]
    /\ pc \in [Ids -> {"new", "send", "wait", "forward"} \cup Ended]
    /\ left \in [Ids -> 0..Timeout]
    /\ chan \in [Servers -> Seq(Ids)]
    /\ \A s \in Servers : Len(chan[s]) <= Capacity
    /\ inbox \in Seq(Ids) /\ Len(inbox) <= Capacity
    /\ loop \in {"up", "down"}

Init ==
    /\ QueueInit
    /\ req = [r \in Ids |-> NoRequest]
    /\ pc = [r \in Ids |-> "new"]
    /\ left = [r \in Ids |-> 0]
    /\ chan = [s \in Servers |-> <<>>]
    /\ inbox = <<>>
    /\ loop = "up"
-----------------------------------------------------------------------------
(* What a handler checks.                                                  *)

\* Whether requests of a server wait for the user.
Gated(q) == q.via = "wc" \/ WebUi = "on"

\* policy_evaluate_signing: the requests it lets pass until the policy expires.
\* A warning is only shown to the user.
policy_evaluate_signing(q) == q.via = "wc" => q.chain = "listed"

\* Whether the handler asks for a passkey proof before it asks for approval.
ProofBefore(q) ==
    \/ q.method \in ProofFirst
    \/ q.method = "sign_auth" /\ q.via = "rpc"

\* The handlers of Sign-In requests turn to the proof, or to the internal token
\* only the WalletConnect router has, after the approval.
Rest(q) ==
    IF q.method = "intent_execute" THEN "intent"
    ELSE IF \/ q.via = "rpc" /\ q.method \in ProofLate /\ q.proof = "no"
            \/ q.via = "rpc" /\ q.method = "wc_auth"
         THEN "refuse" ELSE "forward"

\* The handler returns.  What its request was is only of interest if it signed.
End(r, how) ==
    /\ pc' = [pc EXCEPT ![r] = how]
    /\ req' = IF how = "signed" THEN req ELSE [req EXCEPT ![r] = NoRequest]

\* The WalletConnect loop takes the next request when it is done with the last.
Takes(q) == q.via = "wc" => loop = "up" /\ \A o \in Ids : req[o].via = "wc" => pc[o] \in Ended

\* handle, up to maybe_gate_approval: the proof, the parameters, the wallet
\* and the policy.  The expiry of the approval is fixed here.
handle(r, method) ==
    /\ pc[r] = "new"
    /\ \E q \in Offered[r] :
        /\ q.method = method
        /\ Takes(q)
        /\ policy_evaluate_signing(q)
        /\ ProofBefore(q) => q.proof = "yes"
        /\ req' = [req EXCEPT ![r] = [via |-> q.via, rest |-> Rest(q)]]
        /\ pc' = [pc EXCEPT ![r] = IF Gated(q) THEN "send" ELSE "forward"]
        /\ ttl' = [ttl EXCEPT ![r] = IF Gated(q) THEN Timeout ELSE 0]
    /\ UNCHANGED <<queue, inserting, page, answer, log, faults, approved, taken, logged, settled, unread,
                   left, chan, inbox, loop>>

sign_transaction(r) == handle(r, "transaction")
solana_signMessage(r) == handle(r, "solana_message")
personal_sign(r) == handle(r, "personal_sign")
onecipher_signAuth(r) == handle(r, "sign_auth")
solana_signIn(r) == handle(r, "solana_sign_in")
wc_authRequest(r) == handle(r, "wc_auth")
eth_signTypedData(r) == handle(r, "typed_data")
onecipher_signUserOp(r) == handle(r, "user_op")
onecipher_intentExecute(r) == handle(r, "intent_execute")

\* Everything else ends without approval: the list of wallets, challenges,
\* balances, intent previews, unknown methods, and every request without the
\* proof it needs now, with parameters that do not parse, for a wallet that
\* does not exist, or against the policy.
Query(r) ==
    /\ pc[r] = "new"
    /\ \E q \in Offered[r] : Takes(q)
    /\ End(r, "failed")
    /\ UNCHANGED <<queueVars, left, chan, inbox, loop>>
-----------------------------------------------------------------------------
(* The approval channel and its bridge.                                    *)

\* The wait is measured from the moment the handler started.
request_counting_send(r) ==
    /\ pc[r] = "send"
    /\ Len(chan[req[r].via]) < Capacity
    /\ chan' = [chan EXCEPT ![req[r].via] = Append(@, r)]
    /\ pc' = [pc EXCEPT ![r] = "wait"]
    /\ left' = [left EXCEPT ![r] = IF ttl[r] = 0 THEN 0 ELSE ttl[r] - 1]
    /\ UNCHANGED <<queueVars, req, inbox, loop>>

\* ApprovalChannel::request: the send waits for room as long as it takes, and
\* only then does the timeout start.
request(r) ==
    /\ pc[r] = "send"
    /\ Len(chan[req[r].via]) < Capacity
    /\ chan' = [chan EXCEPT ![req[r].via] = Append(@, r)]
    /\ pc' = [pc EXCEPT ![r] = "wait"]
    /\ left' = [left EXCEPT ![r] = Timeout]
    /\ UNCHANGED <<queueVars, req, inbox, loop>>

\* The bridge forwards into a channel without a bound.
Bridge_unbounded(s) ==
    /\ chan[s] # <<>>
    /\ inbox' = Append(inbox, Head(chan[s]))
    /\ chan' = [chan EXCEPT ![s] = Tail(@)]
    /\ UNCHANGED <<queueVars, req, pc, left, loop>>

\* The bridge task of a server.  What it holds counts as in the inbox.
Bridge(s) ==
    /\ chan[s] # <<>>
    /\ Len(inbox) < Capacity
    /\ inbox' = Append(inbox, Head(chan[s]))
    /\ chan' = [chan EXCEPT ![s] = Tail(@)]
    /\ UNCHANGED <<queueVars, req, pc, left, loop>>

\* spawn_receiver's task.  Without the Web UI nobody reads the inbox.
Receive ==
    /\ WebUi = "on"
    /\ inbox # <<>>
    /\ InsertLogged(Head(inbox))
    /\ inbox' = Tail(inbox)
    /\ UNCHANGED <<req, pc, left, chan, loop>>

\* An approval lets the request pass, another decision ends it.
Answered(r) ==
    \/ answer[r] = "approve" /\ pc' = [pc EXCEPT ![r] = "forward"] /\ UNCHANGED req
    \/ answer[r] # "approve" /\ End(r, "failed")

\* The requester waits for an answer only.
Wake_untimed(r) ==
    /\ pc[r] = "wait"
    /\ answer[r] # "none"
    /\ Answered(r)
    /\ left' = [left EXCEPT ![r] = 0]
    /\ UNCHANGED <<queueVars, chan, inbox, loop>>

\* The requester is answered, or its time is over.  An answer that is there
\* when it looks is taken even if the time is over as well.
Wake(r) ==
    /\ pc[r] = "wait"
    /\ \/ answer[r] # "none" /\ Answered(r)
       \/ answer[r] = "none" /\ left[r] = 0 /\ End(r, "failed")
    /\ left' = [left EXCEPT ![r] = 0]
    /\ UNCHANGED <<queueVars, chan, inbox, loop>>
-----------------------------------------------------------------------------
(* After the approval.                                                     *)

\* forward: what the handler still requires, and the Key-Agent's answer.
forward(r) ==
    /\ pc[r] = "forward"
    /\ req[r].rest # "intent"
    /\ \/ req[r].rest = "forward" /\ End(r, "signed")
       \/ End(r, "failed")
    /\ UNCHANGED <<queueVars, left, chan, inbox, loop>>

\* intentExecute signs inside a closure that blocks on the runtime it runs in,
\* which panics: the task ends.  It may also fail before it gets there.
intent_execute(r) ==
    /\ pc[r] = "forward"
    /\ req[r].rest = "intent"
    /\ \/ End(r, "failed") /\ UNCHANGED loop
       \/ /\ End(r, "panicked")
          /\ loop' = IF req[r].via = "wc" THEN "down" ELSE loop
    /\ UNCHANGED <<queueVars, left, chan, inbox>>
-----------------------------------------------------------------------------
(* The environment.                                                        *)

\* An HTTP client closes its connection and its handler is dropped.
Disconnect(r) ==
    /\ pc[r] \in {"send", "wait", "forward"}
    /\ req[r].via = "rpc"
    /\ End(r, "gone")
    /\ left' = [left EXCEPT ![r] = 0]
    /\ UNCHANGED <<queueVars, chan, inbox, loop>>

\* A second passes: the approvals and the requesters' timers run.
Tick ==
    /\ \E r \in Ids : ttl[r] > 0 \/ left[r] > 0
    /\ Expire
    /\ left' = [r \in Ids |-> IF left[r] = 0 THEN 0 ELSE left[r] - 1]
    /\ UNCHANGED <<queue, inserting, page, answer, log, faults, approved, taken, logged, settled, unread,
                   req, pc, chan, inbox, loop>>

\* The daemon dies, or ends because its Web UI server did, and starts again.  In
\* the second case the receiving ends of the channels are dropped first, and who
\* sends to them or waits is told of a timeout.
Restart ==
    /\ faults < MaxFaults
    /\ faults' = faults + 1
    /\ replay_orphans
    /\ pc' = [r \in Ids |-> CASE pc[r] \in {"send", "wait"} -> "failed"
                             [] pc[r] = "forward" -> "gone"
                             [] OTHER -> pc[r]]
    /\ left' = [r \in Ids |-> 0]
    /\ chan' = [s \in Servers |-> <<>>]
    /\ inbox' = <<>>
    /\ loop' = "up"
    /\ req' = [r \in Ids |-> IF pc[r] = "signed" THEN req[r] ELSE NoRequest]

Handle(r) ==
    \/ sign_transaction(r)
    \/ solana_signMessage(r)
    \/ personal_sign(r)
    \/ onecipher_signAuth(r)
    \/ solana_signIn(r)
    \/ wc_authRequest(r)
    \/ eth_signTypedData(r)
    \/ onecipher_signUserOp(r)
    \/ onecipher_intentExecute(r)
    \/ Query(r)

Proceed(r) == request(r) \/ Wake(r) \/ forward(r) \/ intent_execute(r)

QueueStep ==
    /\ \/ Inserted
       \/ \E p \in Pages : Send(p) \/ record_resolution(p)
       \/ \E p \in Pages, r \in Ids, d \in Decisions : resolve(p, r, d)
    /\ UNCHANGED routerVars

Next ==
    \/ \E r \in Ids : Handle(r) \/ Proceed(r) \/ Disconnect(r)
    \/ \E s \in Servers : Bridge(s)
    \/ Receive
    \/ QueueStep
    \/ Tick
    \/ Restart

Spec == Init /\ [][Next]_vars

\* The runtime runs the tasks that are ready, and time passes.  Users, clients
\* and crashes are owed nothing.
FairSpec ==
    /\ Spec
    /\ \A r \in Ids : WF_vars(Proceed(r))
    /\ \A s \in Servers : WF_vars(Bridge(s))
    /\ WF_vars(Receive)
    /\ WF_vars(Inserted /\ UNCHANGED routerVars)
    /\ WF_vars(Tick)
-----------------------------------------------------------------------------
(* Properties.                                                             *)

\* What is signed was approved: a request that waits for the user
\* (maybe_gate_approval) is signed only if a page approved it before it
\* expired while its requester was waiting, whatever the timeouts, the other
\* pages and the restarts do in between.
SignedIsApproved ==
    \A r \in Ids : pc[r] = "signed" /\ Gated(req[r]) => r \in approved

\* A requester is answered once: resolve takes the entry out of the map before
\* it answers, so no second page can change the answer.
AnsweredOnce == [][\A r \in Ids : answer[r] # "none" => answer'[r] = answer[r]]_answer

\* A decision made in time finds its requester still waiting, unless the
\* client went away: the requester's timer starts after expires_at_unix is
\* fixed, so it cannot have given up on an approval that is still open.
InTimeFindsRequester ==
    \A r \in Ids : queue[r] = "live" /\ ttl[r] > 0 => pc[r] \in {"wait", "gone"}

\* Restarts, torn lines and the collection of old lines never bring back an
\* approval whose resolution is in the log.
SettledStaysSettled == \A r \in settled : queue[r] = "absent"

\* Nor do they lose one: until a page takes it, an approval whose pending line
\* reached the log is still unresolved there, whatever was torn or collected
\* around it, and on offer in the map, unless the last start could not read the
\* log (oc-webui lib.rs:82-90); the next start that can brings it back.
LoggedStaysOffered ==
    \A r \in logged \ taken :
        /\ r \in replay_unresolved(log)
        /\ r \notin unread => queue[r] # "absent" \/ inserting = r

\* Every request that a handler starts on comes to an end, however slow the
\* user, since the approval channels are drained and the wait is bounded.
RequestsEnd == \A r \in Ids : pc[r] \in {"send", "wait", "forward"} ~> pc[r] \in Ended
=============================================================================
