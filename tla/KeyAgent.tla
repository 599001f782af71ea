-------------------------------- MODULE KeyAgent -------------------------------
(***************************************************************************)
(* The Key-Agent's request handlers (crates/oc-keyagent/src/handler.rs),   *)
(* composed with the passkey gate, the signing subprocess and the audit    *)
(* log: what happens between a request and its answer.                     *)
(*                                                                         *)
(* Each request runs on a connection thread of its own.  A signing handler *)
(* authorizes the request (a passkey challenge, or the daemon's internal   *)
(* token), checks what its kind requires, signs in a subprocess or, with   *)
(* OC_ENCLAVE=off, in the process, appends its audit entries and answers.  *)
(* Any audit append may fail.  The process may die and start again.        *)
(*                                                                         *)
(* The stores behind the checks have modules of their own (PasskeyGate,    *)
(* SessionKeys, SiwxNonces, AuditLog).  Here the gate is the set of its    *)
(* unspent challenges, a check of the other stores answers anything they   *)
(* can answer, and the log is the set of entries written about signing.    *)
(***************************************************************************)
EXTENDS Enclave

CONSTANTS
    Nonces,             \* passkey challenges
    Offered,            \* per request: what clients may ask for
    MaxCrashes          \* bound on the deaths of the Key-Agent process

ASSUME CrashesAssumption == MaxCrashes \in Nat

VARIABLES
    config,             \* OC_ENCLAVE and audit_fail_closed, fixed at start
    pending,            \* challenges issued and not yet spent
    issued,             \* history: challenges ever issued
    req,                \* per request: its kind, its credential, its wallet
    pc,                 \* per request: where its handler is
    resp,               \* per request: the answer
    log,                \* audit entries <<request, event>>
    missed,             \* history: entries whose append failed
    crashes             \* deaths of the process so far

agentVars == <<config, pending, issued, req, pc, resp, log, missed, crashes>>
vars == <<enclaveVars, agentVars>>

\* The requests that need an authorization, by handler.
Signing == {"transaction", "message", "typed_data", "user_op", "auth", "siwx"}
Kinds == Signing \cup {"create_session_key", "revoke_session_key", "unlock"}

\* What a request presents: nothing, the internal token, a wrong token, or an
\* assertion over a challenge.
Creds == {"none", "token", "badtoken"} \cup Nonces

\* bound: the passkey is registered for the wallet the request names.
\* lines: only a signing request has lines for a subprocess, and only a
\* transaction is sent back whole.
Requests ==
    {r \in [kind : Kinds, cred : Creds, bound : BOOLEAN, lines : Sizes] :
        /\ r.kind \notin Signing => r.lines = "small"
        /\ r.lines = "both" => r.kind \in {"transaction", "user_op"}}

ASSUME OfferedAssumption == \A i \in Ids : Offered[i] \subseteq Requests

Events == {"pending", "resolved_ok", "resolved_failed", "signed"}
Entries == Ids \X Events

Idle == [kind |-> "unlock", cred |-> "none", bound |-> FALSE, lines |-> "small"]

TypeOK ==
    /\ EnclaveTypeOK
    /\ config \in [enclave : {"on", "off"}, failClosed : BOOLEAN]
    /\ pending \subseteq issued
    /\ issued \subseteq Nonces
    /\ req \in [Ids -> Requests]
    /\ pc \in [Ids -> {"new", "gate", "session", "message", "store", "sign", "spawn",
                       "enclave", "resolve", "audit", "done", "lost"}]
    /\ resp \in [Ids -> {"none", "signature", "ok", "refused"}]
    /\ log \subseteq Entries
    /\ missed \subseteq Entries
    /\ crashes \in 0..MaxCrashes

Init ==
    /\ EnclaveInit
    /\ config \in [enclave : {"on", "off"}, failClosed : BOOLEAN]
    /\ pending = {}
    /\ issued = {}
    /\ req = [i \in Ids |-> Idle]
    /\ pc = [i \in Ids |-> "new"]
    /\ resp = [i \in Ids |-> "none"]
    /\ log = {}
    /\ missed = {}
    /\ crashes = 0
-----------------------------------------------------------------------------
(* Steps shared by the handlers.                                           *)

Goto(i, l) == pc' = [pc EXCEPT ![i] = l] /\ UNCHANGED resp

Answer(i, r) ==
    /\ pc' = [pc EXCEPT ![i] = "done"]
    /\ resp' = [resp EXCEPT ![i] = r]

\* log_audit, and whether it succeeded.
Appended(i, e) == log' = log \cup {<<i, e>>} /\ UNCHANGED missed
AppendFails(i, e) == missed' = missed \cup {<<i, e>>} /\ UNCHANGED log

\* record_audit: a failed append is only reported in the process's own log.
record_audit(i, e) == Appended(i, e) \/ AppendFails(i, e)

\* The child's signature goes out, for a sign-in after its own entry.  An
\* answer without the signed transaction or the address is refused.
Signed(i) ==
    \/ IF req[i].kind = "siwx" THEN Goto(i, "audit") ELSE Answer(i, "signature")
    \/ req[i].kind \in {"transaction", "user_op", "auth", "siwx"} /\ Answer(i, "refused")
-----------------------------------------------------------------------------
(* Challenges.                                                             *)

generate_challenge(n) ==
    /\ n \notin issued
    /\ issued' = issued \cup {n}
    /\ pending' = pending \cup {n}
    /\ UNCHANGED <<enclaveVars, config, req, pc, resp, log, missed, crashes>>

\* LockVault drops every challenge.
lock_vault ==
    /\ pending # {}
    /\ pending' = {}
    /\ UNCHANGED <<enclaveVars, config, issued, req, pc, resp, log, missed, crashes>>
-----------------------------------------------------------------------------
(* The handlers.                                                           *)

\* A request arrives and is dispatched.
dispatch(i) ==
    /\ pc[i] = "new"
    /\ \E r \in Offered[i] :
           /\ req' = [req EXCEPT ![i] = r]
           /\ size' = [size EXCEPT ![i] = r.lines]
    /\ Goto(i, "gate")
    /\ UNCHANGED <<parent, child, answer, keyUses, config, pending, issued, log, missed, crashes>>

\* A refused request gives its challenge back.
Gate_restoring(i, kinds, accepted, next) ==
    /\ pc[i] = "gate"
    /\ req[i].kind \in kinds
    /\ \/ accepted /\ pending' = pending \ {req[i].cred} /\ Goto(i, next)
       \/ /\ ~accepted
          /\ pending' = pending \cup ({req[i].cred} \cap Nonces)
          /\ Answer(i, "refused")
    /\ UNCHANGED <<enclaveVars, config, issued, req, log, missed, crashes>>

\* The way into a handler: what it presents is accepted or the request is
\* refused, and a challenge that was presented is spent either way.
Gate(i, kinds, accepted, next) ==
    /\ pc[i] = "gate"
    /\ req[i].kind \in kinds
    /\ pending' = pending \ {req[i].cred}
    /\ IF accepted THEN Goto(i, next) ELSE Answer(i, "refused")
    /\ UNCHANGED <<enclaveVars, config, issued, req, log, missed, crashes>>

\* verify_passkey: the challenge is unspent.  verify_passkey_for: the passkey
\* is registered for the wallet besides.
verify_passkey(i) == req[i].cred \in pending
verify_passkey_for(i) == verify_passkey(i) /\ req[i].bound
InternalToken(i) == req[i].cred = "token"

handle_sign_transaction(i) == Gate(i, {"transaction"}, verify_passkey_for(i), "session")
handle_sign_message(i) == Gate(i, {"message"}, verify_passkey_for(i), "session")
handle_sign_typed_data(i) == Gate(i, {"typed_data"}, verify_passkey_for(i), "session")
handle_sign_user_op(i) == Gate(i, {"user_op"}, verify_passkey_for(i), "session")
handle_sign_auth(i) ==
    Gate(i, {"auth"}, InternalToken(i) \/ verify_passkey_for(i), "sign")
handle_sign_siwx(i) ==
    Gate(i, {"siwx"}, InternalToken(i) \/ verify_passkey_for(i), "message")
handle_create_session_key(i) == Gate(i, {"create_session_key"}, verify_passkey(i), "store")
handle_revoke_session_key(i) == Gate(i, {"revoke_session_key"}, verify_passkey(i), "store")
handle_unlock_vault(i) == Gate(i, {"unlock"}, verify_passkey_for(i), "store")

\* A check that reads other state, and refuses or goes on.
Check(i, at, next) ==
    /\ pc[i] = at
    /\ Goto(i, next) \/ Answer(i, "refused")
    /\ UNCHANGED <<enclaveVars, config, pending, issued, req, log, missed, crashes>>

\* The request names no session key, or an active one.
ensure_session_key_active(i) == Check(i, "session", "sign")

\* The message parses, names the chain, is current, and is consumed.
consume_message(i) == Check(i, "message", "sign")

\* The registry is changed, or the token probed, and the request answered.
finish(i) ==
    /\ pc[i] = "store"
    /\ Answer(i, "ok") \/ Answer(i, "refused")
    /\ UNCHANGED <<enclaveVars, config, pending, issued, req, log, missed, crashes>>

\* The spawn is not announced.
record_pending_skipped(i) ==
    /\ pc[i] = "sign"
    /\ config.enclave = "on"
    /\ Goto(i, "spawn")
    /\ UNCHANGED <<enclaveVars, config, pending, issued, req, log, missed, crashes>>

\* sign_via_enclave up to the spawn.
record_pending(i) ==
    /\ pc[i] = "sign"
    /\ config.enclave = "on"
    /\ record_audit(i, "pending")
    /\ Goto(i, "spawn")
    /\ UNCHANGED <<enclaveVars, config, pending, issued, req, crashes>>

\* The spawn: it may fail, and the path of the executable may be unknown.
spawn_enclave_child(i) ==
    /\ pc[i] = "spawn"
    /\ \/ spawn(i) /\ Goto(i, "enclave")
       \/ UNCHANGED enclaveVars /\ Goto(i, "resolve")
       \/ UNCHANGED enclaveVars /\ Answer(i, "refused")
    /\ UNCHANGED <<config, pending, issued, req, log, missed, crashes>>

\* A timeout is answered at once, without the entry that resolves it.
ParentStep_unresolved(i) ==
    /\ pc[i] = "enclave"
    /\ \/ write_stdin(i) /\ Goto(i, "enclave")
       \/ collect(i) /\ Goto(i, "resolve")
       \/ timeout(i) /\ Answer(i, "refused")
    /\ UNCHANGED <<config, pending, issued, req, log, missed, crashes>>

\* The wait for the child.
ParentStep(i) ==
    /\ pc[i] = "enclave"
    /\ \/ write_stdin(i) /\ Goto(i, "enclave")
       \/ collect(i) /\ Goto(i, "resolve")
       \/ timeout(i) /\ Goto(i, "resolve")
    /\ UNCHANGED <<config, pending, issued, req, log, missed, crashes>>

\* A failed child is made up for by signing in the process.
resolve_fallback(i) ==
    /\ pc[i] = "resolve"
    /\ \/ /\ Accepted(i)
          /\ Appended(i, "resolved_ok")
          /\ Signed(i)
          /\ UNCHANGED keyUses
       \/ /\ ~Accepted(i)
          /\ Appended(i, "resolved_failed")
          /\ keyUses' = [keyUses EXCEPT ![i] = @ + 1]
          /\ Goto(i, "audit")
    /\ UNCHANGED <<size, parent, child, answer, config, pending, issued, req, crashes>>

\* sign_via_enclave after the child: the outcome is recorded, and a signature
\* goes out unless the record failed under audit_fail_closed.  An accepted answer
\* whose signature is missing or whose hex does not decode is an error that is
\* returned before the record.
resolve(i) ==
    /\ pc[i] = "resolve"
    /\ LET e == IF Accepted(i) THEN "resolved_ok" ELSE "resolved_failed" IN
       \/ Accepted(i) /\ Answer(i, "refused") /\ UNCHANGED <<log, missed>>
       \/ /\ Appended(i, e)
          /\ IF Accepted(i) THEN Signed(i) ELSE Answer(i, "refused")
       \/ /\ AppendFails(i, e)
          /\ IF Accepted(i) /\ ~config.failClosed THEN Signed(i) ELSE Answer(i, "refused")
    /\ UNCHANGED <<enclaveVars, config, pending, issued, req, crashes>>

\* OC_ENCLAVE=off: the key is loaded and used in this process; encoding what
\* it signed may still fail.
sign_in_process(i) ==
    /\ pc[i] = "sign"
    /\ config.enclave = "off"
    /\ \/ keyUses' = [keyUses EXCEPT ![i] = @ + 1] /\ (Goto(i, "audit") \/ Answer(i, "refused"))
       \/ UNCHANGED keyUses /\ Answer(i, "refused")
    /\ UNCHANGED <<size, parent, child, answer, config, pending, issued, req, log, missed, crashes>>

\* The append is best effort, as for the other events.
record_signed_lenient(i) ==
    /\ pc[i] = "audit"
    /\ record_audit(i, "signed")
    /\ Answer(i, "signature")
    /\ UNCHANGED <<enclaveVars, config, pending, issued, req, crashes>>

\* TransactionSigned, AuthSigned or SiwxSigned; a sign-in whose message names
\* an address of another wallet is refused first.
record_signed(i) ==
    /\ pc[i] = "audit"
    /\ \/ Appended(i, "signed") /\ Answer(i, "signature")
       \/ /\ AppendFails(i, "signed")
          /\ Answer(i, IF config.failClosed THEN "refused" ELSE "signature")
       \/ /\ req[i].kind = "siwx"
          /\ Answer(i, "refused")
          /\ UNCHANGED <<log, missed>>
    /\ UNCHANGED <<enclaveVars, config, pending, issued, req, crashes>>
-----------------------------------------------------------------------------
(* The process dies: its requests are never answered, its challenges are   *)
(* gone, its children lose the other end of their pipes.  It starts again. *)
crash ==
    /\ crashes < MaxCrashes
    /\ crashes' = crashes + 1
    /\ pending' = {}
    /\ pc' = [i \in Ids |-> IF pc[i] \in {"new", "done"} THEN pc[i] ELSE "lost"]
    /\ parent' = [i \in Ids |-> CASE parent[i] = "stdin" -> "cut"
                                  [] parent[i] = "wait" -> "orphaned"
                                  [] OTHER -> parent[i]]
    /\ UNCHANGED <<size, child, answer, keyUses, config, issued, req, resp, log, missed>>

Authorize(i) ==
    \/ handle_sign_transaction(i) \/ handle_sign_message(i) \/ handle_sign_typed_data(i)
    \/ handle_sign_user_op(i) \/ handle_sign_auth(i) \/ handle_sign_siwx(i)
    \/ handle_create_session_key(i) \/ handle_revoke_session_key(i) \/ handle_unlock_vault(i)

Handle(i) ==
    \/ Authorize(i) \/ ensure_session_key_active(i) \/ consume_message(i) \/ finish(i)
    \/ record_pending(i) \/ spawn_enclave_child(i)
    \/ ParentStep(i) \/ resolve(i) \/ sign_in_process(i) \/ record_signed(i)

Next ==
    \/ \E n \in Nonces : generate_challenge(n)
    \/ lock_vault
    \/ \E i \in Ids : dispatch(i)
    \/ \E i \in Ids : Handle(i)
    \/ \E i \in Ids : ChildStep(i) /\ UNCHANGED agentVars
    \/ crash

Spec == Init /\ [][Next]_vars

\* A connection thread keeps running while the process lives, and its clock
\* reaches every deadline.  A child need not take another step.
Fairness == \A i \in Ids : WF_vars(Handle(i))
FairSpec == Spec /\ Fairness
-----------------------------------------------------------------------------
\* One authorization, one use of a key: however its children fail, time out or
\* outlive the process, a request signs at most once, and no two requests that
\* present the same challenge both sign (no fallback to the other signing path,
\* no retry).
OneUsePerAuthorization ==
    /\ \A i \in Ids : keyUses[i] <= 1
    /\ \A i, j \in Ids :
           (keyUses[i] > 0 /\ keyUses[j] > 0 /\ req[i].cred \in Nonces
                /\ req[i].cred = req[j].cred) => i = j

\* The log leads and never lies: in enclave mode a key is used only after the
\* pending entry was appended (or its append failed), also when the process
\* dies in between; and an entry that says a signature was made is only there
\* when the key of that request was used.
LogLeads ==
    \A i \in Ids :
        /\ (keyUses[i] > 0 /\ config.enclave = "on") => <<i, "pending">> \in log \cup missed
        /\ ({<<i, "resolved_ok">>, <<i, "signed">>} \cap log # {}) => keyUses[i] = 1

\* audit_fail_closed: no signature leaves the Key-Agent without the entry that
\* reports it, whichever append fails and whichever path signed; a sign-in has
\* its own entry besides.
ReleasedIsAudited ==
    \A i \in Ids : (config.failClosed /\ resp[i] = "signature") =>
        /\ {<<i, "resolved_ok">>, <<i, "signed">>} \cap log # {}
        /\ req[i].kind = "siwx" => <<i, "signed">> \in log

\* "A killed or failed child MUST still resolve its pending entry"
\* (handler.rs:453): when the handler is done, the failure of its child was
\* recorded, or that append failed.  And a signature the caller got is never
\* one the log reports as failed, nor one no record was attempted for.
SpawnedIsResolved ==
    \A i \in Ids : (pc[i] = "done" /\ parent[i] # "idle") =>
        /\ ~Accepted(i) => <<i, "resolved_failed">> \in log \cup missed
        /\ resp[i] = "signature" =>
               /\ <<i, "resolved_ok">> \in log \cup missed
               /\ <<i, "resolved_failed">> \notin log

\* A killed child has no say: once the handler has returned, its child no
\* longer runs, and a child killed on timeout or dead of itself never becomes
\* a signature, even when it had signed.
ChildEndsWithRequest ==
    \A i \in Ids : pc[i] \in {"resolve", "audit", "done"} =>
        /\ child[i] \notin Running
        /\ (child[i] \in {"killed", "exit1"}) => resp[i] # "signature"

\* Every request whose line fits the pipe is answered, or lost with the
\* process, whatever its child does: crash, hang before reading, hang while
\* signing, or fail to write a long answer.
SmallRequestsAnswered ==
    \A i \in Ids :
        (pc[i] # "new" /\ size[i] = "small") ~> pc[i] \in {"done", "lost"}

\* "Timeout-kill plus the bounded reap in `wait_with_timeout` (the sole owner
\* of the `Child`) already bounds every child lifetime" (enclave.rs:892-893).
ChildLifetimeBounded == \A i \in Ids : child[i] \in Running ~> child[i] \notin Running
=============================================================================
