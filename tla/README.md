# A TLA+ verification project for onecipher

onecipher is a local wallet: a daemon holds the keys, dapps and agents reach it
through WalletConnect, a local HTTP-RPC server or a browser extension, and the
user approves what is signed. This directory holds TLA+ models of the parts of
the daemon in which time, concurrency, failures and restarts decide whether it is
correct, TLC configurations that check them on small instances, and TLAPS proofs
of the most important properties for every size of instance.

`PROJECT.json` is the index: components, runs, the source lines behind every
definition (`map`), hazards, findings, theorems, and for every checked property a
plausible bug (a *mutant*) that breaks it.

- [How the system works](#how-the-system-works)
- [Modules](#modules)
- [Runs](#runs)
- [Bounds](#bounds)
- [Fairness](#fairness)
- [Proofs](#proofs)
- [Findings](#findings)
- [Observations](#observations)
- [Not modelled](#not-modelled)
- [Plan](#plan)
- [Running the checks](#running-the-checks)

## How the system works

Paths are relative to `src/`.

| Part | Source | State | Operations | What makes it hard |
|---|---|---|---|---|
| Passkey gate | `crates/oc-keyagent/src/passkey.rs`, `handler.rs` | `passkeys.json`, table of verifiers with their pending challenges (mutex) | GenerateChallenge, verify, RegisterPasskey, LockVault | the file is read before the mutex is taken; challenges expire; the table caches the file |
| Session-key registry | `crates/oc-keyagent/src/session_keys.rs` | `session_keys.json` | create, revoke, is_active | load and save without a lock |
| Sign-In nonces | `crates/oc-keyagent/src/nonce_store.rs`, `crates/oc-siwx/src/validate.rs` | `siwx_nonces.json` | validate, consume, sign | load and save without a lock; expiry against clock skew; eviction when full |
| Audit log | `crates/oc-keyagent/src/audit.rs`, `bin/oc-cli/src/audit.rs`, `bin/oc-cli/src/commands/agent_secret.rs` | `audit.jsonl`, per process the tail of the chain | open, append, verify_chain, the light channel | several processes, torn lines, failed fsyncs, restarts |
| Key-Agent handlers | `crates/oc-keyagent/src/handler.rs` | requests in progress, answers | the signing handlers, session keys, unlock | authorization, child, audit and answer are separate steps that can each fail |
| Signing subprocess | `crates/oc-keyagent/src/enclave.rs` | two processes and two pipes per request | spawn, write, wait with timeout, kill, read; the child's own steps | hanging and dying children, pipes that fill up, a timeout racing the answer |
| Socket server and clients | `crates/oc-keyagent/src/server.rs`, `frame.rs`, `crates/oc-netagent/src/key_agent_client.rs` | connections, live_connections, stop flag, idle clock, pooled connection | accept, serve, release, watchdog, send, time out | connection limit, late answers on a shared connection, shutdown at any moment |
| Daemon | `bin/oc-cli/src/daemon/mod.rs` | main task, signals, tasks | select!, grace period, exit | the Key-Agent runs on its own thread and can end by itself |
| Approval queue | `crates/oc-webui/src/approval_queue.rs`, `crates/oc-core/src/approval_log.rs` | map of pending approvals, oneshot channels, `approval_queue.jsonl` | insert, resolve, record, replay, collect | decision, expiry and the requester's timeout race; torn lines; restarts |
| Method router | `crates/oc-netagent/src/wc_method_router.rs`, `approval.rs`, `http_rpc.rs` | requests in progress, bounded channels | one handler per method, the approval gate, forwarding | checks before and after a wait of up to 300 s; two servers share the queue |
| WalletConnect server | `crates/oc-walletconnect/src/wallet_server.rs`, `relay.rs`, `session.rs`, `crates/oc-netagent/src/lib.rs` | session table, subscriptions, replay guard, connection | the relay loop and its select!, every session method, pairing, reconnect, restart | a relay that reorders, repeats and drops; wakeups that find nobody waiting |

How they interact: a dapp's message comes from the relay to the WalletConnect
server (`WalletConnect`), which hands a session request to the method router
(`MethodRouter`); the local HTTP-RPC server hands its requests to a router of the
same kind. The router checks policy and passkey proof, sends the request to the
approval queue through a bounded channel and waits (`ApprovalQueue`). An approved
request goes to the Key-Agent over its socket (`KeyAgentServer`, run by
`Daemon`), where a connection thread authorizes it (`PasskeyGate`, `SessionKeys`,
`SiwxNonces`), signs in a subprocess (`Enclave`) and appends to the audit log
(`AuditLog`); `KeyAgent` composes those steps.

What each part must get right, and where it is stated:

- a passkey challenge authorizes one request, in its time, for its credential
  (`SingleUse`, `GrantsAreFresh`, `BindingFailureBurnsChallenge`,
  `ChallengeSpentOnlyByOwner`);
- a revocation is observed (`RevocationObserved`), and what overlapping operations
  leave of that promise (`SettledIsFinal`, `ImplementsLifecycle`);
- a Sign-In message is signed once while the store remembers it, and the store
  gives up the right entry when it is full (`ConsumedOnce`, `SignaturesBounded`,
  `EvictsOldest`);
- the audit log verifies, its numbers grow, and a failure costs a bounded number
  of entries (`ChainVerifies`, `SeqIncreasing`, `DamageBounded`, `LinksPointBack`);
- an authorization is one use of a key, the log leads the use, and no child or
  late answer escapes its request (`OneUsePerAuthorization`, `LogLeads`,
  `ReleasedIsAudited`, `SpawnedIsResolved`, `ChildEndsWithRequest`,
  `SmallRequestsAnswered`);
- an answer reaches the request it answers, nobody waits for ever on a request of
  somebody else's or lives on without the Key-Agent (`AnswersMatch`, `LimitHolds`, `CliReturns`,
  `EndsWithKeyAgent`);
- what is signed was approved in time, decisions are final, and the approval log
  neither loses nor revives an approval (`SignedIsApproved`, `AnsweredOnce`,
  `InTimeFindsRequester`, `SettledStaysSettled`, `LoggedStaysOffered`,
  `RequestsEnd`);
- a relayed message is acted on once and within what the peer holds, and pairings
  and cancellation take effect (`HandledOnce`, `HandledWithinGrant`,
  `PairingSubscribed`, `CancelStops`).

## Modules

Every module keeps the control of the code (each state change, guard, early
return and their order) and abstracts the data: keys, wallets, messages and
topics are model values, hashes are identities, cryptographic verification is the
comparison of keys. Variables marked *history* record what happened for the
properties; guards read them only to draw an id or a challenge that is new, as
the code's random generator does.

**PasskeyGate.** `store` is the file, `verifiers` the table. A handler is two
steps: one that reads the file (`CallVerify`, `CallChallenge`, `CallRegister`) and
one under the mutex, or the replacement of the file. The wallet binding of
`verify_passkey_for` is checked after the challenge has been consumed, as in the
code. `MCPasskeyGate` gives the constants, `PasskeyGateProofs` the proofs.

**SessionKeys, SessionKeyLifecycle.** `file` is the JSON map and `op[t]` what
thread `t` has loaded and not yet saved. `SessionKeyLifecycle` is what the
registry promises: a status that goes from absent to active to revoked. Every
thread creates and revokes, and nothing keeps two of them apart, as in the daemon
with its thread per connection. `contested` (history) are the records changed by a
save that fell between another thread's load and its save, `settled` the ids
revoked by one that did not: the registry implements the life cycle of a record
until it is contested, and a settled revocation is never undone.

**SiwxNonces.** `load` drops what has expired, `consume` looks up, evicts, inserts
and saves later; the clock may advance in between. `check_temporal_window` has the
clock-skew allowance of `oc-siwx`, for the expiration and for the not-before date;
the age limit is not set by the handler. `exposed` (history) are the messages whose
save overlapped another consume, `evicted` those that made room.

**AuditLog.** A line is the sequence of chunks written since the last newline, so
that a torn entry glues the next one to itself, as it does in the file. `open`
reads the tail back, `append` is two writes and an fsync, each of which can fail
or be the last thing the process does. `verify_chain` is the code's recomputation
over all lines, which skips blank ones.

**Enclave, KeyAgent.** `Enclave` has the parent and the child of each request,
including where either may block on a full pipe. `KeyAgent` extends it with the
handlers: authorization, the checks of each kind of request, the pending entry,
the child or the in-process path, the resolving entry, the answer, and the death
of the process. A child that succeeded may still have written a signature or key
that does not decode (`handler.rs:411-422`); then the request is refused with no
resolving entry. After it, the encoding of what was signed may fail too.

**KeyAgentServer, Daemon.** Connections with both ends, the queues between them,
the accept loop, the threads, the watchdog, the pooled client with its deadline
and the command line's client without one. A thread whose request is being
dispatched is `busy`, or `blocked` when the dispatch will never return
(`enclave.rs:906`). `Daemon` extends it with the main task, its `select!` arms,
signals (also a notifier that could not be started, whose closed channel ends the
daemon) and the grace period.

**ApprovalQueue, MethodRouter.** `ApprovalQueue` has the map, the pages that
decide, and the log line by line. `MethodRouter` extends it with the requesters:
what each method checks before and after its approval, the two servers, their
channels and the receiver. An approval that is announced and not yet in the map,
and one that is taken from the map and not yet answered, are states of their own.
A restart replays the log; when it cannot be read the queue starts empty, and
`unread` (history) are the approvals that are then only in the log.

**WalletConnect.** The loop is a program counter over the statements of `run`;
`seen` is the replay guard, `sessions` the table, `snap` the copy a message is
handled with. Messages, relay and dapps are the environment. A lost connection is
`stale` until the socket reports it: sends go into the buffer, receives time out.

`MC*` modules only define values for constants.

## Runs

`tlc` explores the whole state space of each passing run. States are distinct
states; times are with two workers.

| Run | Module, cfg | Shows | States |
|---|---|---|---|
| `passkey_gate` | MCPasskeyGate, PasskeyGate | a challenge is good for one request, in time, since the last lock, and only its owner or its failure spends it | 1.41 M, 125 s |
| `session_keys` | MCSessionKeys, SessionKeys | with nothing keeping threads apart, a revocation saved alone is final and a record follows its life cycle until an overlap changes it | 150 k, 18 s |
| `siwx_nonces` | MCSiwxNonces, SiwxNonces | single use until two consumes overlap; how many signatures the skew allows; the bound and order of eviction | 412 k, 25 s |
| `audit_log` | AuditLog, AuditLog | what one writer's chain promises, what a failure costs, where links point with several writers | 1.99 M, 115 s |
| `key_agent` | MCKeyAgent, KeyAgent | one use per authorization, audited, with failing appends, children and processes | 176 k, 50 s |
| `daemon` | Daemon, Daemon | answers match requests, the limit holds, a client waits for no request but its own, the daemon ends with its Key-Agent | 192 k, 90 s |
| `approvals` | MCMethodRouter, MethodRouter | only what was approved in time is signed; answers are final; the log survives faults | 286 k, 100 s |
| `wallet_connect` | MCWalletConnect, WalletConnect | once, within the grant, subscribed, cancelled | 261 k, 90 s |
| `passkey_stale_key` | MCPasskeyGate, PasskeyStaleKey | *violation*: the key verified against is not the stored one | |
| `session_keys_race` | MCSessionKeys, SessionKeysRace | *violation*: a revoked key is active again | |
| `enclave_hung_child` | MCKeyAgent, EnclaveHungChild | *violation*: a child without a bound on its life | |
| `wc_discard` | MCWalletConnect, WalletConnectDiscard | *violation*: a message read and dropped | |

Deadlock checking is off in every run because every model can come to rest
legitimately: the bounds run out, or the process has ended. That something must
still happen is stated by liveness properties instead.

## Bounds

Every unbounded quantity has a named bound that appears in a guard.

- `passkey_gate`: two threads, because every interleaving the gate can suffer is
  between one handler's file read and another's mutex section; two challenges and
  `MaxPending = 1`, so that the table is full and is swept; `ChallengeTTL = 1` and
  `MaxTime = 1`, so that a challenge expires; `MaxLocks = 1`. The proofs remove
  these bounds.
- `session_keys`: three threads and three ids; ids are never reused, so three allow
  a create to overlap each stage of another id. The proofs remove these bounds.
- `siwx_nonces`: three messages on a store of two entries, so that eviction
  happens; one message expires and one is not valid at first, `Skew = 1`,
  `MaxTime = 2`, so that the one is past its expiry and within the skew and the
  other becomes valid within it. Three threads (5.7 million states) also pass.
- `audit_log`: four appends by three kinds of writer with all six failures. Four
  are needed for a failure, the entry it swallows, and a restart behind it.
- `key_agent`: two requests and one challenge that both may present. The first is of
  any kind, with any credential and any size of lines; the second signs a
  transaction. One death of the process. Both of any kind (669 thousand states) also
  pass.
- `daemon`: two tasks on the pooled client, one command-line client, two
  connections of which one may be served at a time, one request each, and an idle
  timeout of one tick.
- `approvals`: two requests, one page, a timeout of one second, channels of one
  slot, two faults (failed or torn appends, restarts). Two pages with two faults
  (1.25 million states, five minutes) also pass; the theorems cover any number.
- `wallet_connect`: one pairing and its session, six scripts of two or three
  messages that may be delivered in any order and repeatedly, a pairing life of
  two, relay and guard times of one second, a guard of two entries (so that it
  overflows), one outage or restart.

Symmetry is used only for interchangeable threads, nonces, ids and messages in
runs without liveness properties.

## Fairness

- `KeyAgent`: weak fairness of each connection thread. `std::thread` threads keep
  being scheduled while the process lives and `wait_with_timeout` polls a clock.
  A child is owed nothing: it may hang for ever.
- `Daemon`: weak fairness of the accept loop, of each connection thread (a dispatch
  that has not blocked for good returns; whether it blocks is decided when the
  request is read, and a blocked one is owed nothing), of the command line's client
  while it waits, of the notifier thread, of the `select!` and of the exit. The
  clock, the watchdog, signals, new requests, broken connections and exits of tasks
  are the environment's choice.
- `MethodRouter`: weak fairness of each requester, of the bridges, the receiver,
  the end of an insert, and time. Users, clients and crashes are owed nothing.
- `WalletConnect`: weak fairness of the loop, whose receives time out, and strong
  fairness of the cancel branch: `tokio::select!` polls its branches in random
  order, so a branch that is ready again and again is taken. That the socket
  reports a lost connection is not assumed; `PairingSubscribed` says nothing of a
  connection that is lost and never reported.

The other modules have only safety properties and no fairness.

## Proofs

All proofs are by an inductive invariant, with one lemma per action (or group of
actions with the same effect) and a temporal step at the end. They assume only
the named assumptions on constants and hold for any number of threads, requests,
pages, credentials and faults.

**PasskeyGateProofs.** `GateInv` is `TypeOK`, `PendingInv`, `BurnedInv`,
`SingleUse` and `GrantsAreFresh`. `SingleUse` is not inductive: that a pending
challenge has no grant must be known before it is answered. `PendingInv` says
that a pending challenge was issued for its credential in the present lock epoch
with the expiry it carries, is not burned and has authorized nothing; `BurnedInv`
that a burned challenge was issued, and so is never drawn again. Theorems: `TypeCorrect`,
`ChallengesAreSingleUse`, `BindingFailuresBurn`, `AuthorizationsAreFresh` and,
from the same invariant as an action property, `OwnersSpendChallenges`.

**SessionKeysProofs.** Nothing is assumed of the threads. `RegistryInv` is the
types, that what a thread at work has loaded is still on file except for contested
records, that it has the settled ids revoked, that a create found its id absent and
a revoke did not, and `SettledIsFinal`, which is not inductive without the loaded
maps. `SettledRevocationsAreFinal`
follows, and `RegistryImplementsLifecycle`: the initial state maps to one of
`SessionKeyLifecycle`, and every step to a step or a stutter. The run
`session_keys_race` shows that the stronger `RevocationObserved` fails.

**AuditLogProofs.** `LogInv` is the types, that `who` contains every writer with
an append in progress, and, while the log is clean (one writer, no failed
append), the shape of the file: entry `i` has its predecessor's id and the next
number, and the writer's tail is the last entry. Theorems: `LogTypeCorrect`,
`LogVerifies` and `LogNumbersGrow`.

**ApprovalProofs.** `ApprovedOnTheWay`: an approval in the oneshot channel, and a
request past the gate, were approved in time. Theorem `SignedRequestsAreApproved`.

**AnswerProofs.** `OnePlace`: an approval that has not been answered is in one
place, with its handler, in one of the channels, between log and map, in the map,
or with one page. Every step moves one approval to the next place or loses
approvals, so the places stay disjoint (`MoveKeepsApart`, `LossKeepsApart`), and a
page that answers holds an approval that has no answer. Theorem `AnswersAreFinal`.

Only model-checked: all liveness properties (TLAPS has no support for proving
them here), `ConsumedOnce` and the other properties of SiwxNonces,
`DamageBounded`, `LinksPointBack`, and all of KeyAgent, Daemon and WalletConnect.

## Findings

Each is a violation run: TLC exhibits a behaviour of the code that contradicts the
quoted text.

1. `passkey_stale_key` (`handler.rs:557`): the verifier of a credential is built
   once; after re-registration with another key the old one is still accepted and
   the new one refused until LockVault or a restart. `passkey.rs:4` says
   verification is "against the stored public key".
2. `session_keys_race` (`session_keys.rs:160`): a create that loaded before a
   concurrent revocation saves the revoked key as active. `session_keys.rs:4-5`:
   "revocation has observable effect".
3. `enclave_hung_child` (`enclave.rs:906`): the request line is written before the
   timeout starts; if the child hangs and the line exceeds the pipe the parent
   blocks for ever. `enclave.rs:892-893`: "already bounds every child lifetime".
4. `wc_discard` (`wallet_server.rs:584`): the receive before the `select!` takes a
   message and drops it. `wallet_server.rs:583`: "The recv result is handled by
   the tokio::select! below".

## Observations

Met while modelling; no run asserts that the documented side holds.

- `nonce_store.rs:5-6` says that the store works "so a captured login message cannot
  be signed a second time", `docs/sign-in-with-wallet.md:51` calls SignSiwx
  "single-use" and 132-133 "replay-protected `SignSiwx` path (message hash consumed
  single-use before signing)". Three things limit this. An entry lives until the
  message's expiration while `validate.rs:216-224` accepts the message for the skew
  allowance longer, and an entry made in that time lives one second
  (`nonce_store.rs:123`), so the message is signed again, once a second at most:
  `SignaturesBounded` is the bound the code keeps, which is above one. Two consumes
  that overlap both succeed, and one may drop the entry of the other (`ConsumedOnce`
  speaks of entries saved alone). A full store forgets the entry that expires first
  (`EvictsOldest`).
- `handler.rs:411-422`: a child that reports success without a signature, or with
  one that is not hexadecimal, ends the request before any resolving entry, and the
  pending entry stays; 453-454 say "A killed or failed child MUST still resolve its
  pending entry — pending-without-resolved alerts, never silently drops".
  `SpawnedIsResolved` is about killed and failed children and about signatures that
  were released.
- `netagent.rs:172-176`: the command line sends signing requests through a client
  with no deadline, so it waits for ever when its own dispatch blocks
  (`enclave.rs:906`); `CliReturns` is about everything else it could wait for.
- `docs/webui-approval-design.md:210-211`: "ApprovalQueue GCs expired entries". The
  code keeps an expired entry on offer until a page takes it (then it is told that
  it has expired), as `LoggedStaysOffered` states.
- `approval_log.rs:88`: one line that is not text, as a torn append may leave, makes
  the whole log unreadable; `oc-webui/src/lib.rs:89` warns and starts with an empty
  queue. The approvals are in the log still.
- `process_hardening.rs:168-170`: "an empty channel is returned (no signals will
  ever be delivered)" when the handler cannot be installed; `daemon/mod.rs:560-564`
  takes the closed channel for the end of the notifier and ends the daemon.

- `approval.rs:44`: the send into the approval channel has no timeout. With the
  Web UI off nothing drains it, and requests beyond its bounds wait for ever
  (`WebUi = "off"` in MethodRouter).
- `approval_queue.rs:173`: an approval is announced before it is in the map; a
  decision in that window is told it is already resolved.
- `approval_queue.rs:145`: a crash after the answer and before the resolved line
  brings the approval back as an orphan, which answers nobody.
- `wc_method_router.rs:907, 1128, 1261`: three methods find out only after the
  approval that their passkey proof is missing or the transport unsuitable. The
  policy is evaluated before the wait; a challenge lives 120 s, an approval 300 s.
- `wc_method_router.rs:1497`: the intent signer calls `block_on` inside the
  runtime, which panics and ends the WalletConnect task (comments at 1470-1474
  and 1493-1496 expect it to work). It is in the model (`intent_execute`).
- `http_rpc.rs:82-105`: `approval_mode` without a channel builds a router without
  a gate; 77-81 describe it as fail-closed.
- `wallet_server.rs:914-923`: a response that cannot be published ends the loop;
  540-541 say it reconnects. `598`: a subscription that failed is recorded as
  made. `859`: expired sessions are served. `839-850`: the session table stays
  locked while an auth request waits for its user.
- `server.rs:230`: only an accept counts as activity for the idle lock; 142-143
  speak of requests. `247`: a panicking handler never gives its slot back.
- `key_agent_client.rs:103`: a pooled connection the server has closed fails the
  first send; 112-113 say it "transparently reconnects".
- `daemon/mod.rs:604-614`: the control-socket task never exits, so a signal always
  waits the whole grace period; the paths that end with the Key-Agent return
  without clearing the key cache (617).
- `audit.rs:249-250`: entry and newline are two writes; `agent_secret.rs:66`
  speaks of a single one. The model has the two.
- `passkey.rs:425`: register has the load and save pattern of the session keys;
  two registrations at once may lose one. It is in the model.

## Not modelled

`PROJECT.json` lists every part with its reason. In short: cryptography, key
derivation, transaction encoding and address formats (`oc-crypto`, `oc-signer`,
the formats of `oc-secret`, `oc-siwx` and `oc-walletconnect`) have no state that
TLC could explore; chain access, simulation and broadcasting are calls to
services; the command line and the terminal UI print. The secret store, vault,
policy engine, OCWP wallet RPC, browser extension and the rest of the Web UI have
state worth modelling and are the subject of the plan.

`oc_core::paths::write_atomic_private` (write to a temporary file, rename) is
taken as one atomic replacement.

## Plan

In this order:

1. **OcwpSessions, ConsentQueue**: the wallet RPC's sessions, site registry and
   policy gate with the extension's router and consent queue; composed, since the
   extension decides on what the daemon told it before an await. Properties: no
   execution after a revocation was confirmed, single consumption of a consent, no
   request left without an answer when a worker restarts. Abstract specification:
   a consent is granted or refused once.
2. **SecretStore, Journal**: entry file, index, tombstone and the READY journal
   with a crash between any two writes, and recovery run at any time, twice, and
   interrupted; the vault's atomic replacement and backups. Abstract
   specification: a map that changes atomically.
3. **PolicyEngine**: the eleven steps, counters and windows of `v2.rs` and the
   rule trees of `v3.rs` as operators, with a reference definition (filter over
   the whole history) over bounded inputs; record and rollback as a state machine.
4. **Key-Agent, the rest**: the listings, telemetry's bounded channel, panicking
   connection threads, the key cache and its clearing on every exit path.
5. **WebUiSessions, WalletOps**: log-in ceremonies and sessions of the Web UI; key
   store and policy store operations.
6. **Proofs**: `HandledOnce` (the guard's entry outlives the message at the
   relay), `InTimeFindsRequester` and the log properties of ApprovalQueue (on top
   of `OnePlace`), `OneUsePerAuthorization` and `ReleasedIsAudited` of KeyAgent,
   `AnswersMatch` of KeyAgentServer (one owner per connection), and the refinement
   of the abstract specifications of steps 1 and 2.

Today the map covers about a twentieth of the implementation's lines, most of the
Key-Agent, approval and WalletConnect paths; steps 1 to 5 add the crates that hold
the rest of the stateful code. To keep the whole set quick to run, the small runs
on one store each (`session_keys`, `siwx_nonces`) are to be merged into a run of
the handlers composed with their stores, and a violation run goes when the code it
is about is fixed.

## Running the checks

    tlc -workers 2 -config PasskeyGate.cfg MCPasskeyGate
    tlapm PasskeyGateProofs.tla

and likewise for the other runs and for `SessionKeysProofs`, `AuditLogProofs`,
`ApprovalProofs` and `AnswerProofs`. A mutant replaces the body of the definition
named by `of` with a use of the operator named by `as`, under the run's own cfg.
