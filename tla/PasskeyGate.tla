------------------------------ MODULE PasskeyGate ------------------------------
(***************************************************************************)
(* The passkey gate of the Key-Agent (crates/oc-keyagent/src/passkey.rs    *)
(* and verify_passkey, verify_passkey_for, handle_generate_challenge,      *)
(* handle_register_passkey, handle_lock_vault of handler.rs).              *)
(*                                                                         *)
(* The Key-Agent serves each connection on a thread of its own.  All the   *)
(* threads share one file of registered passkeys (passkeys.json, read and  *)
(* rewritten as a whole, with no lock around the two) and one in-memory    *)
(* table of verifiers behind a mutex.  A handler reads the file BEFORE it  *)
(* takes the mutex, so what it read may be stale when it is used: every    *)
(* handler below is therefore a load step followed by a step under the     *)
(* mutex (or by the step that replaces the file).  The entries the         *)
(* handlers add to the audit log are in KeyAgent.                          *)
(***************************************************************************)
EXTENDS Naturals, FiniteSets

CONSTANTS
    Threads,       \* connection threads
    Creds,         \* credential ids
    Wallets,       \* wallet ids
    Keys,          \* passkey key pairs whose public half decodes
    BadKey,        \* a registered key that to_passkey_pubkey cannot decode
    Nonces,        \* 32-byte challenges the CSPRNG may draw
    Malformed,     \* a challenge field that is not 32 bytes long
    AnyWallet,     \* verify_passkey: no wallet binding is asked for
    NoRec, NoVerifier,
    Records,       \* the records [key, wallet] that clients register
    Requested,     \* the wallets that requests are for, AnyWallet included
    ChallengeTTL,  \* CHALLENGE_TTL_SECS
    MaxPending,    \* MAX_PENDING_CHALLENGES
    MaxTime,       \* bound of the modelled clock
    MaxLocks       \* bound on LockVault requests

ASSUME TTLAssumption == ChallengeTTL \in Nat \ {0}
ASSUME MaxPendingAssumption == MaxPending \in Nat \ {0}
ASSUME BoundAssumption == MaxTime \in Nat /\ MaxLocks \in Nat
ASSUME MarkerAssumption ==
    /\ BadKey \notin Keys
    /\ Malformed \notin Nonces
    /\ AnyWallet \notin Wallets
    /\ Records \subseteq [key : Keys \cup {BadKey}, wallet : Wallets]
    /\ Requested \subseteq Wallets \cup {AnyWallet}

VARIABLES
    store,      \* passkeys.json: credential -> [key, wallet] or NoRec
    verifiers,  \* passkey_verifiers: credential -> [key, pending] or NoVerifier
    call,       \* per thread: the handler it runs, its arguments, what it read
    now,        \* now_unix()
    locks,      \* history: how many times LockVault has cleared the verifiers
    issued,     \* history: every challenge ever handed out, where and when
    burned,     \* history: the challenges of requests that failed their wallet binding
    grants      \* history: every authorization the gate has given

vars == <<store, verifiers, call, now, locks, issued, burned, grants>>

File == [Creds -> Records \cup {NoRec}]

\* pending_challenges maps a pending nonce to its expiry, which is never 0;
\* a nonce that is not in the map has the value 0 here.
Verifier == [key : Keys, pending : [Nonces -> Nat]]
PendingOf(v) == {n \in Nonces : v.pending[n] # 0}

Idle == [op |-> "idle"]
ChallengeCall == [op : {"challenge"}, cred : Creds, stored : Records]
VerifyCall ==
    [op : {"verify"}, cred : Creds, ch : Nonces \cup {Malformed}, key : Keys,
     wallet : Wallets \cup {AnyWallet}, stored : Records]
RegisterCall == [op : {"register"}, cred : Creds, rec : Records, file : File]

Issue == [cred : Creds, at : Nat, epoch : Nat]
Grant ==
    [ch : Nonces, cred : Creds, key : Keys, stored : Keys \cup {BadKey},
     at : Nat, epoch : Nat, by : Threads]

\* The markers of absence are values of their own.
ASSUME AbsenceAssumption == NoRec \notin Issue \cup Records /\ NoVerifier \notin Verifier

TypeOK ==
    /\ store \in File
    /\ verifiers \in [Creds -> Verifier \cup {NoVerifier}]
    /\ call \in [Threads -> {Idle} \cup ChallengeCall \cup VerifyCall \cup RegisterCall]
    /\ now \in Nat
    /\ locks \in Nat
    /\ issued \in [Nonces -> Issue \cup {NoRec}]
    /\ burned \subseteq Nonces
    /\ grants \subseteq Grant

Init ==
    /\ store = [c \in Creds |-> NoRec]
    /\ verifiers = [c \in Creds |-> NoVerifier]
    /\ call = [t \in Threads |-> Idle]
    /\ now = 0
    /\ locks = 0
    /\ issued = [n \in Nonces |-> NoRec]
    /\ burned = {}
    /\ grants = {}
-----------------------------------------------------------------------------
(* The verifier itself.                                                    *)

\* A sweep that drops a challenge one second before it expires.
sweep_expired_early(v) ==
    [v EXCEPT !.pending = [n \in Nonces |-> IF @[n] > now + 1 THEN @[n] ELSE 0]]

\* The verifier without the challenges whose time is up.
sweep_expired(v) ==
    [v EXCEPT !.pending = [n \in Nonces |-> IF @[n] > now THEN @[n] ELSE 0]]

\* The hard cap on pending challenges.
AtCapacity(v) == Cardinality(PendingOf(v)) >= MaxPending

AddChallenge(v, n) == [v EXCEPT !.pending[n] = now + ChallengeTTL]

\* A verification that forgets to remove the challenge it accepted.
ConsumeChallengeKept(v, n) == v

ConsumeChallenge(v, n) == [v EXCEPT !.pending[n] = 0]

\* Takes any registered key for one that decodes.
HasVerifierAlways(c, rec) == TRUE

\* The table already has a verifier for c, or the record read earlier decodes.
HasVerifier(c, rec) == verifiers[c] # NoVerifier \/ rec.key # BadKey

\* The verifier of c, created from the record read earlier if there is none yet.
VerifierOf(c, rec) ==
    IF verifiers[c] # NoVerifier
    THEN verifiers[c]
    ELSE [key |-> rec.key, pending |-> [n \in Nonces |-> 0]]

SetVerifier(c, v) == verifiers' = [verifiers EXCEPT ![c] = v]

Return(t) == call' = [call EXCEPT ![t] = Idle]
-----------------------------------------------------------------------------
(* GenerateChallenge.                                                      *)

\* store.get: an unregistered credential ends the request.
CallGenerate(t, c) ==
    /\ call[t] = Idle
    /\ store[c] # NoRec
    /\ call' = [call EXCEPT ![t] = [op |-> "challenge", cred |-> c, stored |-> store[c]]]
    /\ UNCHANGED <<store, verifiers, now, locks, issued, burned, grants>>

generate_challenge(t) ==
    /\ call[t].op = "challenge"
    /\ LET c == call[t].cred
           rec == call[t].stored
           v == sweep_expired(VerifierOf(c, rec))
       IN  \/ /\ ~HasVerifier(c, rec)                         \* undecodable key
              /\ UNCHANGED <<verifiers, issued>>
           \/ /\ HasVerifier(c, rec)
              /\ AtCapacity(v)                               \* RateLimited
              /\ SetVerifier(c, v)
              /\ UNCHANGED issued
           \/ /\ HasVerifier(c, rec)
              /\ ~AtCapacity(v)
              /\ \E n \in Nonces :
                    /\ issued[n] = NoRec                      \* the CSPRNG never repeats
                    /\ SetVerifier(c, AddChallenge(v, n))
                    /\ issued' = [issued EXCEPT ![n] =
                                    [cred |-> c, at |-> now, epoch |-> locks]]
    /\ Return(t)
    /\ UNCHANGED <<store, now, locks, burned, grants>>
-----------------------------------------------------------------------------
(* verify_passkey and verify_passkey_for.  A request that presents         *)
(* challenge ch for credential c was signed with the private half of key.  *)

\* The passkey's record names the wallet the request is for.
BoundTo(rec, w) == w \in {AnyWallet, rec.wallet}

CallVerify(t, c, ch, key, w) ==
    /\ call[t] = Idle
    /\ store[c] # NoRec
    /\ call' = [call EXCEPT ![t] =
                  [op |-> "verify", cred |-> c, ch |-> ch, key |-> key,
                   wallet |-> w, stored |-> store[c]]]
    /\ UNCHANGED <<store, verifiers, now, locks, issued, burned, grants>>

\* PasskeyVerifier::verify under the mutex, then the wallet binding.  The
\* challenge is consumed by a good signature even when the binding then fails.
verify(t) ==
    /\ call[t].op = "verify"
    /\ LET r == call[t]
           rec == r.stored
           fresh == VerifierOf(r.cred, rec)
           v == sweep_expired(fresh)
           Accepted == r.ch \in PendingOf(v) /\ v.key = r.key
       IN  \/ /\ ~HasVerifier(r.cred, rec)                    \* undecodable key
              /\ UNCHANGED <<verifiers, burned, grants>>
           \/ /\ HasVerifier(r.cred, rec)
              /\ ~Accepted                            \* Missing, Replay, Forged
              /\ SetVerifier(r.cred, IF r.ch = Malformed THEN fresh ELSE v)
              /\ UNCHANGED <<burned, grants>>
           \/ /\ HasVerifier(r.cred, rec)
              /\ Accepted
              /\ ~BoundTo(rec, r.wallet)
              /\ SetVerifier(r.cred, ConsumeChallenge(v, r.ch))
              /\ burned' = burned \cup {r.ch}                 \* AuthFailed
              /\ UNCHANGED grants
           \/ /\ HasVerifier(r.cred, rec)
              /\ Accepted
              /\ BoundTo(rec, r.wallet)
              /\ SetVerifier(r.cred, ConsumeChallenge(v, r.ch))
              /\ grants' = grants \cup
                    {[ch |-> r.ch, cred |-> r.cred, key |-> r.key,
                      stored |-> rec.key, at |-> now, epoch |-> locks, by |-> t]}
              /\ UNCHANGED burned
    /\ Return(t)
    /\ UNCHANGED <<store, now, locks, issued>>
-----------------------------------------------------------------------------
(* RegisterPasskey: load the map, insert, replace the file.                *)

CallRegister(t, c, rec) ==
    /\ call[t] = Idle
    /\ call' = [call EXCEPT ![t] =
                  [op |-> "register", cred |-> c, rec |-> rec, file |-> store]]
    /\ UNCHANGED <<store, verifiers, now, locks, issued, burned, grants>>

\* The verifier table is left alone: a verifier of the old key stays cached.
register(t) ==
    /\ call[t].op = "register"
    /\ store' = [call[t].file EXCEPT ![call[t].cred] = call[t].rec]
    /\ Return(t)
    /\ UNCHANGED <<verifiers, now, locks, issued, burned, grants>>

\* A file that cannot be replaced ends the request (E_INTERNAL).
RegisterFails(t) ==
    /\ call[t].op = "register"
    /\ Return(t)
    /\ UNCHANGED <<store, verifiers, now, locks, issued, burned, grants>>
-----------------------------------------------------------------------------
\* A lock that leaves the verifiers, and their pending challenges, in place.
lock_vault_no_clear(t) ==
    /\ call[t] = Idle
    /\ locks < MaxLocks
    /\ locks' = locks + 1
    /\ UNCHANGED <<store, verifiers, call, now, issued, burned, grants>>

\* LockVault clears every verifier, and with it every pending challenge.
lock_vault(t) ==
    /\ call[t] = Idle
    /\ locks < MaxLocks
    /\ verifiers' = [c \in Creds |-> NoVerifier]
    /\ locks' = locks + 1
    /\ UNCHANGED <<store, call, now, issued, burned, grants>>

\* Bounded by MaxTime.
Tick ==
    /\ now < MaxTime
    /\ now' = now + 1
    /\ UNCHANGED <<store, verifiers, call, locks, issued, burned, grants>>

Step(t) ==
    \/ \E c \in Creds : CallGenerate(t, c)
    \/ generate_challenge(t)
    \/ \E c \in Creds, ch \in Nonces \cup {Malformed}, k \in Keys,
          w \in Requested : CallVerify(t, c, ch, k, w)
    \/ verify(t)
    \/ \E c \in Creds, rec \in Records : CallRegister(t, c, rec)
    \/ register(t)
    \/ RegisterFails(t)
    \/ lock_vault(t)

Next == Tick \/ \E t \in Threads : Step(t)

Spec == Init /\ [][Next]_vars
-----------------------------------------------------------------------------
(* Properties.                                                             *)

\* A challenge authorizes at most one request, whichever threads present it
\* and however their store reads and mutex sections interleave.
SingleUse ==
    \A g, h \in grants : g.ch = h.ch => g = h

\* An authorization answers a challenge that this agent issued for that very
\* credential, less than ChallengeTTL seconds ago, and since the last
\* LockVault (handle_lock_vault: "a lock cannot be followed by a replay of a
\* previously-issued challenge").
GrantsAreFresh ==
    \A g \in grants :
        /\ issued[g.ch] # NoRec
        /\ issued[g.ch].cred = g.cred
        /\ g.at < issued[g.ch].at + ChallengeTTL
        /\ g.epoch = issued[g.ch].epoch

\* In this step, every live challenge stays with its verifier, or the vault is
\* locked, or the challenge is answered with the key its verifier holds.
LiveChallengesKept ==
    \A c \in Creds : verifiers[c] # NoVerifier =>
        \A n \in PendingOf(verifiers[c]) :
            \/ verifiers[c].pending[n] <= now
            \/ locks' # locks
            \/ verifiers'[c] # NoVerifier /\ n \in PendingOf(verifiers'[c])
            \/ \E t \in Threads : /\ call[t].op = "verify"
                                  /\ call[t].cred = c
                                  /\ call[t].ch = n
                                  /\ call[t].key = verifiers[c].key

\* A live challenge leaves its verifier only through LockVault or through a
\* request signed with the key that verifier holds: neither a forged answer,
\* nor another credential's request, nor the sweep can spend it.
ChallengeSpentOnlyByOwner == [][LiveChallengesKept]_vars

\* A good signature for the wrong wallet costs its challenge: the challenge is
\* pending nowhere afterwards and never becomes the basis of an authorization.
BindingFailureBurnsChallenge ==
    \A n \in burned :
        /\ \A c \in Creds : verifiers[c] # NoVerifier => n \notin PendingOf(verifiers[c])
        /\ \A g \in grants : g.ch # n

\* passkey.rs promises to verify "against the stored public key": the key an
\* authorization was checked with is the one in the record its handler read.
VerifiedAgainstStoredKey ==
    \A g \in grants : g.key = g.stored
=============================================================================
