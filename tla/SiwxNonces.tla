------------------------------ MODULE SiwxNonces ------------------------------
(***************************************************************************)
(* Single-use Sign-In messages: the nonce store of the Key-Agent           *)
(* (crates/oc-keyagent/src/nonce_store.rs) and the part of                 *)
(* handle_sign_siwx that leads up to it and follows it: temporal window,   *)
(* consume, sign.                                                          *)
(*                                                                         *)
(* The store is a JSON file of message hashes and expiry times.  consume   *)
(* loads it (dropping what has expired), looks the message up, inserts it  *)
(* and replaces the file, with no lock in between and the clock running.   *)
(***************************************************************************)
EXTENDS Naturals, FiniteSets

CONSTANTS
    Threads,      \* connection threads
    Msgs,         \* the exact bytes of Sign-In messages
    Expiration,   \* Msgs -> expiration_time, or NoExpiration
    NoExpiration,
    NotBefore,    \* Msgs -> not_before, 0 for none
    DefaultTTL,   \* DEFAULT_SIWZ_TTL_SECS
    Skew,         \* oc-siwx clock_skew_secs
    MaxEntries,   \* MAX_NONCE_ENTRIES
    MaxTime       \* bound of the modelled clock

ASSUME ExpirationAssumption == \A m \in Msgs : Expiration[m] \in Nat \cup {NoExpiration}
ASSUME NotBeforeAssumption == NotBefore \in [Msgs -> Nat]
ASSUME SiwxBoundsAssumption ==
    {DefaultTTL, Skew, MaxEntries, MaxTime} \subseteq Nat /\ MaxEntries > 0

VARIABLES
    file,      \* siwx_nonces.json: Msgs -> expiry, 0 for a hash that is not in it
    op,        \* per thread: how far its SignSiwx request has come
    now,       \* the clock, in seconds
    until,     \* history: the expiry the last consume of the message recorded
    exposed,   \* history: the messages whose entry was saved while another thread
               \* was between its load and its save
    evicted,   \* history: the messages a save has dropped before their time
    reused,    \* history: the other messages that were consumed again before that
    signed     \* history: how many signatures a message that expires has been given,
               \* until it is exposed or evicted

vars == <<file, op, now, until, exposed, evicted, reused, signed>>

Map == [Msgs -> Nat]
Idle == [at |-> "idle"]
Ops ==
    [at : {"validated", "consumed"}, msg : Msgs]
        \cup [at : {"loaded"}, msg : Msgs, exp : Nat, map : Map]

Entries(map) == {m \in Msgs : map[m] # 0}

\* The store never tracks more than MaxEntries messages, however consumes overlap.
TypeOK ==
    /\ file \in Map
    /\ Cardinality(Entries(file)) <= MaxEntries
    /\ op \in [Threads -> {Idle} \cup Ops]
    /\ now \in Nat
    /\ until \in Map
    /\ exposed \subseteq Msgs
    /\ evicted \subseteq Msgs
    /\ reused \subseteq Msgs
    /\ signed \in [Msgs -> Nat]

Init ==
    /\ file = [m \in Msgs |-> 0]
    /\ op = [t \in Threads |-> Idle]
    /\ now = 0
    /\ until = [m \in Msgs |-> 0]
    /\ exposed = {}
    /\ evicted = {}
    /\ reused = {}
    /\ signed = [m \in Msgs |-> 0]

Goto(t, o) == op' = [op EXCEPT ![t] = o]
Max2(a, b) == IF a >= b THEN a ELSE b
-----------------------------------------------------------------------------
\* The expiration may be up to Skew seconds in the past, not_before up to Skew
\* seconds in the future; no limit on the age of issued_at is set (handler.rs:1319).
check_temporal_window(m) ==
    /\ Expiration[m] # NoExpiration => now <= Expiration[m] + Skew
    /\ NotBefore[m] <= now + Skew

\* A request that is authorized, parses and names the right chain is validated.
Validate(t, m) ==
    /\ op[t] = Idle
    /\ check_temporal_window(m)
    /\ Goto(t, [at |-> "validated", msg |-> m])
    /\ UNCHANGED <<file, now, until, exposed, evicted, reused, signed>>

\* The store as load returns it.
load == [m \in Msgs |-> IF file[m] > now THEN file[m] ELSE 0]

\* When the entry of m is to expire: with the message, or after DefaultTTL.
ExpiresAt(m) == IF Expiration[m] = NoExpiration THEN now + DefaultTTL ELSE Expiration[m]

BeginConsume(t, m) ==
    Goto(t, [at |-> "loaded", msg |-> m, exp |-> ExpiresAt(m), map |-> load])

\* The first half of a consume that does not look the message up.
LoadUnchecked(t) ==
    /\ op[t].at = "validated"
    /\ BeginConsume(t, op[t].msg)
    /\ UNCHANGED <<file, now, until, exposed, evicted, reused, signed>>

\* The first half of consume: a message that is still in the store is a Replay.
Load(t) ==
    /\ op[t].at = "validated"
    /\ \/ load[op[t].msg] # 0 /\ Goto(t, Idle)
       \/ load[op[t].msg] = 0 /\ BeginConsume(t, op[t].msg)
    /\ UNCHANGED <<file, now, until, exposed, evicted, reused, signed>>

\* Evicts some entry, not the one that expires first.
EvictedAny(map) ==
    IF Cardinality(Entries(map)) < MaxEntries THEN {map}
    ELSE {[map EXCEPT ![m] = 0] : m \in Entries(map)}

\* Never evicts.
EvictedNone(map) == {map}

\* The maps that making room may leave: a full store loses an entry that
\* expires first.
Evicted(map) ==
    IF Cardinality(Entries(map)) < MaxEntries THEN {map}
    ELSE {[map EXCEPT ![m] = 0] :
            m \in {e \in Entries(map) : \A k \in Entries(map) : map[e] <= map[k]}}

\* A consume that records the expiry it is given, even when it has passed.
LifetimeAsGiven(exp) == exp

\* An entry lives for a second at least.
Lifetime(exp) == Max2(exp, now + 1)

\* No other thread is between its load and its save.
Alone(t) == \A u \in Threads \ {t} : op[u].at # "loaded"

\* The second half of consume: make room, insert, replace the file.
Save(t) ==
    /\ op[t].at = "loaded"
    /\ LET m == op[t].msg
           exp == Lifetime(op[t].exp)
       IN  /\ \E map \in Evicted(op[t].map) : file' = [map EXCEPT ![m] = exp]
           /\ until' = [until EXCEPT ![m] = exp]
           /\ exposed' = IF Alone(t) THEN exposed ELSE exposed \cup {m}
           /\ evicted' = evicted \cup {k \in Msgs : file[k] > now /\ file'[k] = 0}
           /\ reused' = IF until[m] > now THEN reused \cup ({m} \ (exposed \cup evicted))
                        ELSE reused
           /\ Goto(t, [at |-> "consumed", msg |-> m])
    /\ UNCHANGED <<now, signed>>

\* The file cannot be replaced: the request ends, unsigned.
SaveFails(t) ==
    /\ op[t].at = "loaded"
    /\ Goto(t, Idle)
    /\ UNCHANGED <<file, now, until, exposed, evicted, reused, signed>>

\* Signing fails, or the wallet does not own the address the message names:
\* the message stays consumed.
SignFails(t) ==
    /\ op[t].at = "consumed"
    /\ Goto(t, Idle)
    /\ UNCHANGED <<file, now, until, exposed, evicted, reused, signed>>

Sign(t) ==
    /\ op[t].at = "consumed"
    /\ signed' = [signed EXCEPT ![op[t].msg] =
                    IF Expiration[op[t].msg] = NoExpiration \/ op[t].msg \in exposed \cup evicted
                    THEN @ ELSE @ + 1]
    /\ Goto(t, Idle)
    /\ UNCHANGED <<file, now, until, exposed, evicted, reused>>

\* Bounded by MaxTime.
Tick ==
    /\ now < MaxTime
    /\ now' = now + 1
    /\ UNCHANGED <<file, op, until, exposed, evicted, reused, signed>>

Step(t) ==
    \/ \E m \in Msgs : Validate(t, m)
    \/ Load(t) \/ Save(t) \/ SaveFails(t) \/ SignFails(t) \/ Sign(t)

Next == Tick \/ \E t \in Threads : Step(t)

Spec == Init /\ [][Next]_vars
-----------------------------------------------------------------------------
(* Properties.                                                             *)

\* A message whose entry was saved while no other consume was between its load
\* and its save, and that the store had room to keep, is not consumed again
\* before the expiry that entry recorded, however consumes overlap afterwards
\* (nonce_store.rs:6: "a captured login message cannot be signed a second time").
ConsumedOnce == reused = {}

\* The clock-skew allowance lets a message be validated although its entry has
\* expired, and an entry made then lives for a second only.  So such a message is
\* signed once before its expiration, and once a second at most from then on:
\* the bound of the code, where nonce_store.rs:6 promises a single signature.
SignaturesBounded ==
    \A m \in Msgs \ (exposed \cup evicted) : Expiration[m] # NoExpiration =>
        signed[m] <= IF now < Expiration[m] THEN 1 ELSE now - Expiration[m] + 2

\* A message whose entry was saved alone loses it before its time only to make
\* room in a full store, and then expires no later than any such entry that
\* stays ("oldest-expiring entry goes; the replay window stays bounded").
EvictsOldest ==
    [][\A m \in Msgs \ (exposed \cup evicted) :
         file[m] > now /\ file'[m] = 0 =>
            /\ \E t \in Threads :
                   /\ op[t].at = "loaded" /\ op'[t].at = "consumed"
                   /\ Cardinality(Entries(op[t].map)) = MaxEntries
            /\ \A k \in Msgs \ exposed :
                   file[k] > 0 /\ file'[k] = file[k] => file[m] <= file[k]]_vars
=============================================================================
