--------------------------- MODULE PasskeyGateProofs ---------------------------
(***************************************************************************)
(* Proofs about PasskeyGate, for any numbers of threads, credentials,      *)
(* wallets, keys and nonces and any ChallengeTTL and MaxPending.           *)
(*                                                                         *)
(* SingleUse and GrantsAreFresh are not inductive: they say nothing of the *)
(* challenges that are still pending, and it is a pending challenge that   *)
(* becomes an authorization.  PendingInv supplies the missing half.        *)
(***************************************************************************)
EXTENDS PasskeyGate, TLAPS

\* Every pending challenge was issued for the verifier that holds it, since
\* the last LockVault, expires ChallengeTTL after it was issued, and has not
\* authorized anything.
PendingInv ==
    \A c \in Creds : verifiers[c] # NoVerifier =>
        \A n \in Nonces : verifiers[c].pending[n] # 0 =>
            /\ issued[n] # NoRec
            /\ issued[n].cred = c
            /\ issued[n].epoch = locks
            /\ verifiers[c].pending[n] = issued[n].at + ChallengeTTL
            /\ \A g \in grants : g.ch # n
            /\ n \notin burned

\* A burned challenge was issued, and is the basis of no authorization.
BurnedInv ==
    \A n \in burned : issued[n] # NoRec /\ \A g \in grants : g.ch # n

\* The inductive invariant of the gate.
GateInv == TypeOK /\ PendingInv /\ BurnedInv /\ SingleUse /\ GrantsAreFresh

-----------------------------------------------------------------------------
(* What the operations on a verifier return.                               *)

\* sweep_expired keeps the key and the unexpired challenges, and nothing else.
LEMMA SweepLemma ==
    ASSUME now \in Nat, NEW v \in Verifier
    PROVE  /\ sweep_expired(v) \in Verifier
           /\ sweep_expired(v).key = v.key
           /\ \A n \in Nonces : sweep_expired(v).pending[n] =
                                    IF v.pending[n] > now THEN v.pending[n] ELSE 0
  BY DEF sweep_expired, Verifier

\* generate_challenge's insertion changes one entry.
LEMMA AddLemma ==
    ASSUME now \in Nat, NEW v \in Verifier, NEW n \in Nonces
    PROVE  /\ AddChallenge(v, n) \in Verifier
           /\ AddChallenge(v, n).key = v.key
           /\ \A m \in Nonces : AddChallenge(v, n).pending[m] =
                                    IF m = n THEN now + ChallengeTTL ELSE v.pending[m]
  BY TTLAssumption DEF AddChallenge, Verifier

\* Consuming a challenge removes one entry.
LEMMA ConsumeLemma ==
    ASSUME NEW v \in Verifier, NEW n \in Nonces
    PROVE  /\ ConsumeChallenge(v, n) \in Verifier
           /\ ConsumeChallenge(v, n).key = v.key
           /\ \A m \in Nonces : ConsumeChallenge(v, n).pending[m] =
                                    IF m = n THEN 0 ELSE v.pending[m]
  BY DEF ConsumeChallenge, Verifier

\* The verifier a handler works with is well formed and, when it was not in
\* the table, has nothing pending.
LEMMA VerifierOfLemma ==
    ASSUME TypeOK, NEW c \in Creds, NEW rec \in Records, HasVerifier(c, rec)
    PROVE  /\ VerifierOf(c, rec) \in Verifier
           /\ \A n \in Nonces : VerifierOf(c, rec).pending[n] # 0 =>
                 verifiers[c] # NoVerifier /\ VerifierOf(c, rec) = verifiers[c]
<1>1. CASE verifiers[c] # NoVerifier
  BY <1>1 DEF VerifierOf, TypeOK
<1>2. CASE verifiers[c] = NoVerifier
  <2>1. rec.key \in Keys
    BY <1>2, MarkerAssumption DEF HasVerifier
  <2>2. VerifierOf(c, rec) = [key |-> rec.key, pending |-> [n \in Nonces |-> 0]]
    BY <1>2 DEF VerifierOf
  <2> QED
    BY <2>1, <2>2 DEF Verifier
<1> QED
  BY <1>1, <1>2
-----------------------------------------------------------------------------
(* The inductive invariant.                                                *)

LEMMA InitGateInv == Init => GateInv
  BY DEF Init, GateInv, TypeOK, PendingInv, BurnedInv, SingleUse, GrantsAreFresh, File

\* A swept verifier of c satisfies what PendingInv says of the table, and all
\* its challenges are unexpired.
LEMMA SweptLemma ==
    ASSUME GateInv, NEW c \in Creds, NEW rec \in Records, HasVerifier(c, rec)
    PROVE  LET v == sweep_expired(VerifierOf(c, rec)) IN
           /\ v \in Verifier
           /\ \A n \in Nonces : v.pending[n] # 0 =>
                /\ issued[n] # NoRec
                /\ issued[n].cred = c
                /\ issued[n].epoch = locks
                /\ v.pending[n] = issued[n].at + ChallengeTTL
                /\ v.pending[n] > now
                /\ \A g \in grants : g.ch # n
                /\ n \notin burned
<1> DEFINE u == VerifierOf(c, rec)
<1> DEFINE v == sweep_expired(u)
<1>1. TypeOK /\ now \in Nat
  BY DEF GateInv, TypeOK
<1>2. /\ u \in Verifier
      /\ \A n \in Nonces : u.pending[n] # 0 => verifiers[c] # NoVerifier /\ u = verifiers[c]
  BY <1>1, VerifierOfLemma
<1>3. /\ v \in Verifier
      /\ \A n \in Nonces : v.pending[n] = IF u.pending[n] > now THEN u.pending[n] ELSE 0
  BY <1>1, <1>2, SweepLemma
<1> HIDE DEF u, v
<1>4. SUFFICES ASSUME NEW n \in Nonces, v.pending[n] # 0
               PROVE  /\ issued[n] # NoRec
                      /\ issued[n].cred = c
                      /\ issued[n].epoch = locks
                      /\ v.pending[n] = issued[n].at + ChallengeTTL
                      /\ v.pending[n] > now
                      /\ \A g \in grants : g.ch # n
                      /\ n \notin burned
  BY <1>3 DEF u, v
<1>5. v.pending[n] = u.pending[n] /\ u.pending[n] > now
  BY <1>3, <1>4
<1>6. verifiers[c] # NoVerifier /\ u = verifiers[c]
  BY <1>1, <1>2, <1>4, <1>5
<1> QED
  BY <1>4, <1>5, <1>6 DEF GateInv, PendingInv

\* A step that replaces the verifier of c by v, and may burn a challenge of c.
LEMMA TableLemma ==
    ASSUME GateInv, NEW c \in Creds, NEW v \in Verifier, SetVerifier(c, v),
           UNCHANGED <<issued, locks, grants>>,
           \A n \in Nonces : v.pending[n] # 0 =>
                /\ issued[n] # NoRec
                /\ issued[n].cred = c
                /\ issued[n].epoch = locks
                /\ v.pending[n] = issued[n].at + ChallengeTTL
                /\ \A g \in grants : g.ch # n
                /\ n \notin burned',
           \A n \in burned' : n \in burned \/ issued[n].cred = c
    PROVE  PendingInv' /\ verifiers' \in [Creds -> Verifier \cup {NoVerifier}]
<1>1. verifiers' = [verifiers EXCEPT ![c] = v]
  BY DEF SetVerifier
<1>2. verifiers \in [Creds -> Verifier \cup {NoVerifier}]
  BY DEF GateInv, TypeOK
<1>3. PendingInv'
  <2> SUFFICES ASSUME NEW d \in Creds, verifiers'[d] # NoVerifier, NEW n \in Nonces,
                      verifiers'[d].pending[n] # 0
               PROVE  /\ issued[n] # NoRec
                      /\ issued[n].cred = d
                      /\ issued[n].epoch = locks
                      /\ verifiers'[d].pending[n] = issued[n].at + ChallengeTTL
                      /\ \A g \in grants : g.ch # n
                      /\ n \notin burned'
    BY DEF PendingInv
  <2>1. CASE d = c
    BY <1>1, <1>2, <2>1
  <2>2. CASE d # c
    BY <1>1, <1>2, <2>2 DEF GateInv, PendingInv
  <2> QED
    BY <2>1, <2>2
<1> QED
  BY <1>1, <1>2, <1>3

\* Calls return, and read records that are in the store.
LEMMA CallLemma ==
    ASSUME TypeOK, NEW t \in Threads
    PROVE  /\ call[t].op = "challenge" => call[t] \in ChallengeCall
           /\ call[t].op = "verify" => call[t] \in VerifyCall
           /\ call[t].op = "register" => call[t] \in RegisterCall
           /\ Return(t) => call' \in [Threads -> {Idle} \cup ChallengeCall
                                              \cup VerifyCall \cup RegisterCall]
<1>1. call[t] \in {Idle} \cup ChallengeCall \cup VerifyCall \cup RegisterCall
  BY DEF TypeOK
<1>2. Idle.op = "idle"
  BY DEF Idle
<1>3. /\ call[t] \in ChallengeCall => call[t].op = "challenge"
      /\ call[t] \in VerifyCall => call[t].op = "verify"
      /\ call[t] \in RegisterCall => call[t].op = "register"
  BY DEF ChallengeCall, VerifyCall, RegisterCall
<1>4. Return(t) => call' \in [Threads -> {Idle} \cup ChallengeCall
                                   \cup VerifyCall \cup RegisterCall]
  BY DEF Return, TypeOK
<1> QED
  BY <1>1, <1>2, <1>3, <1>4

\* GenerateChallenge preserves the invariant: the new nonce is in no grant.
LEMMA GenerateStep ==
    ASSUME GateInv, NEW t \in Threads, generate_challenge(t)
    PROVE  GateInv'
<1> DEFINE c == call[t].cred
<1> DEFINE rec == call[t].stored
<1> DEFINE v == sweep_expired(VerifierOf(c, rec))
<1>1. TypeOK
  BY DEF GateInv
<1>2. c \in Creds /\ rec \in Records
  BY <1>1, CallLemma DEF generate_challenge, ChallengeCall
<1>3. /\ UNCHANGED <<store, now, locks, burned, grants>>
      /\ call' \in [Threads -> {Idle} \cup ChallengeCall \cup VerifyCall \cup RegisterCall]
  BY <1>1, CallLemma DEF generate_challenge
<1>4. now \in Nat /\ locks \in Nat
  BY <1>1 DEF TypeOK
<1>5. CASE UNCHANGED <<verifiers, issued>>
  BY <1>1, <1>3, <1>5 DEF GateInv, TypeOK, PendingInv, BurnedInv, SingleUse, GrantsAreFresh
<1>6. CASE HasVerifier(c, rec) /\ SetVerifier(c, v) /\ UNCHANGED issued
  <2>1. PendingInv' /\ verifiers' \in [Creds -> Verifier \cup {NoVerifier}]
    <3> HIDE DEF c, rec
    <3> QED BY <1>2, <1>3, <1>6, SweptLemma, TableLemma
  <2> QED
    BY <1>1, <1>3, <1>6, <2>1 DEF GateInv, TypeOK, BurnedInv, SingleUse, GrantsAreFresh
<1>7. ASSUME NEW n \in Nonces, HasVerifier(c, rec), issued[n] = NoRec,
             SetVerifier(c, AddChallenge(v, n)),
             issued' = [issued EXCEPT ![n] = [cred |-> c, at |-> now, epoch |-> locks]]
      PROVE  GateInv'
  <2> DEFINE w == AddChallenge(v, n)
  <2> HIDE DEF c, rec
  <2>1. /\ v \in Verifier
        /\ \A m \in Nonces : v.pending[m] # 0 =>
             /\ issued[m] # NoRec /\ issued[m].cred = c /\ issued[m].epoch = locks
             /\ v.pending[m] = issued[m].at + ChallengeTTL
             /\ \A g \in grants : g.ch # m
             /\ m \notin burned
    BY <1>2, <1>7, SweptLemma
  <2> HIDE DEF v
  <2>2. /\ w \in Verifier
        /\ \A m \in Nonces : w.pending[m] = IF m = n THEN now + ChallengeTTL ELSE v.pending[m]
    BY <1>4, <2>1, AddLemma
  <2>3. verifiers' = [verifiers EXCEPT ![c] = w]
    BY <1>7 DEF SetVerifier
  <2> HIDE DEF w
  <2>4. verifiers \in [Creds -> Verifier \cup {NoVerifier}] /\ issued \in [Nonces -> Issue \cup {NoRec}]
    BY <1>1 DEF TypeOK
  <2>5. /\ issued'[n] = [cred |-> c, at |-> now, epoch |-> locks]
        /\ issued'[n] \in Issue
        /\ issued'[n] # NoRec
        /\ \A m \in Nonces : m # n => issued'[m] = issued[m]
        /\ issued' \in [Nonces -> Issue \cup {NoRec}]
    BY <1>2, <1>4, <1>7, <2>4, AbsenceAssumption DEF Issue
  <2>6. n \notin burned /\ \A g \in grants : g.ch \in Nonces /\ g.ch # n
    BY <1>1, <1>7 DEF GateInv, TypeOK, GrantsAreFresh, BurnedInv, Grant
  <2>7. PendingInv'
    <3> SUFFICES ASSUME NEW d \in Creds, verifiers'[d] # NoVerifier, NEW m \in Nonces,
                        verifiers'[d].pending[m] # 0
                 PROVE  /\ issued'[m] # NoRec
                        /\ issued'[m].cred = d
                        /\ issued'[m].epoch = locks
                        /\ verifiers'[d].pending[m] = issued'[m].at + ChallengeTTL
                        /\ \A g \in grants : g.ch # m
                        /\ m \notin burned
      BY <1>3 DEF PendingInv
    <3>1. CASE d = c /\ m = n
      BY <1>2, <2>2, <2>3, <2>4, <2>5, <2>6, <3>1
    <3>2. CASE d = c /\ m # n
      BY <1>2, <2>1, <2>2, <2>3, <2>4, <2>5, <3>2
    <3>3. CASE d # c
      <4>1. verifiers'[d] = verifiers[d]
        BY <2>3, <2>4, <3>3
      <4>2. issued[m] # NoRec
        BY <4>1 DEF GateInv, PendingInv
      <4>3. m # n
        BY <1>7, <4>2
      <4> QED
        BY <2>5, <4>1, <4>3 DEF GateInv, PendingInv
    <3> QED
      BY <3>1, <3>2, <3>3
  <2>8. TypeOK'
    BY <1>1, <1>2, <1>3, <2>2, <2>3, <2>4, <2>5 DEF TypeOK
  <2>9. SingleUse' /\ GrantsAreFresh'
    BY <1>3, <2>5, <2>6 DEF GateInv, SingleUse, GrantsAreFresh
  <2>10. BurnedInv'
    BY <1>1, <1>3, <2>5 DEF GateInv, TypeOK, BurnedInv
  <2> QED
    BY <2>7, <2>8, <2>9, <2>10 DEF GateInv
<1> QED
  BY <1>5, <1>6, <1>7 DEF generate_challenge

\* verify preserves the invariant: the challenge it accepts was pending, so
\* no authorization rests on it yet, and it is consumed in the same step.
LEMMA VerifyStep ==
    ASSUME GateInv, NEW t \in Threads, verify(t)
    PROVE  GateInv'
<1> DEFINE r == call[t]
<1> DEFINE u == VerifierOf(r.cred, r.stored)
<1> DEFINE v == sweep_expired(u)
<1> DEFINE g0 == [ch |-> r.ch, cred |-> r.cred, key |-> r.key,
                  stored |-> r.stored.key, at |-> now, epoch |-> locks, by |-> t]
<1>1. TypeOK
  BY DEF GateInv
<1>2. r \in VerifyCall
  BY <1>1, CallLemma DEF verify
<1>3. /\ UNCHANGED <<store, now, locks, issued>>
      /\ call' \in [Threads -> {Idle} \cup ChallengeCall \cup VerifyCall \cup RegisterCall]
  BY <1>1, CallLemma DEF verify
<1>4. now \in Nat /\ locks \in Nat
  BY <1>1 DEF TypeOK
<1>5. r.cred \in Creds /\ r.stored \in Records /\ r.key \in Keys
  BY <1>2 DEF VerifyCall
<1>6. CASE UNCHANGED <<verifiers, burned, grants>>
  BY <1>1, <1>3, <1>6 DEF GateInv, TypeOK, PendingInv, BurnedInv, SingleUse, GrantsAreFresh
<1>7. CASE HasVerifier(r.cred, r.stored)
  <2>1. /\ v \in Verifier
        /\ \A n \in Nonces : v.pending[n] # 0 =>
             /\ issued[n] # NoRec /\ issued[n].cred = r.cred /\ issued[n].epoch = locks
             /\ v.pending[n] = issued[n].at + ChallengeTTL
             /\ v.pending[n] > now
             /\ \A g \in grants : g.ch # n
             /\ n \notin burned
    <3> HIDE DEF r
    <3> QED BY <1>5, <1>7, SweptLemma
  <2>2. /\ u \in Verifier
        /\ \A n \in Nonces : u.pending[n] # 0 =>
             /\ issued[n] # NoRec /\ issued[n].cred = r.cred /\ issued[n].epoch = locks
             /\ u.pending[n] = issued[n].at + ChallengeTTL
             /\ \A g \in grants : g.ch # n
             /\ n \notin burned
    <3> HIDE DEF r
    <3>1. /\ u \in Verifier
          /\ \A n \in Nonces : u.pending[n] # 0 =>
                verifiers[r.cred] # NoVerifier /\ u = verifiers[r.cred]
      BY <1>1, <1>5, <1>7, VerifierOfLemma
    <3> QED BY <1>5, <3>1 DEF GateInv, PendingInv
  <2> DEFINE w == ConsumeChallenge(v, r.ch)
  <2>3. ASSUME r.ch \in PendingOf(v)
        PROVE  /\ r.ch \in Nonces /\ v.pending[r.ch] # 0 /\ w \in Verifier
               /\ \A n \in Nonces : w.pending[n] = IF n = r.ch THEN 0 ELSE v.pending[n]
    <3> HIDE DEF v, r
    <3>1. r.ch \in Nonces /\ v.pending[r.ch] # 0
      BY <2>3 DEF PendingOf
    <3> QED BY <2>1, <3>1, ConsumeLemma
  <2>5. CASE /\ SetVerifier(r.cred, IF r.ch = Malformed THEN u ELSE v)
             /\ UNCHANGED <<burned, grants>>
    <3> HIDE DEF u, v, r
    <3>1. PendingInv' /\ verifiers' \in [Creds -> Verifier \cup {NoVerifier}]
      <4>1. CASE r.ch = Malformed
        BY <1>3, <1>5, <2>2, <2>5, <4>1, TableLemma
      <4>2. CASE r.ch # Malformed
        BY <1>3, <1>5, <2>1, <2>5, <4>2, TableLemma
      <4> QED BY <4>1, <4>2
    <3> QED
      BY <1>1, <1>3, <1>5, <2>5, <3>1 DEF GateInv, TypeOK, BurnedInv, SingleUse, GrantsAreFresh
  <2>6. CASE /\ r.ch \in PendingOf(v)
             /\ SetVerifier(r.cred, w)
             /\ burned' = burned \cup {r.ch}
             /\ UNCHANGED grants
    <3> HIDE DEF u, v, r, w
    <3>1. /\ r.ch \in Nonces /\ issued[r.ch] # NoRec /\ issued[r.ch].cred = r.cred
          /\ \A g \in grants : g.ch # r.ch
      BY <2>1, <2>3, <2>6
    <3>2. \A n \in burned' : n \in burned \/ issued[n].cred = r.cred
      BY <2>6, <3>1
    <3>3. w \in Verifier /\ \A n \in Nonces : w.pending[n] # 0 =>
             /\ issued[n] # NoRec /\ issued[n].cred = r.cred /\ issued[n].epoch = locks
             /\ w.pending[n] = issued[n].at + ChallengeTTL
             /\ \A g \in grants : g.ch # n
             /\ n \notin burned'
      BY <2>1, <2>3, <2>6
    <3>4. PendingInv' /\ verifiers' \in [Creds -> Verifier \cup {NoVerifier}]
      BY <1>3, <1>5, <2>6, <3>2, <3>3, TableLemma
    <3>5. BurnedInv'
      BY <1>3, <2>6, <3>1 DEF GateInv, BurnedInv
    <3> QED
      BY <1>1, <1>3, <1>5, <2>6, <3>1, <3>4, <3>5
      DEF GateInv, TypeOK, SingleUse, GrantsAreFresh
  <2>7. CASE /\ r.ch \in PendingOf(v)
             /\ SetVerifier(r.cred, w)
             /\ grants' = grants \cup {g0}
             /\ UNCHANGED burned
    <3>0. g0 \in Grant
      <4>1. r.stored.key \in Keys \cup {BadKey}
        BY <1>5, MarkerAssumption
      <4>2. r.ch \in Nonces
        BY <2>3, <2>7
      <4> HIDE DEF r
      <4> QED BY <1>4, <1>5, <4>1, <4>2 DEF Grant
    <3>1. g0.ch = r.ch /\ g0.cred = r.cred /\ g0.at = now /\ g0.epoch = locks
      OBVIOUS
    <3> HIDE DEF u, v, r, w, g0
    <3>2. verifiers \in [Creds -> Verifier \cup {NoVerifier}]
      BY <1>1 DEF TypeOK
    <3>3. verifiers' = [verifiers EXCEPT ![r.cred] = w]
      BY <2>7 DEF SetVerifier
    <3>4. TypeOK'
      BY <1>1, <1>3, <1>5, <2>3, <2>7, <3>0, <3>2, <3>3 DEF TypeOK
    <3>5. PendingInv'
      <4> SUFFICES ASSUME NEW d \in Creds, verifiers'[d] # NoVerifier, NEW n \in Nonces,
                          verifiers'[d].pending[n] # 0
                   PROVE  /\ issued[n] # NoRec
                          /\ issued[n].cred = d
                          /\ issued[n].epoch = locks
                          /\ verifiers'[d].pending[n] = issued[n].at + ChallengeTTL
                          /\ \A g \in grants' : g.ch # n
                          /\ n \notin burned'
        BY <1>3 DEF PendingInv
      <4>1. CASE d = r.cred
        BY <1>5, <2>1, <2>3, <2>7, <3>1, <3>2, <3>3, <4>1
      <4>2. CASE d # r.cred
        <5>1. verifiers'[d] = verifiers[d]
          BY <3>2, <3>3, <4>2
        <5>2. issued[n].cred = d /\ \A g \in grants : g.ch # n
          BY <5>1 DEF GateInv, PendingInv
        <5>3. n # r.ch
          BY <2>1, <2>3, <2>7, <4>2, <5>2
        <5> QED
          BY <2>7, <3>1, <5>1, <5>2, <5>3 DEF GateInv, PendingInv
      <4> QED BY <4>1, <4>2
    <3>6. SingleUse'
      <4>1. \A g \in grants : g.ch # r.ch
        BY <2>1, <2>3, <2>7
      <4> QED
        BY <2>7, <3>1, <4>1 DEF GateInv, SingleUse
    <3>7. GrantsAreFresh'
      BY <1>3, <2>1, <2>3, <2>7, <3>1 DEF GateInv, GrantsAreFresh
    <3>8. BurnedInv'
      <4>1. r.ch \notin burned
        BY <2>1, <2>3, <2>7
      <4> QED
        BY <1>3, <2>7, <3>1, <4>1 DEF GateInv, BurnedInv
    <3> QED
      BY <3>4, <3>5, <3>6, <3>7, <3>8 DEF GateInv
  <2> QED
    BY <1>6, <1>7, <2>5, <2>6, <2>7 DEF verify
<1> QED
  BY <1>6, <1>7 DEF verify

\* The handlers' first steps, the registrations and LockVault.
LEMMA OtherSteps ==
    ASSUME GateInv, NEW t \in Threads,
           \/ \E c \in Creds : CallGenerate(t, c)
           \/ \E c \in Creds, ch \in Nonces \cup {Malformed}, k \in Keys,
                 w \in Wallets \cup {AnyWallet} : CallVerify(t, c, ch, k, w)
           \/ \E c \in Creds, rec \in Records : CallRegister(t, c, rec)
           \/ register(t)
           \/ RegisterFails(t)
           \/ lock_vault(t)
    PROVE  GateInv'
<1> USE DEF GateInv
<1>1. ASSUME NEW c \in Creds, CallGenerate(t, c)
      PROVE  GateInv'
  <2>1. [op |-> "challenge", cred |-> c, stored |-> store[c]] \in ChallengeCall
    BY <1>1 DEF CallGenerate, ChallengeCall, TypeOK, File
  <2>2. TypeOK'
    BY <1>1, <2>1 DEF CallGenerate, TypeOK
  <2> QED
    BY <1>1, <2>2 DEF CallGenerate, PendingInv, BurnedInv, SingleUse, GrantsAreFresh
<1>2. ASSUME NEW c \in Creds, NEW ch \in Nonces \cup {Malformed}, NEW k \in Keys,
             NEW w \in Wallets \cup {AnyWallet}, CallVerify(t, c, ch, k, w)
      PROVE  GateInv'
  <2>1. [op |-> "verify", cred |-> c, ch |-> ch, key |-> k, wallet |-> w,
         stored |-> store[c]] \in VerifyCall
    BY <1>2 DEF CallVerify, VerifyCall, TypeOK, File
  <2>2. TypeOK'
    BY <1>2, <2>1 DEF CallVerify, TypeOK
  <2> QED
    BY <1>2, <2>2 DEF CallVerify, PendingInv, BurnedInv, SingleUse, GrantsAreFresh
<1>3. ASSUME NEW c \in Creds, NEW rec \in Records, CallRegister(t, c, rec)
      PROVE  GateInv'
  <2>1. [op |-> "register", cred |-> c, rec |-> rec, file |-> store] \in RegisterCall
    BY <1>3 DEF CallRegister, RegisterCall, TypeOK
  <2>2. TypeOK'
    BY <1>3, <2>1 DEF CallRegister, TypeOK
  <2> QED
    BY <1>3, <2>2 DEF CallRegister, PendingInv, BurnedInv, SingleUse, GrantsAreFresh
<1>4. CASE register(t)
  <2>1. call[t] \in RegisterCall
    BY <1>4, CallLemma DEF register
  <2>2. store' \in File
    BY <1>4, <2>1 DEF register, RegisterCall, File
  <2>3. TypeOK'
    BY <1>4, <2>2, CallLemma DEF register, TypeOK
  <2> QED
    BY <1>4, <2>3 DEF register, PendingInv, BurnedInv, SingleUse, GrantsAreFresh
<1>5. CASE RegisterFails(t)
  <2>1. TypeOK'
    BY <1>5, CallLemma DEF RegisterFails, TypeOK
  <2> QED
    BY <1>5, <2>1 DEF RegisterFails, PendingInv, BurnedInv, SingleUse, GrantsAreFresh
<1>6. CASE lock_vault(t)
  <2>1. TypeOK'
    BY <1>6 DEF lock_vault, TypeOK
  <2> QED
    BY <1>6, <2>1 DEF lock_vault, PendingInv, BurnedInv, SingleUse, GrantsAreFresh
<1> QED
  BY <1>1, <1>2, <1>3, <1>4, <1>5, <1>6

\* The clock.
LEMMA TickStep == GateInv /\ Tick => GateInv'
  BY DEF GateInv, Tick, TypeOK, PendingInv, BurnedInv, SingleUse, GrantsAreFresh

\* Every step of the gate preserves the inductive invariant.
THEOREM GateInductive == Spec => []GateInv
<1>1. GateInv /\ [Next]_vars => GateInv'
  <2>1. ASSUME GateInv, NEW t \in Threads, Step(t)
        PROVE  GateInv'
    BY <2>1, GenerateStep, VerifyStep, OtherSteps, MarkerAssumption DEF Step
  <2>2. GateInv /\ UNCHANGED vars => GateInv'
    BY DEF GateInv, vars, TypeOK, PendingInv, BurnedInv, SingleUse, GrantsAreFresh
  <2> QED
    BY <2>1, <2>2, TickStep DEF Next
<1> QED
  BY <1>1, InitGateInv, PTL DEF Spec

\* Type correctness: the handlers keep the store, the verifier table and the
\* calls in progress well formed.
THEOREM TypeCorrect == Spec => []TypeOK
  BY GateInductive, PTL DEF GateInv

\* passkey.rs, "single-use": a challenge authorizes at most one request.
THEOREM ChallengesAreSingleUse == Spec => []SingleUse
  BY GateInductive, PTL DEF GateInv

\* A challenge spent on a request for the wrong wallet is gone for good.
THEOREM BindingFailuresBurn == Spec => []BindingFailureBurnsChallenge
<1>1. GateInv => BindingFailureBurnsChallenge
  BY DEF GateInv, TypeOK, PendingInv, BurnedInv, BindingFailureBurnsChallenge, PendingOf
<1> QED
  BY <1>1, GateInductive, PTL

\* Every authorization answers a challenge issued for its credential, within
\* the TTL, with no LockVault in between.
THEOREM AuthorizationsAreFresh == Spec => []GrantsAreFresh
  BY GateInductive, PTL DEF GateInv
-----------------------------------------------------------------------------
(* Who may spend a live challenge.                                         *)

\* A live challenge survives the sweep.
LEMMA LiveLemma ==
    ASSUME GateInv, NEW c \in Creds, verifiers[c] # NoVerifier, NEW rec,
           NEW n \in PendingOf(verifiers[c]), verifiers[c].pending[n] > now
    PROVE  /\ VerifierOf(c, rec) = verifiers[c]
           /\ sweep_expired(verifiers[c]) \in Verifier
           /\ sweep_expired(verifiers[c]).key = verifiers[c].key
           /\ n \in PendingOf(sweep_expired(verifiers[c]))
<1>1. verifiers[c] \in Verifier /\ now \in Nat
  BY DEF GateInv, TypeOK
<1>2. n \in Nonces
  BY DEF PendingOf
<1>3. sweep_expired(verifiers[c]).pending[n] # 0
  BY <1>1, <1>2, SweepLemma
<1>4. VerifierOf(c, rec) = verifiers[c]
  BY DEF VerifierOf
<1> QED
  BY <1>1, <1>2, <1>3, <1>4, SweepLemma DEF PendingOf

\* GenerateChallenge only adds to the swept verifier.
LEMMA GenerateKeeps ==
    ASSUME GateInv, NEW t \in Threads, generate_challenge(t)
    PROVE  LiveChallengesKept
<1> SUFFICES ASSUME NEW c \in Creds, verifiers[c] # NoVerifier,
                    NEW n \in PendingOf(verifiers[c]), verifiers[c].pending[n] > now
             PROVE  verifiers'[c] # NoVerifier /\ n \in PendingOf(verifiers'[c])
  <2>1. \A c \in Creds : verifiers[c] # NoVerifier =>
            \A n \in PendingOf(verifiers[c]) : verifiers[c].pending[n] \in Nat /\ now \in Nat
    BY DEF GateInv, TypeOK, Verifier, PendingOf
  <2> QED
    BY <2>1 DEF LiveChallengesKept
<1> DEFINE d == call[t].cred
<1> DEFINE rec == call[t].stored
<1> DEFINE v == sweep_expired(VerifierOf(d, rec))
<1>1. verifiers \in [Creds -> Verifier \cup {NoVerifier}] /\ now \in Nat /\ n \in Nonces
  BY DEF GateInv, TypeOK, PendingOf
<1>2. CASE UNCHANGED verifiers
  BY <1>2
<1>3. CASE d # c
  <2>1. verifiers'[c] = verifiers[c]
    BY <1>1, <1>3 DEF generate_challenge, SetVerifier
  <2> QED BY <2>1
<1>4. CASE d = c
  <2>1. v \in Verifier /\ n \in PendingOf(v)
    BY <1>4, LiveLemma
  <2> HIDE DEF v
  <2>2. ASSUME NEW m \in Nonces, SetVerifier(c, AddChallenge(v, m))
        PROVE  verifiers'[c] # NoVerifier /\ n \in PendingOf(verifiers'[c])
    <3>1. verifiers'[c] = AddChallenge(v, m)
      BY <1>1, <2>2 DEF SetVerifier
    <3>2. AddChallenge(v, m) \in Verifier /\ AddChallenge(v, m).pending[n] # 0
      BY <1>1, <2>1, AddLemma, TTLAssumption DEF PendingOf
    <3> QED
      BY <1>1, <3>1, <3>2, AbsenceAssumption DEF PendingOf
  <2>3. CASE SetVerifier(c, v)
    BY <1>1, <2>1, <2>3, AbsenceAssumption DEF SetVerifier
  <2> QED
    BY <1>2, <1>4, <2>2, <2>3 DEF generate_challenge, v
<1> QED
  BY <1>3, <1>4

\* verify removes only the challenge it accepts.
LEMMA VerifyKeeps ==
    ASSUME GateInv, NEW t \in Threads, verify(t)
    PROVE  LiveChallengesKept
<1> SUFFICES ASSUME NEW c \in Creds, verifiers[c] # NoVerifier,
                    NEW n \in PendingOf(verifiers[c]), verifiers[c].pending[n] > now,
                    ~(/\ call[t].cred = c
                      /\ call[t].ch = n
                      /\ call[t].key = verifiers[c].key)
             PROVE  verifiers'[c] # NoVerifier /\ n \in PendingOf(verifiers'[c])
  <2>1. \A c \in Creds : verifiers[c] # NoVerifier =>
            \A n \in PendingOf(verifiers[c]) : verifiers[c].pending[n] \in Nat /\ now \in Nat
    BY DEF GateInv, TypeOK, Verifier, PendingOf
  <2>2. call[t].op = "verify"
    BY DEF verify
  <2> QED
    BY <2>1, <2>2 DEF LiveChallengesKept
<1> DEFINE r == call[t]
<1> DEFINE u == VerifierOf(r.cred, r.stored)
<1> DEFINE v == sweep_expired(u)
<1>1. verifiers \in [Creds -> Verifier \cup {NoVerifier}] /\ now \in Nat /\ n \in Nonces
  BY DEF GateInv, TypeOK, PendingOf
<1>2. CASE UNCHANGED verifiers
  BY <1>2
<1>3. CASE r.cred # c
  <2>1. verifiers'[c] = verifiers[c]
    BY <1>1, <1>3 DEF verify, SetVerifier
  <2> QED BY <2>1
<1>4. CASE r.cred = c
  <2>1. u = verifiers[c] /\ u \in Verifier
    BY <1>1, <1>4, LiveLemma
  <2>2. v \in Verifier /\ n \in PendingOf(v) /\ v.key = verifiers[c].key
    BY <1>4, LiveLemma
  <2>3. CASE SetVerifier(r.cred, IF r.ch = Malformed THEN u ELSE v)
    <3> HIDE DEF u, v, r
    <3> QED BY <1>1, <1>4, <2>1, <2>2, <2>3, AbsenceAssumption DEF SetVerifier
  <2>4. CASE r.ch \in PendingOf(v) /\ v.key = r.key /\ SetVerifier(r.cred, ConsumeChallenge(v, r.ch))
    <3>1. n # r.ch
      BY <1>4, <2>2, <2>4
    <3> HIDE DEF u, v, r
    <3>2. r.ch \in Nonces
      BY <2>4 DEF PendingOf
    <3>3. ConsumeChallenge(v, r.ch) \in Verifier /\ ConsumeChallenge(v, r.ch).pending[n] # 0
      BY <1>1, <2>2, <3>1, <3>2, ConsumeLemma DEF PendingOf
    <3>4. verifiers'[c] = ConsumeChallenge(v, r.ch)
      BY <1>1, <1>4, <2>4 DEF SetVerifier
    <3> QED
      BY <1>1, <3>3, <3>4, AbsenceAssumption DEF PendingOf
  <2> QED
    BY <1>2, <2>3, <2>4 DEF verify
<1> QED
  BY <1>3, <1>4

\* A live challenge is spent by LockVault or by the holder of the key its
\* verifier checks, and by nothing else.
THEOREM OwnersSpendChallenges == Spec => ChallengeSpentOnlyByOwner
<1>1. GateInv /\ [Next]_vars => [LiveChallengesKept]_vars
  <2> SUFFICES ASSUME GateInv, [Next]_vars
               PROVE  LiveChallengesKept \/ UNCHANGED vars
    OBVIOUS
  <2>1. ASSUME UNCHANGED verifiers
        PROVE  LiveChallengesKept
    BY <2>1 DEF LiveChallengesKept
  <2>2. ASSUME NEW t \in Threads, lock_vault(t)
        PROVE  LiveChallengesKept
    BY <2>2 DEF GateInv, TypeOK, lock_vault, LiveChallengesKept
  <2>3. ASSUME NEW t \in Threads, Step(t)
        PROVE  LiveChallengesKept
    BY <2>1, <2>2, <2>3, GenerateKeeps, VerifyKeeps
       DEF Step, CallGenerate, CallVerify, CallRegister, register, RegisterFails
  <2> QED
    BY <2>1, <2>3 DEF Next, Tick, vars
<1> QED
  BY <1>1, GateInductive, PTL DEF Spec, ChallengeSpentOnlyByOwner
=============================================================================
