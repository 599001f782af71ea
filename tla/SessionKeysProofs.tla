--------------------------- MODULE SessionKeysProofs ---------------------------
(***************************************************************************)
(* For any number of threads that create and revoke at the same time: a    *)
(* revocation saved while nobody else was between a load and a save is     *)
(* final, and every record follows SessionKeyLifecycle up to the first     *)
(* contested change of it.  (That every revocation is observed does not    *)
(* hold: see the run session_keys_race.)                                   *)
(***************************************************************************)
EXTENDS SessionKeys, TLAPS

\* What an operation loaded is still on file, except for contested records,
\* and has the settled ids revoked; a create found its id absent, a revoke
\* did not.
RegistryInv ==
    /\ TypeOK
    /\ \A t \in Threads : op[t] # Idle =>
          /\ \A id \in Ids \ contested : op[t].map[id] = file[id]
          /\ \A id \in settled : op[t].map[id] = "revoked"
          /\ op[t].name = "create" => op[t].map[op[t].id] = "absent"
          /\ op[t].name = "revoke" => op[t].map[op[t].id] # "absent"
    /\ SettledIsFinal

\* The state of the abstract registry.
Shown == [id \in Ids |-> IF id \in contested THEN "contested" ELSE file[id]]

LEMMA InitRegistry == Init => RegistryInv /\ Lifecycle!Init
  BY DEF Init, RegistryInv, TypeOK, Map, Status, SettledIsFinal, Lifecycle!Init

\* An operation between its load and its save.
LEMMA OpLemma ==
    ASSUME RegistryInv, NEW t \in Threads, op[t] # Idle
    PROVE  /\ op[t] \in Pending /\ op[t].id \in Ids /\ op[t].map \in Map
           /\ op[t].name \in {"create", "revoke"}
  BY DEF RegistryInv, TypeOK, Pending

\* A load: the operation starts from what is on file.
LEMMA LoadSteps ==
    ASSUME RegistryInv, NEW t \in Threads, NEW id \in Ids, NEW name \in {"create", "revoke"},
           Begin(t, name, id), UNCHANGED <<file, revoked, late, contested, settled>>,
           drawn' \subseteq Ids,
           name = "create" => file[id] = "absent",
           name = "revoke" => file[id] # "absent"
    PROVE  RegistryInv'
<1> DEFINE p == [name |-> name, id |-> id, map |-> file]
<1>1. /\ p \in Pending /\ p.map = file /\ p.id = id /\ p.name = name
      /\ op' = [op EXCEPT ![t] = p]
  BY DEF Pending, RegistryInv, TypeOK, Begin
<1> HIDE DEF p
<1>2. TypeOK'
  BY <1>1 DEF RegistryInv, TypeOK
<1>3. \A s \in Threads : op'[s] = IF s = t THEN p ELSE op[s]
  BY <1>1 DEF RegistryInv, TypeOK
<1>4. ASSUME NEW s \in Threads, op'[s] # Idle
      PROVE  /\ \A k \in Ids \ contested : op'[s].map[k] = file[k]
             /\ \A k \in settled : op'[s].map[k] = "revoked"
             /\ op'[s].name = "create" => op'[s].map[op'[s].id] = "absent"
             /\ op'[s].name = "revoke" => op'[s].map[op'[s].id] # "absent"
  <2>1. CASE s = t
    BY <1>1, <1>3, <2>1 DEF RegistryInv, SettledIsFinal
  <2>2. CASE s # t
    BY <1>3, <1>4, <2>2 DEF RegistryInv
  <2> QED BY <2>1, <2>2
<1> QED
  BY <1>2, <1>4 DEF RegistryInv, SettledIsFinal

\* The steps that leave the file alone.
LEMMA ReadSteps ==
    ASSUME RegistryInv, NEW t \in Threads,
           \/ \E id \in Ids : LoadCreate(t, id) \/ LoadRevoke(t, id) \/ is_active(t, id)
           \/ SaveFails(t)
    PROVE  RegistryInv' /\ UNCHANGED Shown
<1>1. ASSUME NEW id \in Ids, LoadCreate(t, id)
      PROVE  RegistryInv'
  <2>1. drawn' \subseteq Ids
    BY <1>1 DEF LoadCreate, RegistryInv, TypeOK
  <2> QED BY <1>1, <2>1, LoadSteps DEF LoadCreate
<1>2. ASSUME NEW id \in Ids, LoadRevoke(t, id)
      PROVE  RegistryInv'
  <2>1. drawn' \subseteq Ids
    BY <1>2 DEF LoadRevoke, RegistryInv, TypeOK, history
  <2> QED BY <1>2, <2>1, LoadSteps DEF LoadRevoke, history
<1>3. ASSUME NEW id \in Ids, is_active(t, id)
      PROVE  RegistryInv'
  BY <1>3 DEF is_active, RegistryInv, TypeOK, SettledIsFinal
<1>4. ASSUME SaveFails(t)
      PROVE  RegistryInv'
  <2>1. TypeOK' /\ \A s \in Threads : op'[s] = IF s = t THEN Idle ELSE op[s]
    BY <1>4 DEF SaveFails, Return, RegistryInv, TypeOK, history
  <2> QED
    BY <1>4, <2>1 DEF SaveFails, RegistryInv, SettledIsFinal, history
<1>5. UNCHANGED <<file, contested>>
  BY DEF LoadCreate, LoadRevoke, is_active, SaveFails, history
<1> QED
  BY <1>1, <1>2, <1>3, <1>4, <1>5 DEF Shown

\* What a save does, to the file and to what the other threads have loaded.
LEMMA SaveSteps ==
    ASSUME RegistryInv, NEW t \in Threads, op[t] # Idle, NEW status \in Status,
           Save(t, status), drawn' \subseteq Ids, revoked' \subseteq Ids, late' \subseteq Ids,
           \/ status = "active" /\ op[t].name = "create" /\ settled' = settled
           \/ /\ status = "revoked" /\ op[t].name = "revoke"
              /\ settled' = settled \cup (IF Alone(t) THEN {op[t].id} ELSE {})
    PROVE  RegistryInv' /\ [Lifecycle!Next]_Shown
<1> DEFINE k == op[t].id
           m == op[t].map
<1>1. /\ k \in Ids /\ m \in Map
      /\ file' = [m EXCEPT ![k] = status]
      /\ \A id \in Ids \ contested : m[id] = file[id]
      /\ \A id \in settled : m[id] = "revoked"
      /\ status = "active" => m[k] = "absent"
      /\ status = "revoked" => m[k] # "absent"
  BY OpLemma DEF Save, RegistryInv
<1>2. contested' = contested \cup (IF Alone(t) \/ m[k] = status THEN {} ELSE {k})
  BY DEF Save
<1>3. \A s \in Threads : op'[s] = IF s = t THEN Idle ELSE op[s]
  BY DEF Save, Return, RegistryInv, TypeOK
<1>4. op' \in [Threads -> {Idle} \cup Pending]
  BY DEF Save, Return, RegistryInv, TypeOK
<1> HIDE DEF k, m
<1>5. /\ file' \in Map /\ file'[k] = status
      /\ \A id \in Ids : id # k => file'[id] = m[id]
  BY <1>1 DEF Map
<1>6. contested \subseteq contested' /\ contested' \subseteq contested \cup {k} /\ contested' \subseteq Ids
  BY <1>1, <1>2 DEF RegistryInv, TypeOK
<1>7. settled \subseteq settled' /\ settled' \subseteq Ids
  BY <1>1 DEF RegistryInv, TypeOK, k
<1>8. TypeOK'
  BY <1>4, <1>5, <1>6, <1>7 DEF TypeOK
<1>9. SettledIsFinal'
  <2>1. CASE status = "active"
    <3>1. k \notin settled /\ settled' = settled
      BY <1>1, <2>1
    <3> QED BY <1>1, <1>5, <1>7, <3>1 DEF SettledIsFinal
  <2>2. CASE status = "revoked"
    <3>1. settled' \subseteq settled \cup {k}
      BY <2>2 DEF k
    <3> QED BY <1>1, <1>5, <1>7, <2>2, <3>1 DEF SettledIsFinal
  <2> QED BY <2>1, <2>2
<1>10. ASSUME NEW s \in Threads, op'[s] # Idle
       PROVE  /\ \A id \in Ids \ contested' : op'[s].map[id] = file'[id]
              /\ \A id \in settled' : op'[s].map[id] = "revoked"
              /\ op'[s].name = "create" => op'[s].map[op'[s].id] = "absent"
              /\ op'[s].name = "revoke" => op'[s].map[op'[s].id] # "absent"
  <2>1. s # t /\ op'[s] = op[s] /\ op[s] # Idle /\ ~Alone(t)
    BY <1>3, <1>10 DEF Alone
  <2>2. settled' = settled
    BY <2>1
  <2>3. k \notin contested' => m[k] = status
    BY <1>2, <2>1
  <2>4. ASSUME NEW id \in Ids \ contested'
        PROVE  op[s].map[id] = file'[id]
    <3>1. id \notin contested /\ op[s].map[id] = file[id] /\ m[id] = file[id]
      BY <1>1, <1>6, <2>1 DEF RegistryInv
    <3> QED BY <1>5, <2>3, <3>1
  <2>5. /\ \A id \in settled : op[s].map[id] = "revoked"
        /\ op[s].name = "create" => op[s].map[op[s].id] = "absent"
        /\ op[s].name = "revoke" => op[s].map[op[s].id] # "absent"
    BY <2>1 DEF RegistryInv
  <2> QED BY <2>1, <2>2, <2>4, <2>5
<1>11. RegistryInv'
  BY <1>8, <1>9, <1>10 DEF RegistryInv
<1>12. \A id \in Ids : id # k => Shown'[id] = Shown[id]
  BY <1>1, <1>5, <1>6 DEF Shown
<1>13. /\ Shown = [id \in Ids |-> Shown[id]] /\ Shown' = [id \in Ids |-> Shown'[id]]
       /\ Shown' = [Shown EXCEPT ![k] = Shown'[k]]
       /\ Shown'[k] = Shown[k] => Shown' = Shown
  <2>1. Shown = [id \in Ids |-> Shown[id]] /\ Shown' = [id \in Ids |-> Shown'[id]]
    BY Zenon DEF Shown
  <2> HIDE DEF Shown
  <2>2. Shown' = [Shown EXCEPT ![k] = Shown'[k]]
    BY <1>1, <1>12, <2>1
  <2>3. Shown'[k] = Shown[k] => Shown' = Shown
    BY <1>1, <1>12, <2>1
  <2> QED BY <2>1, <2>2, <2>3
<1>14. CASE k \in contested
  BY <1>1, <1>6, <1>11, <1>13, <1>14 DEF Shown
<1>15. CASE k \notin contested /\ k \in contested'
  <2>1. Shown[k] # "contested" /\ Shown'[k] = "contested"
    BY <1>1, <1>15 DEF Shown, RegistryInv, TypeOK, Map, Status
  <2> QED BY <1>1, <1>11, <1>13, <2>1 DEF Lifecycle!Next, Lifecycle!Contend, Shown
<1>16. CASE k \notin contested'
  <2>1. k \notin contested /\ Shown[k] = m[k] /\ Shown'[k] = status /\ m[k] \in Status
    BY <1>1, <1>5, <1>6, <1>16 DEF Shown, Map
  <2>2. CASE status = "active"
    BY <1>1, <1>11, <1>13, <2>1, <2>2 DEF Lifecycle!Next, Lifecycle!Create, Shown
  <2>3. CASE status = "revoked" /\ m[k] = "active"
    BY <1>1, <1>11, <1>13, <2>1, <2>3 DEF Lifecycle!Next, Lifecycle!Revoke, Shown
  <2>4. CASE status = "revoked" /\ m[k] = "revoked"
    BY <1>11, <1>13, <2>1, <2>4
  <2> QED BY <1>1, <2>1, <2>2, <2>3, <2>4 DEF Status
<1> QED
  BY <1>14, <1>15, <1>16

LEMMA RegistryStep == RegistryInv /\ [Next]_vars => RegistryInv' /\ [Lifecycle!Next]_Shown
<1> SUFFICES ASSUME RegistryInv, [Next]_vars
             PROVE  RegistryInv' /\ [Lifecycle!Next]_Shown
  OBVIOUS
<1>1. ASSUME NEW t \in Threads, create(t)
      PROVE  RegistryInv' /\ [Lifecycle!Next]_Shown
  <2>1. /\ op[t] # Idle /\ "active" \in Status
        /\ drawn' \subseteq Ids /\ revoked' \subseteq Ids /\ late' \subseteq Ids
    BY <1>1 DEF create, Idle, Status, RegistryInv, TypeOK
  <2> QED BY <1>1, <2>1, SaveSteps DEF create
<1>2. ASSUME NEW t \in Threads, revoke(t)
      PROVE  RegistryInv' /\ [Lifecycle!Next]_Shown
  <2>1. op[t] # Idle /\ "revoked" \in Status
    BY <1>2 DEF revoke, Revoked, Idle, Status
  <2>2. drawn' \subseteq Ids /\ revoked' \subseteq Ids /\ late' \subseteq Ids
    BY <1>2, <2>1, OpLemma DEF revoke, Revoked, RegistryInv, TypeOK
  <2> QED BY <1>2, <2>1, <2>2, SaveSteps DEF revoke, Revoked
<1>3. CASE UNCHANGED vars
  BY <1>3 DEF vars, history, RegistryInv, TypeOK, SettledIsFinal, Shown
<1> QED
  BY <1>1, <1>2, <1>3, ReadSteps DEF Next, Step

\* Whatever the other threads do, and however their loads and saves interleave:
\* an id whose revocation was saved alone is revoked on file from then on.
THEOREM SettledRevocationsAreFinal == Spec => []SettledIsFinal
<1>1. Spec => []RegistryInv
  BY InitRegistry, RegistryStep, PTL DEF Spec
<1>2. RegistryInv => SettledIsFinal
  BY DEF RegistryInv
<1> QED
  BY <1>1, <1>2, PTL

\* The load-change-save registry implements the atomic one, for any number of
\* threads: created once, revoked once, final, record by record until a change
\* of that record is contested.
THEOREM RegistryImplementsLifecycle == Spec => ImplementsLifecycle
<1>1. Spec => []RegistryInv
  BY InitRegistry, RegistryStep, PTL DEF Spec
<1>2. [Lifecycle!Next]_Shown <=> [Lifecycle!Next]_([id \in Ids |-> IF id \in contested THEN "contested" ELSE file[id]])
  BY DEF Shown
<1> QED
  BY <1>1, <1>2, InitRegistry, RegistryStep, PTL DEF Spec, ImplementsLifecycle, Lifecycle!Spec
=============================================================================
