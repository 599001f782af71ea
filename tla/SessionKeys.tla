------------------------------ MODULE SessionKeys ------------------------------
(***************************************************************************)
(* The session-key registry of the Key-Agent                               *)
(* (crates/oc-keyagent/src/session_keys.rs).                               *)
(*                                                                         *)
(* The registry is one JSON file.  create and revoke load the whole map,   *)
(* change it in memory and replace the file (atomically: a temporary file  *)
(* is renamed over it); nothing is locked in between, and every connection *)
(* thread of the daemon shares the store.  An operation is therefore two   *)
(* steps, the load and the save, that other threads can separate.          *)
(***************************************************************************)
EXTENDS FiniteSets

CONSTANTS
    Threads,    \* connection threads
    Ids         \* session-key ids

VARIABLES
    file,       \* session_keys.json: Ids -> status
    op,         \* per thread: the operation between its load and its save
    drawn,      \* history: the ids create has been called with
    revoked,    \* history: the revocations that have returned Ok
    late,       \* history: the ids for which is_active returned true although
                \* their revocation had returned before the read
    contested,  \* history: the ids whose record was changed by a save that fell
                \* between another thread's load and its save
    settled     \* history: the ids revoked by a save that did not

history == <<drawn, revoked, late, contested, settled>>
vars == <<file, op, history>>

Status == {"absent", "active", "revoked"}
Map == [Ids -> Status]
Idle == [name |-> "idle"]
Pending == [name : {"create", "revoke"}, id : Ids, map : Map]

TypeOK ==
    /\ file \in Map
    /\ op \in [Threads -> {Idle} \cup Pending]
    /\ drawn \subseteq Ids
    /\ revoked \subseteq Ids
    /\ late \subseteq Ids
    /\ contested \subseteq Ids
    /\ settled \subseteq Ids

Init ==
    /\ file = [id \in Ids |-> "absent"]
    /\ op = [t \in Threads |-> Idle]
    /\ drawn = {}
    /\ revoked = {}
    /\ late = {}
    /\ contested = {}
    /\ settled = {}

Begin(t, name, id) ==
    /\ op[t] = Idle
    /\ op' = [op EXCEPT ![t] = [name |-> name, id |-> id, map |-> file]]

Return(t) == op' = [op EXCEPT ![t] = Idle]

\* No other thread is between its load and its save.
Alone(t) == \A s \in Threads \ {t} : op[s] = Idle

\* save: the map in memory replaces the file.
Save(t, status) ==
    /\ file' = [op[t].map EXCEPT ![op[t].id] = status]
    /\ contested' = contested \cup
           (IF Alone(t) \/ op[t].map[op[t].id] = status THEN {} ELSE {op[t].id})
    /\ Return(t)

\* create, up to the save.  The caller draws a random 128-bit id: it is fresh,
\* so AlreadyExists does not happen.
LoadCreate(t, id) ==
    /\ id \notin drawn
    /\ file[id] = "absent"
    /\ Begin(t, "create", id)
    /\ drawn' = drawn \cup {id}
    /\ UNCHANGED <<file, revoked, late, contested, settled>>

\* The status is set to Active whatever the caller passed.
create(t) ==
    /\ op[t].name = "create"
    /\ Save(t, "active")
    /\ UNCHANGED <<drawn, revoked, late, settled>>

\* revoke, up to the save; an id that is not in the map is NotFound.
LoadRevoke(t, id) ==
    /\ file[id] # "absent"
    /\ Begin(t, "revoke", id)
    /\ UNCHANGED <<file, history>>

\* The save of a revocation, and its Ok.
Revoked(t, status) ==
    /\ op[t].name = "revoke"
    /\ Save(t, status)
    /\ revoked' = revoked \cup {op[t].id}
    /\ settled' = settled \cup (IF Alone(t) THEN {op[t].id} ELSE {})
    /\ UNCHANGED <<drawn, late>>

\* A revoke that answers Ok without marking the record.
revoke_unmarked(t) == Revoked(t, "active")

\* A revoke that removes the record: the id may then be created again.
revoke_removing(t) == Revoked(t, "absent")

\* Idempotent: the map is saved even when the key was revoked already.
revoke(t) == Revoked(t, "revoked")

\* The file cannot be replaced: the error ends the operation.
SaveFails(t) ==
    /\ op[t] # Idle
    /\ Return(t)
    /\ UNCHANGED <<file, history>>

\* is_active returning true, on behalf of a signing handler.
is_active(t, id) ==
    /\ op[t] = Idle
    /\ file[id] = "active"
    /\ late' = late \cup ({id} \cap revoked)
    /\ UNCHANGED <<file, op, drawn, revoked, contested, settled>>

Step(t) ==
    \/ \E id \in Ids : LoadCreate(t, id) \/ LoadRevoke(t, id) \/ is_active(t, id)
    \/ create(t)
    \/ revoke(t)
    \/ SaveFails(t)

Next == \E t \in Threads : Step(t)

Spec == Init /\ [][Next]_vars
-----------------------------------------------------------------------------
(* Properties.                                                             *)

\* A revocation that was saved while no other thread was between its load and
\* its save is final: whatever creations and revocations overlap afterwards,
\* is_active (session_keys.rs:144) never says again that the key is active.
SettledIsFinal == \A id \in settled : file[id] = "revoked"

\* Every record goes from absent to active to revoked, one atomic change at a
\* time, up to the first change of that record that overlaps another thread's
\* operation.
Lifecycle == INSTANCE SessionKeyLifecycle WITH
    status <- [id \in Ids |-> IF id \in contested THEN "contested" ELSE file[id]]
ImplementsLifecycle == Lifecycle!Spec

\* Once RevokeSessionKey has answered, no signing handler that consults the
\* registry afterwards is told that the key is active ("revocation has
\* observable effect", session_keys.rs:3-7).
RevocationObserved == late = {}
=============================================================================
