-------------------------- MODULE SessionKeyLifecycle --------------------------
(***************************************************************************)
(* What the session-key registry promises (session_keys.rs, module         *)
(* comment): a key is created once, stays usable until it is revoked, and  *)
(* a revocation is final.  One atomic step per operation.                  *)
(*                                                                         *)
(* The promise is kept record by record.  It ends for a record, and for no *)
(* other, when two operations overlap in a change of it.                   *)
(***************************************************************************)
CONSTANT Ids            \* session-key ids

VARIABLE status         \* Ids -> "absent", "active", "revoked" or "contested"

Create(id) ==
    /\ status[id] = "absent"
    /\ status' = [status EXCEPT ![id] = "active"]

Revoke(id) ==
    /\ status[id] = "active"
    /\ status' = [status EXCEPT ![id] = "revoked"]

Contend(id) ==
    /\ status[id] # "contested"
    /\ status' = [status EXCEPT ![id] = "contested"]

Init == status = [id \in Ids |-> "absent"]
Next == \E id \in Ids : Create(id) \/ Revoke(id) \/ Contend(id)
Spec == Init /\ [][Next]_status
=============================================================================
