-------------------------------- MODULE Enclave --------------------------------
(***************************************************************************)
(* The per-request signing subprocess (crates/oc-keyagent/src/enclave.rs). *)
(*                                                                         *)
(* The parent (spawn_enclave_child, wait_with_timeout) writes one line to  *)
(* the child's stdin, polls for its exit, and only then reads its stdout;  *)
(* it kills the child on timeout.  The child (run_enclave_child) hardens   *)
(* itself, reads the line, decrypts, signs and writes one line.  Each pipe *)
(* holds PIPE_BUF bytes: a longer line is only written while the other     *)
(* side reads.  A child may die at any moment, or never take another step. *)
(***************************************************************************)
EXTENDS Naturals

CONSTANTS
    Ids             \* the signing requests; each spawns at most one child

\* A request line and an answer line that fit the pipe ("small"), a request
\* line that does not ("line"), and neither of them ("both"; sign_transaction
\* and sign_user_op send the whole transaction back).
Sizes == {"small", "line", "both"}

VARIABLES
    size,           \* per request: how its lines compare with the pipes
    parent,         \* per request: where spawn_enclave_child is
    child,          \* per request: the child process
    answer,         \* per request: what the child has to say
    keyUses         \* history, per request: how often its key has signed

enclaveVars == <<size, parent, child, answer, keyUses>>

Running == {"start", "read", "work", "write"}
Exited == {"exit0", "exit1"}
\* The parent process is gone, before or after the whole line was written.
Dead == {"cut", "orphaned"}

EnclaveTypeOK ==
    /\ size \in [Ids -> Sizes]
    /\ parent \in [Ids -> {"idle", "stdin", "wait", "returned"} \cup Dead]
    /\ child \in [Ids -> {"none", "killed"} \cup Running \cup Exited]
    /\ answer \in [Ids -> {"none", "ok", "fail"}]
    /\ keyUses \in [Ids -> Nat]

EnclaveInit ==
    /\ size = [i \in Ids |-> "small"]
    /\ parent = [i \in Ids |-> "idle"]
    /\ child = [i \in Ids |-> "none"]
    /\ answer = [i \in Ids |-> "none"]
    /\ keyUses = [i \in Ids |-> 0]
-----------------------------------------------------------------------------
(* The parent.                                                             *)

\* Command::spawn succeeds.
spawn(i) ==
    /\ parent[i] = "idle"
    /\ parent' = [parent EXCEPT ![i] = "stdin"]
    /\ child' = [child EXCEPT ![i] = "start"]
    /\ UNCHANGED <<size, answer, keyUses>>

\* write_all returns: the line fits the pipe, the child is reading it, or the
\* child is gone (the error is ignored).
write_stdin(i) ==
    /\ parent[i] = "stdin"
    /\ size[i] = "small" \/ child[i] \in {"read"} \cup Exited
    /\ parent' = [parent EXCEPT ![i] = "wait"]
    /\ UNCHANGED <<size, child, answer, keyUses>>

\* try_wait finds the child gone: its output is read, and accepted only with a
\* zero exit status, the right version and request id, and ok.
collect(i) ==
    /\ parent[i] = "wait"
    /\ child[i] \in Exited
    /\ parent' = [parent EXCEPT ![i] = "returned"]
    /\ UNCHANGED <<size, child, answer, keyUses>>

Accepted(i) == child[i] = "exit0" /\ answer[i] = "ok"

\* The deadline is only looked at once the child has something to say.
timeout_late(i) ==
    /\ parent[i] = "wait"
    /\ child[i] \notin {"start", "read", "work"}
    /\ parent' = [parent EXCEPT ![i] = "returned"]
    /\ child' = [child EXCEPT ![i] = IF @ \in Running THEN "killed" ELSE @]
    /\ answer' = [answer EXCEPT ![i] = "fail"]
    /\ UNCHANGED <<size, keyUses>>

\* The deadline passes and the child is left running.
timeout_no_kill(i) ==
    /\ parent[i] = "wait"
    /\ parent' = [parent EXCEPT ![i] = "returned"]
    /\ answer' = [answer EXCEPT ![i] = "fail"]
    /\ UNCHANGED <<size, child, keyUses>>

\* The deadline passes: SIGKILL, a bounded reap, and an error, even when the
\* child exits between the last poll and the kill.
timeout(i) ==
    /\ parent[i] = "wait"
    /\ parent' = [parent EXCEPT ![i] = "returned"]
    /\ child' = [child EXCEPT ![i] = IF @ \in Running THEN "killed" ELSE @]
    /\ answer' = [answer EXCEPT ![i] = "fail"]
    /\ UNCHANGED <<size, keyUses>>
-----------------------------------------------------------------------------
(* The child.                                                              *)

\* apply_hardening and apply_sandbox succeed.
confine(i) ==
    /\ child[i] = "start"
    /\ child' = [child EXCEPT ![i] = "read"]
    /\ UNCHANGED <<size, parent, answer, keyUses>>

\* read_line: the whole line once the parent has written it.  A parent that
\* died before that closes the pipe on a partial line, which does not parse.
read_line(i) ==
    /\ child[i] = "read"
    /\ parent[i] # "stdin"
    /\ child' = [child EXCEPT ![i] = IF parent[i] = "cut" THEN "exit1" ELSE "work"]
    /\ UNCHANGED <<size, parent, answer, keyUses>>

\* The key signs and its answer is complete.
sign_message_child(i) ==
    /\ answer' = [answer EXCEPT ![i] = "ok"]
    /\ keyUses' = [keyUses EXCEPT ![i] = @ + 1]

\* The key signs a transaction that then does not encode.
sign_transaction_child_fails(i) ==
    /\ answer' = [answer EXCEPT ![i] = "fail"]
    /\ keyUses' = [keyUses EXCEPT ![i] = @ + 1]

\* The payload does not decode, the key does not load or does not sign.
load_child_key_fails(i) ==
    /\ answer' = [answer EXCEPT ![i] = "fail"]
    /\ UNCHANGED keyUses

handle_enclave_request(i) ==
    /\ child[i] = "work"
    /\ child' = [child EXCEPT ![i] = "write"]
    /\ sign_message_child(i) \/ sign_transaction_child_fails(i) \/ load_child_key_fails(i)
    /\ UNCHANGED <<size, parent>>

\* The answer is written and the child exits; nobody reads stdout before the
\* exit, so a long answer stays in the child.  A broken pipe is an error.
write_stdout(i) ==
    /\ child[i] = "write"
    /\ size[i] # "both" \/ parent[i] \in Dead
    /\ child' = [child EXCEPT ![i] = IF parent[i] \in Dead THEN "exit1" ELSE "exit0"]
    /\ UNCHANGED <<size, parent, answer, keyUses>>

\* The child fails to confine itself, crashes, or is gone after the kill.
die(i) ==
    /\ child[i] \in Running \cup {"killed"}
    /\ child' = [child EXCEPT ![i] = "exit1"]
    /\ UNCHANGED <<size, parent, answer, keyUses>>

ChildStep(i) ==
    confine(i) \/ read_line(i) \/ handle_enclave_request(i) \/ write_stdout(i) \/ die(i)
=============================================================================
