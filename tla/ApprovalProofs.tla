----------------------------- MODULE ApprovalProofs ----------------------------
(***************************************************************************)
(* What the approval gate promises, for any number of requests and pages,  *)
(* any timeout and any number of failures: nothing is signed without an    *)
(* approval made in time.                                                  *)
(***************************************************************************)
EXTENDS MethodRouter, TLAPS

Places == {"new", "send", "wait", "forward"} \cup Ended

\* The inductive invariant.  An approval travels from the page to the oneshot
\* channel to the requester; at every stop it is one that was made in time.
ApprovedOnTheWay ==
    /\ pc \in [Ids -> Places]
    /\ req \in [Ids -> [via : Servers, rest : Rests]]
    /\ answer \in [Ids -> {"none"} \cup Answers]
    /\ page \in [Pages -> PageStates]
    /\ queue \in [Ids -> {"absent", "live", "orphan"}]
    /\ ttl \in [Ids -> Nat]
    /\ \A r \in Ids : answer[r] = "approve" => r \in approved
    /\ \A r \in Ids : pc[r] \in {"forward", "signed"} /\ Gated(req[r]) => r \in approved

\* Initially nothing is approved and nothing has got anywhere.
LEMMA ApprovalInit == Init => ApprovedOnTheWay
  BY DEF Init, QueueInit, ApprovedOnTheWay, Places, NoRequest, Servers, Rests, PageStates, Idle

\* A handler that starts leaves the request before the gate, or past it when
\* there is no gate.
LEMMA HandleKeepsApproval ==
    ASSUME ApprovedOnTheWay, NEW r \in Ids, NEW m, handle(r, m)
    PROVE  ApprovedOnTheWay'
<1>1. PICK q \in Offered[r] :
        /\ req' = [req EXCEPT ![r] = [via |-> q.via, rest |-> Rest(q)]]
        /\ pc' = [pc EXCEPT ![r] = IF Gated(q) THEN "send" ELSE "forward"]
  BY DEF handle
<1>2. q.via \in Servers
  BY OfferedAssumption DEF Requests
<1>3. Rest(q) \in Rests
  BY DEF Rest, Rests
<1>4. req'[r].via = q.via
  BY <1>1 DEF ApprovedOnTheWay
<1>5. Gated(req'[r]) <=> Gated(q)
  BY <1>4 DEF Gated
<1>6. pc' \in [Ids -> Places] /\ req' \in [Ids -> [via : Servers, rest : Rests]]
  BY <1>1, <1>2, <1>3 DEF ApprovedOnTheWay, Places
<1>7. UNCHANGED <<answer, page, approved, queue>>
  BY DEF handle
<1>11. ttl' \in [Ids -> Nat]
  <2>1. PICK n \in Nat : ttl' = [ttl EXCEPT ![r] = n]
    BY QueueAssumption DEF handle
  <2> QED BY <2>1 DEF ApprovedOnTheWay
<1>8. \A i \in Ids \ {r} : pc'[i] = pc[i] /\ req'[i] = req[i]
  BY <1>1 DEF ApprovedOnTheWay
<1>9. pc'[r] = IF Gated(q) THEN "send" ELSE "forward"
  BY <1>1 DEF ApprovedOnTheWay
<1>10. ASSUME NEW i \in Ids, pc'[i] \in {"forward", "signed"}, Gated(req'[i])
       PROVE  i \in approved'
  <2>1. CASE i = r
    BY <2>1, <1>5, <1>9, <1>10
  <2>2. CASE i # r
    BY <2>2, <1>7, <1>8, <1>10 DEF ApprovedOnTheWay, Gated
  <2> QED BY <2>1, <2>2
<1> QED BY <1>6, <1>7, <1>10, <1>11 DEF ApprovedOnTheWay

\* resolve takes an entry from the queue and answers nobody yet.
LEMMA ResolveKeepsApproval ==
    ASSUME ApprovedOnTheWay, UNCHANGED routerVars,
           NEW p \in Pages, NEW r \in Ids, NEW d \in Decisions, resolve(p, r, d)
    PROVE  ApprovedOnTheWay'
<1>1. page' = [page EXCEPT ![p] = [step |-> "taken", id |-> r, decision |-> d, waiter |-> queue[r]]]
  BY DEF resolve
<1>2. queue[r] \in {"live", "orphan"}
  BY DEF resolve, ApprovedOnTheWay
<1>3. [step |-> "taken", id |-> r, decision |-> d, waiter |-> queue[r]] \in PageStates
  BY <1>2 DEF PageStates
<1>4. page' \in [Pages -> PageStates]
  BY <1>1, <1>3 DEF ApprovedOnTheWay
<1>5. UNCHANGED <<pc, req, answer, approved, ttl>>
  BY DEF resolve, routerVars
<1>6. queue' \in [Ids -> {"absent", "live", "orphan"}]
  BY DEF resolve, ApprovedOnTheWay
<1> QED BY <1>4, <1>5, <1>6 DEF ApprovedOnTheWay, Gated

\* What resolve sends is an approval only if the page approved in time.
LEMMA SendKeepsApproval ==
    ASSUME ApprovedOnTheWay, UNCHANGED routerVars, NEW p \in Pages, Send(p)
    PROVE  ApprovedOnTheWay'
<1> DEFINE r == page[p].id
           d == Decided(p)
<1>1. page[p] \in [step : {"taken"}, id : Ids, decision : Decisions, waiter : {"live", "orphan"}]
  BY DEF Send, ApprovedOnTheWay, PageStates, Idle
<1>2. r \in Ids /\ d \in Answers
  BY <1>1 DEF Decided, Answers
<1>3. d = "approve" => page[p].decision = "approve" /\ ttl[r] > 0
  <2>1. ttl[r] \in Nat
    BY <1>2 DEF ApprovedOnTheWay
  <2>2. ttl[r] # 0 => ttl[r] > 0
    BY <2>1
  <2> QED BY <2>2 DEF Decided
<1>4. page' = [page EXCEPT ![p] = [page[p] EXCEPT !.step = "sent", !.decision = d]]
  BY DEF Send
<1>5. [page[p] EXCEPT !.step = "sent", !.decision = d] \in PageStates
  <2>1. [page[p] EXCEPT !.step = "sent", !.decision = d] \in
            [step : {"sent"}, id : Ids, decision : Answers, waiter : {"live", "orphan"}]
    BY <1>1, <1>2
  <2> QED BY <2>1 DEF PageStates
<1>6. page' \in [Pages -> PageStates]
  BY <1>4, <1>5 DEF ApprovedOnTheWay
<1>7. /\ answer' = IF page[p].waiter = "live" THEN [answer EXCEPT ![r] = d] ELSE answer
      /\ approved' = approved \cup
            {i \in {r} : page[p].waiter = "live" /\ page[p].decision = "approve" /\ ttl[r] > 0}
  BY DEF Send
<1>8. answer' \in [Ids -> {"none"} \cup Answers]
  BY <1>2, <1>7 DEF ApprovedOnTheWay
<1>9. ASSUME NEW i \in Ids, answer'[i] = "approve"
      PROVE  i \in approved'
  <2>1. CASE answer'[i] = answer[i]
    BY <2>1, <1>7, <1>9 DEF ApprovedOnTheWay
  <2>2. CASE i = r /\ page[p].waiter = "live"
    <3>1. d = "approve"
      BY <2>2, <1>2, <1>7, <1>9 DEF ApprovedOnTheWay
    <3> QED BY <3>1, <1>3, <1>7, <2>2
  <2> QED BY <2>1, <2>2, <1>2, <1>7 DEF ApprovedOnTheWay
<1>10. UNCHANGED <<pc, req, queue, ttl>>
  BY DEF routerVars, Send
<1>11. approved \subseteq approved'
  BY <1>7
<1> QED BY <1>6, <1>8, <1>9, <1>10, <1>11 DEF ApprovedOnTheWay, Gated

\* The other steps of the queue move no answer and approve nothing.
LEMMA QueueKeepsApproval ==
    ASSUME ApprovedOnTheWay, QueueStep
    PROVE  ApprovedOnTheWay'
<1>1. CASE Inserted
  BY <1>1 DEF QueueStep, Inserted, ApprovedOnTheWay, routerVars, Gated
<1>2. CASE \E p \in Pages : record_resolution(p)
  <2>1. PICK p \in Pages : record_resolution(p)
    BY <1>2
  <2>2. page' \in [Pages -> PageStates]
    BY <2>1 DEF record_resolution, ApprovedOnTheWay, PageStates
  <2>3. UNCHANGED <<pc, req, answer, approved, queue, ttl>>
    BY <2>1 DEF record_resolution, QueueStep, routerVars
  <2> QED BY <2>2, <2>3 DEF ApprovedOnTheWay, Gated
<1>3. CASE \E p \in Pages : Send(p)
  BY <1>3, SendKeepsApproval DEF QueueStep
<1>4. CASE \E p \in Pages, r \in Ids, d \in Decisions : resolve(p, r, d)
  BY <1>4, ResolveKeepsApproval DEF QueueStep
<1> QED BY <1>1, <1>2, <1>3, <1>4 DEF QueueStep

\* A handler that returns is at the end, and only one past the gate has signed.
LEMMA EndKeepsApproval ==
    ASSUME ApprovedOnTheWay, NEW r \in Ids, NEW how \in Ended, End(r, how),
           how = "signed" => pc[r] = "forward",
           UNCHANGED <<answer, page, approved, queue, ttl>>
    PROVE  ApprovedOnTheWay'
<1>1. pc' \in [Ids -> Places] /\ pc'[r] = how /\ \A i \in Ids \ {r} : pc'[i] = pc[i]
  BY DEF End, ApprovedOnTheWay, Places
<1>2. NoRequest \in [via : Servers, rest : Rests]
  BY DEF NoRequest, Servers, Rests
<1>3. /\ req' \in [Ids -> [via : Servers, rest : Rests]]
      /\ how = "signed" => req'[r] = req[r]
      /\ \A i \in Ids \ {r} : req'[i] = req[i]
  BY <1>2 DEF End, ApprovedOnTheWay
<1>4. ASSUME NEW i \in Ids, pc'[i] \in {"forward", "signed"}, Gated(req'[i])
      PROVE  i \in approved
  <2>1. pc[i] \in {"forward", "signed"} /\ req'[i] = req[i]
    BY <1>1, <1>3, <1>4 DEF Ended
  <2> QED BY <1>4, <2>1 DEF ApprovedOnTheWay
<1> QED BY <1>1, <1>3, <1>4 DEF ApprovedOnTheWay

\* The requester goes on to sign only on an approval.
LEMMA WakeKeepsApproval ==
    ASSUME ApprovedOnTheWay, NEW r \in Ids, Wake(r)
    PROVE  ApprovedOnTheWay'
<1>1. UNCHANGED <<answer, page, approved, queue, ttl>>
  BY DEF Wake, queueVars
<1>2. CASE End(r, "failed")
  BY <1>1, <1>2, EndKeepsApproval DEF Ended
<1>3. CASE answer[r] = "approve" /\ pc' = [pc EXCEPT ![r] = "forward"] /\ UNCHANGED req
  BY <1>1, <1>3 DEF ApprovedOnTheWay, Places, Gated
<1> QED BY <1>2, <1>3 DEF Wake, Answered

\* The rest of the router never moves a request past the gate.
LEMMA ProceedKeepsApproval ==
    ASSUME ApprovedOnTheWay, NEW r \in Ids,
           request(r) \/ forward(r) \/ intent_execute(r) \/ Disconnect(r) \/ Query(r)
    PROVE  ApprovedOnTheWay'
<1>1. UNCHANGED <<answer, page, approved, queue, ttl>>
  BY DEF request, forward, intent_execute, Disconnect, Query, queueVars
<1>2. CASE request(r)
  <2>1. UNCHANGED req /\ pc' = [pc EXCEPT ![r] = "wait"]
    BY <1>2 DEF request
  <2> QED BY <1>1, <2>1 DEF ApprovedOnTheWay, Places, Gated
<1>3. CASE ~request(r)
  <2>1. PICK how \in Ended : End(r, how) /\ (how = "signed" => pc[r] = "forward")
    BY <1>3 DEF forward, intent_execute, Disconnect, Query, Ended
  <2> QED BY <1>1, <2>1, EndKeepsApproval
<1> QED BY <1>2, <1>3

\* Neither does the bookkeeping: time, the channels and a restart.
LEMMA OtherKeepsApproval ==
    ASSUME ApprovedOnTheWay, Tick \/ Restart \/ Receive \/ (\E s \in Servers : Bridge(s))
    PROVE  ApprovedOnTheWay'
<1>1. CASE Tick
  <2>1. ttl' \in [Ids -> Nat]
    <3>1. ttl' = [r \in Ids |-> IF ttl[r] = 0 THEN 0 ELSE ttl[r] - 1]
      BY <1>1 DEF Tick, Expire
    <3>2. ASSUME NEW n \in Nat PROVE (IF n = 0 THEN 0 ELSE n - 1) \in Nat
      OBVIOUS
    <3>3. \A r \in Ids : ttl[r] \in Nat
      BY DEF ApprovedOnTheWay
    <3> QED BY <3>1, <3>2, <3>3
  <2>2. UNCHANGED <<pc, req, answer, page, approved, queue>>
    BY <1>1 DEF Tick
  <2> QED BY <2>1, <2>2 DEF ApprovedOnTheWay, Gated
<1>2. CASE Restart
  <2>1. pc' \in [Ids -> Places] /\ \A r \in Ids : pc'[r] \in {"forward", "signed"} => pc'[r] = pc[r]
    BY <1>2 DEF Restart, ApprovedOnTheWay, Places, Ended
  <2>2. page' \in [Pages -> PageStates]
    <3>1. page' = [p \in Pages |-> Idle]
      BY <1>2 DEF Restart, replay_orphans
    <3>2. Idle \in PageStates
      BY DEF PageStates
    <3> QED BY <3>1, <3>2
  <2>4. queue' \in [Ids -> {"absent", "live", "orphan"}]
    <3>1. \/ queue' = [r \in Ids |-> IF r \in replay_unresolved(log) THEN "orphan" ELSE "absent"]
          \/ queue' = [r \in Ids |-> "absent"]
      BY <1>2 DEF Restart, replay_orphans
    <3> QED BY <3>1
  <2>3. UNCHANGED <<answer, approved, ttl>>
    BY <1>2 DEF Restart, replay_orphans
  <2>5. NoRequest \in [via : Servers, rest : Rests]
    BY DEF NoRequest, Servers, Rests
  <2>6. req' = [r \in Ids |-> IF pc[r] = "signed" THEN req[r] ELSE NoRequest]
    BY <1>2 DEF Restart
  <2>7. req' \in [Ids -> [via : Servers, rest : Rests]]
    BY <2>5, <2>6 DEF ApprovedOnTheWay
  <2>8. \A r \in Ids : pc'[r] # "forward"
    BY <1>2 DEF Restart
  <2>9. ASSUME NEW r \in Ids, pc'[r] \in {"forward", "signed"}, Gated(req'[r])
        PROVE  r \in approved
    <3>1. pc[r] = "signed" /\ req'[r] = req[r]
      BY <2>1, <2>6, <2>8, <2>9
    <3> QED BY <2>9, <3>1 DEF ApprovedOnTheWay
  <2> QED BY <2>1, <2>2, <2>3, <2>4, <2>7, <2>9 DEF ApprovedOnTheWay
<1>3. CASE Receive
  BY <1>3 DEF Receive, InsertLogged, ApprovedOnTheWay, Gated
<1>4. CASE \E s \in Servers : Bridge(s)
  BY <1>4 DEF Bridge, queueVars, ApprovedOnTheWay, Gated
<1> QED BY <1>1, <1>2, <1>3, <1>4

\* Every step keeps the invariant.
LEMMA ApprovalStep == ApprovedOnTheWay /\ [Next]_vars => ApprovedOnTheWay'
<1> SUFFICES ASSUME ApprovedOnTheWay, [Next]_vars
             PROVE  ApprovedOnTheWay'
  OBVIOUS
<1>1. CASE \E r \in Ids : Handle(r)
  BY <1>1, HandleKeepsApproval, ProceedKeepsApproval
     DEF Handle, sign_transaction, solana_signMessage, personal_sign, onecipher_signAuth,
         solana_signIn, wc_authRequest, eth_signTypedData, onecipher_signUserOp, onecipher_intentExecute
<1>2. CASE \E r \in Ids : Proceed(r) \/ Disconnect(r)
  BY <1>2, WakeKeepsApproval, ProceedKeepsApproval DEF Proceed
<1>3. CASE QueueStep
  BY <1>3, QueueKeepsApproval
<1>4. CASE Tick \/ Restart \/ Receive \/ (\E s \in Servers : Bridge(s))
  BY <1>4, OtherKeepsApproval
<1>5. CASE UNCHANGED vars
  BY <1>5 DEF vars, queueVars, routerVars, ApprovedOnTheWay, Gated
<1> QED BY <1>1, <1>2, <1>3, <1>4, <1>5 DEF Next

\* What is signed was approved (maybe_gate_approval, ApprovalQueue::resolve):
\* whatever the timeouts, pages, failures and restarts, a gated request that is
\* signed was approved by a page before it expired.
THEOREM SignedRequestsAreApproved == Spec => []SignedIsApproved
<1>1. Init => ApprovedOnTheWay
  BY ApprovalInit
<1>2. ApprovedOnTheWay /\ [Next]_vars => ApprovedOnTheWay'
  BY ApprovalStep
<1>3. ApprovedOnTheWay => SignedIsApproved
  BY DEF ApprovedOnTheWay, SignedIsApproved
<1> QED BY <1>1, <1>2, <1>3, PTL DEF Spec
=============================================================================
