----------------------------- MODULE ApprovalQueue ----------------------------
(***************************************************************************)
(* The Web UI's queue of approvals (crates/oc-webui/src/approval_queue.rs) *)
(* and the log it survives restarts with (crates/oc-core/src/              *)
(* approval_log.rs).                                                       *)
(*                                                                         *)
(* A receiver task inserts what the routers submit: it announces the       *)
(* approval, logs it and then puts it in the map.  Every open page of the  *)
(* UI may decide at any time: resolve takes the entry out of the map,      *)
(* looks at the clock, answers the waiting requester and logs the          *)
(* resolution.  Appends fail or tear without stopping either of them.  On  *)
(* a restart the unresolved entries of the log come back without anyone    *)
(* waiting for them.                                                       *)
(*                                                                         *)
(* Times are remaining seconds: ttl[r] is what is left until the           *)
(* expires_at_unix of approval r.                                          *)
(***************************************************************************)
EXTENDS Naturals, Sequences, SequencesExt

CONSTANTS
    Ids,                \* signing requests; an approval has its request's id
    None,               \* not an id
    Pages,              \* UI pages (or API clients) that submit decisions
    Timeout,            \* seconds an approval stays open (300)
    MaxFaults           \* bound on failed and torn appends and on restarts

ASSUME QueueAssumption ==
    /\ None \notin Ids
    /\ Timeout \in Nat \ {0}
    /\ MaxFaults \in Nat

VARIABLES
    queue,              \* pending: absent, "live" (someone waits) or "orphan"
    inserting,          \* the approval announced and logged, not yet in the map
    page,               \* per page: the resolve it is in the middle of
    answer,             \* per id: what the oneshot channel holds
    ttl,                \* per id: seconds until the approval expires
    log,                \* the lines of the approval log
    faults,             \* appends that failed or tore, and restarts, so far
    approved,           \* history: ids approved in time with the requester waiting
    taken,              \* history: ids some page has taken from the queue
    logged,             \* history: ids whose pending line is whole in the file
    settled,            \* history: ids whose resolved line is whole in the file
    unread              \* history: ids logged before a start that could not read the log

queueVars ==
    <<queue, inserting, page, answer, ttl, log, faults, approved, taken, logged, settled, unread>>

Decisions == {"approve", "reject"}
Answers == Decisions \cup {"timeout"}

Pending(r) == [event |-> "pending", id |-> r]
Resolved(r) == [event |-> "resolved", id |-> r]

\* A line cut short has no newline; what is appended to it is malformed too.
Torn == [event |-> "torn", id |-> None]
Malformed == [event |-> "malformed", id |-> None]

Events == {Pending(r) : r \in Ids} \cup {Resolved(r) : r \in Ids}
Lines == Events \cup {Torn, Malformed}

Idle == [step |-> "idle", id |-> None, decision |-> "timeout", waiter |-> "absent"]

PageStates ==
    {Idle} \cup [step : {"taken"}, id : Ids, decision : Decisions, waiter : {"live", "orphan"}]
           \cup [step : {"sent"}, id : Ids, decision : Answers, waiter : {"live", "orphan"}]

QueueTypeOK ==
    /\ queue \in [Ids -> {"absent", "live", "orphan"}]
    /\ inserting \in Ids \cup {None}
    /\ page \in [Pages -> PageStates]
    /\ answer \in [Ids -> {"none"} \cup Answers]
    /\ ttl \in [Ids -> 0..Timeout]
    /\ log \in Seq(Lines)
    /\ faults \in 0..MaxFaults
    /\ approved \subseteq Ids
    /\ taken \subseteq Ids
    /\ logged \subseteq Ids
    /\ settled \subseteq Ids
    /\ unread \subseteq logged

QueueInit ==
    /\ queue = [r \in Ids |-> "absent"]
    /\ inserting = None
    /\ page = [p \in Pages |-> Idle]
    /\ answer = [r \in Ids |-> "none"]
    /\ ttl = [r \in Ids |-> 0]
    /\ log = <<>>
    /\ faults = 0
    /\ approved = {}
    /\ taken = {}
    /\ logged = {}
    /\ settled = {}
    /\ unread = {}
-----------------------------------------------------------------------------
(* The log.                                                                *)

EndsTorn(l) == l # <<>> /\ Last(l) = Torn

\* The file after the whole of event e, or only its beginning, is written.
append_event(l, e) ==
    IF EndsTorn(l) THEN Front(l) \o <<IF e = Torn THEN Torn ELSE Malformed>>
                   ELSE Append(l, e)

\* The pending lines that no later line resolves.
replay_unresolved(l) ==
    {r \in Ids : \E i \in DOMAIN l :
        l[i] = Pending(r) /\ \A j \in i + 1 .. Len(l) : l[j] # Resolved(r)}

\* A pending line is dropped with age, resolved or not.
gc_dropping_pending(l, k) ==
    LET stale == {l[i].id : i \in {j \in 1..k : l[j] \in Events}}
    IN  SelectSeq(l, LAMBDA e : e.id \notin stale)

\* Only the resolved lines are dropped.
gc_keeping_pending(l, k) ==
    LET stale == {Resolved(l[i].id) : i \in {j \in 1..k : l[j] = Resolved(l[j].id)}}
    IN  SelectSeq(l, LAMBDA e : e \notin stale)

\* gc_older_than when the first k lines are past the cutoff: every line of an
\* id resolved among them goes.  A file that is rewritten ends in a newline.
gc_older_than(l, k) ==
    LET stale == {l[i].id : i \in {j \in 1..k : l[j].event = "resolved"}}
        kept  == SelectSeq(l, LAMBDA e : e.id \notin stale)
    IN  IF kept = l THEN l
        ELSE [i \in DOMAIN kept |-> IF kept[i] = Torn THEN Malformed ELSE kept[i]]

\* An append is whole, fails without writing, or leaves part of the line.
\* Both callers only warn about an error.
Logs(e) ==
    \/ /\ log' = append_event(log, e)
       /\ logged' = logged \cup {r \in Ids : e = Pending(r) /\ ~EndsTorn(log)}
       /\ settled' = settled \cup {r \in Ids : e = Resolved(r) /\ ~EndsTorn(log)}
       /\ UNCHANGED faults
    \/ /\ faults < MaxFaults
       /\ faults' = faults + 1
       /\ log' \in {log, append_event(log, Torn)}
       /\ UNCHANGED <<logged, settled>>
-----------------------------------------------------------------------------
(* The queue.                                                              *)

\* insert: the announcement and the pending line come before the entry.
InsertLogged(r) ==
    /\ inserting = None
    /\ inserting' = r
    /\ Logs(Pending(r))
    /\ UNCHANGED <<queue, page, answer, ttl, approved, taken, unread>>

Inserted ==
    /\ inserting # None
    /\ queue' = [queue EXCEPT ![inserting] = "live"]
    /\ inserting' = None
    /\ UNCHANGED <<page, answer, ttl, log, faults, approved, taken, logged, settled, unread>>

\* The entry is looked up and stays in the map.
resolve_reading(p, r, d) ==
    /\ page[p].step = "idle"
    /\ queue[r] # "absent"
    /\ page' = [page EXCEPT ![p] = [step |-> "taken", id |-> r, decision |-> d,
                                    waiter |-> queue[r]]]
    /\ taken' = taken \cup {r}
    /\ UNCHANGED <<queue, inserting, answer, ttl, log, faults, approved, logged, settled, unread>>

\* resolve: the entry is removed.  Without one the page is told that the
\* approval is already resolved, and nothing changes.
resolve(p, r, d) ==
    /\ page[p].step = "idle"
    /\ queue[r] # "absent"
    /\ queue' = [queue EXCEPT ![r] = "absent"]
    /\ page' = [page EXCEPT ![p] = [step |-> "taken", id |-> r, decision |-> d,
                                    waiter |-> queue[r]]]
    /\ taken' = taken \cup {r}
    /\ UNCHANGED <<inserting, answer, ttl, log, faults, approved, logged, settled, unread>>

\* The decision is sent whatever the clock says.
Decided_late(p) == page[p].decision

\* What the requester is told: past the expiry, that it timed out.
Decided(p) == IF ttl[page[p].id] = 0 THEN "timeout" ELSE page[p].decision

\* resolve, continued: the answer goes to the requester, if there is one.
Send(p) ==
    LET r == page[p].id
        d == Decided(p)
    IN  /\ page[p].step = "taken"
        /\ page' = [page EXCEPT ![p] = [@ EXCEPT !.step = "sent", !.decision = d]]
        /\ answer' = IF page[p].waiter = "live" THEN [answer EXCEPT ![r] = d] ELSE answer
        /\ approved' = approved \cup
                {i \in {r} : page[p].waiter = "live" /\ page[p].decision = "approve" /\ ttl[r] > 0}
        /\ UNCHANGED <<queue, inserting, ttl, log, faults, taken, logged, settled, unread>>

\* record_resolution.
record_resolution(p) ==
    /\ page[p].step = "sent"
    /\ page' = [page EXCEPT ![p] = Idle]
    /\ Logs(Resolved(page[p].id))
    /\ UNCHANGED <<queue, inserting, answer, ttl, approved, taken, unread>>

\* The UI server starts again: what was in memory is gone, the unresolved
\* entries come back, and old lines are collected.  A file that cannot be read,
\* for an I/O error or a line cut inside a character, is left as it is, and the
\* server starts without them.
replay_orphans ==
    /\ \/ /\ queue' = [r \in Ids |-> IF r \in replay_unresolved(log) THEN "orphan" ELSE "absent"]
          /\ \E k \in 0..Len(log) : log' = gc_older_than(log, k)
          /\ unread' = {}
       \/ /\ queue' = [r \in Ids |-> "absent"]
          /\ unread' = logged \ taken
          /\ UNCHANGED log
    /\ inserting' = None
    /\ page' = [p \in Pages |-> Idle]
    /\ UNCHANGED <<answer, ttl, approved, taken, logged, settled>>

\* A second passes.
Expire == ttl' = [r \in Ids |-> IF ttl[r] = 0 THEN 0 ELSE ttl[r] - 1]
=============================================================================
