--------------------------------- MODULE Daemon --------------------------------
(***************************************************************************)
(* The daemon process (bin/oc-cli/src/daemon/mod.rs): the Key-Agent server *)
(* on a thread of its own, background tasks, and a select! that ends the   *)
(* process on Ctrl-C, on a signal from the notifier thread, when a task    *)
(* exits and when the Key-Agent thread ends.                               *)
(*                                                                         *)
(* SIGINT reaches both tokio's ctrl_c and the notifier; SIGTERM, SIGHUP    *)
(* and SIGQUIT ("term") reach only the notifier.  The control-socket task  *)
(* never exits, so the grace period always runs to its end.                *)
(***************************************************************************)
EXTENDS KeyAgentServer

VARIABLES
    signal,         \* the signal the process has yet to act on, if any
    notified,       \* what the notifier's channel holds
    main            \* the daemon's main task

daemonVars == <<signal, notified, main>>
vars == <<serverVars, daemonVars>>

TypeOK ==
    /\ ServerTypeOK
    /\ signal \in {"none", "int", "term"}
    /\ notified \in {"nothing", "signal"}
    /\ main \in {"select", "stopping", "exited"}

Init ==
    /\ ServerInit
    /\ signal = "none"
    /\ notified = "nothing"
    /\ main = "select"

Up == main # "exited"

\* A signal is delivered; once the select! is over nobody looks for another.
kill ==
    /\ main = "select"
    /\ signal = "none"
    /\ signal' \in {"int", "term"}
    /\ UNCHANGED <<serverVars, notified, main>>

\* The notifier runs the cleanup hooks and forwards the signal.
signal_notifier ==
    /\ main = "select"
    /\ signal # "none"
    /\ notified = "nothing"
    /\ notified' = "signal"
    /\ UNCHANGED <<serverVars, signal, main>>

graceful_stop ==
    /\ stop' = 1
    /\ idle' = 0
    /\ UNCHANGED <<ka, live, srv, cli, toSrv, toCli, pool, conn, sent, got>>

\* An arm of the select! is taken; the others are dropped with what they hold.
Arm ==
    /\ main = "select"
    /\ main' = "stopping"
    /\ signal' = "none"
    /\ notified' = "nothing"

select_ctrl_c == signal = "int" /\ graceful_stop /\ Arm
select_signal == notified = "signal" /\ graceful_stop /\ Arm

\* The channel is closed without a signal in it, because the handlers were not
\* registered or the notifier thread was not started.
select_hangup == UNCHANGED serverVars /\ Arm

\* A background task other than the control-socket loop ends, at any time or
\* never, and its exit is received.
select_task == UNCHANGED serverVars /\ Arm

\* Only an error of the Key-Agent thread is noticed.
select_key_agent_errors == ka = "failed" /\ UNCHANGED serverVars /\ Arm

\* The monitor's channel delivers an error, or closes with the thread.
select_key_agent ==
    ka \in {"returned", "failed"} /\ UNCHANGED serverVars /\ Arm

\* After the select, and the grace period of a signal: the process ends, and
\* its tasks, their pooled client and what it held in memory end with it.
exit ==
    /\ main = "stopping"
    /\ main' = "exited"
    /\ ka' = "gone"
    /\ stop' = 0 /\ live' = 0 /\ idle' = 0
    /\ pool' = NoConn
    /\ srv' = [c \in Conns |-> IF srv[c] = "unused" THEN "unused" ELSE Closed]
    /\ cli' = [c \in Conns |-> IF cli[c] \in NetSenders \cup {Pooled} THEN Closed ELSE cli[c]]
    /\ toSrv' = [c \in Conns |-> <<>>]
    /\ toCli' = [c \in Conns |-> IF cli[c] \in CliSenders THEN toCli[c] ELSE <<>>]
    /\ conn' = [s \in Senders |-> IF s \in NetSenders THEN NoConn ELSE conn[s]]
    /\ sent' = [s \in Senders |-> IF s \in NetSenders THEN 0 ELSE sent[s]]
    /\ got' = [s \in Senders |-> IF s \in NetSenders THEN None ELSE got[s]]
    /\ UNCHANGED <<signal, notified>>

SelectStep ==
    select_ctrl_c \/ select_signal \/ select_key_agent

Next ==
    \/ (ThreadStep \/ watchdog \/ tick) /\ UNCHANGED daemonVars
    \/ \E c \in Conns : (ConnStep(c) \/ conn_error(c)) /\ UNCHANGED daemonVars
    \/ \E s \in Senders : Up /\ SendStep(s) /\ UNCHANGED daemonVars
    \/ \E s \in Senders : ReceiveStep(s) /\ UNCHANGED daemonVars
    \/ kill \/ signal_notifier
    \/ SelectStep \/ select_hangup \/ select_task \/ exit

\* The threads and tasks of a live process keep running, except a thread whose
\* dispatch is blocked, and so does a command that waits for its answer.
Fairness ==
    /\ WF_vars(ThreadStep /\ UNCHANGED daemonVars)
    /\ \A c \in Conns : WF_vars(ConnStep(c) /\ UNCHANGED daemonVars)
    /\ \A s \in CliSenders : WF_vars(ReceiveStep(s) /\ UNCHANGED daemonVars)
    /\ WF_vars(signal_notifier)
    /\ WF_vars(SelectStep)
    /\ WF_vars(exit)

Spec == Init /\ [][Next]_vars /\ Fairness
-----------------------------------------------------------------------------
\* An answer reaches the request it answers: over a pooled connection shared
\* by tasks that time out, no task ever reads the late answer to another
\* request, of its own or of another task.
AnswersMatch ==
    \A s \in Senders : got[s] \in Requests => got[s] = <<s, sent[s]>>

\* live_connections is never below the number of threads that serve, so the
\* limit holds for them; it comes back to it when the threads are done.
LimitHolds ==
    Up => /\ live = Cardinality({c \in Conns : srv[c] \in Serving})
          /\ live <= MAX_CONNECTIONS

\* The CLI waits without a deadline, but for nobody else's sake: served, turned
\* away at the limit while other threads are blocked for good, or cut off by a
\* shutdown, it gets an answer or an error, unless its own dispatch is the one
\* that never returns.
CliReturns ==
    \A s \in CliSenders :
        conn[s] # NoConn ~>
            (conn[s] = NoConn \/ \E c \in Conns : c = conn[s] /\ srv[c] = "blocked")

\* A termination signal ends the process, and so do the inactivity lock and
\* the end of the Key-Agent thread for whatever reason, also with connections
\* that are still served or blocked: there is no daemon without its Key-Agent.
EndsWithKeyAgent ==
    (signal # "none" \/ stop = 1 \/ ka \in {"returned", "failed"}) ~> ~Up
=============================================================================
