----------------------------- MODULE KeyAgentServer ----------------------------
(***************************************************************************)
(* The Key-Agent's socket server (crates/oc-keyagent/src/server.rs) and    *)
(* its two clients: oc-netagent's KeyAgentClient, whose clones share one   *)
(* pooled connection and give up after a deadline, and oc-keyagent's       *)
(* FrameClient, which the CLI uses for one request per connection and      *)
(* which waits without a deadline.                                         *)
(*                                                                         *)
(* The accept loop polls a non-blocking listener and the stop flag, serves *)
(* at most MAX_CONNECTIONS connections with a thread each, and removes the *)
(* socket when it ends.  A watchdog sets the stop flag once no connection  *)
(* was accepted for IdleTimeout.  Elapsed times are counted up to          *)
(* IdleTimeout, which is as far as the watchdog looks.                     *)
(***************************************************************************)
EXTENDS Naturals, Sequences, FiniteSets

CONSTANTS
    NetSenders,         \* tasks that send through the pooled client
    CliSenders,         \* CLI processes
    MaxConns,           \* bound on the connections opened
    MaxSends,           \* bound on the requests of a sender of the pooled client
    MAX_CONNECTIONS,
    IdleTimeout         \* idle_timeout_secs, in ticks of the watchdog

Senders == NetSenders \cup CliSenders
Conns == 1..MaxConns        \* connections, in the order they are opened

ASSUME ServerAssumption ==
    /\ NetSenders \cap CliSenders = {}
    /\ MaxConns \in Nat \ {0}
    /\ MaxSends \in Nat \ {0}
    /\ MAX_CONNECTIONS \in Nat \ {0}
    /\ IdleTimeout \in Nat \ {0}

NoConn == 0
Pooled == "pool"
Closed == "closed"

VARIABLES
    ka,             \* the Key-Agent thread
    stop,           \* the stop flag, 0 or 1
    live,           \* live_connections
    srv,            \* per connection: the server's end
    cli,            \* per connection: who holds the client's end
    toSrv,          \* per connection: requests on their way
    toCli,          \* per connection: answers on their way
    pool,           \* the pooled connection, or NoConn
    conn,           \* per sender: the connection its request is on
    sent,           \* per sender: the number of its current request
    got,            \* per sender: the answer to its current request, if any
    idle            \* ticks since the last accept

serverVars ==
    <<ka, stop, live, srv, cli, toSrv, toCli, pool, conn, sent, got, idle>>

Requests == Senders \X (1..MaxSends)
Limit == <<"connection limit", 0>>
None == <<"none", 0>>
\* "blocked": in a dispatch that never returns.
Serving == {"open", "busy", "blocked", "ending"}

ServerTypeOK ==
    /\ ka \in {"start", "check", "accept", "cleanup", "returned", "failed", "gone"}
    /\ stop \in {0, 1}
    /\ live \in 0..MAX_CONNECTIONS
    /\ srv \in [Conns -> {"unused", "backlog", Closed} \cup Serving]
    /\ cli \in [Conns -> Senders \cup {"none", Pooled, Closed}]
    /\ \A c \in Conns : toSrv[c] \in Seq(Requests) /\ toCli[c] \in Seq(Requests \cup {Limit})
    /\ pool \in Conns \cup {NoConn}
    /\ conn \in [Senders -> Conns \cup {NoConn}]
    /\ sent \in [Senders -> 0..MaxSends]
    /\ got \in [Senders -> Requests \cup {Limit, None}]
    /\ idle \in 0..IdleTimeout

ServerInit ==
    /\ ka = "start"
    /\ stop = 0
    /\ live = 0
    /\ srv = [c \in Conns |-> "unused"]
    /\ cli = [c \in Conns |-> "none"]
    /\ toSrv = [c \in Conns |-> <<>>]
    /\ toCli = [c \in Conns |-> <<>>]
    /\ pool = NoConn
    /\ conn = [s \in Senders |-> NoConn]
    /\ sent = [s \in Senders |-> 0]
    /\ got = [s \in Senders |-> None]
    /\ idle = 0

Listening == ka \in {"check", "accept", "cleanup"}
-----------------------------------------------------------------------------
(* The Key-Agent thread.                                                   *)

\* Hardening, sandbox and bind succeed, or the thread ends with an error.
start_server ==
    /\ ka = "start"
    /\ ka' \in {"check", "failed"}
    /\ idle' = 0
    /\ UNCHANGED <<stop, live, srv, cli, toSrv, toCli, pool, conn, sent, got>>

check_stop ==
    /\ ka = "check"
    /\ ka' = IF stop = 1 THEN "cleanup" ELSE "accept"
    /\ UNCHANGED <<stop, live, srv, cli, toSrv, toCli, pool, conn, sent, got, idle>>

\* Every connection gets a thread.
accept_unlimited(c) ==
    /\ ka = "accept"
    /\ srv[c] = "backlog"
    /\ ka' = "check"
    /\ idle' = 0
    /\ live' = live + 1
    /\ srv' = [srv EXCEPT ![c] = "open"]
    /\ UNCHANGED <<stop, cli, toSrv, toCli, pool, conn, sent, got>>

\* A connection beyond the limit waits for a place.
accept_waiting(c) ==
    /\ ka = "accept"
    /\ srv[c] = "backlog"
    /\ live < MAX_CONNECTIONS
    /\ ka' = "check"
    /\ idle' = 0
    /\ live' = live + 1
    /\ srv' = [srv EXCEPT ![c] = "open"]
    /\ UNCHANGED <<stop, cli, toSrv, toCli, pool, conn, sent, got>>

\* A connection beyond the limit is told so and dropped; another gets a thread.
accept(c) ==
    /\ ka = "accept"
    /\ srv[c] = "backlog"
    /\ ka' = "check"
    /\ idle' = 0
    /\ \/ /\ live >= MAX_CONNECTIONS
          /\ toCli' = [toCli EXCEPT ![c] = Append(@, Limit)]
          /\ srv' = [srv EXCEPT ![c] = Closed]
          /\ toSrv' = [toSrv EXCEPT ![c] = <<>>]
          /\ UNCHANGED live
       \/ /\ live < MAX_CONNECTIONS
          /\ live' = live + 1
          /\ srv' = [srv EXCEPT ![c] = "open"]
          /\ UNCHANGED <<toSrv, toCli>>
    /\ UNCHANGED <<stop, cli, pool, conn, sent, got>>

\* accept() returns WouldBlock.
poll ==
    /\ ka = "accept"
    /\ \A c \in Conns : srv[c] # "backlog"
    /\ ka' = "check"
    /\ UNCHANGED <<stop, live, srv, cli, toSrv, toCli, pool, conn, sent, got, idle>>

\* The socket file is removed and the listener dropped, with it the
\* connections that were never accepted.
cleanup ==
    /\ ka = "cleanup"
    /\ ka' = "returned"
    /\ srv' = [c \in Conns |-> IF srv[c] = "backlog" THEN Closed ELSE srv[c]]
    /\ UNCHANGED <<stop, live, cli, toSrv, toCli, pool, conn, sent, got, idle>>

\* The inactivity lock.
watchdog ==
    /\ ka \notin {"start", "failed", "gone"}
    /\ stop = 0
    /\ idle >= IdleTimeout
    /\ stop' = 1
    /\ idle' = 0
    /\ UNCHANGED <<ka, live, srv, cli, toSrv, toCli, pool, conn, sent, got>>

tick ==
    /\ ka \notin {"start", "failed", "gone"}
    /\ stop = 0
    /\ idle < IdleTimeout
    /\ idle' = idle + 1
    /\ UNCHANGED <<ka, stop, live, srv, cli, toSrv, toCli, pool, conn, sent, got>>
-----------------------------------------------------------------------------
(* A connection thread: handle_conn, then the decrement of the counter.    *)

\* A request is read and dispatched.  The dispatch may never return: the write
\* to a signing subprocess that does not read has no deadline (enclave.rs:906).
read_request(c) ==
    /\ srv[c] = "open"
    /\ toSrv[c] # <<>>
    /\ \E s \in {"busy", "blocked"} : srv' = [srv EXCEPT ![c] = s]
    /\ UNCHANGED <<ka, stop, live, cli, toSrv, toCli, pool, conn, sent, got, idle>>

\* dispatch returns and the answer is written; writing to a client that hung
\* up ends the thread.
write_response(c) ==
    /\ srv[c] = "busy"
    /\ toSrv' = [toSrv EXCEPT ![c] = Tail(@)]
    /\ \/ /\ cli[c] # Closed
          /\ toCli' = [toCli EXCEPT ![c] = Append(@, Head(toSrv[c]))]
          /\ srv' = [srv EXCEPT ![c] = "open"]
       \/ /\ cli[c] = Closed
          /\ srv' = [srv EXCEPT ![c] = "ending"]
          /\ UNCHANGED toCli
    /\ UNCHANGED <<ka, stop, live, cli, pool, conn, sent, got, idle>>

\* The client closed its end, or, in the CLI, its writing half.
eof(c) ==
    /\ srv[c] = "open"
    /\ toSrv[c] = <<>>
    /\ cli[c] \in CliSenders \cup {Closed}
    /\ srv' = [srv EXCEPT ![c] = "ending"]
    /\ UNCHANGED <<ka, stop, live, cli, toSrv, toCli, pool, conn, sent, got, idle>>

\* Cloning the stream or reading from it fails.
conn_error(c) ==
    /\ srv[c] = "open"
    /\ srv' = [srv EXCEPT ![c] = "ending"]
    /\ UNCHANGED <<ka, stop, live, cli, toSrv, toCli, pool, conn, sent, got, idle>>

\* The thread ends without giving its place back.
release_leaking(c) ==
    /\ srv[c] = "ending"
    /\ srv' = [srv EXCEPT ![c] = Closed]
    /\ UNCHANGED <<ka, stop, live, cli, toSrv, toCli, pool, conn, sent, got, idle>>

release(c) ==
    /\ srv[c] = "ending"
    /\ srv' = [srv EXCEPT ![c] = Closed]
    /\ live' = live - 1
    /\ toSrv' = [toSrv EXCEPT ![c] = <<>>]
    /\ UNCHANGED <<ka, stop, cli, toCli, pool, conn, sent, got, idle>>

ConnStep(c) == read_request(c) \/ write_response(c) \/ eof(c) \/ release(c)
-----------------------------------------------------------------------------
(* The clients.                                                            *)

CanSend(s) == conn[s] = NoConn /\ sent[s] < (IF s \in NetSenders THEN MaxSends ELSE 1)

\* The stream is dropped, with what was on its way to it: the server reads end
\* of file.
Drop(c) ==
    /\ cli' = [cli EXCEPT ![c] = Closed]
    /\ toCli' = [toCli EXCEPT ![c] = <<>>]

\* A new connection, with the request written to it.
connect(s) ==
    /\ CanSend(s)
    /\ s \in NetSenders => pool = NoConn
    /\ Listening
    /\ \E c \in Conns :
           /\ \A d \in Conns : srv[d] = "unused" <=> d >= c
           /\ srv' = [srv EXCEPT ![c] = "backlog"]
           /\ cli' = [cli EXCEPT ![c] = s]
           /\ toSrv' = [toSrv EXCEPT ![c] = <<<<s, sent[s] + 1>>>>]
           /\ conn' = [conn EXCEPT ![s] = c]
    /\ sent' = [sent EXCEPT ![s] = @ + 1]
    /\ got' = [got EXCEPT ![s] = None]
    /\ UNCHANGED <<ka, stop, live, toCli, pool, idle>>

\* No socket to connect to.
connect_fails(s) ==
    /\ CanSend(s)
    /\ s \in NetSenders => pool = NoConn
    /\ ~Listening
    /\ sent' = [sent EXCEPT ![s] = @ + 1]
    /\ got' = [got EXCEPT ![s] = None]
    /\ UNCHANGED <<ka, stop, live, srv, cli, toSrv, toCli, pool, conn, idle>>

\* The pooled connection is taken, without a look at its state.
take_pooled(s) ==
    /\ s \in NetSenders
    /\ CanSend(s)
    /\ pool # NoConn
    /\ pool' = NoConn
    /\ conn' = [conn EXCEPT ![s] = pool]
    /\ cli' = [cli EXCEPT ![pool] = s]
    /\ toSrv' = [toSrv EXCEPT ![pool] = Append(@, <<s, sent[s] + 1>>)]
    /\ sent' = [sent EXCEPT ![s] = @ + 1]
    /\ got' = [got EXCEPT ![s] = None]
    /\ UNCHANGED <<ka, stop, live, srv, toCli, idle>>

\* The answer is read.  The pooled client returns its connection to the pool,
\* in place of one another task returned meanwhile; the CLI is done with it.
receive(s) ==
    /\ conn[s] # NoConn
    /\ LET c == conn[s] IN
           /\ toCli[c] # <<>>
           /\ got' = [got EXCEPT ![s] = Head(toCli[c])]
           /\ IF s \in NetSenders
              THEN /\ pool' = c
                   /\ toCli' = [toCli EXCEPT ![c] = Tail(@)]
                   /\ cli' = [d \in Conns |-> IF d = c THEN Pooled
                                              ELSE IF d = pool THEN Closed ELSE cli[d]]
              ELSE /\ Drop(c)
                   /\ UNCHANGED pool
    /\ conn' = [conn EXCEPT ![s] = NoConn]
    /\ UNCHANGED <<ka, stop, live, srv, toSrv, sent, idle>>

\* The server's end is closed and no answer is left to read.
receive_eof(s) ==
    /\ conn[s] # NoConn
    /\ srv[conn[s]] \in {"ending", Closed}
    /\ toCli[conn[s]] = <<>>
    /\ Drop(conn[s])
    /\ got' = [got EXCEPT ![s] = None]
    /\ conn' = [conn EXCEPT ![s] = NoConn]
    /\ UNCHANGED <<ka, stop, live, srv, toSrv, pool, sent, idle>>

\* A connection that timed out goes back to the pool.
request_timeout_pooling(s) ==
    /\ s \in NetSenders
    /\ conn[s] # NoConn
    /\ pool' = conn[s]
    /\ cli' = [d \in Conns |-> IF d = conn[s] THEN Pooled
                               ELSE IF d = pool THEN Closed ELSE cli[d]]
    /\ got' = [got EXCEPT ![s] = None]
    /\ conn' = [conn EXCEPT ![s] = NoConn]
    /\ UNCHANGED <<ka, stop, live, srv, toSrv, toCli, sent, idle>>

\* request_timeout passes: the stream is dropped, whatever is on it.
request_timeout(s) ==
    /\ s \in NetSenders
    /\ conn[s] # NoConn
    /\ Drop(conn[s])
    /\ got' = [got EXCEPT ![s] = None]
    /\ conn' = [conn EXCEPT ![s] = NoConn]
    /\ UNCHANGED <<ka, stop, live, srv, toSrv, pool, sent, idle>>

SendStep(s) == connect(s) \/ connect_fails(s) \/ take_pooled(s)
ReceiveStep(s) == receive(s) \/ receive_eof(s) \/ request_timeout(s)
ThreadStep == start_server \/ check_stop \/ (\E c \in Conns : accept(c)) \/ poll \/ cleanup
=============================================================================
