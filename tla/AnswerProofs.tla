------------------------------ MODULE AnswerProofs -----------------------------
(***************************************************************************)
(* That a requester is answered once, for any number of requests, pages    *)
(* and failures.  An approval that has not been answered is in one place   *)
(* at a time: with its handler, in a channel, on its way into the map, in  *)
(* the map, or in the hands of one page.                                   *)
(***************************************************************************)
EXTENDS ApprovalProofs

Elems(q) == {q[i] : i \in 1..Len(q)}
Distinct(q) == \A i, j \in 1..Len(q) : q[i] = q[j] => i = j

\* Page p has taken r out of the map and has yet to answer it.
Answering(p, r) == page[p].step = "taken" /\ page[p].id = r /\ page[p].waiter = "live"

\* The places an approval passes through, ending with its answer.
Stops ==
    {<<s, None>> : s \in {"handler", "wc", "rpc", "inbox", "inserting", "map", "answered"}}
        \cup {<<"page", p>> : p \in Pages}

\* The approvals at a place.
At(x) ==
    {r \in Ids :
        \/ x[1] = "handler" /\ pc[r] \in {"new", "send"}
        \/ x[1] \in Servers /\ r \in Elems(chan[x[1]])
        \/ x[1] = "inbox" /\ r \in Elems(inbox)
        \/ x[1] = "inserting" /\ inserting = r
        \/ x[1] = "map" /\ queue[r] = "live"
        \/ x[1] = "page" /\ Answering(x[2], r)
        \/ x[1] = "answered" /\ answer[r] # "none"}

Apart == \A x, y \in Stops : x # y => At(x) \cap At(y) = {}

ChannelsOK ==
    /\ chan \in [Servers -> Seq(Ids)]
    /\ \A s \in Servers : Distinct(chan[s])
    /\ inbox \in Seq(Ids) /\ Distinct(inbox)
    /\ inserting \in Ids \cup {None}

\* The inductive invariant.
OnePlace == ApprovedOnTheWay /\ ChannelsOK /\ Apart
-----------------------------------------------------------------------------
(* Channels.                                                               *)

\* What a send leaves in a channel.
LEMMA AppendElems ==
    ASSUME NEW q \in Seq(Ids), Distinct(q), NEW r \in Ids, r \notin Elems(q)
    PROVE  /\ Append(q, r) \in Seq(Ids)
           /\ Distinct(Append(q, r))
           /\ Elems(Append(q, r)) = Elems(q) \cup {r}
<1> DEFINE a == Append(q, r)
<1>1. /\ a \in Seq(Ids)
      /\ Len(q) \in Nat
      /\ Len(a) = Len(q) + 1
      /\ \A i \in 1..Len(q) : a[i] = q[i]
      /\ a[Len(q) + 1] = r
  OBVIOUS
<1> HIDE DEF a
<1>2. \A i \in 1..Len(q) : q[i] # r
  BY DEF Elems
<1>3. Distinct(a)
  BY <1>1, <1>2 DEF Distinct
<1>4. Elems(a) = Elems(q) \cup {r}
  BY <1>1 DEF Elems
<1> QED BY <1>1, <1>3, <1>4 DEF a

\* What a receive leaves in it.
LEMMA TailElems ==
    ASSUME NEW q \in Seq(Ids), Distinct(q), q # <<>>
    PROVE  /\ Head(q) \in Ids
           /\ Head(q) \in Elems(q)
           /\ Tail(q) \in Seq(Ids)
           /\ Distinct(Tail(q))
           /\ Elems(Tail(q)) \subseteq Elems(q) \ {Head(q)}
<1> DEFINE t == Tail(q)
<1>1. /\ Len(q) \in Nat \ {0}
      /\ Head(q) = q[1]
      /\ q[1] \in Ids
      /\ t \in Seq(Ids)
      /\ Len(t) = Len(q) - 1
      /\ \A i \in 1..Len(t) : t[i] = q[i + 1]
  OBVIOUS
<1> HIDE DEF t
<1>2. Head(q) \in Elems(q)
  BY <1>1 DEF Elems
<1>3. Distinct(t)
  BY <1>1 DEF Distinct
<1>4. ASSUME NEW i \in 1..Len(t) PROVE t[i] \in Elems(q) /\ t[i] # Head(q)
  BY <1>1, <1>4 DEF Elems, Distinct
<1>5. Elems(t) \subseteq Elems(q) \ {Head(q)}
  BY <1>4 DEF Elems
<1> QED BY <1>1, <1>2, <1>3, <1>5 DEF t
-----------------------------------------------------------------------------
(* Moving.                                                                 *)

\* A step that takes r from one place to another keeps the places apart.
LEMMA MoveKeepsApart ==
    ASSUME Apart, NEW r, NEW a \in Stops, NEW b \in Stops, a # b, r \in At(a),
           At(a)' \subseteq At(a) \ {r},
           At(b)' \subseteq At(b) \cup {r},
           \A x \in Stops \ {a, b} : At(x)' \subseteq At(x)
    PROVE  Apart'
<1>1. \A x \in Stops : x # a => r \notin At(x)
  BY DEF Apart
<1>2. ASSUME NEW x \in Stops, NEW y \in Stops, x # y PROVE At(x)' \cap At(y)' = {}
  <2>1. At(x) \cap At(y) = {}
    BY <1>2 DEF Apart
  <2>2. \A z \in Stops : z # b => At(z)' \subseteq At(z) \ {r}
    BY <1>1
  <2> QED BY <1>2, <2>1, <2>2
<1>3. Stops' = Stops
  BY DEF Stops
<1> QED BY <1>2, <1>3 DEF Apart

\* So does one that only empties places.
LEMMA LossKeepsApart ==
    ASSUME Apart, \A x \in Stops : At(x)' \subseteq At(x)
    PROVE  Apart'
<1>1. Stops' = Stops
  BY DEF Stops
<1> QED BY <1>1 DEF Apart

\* The place that is a server's channel.
LEMMA AtServer ==
    ASSUME NEW s \in Servers
    PROVE  /\ At(<<s, None>>) = {r \in Ids : r \in Elems(chan[s])}
           /\ At(<<s, None>>)' = {r \in Ids : r \in Elems(chan'[s])}
<1>1. s # "handler" /\ s \notin {"inbox", "inserting", "map", "page", "answered"}
  BY DEF Servers
<1>2. At(<<s, None>>) = {r \in Ids : r \in Elems(chan[s])}
  BY <1>1 DEF At
<1>3. At(<<s, None>>)' = {r \in Ids : r \in Elems(chan'[s])}
  BY <1>1 DEF At, Elems, Servers
<1> QED BY <1>2, <1>3
-----------------------------------------------------------------------------
(* The steps.                                                              *)

\* Handlers that start, end or go on, pages that are done, and time.
LEMMA QuietKeepsPlace ==
    ASSUME OnePlace,
           UNCHANGED <<chan, inbox, inserting, queue, answer>>,
           \A r \in Ids : pc'[r] \in {"new", "send"} => pc[r] \in {"new", "send"},
           \A p \in Pages, r \in Ids : Answering(p, r)' => Answering(p, r)
    PROVE  ChannelsOK' /\ Apart'
<1>1. ChannelsOK'
  BY DEF OnePlace, ChannelsOK, Distinct
<1>2. ASSUME NEW x \in Stops PROVE At(x)' \subseteq At(x)
  <2>1. x[1] = "page" => x[2] \in Pages
    BY DEF Stops
  <2> QED BY <2>1 DEF At, Elems
<1> QED BY <1>1, <1>2, LossKeepsApart DEF OnePlace

\* A restart empties every place but the handlers' and the answers.
LEMMA RestartKeepsPlace == ASSUME OnePlace, Restart PROVE ChannelsOK' /\ Apart'
<1>1. /\ chan' = [s \in Servers |-> <<>>]
      /\ inbox' = <<>>
      /\ inserting' = None
      /\ page' = [p \in Pages |-> Idle]
      /\ answer' = answer
  BY DEF Restart, replay_orphans
<1>2. \A r \in Ids : pc'[r] \in {"new", "send"} => pc[r] \in {"new", "send"}
  BY DEF Restart, Ended
<1>3. \A r \in Ids : queue'[r] # "live"
  <2>1. \/ queue' = [r \in Ids |-> IF r \in replay_unresolved(log) THEN "orphan" ELSE "absent"]
        \/ queue' = [r \in Ids |-> "absent"]
    BY DEF Restart, replay_orphans
  <2> QED BY <2>1
<1>4. ChannelsOK'
  BY <1>1 DEF ChannelsOK, Distinct
<1>5. Elems(<<>>) = {}
  BY DEF Elems
<1>6. ASSUME NEW x \in Stops PROVE At(x)' \subseteq At(x)
  <2>1. x[1] = "page" => x[2] \in Pages
    BY DEF Stops
  <2>2. \A p \in Pages, r \in Ids : ~Answering(p, r)'
    BY <1>1 DEF Answering, Idle
  <2>3. \A s \in Servers : Elems(chan[s])' = {}
    BY <1>1, <1>5 DEF Elems
  <2>4. Elems(inbox)' = {}
    BY <1>1 DEF Elems
  <2>5. \A r \in Ids : inserting' # r
    BY <1>1, QueueAssumption
  <2> QED BY <1>1, <1>2, <1>3, <2>1, <2>2, <2>3, <2>4, <2>5 DEF At
<1> QED BY <1>4, <1>6, LossKeepsApart DEF OnePlace

\* ApprovalChannel::request moves an approval from its handler to a channel.
LEMMA RequestKeepsPlace ==
    ASSUME OnePlace, NEW r \in Ids, request(r) PROVE ChannelsOK' /\ Apart'
<1>2. PICK s \in Servers : s = req[r].via
  BY DEF OnePlace, ApprovedOnTheWay
<1> DEFINE a == <<"handler", None>>
           b == <<s, None>>
<1>1. /\ pc[r] = "send"
      /\ chan' = [chan EXCEPT ![s] = Append(@, r)]
      /\ pc' = [pc EXCEPT ![r] = "wait"]
      /\ UNCHANGED <<inbox, inserting, queue, answer, page>>
  BY <1>2 DEF request, queueVars
<1>3. a \in Stops /\ b \in Stops /\ a # b
  BY <1>2 DEF Stops, Servers
<1>4. r \in At(a)
  BY <1>1 DEF At
<1>5. r \notin Elems(chan[s])
  <2>1. r \notin At(b)
    BY <1>3, <1>4 DEF OnePlace, Apart
  <2> QED BY <1>2, <2>1 DEF At
<1>6. /\ chan'[s] \in Seq(Ids) /\ Distinct(chan'[s]) /\ Elems(chan'[s]) = Elems(chan[s]) \cup {r}
      /\ \A t \in Servers \ {s} : chan'[t] = chan[t]
      /\ chan' \in [Servers -> Seq(Ids)]
  BY <1>1, <1>2, <1>5, AppendElems DEF OnePlace, ChannelsOK
<1>7. ChannelsOK'
  BY <1>1, <1>6 DEF OnePlace, ChannelsOK, Distinct
<1>8. \A i \in Ids : pc'[i] \in {"new", "send"} => pc[i] \in {"new", "send"} /\ i # r
  BY <1>1 DEF OnePlace, ApprovedOnTheWay
<1>9. At(a)' \subseteq At(a) \ {r}
  BY <1>8 DEF At, Servers
<1>10. At(b)' \subseteq At(b) \cup {r}
  BY <1>6, AtServer
<1>11. ASSUME NEW x \in Stops \ {a, b} PROVE At(x)' \subseteq At(x)
  <2>1. x[1] # s /\ x[1] # "handler"
    BY <1>2, <1>11 DEF Stops, Servers
  <2> QED BY <1>1, <1>6, <2>1 DEF At, Elems, Answering
<1> QED BY <1>3, <1>4, <1>7, <1>9, <1>10, <1>11, MoveKeepsApart DEF OnePlace

\* The bridge moves one from its channel to the inbox.
LEMMA BridgeKeepsPlace ==
    ASSUME OnePlace, NEW s \in Servers, Bridge(s) PROVE ChannelsOK' /\ Apart'
<1>1. /\ chan[s] # <<>>
      /\ inbox' = Append(inbox, Head(chan[s]))
      /\ chan' = [chan EXCEPT ![s] = Tail(@)]
      /\ UNCHANGED <<pc, inserting, queue, answer, page>>
  BY DEF Bridge, queueVars
<1>2. PICK r \in Ids : r = Head(chan[s])
  BY <1>1, TailElems DEF OnePlace, ChannelsOK
<1> DEFINE a == <<s, None>>
           b == <<"inbox", None>>
<1>3. a \in Stops /\ b \in Stops /\ a # b
  BY DEF Stops, Servers
<1>4. /\ r \in Elems(chan[s])
      /\ chan'[s] \in Seq(Ids) /\ Distinct(chan'[s]) /\ Elems(chan'[s]) \subseteq Elems(chan[s]) \ {r}
      /\ \A t \in Servers \ {s} : chan'[t] = chan[t]
      /\ chan' \in [Servers -> Seq(Ids)]
  BY <1>1, <1>2, TailElems DEF OnePlace, ChannelsOK
<1>5. r \in At(a)
  BY <1>4 DEF At
<1>6. r \notin Elems(inbox)
  <2>1. r \notin At(b)
    BY <1>3, <1>5 DEF OnePlace, Apart
  <2> QED BY <2>1 DEF At
<1>7. inbox' \in Seq(Ids) /\ Distinct(inbox') /\ Elems(inbox') = Elems(inbox) \cup {r}
  BY <1>1, <1>2, <1>6, AppendElems DEF OnePlace, ChannelsOK
<1>8. ChannelsOK'
  BY <1>1, <1>4, <1>7 DEF OnePlace, ChannelsOK, Distinct
<1>9. At(a)' \subseteq At(a) \ {r}
  BY <1>4, AtServer
<1>10. At(b)' \subseteq At(b) \cup {r}
  BY <1>7 DEF At, Servers, Elems
<1>11. ASSUME NEW x \in Stops \ {a, b} PROVE At(x)' \subseteq At(x)
  <2>1. x[1] # s /\ x[1] # "inbox"
    BY <1>11 DEF Stops, Servers
  <2> QED BY <1>1, <1>4, <2>1 DEF At, Elems, Answering
<1> QED BY <1>3, <1>5, <1>8, <1>9, <1>10, <1>11, MoveKeepsApart DEF OnePlace

\* The receiver takes one from the inbox and begins to insert it.
LEMMA ReceiveKeepsPlace == ASSUME OnePlace, Receive PROVE ChannelsOK' /\ Apart'
<1>1. /\ inbox # <<>>
      /\ inserting' = Head(inbox)
      /\ inbox' = Tail(inbox)
      /\ UNCHANGED <<pc, chan, queue, answer, page>>
  BY DEF Receive, InsertLogged
<1>2. PICK r \in Ids : r = Head(inbox)
  BY <1>1, TailElems DEF OnePlace, ChannelsOK
<1> DEFINE a == <<"inbox", None>>
           b == <<"inserting", None>>
<1>3. a \in Stops /\ b \in Stops /\ a # b
  BY DEF Stops
<1>4. /\ r \in Elems(inbox)
      /\ inbox' \in Seq(Ids) /\ Distinct(inbox') /\ Elems(inbox') \subseteq Elems(inbox) \ {r}
  BY <1>1, <1>2, TailElems DEF OnePlace, ChannelsOK
<1>5. r \in At(a)
  BY <1>4 DEF At
<1>6. ChannelsOK'
  BY <1>1, <1>2, <1>4 DEF OnePlace, ChannelsOK, Distinct
<1>7. At(a)' \subseteq At(a) \ {r}
  BY <1>4 DEF At, Servers, Elems
<1>8. At(b)' \subseteq At(b) \cup {r}
  BY <1>1, <1>2 DEF At, Servers
<1>9. ASSUME NEW x \in Stops \ {a, b} PROVE At(x)' \subseteq At(x)
  <2>1. x[1] # "inbox" /\ x[1] # "inserting"
    BY <1>9 DEF Stops, Servers
  <2> QED BY <1>1, <2>1 DEF At, Elems, Answering
<1> QED BY <1>3, <1>5, <1>6, <1>7, <1>8, <1>9, MoveKeepsApart DEF OnePlace

\* insert puts it in the map.
LEMMA InsertedKeepsPlace ==
    ASSUME OnePlace, inserting \in Ids, Inserted, UNCHANGED routerVars
    PROVE  ChannelsOK' /\ Apart'
<1>1. PICK r \in Ids : r = inserting
  OBVIOUS
<1>2. /\ queue' = [queue EXCEPT ![r] = "live"]
      /\ inserting' = None
      /\ UNCHANGED <<pc, chan, inbox, answer, page>>
  BY <1>1 DEF Inserted, routerVars
<1> DEFINE a == <<"inserting", None>>
           b == <<"map", None>>
<1>3. a \in Stops /\ b \in Stops /\ a # b
  BY DEF Stops
<1>4. r \in At(a)
  BY <1>1 DEF At
<1>5. ChannelsOK'
  BY <1>2 DEF OnePlace, ChannelsOK, Distinct
<1>6. At(a)' \subseteq At(a) \ {r}
  BY <1>2, QueueAssumption DEF At, Servers
<1>7. At(b)' \subseteq At(b) \cup {r}
  BY <1>2 DEF At, Servers, OnePlace, ApprovedOnTheWay
<1>8. ASSUME NEW x \in Stops \ {a, b} PROVE At(x)' \subseteq At(x)
  <2>1. x[1] # "map" /\ x[1] # "inserting"
    BY <1>8 DEF Stops, Servers
  <2> QED BY <1>2, <2>1 DEF At, Elems, Answering
<1> QED BY <1>3, <1>4, <1>5, <1>6, <1>7, <1>8, MoveKeepsApart DEF OnePlace

\* resolve takes it out of the map, into the hands of one page; an orphan is
\* nobody's to answer.
LEMMA ResolveKeepsPlace ==
    ASSUME OnePlace, UNCHANGED routerVars,
           NEW p \in Pages, NEW r \in Ids, NEW d \in Decisions, resolve(p, r, d)
    PROVE  ChannelsOK' /\ Apart'
<1>1. /\ page[p].step = "idle"
      /\ queue' = [queue EXCEPT ![r] = "absent"]
      /\ page' = [page EXCEPT ![p] = [step |-> "taken", id |-> r, decision |-> d, waiter |-> queue[r]]]
      /\ UNCHANGED <<pc, chan, inbox, answer, inserting>>
  BY DEF resolve, routerVars
<1>2. ChannelsOK'
  BY <1>1 DEF OnePlace, ChannelsOK, Distinct
<1>3. page \in [Pages -> PageStates] /\ queue \in [Ids -> {"absent", "live", "orphan"}]
  BY DEF OnePlace, ApprovedOnTheWay
<1>4. \A i \in Ids : queue'[i] = "live" => queue[i] = "live" /\ i # r
  BY <1>1, <1>3
<1>5. \A q \in Pages \ {p} : page'[q] = page[q]
  BY <1>1, <1>3
<1>6. \A i \in Ids : Answering(p, i)' => i = r /\ queue[r] = "live"
  BY <1>1, <1>3 DEF Answering
<1> DEFINE a == <<"map", None>>
           b == <<"page", p>>
<1>7. a \in Stops /\ b \in Stops /\ a # b
  BY DEF Stops
<1>8. At(a)' \subseteq At(a) \ {r}
  BY <1>4 DEF At, Servers
<1>9. At(b)' \subseteq {i \in Ids : i = r /\ queue[r] = "live"}
  BY <1>6 DEF At, Servers
<1>10. ASSUME NEW x \in Stops \ {a, b} PROVE At(x)' \subseteq At(x)
  <2>1. x[1] # "map" /\ (x[1] = "page" => x[2] \in Pages \ {p})
    BY <1>10 DEF Stops, Servers
  <2>2. \A q \in Pages \ {p}, i \in Ids : Answering(q, i)' => Answering(q, i)
    BY <1>5 DEF Answering
  <2> QED BY <1>1, <2>1, <2>2 DEF At, Elems
<1>11. CASE queue[r] = "live"
  <2>1. r \in At(a)
    BY <1>11 DEF At
  <2>2. At(b)' \subseteq At(b) \cup {r}
    BY <1>9
  <2> QED BY <1>2, <1>7, <1>8, <1>10, <2>1, <2>2, MoveKeepsApart DEF OnePlace
<1>12. CASE queue[r] # "live"
  <2>1. \A x \in Stops : At(x)' \subseteq At(x)
    BY <1>8, <1>9, <1>10, <1>12
  <2> QED BY <1>2, <2>1, LossKeepsApart DEF OnePlace
<1> QED BY <1>11, <1>12

\* The page answers.
LEMMA SendKeepsPlace ==
    ASSUME OnePlace, UNCHANGED routerVars, NEW p \in Pages, Send(p)
    PROVE  ChannelsOK' /\ Apart'
<1>1. page \in [Pages -> PageStates] /\ answer \in [Ids -> {"none"} \cup Answers]
  BY DEF OnePlace, ApprovedOnTheWay
<1>2. page[p].id \in Ids
  BY <1>1 DEF Send, PageStates, Idle
<1>3. PICK r \in Ids : r = page[p].id
  BY <1>2
<1>4. /\ page[p].step = "taken"
      /\ page' = [page EXCEPT ![p] = [page[p] EXCEPT !.step = "sent", !.decision = Decided(p)]]
      /\ answer' = IF page[p].waiter = "live" THEN [answer EXCEPT ![r] = Decided(p)] ELSE answer
      /\ UNCHANGED <<pc, chan, inbox, queue, inserting>>
  BY <1>3 DEF Send, routerVars
<1>5. ChannelsOK'
  BY <1>4 DEF OnePlace, ChannelsOK, Distinct
<1>6. \A q \in Pages \ {p} : page'[q] = page[q]
  BY <1>1, <1>4
<1>7. \A i \in Ids : ~Answering(p, i)'
  <2>1. page'[p].step = "sent"
    BY <1>1, <1>4 DEF PageStates, Idle
  <2> QED BY <2>1 DEF Answering
<1> DEFINE a == <<"page", p>>
           b == <<"answered", None>>
<1>8. a \in Stops /\ b \in Stops /\ a # b
  BY DEF Stops
<1>9. At(a)' = {}
  BY <1>7 DEF At, Servers
<1>10. \A i \in Ids : answer'[i] # "none" => answer[i] # "none" \/ (i = r /\ page[p].waiter = "live")
  BY <1>1, <1>4
<1>11. At(b)' \subseteq At(b) \cup {i \in {r} : page[p].waiter = "live"}
  BY <1>10 DEF At, Servers
<1>12. ASSUME NEW x \in Stops \ {a, b} PROVE At(x)' \subseteq At(x)
  <2>1. x[1] # "answered" /\ (x[1] = "page" => x[2] \in Pages \ {p})
    BY <1>12 DEF Stops, Servers
  <2>2. \A q \in Pages \ {p}, i \in Ids : Answering(q, i)' => Answering(q, i)
    BY <1>6 DEF Answering
  <2> QED BY <1>4, <2>1, <2>2 DEF At, Elems
<1>13. CASE page[p].waiter = "live"
  <2>1. r \in At(a)
    BY <1>3, <1>4, <1>13 DEF At, Answering
  <2> QED BY <1>5, <1>8, <1>9, <1>11, <1>12, <2>1, MoveKeepsApart DEF OnePlace
<1>14. CASE page[p].waiter # "live"
  <2>1. \A x \in Stops : At(x)' \subseteq At(x)
    BY <1>9, <1>11, <1>12, <1>14
  <2> QED BY <1>5, <2>1, LossKeepsApart DEF OnePlace
<1> QED BY <1>13, <1>14
-----------------------------------------------------------------------------
(* The theorem.                                                            *)

\* At first every request is with its handler.
LEMMA PlaceInit == Init => OnePlace
<1> SUFFICES ASSUME Init PROVE OnePlace
  OBVIOUS
<1>1. ApprovedOnTheWay
  BY ApprovalInit
<1>2. /\ chan = [s \in Servers |-> <<>>]
      /\ inbox = <<>>
      /\ inserting = None
      /\ page = [p \in Pages |-> Idle]
      /\ answer = [r \in Ids |-> "none"]
      /\ queue = [r \in Ids |-> "absent"]
  BY DEF Init, QueueInit
<1>3. ChannelsOK
  BY <1>2 DEF ChannelsOK, Distinct
<1>4. \A x \in Stops : x[1] # "handler" => At(x) = {}
  <2>1. \A p \in Pages, r \in Ids : ~Answering(p, r)
    BY <1>2 DEF Answering, Idle
  <2>2. \A s \in Servers : Elems(chan[s]) = {}
    BY <1>2 DEF Elems
  <2>3. Elems(inbox) = {} /\ None \notin Ids
    BY <1>2, QueueAssumption DEF Elems
  <2>4. \A x \in Stops : x[1] = "page" => x[2] \in Pages
    BY DEF Stops
  <2> QED BY <1>2, <2>1, <2>2, <2>3, <2>4 DEF At
<1>5. \A x, y \in Stops : x # y => x[1] # "handler" \/ y[1] # "handler"
  BY DEF Stops
<1>6. Apart
  BY <1>4, <1>5 DEF Apart
<1> QED BY <1>1, <1>3, <1>6 DEF OnePlace

\* A handler runs, or its client goes.
LEMMA HandlerKeepsPlace ==
    ASSUME OnePlace, NEW r \in Ids, Handle(r) \/ Proceed(r) \/ Disconnect(r)
    PROVE  ChannelsOK' /\ Apart'
<1>1. CASE request(r)
  BY <1>1, RequestKeepsPlace
<1>2. CASE ~request(r)
  <2>1. UNCHANGED <<chan, inbox, inserting, queue, answer, page>>
    BY <1>2 DEF Handle, sign_transaction, solana_signMessage, personal_sign, onecipher_signAuth,
         solana_signIn, wc_authRequest, eth_signTypedData, onecipher_signUserOp,
         onecipher_intentExecute, handle, Proceed, Wake, forward, intent_execute, Query,
         Disconnect, queueVars
  <2>2. PICK l : pc' = [pc EXCEPT ![r] = l] /\ (l \in {"new", "send"} => pc[r] = "new")
    BY <1>2 DEF Handle, sign_transaction, solana_signMessage, personal_sign, onecipher_signAuth,
         solana_signIn, wc_authRequest, eth_signTypedData, onecipher_signUserOp,
         onecipher_intentExecute, handle, Proceed, Wake, forward, intent_execute, Query,
         Disconnect, Answered, End
  <2>3. \A i \in Ids : pc'[i] \in {"new", "send"} => pc[i] \in {"new", "send"}
    BY <2>2 DEF OnePlace, ApprovedOnTheWay
  <2>4. \A p \in Pages, i \in Ids : Answering(p, i)' => Answering(p, i)
    BY <2>1 DEF Answering
  <2> QED BY <2>1, <2>3, <2>4, QuietKeepsPlace
<1> QED BY <1>1, <1>2

\* The queue and its pages run.
LEMMA QueueKeepsPlace == ASSUME OnePlace, QueueStep PROVE ChannelsOK' /\ Apart'
<1>1. UNCHANGED routerVars
  BY DEF QueueStep
<1>2. CASE Inserted
  <2>1. inserting \in Ids
    BY <1>2 DEF Inserted, OnePlace, ChannelsOK
  <2> QED BY <1>1, <1>2, <2>1, InsertedKeepsPlace
<1>3. CASE \E p \in Pages : Send(p)
  BY <1>1, <1>3, SendKeepsPlace
<1>4. CASE \E p \in Pages, r \in Ids, d \in Decisions : resolve(p, r, d)
  BY <1>1, <1>4, ResolveKeepsPlace
<1>5. CASE \E p \in Pages : record_resolution(p)
  <2>1. PICK p \in Pages : record_resolution(p)
    BY <1>5
  <2>2. UNCHANGED <<pc, chan, inbox, inserting, queue, answer>>
    BY <1>1, <2>1 DEF record_resolution, routerVars
  <2>3. page' = [page EXCEPT ![p] = Idle]
    BY <2>1 DEF record_resolution
  <2>4. \A q \in Pages, i \in Ids : Answering(q, i)' => Answering(q, i)
    BY <2>3 DEF Answering, Idle, OnePlace, ApprovedOnTheWay
  <2> QED BY <2>2, <2>4, QuietKeepsPlace
<1> QED BY <1>2, <1>3, <1>4, <1>5 DEF QueueStep

\* Every step keeps every approval in one place.
LEMMA PlaceStep == OnePlace /\ [Next]_vars => OnePlace'
<1> SUFFICES ASSUME OnePlace, [Next]_vars PROVE OnePlace'
  OBVIOUS
<1>1. ApprovedOnTheWay'
  BY ApprovalStep DEF OnePlace
<1>2. CASE \E r \in Ids : Handle(r) \/ Proceed(r) \/ Disconnect(r)
  BY <1>1, <1>2, HandlerKeepsPlace DEF OnePlace
<1>3. CASE \E s \in Servers : Bridge(s)
  BY <1>1, <1>3, BridgeKeepsPlace DEF OnePlace
<1>4. CASE Receive
  BY <1>1, <1>4, ReceiveKeepsPlace DEF OnePlace
<1>5. CASE QueueStep
  BY <1>1, <1>5, QueueKeepsPlace DEF OnePlace
<1>6. CASE Restart
  BY <1>1, <1>6, RestartKeepsPlace DEF OnePlace
<1>7. CASE Tick \/ UNCHANGED vars
  <2>1. UNCHANGED <<pc, chan, inbox, inserting, queue, answer, page>>
    BY <1>7 DEF Tick, vars, queueVars, routerVars
  <2>2. \A p \in Pages, i \in Ids : Answering(p, i)' => Answering(p, i)
    BY <2>1 DEF Answering
  <2> QED BY <1>1, <2>1, <2>2, QuietKeepsPlace DEF OnePlace
<1> QED BY <1>2, <1>3, <1>4, <1>5, <1>6, <1>7 DEF Next

\* Only the page that holds a request answers it, and then it was not answered.
LEMMA AnswerStep ==
    OnePlace /\ [Next]_vars => [\A r \in Ids : answer[r] # "none" => answer'[r] = answer[r]]_answer
<1> SUFFICES ASSUME OnePlace, Next, answer' # answer, NEW r \in Ids, answer[r] # "none"
             PROVE  answer'[r] = answer[r]
  BY DEF vars, queueVars, routerVars
<1>1. PICK p \in Pages : Send(p)
  <2>1. CASE \E i \in Ids : Handle(i) \/ Proceed(i) \/ Disconnect(i)
    BY <2>1 DEF Handle, sign_transaction, solana_signMessage, personal_sign, onecipher_signAuth,
         solana_signIn, wc_authRequest, eth_signTypedData, onecipher_signUserOp,
         onecipher_intentExecute, handle, Proceed, request, Wake, forward, intent_execute, Query,
         Disconnect, queueVars
  <2>2. CASE QueueStep
    BY <2>2 DEF QueueStep, Inserted, resolve, record_resolution
  <2>3. CASE Tick \/ Restart \/ Receive \/ \E s \in Servers : Bridge(s)
    BY <2>3 DEF Tick, Restart, replay_orphans, Receive, InsertLogged, Bridge, queueVars
  <2> QED BY <2>1, <2>2, <2>3 DEF Next
<1>2. CASE page[p].waiter = "live" /\ page[p].id = r
  <2>1. r \in At(<<"page", p>>)
    BY <1>1, <1>2 DEF At, Answering, Send
  <2>2. r \in At(<<"answered", None>>)
    BY DEF At
  <2>3. <<"page", p>> \in Stops /\ <<"answered", None>> \in Stops
        /\ <<"page", p>> # <<"answered", None>>
    BY DEF Stops
  <2> QED BY <2>1, <2>2, <2>3 DEF OnePlace, Apart
<1>3. CASE ~(page[p].waiter = "live" /\ page[p].id = r)
  BY <1>1, <1>3 DEF Send, OnePlace, ApprovedOnTheWay
<1> QED BY <1>2, <1>3

\* A requester is answered once (ApprovalQueue::resolve): no second page, late
\* click or restart changes an answer that was given, since an approval leaves
\* the map with the one page that is going to answer it.
THEOREM AnswersAreFinal == Spec => AnsweredOnce
<1>1. Init => OnePlace
  BY PlaceInit
<1>2. OnePlace /\ [Next]_vars => OnePlace'
  BY PlaceStep
<1>3. OnePlace /\ [Next]_vars =>
        [\A r \in Ids : answer[r] # "none" => answer'[r] = answer[r]]_answer
  BY AnswerStep
<1> QED BY <1>1, <1>2, <1>3, PTL DEF Spec, AnsweredOnce
=============================================================================
