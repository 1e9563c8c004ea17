----------------------------- MODULE LiveQueries -----------------------------
(***************************************************************************)
(* A live query over web sockets: the transport of a client                *)
(* (WebSocketTransport), the server's SubscriptionServer with its           *)
(* LocalSubscriptionStore, and ApiGateway.subscribe.                        *)
(*                                                                         *)
(* The client says once on each connection what it subscribes to, and       *)
(* again with every heartbeat.  The server loads the query of a             *)
(* subscription from time to time and sends the result when it differs      *)
(* from the last one.  Results that come while the query's callback is busy *)
(* wait, and the callback takes the one that came last first.  A connection *)
(* may be lost at any moment, without either side being told; the client    *)
(* then opens another one, and what the server was doing for the old one    *)
(* goes on.  The client's token is taken to be good, and checked at once.   *)
(***************************************************************************)
EXTENDS Naturals, SequencesExt

CONSTANTS
    MaxConnections, \* all but the last may be lost
    MaxData,        \* bound on the versions of the result
    MaxFailures,    \* bound on loads that fail
    MaxMessages,    \* bound on what is under way to the client
    MaxPending      \* bound on the results that wait for the callback

ASSUME BoundsAssumption ==
    /\ {MaxConnections, MaxData, MaxMessages, MaxPending} \subseteq Nat \ {0}
    /\ MaxFailures \in Nat

Connections == 1 .. MaxConnections
Versions == 1 .. MaxData
Failed == 0                     \* the result of a load that has failed
Nothing == MaxData + 1          \* no result
Results == Versions \cup {Failed}

\* What processes a subscription: the interval of the server, or a message.
Tasks == {"interval", "message"}

VARIABLES
    data,       \* the version of the result that a load would give now: its rows,
                \* and its lastRefreshTime, which every renewal changes
    wanted,     \* messageIdToSubscription has the query
    queue,      \* messageQueue
    ws,         \* the client's socket: its connection (0: null), and how far it is
    pending,    \* pendingResults of the request
    listening,  \* whether the callback waits for the next result (nextMessage)
    got,        \* the latest version the callback has got (0: none)
    link,       \* whether a connection works
    toServer,
    toClient,
    auth,       \* connections with an authContext
    state,      \* the result of each connection's subscription
    subscribed, \* connections with a subscription
    task,       \* what is being loaded for each connection
    failures

net == <<link, toServer, toClient>>
taken == <<pending, listening, got>>
client == <<wanted, queue, ws, taken>>
server == <<auth, state, subscribed, task>>
vars == <<data, failures, client, net, server>>

NoSocket == [connection |-> 0, ready |-> FALSE, sent |-> FALSE]
Idle == [at |-> "idle", result |-> Nothing]
Loaded(v) == [at |-> "loaded", result |-> v]
Message(type, v) == [type |-> type, result |-> v]

Init ==
    /\ data = 1 /\ failures = 0
    /\ wanted = FALSE /\ queue = <<>> /\ ws = NoSocket
    /\ pending = <<>> /\ listening = FALSE /\ got = 0
    /\ link = [c \in Connections |-> "none"]
    /\ toServer = [c \in Connections |-> <<>>]
    /\ toClient = [c \in Connections |-> <<>>]
    /\ auth = {} /\ subscribed = {}
    /\ state = [c \in Connections |-> Nothing]
    /\ task = [c \in Connections |-> [t \in Tasks |-> Idle]]

(***************************************************************************)
(* The client                                                              *)
(***************************************************************************)
\* What is sent on a link that is lost is lost.
Send(channel, c, messages) ==
    [channel EXCEPT ![c] = IF link[c] = "up" THEN @ \o messages ELSE @]

Room(channel, c) == link[c] = "up" => Len(channel[c]) < MaxMessages

\* Mutant: the subscription does not wait for the handshake.
InitSocketAtOnce ==
    \E c \in Connections :
        /\ link[c] = "none" /\ \A d \in Connections : d < c => link[d] # "none"
        /\ link' = [link EXCEPT ![c] = "up"]
        /\ ws' = [NoSocket EXCEPT !.connection = c, !.sent = TRUE]
        /\ toServer' = [toServer EXCEPT ![c] = <<"authorization", "subscribe">>]

\* initSocket, when the last socket, if any, is null: authorization goes first.
InitSocket ==
    \E c \in Connections :
        /\ link[c] = "none" /\ \A d \in Connections : d < c => link[d] # "none"
        /\ link' = [link EXCEPT ![c] = "up"]
        /\ ws' = [NoSocket EXCEPT !.connection = c]
        /\ toServer' = [toServer EXCEPT ![c] = <<"authorization">>]

\* ws.sendMessage does not send twice what has a messageId.  (The subscription
\* is in the queue once at most.)
ToSend(sent) == IF sent THEN RemoveFirst(queue, "subscribe") ELSE queue

Queued(m) == \E i \in DOMAIN queue : queue[i] = m

\* runNextMessage: of the results that wait the last to come is taken.
TakeNext(results, asked) ==
    IF asked /\ results # <<>>
    THEN /\ got' = IF Last(results) > got THEN Last(results) ELSE got
         /\ pending' = Front(results) /\ listening' = FALSE
    ELSE pending' = results /\ listening' = asked /\ UNCHANGED got

Subscribe ==
    /\ ~ wanted /\ queue = <<>> /\ \A c \in Connections : link[c] = "none"
    /\ wanted' = TRUE
    /\ queue' = <<"subscribe">>
    /\ TakeNext(<<>>, TRUE)
    /\ UNCHANGED <<data, failures, ws, net, server>>

\* The callback is done with a result and asks for the next.
SubscribeNext ==
    /\ wanted /\ ~ listening
    /\ queue' = IF Queued("subscribe") THEN queue ELSE Append(queue, "subscribe")
    /\ TakeNext(pending, TRUE)
    /\ UNCHANGED <<data, failures, wanted, ws, net, server>>

\* The callback takes no more, and what it has got does not matter.
Unsubscribe ==
    /\ wanted
    /\ wanted' = FALSE
    /\ queue' = IF Queued("subscribe") THEN RemoveFirst(queue, "subscribe")
                ELSE Append(queue, "unsubscribe")
    /\ pending' = <<>> /\ listening' = FALSE /\ got' = 0
    /\ UNCHANGED <<data, failures, ws, net, server>>

\* The timer of sendMessage, when the socket is ready or there is none.
SendQueue ==
    /\ queue # <<>>
    /\ \/ /\ ws = NoSocket
          /\ InitSocket
          /\ UNCHANGED <<queue, toClient>>
       \/ /\ ws.ready
          /\ toServer' = Send(toServer, ws.connection, ToSend(ws.sent))
          /\ ws' = [ws EXCEPT !.sent = @ \/ Queued("subscribe")]
          /\ queue' = <<>>
          /\ UNCHANGED <<link, toClient>>
    /\ UNCHANGED <<data, failures, wanted, taken, server>>

\* reconcile, with every handshake and then at intervals.
HeartBeat ==
    /\ ws.ready /\ toServer[ws.connection] = <<>>
    /\ toServer' = Send(toServer, ws.connection, IF wanted THEN <<"subscribe">> ELSE <<>>)
    /\ ws' = [ws EXCEPT !.sent = wanted]
    /\ UNCHANGED <<data, failures, wanted, queue, taken, link, toClient, server>>

\* onmessage: a result goes to the request, a handshake makes the socket ready,
\* and with either the queue is sent.
Receive ==
    /\ ws # NoSocket /\ toClient[ws.connection] # <<>>
    /\ LET c == ws.connection
           m == Head(toClient[c])
           again == m.type = "handshake" /\ wanted
           isResult == m.type = "result" /\ wanted
       IN  /\ isResult /\ ~ listening => Len(pending) < MaxPending
           /\ TakeNext(IF isResult THEN Append(pending, m.result) ELSE pending, listening)
           /\ toClient' = [toClient EXCEPT ![c] = Tail(@)]
           /\ toServer' = Send(toServer, c, (IF again THEN <<"subscribe">> ELSE <<>>)
                                            \o ToSend(ws.sent \/ again))
           /\ ws' = [ws EXCEPT !.ready = TRUE, !.sent = @ \/ again \/ Queued("subscribe")]
           /\ queue' = <<>>
    /\ UNCHANGED <<data, failures, wanted, link, server>>

\* Mutant: a socket that is lost is opened again with the next message only.
CloseOnly ==
    /\ ws # NoSocket /\ link[ws.connection] \in {"lost", "closed"}
    /\ ws' = NoSocket
    /\ toClient' = [toClient EXCEPT ![ws.connection] = <<>>]
    /\ UNCHANGED <<data, failures, wanted, queue, taken, link, toServer, server>>

\* onclose, onerror, or reconcile after four intervals without a message.
Close ==
    /\ ws # NoSocket /\ link[ws.connection] \in {"lost", "closed"}
    /\ IF wanted THEN InitSocket ELSE ws' = NoSocket /\ UNCHANGED <<link, toServer>>
    /\ toClient' = [toClient EXCEPT ![ws.connection] = <<>>]
    /\ UNCHANGED <<data, failures, wanted, queue, taken, server>>

(***************************************************************************)
(* The server                                                              *)
(***************************************************************************)
\* A load gives what the data was when it began, the oldest that it can give.
Load(c, t) ==
    /\ task[c][t] = Idle
    /\ \/ task' = [task EXCEPT ![c][t] = Loaded(data)] /\ UNCHANGED failures
       \/ /\ failures < MaxFailures /\ failures' = failures + 1
          /\ task' = [task EXCEPT ![c][t] = Loaded(Failed)]

Forget(c) ==
    /\ subscribed' = subscribed \ {c}
    /\ state' = [state EXCEPT ![c] = Nothing]

\* processMessage, up to the load.  (checkAuthFn is awaited and may throw: the client
\* then stays on a connection on which it gets "Not authorized".)
Authorize(c) ==
    /\ Head(toServer[c]) = "authorization"
    /\ auth' = auth \cup {c}
    /\ toClient' = Send(toClient, c, <<Message("handshake", Nothing)>>)
    /\ UNCHANGED <<failures, state, subscribed, task>>

HandleUnsubscribe(c) ==
    /\ Head(toServer[c]) = "unsubscribe"
    /\ Forget(c)
    /\ UNCHANGED <<failures, auth, task, toClient>>

HandleSubscribe(c) ==
    /\ Head(toServer[c]) = "subscribe"
    /\ c \in auth
    /\ Load(c, "message")
    /\ UNCHANGED <<auth, state, subscribed, toClient>>

ProcessMessage(c) ==
    /\ toServer[c] # <<>> /\ Room(toClient, c)
    /\ Authorize(c) \/ HandleUnsubscribe(c) \/ HandleSubscribe(c)
    /\ toServer' = [toServer EXCEPT ![c] = Tail(@)]
    /\ UNCHANGED <<data, client, link>>

\* processSubscriptions: one that is not authorized is not loaded.
ProcessSubscription(c) ==
    /\ c \in subscribed \cap auth
    /\ Load(c, "interval")
    /\ UNCHANGED <<data, client, net, auth, state, subscribed>>

\* Mutant: every result is sent.
AnswerAlways(c, t) ==
    /\ task[c][t].at = "loaded" /\ Room(toClient, c)
    /\ toClient' = Send(toClient, c, <<Message("result", task[c][t].result)>>)
    /\ state' = [state EXCEPT ![c] = IF task[c][t].result = Failed THEN Nothing
                                         ELSE task[c][t].result]
    /\ subscribed' = subscribed \cup {c}
    /\ task' = [task EXCEPT ![c][t] = Idle]
    /\ UNCHANGED <<data, failures, client, link, toServer, auth>>

\* Mutant: the error of a load is kept as the result that was sent.
AnswerKeepsError(c, t) ==
    /\ task[c][t].at = "loaded" /\ Room(toClient, c)
    /\ toClient' = Send(toClient, c, <<IF task[c][t].result = state[c] THEN Message("processed", Nothing)
                                     ELSE Message("result", task[c][t].result)>>)
    /\ state' = [state EXCEPT ![c] = task[c][t].result]
    /\ subscribed' = subscribed \cup {c}
    /\ task' = [task EXCEPT ![c][t] = Idle]
    /\ UNCHANGED <<data, failures, client, link, toServer, auth>>

\* The end of subscribe and of processMessage.  The client has been told of the
\* result already, or is told; also when it has unsubscribed or is gone, it has a
\* subscription afterwards.
Answer(c, t) ==
    /\ task[c][t].at = "loaded" /\ Room(toClient, c)
    /\ toClient' = Send(toClient, c, <<IF task[c][t].result = state[c] THEN Message("processed", Nothing)
                                     ELSE Message("result", task[c][t].result)>>)
    /\ state' = [state EXCEPT ![c] = IF task[c][t].result = Failed THEN Nothing
                                         ELSE task[c][t].result]
    /\ subscribed' = subscribed \cup {c}
    /\ task' = [task EXCEPT ![c][t] = Idle]
    /\ UNCHANGED <<data, failures, client, link, toServer, auth>>

\* disconnect.
Disconnect(c) ==
    /\ link[c] = "lost"
    /\ link' = [link EXCEPT ![c] = "closed"]
    /\ toServer' = [toServer EXCEPT ![c] = <<>>]
    /\ auth' = auth \ {c}
    /\ Forget(c)
    /\ UNCHANGED <<data, failures, client, toClient, task>>

\* Mutant: a subscription is there until it is taken back.
NeverExpire(c) == FALSE /\ UNCHANGED vars

\* getAllSubscriptions, when one has not been answered for four intervals.
Expire(c) ==
    /\ c \in subscribed \ auth
    /\ Forget(c)
    /\ UNCHANGED <<data, failures, client, net, auth, task>>

(***************************************************************************)
(* What is outside                                                         *)
(***************************************************************************)
LoseLink(c) ==
    /\ link[c] = "up" /\ c < MaxConnections
    /\ link' = [link EXCEPT ![c] = "lost"]
    /\ UNCHANGED <<data, failures, client, toServer, toClient, server>>

UpdateData ==
    /\ data < MaxData
    /\ data' = data + 1
    /\ UNCHANGED <<failures, client, net, server>>

Serve(c) == ProcessMessage(c) \/ Disconnect(c) \/ Expire(c)

Next ==
    \/ Subscribe \/ SubscribeNext \/ Unsubscribe
    \/ SendQueue \/ HeartBeat \/ Receive \/ Close
    \/ \E c \in Connections :
          \/ Serve(c) \/ ProcessSubscription(c) \/ LoseLink(c)
          \/ \E t \in Tasks : Answer(c, t)
    \/ UpdateData

Spec == Init /\ [][Next]_vars

\* Timers fire, messages arrive, loads end, a lost link is noticed, and the callback
\* returns (loadMethod then subscribes again).
FairSpec ==
    /\ Spec
    /\ WF_vars(SubscribeNext) /\ WF_vars(SendQueue) /\ WF_vars(Receive) /\ WF_vars(Close)
    /\ \A c \in Connections :
          /\ WF_vars(Serve(c))
          /\ WF_vars(ProcessSubscription(c) \/ Answer(c, "interval"))
          /\ WF_vars(Answer(c, "message"))
-----------------------------------------------------------------------------
MessagesOf(m, S) == Len(m) <= MaxMessages + 2 /\ \A i \in DOMAIN m : m[i] \in S

TypeOK ==
    /\ data \in Versions /\ failures \in 0 .. MaxFailures
    /\ wanted \in BOOLEAN
    /\ MessagesOf(queue, {"subscribe", "unsubscribe"})
    /\ ws \in [connection : 0 .. MaxConnections, ready : BOOLEAN, sent : BOOLEAN]
    /\ pending \in Seq(Results) /\ Len(pending) <= MaxPending
    /\ listening \in BOOLEAN
    /\ got \in 0 .. MaxData
    /\ link \in [Connections -> {"none", "up", "lost", "closed"}]
    /\ \A c \in Connections :
          /\ MessagesOf(toServer[c], {"authorization", "subscribe", "unsubscribe"})
          /\ MessagesOf(toClient[c], [type : {"handshake", "processed", "result"},
                                     result : Results \cup {Nothing}])
    /\ auth \subseteq Connections /\ subscribed \subseteq Connections
    /\ state \in [Connections -> Versions \cup {Nothing}]
    /\ task \in [Connections -> [Tasks -> {Idle} \cup {Loaded(v) : v \in Results}]]

\* The server is not asked for anything on a connection it has not authorized,
\* whenever connections are lost and opened and timers of old ones fire.
AuthorizedFirst ==
    \A c \in Connections :
        (\E i \in DOMAIN toServer[c] : toServer[c][i] # "authorization") => c \in auth

\* Once the result stays as it is, the query's callback gets it in the end, though
\* loads fail, connections are lost and results wait.  (Results that have waited
\* longer may follow it: those that came last are taken first.)
LatestArrives == <>[]wanted => <>[](got = data)

\* ... and the server sends it no more, although it keeps loading it.  (Where each
\* renewal gives a result of a new lastRefreshTime it goes on sending.)
Settles == <>[](\A c \in Connections : \A i \in DOMAIN toClient[c] : toClient[c][i].type # "result")

\* In the end the server has no subscription for a connection that is gone.
DeadAreForgotten == <>[](\A c \in subscribed : link[c] = "up")
=============================================================================
