-------------------------- MODULE LiveQueriesProofs --------------------------
(***************************************************************************)
(* AuthorizedFirst and TypeOK of LiveQueries, for every number of          *)
(* connections, versions of the data, failures and messages.               *)
(***************************************************************************)
EXTENDS LiveQueries, TLAPS

Domains ==
    /\ DOMAIN link = Connections /\ DOMAIN task = Connections
    /\ DOMAIN toServer = Connections /\ DOMAIN toClient = Connections

\* The client's socket, if it has one, is a connection that was opened.
SocketIsOpened ==
    \/ ws = NoSocket
    \/ ws.connection \in Connections /\ link[ws.connection] # "none"

\* What a connection does not do before the server has authorized it.
UnknownIsSilent(c) ==
    /\ toServer[c] \in {<<>>, <<"authorization">>}
    /\ link[c] \in {"none", "up"} => toClient[c] = <<>> /\ \A t \in Tasks : task[c][t] = Idle

UnopenedIsEmpty(c) == c \notin auth /\ toServer[c] = <<>>

AuthInv ==
    /\ Domains /\ SocketIsOpened
    /\ \A c \in Connections \ auth : UnknownIsSilent(c)
    /\ \A c \in Connections : link[c] = "none" => UnopenedIsEmpty(c)
    /\ ws.ready /\ link[ws.connection] = "up" => ws.connection \in auth

LEMMA InitAuthInv == Init => AuthInv
BY DEF Init, AuthInv, Domains, SocketIsOpened, UnknownIsSilent, UnopenedIsEmpty, NoSocket

\* What is sent changes one channel, of a connection that works.
LEMMA SendChannel ==
    ASSUME NEW channel, DOMAIN channel = Connections, NEW c \in Connections, NEW m
    PROVE  /\ DOMAIN Send(channel, c, m) = Connections
           /\ \A d \in Connections :
                d # c \/ link[c] # "up" => Send(channel, c, m)[d] = channel[d]
BY DEF Send

LEMMA InitSocketKeepsInv ==
    ASSUME AuthInv, InitSocket,
           DOMAIN toClient' = Connections,
           \A c \in Connections : toClient'[c] = toClient[c] \/ toClient'[c] = <<>>,
           UNCHANGED <<auth, task>>
    PROVE  AuthInv'
<1>1. PICK c \in Connections :
        /\ link[c] = "none"
        /\ link' = [link EXCEPT ![c] = "up"]
        /\ ws' = [NoSocket EXCEPT !.connection = c]
        /\ toServer' = [toServer EXCEPT ![c] = <<"authorization">>]
  BY DEF InitSocket
<1>2. ws'.connection = c /\ ws'.ready = FALSE
  BY <1>1 DEF NoSocket
<1> QED
  BY <1>1, <1>2 DEF AuthInv, Domains, SocketIsOpened, UnknownIsSilent, UnopenedIsEmpty

\* What the client sends on a socket that is ready, or becomes ready.
LEMMA ClientSendsKeepInv ==
    ASSUME AuthInv, ws.connection \in Connections, NEW m,
           ws.ready \/ toClient[ws.connection] # <<>>,
           toServer' = Send(toServer, ws.connection, m),
           ws'.connection = ws.connection,
           DOMAIN toClient' = Connections,
           \A c \in Connections : toClient'[c] = toClient[c] \/ c = ws.connection,
           UNCHANGED <<link, auth, task>>
    PROVE  AuthInv'
<1> DEFINE c == ws.connection
<1>1. link[c] # "none"
  BY DEF AuthInv, SocketIsOpened, NoSocket, Connections
<1>2. link[c] = "up" => c \in auth
  BY <1>1 DEF AuthInv, UnknownIsSilent
<1>3. /\ DOMAIN toServer' = Connections
      /\ \A d \in Connections : d # c \/ link[c] # "up" => toServer'[d] = toServer[d]
  BY SendChannel DEF AuthInv, Domains
<1> QED
  BY <1>1, <1>2, <1>3 DEF AuthInv, Domains, SocketIsOpened, UnknownIsSilent, UnopenedIsEmpty

LEMMA ClientKeepsInv ==
    ASSUME AuthInv,
           \/ Subscribe \/ SubscribeNext \/ Unsubscribe
           \/ SendQueue \/ HeartBeat \/ Receive \/ Close
    PROVE  AuthInv'
<1>1. CASE Subscribe \/ SubscribeNext \/ Unsubscribe
  <2>1. UNCHANGED <<ws, net, server>>
    BY <1>1 DEF Subscribe, SubscribeNext, Unsubscribe
  <2> QED
    BY <2>1 DEF net, server, AuthInv, Domains, SocketIsOpened, UnknownIsSilent, UnopenedIsEmpty
<1>2. DOMAIN toClient = Connections
  BY DEF AuthInv, Domains
<1>3. ws # NoSocket => ws.connection \in Connections
  BY DEF AuthInv, SocketIsOpened
<1>4. ws.ready => ws # NoSocket
  BY DEF NoSocket
<1>5. CASE SendQueue
  <2>1. UNCHANGED <<auth, task, toClient>>
    BY <1>5 DEF SendQueue, server
  <2>2. CASE InitSocket
    BY <1>2, <2>1, <2>2, InitSocketKeepsInv
  <2>3. CASE /\ ws.ready
             /\ toServer' = Send(toServer, ws.connection, ToSend(ws.sent))
             /\ ws' = [ws EXCEPT !.sent = @ \/ Queued("subscribe")]
             /\ UNCHANGED link
    BY <1>2, <1>3, <1>4, <2>1, <2>3, ClientSendsKeepInv
  <2> QED
    BY <1>5, <2>2, <2>3 DEF SendQueue
<1>6. CASE HeartBeat
  <2>1. /\ ws.ready
        /\ toServer' = Send(toServer, ws.connection, IF wanted THEN <<"subscribe">> ELSE <<>>)
        /\ ws' = [ws EXCEPT !.sent = wanted]
        /\ UNCHANGED <<link, toClient, auth, task>>
    BY <1>6 DEF HeartBeat, server
  <2> QED
    BY <1>2, <1>3, <1>4, <2>1, ClientSendsKeepInv
<1>7. CASE Receive
  <2>1. PICK m, s :
        /\ ws # NoSocket /\ toClient[ws.connection] # <<>>
        /\ toServer' = Send(toServer, ws.connection, m)
        /\ ws' = [ws EXCEPT !.ready = TRUE, !.sent = s]
        /\ toClient' = [toClient EXCEPT ![ws.connection] = Tail(@)]
        /\ UNCHANGED <<link, auth, task>>
    BY <1>7 DEF Receive, server
  <2>2. ws'.connection = ws.connection
    BY <2>1
  <2> QED
    BY <1>2, <1>3, <2>1, <2>2, ClientSendsKeepInv
<1>8. CASE Close
  <2>1. /\ toClient' = [toClient EXCEPT ![ws.connection] = <<>>]
        /\ UNCHANGED <<auth, task>>
        /\ \/ InitSocket
           \/ ws' = NoSocket /\ UNCHANGED <<link, toServer>>
    BY <1>8 DEF Close, server
  <2>2. /\ DOMAIN toClient' = Connections
        /\ \A c \in Connections : toClient'[c] = toClient[c] \/ toClient'[c] = <<>>
    BY <1>2, <2>1
  <2>3. CASE InitSocket
    BY <2>1, <2>2, <2>3, InitSocketKeepsInv
  <2>4. CASE ws' = NoSocket /\ UNCHANGED <<link, toServer>>
    BY <2>1, <2>2, <2>4 DEF AuthInv, Domains, SocketIsOpened, UnknownIsSilent, UnopenedIsEmpty,
       NoSocket
  <2> QED
    BY <2>1, <2>3, <2>4
<1> QED
  BY <1>1, <1>5, <1>6, <1>7, <1>8
\* What the server does for one connection, when it sends only if it may.
LEMMA ServerKeepsInv ==
    ASSUME AuthInv, NEW c \in Connections, NEW m,
           toServer' = toServer \/ toServer' = [toServer EXCEPT ![c] = Tail(@)],
           toServer' # toServer => toServer[c] # <<>>,
           auth' = auth \/ auth' = auth \cup {c},
           toClient' = toClient \/ toClient' = Send(toClient, c, m),
           DOMAIN task' = Connections,
           \A d \in Connections : d # c => task'[d] = task[d],
           \/ UNCHANGED <<toClient, task, auth>>
           \/ c \in auth' /\ link[c] # "none"
           \/ link[c] \notin {"none", "up"},
           UNCHANGED <<ws, link>>
    PROVE  AuthInv'
<1>1. /\ DOMAIN toClient' = Connections
      /\ \A d \in Connections : d # c \/ link[c] # "up" => toClient'[d] = toClient[d]
  BY SendChannel DEF AuthInv, Domains
<1>2. /\ DOMAIN toServer' = Connections
      /\ \A d \in Connections : d # c => toServer'[d] = toServer[d]
      /\ toServer'[c] \in {toServer[c], Tail(toServer[c])}
      /\ toServer[c] = <<>> => toServer'[c] = <<>>
  BY DEF AuthInv, Domains
<1>3. Tail(<<"authorization">>) = <<>>
  OBVIOUS
<1>4. \A d \in Connections \ auth' : UnknownIsSilent(d)'
  <2> SUFFICES ASSUME NEW d \in Connections \ auth' PROVE UnknownIsSilent(d)'
    OBVIOUS
  <2>1. UnknownIsSilent(d)
    BY DEF AuthInv
  <2>2. toServer'[d] \in {<<>>, <<"authorization">>}
    <3>1. CASE toServer[d] = <<>>
      BY <1>2, <3>1
    <3>2. CASE toServer[d] = <<"authorization">>
      BY <1>2, <1>3, <3>2
    <3> QED
      BY <2>1, <3>1, <3>2 DEF UnknownIsSilent
  <2> QED
    BY <1>1, <2>1, <2>2 DEF UnknownIsSilent
<1>5. \A d \in Connections : link[d] = "none" => UnopenedIsEmpty(d)'
  BY <1>1, <1>2 DEF AuthInv, UnopenedIsEmpty
<1> QED
  BY <1>1, <1>2, <1>4, <1>5 DEF AuthInv, Domains, SocketIsOpened

LEMMA LoadsKeepInv ==
    ASSUME AuthInv, NEW c \in Connections,
           \/ ProcessMessage(c) \/ ProcessSubscription(c) \/ \E t \in Tasks : Answer(c, t)
    PROVE  AuthInv'
<1>1. \A t \in Tasks : Load(c, t) => /\ DOMAIN task' = Connections
                                     /\ \A d \in Connections : d # c => task'[d] = task[d]
  BY DEF Load, AuthInv, Domains
<1>2. UNCHANGED task => /\ DOMAIN task' = Connections
                        /\ \A d \in Connections : d # c => task'[d] = task[d]
  BY DEF AuthInv, Domains
<1>3. link[c] = "none" => c \notin auth /\ toServer[c] = <<>> /\ \A t \in Tasks : task[c][t] = Idle
  BY DEF AuthInv, UnknownIsSilent, UnopenedIsEmpty
<1>4. CASE ProcessMessage(c)
  <2>1. /\ toServer[c] # <<>> /\ toServer' = [toServer EXCEPT ![c] = Tail(@)]
        /\ UNCHANGED <<ws, link>>
    BY <1>4 DEF ProcessMessage, client
  <2>2. link[c] # "none"
    BY <1>3, <2>1
  <2>3. CASE Authorize(c)
    <3>1. /\ auth' = auth \cup {c} /\ UNCHANGED task
          /\ toClient' = Send(toClient, c, <<Message("handshake", Nothing)>>)
      BY <2>3 DEF Authorize
    <3> QED
      BY <1>2, <2>1, <2>2, <3>1, ServerKeepsInv
  <2>4. CASE HandleUnsubscribe(c)
    BY <1>2, <2>1, <2>2, <2>4, ServerKeepsInv DEF HandleUnsubscribe
  <2>5. CASE HandleSubscribe(c)
    BY <1>1, <2>1, <2>2, <2>5, ServerKeepsInv DEF HandleSubscribe, Tasks
  <2> QED
    BY <1>4, <2>3, <2>4, <2>5 DEF ProcessMessage
<1>5. CASE ProcessSubscription(c)
  <2>1. /\ c \in auth /\ Load(c, "interval") /\ UNCHANGED <<ws, link, toServer, toClient, auth>>
    BY <1>5 DEF ProcessSubscription, client, net
  <2> QED
    BY <1>1, <1>3, <2>1, ServerKeepsInv DEF Tasks
<1>6. ASSUME NEW t \in Tasks, Answer(c, t)
      PROVE  AuthInv'
  <2>1. PICK m : /\ task[c][t] # Idle
                 /\ toClient' = Send(toClient, c, m)
                 /\ task' = [task EXCEPT ![c][t] = Idle]
                 /\ UNCHANGED <<ws, link, toServer, auth>>
    BY <1>6 DEF Answer, client, Idle
  <2>2. link[c] # "none" /\ (link[c] = "up" => c \in auth)
    BY <1>3, <2>1 DEF AuthInv, UnknownIsSilent
  <2>3. DOMAIN task' = Connections /\ \A d \in Connections : d # c => task'[d] = task[d]
    BY <2>1 DEF AuthInv, Domains
  <2>4. c \in auth \/ link[c] \notin {"none", "up"}
    BY <2>2
  <2> QED
    BY <2>1, <2>2, <2>3, <2>4, ServerKeepsInv
<1> QED
  BY <1>4, <1>5, <1>6

LEMMA LinksKeepInv ==
    ASSUME AuthInv, NEW c \in Connections, Disconnect(c) \/ Expire(c) \/ LoseLink(c)
    PROVE  AuthInv'
<1> USE DEF AuthInv, Domains, SocketIsOpened, UnknownIsSilent, UnopenedIsEmpty
<1>1. CASE Disconnect(c)
  BY <1>1 DEF Disconnect, client
<1>2. CASE Expire(c)
  BY <1>2 DEF Expire, client, net
<1>3. CASE LoseLink(c)
  BY <1>3 DEF LoseLink, client, server
<1> QED
  BY <1>1, <1>2, <1>3

LEMMA AuthInvNext == AuthInv /\ [Next]_vars => AuthInv'
<1> SUFFICES ASSUME AuthInv, [Next]_vars PROVE AuthInv'
  OBVIOUS
<1> USE DEF AuthInv, Domains, SocketIsOpened, UnknownIsSilent, UnopenedIsEmpty
<1>1. CASE UNCHANGED vars
  BY <1>1 DEF vars, client, net, server
<1>2. CASE UpdateData
  BY <1>2 DEF UpdateData, client, net, server
<1>3. CASE \E c \in Connections :
              \/ Serve(c) \/ ProcessSubscription(c) \/ LoseLink(c)
              \/ \E t \in Tasks : Answer(c, t)
  BY <1>3, LoadsKeepInv, LinksKeepInv DEF Serve
<1> QED
  BY <1>1, <1>2, <1>3, ClientKeepsInv DEF Next

\* On every connection the handshake comes first: a message of another kind is
\* under way only while the server knows who sent it.
THEOREM ClientIsAuthorizedFirst == Spec => []AuthorizedFirst
<1>1. AuthInv => AuthorizedFirst
  BY DEF AuthInv, UnknownIsSilent, AuthorizedFirst
<1> QED
  BY <1>1, InitAuthInv, AuthInvNext, PTL DEF Spec

-----------------------------------------------------------------------------
(***************************************************************************)
(* TypeOK.  What takes work is that no channel grows beyond its bound: the *)
(* client sends a subscription once on a connection, and an unsubscription *)
(* after it once.                                                          *)
(***************************************************************************)
Messages == [type : {"handshake", "processed"}, result : {Nothing}]
                \cup [type : {"result"}, result : Results]
TaskStates == {Idle} \cup {Loaded(v) : v \in Results}

\* What the channel of a connection to the server can hold.
SubscribeSent == {<<"subscribe">>, <<"subscribe", "unsubscribe">>}
UnsubscribeSent == {<<"unsubscribe">>, <<"subscribe", "unsubscribe">>}
Sent == {<<>>, <<"authorization">>} \cup SubscribeSent \cup UnsubscribeSent

\* What the callback takes and what waits for it.
Taken ==
    /\ pending \in Seq(Results) /\ Len(pending) <= MaxPending
    /\ listening \in BOOLEAN
    /\ got \in 0 .. MaxData

PlainTypes ==
    /\ data \in Versions /\ failures \in 0 .. MaxFailures
    /\ wanted \in BOOLEAN
    /\ ws \in [connection : 0 .. MaxConnections, ready : BOOLEAN, sent : BOOLEAN]
    /\ Taken
    /\ link \in [Connections -> {"none", "up", "lost", "closed"}]
    /\ auth \subseteq Connections /\ subscribed \subseteq Connections
    /\ state \in [Connections -> Versions \cup {Nothing}]
    /\ task \in [Connections -> [Tasks -> TaskStates]]

Channels ==
    /\ queue \in {<<>>, IF wanted THEN <<"subscribe">> ELSE <<"unsubscribe">>}
    /\ \A c \in Connections :
          /\ toServer[c] \in Sent
          /\ toServer[c] = <<"authorization">> => c \notin auth
          /\ toClient[c] \in Seq(Messages) /\ Len(toClient[c]) <= MaxMessages

\* The client's socket: what is under way on it agrees with what the client
\* remembers, and the handshake is the first thing to arrive, once.
SocketInv ==
    ws # NoSocket =>
        LET c == ws.connection
        IN  /\ toServer[c] \in SubscribeSent => ws.sent
            /\ toServer[c] \in UnsubscribeSent => ~ wanted /\ queue = <<>>
            /\ ws.ready => toServer[c] # <<"authorization">>
            /\ ~ ws.ready => toServer[c] \in {<<>>, <<"authorization">>}
            /\ toServer[c] = <<"authorization">> => toClient[c] = <<>>
            /\ \A i \in 1 .. Len(toClient[c]) :
                  toClient[c][i].type = "handshake" => i = 1 /\ ~ ws.ready

LiveInv == AuthInv /\ PlainTypes /\ Channels /\ SocketInv

LEMMA Bounds ==
    /\ MaxConnections \in Nat \ {0} /\ MaxData \in Nat \ {0}
    /\ MaxMessages \in Nat \ {0} /\ MaxPending \in Nat \ {0} /\ MaxFailures \in Nat
BY BoundsAssumption

LEMMA LiveInvTypes == LiveInv => TypeOK
<1> SUFFICES ASSUME LiveInv PROVE TypeOK
  OBVIOUS
<1>1. MaxMessages \in Nat /\ MaxMessages >= 1
  BY Bounds
<1>2. MessagesOf(queue, {"subscribe", "unsubscribe"})
  BY <1>1 DEF LiveInv, Channels, MessagesOf
<1>3. \A c \in Connections :
        MessagesOf(toServer[c], {"authorization", "subscribe", "unsubscribe"})
  <2> SUFFICES ASSUME NEW c \in Connections
               PROVE  MessagesOf(toServer[c], {"authorization", "subscribe", "unsubscribe"})
    OBVIOUS
  <2>1. toServer[c] \in Sent
    BY DEF LiveInv, Channels
  <2>2. toServer[c] \in Seq({"authorization", "subscribe", "unsubscribe"})
        /\ Len(toServer[c]) <= 2
    <3>1. CASE toServer[c] = <<>>
      BY <3>1
    <3>2. CASE toServer[c] = <<"authorization">>
      BY <3>2
    <3>3. CASE toServer[c] = <<"subscribe">>
      BY <3>3
    <3>4. CASE toServer[c] = <<"unsubscribe">>
      BY <3>4
    <3>5. CASE toServer[c] = <<"subscribe", "unsubscribe">>
      BY <3>5
    <3> QED
      BY <2>1, <3>1, <3>2, <3>3, <3>4, <3>5 DEF Sent, SubscribeSent, UnsubscribeSent
  <2> QED  BY <1>1, <2>2 DEF MessagesOf
<1>4. \A c \in Connections :
        MessagesOf(toClient[c], [type : {"handshake", "processed", "result"},
                                result : Results \cup {Nothing}])
  <2>1. Messages \subseteq [type : {"handshake", "processed", "result"},
                            result : Results \cup {Nothing}]
    BY DEF Messages
  <2>2. \A c \in Connections : MessagesOf(toClient[c], Messages)
    BY <1>1 DEF LiveInv, Channels, MessagesOf
  <2> QED  BY <2>1, <2>2 DEF MessagesOf
<1> QED
  BY <1>2, <1>3, <1>4 DEF LiveInv, PlainTypes, Taken, TypeOK, TaskStates

LEMMA TakeNextTypes ==
    ASSUME Taken, NEW results \in Seq(Results), NEW asked \in BOOLEAN,
           Len(results) <= MaxPending \/ (asked /\ Len(results) <= MaxPending + 1), TakeNext(results, asked)
    PROVE  Taken'
<1>0. Len(results) \in Nat
  OBVIOUS
<1>1. CASE asked /\ results # <<>>
  <2>1. Len(results) \in Nat \ {0}
    BY <1>1
  <2>2. Last(results) \in Results
    BY <2>1 DEF Last
  <2>3. Front(results) \in Seq(Results) /\ Len(Front(results)) = Len(results) - 1
    <3>1. Front(results) = SubSeq(results, 1, Len(results) - 1)
      BY DEF Front
    <3> DEFINE n == Len(results) - 1
    <3>2. n \in Nat /\ \A i \in 1 .. n : results[i] \in Results
      BY <2>1
    <3>3. SubSeq(results, 1, n) = [i \in 1 .. n |-> results[i]]
      BY <2>1
    <3>4. SubSeq(results, 1, n) \in Seq(Results)
      BY <3>2, <3>3
    <3>5. DOMAIN SubSeq(results, 1, n) = 1 .. n
      BY <3>3
    <3>6. Len(SubSeq(results, 1, n)) = n
      <4>1. ASSUME NEW s \in Seq(Results), NEW k \in Nat, DOMAIN s = 1 .. k
            PROVE  Len(s) = k
        <5>1. 1 .. Len(s) = 1 .. k /\ Len(s) \in Nat
          BY <4>1
        <5> QED  BY <5>1
      <4> HIDE DEF n
      <4> QED  BY <3>2, <3>4, <3>5, <4>1
    <3> QED  BY <3>1, <3>4, <3>6
  <2>4. got' \in 0 .. MaxData
    BY <1>1, <2>2, Bounds DEF TakeNext, Taken, Results, Versions, Failed
  <2>5. Len(pending') <= MaxPending
    BY <1>1, <2>1, <2>3, Bounds DEF TakeNext
  <2> QED  BY <1>1, <2>3, <2>4, <2>5 DEF TakeNext, Taken
<1>2. CASE ~ (asked /\ results # <<>>)
  <2>1. Len(results) <= MaxPending
    BY <1>0, <1>2, Bounds
  <2> QED  BY <1>2, <2>1 DEF TakeNext, Taken
<1> QED  BY <1>1, <1>2

LEMMA SameTaken ==
    ASSUME Taken, UNCHANGED taken
    PROVE  Taken'
BY DEF Taken, taken

LEMMA InitLiveInv == Init => LiveInv
<1> SUFFICES ASSUME Init PROVE LiveInv
  OBVIOUS
<1>1. Nothing \in Results \cup {Nothing} /\ 1 \in Versions /\ 0 \in 0 .. MaxFailures
      /\ 0 \in 0 .. MaxConnections
  BY Bounds DEF Versions
<1>2. PlainTypes
  <2>1. Taken
    <3>1. <<>> \in Seq(Results) /\ Len(<<>>) <= MaxPending /\ 0 \in 0 .. MaxData
      BY Bounds
    <3> QED  BY <3>1 DEF Init, Taken
  <2> QED  BY <1>1, <2>1 DEF Init, PlainTypes, NoSocket, TaskStates
<1>3. <<>> \in Seq(Messages) /\ Len(<<>>) <= MaxMessages
  BY Bounds
<1>4. Channels
  BY <1>3 DEF Init, Channels, Sent
<1>5. SocketInv
  BY DEF Init, SocketInv
<1> QED  BY <1>2, <1>4, <1>5, InitAuthInv DEF LiveInv

\* What the queue's one message is after the subscription is taken out of it.
LEMMA WithoutSubscribe ==
    /\ RemoveFirst(<<>>, "subscribe") = <<>>
    /\ RemoveFirst(<<"subscribe">>, "subscribe") = <<>>
    /\ RemoveFirst(<<"unsubscribe">>, "subscribe") = <<"unsubscribe">>
<1>1. RemoveFirst(<<>>, "subscribe") = <<>>
  BY DEF RemoveFirst
<1>2. RemoveFirst(<<"unsubscribe">>, "subscribe") = <<"unsubscribe">>
  BY DEF RemoveFirst
<1>3. RemoveFirst(<<"subscribe">>, "subscribe") = <<>>
  <2> DEFINE s == <<"subscribe">>
  <2>1. Len(s) = 1 /\ s[1] = "subscribe"
    OBVIOUS
  <2>2. {i \in 1 .. Len(s) : s[i] = "subscribe"} = {1}
    BY <2>1
  <2>3. Min({1}) = 1
    BY DEF Min
  <2>4. SelectInSeq(s, LAMBDA v : v = "subscribe") = 1
    BY <2>2, <2>3 DEF SelectInSeq
  <2> HIDE DEF s
  <2>5. RemoveFirst(s, "subscribe") = SubSeq(s, 1, 0) \o SubSeq(s, 2, 1)
    <3>1. \E i \in 1 .. Len(s) : s[i] = "subscribe"
      BY <2>1
    <3>2. RemoveFirst(s, "subscribe") = RemoveAt(s, 1)
      BY <2>4, <3>1 DEF RemoveFirst
    <3>3. RemoveAt(s, 1) = SubSeq(s, 1, 0) \o SubSeq(s, 2, 1)
      BY <2>1 DEF RemoveAt
    <3> QED  BY <3>2, <3>3
  <2>6. SubSeq(s, 1, 0) = <<>> /\ SubSeq(s, 2, 1) = <<>>
    BY DEF s
  <2>7. <<>> \o <<>> = <<>>
    OBVIOUS
  <2> QED  BY <2>5, <2>6, <2>7 DEF s
<1> QED  BY <1>1, <1>2, <1>3

\* What the client sends with its queue, and what is queued.
LEMMA QueueIsSent ==
    ASSUME Channels, wanted \in BOOLEAN, NEW sent \in BOOLEAN
    PROVE  /\ wanted => Queued("subscribe") = (queue = <<"subscribe">>)
           /\ ~ wanted => ~ Queued("subscribe")
           /\ ToSend(sent) = IF sent /\ queue = <<"subscribe">> THEN <<>> ELSE queue
           /\ queue \in {<<>>, <<"subscribe">>, <<"unsubscribe">>}
<1>1. queue \in {<<>>, <<"subscribe">>, <<"unsubscribe">>}
  BY DEF Channels
<1>2. ToSend(sent) = IF sent /\ queue = <<"subscribe">> THEN <<>> ELSE queue
  BY <1>1, WithoutSubscribe DEF ToSend
<1>3. Queued("subscribe") = (queue = <<"subscribe">>)
  <2>1. CASE queue = <<>>
    <3>1. ~ \E i \in DOMAIN queue : queue[i] = "subscribe"
      BY <2>1
    <3>2. queue # <<"subscribe">>
      BY <2>1
    <3> QED  BY <3>1, <3>2 DEF Queued
  <2>2. CASE queue = <<"subscribe">>
    <3>1. 1 \in DOMAIN queue /\ queue[1] = "subscribe"
      BY <2>2
    <3> QED  BY <2>2, <3>1 DEF Queued
  <2>3. CASE queue = <<"unsubscribe">>
    <3>1. \A i \in DOMAIN queue : queue[i] = "unsubscribe"
      BY <2>3
    <3>2. queue # <<"subscribe">>
      BY <2>3
    <3> QED  BY <3>1, <3>2 DEF Queued
  <2> QED  BY <1>1, <2>1, <2>2, <2>3
<1> QED  BY <1>1, <1>2, <1>3 DEF Channels

LEMMA AddToChannel ==
    /\ \A x \in Sent : x \o <<>> = x
    /\ <<>> \o <<"subscribe">> = <<"subscribe">>
    /\ <<>> \o <<"unsubscribe">> = <<"unsubscribe">>
    /\ <<"subscribe">> \o <<"unsubscribe">> = <<"subscribe", "unsubscribe">>
    /\ <<"subscribe">> \o <<>> = <<"subscribe">>
    /\ <<>> \o <<>> = <<>>
<1>1. \A x \in Sent : x \o <<>> = x
  BY DEF Sent, SubscribeSent, UnsubscribeSent
<1>2. <<>> \o <<"subscribe">> = <<"subscribe">>
  OBVIOUS
<1>3. <<>> \o <<"unsubscribe">> = <<"unsubscribe">>
  OBVIOUS
<1>4. <<"subscribe">> \o <<"unsubscribe">> = <<"subscribe", "unsubscribe">>
  <2> DEFINE t == <<"subscribe">> \o <<"unsubscribe">>
             S == {"subscribe", "unsubscribe"}
  <2>1. /\ <<"subscribe">> \in Seq(S) /\ Len(<<"subscribe">>) = 1
        /\ <<"unsubscribe">> \in Seq(S) /\ Len(<<"unsubscribe">>) = 1
    OBVIOUS
  <2>2. t \in Seq(S) /\ Len(t) = 2
    BY <2>1
  <2>3. t[1] = "subscribe" /\ t[2] = "unsubscribe"
    BY <2>1
  <2> HIDE DEF t
  <2>4. DOMAIN t = 1 .. 2 /\ t = [i \in 1 .. 2 |-> t[i]] /\ 1 .. 2 = {1, 2}
    BY <2>2
  <2>5. t = <<"subscribe", "unsubscribe">>
    BY <2>2, <2>3, <2>4
  <2> QED  BY <2>5 DEF t
<1>5. <<"subscribe">> \o <<>> = <<"subscribe">> /\ <<>> \o <<>> = <<>>
  OBVIOUS
<1> QED  BY <1>1, <1>2, <1>3, <1>4, <1>5

LEMMA TakeFromChannel ==
    /\ Tail(<<"authorization">>) = <<>> /\ Head(<<"authorization">>) = "authorization"
    /\ Tail(<<"subscribe">>) = <<>> /\ Head(<<"subscribe">>) = "subscribe"
    /\ Tail(<<"unsubscribe">>) = <<>> /\ Head(<<"unsubscribe">>) = "unsubscribe"
    /\ Tail(<<"subscribe", "unsubscribe">>) = <<"unsubscribe">>
    /\ Head(<<"subscribe", "unsubscribe">>) = "subscribe"
<1>1. Tail(<<"authorization">>) = <<>> /\ Head(<<"authorization">>) = "authorization"
  OBVIOUS
<1>2. Tail(<<"subscribe">>) = <<>> /\ Head(<<"subscribe">>) = "subscribe"
  OBVIOUS
<1>3. Tail(<<"unsubscribe">>) = <<>> /\ Head(<<"unsubscribe">>) = "unsubscribe"
  OBVIOUS
<1>4. Tail(<<"subscribe", "unsubscribe">>) = <<"unsubscribe">>
  OBVIOUS
<1>5. Head(<<"subscribe", "unsubscribe">>) = "subscribe"
  OBVIOUS
<1> QED  BY <1>1, <1>2, <1>3, <1>4, <1>5

\* A message more, or the first one less, for the client.
LEMMA AppendMessage ==
    ASSUME NEW s \in Seq(Messages), NEW m \in Messages
    PROVE  /\ s \o <<m>> \in Seq(Messages) /\ Len(s \o <<m>>) = Len(s) + 1
           /\ \A i \in 1 .. Len(s) : (s \o <<m>>)[i] = s[i]
           /\ (s \o <<m>>)[Len(s) + 1] = m
<1>1. <<m>> \in Seq(Messages) /\ Len(<<m>>) = 1 /\ <<m>>[1] = m
  OBVIOUS
<1>2. s \o <<m>> \in Seq(Messages) /\ Len(s \o <<m>>) = Len(s) + Len(<<m>>)
  BY <1>1
<1> QED  BY <1>1, <1>2

LEMMA TakeMessage ==
    ASSUME NEW s \in Seq(Messages), s # <<>>
    PROVE  /\ Head(s) = s[1] /\ Head(s) \in Messages /\ Len(s) \in Nat \ {0}
           /\ Tail(s) \in Seq(Messages) /\ Len(Tail(s)) = Len(s) - 1
           /\ \A i \in 1 .. Len(Tail(s)) : Tail(s)[i] = s[i + 1]
<1>1. Len(s) \in Nat \ {0}
  OBVIOUS
<1> QED  BY <1>1

LEMMA SentAreDistinct ==
    /\ <<"authorization">> \notin SubscribeSent \cup UnsubscribeSent \cup {<<>>}
    /\ <<>> \notin SubscribeSent \cup UnsubscribeSent
    /\ <<"subscribe">> \notin UnsubscribeSent /\ <<"unsubscribe">> \notin SubscribeSent
    /\ <<"subscribe">> # <<"unsubscribe">>
<1>1. /\ Len(<<>>) = 0
      /\ Len(<<"authorization">>) = 1 /\ <<"authorization">>[1] = "authorization"
      /\ Len(<<"subscribe">>) = 1 /\ <<"subscribe">>[1] = "subscribe"
      /\ Len(<<"unsubscribe">>) = 1 /\ <<"unsubscribe">>[1] = "unsubscribe"
      /\ Len(<<"subscribe", "unsubscribe">>) = 2
  OBVIOUS
<1> QED  BY <1>1 DEF SubscribeSent, UnsubscribeSent

\* The socket of a client is a connection that was opened.
LEMMA SocketFacts ==
    ASSUME LiveInv
    PROVE  /\ ws.ready => ws # NoSocket
           /\ ws # NoSocket => ws.connection \in Connections /\ link[ws.connection] # "none"
           /\ ws.ready \in BOOLEAN /\ ws.sent \in BOOLEAN /\ wanted \in BOOLEAN
           /\ DOMAIN toServer = Connections /\ DOMAIN toClient = Connections
           /\ \A c \in Connections : link[c] = "none" =>
                 c \notin auth /\ toServer[c] = <<>> /\ toClient[c] = <<>>
BY DEF LiveInv, PlainTypes, AuthInv, Domains, SocketIsOpened, UnopenedIsEmpty, UnknownIsSilent,
       NoSocket

\* A new socket.
LEMMA InitSocketTypes ==
    ASSUME LiveInv, InitSocket,
           \A c \in Connections : toClient'[c] = toClient[c] \/ toClient'[c] = <<>>,
           UNCHANGED <<auth, wanted, queue>>
    PROVE  /\ ws' \in [connection : 0 .. MaxConnections, ready : BOOLEAN, sent : BOOLEAN]
           /\ link' \in [Connections -> {"none", "up", "lost", "closed"}]
           /\ Channels' /\ SocketInv'
<1>1. PICK c \in Connections :
        /\ link[c] = "none"
        /\ link' = [link EXCEPT ![c] = "up"]
        /\ ws' = [NoSocket EXCEPT !.connection = c]
        /\ toServer' = [toServer EXCEPT ![c] = <<"authorization">>]
  BY DEF InitSocket
<1>2. /\ DOMAIN toServer = Connections /\ c \notin auth
      /\ toServer[c] = <<>> /\ toClient'[c] = <<>>
  BY <1>1, SocketFacts
<1>3. ws' = [connection |-> c, ready |-> FALSE, sent |-> FALSE]
  BY <1>1 DEF NoSocket
<1>4. <<>> \in Seq(Messages) /\ Len(<<>>) <= MaxMessages
  BY Bounds
<1>5. Channels'
  <2>1. \A d \in Connections : toClient'[d] \in Seq(Messages) /\ Len(toClient'[d]) <= MaxMessages
    BY <1>4 DEF LiveInv, Channels
  <2>2. \A d \in Connections :
          toServer'[d] \in Sent /\ (toServer'[d] = <<"authorization">> => d \notin auth')
    BY <1>1, <1>2 DEF LiveInv, Channels, Sent
  <2> QED  BY <2>1, <2>2 DEF LiveInv, Channels
<1>6. SocketInv'
  <2>1. toServer'[c] = <<"authorization">> /\ ~ ws'.ready /\ ws'.connection = c
    BY <1>1, <1>2, <1>3
  <2> QED  BY <1>2, <2>1, SentAreDistinct DEF SocketInv
<1>7. /\ ws' \in [connection : 0 .. MaxConnections, ready : BOOLEAN, sent : BOOLEAN]
      /\ link' \in [Connections -> {"none", "up", "lost", "closed"}]
  <2>1. c \in 0 .. MaxConnections
    BY Bounds DEF Connections
  <2>2. link' \in [Connections -> {"none", "up", "lost", "closed"}]
    BY <1>1 DEF LiveInv, PlainTypes
  <2> QED  BY <1>3, <2>1, <2>2
<1> QED  BY <1>5, <1>6, <1>7

\* The query's callback, and what it asks the transport to send.
LEMMA CallbackKeepsLiveInv ==
    ASSUME LiveInv, Subscribe \/ SubscribeNext \/ Unsubscribe
    PROVE  PlainTypes' /\ Channels' /\ SocketInv'
<1>1. /\ UNCHANGED <<data, failures, ws, net, server>>
      /\ wanted' \in BOOLEAN
  BY SocketFacts DEF Subscribe, SubscribeNext, Unsubscribe
<1>2. PlainTypes'
  <2>1. Taken
    BY DEF LiveInv, PlainTypes
  <2>2. /\ <<>> \in Seq(Results) /\ Len(<<>>) <= MaxPending
        /\ pending \in Seq(Results) /\ Len(pending) <= MaxPending
    BY <2>1, Bounds DEF Taken
  <2>3. TakeNext(<<>>, TRUE) => Taken'
    BY <2>1, <2>2, TakeNextTypes
  <2>4. TakeNext(pending, TRUE) => Taken'
    BY <2>1, <2>2, TakeNextTypes
  <2>5. Unsubscribe => Taken'
    <3>1. 0 \in 0 .. MaxData
      BY Bounds
    <3> QED  BY <2>2, <3>1 DEF Unsubscribe, Taken
  <2>6. Taken'
    BY <2>3, <2>4, <2>5 DEF Subscribe, SubscribeNext
  <2> QED  BY <1>1, <2>6 DEF LiveInv, PlainTypes, net, server
<1>3. /\ queue' \in {<<>>, IF wanted' THEN <<"subscribe">> ELSE <<"unsubscribe">>}
      /\ ws # NoSocket => toServer[ws.connection] \notin UnsubscribeSent
  <2>1. wanted \in BOOLEAN /\ Channels
    BY SocketFacts DEF LiveInv
  <2>2. CASE Subscribe
    <3>1. ws = NoSocket
      BY <2>2, SocketFacts DEF Subscribe
    <3> QED  BY <2>2, <3>1 DEF Subscribe
  <2>3. ASSUME wanted PROVE ws # NoSocket => toServer[ws.connection] \notin UnsubscribeSent
    BY <2>3 DEF LiveInv, SocketInv
  <2>4. CASE SubscribeNext
    <3>1. queue \in {<<>>, <<"subscribe">>} /\ wanted' = wanted /\ wanted
      BY <2>1, <2>4 DEF SubscribeNext, Channels
    <3>2. Append(<<>>, "subscribe") = <<"subscribe">>
      OBVIOUS
    <3>3. Queued("subscribe") = (queue = <<"subscribe">>)
      BY <2>1, <3>1, QueueIsSent
    <3>4. queue' = <<"subscribe">>
      BY <2>4, <3>1, <3>2, <3>3 DEF SubscribeNext
    <3> QED  BY <2>3, <3>1, <3>4
  <2>5. CASE Unsubscribe
    <3>1. wanted /\ ~ wanted'
      BY <2>5 DEF Unsubscribe
    <3>2. CASE queue = <<>>
      <4>1. ~ Queued("subscribe")
        BY <2>1, <3>1, <3>2, QueueIsSent, SentAreDistinct DEF SubscribeSent, UnsubscribeSent
      <4>2. Append(<<>>, "unsubscribe") = <<"unsubscribe">>
        OBVIOUS
      <4> QED  BY <2>3, <2>5, <3>1, <3>2, <4>1, <4>2 DEF Unsubscribe
    <3>3. CASE queue = <<"subscribe">>
      BY <2>1, <2>3, <2>5, <3>1, <3>3, QueueIsSent, WithoutSubscribe DEF Unsubscribe
    <3> QED  BY <2>1, <3>1, <3>2, <3>3 DEF Channels
  <2> QED  BY <2>2, <2>4, <2>5
<1>4. Channels'
  BY <1>1, <1>3 DEF LiveInv, Channels, net, server
<1>5. SocketInv'
  BY <1>1, <1>3 DEF LiveInv, SocketInv, net
<1> QED  BY <1>2, <1>4, <1>5

\* The client sends m on its socket; s is what it remembers to have sent.
LEMMA SendKeepsLiveInv ==
    ASSUME LiveInv, ws # NoSocket, NEW m, NEW s \in BOOLEAN, NEW r \in BOOLEAN,
           NEW c, c = ws.connection,
           toServer' = Send(toServer, c, m),
           ws' = [ws EXCEPT !.ready = r, !.sent = s],
           ws.ready => r, r,
           ws.ready \/ toClient[c] # <<>>,
           m \in {<<>>, <<"subscribe">>, <<"unsubscribe">>},
           m = <<"subscribe">> => toServer[c] = <<>> /\ s,
           m = <<"unsubscribe">> => ~ wanted /\ queue = <<"unsubscribe">> /\ queue' = <<>>,
           s \/ toServer[c] \notin SubscribeSent,
           queue' \in {queue, <<>>},
           DOMAIN toClient' = Connections,
           \A d \in Connections : d # c => toClient'[d] = toClient[d],
           toClient'[c] \in Seq(Messages), Len(toClient'[c]) <= MaxMessages,
           \A i \in 1 .. Len(toClient'[c]) : toClient'[c][i].type # "handshake",
           UNCHANGED <<auth, wanted, link>>
    PROVE  Channels' /\ SocketInv'
<1>1. c \in Connections /\ link[c] # "none" /\ DOMAIN toServer = Connections
  BY SocketFacts
<1>2. \A d \in Connections : d # c => toServer'[d] = toServer[d]
  BY <1>1 DEF Send
<1>3. toServer'[c] = IF link[c] = "up" THEN toServer[c] \o m ELSE toServer[c]
  BY <1>1 DEF Send
<1>4. toServer[c] \in Sent \ {<<"authorization">>}
  BY <1>1 DEF LiveInv, Channels, SocketInv
<1>5. toServer[c] \in UnsubscribeSent => ~ wanted /\ queue = <<>>
  BY <1>1 DEF LiveInv, SocketInv
<1>6. /\ ws'.connection = c /\ ws'.ready = r /\ ws'.sent = s /\ ws' # NoSocket
  BY DEF LiveInv, PlainTypes, NoSocket
<1>7. /\ toServer'[c] \in Sent \ {<<"authorization">>}
      /\ toServer'[c] \in SubscribeSent => s
      /\ toServer'[c] \in UnsubscribeSent => ~ wanted' /\ queue' = <<>>
  <2>1. CASE m = <<>> \/ link[c] # "up"
    <3>1. toServer'[c] = toServer[c]
      BY <1>3, <1>4, <2>1, AddToChannel
    <3> QED  BY <1>4, <1>5, <3>1
  <2>2. CASE m = <<"subscribe">> /\ link[c] = "up"
    <3>1. toServer'[c] = <<"subscribe">>
      BY <1>3, <2>2, AddToChannel
    <3> QED  BY <2>2, <3>1, SentAreDistinct DEF Sent, SubscribeSent
  <2>3. CASE m = <<"unsubscribe">> /\ link[c] = "up"
    <3>1. queue # <<>>
      BY <2>3, SentAreDistinct DEF UnsubscribeSent
    <3>2. toServer[c] \in {<<>>, <<"subscribe">>}
      BY <1>4, <1>5, <3>1 DEF Sent, SubscribeSent, UnsubscribeSent
    <3>3. CASE toServer[c] = <<>>
      <4>1. toServer'[c] = <<"unsubscribe">>
        BY <1>3, <2>3, <3>3, AddToChannel
      <4> QED  BY <2>3, <4>1, SentAreDistinct DEF Sent, UnsubscribeSent
    <3>4. CASE toServer[c] = <<"subscribe">>
      <4>1. toServer'[c] = <<"subscribe", "unsubscribe">>
        BY <1>3, <2>3, <3>4, AddToChannel
      <4>2. s
        BY <3>4 DEF SubscribeSent
      <4> QED  BY <2>3, <4>1, <4>2, SentAreDistinct DEF Sent, SubscribeSent, UnsubscribeSent
    <3> QED  BY <3>2, <3>3, <3>4
  <2> QED  BY <2>1, <2>2, <2>3
<1>8. Channels'
  <2>1. queue' \in {<<>>, IF wanted' THEN <<"subscribe">> ELSE <<"unsubscribe">>}
    BY DEF LiveInv, Channels
  <2>2. ASSUME NEW d \in Connections
        PROVE  /\ toServer'[d] \in Sent
               /\ toServer'[d] = <<"authorization">> => d \notin auth'
               /\ toClient'[d] \in Seq(Messages) /\ Len(toClient'[d]) <= MaxMessages
    BY <1>2, <1>7 DEF LiveInv, Channels
  <2> QED  BY <2>1, <2>2 DEF Channels
<1>9. SocketInv'
  BY <1>6, <1>7 DEF SocketInv
<1> QED  BY <1>8, <1>9

\* What is sent with the queue, and when.
LEMMA QueueMaySend ==
    ASSUME LiveInv, ws # NoSocket, NEW c, c = ws.connection,
           ws.ready \/ toClient[c] # <<>>,
           NEW sent \in BOOLEAN, ws.sent => sent
    PROVE  /\ ToSend(sent) \in {<<>>, <<"subscribe">>, <<"unsubscribe">>}
           /\ ToSend(sent) = <<"subscribe">> => toServer[c] = <<>> /\ Queued("subscribe")
           /\ ToSend(sent) = <<"unsubscribe">> => ~ wanted /\ queue = <<"unsubscribe">>
           /\ sent /\ wanted => ToSend(sent) = <<>>
<1>1. /\ c \in Connections
      /\ Channels /\ wanted \in BOOLEAN
  BY SocketFacts DEF LiveInv
<1>2. queue \in {<<>>, IF wanted THEN <<"subscribe">> ELSE <<"unsubscribe">>}
  BY <1>1 DEF Channels
<1>3. ToSend(sent) = IF sent /\ queue = <<"subscribe">> THEN <<>> ELSE queue
  BY <1>1, QueueIsSent
<1>4. ASSUME ToSend(sent) = <<"subscribe">> PROVE toServer[c] = <<>> /\ Queued("subscribe")
  <2>1. queue = <<"subscribe">> /\ ~ sent
    BY <1>3, <1>4, SentAreDistinct DEF SubscribeSent
  <2>2. wanted
    BY <1>2, <2>1, SentAreDistinct DEF SubscribeSent
  <2>3. toServer[c] \in Sent /\ toServer[c] # <<"authorization">>
    BY <1>1 DEF LiveInv, Channels, SocketInv
  <2>4. toServer[c] \notin SubscribeSent \cup UnsubscribeSent
    BY <2>1, <2>2 DEF LiveInv, SocketInv
  <2> QED  BY <1>1, <2>1, <2>2, <2>3, <2>4, QueueIsSent DEF Sent
<1> QED  BY <1>2, <1>3, <1>4, SentAreDistinct DEF SubscribeSent, UnsubscribeSent

\* The timers of the client.
LEMMA TimersKeepLiveInv ==
    ASSUME LiveInv, SendQueue \/ HeartBeat
    PROVE  PlainTypes' /\ Channels' /\ SocketInv'
<1> DEFINE c == ws.connection
<1>1. /\ ws.ready => ws # NoSocket /\ c \in Connections
      /\ ws.sent \in BOOLEAN /\ ws.ready \in BOOLEAN /\ wanted \in BOOLEAN
      /\ DOMAIN toClient = Connections
  BY SocketFacts
<1>2. ws.ready => /\ toClient[c] \in Seq(Messages) /\ Len(toClient[c]) <= MaxMessages
                  /\ \A i \in 1 .. Len(toClient[c]) : toClient[c][i].type # "handshake"
  BY <1>1 DEF LiveInv, Channels, SocketInv
<1>3. CASE SendQueue
  <2>1. UNCHANGED <<data, failures, wanted, taken, server, toClient>> /\ Taken'
    BY <1>3, SameTaken DEF SendQueue, LiveInv, PlainTypes
  <2>2. CASE InitSocket /\ UNCHANGED queue
    <3>1. /\ ws' \in [connection : 0 .. MaxConnections, ready : BOOLEAN, sent : BOOLEAN]
          /\ link' \in [Connections -> {"none", "up", "lost", "closed"}]
          /\ Channels' /\ SocketInv'
      BY <2>1, <2>2, InitSocketTypes DEF server
    <3> QED  BY <2>1, <3>1 DEF LiveInv, PlainTypes, server
  <2>3. CASE /\ ws.ready
             /\ toServer' = Send(toServer, c, ToSend(ws.sent))
             /\ ws' = [ws EXCEPT !.sent = @ \/ Queued("subscribe")]
             /\ queue' = <<>>
             /\ UNCHANGED link
    <3> DEFINE m == ToSend(ws.sent)
               s == ws.sent \/ Queued("subscribe")
    <3>1. /\ m \in {<<>>, <<"subscribe">>, <<"unsubscribe">>}
          /\ m = <<"subscribe">> => toServer[c] = <<>> /\ s
          /\ m = <<"unsubscribe">> => ~ wanted /\ queue = <<"unsubscribe">>
      BY <1>1, <2>3, QueueMaySend
    <3>2. s \in BOOLEAN /\ (s \/ toServer[c] \notin SubscribeSent)
      BY <1>1, <2>3 DEF LiveInv, SocketInv
    <3>3. ws' = [ws EXCEPT !.ready = TRUE, !.sent = s]
      BY <1>1, <2>3 DEF LiveInv, PlainTypes
    <3> HIDE DEF m, s
    <3>4. toServer' = Send(toServer, c, m)
      BY <2>3 DEF m
    <3>5. Channels' /\ SocketInv'
      BY <1>1, <1>2, <2>1, <2>3, <3>1, <3>2, <3>3, <3>4, SendKeepsLiveInv DEF server
    <3> QED  BY <2>1, <2>3, <3>2, <3>3, <3>5 DEF LiveInv, PlainTypes, server
  <2> QED  BY <1>3, <2>2, <2>3 DEF SendQueue
<1>4. CASE HeartBeat
  <2> DEFINE m == IF wanted THEN <<"subscribe">> ELSE <<>>
  <2>1. /\ ws.ready /\ toServer[c] = <<>>
        /\ toServer' = Send(toServer, c, m)
        /\ ws' = [ws EXCEPT !.sent = wanted]
        /\ UNCHANGED <<data, failures, wanted, queue, link, toClient, server>>
        /\ Taken'
    BY <1>4, SameTaken DEF HeartBeat, LiveInv, PlainTypes
  <2>2. ws' = [ws EXCEPT !.ready = TRUE, !.sent = wanted]
    BY <1>1, <2>1 DEF LiveInv, PlainTypes
  <2>3. /\ m \in {<<>>, <<"subscribe">>, <<"unsubscribe">>} /\ m # <<"unsubscribe">>
        /\ m = <<"subscribe">> => wanted
        /\ toServer[c] \notin SubscribeSent
    BY <2>1, SentAreDistinct DEF SubscribeSent, UnsubscribeSent
  <2> HIDE DEF m
  <2>4. Channels' /\ SocketInv'
    BY <1>1, <1>2, <2>1, <2>2, <2>3, SendKeepsLiveInv DEF server
  <2> QED  BY <1>1, <2>1, <2>2, <2>4 DEF LiveInv, PlainTypes, server
<1> QED  BY <1>3, <1>4

\* A result that comes waits, or is taken at once.
LEMMA ReceiveTakes ==
    ASSUME LiveInv, Receive
    PROVE  Taken'
<1> DEFINE c == ws.connection
           m == Head(toClient[c])
           isResult == m.type = "result" /\ wanted
<1>1. /\ ws # NoSocket /\ toClient[c] # <<>>
      /\ isResult /\ ~ listening => Len(pending) < MaxPending
      /\ TakeNext(IF isResult THEN Append(pending, m.result) ELSE pending, listening)
  BY DEF Receive
<1>2. /\ c \in Connections /\ wanted \in BOOLEAN
      /\ toClient[c] \in Seq(Messages)
      /\ Taken
  BY <1>1, SocketFacts DEF LiveInv, Channels, PlainTypes
<1>3. m \in Messages
  BY <1>1, <1>2, TakeMessage
<1>4. isResult => m.result \in Results
  BY <1>3 DEF Messages
<1>5. /\ pending \in Seq(Results) /\ Len(pending) \in Nat /\ Len(pending) <= MaxPending
      /\ listening \in BOOLEAN
  BY <1>2 DEF Taken
<1> HIDE DEF m
<1>6. CASE isResult
  <2> DEFINE r == Append(pending, m.result)
  <2>1. r \in Seq(Results) /\ Len(r) = Len(pending) + 1
    BY <1>4, <1>5, <1>6
  <2>2. Len(r) <= MaxPending \/ (listening /\ Len(r) <= MaxPending + 1)
    BY <1>1, <1>5, <1>6, <2>1, Bounds
  <2>3. TakeNext(r, listening)
    BY <1>1, <1>6
  <2> HIDE DEF r
  <2> QED  BY <1>2, <1>5, <2>1, <2>2, <2>3, TakeNextTypes
<1>7. CASE ~ isResult
  <2>1. TakeNext(pending, listening)
    BY <1>1, <1>7
  <2> QED  BY <1>2, <1>5, <2>1, TakeNextTypes
<1> QED  BY <1>6, <1>7

LEMMA ReceiveKeepsLiveInv ==
    ASSUME LiveInv, Receive
    PROVE  PlainTypes' /\ Channels' /\ SocketInv'
<1> DEFINE c == ws.connection
           m == Head(toClient[c])
           again == m.type = "handshake" /\ wanted
           sent == ws.sent \/ again
           s == ws.sent \/ again \/ Queued("subscribe")
           out == (IF again THEN <<"subscribe">> ELSE <<>>) \o ToSend(sent)
<1>1. /\ ws # NoSocket /\ toClient[c] # <<>>
      /\ toClient' = [toClient EXCEPT ![c] = Tail(@)]
      /\ toServer' = Send(toServer, c, out)
      /\ ws' = [ws EXCEPT !.ready = TRUE, !.sent = s]
      /\ queue' = <<>>
      /\ UNCHANGED <<data, failures, wanted, link, server>>
  BY DEF Receive
<1>2. /\ c \in Connections /\ DOMAIN toClient = Connections
      /\ ws.sent \in BOOLEAN /\ ws.ready \in BOOLEAN /\ wanted \in BOOLEAN
      /\ toClient[c] \in Seq(Messages) /\ Len(toClient[c]) <= MaxMessages
  BY <1>1, SocketFacts DEF LiveInv, Channels
<1>3. /\ m = toClient[c][1] /\ m \in Messages /\ Len(toClient[c]) \in Nat \ {0}
      /\ Tail(toClient[c]) \in Seq(Messages)
      /\ Len(Tail(toClient[c])) = Len(toClient[c]) - 1
      /\ \A i \in 1 .. Len(Tail(toClient[c])) : Tail(toClient[c])[i] = toClient[c][i + 1]
  BY <1>1, <1>2, TakeMessage
<1>4. again \in BOOLEAN /\ sent \in BOOLEAN /\ s \in BOOLEAN /\ (ws.sent => sent)
  BY <1>2 DEF Queued
<1>5. again => toServer[c] = <<>>
  <2>1. again => ~ ws.ready
    BY <1>1, <1>3 DEF LiveInv, SocketInv
  <2> QED  BY <1>1, <2>1 DEF LiveInv, SocketInv
<1>6. /\ toClient'[c] \in Seq(Messages) /\ Len(toClient'[c]) <= MaxMessages
      /\ \A d \in Connections : d # c => toClient'[d] = toClient[d]
      /\ DOMAIN toClient' = Connections
  <2>1. Len(toClient[c]) - 1 <= MaxMessages
    BY <1>2, <1>3, Bounds
  <2> QED  BY <1>1, <1>2, <1>3, <2>1
<1>7. \A i \in 1 .. Len(toClient'[c]) : toClient'[c][i].type # "handshake"
  <2> SUFFICES ASSUME NEW i \in 1 .. Len(Tail(toClient[c]))
               PROVE  Tail(toClient[c])[i].type # "handshake"
    BY <1>1, <1>2
  <2>1. i + 1 \in 1 .. Len(toClient[c]) /\ i + 1 # 1
    BY <1>3
  <2> QED  BY <1>1, <1>3, <2>1 DEF LiveInv, SocketInv
<1> HIDE DEF m
<1>8. /\ ToSend(sent) \in {<<>>, <<"subscribe">>, <<"unsubscribe">>}
      /\ ToSend(sent) = <<"subscribe">> => toServer[c] = <<>> /\ Queued("subscribe")
      /\ ToSend(sent) = <<"unsubscribe">> => ~ wanted /\ queue = <<"unsubscribe">>
      /\ sent /\ wanted => ToSend(sent) = <<>>
  BY <1>1, <1>4, QueueMaySend
<1>9. /\ out \in {<<>>, <<"subscribe">>, <<"unsubscribe">>}
      /\ out = <<"subscribe">> => toServer[c] = <<>> /\ s
      /\ out = <<"unsubscribe">> => ~ wanted /\ queue = <<"unsubscribe">>
  <2>1. CASE again
    <3>1. out = <<"subscribe">>
      BY <1>8, <2>1, AddToChannel
    <3> QED  BY <1>5, <2>1, <3>1, SentAreDistinct
  <2>2. CASE ~ again
    <3>1. out = ToSend(sent)
      BY <1>8, <2>2, AddToChannel
    <3> QED  BY <1>8, <3>1
  <2> QED  BY <2>1, <2>2
<1>10. s \/ toServer[c] \notin SubscribeSent
  BY <1>1 DEF LiveInv, SocketInv
<1> HIDE DEF out, s, again, sent
<1>11. Channels' /\ SocketInv'
  BY <1>1, <1>4, <1>6, <1>7, <1>9, <1>10, SendKeepsLiveInv, ZenonT(30) DEF server
<1>12. PlainTypes'
  BY <1>1, <1>4, ReceiveTakes DEF LiveInv, PlainTypes, server
<1> QED  BY <1>11, <1>12

LEMMA CloseKeepsLiveInv ==
    ASSUME LiveInv, Close
    PROVE  PlainTypes' /\ Channels' /\ SocketInv'
<1>1. /\ toClient' = [toClient EXCEPT ![ws.connection] = <<>>]
      /\ UNCHANGED <<data, failures, wanted, queue, server>> /\ Taken'
      /\ \/ InitSocket
         \/ ws' = NoSocket /\ UNCHANGED <<link, toServer>>
  BY SameTaken DEF Close, LiveInv, PlainTypes
<1>2. \A d \in Connections : toClient'[d] = toClient[d] \/ toClient'[d] = <<>>
  BY <1>1, SocketFacts
<1>3. CASE InitSocket
  <2>1. /\ ws' \in [connection : 0 .. MaxConnections, ready : BOOLEAN, sent : BOOLEAN]
        /\ link' \in [Connections -> {"none", "up", "lost", "closed"}]
        /\ Channels' /\ SocketInv'
    BY <1>1, <1>2, <1>3, InitSocketTypes DEF server
  <2> QED  BY <1>1, <2>1 DEF LiveInv, PlainTypes, server
<1>4. CASE ws' = NoSocket /\ UNCHANGED <<link, toServer>>
  <2>1. <<>> \in Seq(Messages) /\ Len(<<>>) <= MaxMessages /\ 0 \in 0 .. MaxConnections
    BY Bounds
  <2>2. Channels'
    BY <1>1, <1>2, <1>4, <2>1 DEF LiveInv, Channels, server
  <2>3. PlainTypes'
    BY <1>1, <1>4, <2>1 DEF LiveInv, PlainTypes, NoSocket, server
  <2> QED  BY <1>4, <2>2, <2>3 DEF SocketInv, NoSocket
<1> QED  BY <1>1, <1>3, <1>4

\* The server takes a message from a channel or sends one, x.
LEMMA ServerKeepsChannels ==
    ASSUME LiveInv, NEW c \in Connections, NEW x \in Messages,
           toServer' = toServer
              \/ (toServer[c] # <<>> /\ toServer' = [toServer EXCEPT ![c] = Tail(@)]),
           \/ toClient' = toClient
           \/ Room(toClient, c) /\ toClient' = Send(toClient, c, <<x>>),
           auth' = auth \/ (toServer'[c] = <<>> /\ auth' = auth \cup {c}),
           \/ toClient' = toClient
           \/ x.type # "handshake" /\ (link[c] = "up" => toServer[c] # <<"authorization">>)
           \/ toServer[c] = <<"authorization">> /\ toServer'[c] = <<>>,
           UNCHANGED <<ws, wanted, queue>>
    PROVE  Channels' /\ SocketInv'
<1>1. DOMAIN toServer = Connections /\ DOMAIN toClient = Connections
  BY SocketFacts
<1>2. /\ \A d \in Connections : d # c => toServer'[d] = toServer[d] /\ toClient'[d] = toClient[d]
      /\ toServer'[c] = toServer[c] \/ (toServer[c] # <<>> /\ toServer'[c] = Tail(toServer[c]))
      /\ \/ toClient'[c] = toClient[c]
         \/ /\ link[c] = "up" /\ Len(toClient[c]) < MaxMessages
            /\ toClient'[c] = toClient[c] \o <<x>>
            /\ toClient' # toClient
         \/ toClient' = toClient
  BY <1>1 DEF Send, Room
<1>3. /\ toServer[c] \in Sent /\ toClient[c] \in Seq(Messages) /\ Len(toClient[c]) <= MaxMessages
      /\ toServer[c] = <<"authorization">> => c \notin auth
  BY DEF LiveInv, Channels
<1>4. /\ toServer'[c] \in Sent
      /\ toServer'[c] \in SubscribeSent => toServer[c] \in SubscribeSent
      /\ toServer'[c] \in UnsubscribeSent => toServer[c] \in UnsubscribeSent
      /\ toServer'[c] = <<"authorization">> => toServer'[c] = toServer[c]
      /\ toServer[c] \in {<<>>, <<"authorization">>} => toServer'[c] \in {<<>>, <<"authorization">>}
  <2>1. CASE toServer'[c] = toServer[c]
    BY <1>3, <2>1
  <2>2. CASE toServer[c] # <<>> /\ toServer'[c] = Tail(toServer[c])
    <3>1. CASE toServer[c] = <<"subscribe", "unsubscribe">>
      BY <2>2, <3>1, TakeFromChannel, SentAreDistinct DEF Sent, SubscribeSent, UnsubscribeSent
    <3>2. CASE toServer[c] \in {<<"authorization">>, <<"subscribe">>, <<"unsubscribe">>}
      <4>1. toServer'[c] = <<>>
        BY <2>2, <3>2, TakeFromChannel
      <4> QED  BY <4>1, SentAreDistinct DEF Sent
    <3> QED  BY <1>3, <2>2, <3>1, <3>2 DEF Sent, SubscribeSent, UnsubscribeSent
  <2> QED  BY <1>2, <2>1, <2>2
<1>5. toClient'[c] \in Seq(Messages) /\ Len(toClient'[c]) <= MaxMessages
  <2>1. CASE toClient'[c] = toClient[c]
    BY <1>3, <2>1
  <2>2. CASE Len(toClient[c]) < MaxMessages /\ toClient'[c] = toClient[c] \o <<x>>
    BY <1>3, <2>2, AppendMessage, Bounds
  <2> QED  BY <1>2, <2>1, <2>2
<1>6. Channels'
  <2>1. ASSUME NEW d \in Connections
        PROVE  /\ toServer'[d] \in Sent
               /\ toServer'[d] = <<"authorization">> => d \notin auth'
               /\ toClient'[d] \in Seq(Messages) /\ Len(toClient'[d]) <= MaxMessages
    <3>1. CASE d = c
      BY <1>3, <1>4, <1>5, <3>1, SentAreDistinct
    <3>2. CASE d # c
      BY <1>2, <3>2 DEF LiveInv, Channels
    <3> QED  BY <3>1, <3>2
  <2> QED  BY <2>1 DEF LiveInv, Channels
<1>7. SocketInv'
  <2>1. CASE ws = NoSocket \/ ws.connection # c
    <3>1. ws # NoSocket => ws.connection \in Connections
      BY SocketFacts
    <3> QED  BY <1>2, <2>1, <3>1 DEF LiveInv, SocketInv
  <2>2. CASE ws # NoSocket /\ ws.connection = c
    <3>1. /\ toServer[c] \in SubscribeSent => ws.sent
          /\ toServer[c] \in UnsubscribeSent => ~ wanted /\ queue = <<>>
          /\ ws.ready => toServer[c] # <<"authorization">>
          /\ ~ ws.ready => toServer[c] \in {<<>>, <<"authorization">>}
          /\ toServer[c] = <<"authorization">> => toClient[c] = <<>>
          /\ \A i \in 1 .. Len(toClient[c]) :
                toClient[c][i].type = "handshake" => i = 1 /\ ~ ws.ready
      BY <2>2 DEF LiveInv, SocketInv
    <3>2. CASE toClient'[c] = toClient[c]
      BY <1>4, <2>2, <3>1, <3>2 DEF SocketInv
    <3>3. CASE /\ link[c] = "up" /\ toClient' # toClient
               /\ toClient'[c] = toClient[c] \o <<x>>
      <4>1. toServer'[c] # <<"authorization">>
        BY <1>4, <3>3, SentAreDistinct
      <4>2. /\ Len(toClient'[c]) = Len(toClient[c]) + 1
            /\ \A i \in 1 .. Len(toClient[c]) : toClient'[c][i] = toClient[c][i]
            /\ toClient'[c][Len(toClient[c]) + 1] = x
        BY <1>3, <3>3, AppendMessage
      <4>3. x.type = "handshake" => Len(toClient[c]) = 0 /\ ~ ws.ready
        BY <3>1, <3>3
      <4>4. \A i \in 1 .. Len(toClient'[c]) :
              toClient'[c][i].type = "handshake" => i = 1 /\ ~ ws.ready
        <5> TAKE i \in 1 .. Len(toClient'[c])
        <5>1. CASE i \in 1 .. Len(toClient[c])
          BY <3>1, <4>2, <5>1
        <5>2. CASE i = Len(toClient[c]) + 1
          BY <4>2, <4>3, <5>2
        <5>3. Len(toClient[c]) \in Nat
          BY <1>3
        <5> QED  BY <4>2, <5>1, <5>2, <5>3
      <4> QED  BY <1>4, <2>2, <3>1, <4>1, <4>4 DEF SocketInv
    <3> QED  BY <1>2, <3>2, <3>3
  <2> QED  BY <2>1, <2>2
<1> QED  BY <1>6, <1>7

LEMMA LoadTypes ==
    ASSUME LiveInv, NEW c \in Connections, NEW t \in Tasks, Load(c, t)
    PROVE  /\ task' \in [Connections -> [Tasks -> TaskStates]]
           /\ failures' \in 0 .. MaxFailures
<1>1. Loaded(data) \in TaskStates /\ Loaded(Failed) \in TaskStates
  BY DEF LiveInv, PlainTypes, TaskStates, Results
<1>2. failures' \in 0 .. MaxFailures
  BY Bounds DEF Load, LiveInv, PlainTypes
<1>3. task' \in [Connections -> [Tasks -> TaskStates]]
  <2>1. PICK x \in TaskStates : task' = [task EXCEPT ![c][t] = x]
    BY <1>1 DEF Load
  <2> QED  BY <2>1 DEF LiveInv, PlainTypes
<1> QED  BY <1>2, <1>3

LEMMA ServerKeepsLiveInv ==
    ASSUME LiveInv, NEW c \in Connections,
           ProcessMessage(c) \/ ProcessSubscription(c) \/ \E t \in Tasks : Answer(c, t)
    PROVE  PlainTypes' /\ Channels' /\ SocketInv'
<1>1. /\ DOMAIN toServer = Connections
      /\ toServer[c] \in Sent
      /\ \A k \in {"handshake", "processed"} :
            Message(k, Nothing) \in Messages /\ Message(k, Nothing).type = k
      /\ \A v \in Results :
            Message("result", v) \in Messages /\ Message("result", v).type = "result"
  BY SocketFacts DEF LiveInv, Channels, Messages, Message
<1>2. state \in [Connections -> Versions \cup {Nothing}] /\ Taken'
  BY SameTaken DEF ProcessMessage, ProcessSubscription, Answer, client, LiveInv, PlainTypes
<1>3. CASE ProcessMessage(c)
  <2>1. /\ toServer[c] # <<>> /\ toServer' = [toServer EXCEPT ![c] = Tail(@)]
        /\ Room(toClient, c)
        /\ UNCHANGED <<data, client, link>>
    BY <1>3 DEF ProcessMessage
  <2>2. CASE Authorize(c)
    <3>1. toServer[c] = <<"authorization">> /\ toServer'[c] = <<>>
      BY <1>1, <2>1, <2>2, TakeFromChannel DEF Authorize, Sent, SubscribeSent, UnsubscribeSent
    <3>2. Channels' /\ SocketInv'
      BY <1>1, <1>2, <2>1, <2>2, <3>1, ServerKeepsChannels DEF Authorize, client
    <3> QED  BY <1>2, <2>1, <2>2, <3>2 DEF LiveInv, PlainTypes, Authorize, client
  <2>3. CASE HandleUnsubscribe(c)
    <3>1. Channels' /\ SocketInv'
      BY <1>1, <1>2, <2>1, <2>3, ServerKeepsChannels DEF HandleUnsubscribe, client
    <3> QED  BY <1>2, <2>1, <2>3, <3>1 DEF LiveInv, PlainTypes, HandleUnsubscribe, Forget, client
  <2>4. CASE HandleSubscribe(c)
    <3>1. Channels' /\ SocketInv'
      BY <1>1, <1>2, <2>1, <2>4, ServerKeepsChannels DEF HandleSubscribe, client
    <3>2. task' \in [Connections -> [Tasks -> TaskStates]] /\ failures' \in 0 .. MaxFailures
      BY <2>4, LoadTypes DEF HandleSubscribe, Tasks
    <3> QED  BY <1>2, <2>1, <2>4, <3>1, <3>2 DEF LiveInv, PlainTypes, HandleSubscribe, client
  <2> QED  BY <1>3, <2>2, <2>3, <2>4 DEF ProcessMessage
<1>4. CASE ProcessSubscription(c)
  <2>1. Channels' /\ SocketInv'
    BY <1>1, <1>2, <1>4, ServerKeepsChannels DEF ProcessSubscription, client, net
  <2>2. task' \in [Connections -> [Tasks -> TaskStates]] /\ failures' \in 0 .. MaxFailures
    BY <1>4, LoadTypes DEF ProcessSubscription, Tasks
  <2> QED  BY <1>2, <1>4, <2>1, <2>2 DEF LiveInv, PlainTypes, ProcessSubscription, client, net
<1>5. ASSUME NEW t \in Tasks, Answer(c, t)
      PROVE  PlainTypes' /\ Channels' /\ SocketInv'
  <2> DEFINE v == task[c][t].result
             x == IF v = state[c] THEN Message("processed", Nothing) ELSE Message("result", v)
  <2>1. /\ task[c][t].at = "loaded" /\ Room(toClient, c)
        /\ toClient' = Send(toClient, c, <<x>>)
        /\ state' = [state EXCEPT ![c] = IF v = Failed THEN Nothing ELSE v]
        /\ subscribed' = subscribed \cup {c}
        /\ task' = [task EXCEPT ![c][t] = Idle]
        /\ UNCHANGED <<data, failures, client, link, toServer, auth>>
    BY <1>5 DEF Answer
  <2>2. v \in Results /\ task[c][t] # Idle
    <3>1. task[c][t] \in TaskStates
      BY DEF LiveInv, PlainTypes
    <3> QED  BY <2>1, <3>1 DEF TaskStates, Idle, Loaded
  <2>3. x \in Messages /\ x.type # "handshake"
    BY <1>1, <1>2, <2>2
  <2>4. link[c] = "up" => toServer[c] # <<"authorization">>
    BY <2>2 DEF LiveInv, Channels, AuthInv, UnknownIsSilent
  <2> HIDE DEF x
  <2>5. Channels' /\ SocketInv'
    BY <2>1, <2>3, <2>4, ServerKeepsChannels DEF client
  <2>6. state' \in [Connections -> Versions \cup {Nothing}]
    BY <1>2, <2>1, <2>2 DEF Results
  <2>7. task' \in [Connections -> [Tasks -> TaskStates]]
    BY <2>1 DEF LiveInv, PlainTypes, TaskStates
  <2> QED  BY <1>2, <2>1, <2>5, <2>6, <2>7 DEF LiveInv, PlainTypes, client
<1> QED  BY <1>3, <1>4, <1>5

LEMMA LinksKeepLiveInv ==
    ASSUME LiveInv, NEW c \in Connections, Disconnect(c) \/ Expire(c) \/ LoseLink(c)
    PROVE  PlainTypes' /\ Channels' /\ SocketInv'
<1>1. /\ UNCHANGED <<data, failures, wanted, queue, ws, taken, toClient, task>>
      /\ toServer' = toServer \/ toServer' = [toServer EXCEPT ![c] = <<>>]
      /\ auth' \subseteq auth
  BY DEF Disconnect, Expire, LoseLink, client, server, net
<1>2. \A d \in Connections : toServer'[d] = toServer[d] \/ toServer'[d] = <<>>
  BY <1>1, SocketFacts
<1>3. Channels'
  BY <1>1, <1>2, SentAreDistinct DEF LiveInv, Channels, Sent
<1>4. SocketInv'
  <2>1. ws # NoSocket => ws.connection \in Connections
    BY SocketFacts
  <2> QED  BY <1>1, <1>2, <2>1, SentAreDistinct DEF LiveInv, SocketInv
<1>5. /\ state' \in [Connections -> Versions \cup {Nothing}]
      /\ link' \in [Connections -> {"none", "up", "lost", "closed"}]
      /\ subscribed' \subseteq Connections
  BY DEF Disconnect, Expire, LoseLink, Forget, client, server, net, LiveInv, PlainTypes
<1>6. PlainTypes'
  BY <1>1, <1>5, SameTaken DEF LiveInv, PlainTypes
<1> QED  BY <1>3, <1>4, <1>6

LEMMA NextKeepsLiveInv == LiveInv /\ [Next]_vars => LiveInv'
<1> SUFFICES ASSUME LiveInv, [Next]_vars PROVE LiveInv'
  OBVIOUS
<1>1. AuthInv'
  BY AuthInvNext DEF LiveInv
<1>2. CASE UNCHANGED vars
  BY <1>1, <1>2, SameTaken DEF vars, client, net, server, LiveInv, PlainTypes, Channels, SocketInv
<1>3. CASE UpdateData
  <2>1. data' \in Versions
    BY <1>3, Bounds DEF UpdateData, LiveInv, PlainTypes, Versions
  <2> QED
    BY <1>1, <1>3, <2>1, SameTaken
    DEF UpdateData, client, net, server, LiveInv, PlainTypes, Channels, SocketInv
<1>4. ASSUME PlainTypes' /\ Channels' /\ SocketInv' PROVE LiveInv'
  BY <1>1, <1>4 DEF LiveInv
<1>5. CASE Subscribe \/ SubscribeNext \/ Unsubscribe
  BY <1>4, <1>5, CallbackKeepsLiveInv
<1>6. CASE SendQueue \/ HeartBeat
  BY <1>4, <1>6, TimersKeepLiveInv
<1>7. CASE Receive
  BY <1>4, <1>7, ReceiveKeepsLiveInv
<1>8. CASE Close
  BY <1>4, <1>8, CloseKeepsLiveInv
<1>9. CASE \E c \in Connections :
              \/ Serve(c) \/ ProcessSubscription(c) \/ LoseLink(c)
              \/ \E t \in Tasks : Answer(c, t)
  BY <1>4, <1>9, ServerKeepsLiveInv, LinksKeepLiveInv DEF Serve
<1> QED  BY <1>2, <1>3, <1>5, <1>6, <1>7, <1>8, <1>9 DEF Next

\* Every variable has its type, and no channel holds more than its bound, though
\* only the server looks whether there is room: WebSocketTransport remembers what
\* it has sent (messageIdSent), and handshakes, heartbeats and its queue do not
\* repeat it.
THEOREM LiveQueryTypes == Spec => []TypeOK
BY InitLiveInv, NextKeepsLiveInv, LiveInvTypes, PTL DEF Spec
=============================================================================
