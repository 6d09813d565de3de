-------------------------- MODULE ClientConnection --------------------------
(***************************************************************************)
(* The clients of src/common/client.ts with the subscription registry of   *)
(* src/common/subscription-manager.ts, the AGV client (client/agv-client)  *)
(* and the master control client (client/master-control-client), joined by *)
(* an MQTT broker whose connections break.  An AGV client reports its      *)
(* connection state in a retained message: ONLINE when it starts, OFFLINE  *)
(* before it stops, and CONNECTIONBROKEN by the last will the broker holds *)
(* for it.  A master control client tracks these messages.                 *)
(*                                                                         *)
(* The broker and the transport (mqtt.js) are not part of the repository;  *)
(* they are modelled from how client.ts uses them: packets of a connection *)
(* stay in order, a break loses those in flight and rejects the requests   *)
(* that wait for an acknowledgement, a broker notices a break some time    *)
(* later or when the same client identifier connects again, and a session  *)
(* is clean (clean: true, resubscribe: false).                             *)
(***************************************************************************)
EXTENDS Naturals, Sequences, FiniteSets, SequencesExt

CONSTANTS
    Agvs,       \* AGV clients
    Masters,    \* master control clients
    Topics,     \* topics the application subscribes to
    SubIds,     \* subscription identifiers of the application
    NoClient,   \* no client: a subscription that does not exist yet
    MaxStarts,  \* bound on start operations
    MaxBreaks   \* bound on broken connections and process crashes

Clients == Agvs \cup Masters

\* The subscription a master control client issues when it starts, and the
\* request that resubscribes all topics after a reconnection.
TrackId == "track"
ResubscribeId == "resubscribe"

ASSUME ClientAssumption ==
    /\ Agvs \cap Masters = {}
    /\ NoClient \notin Agvs \cup Masters
    /\ {TrackId, ResubscribeId} \cap SubIds = {}
    /\ MaxStarts \in Nat
    /\ MaxBreaks \in Nat

VARIABLES
    life,       \* where a client is between start and stop
    connected,  \* mqtt.connected
    registry,   \* the handlers of the subscription manager: [id, topic]
    awaiting,   \* subscriptions with an unacknowledged (un)subscribe packet
    sub,        \* what the application knows of its subscriptions
    tracked,    \* _connectionStates of a master control client
    session,    \* the broker's session of a client
    retained,   \* the broker's retained connection message of an AGV
    orphans,    \* sessions of crashed AGV processes the broker still holds
    up, down,   \* packets in flight to the broker and to the client
    starts, breaks

clientVars == << life, connected, registry, awaiting, sub, tracked >>
brokerVars == << session, retained, orphans >>
bounds     == << starts, breaks >>
vars       == << clientVars, brokerVars, up, down, bounds >>

\* _isStarted holds from "started" to "stopping", _isStopping in "stopping";
\* mqtt.end was called in "ending" and has sent its DISCONNECT in "closing".
Life == {"stopped", "connecting", "started", "stopping", "ending", "closing"}

ConnectionState == {"ONLINE", "OFFLINE", "CONNECTIONBROKEN"}
Unknown == "UNKNOWN"

SubState == {"new", "pending", "subscribed", "rejected",
             "removing", "removed", "failed", "gone"}

\* Which topics a client may subscribe to; others throw a TypeError.
Inbound(c) == IF c \in Agvs THEN {"instantActions", "order"}
              ELSE {"connection", "factsheet", "state", "visualization"}

Closed == [open |-> FALSE, topics |-> {}]
Opened == [open |-> TRUE, topics |-> {}]

Subscribe(ts, id)   == [type |-> "subscribe", topics |-> ts, id |-> id]
Unsubscribe(ts, id) == [type |-> "unsubscribe", topics |-> ts, id |-> id]
Publish(a, s)       == [type |-> "publish", agv |-> a, state |-> s]
Disconnect          == [type |-> "disconnect"]
Ack(id)             == [type |-> "ack", id |-> id]

Init ==
    /\ life = [c \in Clients |-> "stopped"]
    /\ connected = [c \in Clients |-> FALSE]
    /\ registry = [c \in Clients |-> {}]
    /\ awaiting = [c \in Clients |-> {}]
    /\ sub = [i \in SubIds |-> [state |-> "new", client |-> NoClient, topic |-> "none"]]
    /\ tracked = [m \in Masters |-> [a \in Agvs |-> Unknown]]
    /\ session = [c \in Clients |-> Closed]
    /\ retained = [a \in Agvs |-> Unknown]
    /\ orphans = [a \in Agvs |-> 0]
    /\ up = [c \in Clients |-> <<>>]
    /\ down = [c \in Clients |-> <<>>]
    /\ starts = 0
    /\ breaks = 0

-----------------------------------------------------------------------------
(***************************************************************************)
(* The subscription manager.                                               *)
(***************************************************************************)

\* Topics with at least one handler: getAll skips the maps that became empty.
RegisteredTopics(handlers) == {h.topic : h \in handlers}

\* add and remove: whether the topic needs (un)subscribing at the broker.
RequiresSubscribe(handlers, t) == t \notin RegisteredTopics(handlers)

\* Fault (SubscriptionsMatchHandlers): other handlers of the topic are ignored.
AlwaysUnsubscribes(handlers, h) == h \in handlers

RequiresUnsubscribe(handlers, h) == h.topic \notin RegisteredTopics(handlers \ {h})

-----------------------------------------------------------------------------
(***************************************************************************)
(* The broker.                                                             *)
(***************************************************************************)

Reachable(c) == session[c].open /\ connected[c]

\* The connection state of a is stored and forwarded to its subscribers.
Retain(a, s) ==
    /\ retained' = [retained EXCEPT ![a] = s]
    /\ down' = [c \in Clients |->
                  IF Reachable(c) /\ "connection" \in session[c].topics
                  THEN Append(down[c], Publish(a, s)) ELSE down[c]]

\* The broker gives up a session that was not closed by a DISCONNECT.
LastWill(c) ==
    IF c \in Agvs /\ session[c].open
    THEN Retain(c, "CONNECTIONBROKEN")
    ELSE UNCHANGED << retained, down >>

RetainedMessages ==
    SetToSeq({Publish(a, retained[a]) : a \in {b \in Agvs : retained[b] # Unknown}})

BrokerSubscribe(c, p) ==
    /\ session' = [session EXCEPT ![c].topics = @ \cup p.topics]
    /\ down' = [down EXCEPT ![c] = @ \o << Ack(p.id) >> \o
                  (IF "connection" \in p.topics THEN RetainedMessages ELSE <<>>)]
    /\ UNCHANGED retained

BrokerUnsubscribe(c, p) ==
    /\ session' = [session EXCEPT ![c].topics = @ \ p.topics]
    /\ down' = [down EXCEPT ![c] = Append(@, Ack(p.id))]
    /\ UNCHANGED retained

BrokerPublish(p) == Retain(p.agv, p.state) /\ UNCHANGED session

BrokerDisconnect(c) ==
    /\ session' = [session EXCEPT ![c] = Closed]
    /\ UNCHANGED << retained, down >>

BrokerReceive(c) ==
    /\ session[c].open /\ up[c] # <<>>
    /\ up' = [up EXCEPT ![c] = Tail(@)]
    /\ \E p \in {Head(up[c])} :
        \/ p.type = "subscribe" /\ BrokerSubscribe(c, p)
        \/ p.type = "unsubscribe" /\ BrokerUnsubscribe(c, p)
        \/ p.type = "publish" /\ BrokerPublish(p)
        \/ p.type = "disconnect" /\ BrokerDisconnect(c)
    /\ UNCHANGED << clientVars, orphans, bounds >>

\* The broker notices that the connection of a session is gone.
BrokerDetectBreak(c) ==
    /\ session[c].open /\ ~connected[c]
    /\ LastWill(c)
    /\ session' = [session EXCEPT ![c] = Closed]
    /\ UNCHANGED << clientVars, orphans, up, bounds >>

\* The same for the session of a process that crashed.
BrokerDetectCrash(a) ==
    /\ orphans[a] > 0
    /\ orphans' = [orphans EXCEPT ![a] = @ - 1]
    /\ Retain(a, "CONNECTIONBROKEN")
    /\ UNCHANGED << clientVars, session, up, bounds >>

-----------------------------------------------------------------------------
(***************************************************************************)
(* Starting, reconnecting and losing the connection.                       *)
(***************************************************************************)

\* The outcome of the requests in ids that wait for their acknowledgement.
Settled(ids, fails) ==
    [i \in SubIds |->
       IF i \notin ids THEN sub[i]
       ELSE [sub[i] EXCEPT !.state =
               CASE @ = "pending" -> (IF fails THEN "rejected" ELSE "subscribed")
                 [] @ = "removing" -> (IF fails THEN "failed" ELSE "removed")
                 [] OTHER -> @]]

Start(c) ==
    /\ life[c] = "stopped" /\ starts < MaxStarts
    /\ life' = [life EXCEPT ![c] = "connecting"]
    /\ starts' = starts + 1
    /\ UNCHANGED << connected, registry, awaiting, sub, tracked, brokerVars, up, down, breaks >>

\* The initial connection attempt fails: start rejects.
ConnectFailed(c) ==
    /\ life[c] = "connecting"
    /\ life' = [life EXCEPT ![c] = "stopped"]
    /\ UNCHANGED << connected, registry, awaiting, sub, tracked, brokerVars, up, down, bounds >>

\* A clean session; a former one of the same client identifier is taken over.
OpenSession(c) ==
    /\ LastWill(c)
    /\ session' = [session EXCEPT ![c] = Opened]
    /\ connected' = [connected EXCEPT ![c] = TRUE]

\* onStarted of an AGV client: report that it is online.
OnAgvStarted(a) ==
    /\ up' = [up EXCEPT ![a] = << Publish(a, "ONLINE") >>]
    /\ UNCHANGED << registry, awaiting >>

\* onStarted of a master control client: subscribe to the connection topic.
OnMasterStarted(m) ==
    /\ registry' = [registry EXCEPT ![m] = @ \cup {[id |-> TrackId, topic |-> "connection"]}]
    /\ awaiting' = [awaiting EXCEPT ![m] = {TrackId}]
    /\ up' = [up EXCEPT ![m] = << Subscribe({"connection"}, TrackId) >>]

Connected(c) ==
    /\ life[c] = "connecting"
    /\ life' = [life EXCEPT ![c] = "started"]
    /\ OpenSession(c)
    /\ \/ c \in Agvs /\ OnAgvStarted(c)
       \/ c \in Masters /\ OnMasterStarted(c)
    /\ UNCHANGED << sub, tracked, orphans, bounds >>

\* Fault (TrackingConverges): nothing is resubscribed.
ReconnectedWithoutTopics(c) ==
    /\ life[c] = "started" /\ ~connected[c]
    /\ OpenSession(c)
    /\ UNCHANGED << life, registry, awaiting, sub, tracked, orphans, up, bounds >>

\* Resubscription comes before anything that was queued while offline;
\* onStarted is not invoked again.
Reconnected(c) ==
    /\ life[c] = "started" /\ ~connected[c]
    /\ OpenSession(c)
    /\ IF registry[c] = {}
       THEN UNCHANGED << awaiting, up >>
       ELSE /\ awaiting' = [awaiting EXCEPT ![c] = {ResubscribeId}]
            /\ up' = [up EXCEPT ![c] =
                        << Subscribe(RegisteredTopics(registry[c]), ResubscribeId) >>]
    /\ UNCHANGED << life, registry, sub, tracked, orphans, bounds >>

\* Fault (RequestsSettle): a break does not reject the requests that wait.
BreakKeepsRequests(c) ==
    /\ connected[c] /\ breaks < MaxBreaks
    /\ breaks' = breaks + 1
    /\ connected' = [connected EXCEPT ![c] = FALSE]
    /\ up' = [up EXCEPT ![c] = <<>>]
    /\ down' = [down EXCEPT ![c] = <<>>]
    /\ UNCHANGED << life, registry, awaiting, sub, tracked, brokerVars, starts >>

ConnectionBreaks(c) ==
    /\ connected[c] /\ breaks < MaxBreaks
    /\ breaks' = breaks + 1
    /\ connected' = [connected EXCEPT ![c] = FALSE]
    /\ sub' = Settled(awaiting[c], TRUE)
    /\ awaiting' = [awaiting EXCEPT ![c] = {}]
    /\ up' = [up EXCEPT ![c] = <<>>]
    /\ down' = [down EXCEPT ![c] = <<>>]
    /\ UNCHANGED << life, registry, tracked, brokerVars, starts >>

-----------------------------------------------------------------------------
(***************************************************************************)
(* Subscriptions of the application and inbound packets.                   *)
(***************************************************************************)

IsStarted(c) == life[c] \in {"started", "stopping"}

SubscribeTopic(c, i, t) ==
    /\ IsStarted(c) /\ sub[i].state = "new" /\ t \in Inbound(c)
    /\ registry' = [registry EXCEPT ![c] = @ \cup {[id |-> i, topic |-> t]}]
    /\ IF RequiresSubscribe(registry[c], t) /\ connected[c]
       THEN /\ sub' = [sub EXCEPT ![i] = [state |-> "pending", client |-> c, topic |-> t]]
            /\ awaiting' = [awaiting EXCEPT ![c] = @ \cup {i}]
            /\ up' = [up EXCEPT ![c] = Append(@, Subscribe({t}, i))]
       ELSE /\ sub' = [sub EXCEPT ![i] = [state |-> "subscribed", client |-> c, topic |-> t]]
            /\ UNCHANGED << awaiting, up >>
    /\ UNCHANGED << life, connected, tracked, brokerVars, down, bounds >>

UnsubscribeTopic(c, i) ==
    /\ IsStarted(c) /\ sub[i].state = "subscribed" /\ sub[i].client = c
    /\ \E h \in {[id |-> i, topic |-> sub[i].topic]} :
        /\ registry' = [registry EXCEPT ![c] = @ \ {h}]
        /\ IF RequiresUnsubscribe(registry[c], h) /\ connected[c]
           THEN /\ sub' = [sub EXCEPT ![i].state = "removing"]
                /\ awaiting' = [awaiting EXCEPT ![c] = @ \cup {i}]
                /\ up' = [up EXCEPT ![c] = Append(@, Unsubscribe({h.topic}, i))]
           ELSE /\ sub' = [sub EXCEPT ![i].state = "removed"]
                /\ UNCHANGED << awaiting, up >>
    /\ UNCHANGED << life, connected, tracked, brokerVars, down, bounds >>

\* remove returns undefined for an identifier that is already unsubscribed;
\* taking it apart throws within the promise, which rejects.
UnsubscribeAgain(c, i) ==
    /\ IsStarted(c) /\ sub[i].state = "removed" /\ sub[i].client = c
    /\ sub' = [sub EXCEPT ![i].state = "failed"]
    /\ UNCHANGED << life, connected, registry, awaiting, tracked, brokerVars, up, down, bounds >>

\* Fault (StopCompletes): an acknowledged request stays outstanding.
AckStaysOutstanding(c, p) ==
    /\ sub' = Settled({p.id} \cap awaiting[c], FALSE)
    /\ UNCHANGED << awaiting, tracked >>

\* The acknowledgement resolves the promise of the request.
ReceiveAck(c, p) ==
    /\ sub' = Settled({p.id} \cap awaiting[c], FALSE)
    /\ awaiting' = [awaiting EXCEPT ![c] = @ \ {p.id}]
    /\ UNCHANGED tracked

\* _dispatchMessage invokes the handlers registered for the topic, that of
\* onStarted among them.
Dispatch(c, p) ==
    /\ tracked' = IF \E h \in registry[c] : h.id = TrackId
                  THEN [tracked EXCEPT ![c][p.agv] = p.state] ELSE tracked
    /\ UNCHANGED << sub, awaiting >>

ClientReceive(c) ==
    /\ down[c] # <<>>
    /\ down' = [down EXCEPT ![c] = Tail(@)]
    /\ \E p \in {Head(down[c])} :
        \/ p.type = "ack" /\ ReceiveAck(c, p)
        \/ p.type = "publish" /\ Dispatch(c, p)
    /\ UNCHANGED << life, connected, registry, brokerVars, up, bounds >>

-----------------------------------------------------------------------------
(***************************************************************************)
(* Stopping and crashing.                                                  *)
(***************************************************************************)

\* Fault (StoppedNotOnline): an AGV client does not say that it goes offline.
StopSilently(c) ==
    /\ life[c] = "started"
    /\ life' = [life EXCEPT ![c] = "ending"]
    /\ UNCHANGED << connected, registry, awaiting, sub, tracked, brokerVars, up, down, bounds >>

\* onStopping publishes OFFLINE and is awaited until the packet is handed to
\* the transport.  While offline mqtt.js queues the message and mqtt.end drops
\* it; that, and the empty onStopping of a master, takes no time.
Stop(c) ==
    /\ life[c] = "started"
    /\ IF c \in Agvs /\ connected[c]
       THEN /\ life' = [life EXCEPT ![c] = "stopping"]
            /\ up' = [up EXCEPT ![c] = Append(@, Publish(c, "OFFLINE"))]
       ELSE life' = [life EXCEPT ![c] = "ending"] /\ UNCHANGED up
    /\ UNCHANGED << connected, registry, awaiting, sub, tracked, brokerVars, down, bounds >>

OfflinePublished(c) ==
    /\ life[c] = "stopping"
    /\ life' = [life EXCEPT ![c] = "ending"]
    /\ UNCHANGED << connected, registry, awaiting, sub, tracked, brokerVars, up, down, bounds >>

\* mqtt.end(false) waits for the acknowledgements that are outstanding.
EndConnection(c) ==
    /\ life[c] = "ending" /\ connected[c] /\ awaiting[c] = {}
    /\ life' = [life EXCEPT ![c] = "closing"]
    /\ up' = [up EXCEPT ![c] = Append(@, Disconnect)]
    /\ UNCHANGED << connected, registry, awaiting, sub, tracked, brokerVars, down, bounds >>

\* What reset forgets, and what is lost with the process.
Forget(c) ==
    /\ life' = [life EXCEPT ![c] = "stopped"]
    /\ connected' = [connected EXCEPT ![c] = FALSE]
    /\ registry' = [registry EXCEPT ![c] = {}]
    /\ awaiting' = [awaiting EXCEPT ![c] = {}]
    /\ sub' = [i \in SubIds |-> IF sub[i].client = c THEN [sub[i] EXCEPT !.state = "gone"]
                                ELSE sub[i]]
    /\ tracked' = IF c \in Masters THEN [tracked EXCEPT ![c] = [a \in Agvs |-> Unknown]]
                  ELSE tracked
    /\ up' = [up EXCEPT ![c] = <<>>]
    /\ down' = [down EXCEPT ![c] = <<>>]

\* The end callback of _disconnect: stop resolves.
Disconnected(c) ==
    /\ \/ life[c] = "closing" /\ ~session[c].open
       \/ life[c] \in {"ending", "closing"} /\ ~connected[c]
    /\ Forget(c)
    /\ UNCHANGED << brokerVars, bounds >>

\* The process ends without notice; a new one has a new client identifier.
Crash(c) ==
    /\ life[c] # "stopped" /\ breaks < MaxBreaks
    /\ breaks' = breaks + 1
    /\ Forget(c)
    /\ session' = [session EXCEPT ![c] = Closed]
    /\ orphans' = IF c \in Agvs /\ session[c].open THEN [orphans EXCEPT ![c] = @ + 1]
                  ELSE orphans
    /\ UNCHANGED << retained, starts >>

-----------------------------------------------------------------------------
Operation(c) ==
    \/ Start(c)
    \/ Stop(c)
    \/ \E i \in SubIds :
        \/ \E t \in Topics : SubscribeTopic(c, i, t)
        \/ UnsubscribeTopic(c, i)
        \/ UnsubscribeAgain(c, i)

Progress(c) ==
    \/ Connected(c)
    \/ Reconnected(c)
    \/ ClientReceive(c)
    \/ OfflinePublished(c)
    \/ EndConnection(c)
    \/ Disconnected(c)
    \/ BrokerReceive(c)
    \/ BrokerDetectBreak(c)

Failure(c) == ConnectFailed(c) \/ ConnectionBreaks(c) \/ Crash(c)

Next ==
    \/ \E c \in Clients : Operation(c) \/ Progress(c) \/ Failure(c)
    \/ \E a \in Agvs : BrokerDetectCrash(a)

\* The transport reconnects, the broker and the clients handle what they have
\* received, and the broker's keep alive detects what has gone.
Fairness ==
    /\ \A c \in Clients :
        /\ WF_vars(Connected(c))
        /\ WF_vars(Reconnected(c))
        /\ WF_vars(ClientReceive(c))
        /\ WF_vars(OfflinePublished(c))
        /\ WF_vars(EndConnection(c))
        /\ WF_vars(Disconnected(c))
        /\ WF_vars(BrokerReceive(c))
        /\ WF_vars(BrokerDetectBreak(c))
    /\ \A a \in Agvs : WF_vars(BrokerDetectCrash(a))

Spec == Init /\ [][Next]_vars /\ Fairness

-----------------------------------------------------------------------------
(***************************************************************************)
(* Properties.                                                             *)
(***************************************************************************)

\* Every variable has its type: the clients' and the broker's state.
TypeOK ==
    /\ life \in [Clients -> Life]
    /\ connected \in [Clients -> BOOLEAN]
    /\ \A c \in Clients :
        /\ registry[c] \subseteq [id : SubIds \cup {TrackId}, topic : Inbound(c)]
        /\ awaiting[c] \subseteq {h.id : h \in registry[c]} \cup {ResubscribeId} \cup
                                 {i \in SubIds : sub[i].state = "removing"}
        /\ session[c].topics \subseteq Inbound(c)
    /\ \A i \in SubIds : sub[i].state \in SubState
    /\ tracked \in [Masters -> [Agvs -> ConnectionState \cup {Unknown}]]
    /\ retained \in [Agvs -> ConnectionState \cup {Unknown}]
    /\ starts \in 0..MaxStarts /\ breaks \in 0..MaxBreaks

\* However subscribing, unsubscribing and reconnecting interleave: once the
\* packets a connected client sent have arrived, the broker forwards exactly
\* the topics that have a handler (_connect, subscribeTopic, unsubscribe).
SubscriptionsMatchHandlers ==
    \A c \in Clients :
        IsStarted(c) /\ Reachable(c) /\ up[c] = <<>>
            => session[c].topics = RegisteredTopics(registry[c])

\* An AGV client that is stopped is not reported online once the broker has
\* given up its sessions: either it said that it goes offline or the last will
\* says that its connection broke (onStopping, getLastWillTopic).
StoppedNotOnline ==
    \A a \in Agvs :
        life[a] = "stopped" /\ ~session[a].open /\ orphans[a] = 0
            => retained[a] # "ONLINE"

\* A started master control client ends up with the connection states that
\* the broker retains, whatever was lost on the way (onStarted, _connect).
TrackingConverges ==
    \A m \in Masters, a \in Agvs :
        <>[](life[m] = "started" /\ retained[a] # Unknown => tracked[m][a] = retained[a])

\* Stopping a client comes to an end, also when requests are outstanding or
\* the connection breaks meanwhile (stop, _disconnect).
StopCompletes == \A c \in Clients : life[c] \in {"stopping", "ending"} ~> life[c] = "stopped"

\* The promises of subscribe and unsubscribe do not stay pending.
RequestsSettle ==
    \A i \in SubIds : sub[i].state \in {"pending", "removing"}
                          ~> sub[i].state \notin {"pending", "removing"}

=============================================================================
