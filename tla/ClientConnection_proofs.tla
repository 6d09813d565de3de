----------------------- MODULE ClientConnection_proofs -----------------------
(***************************************************************************)
(* What the clients of ClientConnection keep in every instance: however    *)
(* many clients, topics, restarts and broken connections there are, the    *)
(* broker forwards the topics that have a handler once it has received     *)
(* what a client sent, and an AGV client that is stopped is not reported   *)
(* as online.                                                              *)
(*                                                                         *)
(* Both rest on what the packets in flight will make of the broker's       *)
(* state: the last packet that mentions a topic decides whether the topic  *)
(* will be subscribed, and the last connection message decides what will   *)
(* be retained.                                                            *)
(***************************************************************************)
EXTENDS ClientConnection, TLAPS

-----------------------------------------------------------------------------
(***************************************************************************)
(* Types of the state that the two properties depend on.                   *)
(***************************************************************************)

\* The topics of all clients, and that of a subscription not yet made.
TopicName == {"instantActions", "order", "connection", "factsheet", "state",
              "visualization", "none"}

RequestId == SubIds \cup {TrackId, ResubscribeId}
Reported  == ConnectionState \cup {Unknown}

Request == [type : {"subscribe", "unsubscribe"}, topics : SUBSET TopicName, id : RequestId]
Message == [type : {"publish"}, agv : Agvs, state : Reported]
Packet  == Request \cup Message \cup [type : {"disconnect"}]

Types ==
    /\ life \in [Clients -> Life]
    /\ connected \in [Clients -> BOOLEAN]
    /\ registry \in [Clients -> SUBSET [id : RequestId, topic : TopicName]]
    /\ sub \in [SubIds -> [state : SubState, client : Clients \cup {NoClient},
                           topic : TopicName]]
    /\ session \in [Clients -> [open : BOOLEAN, topics : SUBSET TopicName]]
    /\ retained \in [Agvs -> Reported]
    /\ orphans \in [Agvs -> Nat]
    /\ up \in [Clients -> Seq(Packet)]

-----------------------------------------------------------------------------
(***************************************************************************)
(* What the packets u in flight will make of the broker's state.           *)
(***************************************************************************)

Mentions(p, t) == p.type \in {"subscribe", "unsubscribe"} /\ t \in p.topics

\* The last packet of u that mentions t, or else the topics of the session,
\* agree with the topics R that have a handler.
InSync(u, topics, R, t) ==
    /\ \A k \in DOMAIN u :
        Mentions(u[k], t) /\ (\A l \in DOMAIN u : l > k => ~ Mentions(u[l], t))
            => (u[k].type = "subscribe" <=> t \in R)
    /\ (\A k \in DOMAIN u : ~ Mentions(u[k], t)) => (t \in topics <=> t \in R)

\* The last connection message of u, or else the retained one, is not ONLINE.
SaysGoodbye(u, r) ==
    /\ \A k \in DOMAIN u :
        u[k].type = "publish" /\ (\A l \in DOMAIN u : l > k => u[l].type # "publish")
            => u[k].state # "ONLINE"
    /\ (\A k \in DOMAIN u : u[k].type # "publish") => r # "ONLINE"

\* Nothing is in flight while a client is not connected; its DISCONNECT is the
\* last packet it sends; it publishes its own connection state only.
Orderly(c) ==
    /\ ~ connected[c] => up[c] = <<>>
    /\ life[c] \in {"stopped", "connecting"} => ~ connected[c] /\ registry[c] = {}
    /\ \A k \in DOMAIN up[c] :
        /\ up[c][k].type = "disconnect" => k = Len(up[c]) /\ life[c] = "closing"
        /\ up[c][k].type = "publish" => up[c][k].agv = c

\* A client the broker can reach will have the topics with a handler.
Subscribed(c) ==
    IsStarted(c) /\ Reachable(c)
        => \A t \in TopicName :
              InSync(up[c], session[c].topics, RegisteredTopics(registry[c]), t)

\* An AGV client that stops takes leave; the broker retains ONLINE only as long
\* as it holds a session that it will give up.
Honest(a) ==
    /\ connected[a] /\ life[a] \in {"stopping", "ending", "closing"}
           => SaysGoodbye(up[a], retained[a])
    /\ retained[a] = "ONLINE" => session[a].open \/ orphans[a] > 0

Inv ==
    /\ Types
    /\ \A c \in Clients : Orderly(c) /\ Subscribed(c)
    /\ \A a \in Agvs : Honest(a)

-----------------------------------------------------------------------------
(***************************************************************************)
(* Lemmas on packets and on what is in flight.                             *)
(***************************************************************************)

\* What the operators that build packets return.
LEMMA Packets ==
    /\ \A ts \in SUBSET TopicName, id \in RequestId :
        /\ Subscribe(ts, id) \in Packet /\ Subscribe(ts, id).type = "subscribe"
        /\ Subscribe(ts, id).topics = ts
        /\ Unsubscribe(ts, id) \in Packet /\ Unsubscribe(ts, id).type = "unsubscribe"
        /\ Unsubscribe(ts, id).topics = ts
    /\ \A a \in Agvs, s \in Reported :
        /\ Publish(a, s) \in Packet /\ Publish(a, s).type = "publish"
        /\ Publish(a, s).agv = a /\ Publish(a, s).state = s
    /\ Disconnect \in Packet /\ Disconnect.type = "disconnect"
BY DEF Subscribe, Unsubscribe, Publish, Disconnect, Packet, Request, Message

\* A packet is of one of four types and has the fields of its type.
LEMMA PacketFacts ==
    ASSUME NEW p \in Packet
    PROVE  /\ p.type \in {"subscribe", "unsubscribe", "publish", "disconnect"}
           /\ p.type \in {"subscribe", "unsubscribe"} => p.topics \in SUBSET TopicName
           /\ p.type = "publish" => p.agv \in Agvs /\ p.state \in Reported
BY DEF Packet, Request, Message

\* The elements of a sequence that one packet is appended to.
LEMMA AppendedPackets ==
    ASSUME NEW u \in Seq(Packet), NEW p \in Packet
    PROVE  /\ Append(u, p) \in Seq(Packet)
           /\ Len(u) \in Nat /\ Len(Append(u, p)) = Len(u) + 1
           /\ DOMAIN u = 1..Len(u) /\ DOMAIN Append(u, p) = 1..(Len(u) + 1)
           /\ \A k \in DOMAIN u : Append(u, p)[k] = u[k]
           /\ Append(u, p)[Len(u) + 1] = p
OBVIOUS

\* The elements of a sequence whose first packet is received.
LEMMA ReceivedPackets ==
    ASSUME NEW u \in Seq(Packet), u # <<>>
    PROVE  /\ Head(u) = u[1] /\ Head(u) \in Packet /\ Tail(u) \in Seq(Packet)
           /\ Len(u) \in Nat /\ Len(u) > 0 /\ Len(Tail(u)) = Len(u) - 1
           /\ DOMAIN u = 1..Len(u) /\ DOMAIN Tail(u) = 1..(Len(u) - 1)
           /\ \A k \in 1..(Len(u) - 1) : Tail(u)[k] = u[k + 1]
OBVIOUS

\* A packet that is sent decides on the topics it mentions.
LEMMA SentDecides ==
    ASSUME NEW u \in Seq(Packet), NEW p \in Packet, NEW topics, NEW R, NEW t,
           Mentions(p, t), p.type = "subscribe" <=> t \in R
    PROVE  InSync(Append(u, p), topics, R, t)
<1>1. ASSUME NEW k \in DOMAIN Append(u, p),
             \A l \in DOMAIN Append(u, p) : l > k => ~ Mentions(Append(u, p)[l], t)
      PROVE  Append(u, p)[k].type = "subscribe" <=> t \in R
  <2>1. k = Len(u) + 1
    BY <1>1, AppendedPackets
  <2> QED
    BY <2>1, AppendedPackets
<1>2. ~ \A k \in DOMAIN Append(u, p) : ~ Mentions(Append(u, p)[k], t)
  BY AppendedPackets
<1> QED
  BY <1>1, <1>2 DEF InSync

\* A packet that is sent does not matter to the topics it does not mention.
LEMMA SentIgnored ==
    ASSUME NEW u \in Seq(Packet), NEW p \in Packet, NEW topics, NEW R, NEW t,
           ~ Mentions(p, t), InSync(u, topics, R, t)
    PROVE  InSync(Append(u, p), topics, R, t)
<1>1. ASSUME NEW k \in DOMAIN Append(u, p), Mentions(Append(u, p)[k], t),
             \A l \in DOMAIN Append(u, p) : l > k => ~ Mentions(Append(u, p)[l], t)
      PROVE  Append(u, p)[k].type = "subscribe" <=> t \in R
  <2>1. k \in DOMAIN u /\ Append(u, p)[k] = u[k]
    BY <1>1, AppendedPackets
  <2>2. \A l \in DOMAIN u : l > k => ~ Mentions(u[l], t)
    BY <1>1, AppendedPackets
  <2> QED
    BY <1>1, <2>1, <2>2 DEF InSync
<1>2. ASSUME \A k \in DOMAIN Append(u, p) : ~ Mentions(Append(u, p)[k], t)
      PROVE  t \in topics <=> t \in R
  <2>1. \A k \in DOMAIN u : ~ Mentions(u[k], t)
    BY <1>2, AppendedPackets
  <2> QED
    BY <2>1 DEF InSync
<1> QED
  BY <1>1, <1>2 DEF InSync

\* The broker carries out the first packet in flight: what it made of the topic
\* is what the packet announced.
LEMMA ReceivedInSync ==
    ASSUME NEW u \in Seq(Packet), u # <<>>, NEW topics, NEW topics2, NEW R, NEW t,
           InSync(u, topics, R, t),
           IF Mentions(Head(u), t) THEN t \in topics2 <=> Head(u).type = "subscribe"
                                   ELSE t \in topics2 <=> t \in topics
    PROVE  InSync(Tail(u), topics2, R, t)
<1>1. ASSUME NEW k \in DOMAIN Tail(u), Mentions(Tail(u)[k], t),
             \A l \in DOMAIN Tail(u) : l > k => ~ Mentions(Tail(u)[l], t)
      PROVE  Tail(u)[k].type = "subscribe" <=> t \in R
  <2>1. k \in Nat /\ k + 1 \in DOMAIN u /\ Tail(u)[k] = u[k + 1]
    BY <1>1, ReceivedPackets
  <2>2. ASSUME NEW l \in DOMAIN u, l > k + 1
        PROVE  ~ Mentions(u[l], t)
    <3>1. l - 1 \in DOMAIN Tail(u) /\ l - 1 > k /\ Tail(u)[l - 1] = u[l]
      BY <2>1, <2>2, ReceivedPackets
    <3> QED
      BY <3>1, <1>1
  <2> QED
    BY <1>1, <2>1, <2>2 DEF InSync
<1>2. ASSUME \A k \in DOMAIN Tail(u) : ~ Mentions(Tail(u)[k], t)
      PROVE  t \in topics2 <=> t \in R
  <2>1. ASSUME NEW l \in DOMAIN u, l > 1
        PROVE  ~ Mentions(u[l], t)
    <3>1. l - 1 \in DOMAIN Tail(u) /\ Tail(u)[l - 1] = u[l]
      BY <2>1, ReceivedPackets
    <3> QED
      BY <3>1, <1>2
  <2>2. 1 \in DOMAIN u /\ u[1] = Head(u) /\ DOMAIN u \subseteq Nat \ {0}
    BY ReceivedPackets
  <2>3. CASE Mentions(Head(u), t)
    <3>1. \A l \in DOMAIN u : l > 1 => ~ Mentions(u[l], t)
      BY <2>1
    <3>2. u[1].type = "subscribe" <=> t \in R
      BY <2>2, <2>3, <3>1 DEF InSync
    <3> QED
      BY <2>2, <2>3, <3>2
  <2>4. CASE ~ Mentions(Head(u), t)
    <3>1. \A l \in DOMAIN u : ~ Mentions(u[l], t)
      BY <2>1, <2>2, <2>4
    <3> QED
      BY <2>4, <3>1 DEF InSync
  <2> QED
    BY <2>3, <2>4
<1> QED
  BY <1>1, <1>2 DEF InSync

\* Handlers of other topics do not matter to a topic.
LEMMA OtherHandlers ==
    ASSUME NEW u, NEW topics, NEW R, NEW R2, NEW t,
           InSync(u, topics, R, t), t \in R <=> t \in R2
    PROVE  InSync(u, topics, R2, t)
BY Zenon DEF InSync

\* The same for the connection messages: the last one sent decides, ...
LEMMA SaidGoodbye ==
    ASSUME NEW u \in Seq(Packet), NEW p \in Packet, NEW r,
           IF p.type = "publish" THEN p.state # "ONLINE" ELSE SaysGoodbye(u, r)
    PROVE  SaysGoodbye(Append(u, p), r)
<1>1. ASSUME NEW k \in DOMAIN Append(u, p), Append(u, p)[k].type = "publish",
             \A l \in DOMAIN Append(u, p) : l > k => Append(u, p)[l].type # "publish"
      PROVE  Append(u, p)[k].state # "ONLINE"
  <2>1. CASE p.type = "publish"
    <3>1. k = Len(u) + 1
      BY <1>1, <2>1, AppendedPackets
    <3> QED
      BY <2>1, <3>1, AppendedPackets
  <2>2. CASE p.type # "publish"
    <3>1. k \in DOMAIN u /\ Append(u, p)[k] = u[k]
      BY <1>1, <2>2, AppendedPackets
    <3>2. \A l \in DOMAIN u : l > k => u[l].type # "publish"
      BY <1>1, AppendedPackets
    <3> QED
      BY <1>1, <2>2, <3>1, <3>2 DEF SaysGoodbye
  <2> QED
    BY <2>1, <2>2
<1>2. ASSUME \A k \in DOMAIN Append(u, p) : Append(u, p)[k].type # "publish"
      PROVE  r # "ONLINE"
  <2>1. p.type # "publish" /\ \A k \in DOMAIN u : u[k].type # "publish"
    BY <1>2, AppendedPackets
  <2> QED
    BY <2>1 DEF SaysGoodbye
<1> QED
  BY <1>1, <1>2 DEF SaysGoodbye

\* ... and the broker retains the first one in flight.
LEMMA HeardGoodbye ==
    ASSUME NEW u \in Seq(Packet), u # <<>>, NEW r, NEW r2, SaysGoodbye(u, r),
           IF Head(u).type = "publish" THEN r2 = Head(u).state ELSE r2 = r
    PROVE  SaysGoodbye(Tail(u), r2)
<1>1. ASSUME NEW k \in DOMAIN Tail(u), Tail(u)[k].type = "publish",
             \A l \in DOMAIN Tail(u) : l > k => Tail(u)[l].type # "publish"
      PROVE  Tail(u)[k].state # "ONLINE"
  <2>1. k \in Nat /\ k + 1 \in DOMAIN u /\ Tail(u)[k] = u[k + 1]
    BY <1>1, ReceivedPackets
  <2>2. ASSUME NEW l \in DOMAIN u, l > k + 1
        PROVE  u[l].type # "publish"
    <3>1. l - 1 \in DOMAIN Tail(u) /\ l - 1 > k /\ Tail(u)[l - 1] = u[l]
      BY <2>1, <2>2, ReceivedPackets
    <3> QED
      BY <3>1, <1>1
  <2> QED
    BY <1>1, <2>1, <2>2 DEF SaysGoodbye
<1>2. ASSUME \A k \in DOMAIN Tail(u) : Tail(u)[k].type # "publish"
      PROVE  r2 # "ONLINE"
  <2>1. ASSUME NEW l \in DOMAIN u, l > 1
        PROVE  u[l].type # "publish"
    <3>1. l - 1 \in DOMAIN Tail(u) /\ Tail(u)[l - 1] = u[l]
      BY <2>1, ReceivedPackets
    <3> QED
      BY <3>1, <1>2
  <2>2. 1 \in DOMAIN u /\ u[1] = Head(u) /\ DOMAIN u \subseteq Nat \ {0}
    BY ReceivedPackets
  <2>3. CASE Head(u).type = "publish"
    <3>1. \A l \in DOMAIN u : l > 1 => u[l].type # "publish"
      BY <2>1
    <3>2. u[1].state # "ONLINE"
      BY <2>2, <2>3, <3>1 DEF SaysGoodbye
    <3> QED
      BY <2>2, <2>3, <3>2
  <2>4. CASE Head(u).type # "publish"
    <3>1. \A l \in DOMAIN u : u[l].type # "publish"
      BY <2>1, <2>2, <2>4
    <3> QED
      BY <2>4, <3>1 DEF SaysGoodbye
  <2> QED
    BY <2>3, <2>4
<1> QED
  BY <1>1, <1>2 DEF SaysGoodbye

\* The topics with a handler after one was added or removed.
LEMMA RegisteredFacts ==
    ASSUME NEW R, NEW h
    PROVE  /\ RegisteredTopics({}) = {}
           /\ RegisteredTopics(R \cup {h}) = RegisteredTopics(R) \cup {h.topic}
           /\ \A t : t # h.topic => (t \in RegisteredTopics(R \ {h})
                                         <=> t \in RegisteredTopics(R))
           /\ RegisteredTopics(R \ {h}) \subseteq RegisteredTopics(R)
BY DEF RegisteredTopics

-----------------------------------------------------------------------------
(***************************************************************************)
(* Every step is one of a single client, and keeps what is said of it.     *)
(***************************************************************************)

Untouched(c) ==
    /\ life'[c] = life[c] /\ connected'[c] = connected[c] /\ registry'[c] = registry[c]
    /\ session'[c] = session[c] /\ up'[c] = up[c]

\* What a step of c does to the other clients and keeps of c.
KeptBy(c) ==
    /\ Types'
    /\ \A d \in Clients \ {c} : Untouched(d)
    /\ \A a \in Agvs \ {c} : retained'[a] = retained[a] /\ orphans'[a] = orphans[a]
    /\ Orderly(c)' /\ Subscribed(c)' /\ (c \in Agvs => Honest(c)')

\* What holds of c before its step.
Before(c) ==
    Types /\ Orderly(c) /\ Subscribed(c) /\ (c \in Agvs => Honest(c))

LEMMA StartKeeps ==
    ASSUME NEW c \in Clients, Before(c), Start(c)
    PROVE  KeptBy(c)
<1>1. Types'
  BY DEF Before, Types, Start, Life, brokerVars
<1>2. \A d \in Clients \ {c} : Untouched(d)
  BY DEF Before, Types, Start, Untouched, brokerVars
<1>3. life'[c] = "connecting" /\ UNCHANGED << connected, registry, session, up, retained, orphans >>
  BY DEF Before, Types, Start, brokerVars
<1>4. Orderly(c)' /\ Subscribed(c)' /\ (c \in Agvs => Honest(c)')
  <2>1. ~ connected[c] /\ registry[c] = {} /\ up[c] = <<>>
    BY DEF Before, Orderly, Start
  <2> QED
    BY <1>3, <2>1 DEF Before, Orderly, Subscribed, Honest, IsStarted
<1> QED
  BY <1>1, <1>2, <1>3, <1>4 DEF KeptBy

LEMMA ConnectFailedKeeps ==
    ASSUME NEW c \in Clients, Before(c), ConnectFailed(c)
    PROVE  KeptBy(c)
<1>1. Types'
  BY DEF Before, Types, ConnectFailed, Life, brokerVars
<1>2. \A d \in Clients \ {c} : Untouched(d)
  BY DEF Before, Types, ConnectFailed, Untouched, brokerVars
<1>3. life'[c] = "stopped" /\ UNCHANGED << connected, registry, session, up, retained, orphans >>
  BY DEF Before, Types, ConnectFailed, brokerVars
<1>4. Orderly(c)' /\ Subscribed(c)' /\ (c \in Agvs => Honest(c)')
  <2>1. ~ connected[c] /\ registry[c] = {} /\ up[c] = <<>>
    BY DEF Before, Orderly, ConnectFailed
  <2> QED
    BY <1>3, <2>1 DEF Before, Orderly, Subscribed, Honest, IsStarted
<1> QED
  BY <1>1, <1>2, <1>3, <1>4 DEF KeptBy

\* The broker gives up the session of c, if it still has one.
LEMMA LastWillEffect ==
    ASSUME NEW c \in Clients, Types, LastWill(c)
    PROVE  /\ retained' \in [Agvs -> Reported]
           /\ \A a \in Agvs \ {c} : retained'[a] = retained[a]
           /\ c \in Agvs /\ session[c].open => retained'[c] = "CONNECTIONBROKEN"
           /\ c \in Agvs /\ ~ session[c].open => retained'[c] = retained[c]
BY DEF Types, LastWill, Retain, Reported, ConnectionState

\* A client connects: the broker has a new session for it.
LEMMA OpenSessionEffect ==
    ASSUME NEW c \in Clients, Types, OpenSession(c)
    PROVE  /\ connected' \in [Clients -> BOOLEAN] /\ connected'[c]
           /\ session' \in [Clients -> [open : BOOLEAN, topics : SUBSET TopicName]]
           /\ session'[c].open /\ session'[c].topics = {}
           /\ \A d \in Clients \ {c} : /\ connected'[d] = connected[d]
                                       /\ session'[d] = session[d]
           /\ retained' \in [Agvs -> Reported]
           /\ \A a \in Agvs \ {c} : retained'[a] = retained[a]
<1>1. LastWill(c)
  BY DEF OpenSession
<1>2. Opened \in [open : BOOLEAN, topics : SUBSET TopicName] /\ Opened.open
      /\ Opened.topics = {}
  BY DEF Opened
<1>3. session' = [session EXCEPT ![c] = Opened] /\ connected' = [connected EXCEPT ![c] = TRUE]
  BY DEF OpenSession
<1>4. /\ retained' \in [Agvs -> Reported]
      /\ \A a \in Agvs \ {c} : retained'[a] = retained[a]
  BY <1>1, LastWillEffect
<1>5. /\ session' \in [Clients -> [open : BOOLEAN, topics : SUBSET TopicName]]
      /\ session'[c] = Opened /\ \A d \in Clients \ {c} : session'[d] = session[d]
  BY <1>2, <1>3 DEF Types
<1>6. /\ connected' \in [Clients -> BOOLEAN] /\ connected'[c]
      /\ \A d \in Clients \ {c} : connected'[d] = connected[d]
  BY <1>3 DEF Types
<1> QED
  BY <1>2, <1>4, <1>5, <1>6

\* One packet in flight.
LEMMA OnePacket ==
    ASSUME NEW p \in Packet
    PROVE  << p >> \in Seq(Packet) /\ DOMAIN << p >> = {1} /\ << p >>[1] = p /\ Len(<< p >>) = 1
OBVIOUS

\* A packet that subscribes exactly the topics with a handler brings a clean
\* session in line with them.
LEMMA Resubscribed ==
    ASSUME NEW p \in Packet, NEW t, p.type = "subscribe"
    PROVE  InSync(<< p >>, {}, p.topics, t)
BY OnePacket DEF InSync, Mentions

\* The handler that onStarted of a master control client registers.
TrackHandler == [id |-> TrackId, topic |-> "connection"]

LEMMA TrackHandlerFacts ==
    /\ TrackHandler \in [id : RequestId, topic : TopicName]
    /\ TrackHandler.topic = "connection" /\ RegisteredTopics({TrackHandler}) = {"connection"}
BY DEF TrackHandler, RequestId, TopicName, RegisteredTopics

LEMMA ConnectedKeeps ==
    ASSUME ClientAssumption, NEW c \in Clients, Before(c), Connected(c)
    PROVE  KeptBy(c)
<1>1. Types
  BY DEF Before
<1>2. OpenSession(c)
  BY DEF Connected
<1>3. /\ life' \in [Clients -> Life] /\ life'[c] = "started"
      /\ \A d \in Clients \ {c} : life'[d] = life[d]
      /\ UNCHANGED << sub, orphans >>
  BY <1>1 DEF Connected, Types, Life
<1>4. registry[c] = {}
  BY DEF Before, Orderly, Connected
<1>5. PICK p \in Packet : /\ up' = [up EXCEPT ![c] = << p >>]
                          /\ p.type \in {"publish", "subscribe"}
                          /\ p.type = "publish" => p.agv = c /\ registry' = registry
                          /\ p.type = "subscribe"
                                => /\ p.topics = {"connection"}
                                   /\ registry' = [registry EXCEPT ![c] = {TrackHandler}]
  <2>1. CASE c \in Agvs /\ OnAgvStarted(c)
    <3>1. "ONLINE" \in Reported
      BY DEF Reported, ConnectionState
    <3> QED
      BY <2>1, <3>1, Packets DEF OnAgvStarted
  <2>2. CASE c \in Masters /\ OnMasterStarted(c)
    <3>1. {"connection"} \in SUBSET TopicName /\ TrackId \in RequestId
      BY DEF TopicName, RequestId
    <3>2. registry' = [registry EXCEPT ![c] = {TrackHandler}]
      BY <1>4, <2>2 DEF OnMasterStarted, TrackHandler
    <3> DEFINE q == Subscribe({"connection"}, TrackId)
    <3>3. q \in Packet /\ q.type = "subscribe" /\ q.topics = {"connection"}
      BY <3>1, Packets
    <3>4. up' = [up EXCEPT ![c] = << q >>]
      BY <2>2 DEF OnMasterStarted
    <3> HIDE DEF q
    <3> QED
      BY <3>2, <3>3, <3>4
  <2> QED
    BY <2>1, <2>2 DEF Connected
<1>6. up' \in [Clients -> Seq(Packet)] /\ up'[c] = << p >>
      /\ \A d \in Clients \ {c} : up'[d] = up[d]
  BY <1>1, <1>5, OnePacket DEF Types
<1>7. /\ registry' \in [Clients -> SUBSET [id : RequestId, topic : TopicName]]
      /\ \A d \in Clients \ {c} : registry'[d] = registry[d]
      /\ RegisteredTopics(registry'[c]) = IF p.type = "publish" THEN {} ELSE p.topics
  <2>1. CASE p.type = "publish"
    <3>1. registry' = registry
      BY <1>5, <2>1
    <3>2. RegisteredTopics(registry[c]) = {}
      BY <1>4 DEF RegisteredTopics
    <3> QED
      BY <1>1, <2>1, <3>1, <3>2 DEF Types
  <2>2. CASE p.type = "subscribe"
    <3>1. registry' = [registry EXCEPT ![c] = {TrackHandler}] /\ p.topics = {"connection"}
      BY <1>5, <2>2
    <3>2. {TrackHandler} \in SUBSET [id : RequestId, topic : TopicName]
      BY TrackHandlerFacts
    <3>3. /\ registry' \in [Clients -> SUBSET [id : RequestId, topic : TopicName]]
          /\ \A d \in Clients \ {c} : registry'[d] = registry[d]
          /\ registry'[c] = {TrackHandler}
      BY <1>1, <3>1, <3>2 DEF Types
    <3> QED
      BY <2>2, <3>1, <3>3, TrackHandlerFacts
  <2> QED
    BY <2>1, <2>2, <1>5
<1>8. Types'
  BY <1>1, <1>2, <1>3, <1>6, <1>7, OpenSessionEffect DEF Types
<1>9. \A d \in Clients \ {c} : Untouched(d)
  BY <1>1, <1>2, <1>3, <1>6, <1>7, OpenSessionEffect DEF Untouched
<1>10. /\ connected'[c] /\ session'[c].open /\ session'[c].topics = {}
       /\ \A a \in Agvs \ {c} : retained'[a] = retained[a]
  BY <1>1, <1>2, OpenSessionEffect
<1>11. Orderly(c)'
  BY <1>3, <1>5, <1>6, <1>10, OnePacket DEF Orderly
<1>12. Subscribed(c)'
  <2>1. ASSUME NEW t \in TopicName
        PROVE  InSync(up'[c], {}, RegisteredTopics(registry'[c]), t)
    <3>1. CASE p.type = "publish"
      BY <1>6, <1>7, <3>1, OnePacket DEF InSync, Mentions
    <3>2. CASE p.type = "subscribe"
      BY <1>6, <1>7, <3>2, Resubscribed
    <3> QED
      BY <3>1, <3>2, <1>5
  <2> QED
    BY <1>10, <2>1 DEF Subscribed
<1>13. c \in Agvs => Honest(c)'
  BY <1>3, <1>10 DEF Honest
<1> QED
  BY <1>3, <1>8, <1>9, <1>10, <1>11, <1>12, <1>13 DEF KeptBy

LEMMA ReconnectedKeeps ==
    ASSUME ClientAssumption, NEW c \in Clients, Before(c), Reconnected(c)
    PROVE  KeptBy(c)
<1>1. Types
  BY DEF Before
<1>2. OpenSession(c)
  BY DEF Reconnected
<1>3. life[c] = "started" /\ UNCHANGED << life, registry, sub, orphans >>
  BY DEF Reconnected
<1>4. up[c] = <<>>
  BY DEF Before, Orderly, Reconnected
<1>5. RegisteredTopics(registry[c]) \in SUBSET TopicName
  BY <1>1 DEF Types, RegisteredTopics
<1> DEFINE p == Subscribe(RegisteredTopics(registry[c]), ResubscribeId)
<1>6. p \in Packet /\ p.type = "subscribe" /\ p.topics = RegisteredTopics(registry[c])
  BY <1>5, Packets DEF RequestId
<1>7. up' = IF registry[c] = {} THEN up ELSE [up EXCEPT ![c] = << p >>]
  BY DEF Reconnected
<1> HIDE DEF p
<1>8. /\ up' \in [Clients -> Seq(Packet)] /\ \A d \in Clients \ {c} : up'[d] = up[d]
      /\ up'[c] = IF registry[c] = {} THEN <<>> ELSE << p >>
  BY <1>1, <1>4, <1>6, <1>7, OnePacket DEF Types
<1>9. Types'
  BY <1>1, <1>2, <1>3, <1>8, OpenSessionEffect DEF Types
<1>10. \A d \in Clients \ {c} : Untouched(d)
  BY <1>1, <1>2, <1>3, <1>8, OpenSessionEffect DEF Untouched
<1>11. /\ connected'[c] /\ session'[c].open /\ session'[c].topics = {}
       /\ \A a \in Agvs \ {c} : retained'[a] = retained[a]
  BY <1>1, <1>2, OpenSessionEffect
<1>12. Orderly(c)'
  BY <1>3, <1>6, <1>8, <1>11, OnePacket DEF Orderly
<1>13. Subscribed(c)'
  <2>1. ASSUME NEW t \in TopicName
        PROVE  InSync(up'[c], {}, RegisteredTopics(registry[c]), t)
    <3>1. CASE registry[c] = {}
      <4>1. RegisteredTopics(registry[c]) = {} /\ up'[c] = <<>>
        BY <1>8, <3>1, RegisteredFacts
      <4> QED
        BY <4>1 DEF InSync
    <3>2. CASE registry[c] # {}
      BY <1>6, <1>8, <3>2, Resubscribed
    <3> QED
      BY <3>1, <3>2
  <2> QED
    BY <1>3, <1>11, <2>1 DEF Subscribed
<1>14. c \in Agvs => Honest(c)'
  BY <1>3, <1>11 DEF Honest
<1> QED
  BY <1>3, <1>9, <1>10, <1>11, <1>12, <1>13, <1>14 DEF KeptBy

\* Settled requests are subscriptions, as before.
LEMMA SettledSound ==
    ASSUME NEW ids, NEW fails \in BOOLEAN, Types
    PROVE  Settled(ids, fails) \in [SubIds -> [state : SubState, client : Clients \cup {NoClient},
                                               topic : TopicName]]
BY DEF Types, Settled, SubState

LEMMA ConnectionBreaksKeeps ==
    ASSUME NEW c \in Clients, Before(c), ConnectionBreaks(c)
    PROVE  KeptBy(c)
<1>1. Types
  BY DEF Before
<1>2. /\ connected' = [connected EXCEPT ![c] = FALSE] /\ up' = [up EXCEPT ![c] = <<>>]
      /\ sub' = Settled(awaiting[c], TRUE)
      /\ UNCHANGED << life, registry, session, retained, orphans >>
  BY DEF ConnectionBreaks, brokerVars
<1>3. << >> \in Seq(Packet)
  OBVIOUS
<1>4. Types'
  BY <1>1, <1>2, <1>3, SettledSound DEF Types
<1>5. \A d \in Clients \ {c} : Untouched(d)
  BY <1>1, <1>2 DEF Types, Untouched
<1>6. ~ connected'[c] /\ up'[c] = <<>>
  BY <1>1, <1>2 DEF Types
<1>7. connected[c]
  BY DEF ConnectionBreaks
<1>8. Orderly(c)' /\ Subscribed(c)' /\ (c \in Agvs => Honest(c)')
  BY <1>2, <1>6, <1>7 DEF Before, Orderly, Subscribed, Honest, Reachable
<1> QED
  BY <1>2, <1>4, <1>5, <1>8 DEF KeptBy

\* A packet p that c sends: what is in flight is as orderly as before.
LEMMA SendOrderly ==
    ASSUME NEW c \in Clients, Types, Orderly(c), NEW p \in Packet, connected[c],
           life[c] \notin {"stopped", "connecting", "closing"},
           up' = [up EXCEPT ![c] = Append(@, p)], connected' = connected,
           life'[c] \notin {"stopped", "connecting"},
           p.type = "disconnect" => life'[c] = "closing",
           p.type = "publish" => p.agv = c
    PROVE  /\ up' \in [Clients -> Seq(Packet)] /\ up'[c] = Append(up[c], p)
           /\ \A d \in Clients \ {c} : up'[d] = up[d]
           /\ Orderly(c)'
<1>1. up[c] \in Seq(Packet)
  BY DEF Types
<1>2. /\ up' \in [Clients -> Seq(Packet)] /\ up'[c] = Append(up[c], p)
      /\ \A d \in Clients \ {c} : up'[d] = up[d]
  BY <1>1, AppendedPackets DEF Types
<1>3. ASSUME NEW k \in DOMAIN Append(up[c], p)
      PROVE  /\ Append(up[c], p)[k].type = "disconnect"
                   => k = Len(Append(up[c], p)) /\ life'[c] = "closing"
             /\ Append(up[c], p)[k].type = "publish" => Append(up[c], p)[k].agv = c
  <2>1. CASE k \in DOMAIN up[c]
    <3>1. Append(up[c], p)[k] = up[c][k]
      BY <1>1, <2>1, AppendedPackets
    <3>2. up[c][k].type # "disconnect" /\ (up[c][k].type = "publish" => up[c][k].agv = c)
      BY <2>1 DEF Orderly
    <3> QED
      BY <3>1, <3>2
  <2>2. CASE k = Len(up[c]) + 1
    BY <1>1, <2>2, AppendedPackets
  <2> QED
    BY <1>1, <1>3, <2>1, <2>2, AppendedPackets
<1> QED
  BY <1>2, <1>3 DEF Orderly

LEMMA SubscribeTopicKeeps ==
    ASSUME NEW c \in Clients, NEW i \in SubIds, NEW t, Before(c), SubscribeTopic(c, i, t)
    PROVE  KeptBy(c)
<1>1. Types /\ Orderly(c)
  BY DEF Before
<1>2. t \in TopicName /\ i \in RequestId /\ c \in Clients \cup {NoClient}
  BY DEF SubscribeTopic, Inbound, TopicName, RequestId
<1>3. UNCHANGED << life, connected, session, retained, orphans >>
  BY DEF SubscribeTopic, brokerVars
<1> DEFINE h == [id |-> i, topic |-> t]
<1>4. h \in [id : RequestId, topic : TopicName] /\ h.topic = t
  BY <1>2
<1>5. registry' = [registry EXCEPT ![c] = @ \cup {h}]
  BY DEF SubscribeTopic
<1> HIDE DEF h
<1>6. /\ registry' \in [Clients -> SUBSET [id : RequestId, topic : TopicName]]
      /\ registry'[c] = registry[c] \cup {h}
      /\ \A d \in Clients \ {c} : registry'[d] = registry[d]
  BY <1>1, <1>4, <1>5 DEF Types
<1>7. RegisteredTopics(registry'[c]) = RegisteredTopics(registry[c]) \cup {t}
  <2>1. PICK R : R = registry[c]
    OBVIOUS
  <2>2. registry'[c] = R \cup {h}
    BY <1>6, <2>1
  <2>3. /\ RegisteredTopics({}) = {}
        /\ RegisteredTopics(R \cup {h}) = RegisteredTopics(R) \cup {h.topic}
        /\ \A t2 : t2 # h.topic => (t2 \in RegisteredTopics(R \ {h})
                                         <=> t2 \in RegisteredTopics(R))
        /\ RegisteredTopics(R \ {h}) \subseteq RegisteredTopics(R)
    BY RegisteredFacts
  <2> QED
    BY <1>4, <2>1, <2>2, <2>3
<1>8. life[c] \in {"started", "stopping"}
  BY DEF SubscribeTopic, IsStarted
<1>9. CASE RequiresSubscribe(registry[c], t) /\ connected[c]
  <2> DEFINE p == Subscribe({t}, i)
  <2>1. p \in Packet /\ p.type = "subscribe" /\ p.topics = {t}
    BY <1>2, Packets
  <2>2. /\ sub' = [sub EXCEPT ![i] = [state |-> "pending", client |-> c, topic |-> t]]
        /\ up' = [up EXCEPT ![c] = Append(@, p)]
    BY <1>9 DEF SubscribeTopic
  <2> HIDE DEF p
  <2>3. /\ up' \in [Clients -> Seq(Packet)] /\ up'[c] = Append(up[c], p)
        /\ \A d \in Clients \ {c} : up'[d] = up[d]
        /\ Orderly(c)'
    BY <1>1, <1>3, <1>8, <1>9, <2>1, <2>2, SendOrderly
  <2>4. sub' \in [SubIds -> [state : SubState, client : Clients \cup {NoClient}, topic : TopicName]]
    BY <1>1, <1>2, <2>2 DEF Types, SubState
  <2>5. up[c] \in Seq(Packet)
    BY <1>1 DEF Types
  <2>6. ASSUME IsStarted(c), Reachable(c), NEW t2 \in TopicName
        PROVE  InSync(up'[c], session[c].topics, RegisteredTopics(registry'[c]), t2)
    <3>1. CASE t2 = t
      BY <1>7, <2>1, <2>3, <2>5, <3>1, SentDecides DEF Mentions
    <3>2. CASE t2 # t
      <4>1. InSync(up[c], session[c].topics, RegisteredTopics(registry[c]), t2)
        BY <2>6 DEF Before, Subscribed
      <4>2. InSync(up[c], session[c].topics, RegisteredTopics(registry'[c]), t2)
        BY <1>7, <3>2, <4>1, OtherHandlers
      <4> QED
        BY <2>1, <2>3, <2>5, <3>2, <4>2, SentIgnored DEF Mentions
    <3> QED
      BY <3>1, <3>2
  <2>7. Subscribed(c)'
    BY <1>3, <2>6 DEF Subscribed, IsStarted, Reachable
  <2>8. c \in Agvs => Honest(c)'
    BY <1>3, <2>1, <2>3, <2>5, SaidGoodbye DEF Before, Honest
  <2>9. Types' /\ \A d \in Clients \ {c} : Untouched(d)
    BY <1>1, <1>3, <1>6, <2>3, <2>4 DEF Types, Untouched
  <2> QED
    BY <1>3, <2>3, <2>7, <2>8, <2>9 DEF KeptBy
<1>10. CASE ~ (RequiresSubscribe(registry[c], t) /\ connected[c])
  <2>1. /\ sub' = [sub EXCEPT ![i] = [state |-> "subscribed", client |-> c, topic |-> t]]
        /\ up' = up
    BY <1>10 DEF SubscribeTopic
  <2>2. sub' \in [SubIds -> [state : SubState, client : Clients \cup {NoClient}, topic : TopicName]]
    BY <1>1, <1>2, <2>1 DEF Types, SubState
  <2>3. Types' /\ \A d \in Clients \ {c} : Untouched(d)
    BY <1>1, <1>3, <1>6, <2>1, <2>2 DEF Types, Untouched
  <2>4. Orderly(c)' /\ (c \in Agvs => Honest(c)')
    BY <1>1, <1>3, <1>8, <2>1 DEF Before, Orderly, Honest
  <2>5. Subscribed(c)'
    <3>1. Reachable(c) => RegisteredTopics(registry'[c]) = RegisteredTopics(registry[c])
      BY <1>7, <1>10 DEF RequiresSubscribe, Reachable
    <3> QED
      BY <1>3, <2>1, <3>1 DEF Before, Subscribed, IsStarted, Reachable
  <2> QED
    BY <1>3, <2>3, <2>4, <2>5 DEF KeptBy
<1> QED
  BY <1>9, <1>10

LEMMA UnsubscribeTopicKeeps ==
    ASSUME NEW c \in Clients, NEW i \in SubIds, Before(c), UnsubscribeTopic(c, i)
    PROVE  KeptBy(c)
<1>1. Types /\ Orderly(c)
  BY DEF Before
<1>2. sub[i].topic \in TopicName /\ i \in RequestId
  BY <1>1 DEF Types, RequestId
<1>3. UNCHANGED << life, connected, session, retained, orphans >>
  BY DEF UnsubscribeTopic, brokerVars
<1> DEFINE h == [id |-> i, topic |-> sub[i].topic]
           t == h.topic
<1>4. t \in TopicName
  BY <1>2
<1>5. /\ registry' = [registry EXCEPT ![c] = @ \ {h}]
      /\ IF RequiresUnsubscribe(registry[c], h) /\ connected[c]
         THEN /\ sub' = [sub EXCEPT ![i].state = "removing"]
              /\ up' = [up EXCEPT ![c] = Append(@, Unsubscribe({h.topic}, i))]
         ELSE sub' = [sub EXCEPT ![i].state = "removed"] /\ up' = up
  BY DEF UnsubscribeTopic
<1> HIDE DEF h
<1>6. /\ registry' \in [Clients -> SUBSET [id : RequestId, topic : TopicName]]
      /\ registry'[c] = registry[c] \ {h}
      /\ \A d \in Clients \ {c} : registry'[d] = registry[d]
  BY <1>1, <1>5 DEF Types
<1>7. /\ \A t2 : t2 # t => (t2 \in RegisteredTopics(registry'[c])
                                <=> t2 \in RegisteredTopics(registry[c]))
      /\ RegisteredTopics(registry'[c]) \subseteq RegisteredTopics(registry[c])
  BY <1>6, RegisteredFacts
<1>8. life[c] \in {"started", "stopping"}
  BY DEF UnsubscribeTopic, IsStarted
<1>9. sub' \in [SubIds -> [state : SubState, client : Clients \cup {NoClient}, topic : TopicName]]
  <2>1. PICK s \in SubState : sub' = [sub EXCEPT ![i].state = s]
    BY <1>5 DEF SubState
  <2> QED
    BY <1>1, <2>1 DEF Types
<1>10. CASE RequiresUnsubscribe(registry[c], h) /\ connected[c]
  <2> DEFINE p == Unsubscribe({t}, i)
  <2>1. p \in Packet /\ p.type = "unsubscribe" /\ p.topics = {t}
    BY <1>2, <1>4, Packets
  <2>2. up' = [up EXCEPT ![c] = Append(@, p)]
    BY <1>5, <1>10
  <2> HIDE DEF p
  <2>3. /\ up' \in [Clients -> Seq(Packet)] /\ up'[c] = Append(up[c], p)
        /\ \A d \in Clients \ {c} : up'[d] = up[d]
        /\ Orderly(c)'
    BY <1>1, <1>3, <1>8, <1>10, <2>1, <2>2, SendOrderly
  <2>4. t \notin RegisteredTopics(registry'[c])
    BY <1>6, <1>10 DEF RequiresUnsubscribe
  <2>5. up[c] \in Seq(Packet)
    BY <1>1 DEF Types
  <2>6. ASSUME IsStarted(c), Reachable(c), NEW t2 \in TopicName
        PROVE  InSync(up'[c], session[c].topics, RegisteredTopics(registry'[c]), t2)
    <3>1. CASE t2 = t
      BY <2>1, <2>3, <2>4, <2>5, <3>1, SentDecides DEF Mentions
    <3>2. CASE t2 # t
      <4>1. InSync(up[c], session[c].topics, RegisteredTopics(registry[c]), t2)
        BY <2>6 DEF Before, Subscribed
      <4>2. InSync(up[c], session[c].topics, RegisteredTopics(registry'[c]), t2)
        BY <1>7, <3>2, <4>1, OtherHandlers
      <4> QED
        BY <2>1, <2>3, <2>5, <3>2, <4>2, SentIgnored DEF Mentions
    <3> QED
      BY <3>1, <3>2
  <2>7. Subscribed(c)'
    BY <1>3, <2>6 DEF Subscribed, IsStarted, Reachable
  <2>8. c \in Agvs => Honest(c)'
    BY <1>3, <2>1, <2>3, <2>5, SaidGoodbye DEF Before, Honest
  <2>9. Types' /\ \A d \in Clients \ {c} : Untouched(d)
    BY <1>1, <1>3, <1>6, <1>9, <2>3 DEF Types, Untouched
  <2> QED
    BY <1>3, <2>3, <2>7, <2>8, <2>9 DEF KeptBy
<1>11. CASE ~ (RequiresUnsubscribe(registry[c], h) /\ connected[c])
  <2>1. up' = up
    BY <1>5, <1>11
  <2>2. Types' /\ \A d \in Clients \ {c} : Untouched(d)
    BY <1>1, <1>3, <1>6, <1>9, <2>1 DEF Types, Untouched
  <2>3. Orderly(c)' /\ (c \in Agvs => Honest(c)')
    BY <1>1, <1>3, <1>8, <2>1 DEF Before, Orderly, Honest
  <2>4. Subscribed(c)'
    <3>1. Reachable(c) => t \in RegisteredTopics(registry'[c])
      BY <1>6, <1>11 DEF RequiresUnsubscribe, Reachable
    <3>2. ASSUME IsStarted(c), Reachable(c), NEW t2 \in TopicName
          PROVE  InSync(up[c], session[c].topics, RegisteredTopics(registry'[c]), t2)
      <4>1. InSync(up[c], session[c].topics, RegisteredTopics(registry[c]), t2)
        BY <3>2 DEF Before, Subscribed
      <4>2. t2 \in RegisteredTopics(registry[c]) <=> t2 \in RegisteredTopics(registry'[c])
        BY <1>7, <3>1, <3>2
      <4> QED
        BY <4>1, <4>2, OtherHandlers
    <3> QED
      BY <1>3, <2>1, <3>2 DEF Subscribed, IsStarted, Reachable
  <2> QED
    BY <1>3, <2>2, <2>3, <2>4 DEF KeptBy
<1> QED
  BY <1>10, <1>11

\* The steps of c in which only its subscriptions, or what it tracks, change.
LEMMA QuietKeeps ==
    ASSUME NEW c \in Clients, Before(c),
           sub' \in [SubIds -> [state : SubState, client : Clients \cup {NoClient},
                                topic : TopicName]],
           UNCHANGED << life, connected, registry, session, retained, orphans, up >>
    PROVE  KeptBy(c)
BY DEF Before, Types, KeptBy, Untouched, Orderly, Subscribed, IsStarted, Reachable, Honest

LEMMA UnsubscribeAgainKeeps ==
    ASSUME NEW c \in Clients, NEW i \in SubIds, Before(c), UnsubscribeAgain(c, i)
    PROVE  KeptBy(c)
<1>1. /\ sub' = [sub EXCEPT ![i].state = "failed"]
      /\ UNCHANGED << life, connected, registry, session, retained, orphans, up >>
  BY DEF UnsubscribeAgain, brokerVars
<1>2. sub' \in [SubIds -> [state : SubState, client : Clients \cup {NoClient}, topic : TopicName]]
  BY <1>1 DEF Before, Types, SubState
<1> QED
  BY <1>1, <1>2, QuietKeeps

LEMMA ClientReceiveKeeps ==
    ASSUME NEW c \in Clients, Before(c), ClientReceive(c)
    PROVE  KeptBy(c)
<1>1. UNCHANGED << life, connected, registry, session, retained, orphans, up >>
  BY DEF ClientReceive, brokerVars
<1>2. PICK p : ReceiveAck(c, p) \/ Dispatch(c, p)
  BY DEF ClientReceive
<1>3. sub' \in [SubIds -> [state : SubState, client : Clients \cup {NoClient}, topic : TopicName]]
  <2>1. CASE ReceiveAck(c, p)
    BY <2>1, SettledSound DEF Before, ReceiveAck
  <2>2. CASE Dispatch(c, p)
    BY <2>2 DEF Before, Types, Dispatch
  <2> QED
    BY <1>2, <2>1, <2>2
<1> QED
  BY <1>1, <1>3, QuietKeeps

\* The steps of c in which only its life changes.
LEMMA OfflinePublishedKeeps ==
    ASSUME NEW c \in Clients, Before(c), OfflinePublished(c)
    PROVE  KeptBy(c)
<1>1. /\ life[c] = "stopping" /\ life' = [life EXCEPT ![c] = "ending"]
      /\ UNCHANGED << connected, registry, sub, session, retained, orphans, up >>
  BY DEF OfflinePublished, brokerVars
<1>2. Types' /\ life'[c] = "ending" /\ \A d \in Clients \ {c} : Untouched(d)
  BY <1>1 DEF Before, Types, Life, Untouched
<1>3. Orderly(c)' /\ Subscribed(c)' /\ (c \in Agvs => Honest(c)')
  BY <1>1, <1>2 DEF Before, Orderly, Subscribed, IsStarted, Honest
<1> QED
  BY <1>1, <1>2, <1>3 DEF KeptBy

LEMMA StopKeeps ==
    ASSUME NEW c \in Clients, Before(c), Stop(c)
    PROVE  KeptBy(c)
<1>1. Types /\ Orderly(c) /\ life[c] = "started"
  BY DEF Before, Stop
<1>2. UNCHANGED << connected, registry, sub, session, retained, orphans >>
  BY DEF Stop, brokerVars
<1>3. up[c] \in Seq(Packet)
  BY <1>1 DEF Types
<1>4. CASE c \in Agvs /\ connected[c]
  <2> DEFINE p == Publish(c, "OFFLINE")
  <2>1. p \in Packet /\ p.type = "publish" /\ p.agv = c /\ p.state = "OFFLINE"
    BY <1>4, Packets DEF Reported, ConnectionState
  <2>2. life' = [life EXCEPT ![c] = "stopping"] /\ up' = [up EXCEPT ![c] = Append(@, p)]
    BY <1>4 DEF Stop
  <2> HIDE DEF p
  <2>3. /\ life' \in [Clients -> Life] /\ life'[c] = "stopping"
        /\ \A d \in Clients \ {c} : life'[d] = life[d]
    BY <1>1, <2>2 DEF Types, Life
  <2>4. /\ up' \in [Clients -> Seq(Packet)] /\ up'[c] = Append(up[c], p)
        /\ \A d \in Clients \ {c} : up'[d] = up[d]
        /\ Orderly(c)'
    BY <1>1, <1>2, <1>4, <2>1, <2>2, <2>3, SendOrderly
  <2>5. Types' /\ \A d \in Clients \ {c} : Untouched(d)
    BY <1>1, <1>2, <2>3, <2>4 DEF Types, Untouched
  <2>6. Subscribed(c)'
    <3>1. ASSUME Reachable(c), NEW t \in TopicName
          PROVE  InSync(up'[c], session[c].topics, RegisteredTopics(registry[c]), t)
      <4>1. InSync(up[c], session[c].topics, RegisteredTopics(registry[c]), t)
        BY <1>1, <3>1 DEF Before, Subscribed, IsStarted
      <4> QED
        BY <1>3, <2>1, <2>4, <4>1, SentIgnored DEF Mentions
    <3> QED
      BY <1>2, <3>1 DEF Subscribed, Reachable
  <2>7. Honest(c)'
    <3>1. SaysGoodbye(up'[c], retained[c])
      BY <1>3, <2>1, <2>4, SaidGoodbye
    <3> QED
      BY <1>2, <1>4, <3>1 DEF Before, Honest
  <2> QED
    BY <1>2, <2>4, <2>5, <2>6, <2>7 DEF KeptBy
<1>5. CASE ~ (c \in Agvs /\ connected[c])
  <2>1. life' = [life EXCEPT ![c] = "ending"] /\ up' = up
    BY <1>5 DEF Stop
  <2>2. Types' /\ life'[c] = "ending" /\ \A d \in Clients \ {c} : Untouched(d)
    BY <1>1, <1>2, <2>1 DEF Types, Life, Untouched
  <2>3. Orderly(c)' /\ Subscribed(c)' /\ (c \in Agvs => Honest(c)')
    BY <1>1, <1>2, <1>5, <2>1, <2>2 DEF Before, Orderly, Subscribed, IsStarted, Honest
  <2> QED
    BY <1>2, <2>2, <2>3 DEF KeptBy
<1> QED
  BY <1>4, <1>5

LEMMA EndConnectionKeeps ==
    ASSUME NEW c \in Clients, Before(c), EndConnection(c)
    PROVE  KeptBy(c)
<1>1. Types /\ Orderly(c) /\ life[c] = "ending" /\ connected[c]
  BY DEF Before, EndConnection
<1>2. /\ UNCHANGED << connected, registry, sub, session, retained, orphans >>
      /\ life' = [life EXCEPT ![c] = "closing"] /\ up' = [up EXCEPT ![c] = Append(@, Disconnect)]
  BY DEF EndConnection, brokerVars
<1>3. up[c] \in Seq(Packet)
  BY <1>1 DEF Types
<1>4. Disconnect \in Packet /\ Disconnect.type = "disconnect"
  BY Packets
<1>5. /\ life' \in [Clients -> Life] /\ life'[c] = "closing"
      /\ \A d \in Clients \ {c} : life'[d] = life[d]
  BY <1>1, <1>2 DEF Types, Life
<1>6. /\ up' \in [Clients -> Seq(Packet)] /\ up'[c] = Append(up[c], Disconnect)
      /\ \A d \in Clients \ {c} : up'[d] = up[d]
      /\ Orderly(c)'
  BY <1>1, <1>2, <1>4, <1>5, SendOrderly
<1>7. Types' /\ \A d \in Clients \ {c} : Untouched(d)
  BY <1>1, <1>2, <1>5, <1>6 DEF Types, Untouched
<1>8. Subscribed(c)'
  BY <1>5 DEF Subscribed, IsStarted
<1>9. ASSUME c \in Agvs
      PROVE  Honest(c)'
  <2>1. SaysGoodbye(up[c], retained[c])
    BY <1>1, <1>9 DEF Before, Honest
  <2>2. SaysGoodbye(up'[c], retained[c])
    BY <1>3, <1>4, <1>6, <2>1, SaidGoodbye
  <2> QED
    BY <1>2, <1>9, <2>2 DEF Before, Honest
<1> QED
  BY <1>2, <1>6, <1>7, <1>8, <1>9 DEF KeptBy

\* What reset and the end of a process leave of a client.
LEMMA ForgetEffect ==
    ASSUME NEW c \in Clients, Types, Forget(c)
    PROVE  /\ life' \in [Clients -> Life] /\ life'[c] = "stopped"
           /\ connected' \in [Clients -> BOOLEAN] /\ ~ connected'[c]
           /\ registry' \in [Clients -> SUBSET [id : RequestId, topic : TopicName]]
           /\ registry'[c] = {}
           /\ sub' \in [SubIds -> [state : SubState, client : Clients \cup {NoClient},
                                   topic : TopicName]]
           /\ up' \in [Clients -> Seq(Packet)] /\ up'[c] = <<>>
           /\ \A d \in Clients \ {c} : /\ life'[d] = life[d] /\ connected'[d] = connected[d]
                                       /\ registry'[d] = registry[d] /\ up'[d] = up[d]
<1>1. /\ life' \in [Clients -> Life] /\ life'[c] = "stopped"
      /\ \A d \in Clients \ {c} : life'[d] = life[d]
  BY DEF Types, Forget, Life
<1>2. /\ connected' \in [Clients -> BOOLEAN] /\ ~ connected'[c]
      /\ \A d \in Clients \ {c} : connected'[d] = connected[d]
  BY DEF Types, Forget
<1>3. /\ registry' \in [Clients -> SUBSET [id : RequestId, topic : TopicName]]
      /\ registry'[c] = {}
      /\ \A d \in Clients \ {c} : registry'[d] = registry[d]
  BY DEF Types, Forget
<1>4. sub' \in [SubIds -> [state : SubState, client : Clients \cup {NoClient}, topic : TopicName]]
  BY DEF Types, Forget, SubState
<1>5. /\ up' \in [Clients -> Seq(Packet)] /\ up'[c] = <<>>
      /\ \A d \in Clients \ {c} : up'[d] = up[d]
  <2>1. << >> \in Seq(Packet)
    OBVIOUS
  <2> QED
    BY <2>1 DEF Types, Forget
<1> QED
  BY <1>1, <1>2, <1>3, <1>4, <1>5

LEMMA DisconnectedKeeps ==
    ASSUME NEW c \in Clients, Before(c), Disconnected(c)
    PROVE  KeptBy(c)
<1>1. Types /\ Forget(c) /\ UNCHANGED << session, retained, orphans >>
  BY DEF Before, Disconnected, brokerVars
<1>2. Types' /\ \A d \in Clients \ {c} : Untouched(d)
  BY <1>1, ForgetEffect DEF Types, Untouched
<1>3. life'[c] = "stopped" /\ ~ connected'[c] /\ registry'[c] = {} /\ up'[c] = <<>>
  BY <1>1, ForgetEffect
<1>4. Orderly(c)' /\ Subscribed(c)' /\ (c \in Agvs => Honest(c)')
  BY <1>1, <1>3 DEF Before, Orderly, Subscribed, IsStarted, Honest
<1> QED
  BY <1>1, <1>2, <1>4 DEF KeptBy

LEMMA CrashKeeps ==
    ASSUME NEW c \in Clients, Before(c), Crash(c)
    PROVE  KeptBy(c)
<1>1. Types /\ Forget(c) /\ retained' = retained
  BY DEF Before, Crash
<1>2. /\ session' = [session EXCEPT ![c] = Closed]
      /\ orphans' = IF c \in Agvs /\ session[c].open THEN [orphans EXCEPT ![c] = @ + 1]
                    ELSE orphans
  BY DEF Crash
<1>3. /\ session' \in [Clients -> [open : BOOLEAN, topics : SUBSET TopicName]]
      /\ \A d \in Clients \ {c} : session'[d] = session[d]
  BY <1>1, <1>2 DEF Types, Closed
<1>4. /\ orphans' \in [Agvs -> Nat]
      /\ \A a \in Agvs \ {c} : orphans'[a] = orphans[a]
      /\ c \in Agvs /\ (session[c].open \/ orphans[c] > 0) => orphans'[c] > 0
  <2>1. CASE c \in Agvs /\ session[c].open
    <3>1. orphans' = [orphans EXCEPT ![c] = @ + 1] /\ orphans[c] \in Nat /\ c \in Agvs
      BY <1>1, <1>2, <2>1 DEF Types
    <3>2. orphans[c] + 1 \in Nat /\ orphans[c] + 1 > 0
      BY <3>1
    <3> QED
      BY <1>1, <3>1, <3>2 DEF Types
  <2>2. CASE ~ (c \in Agvs /\ session[c].open)
    <3>1. orphans' = orphans
      BY <1>2, <2>2
    <3> QED
      BY <1>1, <2>2, <3>1 DEF Types
  <2> QED
    BY <2>1, <2>2
<1>5. Types' /\ \A d \in Clients \ {c} : Untouched(d)
  BY <1>1, <1>3, <1>4, ForgetEffect DEF Types, Untouched
<1>6. life'[c] = "stopped" /\ ~ connected'[c] /\ registry'[c] = {} /\ up'[c] = <<>>
  BY <1>1, ForgetEffect
<1>7. Orderly(c)' /\ Subscribed(c)'
  BY <1>6 DEF Orderly, Subscribed, IsStarted
<1>8. c \in Agvs => Honest(c)'
  BY <1>1, <1>4, <1>6 DEF Before, Honest
<1> QED
  BY <1>1, <1>4, <1>5, <1>7, <1>8 DEF KeptBy

\* A connection message is stored.
LEMMA RetainEffect ==
    ASSUME NEW a \in Agvs, NEW s \in Reported, Types, Retain(a, s)
    PROVE  /\ retained' \in [Agvs -> Reported] /\ retained'[a] = s
           /\ \A b \in Agvs \ {a} : retained'[b] = retained[b]
BY DEF Types, Retain

LEMMA BrokerDetectBreakKeeps ==
    ASSUME NEW c \in Clients, Before(c), BrokerDetectBreak(c)
    PROVE  KeptBy(c)
<1>1. /\ Types /\ LastWill(c) /\ session[c].open /\ ~ connected[c]
      /\ session' = [session EXCEPT ![c] = Closed]
      /\ UNCHANGED << life, connected, registry, sub, orphans, up >>
  BY DEF Before, BrokerDetectBreak, clientVars
<1>2. /\ session' \in [Clients -> [open : BOOLEAN, topics : SUBSET TopicName]]
      /\ \A d \in Clients \ {c} : session'[d] = session[d]
  BY <1>1 DEF Types, Closed
<1>3. /\ retained' \in [Agvs -> Reported]
      /\ \A a \in Agvs \ {c} : retained'[a] = retained[a]
      /\ c \in Agvs => retained'[c] = "CONNECTIONBROKEN"
  BY <1>1, LastWillEffect
<1>4. Types' /\ \A d \in Clients \ {c} : Untouched(d)
  BY <1>1, <1>2, <1>3 DEF Types, Untouched
<1>5. Orderly(c)' /\ Subscribed(c)' /\ (c \in Agvs => Honest(c)')
  BY <1>1, <1>3 DEF Before, Orderly, Subscribed, Reachable, Honest
<1> QED
  BY <1>1, <1>3, <1>4, <1>5 DEF KeptBy

LEMMA BrokerDetectCrashKeeps ==
    ASSUME NEW a \in Agvs, Before(a), BrokerDetectCrash(a)
    PROVE  KeptBy(a)
<1>1. /\ Types /\ Retain(a, "CONNECTIONBROKEN") /\ a \in Clients
      /\ orphans[a] > 0 /\ orphans' = [orphans EXCEPT ![a] = @ - 1]
      /\ UNCHANGED << life, connected, registry, sub, session, up >>
  BY DEF Before, BrokerDetectCrash, clientVars, Clients
<1>2. orphans[a] \in Nat /\ orphans[a] - 1 \in Nat
  <2>1. orphans[a] \in Nat
    BY <1>1 DEF Types
  <2> QED
    BY <1>1, <2>1
<1>3. /\ orphans' \in [Agvs -> Nat]
      /\ \A b \in Agvs \ {a} : orphans'[b] = orphans[b]
  BY <1>1, <1>2 DEF Types
<1>4. "CONNECTIONBROKEN" \in Reported
  BY DEF Reported, ConnectionState
<1>5. /\ retained' \in [Agvs -> Reported] /\ retained'[a] = "CONNECTIONBROKEN"
      /\ \A b \in Agvs \ {a} : retained'[b] = retained[b]
  BY <1>1, <1>4, RetainEffect
<1>6. Types' /\ \A d \in Clients \ {a} : Untouched(d)
  BY <1>1, <1>3, <1>5 DEF Types, Untouched
<1>7. Orderly(a)' /\ Subscribed(a)'
  BY <1>1 DEF Before, Orderly, Subscribed, IsStarted, Reachable
<1>8. Honest(a)'
  <2>1. ASSUME connected[a] /\ life[a] \in {"stopping", "ending", "closing"}
        PROVE  SaysGoodbye(up[a], retained'[a])
    BY <1>5, <2>1 DEF Before, Honest, SaysGoodbye
  <2> QED
    BY <1>1, <1>5, <2>1 DEF Honest
<1> QED
  BY <1>3, <1>5, <1>6, <1>7, <1>8 DEF KeptBy

\* The broker carries out the packet p that arrives first from c.
LEMMA BrokerReceiveKeeps ==
    ASSUME NEW c \in Clients, Before(c), BrokerReceive(c)
    PROVE  KeptBy(c)
<1>1. /\ Types /\ Orderly(c) /\ session[c].open /\ up[c] # <<>> /\ up[c] \in Seq(Packet)
      /\ up' = [up EXCEPT ![c] = Tail(@)]
      /\ UNCHANGED << life, connected, registry, sub, orphans >>
  BY DEF Before, BrokerReceive, Types, clientVars
<1>2. PICK p \in Packet : p = Head(up[c])
  BY <1>1, ReceivedPackets
<1>3. \/ p.type = "subscribe" /\ BrokerSubscribe(c, p)
      \/ p.type = "unsubscribe" /\ BrokerUnsubscribe(c, p)
      \/ p.type = "publish" /\ BrokerPublish(p)
      \/ p.type = "disconnect" /\ BrokerDisconnect(c)
  BY <1>2 DEF BrokerReceive
<1>4. /\ up' \in [Clients -> Seq(Packet)] /\ up'[c] = Tail(up[c])
      /\ \A d \in Clients \ {c} : up'[d] = up[d]
  BY <1>1, ReceivedPackets DEF Types
<1>5. Orderly(c)'
  <2>1. connected[c] /\ life[c] \notin {"stopped", "connecting"}
    BY <1>1 DEF Orderly
  <2>2. ASSUME NEW k \in DOMAIN Tail(up[c])
        PROVE  /\ Tail(up[c])[k].type = "disconnect"
                    => k = Len(Tail(up[c])) /\ life[c] = "closing"
               /\ Tail(up[c])[k].type = "publish" => Tail(up[c])[k].agv = c
    <3>1. /\ k \in Nat /\ k + 1 \in DOMAIN up[c] /\ Tail(up[c])[k] = up[c][k + 1]
          /\ Len(up[c]) \in Nat /\ Len(Tail(up[c])) = Len(up[c]) - 1
      BY <1>1, ReceivedPackets
    <3>2. /\ up[c][k + 1].type = "disconnect" => k + 1 = Len(up[c]) /\ life[c] = "closing"
          /\ up[c][k + 1].type = "publish" => up[c][k + 1].agv = c
      BY <1>1, <3>1 DEF Orderly
    <3> QED
      BY <3>1, <3>2
  <2> QED
    BY <1>1, <1>4, <2>1, <2>2 DEF Orderly
<1>6. 1 \in DOMAIN up[c] /\ up[c][1] = p
  BY <1>1, <1>2, ReceivedPackets
<1>7. /\ session' \in [Clients -> [open : BOOLEAN, topics : SUBSET TopicName]]
      /\ \A d \in Clients \ {c} : session'[d] = session[d]
      /\ p.type # "disconnect" => session'[c].open
      /\ p.type = "subscribe" => session'[c].topics = session[c].topics \cup p.topics
      /\ p.type = "unsubscribe" => session'[c].topics = session[c].topics \ p.topics
      /\ p.type = "publish" => session'[c].topics = session[c].topics
  <2>1. CASE p.type = "subscribe"
    <3>1. session' = [session EXCEPT ![c].topics = @ \cup p.topics] /\ p.topics \in SUBSET TopicName
      BY <1>3, <2>1, PacketFacts DEF BrokerSubscribe
    <3> QED
      BY <1>1, <2>1, <3>1 DEF Types
  <2>2. CASE p.type = "unsubscribe"
    <3>1. session' = [session EXCEPT ![c].topics = @ \ p.topics]
      BY <1>3, <2>2 DEF BrokerUnsubscribe
    <3> QED
      BY <1>1, <2>2, <3>1 DEF Types
  <2>3. CASE p.type = "publish"
    <3>1. session' = session
      BY <1>3, <2>3 DEF BrokerPublish
    <3> QED
      BY <1>1, <2>3, <3>1 DEF Types
  <2>4. CASE p.type = "disconnect"
    <3>1. session' = [session EXCEPT ![c] = Closed]
      BY <1>3, <2>4 DEF BrokerDisconnect
    <3> QED
      BY <1>1, <2>4, <3>1 DEF Types, Closed
  <2> QED
    BY <1>3, <2>1, <2>2, <2>3, <2>4
<1>8. /\ retained' \in [Agvs -> Reported]
      /\ \A a \in Agvs \ {c} : retained'[a] = retained[a]
      /\ c \in Agvs => retained'[c] = IF p.type = "publish" THEN p.state ELSE retained[c]
  <2>1. CASE p.type = "publish"
    <3>1. p.agv = c /\ p.agv \in Agvs /\ p.state \in Reported
      BY <1>1, <1>6, <2>1, PacketFacts DEF Orderly
    <3>2. Retain(p.agv, p.state)
      BY <1>3, <2>1 DEF BrokerPublish
    <3> QED
      BY <1>1, <2>1, <3>1, <3>2, RetainEffect
  <2>2. CASE p.type # "publish"
    <3>1. retained' = retained
      BY <1>3, <2>2 DEF BrokerSubscribe, BrokerUnsubscribe, BrokerDisconnect
    <3> QED
      BY <1>1, <2>2, <3>1 DEF Types
  <2> QED
    BY <2>1, <2>2
<1>9. Types' /\ \A d \in Clients \ {c} : Untouched(d)
  BY <1>1, <1>4, <1>7, <1>8 DEF Types, Untouched
<1>10. Subscribed(c)'
  <2>1. CASE p.type = "disconnect"
    <3>1. life[c] = "closing"
      BY <1>1, <1>6, <2>1 DEF Orderly
    <3> QED
      BY <1>1, <3>1 DEF Subscribed, IsStarted
  <2>2. CASE p.type # "disconnect"
    <3>1. ASSUME IsStarted(c), connected[c], NEW t \in TopicName
          PROVE  InSync(up'[c], session'[c].topics, RegisteredTopics(registry[c]), t)
      <4>1. InSync(up[c], session[c].topics, RegisteredTopics(registry[c]), t)
        BY <1>1, <3>1 DEF Before, Subscribed, Reachable
      <4>2. IF Mentions(Head(up[c]), t)
            THEN t \in session'[c].topics <=> Head(up[c]).type = "subscribe"
            ELSE t \in session'[c].topics <=> t \in session[c].topics
        <5>1. p.type \in {"subscribe", "unsubscribe", "publish"}
          BY <2>2, PacketFacts
        <5> QED
          BY <1>2, <1>7, <5>1 DEF Mentions
      <4> QED
        BY <1>1, <1>4, <4>1, <4>2, ReceivedInSync
    <3> QED
      BY <1>1, <3>1 DEF Subscribed, IsStarted, Reachable
  <2> QED
    BY <2>1, <2>2
<1>11. ASSUME c \in Agvs
       PROVE  Honest(c)'
  <2>1. ASSUME life[c] \in {"stopping", "ending", "closing"}
        PROVE  SaysGoodbye(up'[c], retained'[c])
    <3>1. SaysGoodbye(up[c], retained[c])
      BY <1>1, <1>11, <2>1 DEF Before, Honest, Orderly
    <3> QED
      BY <1>1, <1>2, <1>4, <1>8, <1>11, <3>1, HeardGoodbye
  <2>2. ASSUME retained'[c] = "ONLINE"
        PROVE  session'[c].open
    <3>1. ASSUME p.type = "disconnect"
          PROVE  FALSE
      <4>1. Len(up[c]) = 1 /\ life[c] = "closing" /\ connected[c]
        BY <1>1, <1>6, <3>1 DEF Orderly
      <4>2. DOMAIN up[c] = {1}
        BY <1>1, <4>1, ReceivedPackets
      <4>3. SaysGoodbye(up[c], retained[c])
        BY <1>11, <4>1 DEF Before, Honest
      <4>4. retained[c] # "ONLINE"
        BY <1>6, <3>1, <4>2, <4>3 DEF SaysGoodbye
      <4> QED
        BY <1>8, <1>11, <2>2, <3>1, <4>4
    <3> QED
      BY <1>7, <3>1
  <2> QED
    BY <1>1, <2>1, <2>2 DEF Honest
<1> QED
  BY <1>1, <1>5, <1>8, <1>9, <1>10, <1>11 DEF KeptBy

-----------------------------------------------------------------------------
(***************************************************************************)
(* The theorems.                                                           *)
(***************************************************************************)

LEMMA InitInv == Init => Inv
<1> SUFFICES ASSUME Init
             PROVE  Inv
  OBVIOUS
<1>1. << >> \in Seq(Packet)
  OBVIOUS
<1>2. Types
  BY <1>1 DEF Init, Types, Life, SubState, TopicName, Closed, Reported
<1>3. ASSUME NEW c \in Clients
      PROVE  Orderly(c) /\ Subscribed(c)
  BY DEF Init, Orderly, Subscribed, IsStarted
<1>4. ASSUME NEW a \in Agvs
      PROVE  Honest(a)
  BY DEF Init, Honest, Clients, Unknown
<1> QED
  BY <1>2, <1>3, <1>4 DEF Inv

\* A step of one client keeps the invariant of all of them.
LEMMA KeptByAll ==
    ASSUME Inv, NEW c \in Clients, KeptBy(c)
    PROVE  Inv'
<1>1. ASSUME NEW d \in Clients
      PROVE  Orderly(d)' /\ Subscribed(d)'
  <2>1. CASE d = c
    BY <2>1 DEF KeptBy
  <2>2. CASE d # c
    <3>1. Untouched(d) /\ Orderly(d) /\ Subscribed(d)
      BY <2>2 DEF KeptBy, Inv
    <3> QED
      BY <3>1 DEF Untouched, Orderly, Subscribed, IsStarted, Reachable
  <2> QED
    BY <2>1, <2>2
<1>2. ASSUME NEW a \in Agvs
      PROVE  Honest(a)'
  <2>1. CASE a = c
    BY <2>1 DEF KeptBy
  <2>2. CASE a # c
    <3>1. Untouched(a) /\ Honest(a) /\ retained'[a] = retained[a] /\ orphans'[a] = orphans[a]
      BY <2>2 DEF KeptBy, Inv, Clients
    <3> QED
      BY <3>1 DEF Untouched, Honest
  <2> QED
    BY <2>1, <2>2
<1> QED
  BY <1>1, <1>2 DEF Inv, KeptBy

LEMMA NextInv == Inv /\ [Next]_vars => Inv'
<1> SUFFICES ASSUME Inv, [Next]_vars
             PROVE  Inv'
  OBVIOUS
<1> USE ClientAssumption
<1>1. \A c \in Clients : Before(c)
  BY DEF Inv, Before
<1>2. ASSUME NEW c \in Clients, Operation(c)
      PROVE  KeptBy(c)
  <2>1. CASE Start(c)
    BY <1>1, <2>1, StartKeeps
  <2>2. CASE Stop(c)
    BY <1>1, <2>2, StopKeeps
  <2>3. ASSUME NEW i \in SubIds, NEW t \in Topics, SubscribeTopic(c, i, t)
        PROVE  KeptBy(c)
    BY <1>1, <2>3, SubscribeTopicKeeps
  <2>4. ASSUME NEW i \in SubIds, UnsubscribeTopic(c, i)
        PROVE  KeptBy(c)
    BY <1>1, <2>4, UnsubscribeTopicKeeps
  <2>5. ASSUME NEW i \in SubIds, UnsubscribeAgain(c, i)
        PROVE  KeptBy(c)
    BY <1>1, <2>5, UnsubscribeAgainKeeps
  <2> QED
    BY <1>2, <2>1, <2>2, <2>3, <2>4, <2>5 DEF Operation
<1>3. ASSUME NEW c \in Clients, Progress(c)
      PROVE  KeptBy(c)
  <2>1. CASE Connected(c)
    BY <1>1, <2>1, ConnectedKeeps
  <2>2. CASE Reconnected(c)
    BY <1>1, <2>2, ReconnectedKeeps
  <2>3. CASE ClientReceive(c)
    BY <1>1, <2>3, ClientReceiveKeeps
  <2>4. CASE OfflinePublished(c)
    BY <1>1, <2>4, OfflinePublishedKeeps
  <2>5. CASE EndConnection(c)
    BY <1>1, <2>5, EndConnectionKeeps
  <2>6. CASE Disconnected(c)
    BY <1>1, <2>6, DisconnectedKeeps
  <2>7. CASE BrokerReceive(c)
    BY <1>1, <2>7, BrokerReceiveKeeps
  <2>8. CASE BrokerDetectBreak(c)
    BY <1>1, <2>8, BrokerDetectBreakKeeps
  <2> QED
    BY <1>3, <2>1, <2>2, <2>3, <2>4, <2>5, <2>6, <2>7, <2>8 DEF Progress
<1>4. ASSUME NEW c \in Clients, Failure(c)
      PROVE  KeptBy(c)
  BY <1>1, <1>4, ConnectFailedKeeps, ConnectionBreaksKeeps, CrashKeeps DEF Failure
<1>5. ASSUME NEW a \in Agvs, BrokerDetectCrash(a)
      PROVE  a \in Clients /\ KeptBy(a)
  <2>1. a \in Clients
    BY DEF Clients
  <2> QED
    BY <1>1, <1>5, <2>1, BrokerDetectCrashKeeps
<1>6. CASE Next
  <2>1. PICK c \in Clients : KeptBy(c)
    BY <1>2, <1>3, <1>4, <1>5, <1>6 DEF Next
  <2> QED
    BY <2>1, KeptByAll
<1>7. CASE UNCHANGED vars
  <2>1. UNCHANGED << life, connected, registry, sub, session, retained, orphans, up >>
    BY <1>7 DEF vars, clientVars, brokerVars
  <2> QED
    BY <2>1 DEF Inv, Types, Orderly, Subscribed, Honest, IsStarted, Reachable
<1> QED
  BY <1>6, <1>7

LEMMA InvAlways == Spec => []Inv
BY InitInv, NextInv, PTL DEF Spec

\* When all packets that a connected client sent have arrived, the broker
\* forwards exactly the topics that have a handler: however subscribing,
\* unsubscribing, reconnecting and restarting interleave, neither is a handler
\* left without messages nor a topic without handler (client.ts: _connect,
\* subscribeTopic, unsubscribe; subscription-manager.ts: add, remove, getAll).
THEOREM SubscriptionsMatchHandlersHolds == Spec => []SubscriptionsMatchHandlers
<1>1. Inv => SubscriptionsMatchHandlers
  <2> SUFFICES ASSUME Inv, NEW c \in Clients, IsStarted(c), Reachable(c), up[c] = <<>>
               PROVE  session[c].topics = RegisteredTopics(registry[c])
    BY DEF SubscriptionsMatchHandlers
  <2>1. session[c].topics \subseteq TopicName /\ RegisteredTopics(registry[c]) \subseteq TopicName
    BY DEF Inv, Types, RegisteredTopics
  <2>2. ASSUME NEW t \in TopicName
        PROVE  t \in session[c].topics <=> t \in RegisteredTopics(registry[c])
    <3>1. InSync(up[c], session[c].topics, RegisteredTopics(registry[c]), t)
      BY DEF Inv, Subscribed
    <3> QED
      BY <3>1 DEF InSync
  <2> QED
    BY <2>1, <2>2
<1> QED
  BY <1>1, InvAlways, PTL

\* An AGV client that is stopped is not reported online once the broker holds
\* no session of it any more, also not after crashes, broken connections and
\* takeovers of its sessions: what the broker retains is ONLINE only as long as
\* a last will or the client's own OFFLINE is still to come (agv-client.ts:
\* onStarted, onStopping, getLastWillTopic; client.ts: stop).
THEOREM StoppedNotOnlineHolds == Spec => []StoppedNotOnline
<1>1. Inv => StoppedNotOnline
  <2> SUFFICES ASSUME Inv, NEW a \in Agvs, ~ session[a].open, orphans[a] = 0
               PROVE  retained[a] # "ONLINE"
    BY DEF StoppedNotOnline
  <2>1. Honest(a)
    BY DEF Inv
  <2> QED
    BY <2>1 DEF Honest
<1> QED
  BY <1>1, InvAlways, PTL
=============================================================================
