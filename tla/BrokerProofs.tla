----------------------------- MODULE BrokerProofs ----------------------------
(***************************************************************************)
(* The broker for every set of clients, topics, filters and plans: its     *)
(* types, the version that SUBSCRIBE unwraps, and the retained messages no *)
(* subscriber misses.                                                      *)
(***************************************************************************)
EXTENDS Broker, SequenceTheorems, TLAPS

-----------------------------------------------------------------------------
(* The inductive invariants *)

\* What a handler needs where it stands.
HandlerFits(c) ==
    /\ step[c] \in {"unstaged", "release", "commit"} => request[c].kind = "PUBREL"
    /\ step[c] = "release" => fetched[c] # None
    /\ step[c] \in {"check", "answer"} => reply[c] # <<>>
    /\ step[c] = "check" => todo[c] # <<>>

TypeInvariant == BrokerTypeOK /\ \A c \in Conns : HandlerFits(c)

\* Whoever serves a packet has recorded the version of its client.
Connected(c) == step[c] \notin {"new", "register", "version", "closed"}
VersionsKnown == \A c \in Conns : Connected(c) => mqtt_id[c] \in mqtt_version

\* Connection c serves its k-th request, a SUBSCRIBE.
Serving(c, k) ==
    /\ k = sent[c]
    /\ request[c].kind = "SUBSCRIBE"
    /\ step[c] \in {"serve", "check", "answer"}

\* What a client owes is an answer to a PUBLISH or a PUBREL, never a SUBSCRIBE.
OwedFits(c) == \A i \in DOMAIN owed[c] : owed[c][i].kind \in {"PUBREC", "PUBCOMP"}

\* How the connection follows its client's plan.
PlanFollowed(c) ==
    /\ step[c] = "new" => sent[c] = 0 /\ mqtt_id[c] = NoId
    /\ step[c] \in {"register", "version"} => request[c].kind = "CONNECT"
    /\ sent[c] <= Len(plan[c])
    /\ OwedFits(c)
    /\ step[c] \in {"serve", "check", "answer"} /\ request[c].kind = "SUBSCRIBE" =>
            sent[c] > 0 /\ request[c] = plan[c][sent[c]]

\* The locals of SUBSCRIBE: publishes are found and answered in "check" only,
\* and everything behind the SUBACK is a publish.
LocalsFit(c) ==
    /\ step[c] = "check" => request[c].kind = "SUBSCRIBE"
    /\ step[c] = "check" => \A i \in 2 .. Len(reply[c]) : reply[c][i].kind = "PUBLISH"
    /\ step[c] # "check" => found[c] = <<>>

\* What is stored under a topic was published to it; a task reads the filters
\* after it has stored, and is done when it has sent to all it found.
StoreFits == \A t \in TopicNames : kvs[t] # None => kvs[t].topic = t
TaskFits(i) ==
    /\ tasks[i].stage = "update" => tasks[i].unvisited = subed_filters(tasks[i].msg.topic)
    /\ tasks[i].stage = "done" => tasks[i].next > Len(tasks[i].targets)

BrokerFits ==
    /\ TypeInvariant
    /\ \A c \in Conns : PlanFollowed(c) /\ LocalsFit(c)
    /\ StoreFits
    /\ \A i \in DOMAIN tasks : TaskFits(i)

\* Every filter of a SUBSCRIBE is entered for its client, or is still to do.
Entered(filter, mid) == \E i \in DOMAIN topic_map[filter] : topic_map[filter][i].mid = mid
StillToDo(c, filter) ==
    step[c] = "serve" /\ \E i \in DOMAIN todo[c] : todo[c][i].filter = filter
FiltersEntered ==
    \A c \in Conns : mqtt_id[c] # NoId =>
        \A k \in Read(c) : Is(c, k, "SUBSCRIBE") =>
            \A i \in DOMAIN plan[c][k].filters :
                LET filter == plan[c][k].filters[i].filter IN
                \/ Entered(filter, mqtt_id[c])
                \/ Serving(c, k) /\ StillToDo(c, filter)

\* A task has the client among its targets, or is going to look at its filter.
OnItsWay(mid, filter, msg) ==
    \E i \in DOMAIN tasks :
        /\ tasks[i].msg = msg
        /\ \/ tasks[i].stage \in {"update", "visit"} /\ filter \in tasks[i].unvisited
           \/ \E j \in DOMAIN tasks[i].targets : tasks[i].targets[j].mid = mid

\* SUBSCRIBE is going to read the topic, or has it in hand, and has not seen
\* another publish to it that would hide this one.
ToCome(c, t) ==
    t \in unvisited[c] \/ \E i \in 2 .. Len(todo[c]) : Matches(todo[c][i].filter, t)
InHand(c, msg) ==
    HasPublish(reply[c], msg) \/ \E i \in DOMAIN found[c] : found[c][i] = msg
Only(c, msg) ==
    /\ \A i \in DOMAIN found[c] : found[c][i].topic = msg.topic => found[c][i] = msg
    /\ \A i \in 2 .. Len(reply[c]) : reply[c][i].msg.topic = msg.topic => reply[c][i].msg = msg
Collecting(c, msg) ==
    CASE step[c] = "serve" -> TRUE
      [] step[c] = "check" -> Only(c, msg) /\ (ToCome(c, msg.topic) \/ InHand(c, msg))
      [] OTHER -> HasPublish(reply[c], msg)

\* The channel was closed in the middle of the answer to the k-th request.
CutShort(c, k) == k = sent[c] /\ step[c] = "closed" /\ reply[c] # <<>>

\* What is retained is on its way to every subscriber, or was handed to it, or
\* is being collected for it, or its connection ended over it.
Reaches(c, k, filter, msg) ==
    \/ OnItsWay(mqtt_id[c], filter, msg)
    \/ HasPublish(out[c], msg)
    \/ Serving(c, k) /\ Collecting(c, msg)
    \/ CutShort(c, k)
RetainedReaches ==
    \A t \in TopicNames : kvs[t] # None =>
        \A c \in Conns : mqtt_id[c] # NoId =>
            \A k \in Read(c) : Is(c, k, "SUBSCRIBE") =>
                \A i \in DOMAIN plan[c][k].filters :
                    Matches(plan[c][k].filters[i].filter, t) =>
                        Reaches(c, k, plan[c][k].filters[i].filter, kvs[t])

RetainInvariant == BrokerFits /\ FiltersEntered /\ RetainedReaches
-----------------------------------------------------------------------------
(* Requests, publishes and packets *)

LEMMA RequestFields ==
    ASSUME NEW r \in Request
    PROVE  /\ r.kind = "CONNECT" => r.mid \in MqttIds
           /\ r.kind = "SUBSCRIBE" => r.filters \in Seq(Subscription)
           /\ r.kind = "PUBLISH" => r.msg \in Message
           /\ r.kind \in {"PUBREC", "PUBREL", "PUBCOMP"} => r.pid \in PacketIds
  BY DEF Request

LEMMA MessageFields ==
    ASSUME NEW m \in Message
    PROVE  /\ m.topic \in TopicNames /\ m.qos \in QoS
           /\ m.retain \in BOOLEAN /\ m.empty \in BOOLEAN
           /\ m.qos = 0 => m.pid = None
           /\ m.qos # 0 => m.pid \in PacketIds
  BY NoneAssumption DEF Message

LEMMA AckType ==
    /\ \A kind \in {"CONNACK", "SUBACK"} : Ack(kind, None) \in Packet
    /\ \A kind \in {"PUBACK", "PUBREC", "PUBREL", "PUBCOMP"}, pid \in PacketIds :
            Ack(kind, pid) \in Packet
  BY DEF Ack, Packet

LEMMA DeliveryType ==
    ASSUME NEW m \in Message
    PROVE  /\ Delivery(m, m.qos, m.pid) \in Packet
           /\ \A qos \in QoS : \A pid \in DeliveryIds(m, qos) : Delivery(m, qos, pid) \in Packet
<1>1. Delivery(m, m.qos, m.pid) \in Packet
  <2>1. CASE m.qos = 0
    BY <2>1, MessageFields DEF Delivery, Packet
  <2>2. CASE m.qos # 0
    <3>1. m.qos \in {1, 2} /\ m.pid \in PacketIds
      BY <2>2, MessageFields DEF QoS
    <3>. QED
      BY <3>1 DEF Delivery, Packet
  <2>. QED
    BY <2>1, <2>2
<1>2. ASSUME NEW qos \in QoS, NEW pid \in DeliveryIds(m, qos)
      PROVE  Delivery(m, qos, pid) \in Packet
  <2>1. CASE qos = 0
    BY <1>2, <2>1 DEF DeliveryIds, Delivery, Packet
  <2>2. CASE qos \in {1, 2}
    <3>1. pid \in PacketIds
      <4>1. CASE m.pid # None
        BY <1>2, <2>2, <4>1, MessageFields DEF DeliveryIds
      <4>2. CASE m.pid = None
        BY <1>2, <2>2, <4>2 DEF DeliveryIds
      <4>. QED
        BY <4>1, <4>2
    <3>. QED
      BY <2>2, <3>1 DEF Delivery, Packet
  <2>. QED
    BY <2>1, <2>2 DEF QoS
<1>. QED
  BY <1>1, <1>2

LEMMA OwesType ==
    ASSUME NEW p \in Packet
    PROVE  /\ Owes(p) \in Seq(Request)
           /\ \A i \in DOMAIN Owes(p) : Owes(p)[i].kind \in {"PUBREC", "PUBCOMP"}
<1>1. CASE p.kind = "PUBLISH" /\ p.qos = 2
  <2>1. p.pid \in PacketIds
    BY <1>1 DEF Packet
  <2>2. [kind |-> "PUBREC", pid |-> p.pid] \in Request
    BY <2>1 DEF Request
  <2>. QED
    BY <1>1, <2>2 DEF Owes
<1>2. CASE p.kind = "PUBREL"
  <2>1. p.pid \in PacketIds
    BY <1>2 DEF Packet
  <2>2. [kind |-> "PUBCOMP", pid |-> p.pid] \in Request
    BY <2>1 DEF Request
  <2>. QED
    BY <1>2, <2>2 DEF Owes
<1>3. CASE ~(p.kind = "PUBLISH" /\ p.qos = 2) /\ p.kind # "PUBREL"
  BY <1>3, EmptySeq DEF Owes
<1>. QED
  BY <1>1, <1>2, <1>3

LEMMA AnswersType ==
    ASSUME NEW m \in Message
    PROVE  Answers(m) \in Seq(Packet)
<1>1. CASE m.qos = 0
  BY <1>1, EmptySeq DEF Answers
<1>2. CASE m.qos = 1
  BY <1>2, AckType, MessageFields DEF Answers
<1>3. CASE m.qos = 2
  BY <1>3, AckType, MessageFields DEF Answers
<1>. QED
  BY <1>1, <1>2, <1>3, MessageFields DEF QoS

LEMMA RequestsType ==
    ASSUME ClientsTypeOK, NEW c \in Conns, NEW r \in Requests(c)
    PROVE  r \in Request
<1>1. plan[c] \in Seq(Request) /\ owed[c] \in Seq(Request)
  BY PlansAssumption DEF ClientsTypeOK
<1>. QED
  BY <1>1, ElementOfSeq, LenProperties DEF Requests

-----------------------------------------------------------------------------
(* BrokerTypeOK *)

LEMMA ReturnType ==
    ASSUME HandlersTypeOK, NEW c \in Conns, NEW packets \in Seq(Packet), Return(c, packets)
    PROVE  /\ step' \in [Conns -> Steps]
           /\ reply' \in [Conns -> Seq(Packet)]
           /\ step'[c] = "answer" => reply'[c] # <<>>
           /\ step'[c] \in {"answer", "reading"}
           /\ reply'[c] = packets
           /\ \A d \in Conns \ {c} : step'[d] = step[d] /\ reply'[d] = reply[d]
  BY DEF HandlersTypeOK, Return, Goto, Steps

LEMMA GotoType ==
    ASSUME HandlersTypeOK, NEW c \in Conns, NEW s \in Steps, Goto(c, s)
    PROVE  /\ step' \in [Conns -> Steps]
           /\ step'[c] = s
           /\ \A d \in Conns \ {c} : step'[d] = step[d]
  BY DEF HandlersTypeOK, Goto

\* Whether the channel takes the packet or refuses it.
LEMMA HandOwed ==
    ASSUME ClientsTypeOK, NEW c \in Conns, NEW p, Hand(c, p)
    PROVE  owed' = owed \/ owed' = [owed EXCEPT ![c] = owed[c] \o Owes(p)]
<1>1. CASE Accepts(c, p)
  <2> DEFINE more == Owes(p)
  <2>1. owed' = [owed EXCEPT ![c] = owed[c] \o more]
    BY <1>1 DEF Accepts
  <2>. QED
    BY <2>1
<1>2. CASE Refuses
  BY <1>2 DEF Refuses
<1>. QED
  BY <1>1, <1>2 DEF Hand

LEMMA RefusalsType ==
    ASSUME refusals \in Nat
    PROVE  /\ Refuses => refusals' \in Nat
           /\ \A c, p : Accepts(c, p) => refusals' \in Nat
  BY DEF Refuses, Accepts

LEMMA HandType ==
    ASSUME ClientsTypeOK, HandlersTypeOK, NEW c \in Conns, NEW p \in Packet, Hand(c, p)
    PROVE  /\ ClientsTypeOK'
           /\ out' \in [Conns -> Seq(Packet)]
           /\ refusals' \in Nat
<1>1. out' \in [Conns -> Seq(Packet)]
  BY DEF HandlersTypeOK, Hand
<1>2. Owes(p) \in Seq(Request) /\ owed[c] \in Seq(Request)
  BY OwesType DEF ClientsTypeOK
<1>3. owed[c] \o Owes(p) \in Seq(Request)
  BY <1>2, ConcatProperties
<1>4. owed' \in [Conns -> Seq(Request)]
  <2> DEFINE more == Owes(p)
  <2>1. owed' = owed \/ owed' = [owed EXCEPT ![c] = owed[c] \o more]
    BY HandOwed
  <2> HIDE DEF more
  <2>. QED
    BY <1>3, <2>1 DEF ClientsTypeOK, more
<1>5. refusals' \in Nat
  BY RefusalsType DEF HandlersTypeOK, Hand
<1>. QED
  BY <1>1, <1>4, <1>5 DEF ClientsTypeOK, Hand

LEMMA ArrivesType ==
    ASSUME ClientsTypeOK, NEW c \in Conns, NEW r, Arrives(c, r) \/ OwedArrives(c, r)
    PROVE  ClientsTypeOK'
<1>1. CASE Arrives(c, r)
  BY <1>1 DEF ClientsTypeOK, Arrives
<1>2. CASE OwedArrives(c, r)
  <2>1. Tail(owed[c]) \in Seq(Request)
    BY <1>2, HeadTailProperties DEF ClientsTypeOK, OwedArrives
  <2>. QED
    BY <1>2, <2>1 DEF ClientsTypeOK, OwedArrives
<1>. QED
  BY <1>1, <1>2

LEMMA SpawnType ==
    ASSUME HandlersTypeOK, NEW m \in Message, NEW stage \in {"update", "visit"}, Spawn(m, stage)
    PROVE  tasks' \in Seq(Task)
<1> DEFINE task == [msg |-> m, stage |-> stage, targets |-> <<>>, next |-> 1,
                    unvisited |-> subed_filters(m.topic)]
<1>1. subed_filters(m.topic) \in SUBSET Filters
  BY DEF subed_filters
<1>2. <<>> \in Seq(Entry)
  BY EmptySeq
<1>3. task \in Task
  BY <1>1, <1>2 DEF Task
<1>. QED
  BY <1>3 DEF Spawn, HandlersTypeOK

LEMMA ClientType ==
    ASSUME TypeInvariant, NEW c \in Conns, Client(c)
    PROVE  TypeInvariant'
<1> USE DEF TypeInvariant, BrokerTypeOK
<1>1. CASE Close(c)
  <2>1. step' \in [Conns -> Steps] /\ step'[c] = "closed"
        /\ \A d \in Conns \ {c} : step'[d] = step[d]
    BY <1>1, GotoType DEF Close, Steps
  <2>2. UNCHANGED <<clients, request, mqtt_id, locals, reply, sending, tasks, maps>>
    BY <1>1 DEF sending, Close
  <2>3. HandlersTypeOK'
    BY <2>1, <2>2 DEF sending, HandlersTypeOK, locals
  <2>4. ASSUME NEW d \in Conns PROVE HandlerFits(d)'
    BY <2>1, <2>2 DEF HandlerFits, locals
  <2>. QED
    BY <2>2, <2>3, <2>4 DEF maps, sessionVars, clients, SessionTypeOK, RetainTypeOK,
                            TopicTypeOK, ClientsTypeOK
<1>2. CASE Take(c)
  <2>1. PICK r \in Requests(c) :
            /\ Arrives(c, r) \/ OwedArrives(c, r)
            /\ request' = [request EXCEPT ![c] = r]
            /\ todo' = [todo EXCEPT ![c] = IF r.kind = "SUBSCRIBE" THEN r.filters ELSE <<>>]
    BY <1>2 DEF Take
  <2>2. r \in Request
    BY RequestsType
  <2>3. ClientsTypeOK'
    BY <2>1, ArrivesType
  <2>4. step' \in [Conns -> Steps] /\ step'[c] = "serve"
        /\ \A d \in Conns \ {c} : step'[d] = step[d]
    BY <1>2, GotoType DEF Take, Steps
  <2>5. (IF r.kind = "SUBSCRIBE" THEN r.filters ELSE <<>>) \in Seq(Subscription)
    BY <2>2, RequestFields, EmptySeq
  <2>6. todo' \in [Conns -> Seq(Subscription)] /\ \A d \in Conns \ {c} : todo'[d] = todo[d]
    BY <2>1, <2>5 DEF HandlersTypeOK
  <2>7. request' \in [Conns -> Request] /\ \A d \in Conns \ {c} : request'[d] = request[d]
    BY <2>1, <2>2 DEF HandlersTypeOK
  <2>8. UNCHANGED <<mqtt_id, unvisited, found, fetched, reply, sending, tasks, maps>>
    BY <1>2 DEF sending, Take
  <2>9. HandlersTypeOK'
    BY <2>4, <2>6, <2>7, <2>8 DEF sending, HandlersTypeOK
  <2>10. ASSUME NEW d \in Conns PROVE HandlerFits(d)'
    BY <2>4, <2>6, <2>7, <2>8 DEF HandlerFits
  <2>. QED
    BY <2>3, <2>8, <2>9, <2>10 DEF maps, sessionVars, SessionTypeOK, RetainTypeOK, TopicTypeOK
<1>3. CASE Connect(c)
  <2>1. PICK r \in Requests(c) :
            /\ Arrives(c, r)
            /\ r.kind = "CONNECT"
            /\ mqtt_id' = [mqtt_id EXCEPT ![c] = r.mid]
            /\ request' = [request EXCEPT ![c] = r]
    BY <1>3 DEF Connect
  <2>2. r \in Request /\ r.mid \in MqttIds
    BY <2>1, RequestsType, RequestFields
  <2>3. ClientsTypeOK'
    BY <2>1, ArrivesType
  <2>4. step' \in [Conns -> Steps] /\ step'[c] = "register"
        /\ \A d \in Conns \ {c} : step'[d] = step[d]
    BY <1>3, GotoType DEF Connect, Steps
  <2>5. /\ request' \in [Conns -> Request] /\ mqtt_id' \in [Conns -> MqttIds]
        /\ \A d \in Conns \ {c} : request'[d] = request[d]
    BY <2>1, <2>2 DEF HandlersTypeOK
  <2>6. UNCHANGED <<locals, reply, sending, tasks, maps>>
    BY <1>3 DEF sending, Connect
  <2>7. HandlersTypeOK'
    BY <2>4, <2>5, <2>6 DEF sending, HandlersTypeOK, locals
  <2>8. ASSUME NEW d \in Conns PROVE HandlerFits(d)'
    BY <2>4, <2>5, <2>6 DEF HandlerFits, locals
  <2>. QED
    BY <2>3, <2>6, <2>7, <2>8 DEF maps, sessionVars, SessionTypeOK, RetainTypeOK, TopicTypeOK
<1>4. CASE ConnectRefused(c)
  <2>1. PICK r \in Requests(c) : Arrives(c, r) /\ request' = [request EXCEPT ![c] = r]
    BY <1>4 DEF ConnectRefused
  <2>2. r \in Request
    BY RequestsType
  <2>3. ClientsTypeOK'
    BY <2>1, ArrivesType
  <2>4. step' \in [Conns -> Steps] /\ step'[c] = "closed"
        /\ \A d \in Conns \ {c} : step'[d] = step[d]
    BY <1>4, GotoType DEF ConnectRefused, Steps
  <2>5. request' \in [Conns -> Request] /\ \A d \in Conns \ {c} : request'[d] = request[d]
    BY <2>1, <2>2 DEF HandlersTypeOK
  <2>6. UNCHANGED <<mqtt_id, locals, reply, sending, tasks, maps>>
    BY <1>4 DEF sending, ConnectRefused
  <2>7. HandlersTypeOK'
    BY <2>4, <2>5, <2>6 DEF sending, HandlersTypeOK, locals
  <2>8. ASSUME NEW d \in Conns PROVE HandlerFits(d)'
    BY <2>4, <2>5, <2>6 DEF HandlerFits, locals
  <2>. QED
    BY <2>3, <2>6, <2>7, <2>8 DEF maps, sessionVars, SessionTypeOK, RetainTypeOK, TopicTypeOK
<1>. QED
  BY <1>1, <1>2, <1>3, <1>4 DEF Client
\* A handler that returns, whatever it did to the maps and the tasks.
LEMMA ReturnKeepsTypes ==
    ASSUME TypeInvariant, NEW c \in Conns, NEW packets \in Seq(Packet), Return(c, packets),
           UNCHANGED <<clients, request, mqtt_id, locals, sending>>, tasks' \in Seq(Task),
           SessionTypeOK', RetainTypeOK', TopicTypeOK'
    PROVE  TypeInvariant'
<1> USE DEF TypeInvariant, BrokerTypeOK
<1>1. /\ step' \in [Conns -> Steps]
      /\ reply' \in [Conns -> Seq(Packet)]
      /\ step'[c] = "answer" => reply'[c] # <<>>
      /\ step'[c] \in {"answer", "reading"}
      /\ \A d \in Conns \ {c} : step'[d] = step[d] /\ reply'[d] = reply[d]
  BY ReturnType
<1>2. HandlersTypeOK'
  BY <1>1 DEF sending, HandlersTypeOK, locals
<1>3. ASSUME NEW d \in Conns PROVE HandlerFits(d)'
  BY <1>1 DEF HandlerFits, locals
<1>4. ClientsTypeOK'
  BY DEF ClientsTypeOK, clients
<1>. QED
  BY <1>2, <1>3, <1>4

\* What the handlers do to the maps.
LEMMA SessionTypes ==
    ASSUME SessionTypeOK
    PROVE  /\ \A mid \in MqttIds, c \in Conns :
                register_mqtt_id(mid, c) => by_mqtt_id' \in [MqttIds -> Conns \cup {None}]
           /\ \A mid \in MqttIds :
                unregister_mqtt_id(mid) => by_mqtt_id' \in [MqttIds -> Conns \cup {None}]
           /\ \A mid \in MqttIds : set_protocol_version(mid) => mqtt_version' \in SUBSET MqttIds
           /\ \A msg \in Message :
                add_staging_packet(msg) => qos_tmp' \in [PacketIds -> Message \cup {None}]
           /\ \A pid \in PacketIds :
                commit_packet(pid) => qos_tmp' \in [PacketIds -> Message \cup {None}]
  BY DEF SessionTypeOK, register_mqtt_id, unregister_mqtt_id, set_protocol_version,
         add_staging_packet, commit_packet

LEMMA RetainTypes ==
    ASSUME RetainTypeOK
    PROVE  /\ \A msg \in Message : update_retain(msg) => RetainTypeOK'
           /\ \A topic \in TopicNames : remove_retain(topic) => RetainTypeOK'
  BY DEF RetainTypeOK, update_retain, remove_retain

\* The services that answer at once.
LEMMA ServiceType ==
    ASSUME TypeInvariant, NEW c \in Conns,
           \/ SetVersion(c) \/ Disconnect(c) \/ Ignore(c) \/ Pubrec(c) \/ Pubcomp(c)
           \/ PublishEmpty(c) \/ PublishSpawn(c) \/ PublishStage(c)
           \/ PubrelUnstaged(c) \/ PubrelCommit(c)
    PROVE  TypeInvariant'
<1>1. /\ SessionTypeOK /\ RetainTypeOK /\ TopicTypeOK /\ HandlersTypeOK
      /\ tasks \in Seq(Task) /\ request[c] \in Request /\ mqtt_id[c] \in MqttIds
  BY DEF TypeInvariant, BrokerTypeOK, HandlersTypeOK
<1>2. <<>> \in Seq(Packet)
  BY EmptySeq
<1> USE <1>1
<1>3. CASE SetVersion(c)
  <2>1. <<Ack("CONNACK", None)>> \in Seq(Packet)
    BY AckType
  <2>2. SessionTypeOK'
    BY <1>3, SessionTypes DEF SetVersion, SessionTypeOK
  <2>. QED
    BY <1>3, <2>1, <2>2, ReturnKeepsTypes DEF sending, SetVersion, RetainTypeOK, TopicTypeOK
<1>4. CASE Disconnect(c)
  <2>1. SessionTypeOK'
    BY <1>4, SessionTypes DEF Disconnect, SessionTypeOK
  <2>. QED
    BY <1>2, <1>4, <2>1, ReturnKeepsTypes DEF sending, Disconnect, RetainTypeOK, TopicTypeOK
<1>5. CASE Ignore(c)
  BY <1>2, <1>5, ReturnKeepsTypes
  DEF sending, Ignore, maps, sessionVars, SessionTypeOK, RetainTypeOK, TopicTypeOK
<1>6. CASE Pubrec(c)
  <2>1. <<Ack("PUBREL", request[c].pid)>> \in Seq(Packet)
    BY <1>6, AckType, RequestFields DEF Pubrec, Serves
  <2>. QED
    BY <1>6, <2>1, ReturnKeepsTypes
    DEF sending, Pubrec, maps, sessionVars, SessionTypeOK, RetainTypeOK, TopicTypeOK
<1>7. CASE Pubcomp(c)
  <2>1. SessionTypeOK'
    BY <1>7, RequestFields, SessionTypes DEF Pubcomp, Serves, SessionTypeOK
  <2>. QED
    BY <1>2, <1>7, <2>1, ReturnKeepsTypes DEF sending, Pubcomp, RetainTypeOK, TopicTypeOK
<1>8. CASE PublishEmpty(c)
  <2>1. request[c].msg \in Message /\ request[c].msg.topic \in TopicNames
    BY <1>8, RequestFields, MessageFields DEF PublishEmpty, Serves
  <2>2. Answers(request[c].msg) \in Seq(Packet)
    BY <2>1, AnswersType
  <2>3. RetainTypeOK'
    BY <1>8, <2>1, RetainTypes DEF PublishEmpty, RetainTypeOK
  <2>. QED
    BY <1>8, <2>2, <2>3, ReturnKeepsTypes DEF sending, PublishEmpty, sessionVars, SessionTypeOK, TopicTypeOK
<1>9. CASE PublishSpawn(c)
  <2>1. request[c].msg \in Message
    BY <1>9, RequestFields DEF PublishSpawn, Serves
  <2>2. Answers(request[c].msg) \in Seq(Packet)
    BY <2>1, AnswersType
  <2>3. tasks' \in Seq(Task)
    BY <1>9, <2>1, SpawnType DEF PublishSpawn
  <2>. QED
    BY <1>9, <2>2, <2>3, ReturnKeepsTypes
    DEF sending, PublishSpawn, maps, sessionVars, SessionTypeOK, RetainTypeOK, TopicTypeOK
<1>10. CASE PublishStage(c)
  <2>1. request[c].msg \in Message
    BY <1>10, RequestFields DEF PublishStage, Serves
  <2>2. Answers(request[c].msg) \in Seq(Packet)
    BY <2>1, AnswersType
  <2>3. SessionTypeOK'
    BY <1>10, <2>1, SessionTypes DEF PublishStage, SessionTypeOK
  <2>. QED
    BY <1>10, <2>2, <2>3, ReturnKeepsTypes DEF sending, PublishStage, RetainTypeOK, TopicTypeOK
<1>11. CASE PubrelUnstaged(c)
  <2>1. <<Ack("PUBCOMP", request[c].pid)>> \in Seq(Packet)
    BY <1>11, AckType, RequestFields DEF PubrelUnstaged, TypeInvariant, HandlerFits
  <2>. QED
    BY <1>11, <2>1, ReturnKeepsTypes
    DEF sending, PubrelUnstaged, maps, sessionVars, SessionTypeOK, RetainTypeOK, TopicTypeOK
<1>12. CASE PubrelCommit(c)
  <2>1. request[c].pid \in PacketIds
    BY <1>12, RequestFields DEF PubrelCommit, TypeInvariant, HandlerFits
  <2>2. <<Ack("PUBCOMP", request[c].pid)>> \in Seq(Packet)
    BY <2>1, AckType
  <2>3. SessionTypeOK'
    BY <1>12, <2>1, SessionTypes DEF PubrelCommit, SessionTypeOK
  <2>. QED
    BY <1>12, <2>2, <2>3, ReturnKeepsTypes DEF sending, PubrelCommit, RetainTypeOK, TopicTypeOK
<1>. QED
  BY <1>3, <1>4, <1>5, <1>6, <1>7, <1>8, <1>9, <1>10, <1>11, <1>12

\* The services that go on to another step.
LEMMA ConnectingType ==
    ASSUME TypeInvariant, NEW c \in Conns, RegisterMqttId(c) \/ ConnectAgain(c)
    PROVE  TypeInvariant'
<1> USE DEF TypeInvariant, BrokerTypeOK
<1>1. step' \in [Conns -> Steps] /\ step'[c] \in {"version", "closed"}
      /\ \A d \in Conns \ {c} : step'[d] = step[d]
  BY GotoType DEF RegisterMqttId, ConnectAgain, Steps
<1>2. UNCHANGED <<clients, request, mqtt_id, locals, reply, sending, tasks, mqtt_version,
                  qos_tmp, kvs, topic_map>>
  BY DEF sending, RegisterMqttId, ConnectAgain, maps, sessionVars
<1>3. HandlersTypeOK'
  BY <1>1, <1>2 DEF sending, HandlersTypeOK, locals
<1>4. ASSUME NEW d \in Conns PROVE HandlerFits(d)'
  BY <1>1, <1>2 DEF HandlerFits, locals
<1>5. SessionTypeOK'
  <2>1. mqtt_id[c] \in MqttIds
    BY DEF HandlersTypeOK
  <2>2. by_mqtt_id' \in [MqttIds -> Conns \cup {None}]
    BY <2>1, SessionTypes DEF RegisterMqttId, ConnectAgain, maps, sessionVars, SessionTypeOK
  <2>. QED
    BY <1>2, <2>2 DEF SessionTypeOK
<1>. QED
  BY <1>2, <1>3, <1>4, <1>5 DEF clients, ClientsTypeOK, RetainTypeOK, TopicTypeOK

LEMMA PubrelType ==
    ASSUME TypeInvariant, NEW c \in Conns, PubrelFetch(c) \/ PubrelRelease(c)
    PROVE  TypeInvariant'
<1> USE DEF TypeInvariant, BrokerTypeOK
<1>1. CASE PubrelFetch(c)
  <2>1. request[c] \in Request /\ request[c].kind = "PUBREL"
    BY <1>1 DEF PubrelFetch, Serves, HandlersTypeOK
  <2>2. fetch_packet(request[c].pid) \in Message \cup {None}
    BY <2>1, RequestFields DEF fetch_packet, SessionTypeOK
  <2>3. fetched' \in [Conns -> Message \cup {None}]
        /\ fetched'[c] = fetch_packet(request[c].pid)
        /\ \A d \in Conns \ {c} : fetched'[d] = fetched[d]
    BY <1>1, <2>2 DEF PubrelFetch, HandlersTypeOK
  <2>4. step' \in [Conns -> Steps] /\ step'[c] \in {"unstaged", "release"}
        /\ (step'[c] = "release" => fetch_packet(request[c].pid) # None)
        /\ \A d \in Conns \ {c} : step'[d] = step[d]
    BY <1>1 DEF PubrelFetch, Goto, Steps, HandlersTypeOK
  <2>5. UNCHANGED <<clients, request, mqtt_id, todo, unvisited, found, reply, sending,
                    tasks, maps>>
    BY <1>1 DEF sending, PubrelFetch
  <2>6. HandlersTypeOK'
    BY <2>3, <2>4, <2>5 DEF sending, HandlersTypeOK
  <2>7. ASSUME NEW d \in Conns PROVE HandlerFits(d)'
    BY <2>1, <2>3, <2>4, <2>5 DEF HandlerFits
  <2>. QED
    BY <2>5, <2>6, <2>7 DEF clients, ClientsTypeOK, maps, sessionVars, SessionTypeOK,
                            RetainTypeOK, TopicTypeOK
<1>2. CASE PubrelRelease(c)
  <2>1. fetched[c] \in Message /\ step[c] = "release" /\ request[c].kind = "PUBREL"
    BY <1>2 DEF PubrelRelease, HandlerFits, HandlersTypeOK
  <2>2. tasks' \in Seq(Task)
    BY <1>2, <2>1, SpawnType DEF PubrelRelease
  <2>3. RetainTypeOK'
    BY <1>2, <2>1, RetainTypes DEF PubrelRelease, RetainTypeOK
  <2>4. step' \in [Conns -> Steps] /\ step'[c] = "commit"
        /\ \A d \in Conns \ {c} : step'[d] = step[d]
    BY <1>2, GotoType DEF PubrelRelease, Steps
  <2>5. UNCHANGED <<clients, request, mqtt_id, locals, reply, sending, sessionVars, topic_map>>
    BY <1>2 DEF sending, PubrelRelease
  <2>6. HandlersTypeOK'
    BY <2>2, <2>4, <2>5 DEF sending, HandlersTypeOK, locals
  <2>7. ASSUME NEW d \in Conns PROVE HandlerFits(d)'
    BY <2>1, <2>4, <2>5 DEF HandlerFits, locals
  <2>. QED
    BY <2>3, <2>5, <2>6, <2>7 DEF clients, ClientsTypeOK, sessionVars, SessionTypeOK, TopicTypeOK
<1>. QED
  BY <1>1, <1>2

\* CheckNext starts on a filter, or returns.
LEMMA CheckNextType ==
    ASSUME TypeInvariant, NEW c \in Conns, NEW filters \in Seq(Subscription),
           NEW packets \in Seq(Packet), packets # <<>>, CheckNext(c, filters, packets),
           UNCHANGED <<clients, request, mqtt_id, found, fetched, sending, tasks, maps>>
    PROVE  TypeInvariant'
<1> USE DEF TypeInvariant, BrokerTypeOK
<1>1. todo' \in [Conns -> Seq(Subscription)] /\ todo'[c] = filters
      /\ \A d \in Conns \ {c} : todo'[d] = todo[d]
  BY DEF CheckNext, HandlersTypeOK
<1>2. /\ step' \in [Conns -> Steps] /\ reply' \in [Conns -> Seq(Packet)]
      /\ \A d \in Conns \ {c} : step'[d] = step[d] /\ reply'[d] = reply[d]
      /\ step'[c] = IF filters = <<>> THEN "answer" ELSE "check"
      /\ reply'[c] = packets
  <2>1. reply' = [reply EXCEPT ![c] = packets]
    BY DEF CheckNext, Return
  <2>2. step' = [step EXCEPT ![c] = IF filters = <<>> THEN "answer" ELSE "check"]
    BY DEF CheckNext, Return, Goto
  <2>3. step \in [Conns -> Steps] /\ reply \in [Conns -> Seq(Packet)]
    BY DEF HandlersTypeOK
  <2>4. {"answer", "check"} \subseteq Steps
    BY DEF Steps
  <2>. QED
    BY <2>1, <2>2, <2>3, <2>4
<1>3. unvisited' \in [Conns -> SUBSET TopicNames]
  <2>1. check_topics(Head(filters).filter) \in SUBSET TopicNames
    BY DEF check_topics
  <2>2. \/ unvisited' = unvisited
        \/ unvisited' = [unvisited EXCEPT ![c] = check_topics(Head(filters).filter)]
    BY DEF CheckNext
  <2>. QED
    BY <2>1, <2>2 DEF HandlersTypeOK
<1>4. HandlersTypeOK'
  BY <1>1, <1>2, <1>3 DEF sending, HandlersTypeOK
<1>5. ASSUME NEW d \in Conns PROVE HandlerFits(d)'
  BY <1>1, <1>2 DEF HandlerFits
<1>. QED
  BY <1>4, <1>5 DEF clients, ClientsTypeOK, maps, sessionVars, SessionTypeOK,
                    RetainTypeOK, TopicTypeOK
LEMMA SubscribeType ==
    ASSUME TypeInvariant, NEW c \in Conns,
           \/ RegisterFilter(c) \/ RetainStart(c) \/ RetainCheck(c) \/ RetainAnswer(c)
           \/ RetainNext(c)
    PROVE  TypeInvariant'
<1> USE DEF TypeInvariant, BrokerTypeOK
<1>1. CASE RegisterFilter(c)
  <2>1. todo[c] \in Seq(Subscription) /\ todo[c] # <<>> /\ mqtt_id[c] \in MqttIds
    BY <1>1 DEF RegisterFilter, HandlersTypeOK
  <2>2. Head(todo[c]) \in Subscription /\ Tail(todo[c]) \in Seq(Subscription)
    BY <2>1, HeadTailProperties
  <2>3. [mid |-> mqtt_id[c], qos |-> Head(todo[c]).qos] \in Entry
    BY <2>1, <2>2 DEF Subscription, Entry
  <2>4. TopicTypeOK'
    BY <1>1, <2>2, <2>3 DEF RegisterFilter, register, TopicTypeOK, Subscription
  <2>5. todo' \in [Conns -> Seq(Subscription)]
    BY <1>1, <2>2 DEF RegisterFilter, HandlersTypeOK
  <2>6. UNCHANGED <<clients, step, request, mqtt_id, unvisited, found, fetched, reply,
                    sending, tasks, sessionVars, kvs>>
    BY <1>1 DEF sending, RegisterFilter
  <2>7. HandlersTypeOK'
    BY <2>5, <2>6 DEF sending, HandlersTypeOK
  <2>8. ASSUME NEW d \in Conns PROVE HandlerFits(d)'
    BY <1>1, <2>6 DEF HandlerFits, RegisterFilter, Serves, HandlersTypeOK
  <2>. QED
    BY <2>4, <2>6, <2>7, <2>8 DEF clients, ClientsTypeOK, sessionVars, SessionTypeOK, RetainTypeOK
<1>2. CASE RetainStart(c)
  <2>1. request[c].filters \in Seq(Subscription)
    BY <1>2, RequestFields DEF RetainStart, Serves, HandlersTypeOK
  <2>2. <<Ack("SUBACK", None)>> \in Seq(Packet) /\ <<Ack("SUBACK", None)>> # <<>>
    BY AckType
  <2>. QED
    BY <1>2, <2>1, <2>2, CheckNextType DEF sending, RetainStart
<1>3. CASE RetainCheck(c)
  <2>1. PICK t \in unvisited[c] :
            /\ unvisited' = [unvisited EXCEPT ![c] = @ \ {t}]
            /\ found' = [found EXCEPT ![c] = @ \o check_topic(t)]
    BY <1>3 DEF RetainCheck
  <2>2. t \in TopicNames
    BY <2>1 DEF HandlersTypeOK
  <2>3. check_topic(t) \in Seq(Message)
    BY <2>2, EmptySeq DEF check_topic, RetainTypeOK
  <2>4. found[c] \o check_topic(t) \in Seq(Message)
    BY <2>3, ConcatProperties DEF HandlersTypeOK
  <2>5. found' \in [Conns -> Seq(Message)]
    <3> DEFINE more == check_topic(t)
    <3>1. found' = [found EXCEPT ![c] = found[c] \o more]
      BY <2>1
    <3> HIDE DEF more
    <3>. QED
      BY <2>4, <3>1 DEF HandlersTypeOK, more
  <2>6. unvisited' \in [Conns -> SUBSET TopicNames]
    BY <2>1 DEF HandlersTypeOK
  <2>7. UNCHANGED <<clients, step, request, mqtt_id, todo, fetched, reply, sending, tasks, maps>>
    BY <1>3 DEF sending, RetainCheck
  <2>8. HandlersTypeOK'
    BY <2>5, <2>6, <2>7 DEF sending, HandlersTypeOK
  <2>9. ASSUME NEW d \in Conns PROVE HandlerFits(d)'
    BY <2>7 DEF HandlerFits
  <2>. QED
    BY <2>7, <2>8, <2>9 DEF clients, ClientsTypeOK, maps, sessionVars, SessionTypeOK,
                            RetainTypeOK, TopicTypeOK
<1>4. CASE RetainAnswer(c)
  <2> DEFINE msg == Head(found[c])
             seen == \E i \in 2 .. Len(reply[c]) : reply[c][i].msg.topic = msg.topic
  <2>1. found[c] \in Seq(Message) /\ found[c] # <<>>
    BY <1>4 DEF RetainAnswer, HandlersTypeOK
  <2>2. msg \in Message /\ Tail(found[c]) \in Seq(Message)
    BY <2>1, HeadTailProperties
  <2>3. found' \in [Conns -> Seq(Message)]
    BY <1>4, <2>2 DEF RetainAnswer, HandlersTypeOK
  <2>4. Delivery(msg, msg.qos, msg.pid) \in Packet
    BY <2>2, DeliveryType
  <2>5. /\ reply' = IF seen THEN reply
                    ELSE [reply EXCEPT ![c] = Append(@, Delivery(msg, msg.qos, msg.pid))]
        /\ IF ~seen /\ msg.qos = 2 THEN add_staging_packet(msg) ELSE UNCHANGED qos_tmp
    BY <1>4 DEF RetainAnswer
  <2> HIDE DEF msg, seen
  <2>6. /\ reply' \in [Conns -> Seq(Packet)]
        /\ \A d \in Conns : reply[d] # <<>> => reply'[d] # <<>>
    <3> DEFINE packet == Delivery(msg, msg.qos, msg.pid)
               longer == Append(reply[c], packet)
    <3>1. reply' = reply \/ reply' = [reply EXCEPT ![c] = longer]
      BY <2>5
    <3>2. packet \in Packet
      BY <2>4
    <3> HIDE DEF packet
    <3>3. longer \in Seq(Packet) /\ longer # <<>>
      <4> DEFINE before == reply[c]
      <4>1. before \in Seq(Packet)
        BY DEF HandlersTypeOK
      <4> HIDE DEF before
      <4>2. Append(before, packet) \in Seq(Packet) /\ Append(before, packet) # <<>>
        BY <3>2, <4>1, AppendProperties
      <4>. QED
        BY <4>2 DEF before
    <3> HIDE DEF longer
    <3>. QED
      BY <3>1, <3>3 DEF HandlersTypeOK
  <2>7. qos_tmp' \in [PacketIds -> Message \cup {None}]
    BY <2>2, <2>5, SessionTypes DEF SessionTypeOK
  <2>8. UNCHANGED <<clients, step, request, mqtt_id, todo, unvisited, fetched, sending, tasks,
                    by_mqtt_id, mqtt_version, kvs, topic_map>>
    BY <1>4 DEF sending, RetainAnswer
  <2>9. HandlersTypeOK'
    BY <2>3, <2>6, <2>8 DEF sending, HandlersTypeOK
  <2>10. ASSUME NEW d \in Conns PROVE HandlerFits(d)'
    BY <2>6, <2>8 DEF HandlerFits
  <2>. QED
    BY <2>7, <2>8, <2>9, <2>10 DEF clients, ClientsTypeOK, SessionTypeOK, RetainTypeOK,
                                   TopicTypeOK
<1>5. CASE RetainNext(c)
  <2>1. /\ Tail(todo[c]) \in Seq(Subscription)
        /\ reply[c] \in Seq(Packet) /\ reply[c] # <<>>
    BY <1>5, HeadTailProperties DEF RetainNext, HandlersTypeOK, HandlerFits
  <2>. QED
    BY <1>5, <2>1, CheckNextType DEF sending, RetainNext
<1>. QED
  BY <1>1, <1>2, <1>3, <1>4, <1>5

LEMMA EmitType ==
    ASSUME TypeInvariant, NEW c \in Conns, Emit(c) \/ EmitClosed(c)
    PROVE  TypeInvariant'
<1> USE DEF TypeInvariant, BrokerTypeOK
<1>1. reply[c] \in Seq(Packet) /\ reply[c] # <<>>
  BY DEF Emit, EmitClosed, HandlerFits, HandlersTypeOK
<1>2. Head(reply[c]) \in Packet /\ Tail(reply[c]) \in Seq(Packet)
  BY <1>1, HeadTailProperties
<1>3. ClientsTypeOK' /\ out' \in [Conns -> Seq(Packet)] /\ refusals' \in Nat
  <2>1. CASE Emit(c)
    BY <1>2, <2>1, HandType DEF Emit
  <2>2. CASE EmitClosed(c)
    BY <1>2, <2>2, RefusalsType DEF EmitClosed, Refuses, ClientsTypeOK, HandlersTypeOK
  <2>. QED
    BY <2>1, <2>2
<1>4. /\ step' \in [Conns -> Steps] /\ reply' \in [Conns -> Seq(Packet)]
      /\ step'[c] = "answer" => reply'[c] # <<>>
      /\ step'[c] \in {"answer", "reading", "closed"}
      /\ \A d \in Conns \ {c} : step'[d] = step[d] /\ reply'[d] = reply[d]
  <2>1. CASE Emit(c)
    BY <1>2, <2>1, ReturnType DEF Emit
  <2>2. CASE EmitClosed(c)
    BY <2>2, GotoType DEF EmitClosed, Steps, HandlersTypeOK
  <2>. QED
    BY <2>1, <2>2
<1>5. UNCHANGED <<request, mqtt_id, locals, tasks, maps>>
  BY DEF Emit, EmitClosed
<1>6. HandlersTypeOK'
  BY <1>3, <1>4, <1>5 DEF HandlersTypeOK, locals
<1>7. ASSUME NEW d \in Conns PROVE HandlerFits(d)'
  BY <1>4, <1>5 DEF HandlerFits, locals
<1>. QED
  BY <1>3, <1>5, <1>6, <1>7 DEF maps, sessionVars, SessionTypeOK, RetainTypeOK, TopicTypeOK

\* What a delivery task finds in the maps.
LEMMA TaskFields ==
    ASSUME NEW task \in Task
    PROVE  /\ task.msg \in Message /\ task.unvisited \in SUBSET Filters
           /\ task.targets \in Seq(Entry) /\ task.next \in Nat \ {0}
           /\ task.stage \in {"update", "visit", "send", "done"}
  BY DEF Task

LEMMA SubedType ==
    ASSUME TopicTypeOK, NEW f \in Filters
    PROVE  subed_of(f) \in Seq(Entry)
  BY EmptySeq DEF TopicTypeOK, subed_of

\* What a task does leaves the handlers alone.
LEMMA TaskKeepsTypes ==
    ASSUME TypeInvariant, UNCHANGED <<step, request, mqtt_id, locals, reply>>,
           ClientsTypeOK', out' \in [Conns -> Seq(Packet)], refusals' \in Nat,
           tasks' \in Seq(Task),
           RetainTypeOK', UNCHANGED <<sessionVars, topic_map>>
    PROVE  TypeInvariant'
<1>1. HandlersTypeOK'
  BY DEF sending, TypeInvariant, BrokerTypeOK, HandlersTypeOK, locals
<1>2. ASSUME NEW d \in Conns PROVE HandlerFits(d)'
  BY DEF TypeInvariant, HandlerFits, locals
<1>. QED
  BY <1>1, <1>2 DEF TypeInvariant, BrokerTypeOK, sessionVars, SessionTypeOK, TopicTypeOK

LEMMA TaskType ==
    ASSUME TypeInvariant, NEW i \in DOMAIN tasks, Delivering(i)
    PROVE  TypeInvariant'
<1>1. /\ SessionTypeOK /\ RetainTypeOK /\ TopicTypeOK /\ ClientsTypeOK /\ HandlersTypeOK
      /\ tasks \in Seq(Task) /\ tasks[i] \in Task /\ out \in [Conns -> Seq(Packet)]
      /\ refusals \in Nat
  BY DEF TypeInvariant, BrokerTypeOK, HandlersTypeOK
<1> USE <1>1
<1>2. CASE TaskUpdate(i)
  <2>1. tasks' \in Seq(Task)
    <3>1. [tasks[i] EXCEPT !.stage = "visit"] \in Task
      BY DEF Task
    <3>2. tasks' = [tasks EXCEPT ![i] = [tasks[i] EXCEPT !.stage = "visit"]]
      BY <1>2 DEF TaskUpdate
    <3>. QED
      BY <3>1, <3>2
  <2>2. RetainTypeOK'
    BY <1>2, TaskFields, RetainTypes DEF TaskUpdate
  <2>. QED
    BY <1>2, <2>1, <2>2, TaskKeepsTypes DEF sending, TaskUpdate, clients, ClientsTypeOK
<1>3. CASE TaskVisit(i)
  <2>1. PICK f \in tasks[i].unvisited :
            tasks' = [tasks EXCEPT ![i].unvisited = @ \ {f},
                                   ![i].targets = @ \o subed_of(f)]
    BY <1>3 DEF TaskVisit
  <2> DEFINE more == tasks[i].targets \o subed_of(f)
             task == [tasks[i] EXCEPT !.unvisited = tasks[i].unvisited \ {f}, !.targets = more]
  <2>2. more \in Seq(Entry)
    BY SubedType, TaskFields, ConcatProperties
  <2>3. tasks' = [tasks EXCEPT ![i] = task]
    BY <2>1
  <2> HIDE DEF more
  <2>4. task \in Task
    BY <2>2 DEF Task
  <2> HIDE DEF task
  <2>5. tasks' \in Seq(Task)
    BY <2>3, <2>4
  <2>. QED
    BY <1>3, <2>5, TaskKeepsTypes
    DEF sending, TaskVisit, clients, ClientsTypeOK, maps, RetainTypeOK
<1>4. CASE TaskVisited(i) \/ TaskDone(i)
  <2>1. PICK stage \in {"send", "done"} : tasks' = [tasks EXCEPT ![i].stage = stage]
    BY <1>4 DEF TaskVisited, TaskDone
  <2>2. [tasks[i] EXCEPT !.stage = stage] \in Task
    BY DEF Task
  <2>3. tasks' = [tasks EXCEPT ![i] = [tasks[i] EXCEPT !.stage = stage]]
    BY <2>1
  <2>4. tasks' \in Seq(Task)
    BY <2>2, <2>3
  <2>. QED
    BY <1>4, <2>4, TaskKeepsTypes
    DEF sending, TaskVisited, TaskDone, clients, ClientsTypeOK, maps, RetainTypeOK
<1>5. CASE TaskSend(i)
  <2> DEFINE entry == tasks[i].targets[tasks[i].next]
             c == by_mqtt_id[entry.mid]
  <2>1. entry \in Entry
    BY <1>5, TaskFields, ElementOfSeq DEF TaskSend
  <2>2. entry.mid \in MqttIds /\ entry.qos \in QoS
    BY <2>1 DEF Entry
  <2>3. c \in Conns \cup {None}
    BY <2>2 DEF SessionTypeOK
  <2>4. tasks' = [tasks EXCEPT ![i].next = @ + 1]
        /\ UNCHANGED <<step, request, mqtt_id, locals, reply, maps>>
    BY <1>5 DEF TaskSend
  <2>5. IF c = None
        THEN UNCHANGED <<sending, owed, plan, sent>>
        ELSE \E pid \in DeliveryIds(tasks[i].msg, entry.qos) :
                Hand(c, Delivery(tasks[i].msg, entry.qos, pid))
    BY <1>5 DEF TaskSend
  <2> HIDE DEF entry, c
  <2>6. ClientsTypeOK' /\ out' \in [Conns -> Seq(Packet)] /\ refusals' \in Nat
    <3>1. CASE c = None
      BY <2>5, <3>1 DEF ClientsTypeOK, sending
    <3>2. CASE c # None
      BY <2>2, <2>3, <2>5, <3>2, TaskFields, DeliveryType, HandType
    <3>. QED
      BY <3>1, <3>2
  <2>7. tasks' \in Seq(Task)
    <3> DEFINE n == tasks[i].next + 1
    <3>1. tasks' = [tasks EXCEPT ![i] = [tasks[i] EXCEPT !.next = n]]
      BY <2>4
    <3>2. n \in Nat \ {0}
      BY TaskFields
    <3> HIDE DEF n
    <3>3. [tasks[i] EXCEPT !.next = n] \in Task
      BY <3>2 DEF Task
    <3>. QED
      BY <3>1, <3>3
  <2>. QED
    BY <2>4, <2>6, <2>7, TaskKeepsTypes DEF maps, RetainTypeOK
<1>. QED
  BY <1>2, <1>3, <1>4, <1>5 DEF Delivering

LEMMA TypeInit == Init => TypeInvariant
<1> SUFFICES ASSUME Init PROVE TypeInvariant
  OBVIOUS
<1>1. SessionTypeOK /\ RetainTypeOK /\ TopicTypeOK
  BY DEF Init, SessionInit, RetainInit, TopicInit, SessionTypeOK, RetainTypeOK, TopicTypeOK
<1>2. ClientsTypeOK
  BY EmptySeq DEF Init, ClientsTypeOK
<1>3. HandlersTypeOK
  <2>1. NoRequest \in Request
    BY DEF NoRequest, Request
  <2>. QED
    BY <2>1, EmptySeq, NoIdAssumption DEF Init, HandlersTypeOK, Steps
<1>4. ASSUME NEW c \in Conns PROVE HandlerFits(c)
  BY DEF Init, HandlerFits
<1>. QED
  BY <1>1, <1>2, <1>3, <1>4 DEF TypeInvariant, BrokerTypeOK

LEMMA TypeStep == TypeInvariant /\ [Next]_vars => TypeInvariant'
<1> SUFFICES ASSUME TypeInvariant, [Next]_vars PROVE TypeInvariant'
  OBVIOUS
<1>1. ASSUME NEW c \in Conns, Client(c) PROVE TypeInvariant'
  BY <1>1, ClientType
<1>2. ASSUME NEW c \in Conns, Handler(c) PROVE TypeInvariant'
  BY <1>2, ServiceType, ConnectingType, PubrelType, SubscribeType, EmitType DEF Handler
<1>3. ASSUME NEW i \in DOMAIN tasks, Delivering(i) PROVE TypeInvariant'
  BY <1>3, TaskType
<1>4. CASE UNCHANGED vars
  BY <1>4 DEF sending, vars, clients, locals, maps, sessionVars, TypeInvariant, BrokerTypeOK,
              SessionTypeOK, RetainTypeOK, TopicTypeOK, ClientsTypeOK, HandlersTypeOK,
              HandlerFits
<1>. QED
  BY <1>1, <1>2, <1>3, <1>4 DEF Next

\* The broker's maps and handlers keep their types: no handler reaches a packet
\* id, a publish or a subscriber that is not one, whatever clients plan to send.
THEOREM BrokerTyped == Spec => []BrokerTypeOK
<1>1. TypeInvariant => BrokerTypeOK
  BY DEF TypeInvariant
<1>. QED
  BY <1>1, TypeInit, TypeStep, PTL DEF Spec

-----------------------------------------------------------------------------
(* What each kind of step leaves alone *)

\* What a connection's handler works on, and its place in the plan.
Untouched(d) ==
    /\ sent'[d] = sent[d] /\ mqtt_id'[d] = mqtt_id[d]
    /\ step'[d] = step[d] /\ request'[d] = request[d]
    /\ todo'[d] = todo[d] /\ unvisited'[d] = unvisited[d]
    /\ found'[d] = found[d] /\ reply'[d] = reply[d]

LEMMA ClientEffects ==
    ASSUME TypeInvariant, NEW c \in Conns, Client(c)
    PROVE  /\ UNCHANGED <<plan, unvisited, found, fetched, reply, out, tasks, maps>>
           /\ \A d \in Conns \ {c} : Untouched(d) /\ owed'[d] = owed[d]
<1>1. /\ step \in [Conns -> Steps] /\ request \in [Conns -> Request]
      /\ mqtt_id \in [Conns -> MqttIds] /\ todo \in [Conns -> Seq(Subscription)]
      /\ sent \in [Conns -> Nat] /\ owed \in [Conns -> Seq(Request)]
  BY DEF TypeInvariant, BrokerTypeOK, HandlersTypeOK, ClientsTypeOK
<1>2. CASE Take(c)
  BY <1>1, <1>2 DEF sending, Take, Goto, Arrives, OwedArrives, Untouched
<1>3. CASE Close(c)
  BY <1>1, <1>3 DEF sending, Close, Goto, Untouched, clients, locals
<1>4. CASE Connect(c)
  BY <1>1, <1>4 DEF sending, Connect, Goto, Arrives, Untouched, locals
<1>5. CASE ConnectRefused(c)
  BY <1>1, <1>5 DEF sending, ConnectRefused, Goto, Arrives, Untouched, locals
<1>. QED
  BY <1>2, <1>3, <1>4, <1>5 DEF Client

LEMMA HandlerEffects ==
    ASSUME TypeInvariant, NEW c \in Conns, Handler(c)
    PROVE  /\ UNCHANGED <<plan, sent, request, mqtt_id>>
           /\ \A d \in Conns \ {c} : Untouched(d) /\ owed'[d] = owed[d]
           /\ UNCHANGED <<out, owed>> \/ Emit(c) \/ (EmitClosed(c) /\ UNCHANGED owed)
           /\ UNCHANGED topic_map \/ RegisterFilter(c)
           /\ UNCHANGED kvs \/ PublishEmpty(c) \/ PubrelRelease(c)
           /\ UNCHANGED tasks \/ PublishSpawn(c) \/ PubrelRelease(c)
           /\ UNCHANGED mqtt_version \/ SetVersion(c)
<1>1. /\ step \in [Conns -> Steps] /\ reply \in [Conns -> Seq(Packet)]
      /\ todo \in [Conns -> Seq(Subscription)] /\ unvisited \in [Conns -> SUBSET TopicNames]
      /\ found \in [Conns -> Seq(Message)] /\ owed \in [Conns -> Seq(Request)]
  BY DEF TypeInvariant, BrokerTypeOK, HandlersTypeOK, ClientsTypeOK
<1> USE DEF Return, Goto, Untouched, clients, locals, maps, sessionVars
<1>2. CASE RegisterMqttId(c)
  BY <1>1, <1>2 DEF sending, RegisterMqttId
<1>3. CASE SetVersion(c)
  BY <1>1, <1>3 DEF sending, SetVersion
<1>4. CASE Disconnect(c) \/ Ignore(c) \/ ConnectAgain(c)
  BY <1>1, <1>4 DEF sending, Disconnect, Ignore, ConnectAgain
<1>5. CASE Pubrec(c) \/ Pubcomp(c)
  BY <1>1, <1>5 DEF sending, Pubrec, Pubcomp
<1>6. CASE PublishEmpty(c)
  BY <1>1, <1>6 DEF sending, PublishEmpty
<1>7. CASE PublishSpawn(c)
  BY <1>1, <1>7 DEF sending, PublishSpawn
<1>8. CASE PublishStage(c)
  BY <1>1, <1>8 DEF sending, PublishStage
<1>9. CASE PubrelFetch(c) \/ PubrelUnstaged(c)
  BY <1>1, <1>9 DEF sending, PubrelFetch, PubrelUnstaged
<1>10. CASE PubrelRelease(c)
  BY <1>1, <1>10 DEF sending, PubrelRelease
<1>11. CASE PubrelCommit(c)
  BY <1>1, <1>11 DEF sending, PubrelCommit
<1>12. CASE RegisterFilter(c)
  BY <1>1, <1>12 DEF sending, RegisterFilter
<1>13. CASE RetainStart(c) \/ RetainNext(c)
  BY <1>1, <1>13 DEF sending, RetainStart, RetainNext, CheckNext
<1>14. CASE RetainCheck(c)
  BY <1>1, <1>14 DEF sending, RetainCheck
<1>15. CASE RetainAnswer(c)
  BY <1>1, <1>15 DEF sending, RetainAnswer
<1>16. CASE Emit(c)
  <2>1. \A d \in Conns \ {c} : owed'[d] = owed[d]
    <3> DEFINE more == Owes(Head(reply[c]))
    <3>1. ClientsTypeOK /\ Hand(c, Head(reply[c]))
      BY <1>16 DEF Emit, TypeInvariant, BrokerTypeOK
    <3>2. owed' = owed \/ owed' = [owed EXCEPT ![c] = owed[c] \o more]
      BY <3>1, HandOwed
    <3> HIDE DEF more
    <3>. QED
      BY <1>1, <3>2
  <2>. QED
    BY <1>1, <1>16, <2>1 DEF Emit, Hand
<1>17. CASE EmitClosed(c)
  BY <1>1, <1>17 DEF EmitClosed, Refuses
<1>. QED
  BY <1>2, <1>3, <1>4, <1>5, <1>6, <1>7, <1>8, <1>9, <1>10, <1>11, <1>12, <1>13, <1>14,
     <1>15, <1>16, <1>17 DEF Handler

LEMMA TaskEffects ==
    ASSUME NEW i \in DOMAIN tasks, Delivering(i)
    PROVE  /\ UNCHANGED <<plan, sent, step, request, mqtt_id, locals, reply, sessionVars,
                          topic_map>>
           /\ UNCHANGED <<out, owed>> \/ TaskSend(i)
           /\ UNCHANGED kvs \/ TaskUpdate(i)
<1>1. CASE TaskUpdate(i)
  BY <1>1 DEF sending, TaskUpdate, clients
<1>2. CASE TaskVisit(i) \/ TaskVisited(i) \/ TaskDone(i)
  BY <1>2 DEF sending, TaskVisit, TaskVisited, TaskDone, clients, maps
<1>3. CASE TaskSend(i)
  BY <1>3 DEF TaskSend, Hand, maps
<1>. QED
  BY <1>1, <1>2, <1>3 DEF Delivering

\* Whoever takes the step, the others stay where they are.
LEMMA OwnStep ==
    ASSUME TypeInvariant, [Next]_vars, NEW d \in Conns
    PROVE  /\ plan' = plan
           /\ Untouched(d) \/ Client(d) \/ Handler(d)
<1>1. ASSUME NEW c \in Conns, Client(c)
      PROVE  plan' = plan /\ (c = d \/ Untouched(d))
  BY <1>1, ClientEffects
<1>2. ASSUME NEW c \in Conns, Handler(c)
      PROVE  plan' = plan /\ (c = d \/ Untouched(d))
  BY <1>2, HandlerEffects
<1>3. ASSUME NEW i \in DOMAIN tasks, Delivering(i)
      PROVE  plan' = plan /\ Untouched(d)
  BY <1>3, TaskEffects DEF Untouched, locals
<1>4. CASE UNCHANGED vars
  BY <1>4 DEF vars, clients, locals, Untouched
<1>. QED
  BY <1>1, <1>2, <1>3, <1>4 DEF Next

\* A connection that ended takes no step.
LEMMA ClosedStays ==
    ASSUME TypeInvariant, NEW c \in Conns, Client(c) \/ Handler(c)
    PROVE  step[c] # "closed"
<1>1. ~Handler(c) \/ step[c] # "closed"
  BY DEF Handler, Serves, RegisterMqttId, SetVersion, Disconnect, Ignore, ConnectAgain,
         Pubrec, Pubcomp, PublishEmpty, PublishSpawn, PublishStage, PubrelFetch,
         PubrelUnstaged, PubrelRelease, PubrelCommit, RegisterFilter, RetainStart,
         RetainCheck, RetainAnswer, RetainNext, Emit, EmitClosed
<1>2. ~Client(c) \/ step[c] # "closed"
  BY DEF Client, Take, Close, Connect, ConnectRefused
<1>. QED
  BY <1>1, <1>2

-----------------------------------------------------------------------------
(* SubackNeverPanics *)

LEMMA VersionsGrow ==
    ASSUME TypeInvariant, [Next]_vars
    PROVE  mqtt_version \subseteq mqtt_version'
<1>1. ASSUME NEW c \in Conns, Client(c) PROVE UNCHANGED mqtt_version
  BY <1>1, ClientEffects DEF maps, sessionVars
<1>2. ASSUME NEW c \in Conns, Handler(c) PROVE mqtt_version \subseteq mqtt_version'
  BY <1>2, HandlerEffects DEF SetVersion, set_protocol_version
<1>3. ASSUME NEW i \in DOMAIN tasks, Delivering(i) PROVE UNCHANGED mqtt_version
  BY <1>3, TaskEffects DEF sessionVars
<1>4. CASE UNCHANGED vars
  BY <1>4 DEF vars, maps, sessionVars
<1>. QED
  BY <1>1, <1>2, <1>3, <1>4 DEF Next

\* Connections become connected by recording their client's version.
LEMMA HandlersAreConnected ==
    ASSUME NEW c \in Conns, Handler(c)
    PROVE  RegisterMqttId(c) \/ SetVersion(c) \/ Connected(c)
  BY DEF sending, Handler, Connected, Serves, Disconnect, Ignore, ConnectAgain, Pubrec, Pubcomp,
         PublishEmpty, PublishSpawn, PublishStage, PubrelFetch, PubrelUnstaged, PubrelRelease,
         PubrelCommit, RegisterFilter, RetainStart, RetainCheck, RetainAnswer, RetainNext, Emit,
         EmitClosed

LEMMA VersionsStep ==
    TypeInvariant /\ VersionsKnown /\ [Next]_vars => VersionsKnown'
<1> SUFFICES ASSUME TypeInvariant, VersionsKnown, [Next]_vars, NEW d \in Conns, Connected(d)'
             PROVE  mqtt_id'[d] \in mqtt_version'
  BY DEF VersionsKnown
<1>1. step \in [Conns -> Steps] /\ mqtt_id \in [Conns -> MqttIds]
  BY DEF TypeInvariant, BrokerTypeOK, HandlersTypeOK
<1>2. CASE Untouched(d)
  BY <1>2, VersionsGrow DEF VersionsKnown, Connected, Untouched
<1>3. CASE Client(d)
  <2>1. CASE Take(d)
    BY <1>1, <2>1, VersionsGrow DEF Take, VersionsKnown, Connected
  <2>2. CASE Close(d) \/ Connect(d) \/ ConnectRefused(d)
    BY <1>1, <2>2 DEF Close, Connect, ConnectRefused, Goto, Connected
  <2>. QED
    BY <1>3, <2>1, <2>2 DEF Client
<1>4. CASE Handler(d)
  <2>1. mqtt_id' = mqtt_id
    BY <1>4, HandlerEffects
  <2>2. CASE RegisterMqttId(d)
    BY <1>1, <2>2 DEF RegisterMqttId, Goto, Connected
  <2>3. CASE SetVersion(d)
    BY <2>1, <2>3 DEF SetVersion, set_protocol_version
  <2>4. CASE Connected(d)
    BY <2>1, <2>4, VersionsGrow DEF VersionsKnown
  <2>. QED
    BY <1>4, <2>2, <2>3, <2>4, HandlersAreConnected
<1>. QED
  BY <1>2, <1>3, <1>4, OwnStep

\* The version of a client is known wherever its SUBSCRIBE is answered: the
\* `unwrap` of another service's entry (broker.rs) does not panic, whichever
\* connections share the identifier.
THEOREM SubackVersionKnown == Spec => []SubackNeverPanics
<1>1. Init => VersionsKnown
  BY DEF Init, VersionsKnown, Connected
<1>2. VersionsKnown => SubackNeverPanics
  BY DEF VersionsKnown, Connected, SubackNeverPanics
<1>. QED
  BY <1>1, <1>2, TypeInit, TypeStep, VersionsStep, PTL DEF Spec
-----------------------------------------------------------------------------
(* Sequences, element by element *)

LEMMA Appended ==
    ASSUME NEW S, NEW s \in Seq(S), NEW e \in S
    PROVE  /\ \A i \in DOMAIN s : i \in DOMAIN Append(s, e) /\ Append(s, e)[i] = s[i]
           /\ Len(s) + 1 \in DOMAIN Append(s, e) /\ Append(s, e)[Len(s) + 1] = e
           /\ \A i \in DOMAIN Append(s, e) : i \in DOMAIN s \/ i = Len(s) + 1
<1> DEFINE longer == Append(s, e)
<1>1. /\ longer \in Seq(S) /\ Len(longer) = Len(s) + 1 /\ longer[Len(s) + 1] = e
      /\ \A i \in 1 .. Len(s) : longer[i] = s[i]
  BY AppendProperties
<1> HIDE DEF longer
<1>2. Len(s) \in Nat /\ DOMAIN s = 1 .. Len(s) /\ DOMAIN longer = 1 .. Len(s) + 1
  BY <1>1, LenProperties
<1>3. QED
  BY <1>1, <1>2 DEF longer

LEMMA Beheaded ==
    ASSUME NEW S, NEW s \in Seq(S), s # <<>>
    PROVE  /\ 1 \in DOMAIN s /\ Head(s) = s[1]
           /\ \A i \in DOMAIN s : i = 1 \/ (i - 1 \in DOMAIN Tail(s) /\ Tail(s)[i - 1] = s[i])
           /\ \A i \in DOMAIN Tail(s) : i + 1 \in DOMAIN s /\ Tail(s)[i] = s[i + 1]
<1> DEFINE rest == Tail(s)
<1>1. /\ rest \in Seq(S) /\ Len(rest) = Len(s) - 1
      /\ \A i \in 1 .. Len(rest) : rest[i] = s[i + 1]
  BY HeadTailProperties
<1>2. Head(s) = s[1]
  OBVIOUS
<1> HIDE DEF rest
<1>3. Len(s) \in Nat \ {0} /\ DOMAIN s = 1 .. Len(s) /\ DOMAIN rest = 1 .. Len(s) - 1
  BY <1>1, LenProperties, EmptySeq
<1>4. QED
  BY <1>1, <1>2, <1>3 DEF rest

LEMMA Joined ==
    ASSUME NEW S, NEW s \in Seq(S), NEW r \in Seq(S)
    PROVE  /\ \A i \in DOMAIN s : i \in DOMAIN (s \o r) /\ (s \o r)[i] = s[i]
           /\ \A i \in DOMAIN r : Len(s) + i \in DOMAIN (s \o r) /\ (s \o r)[Len(s) + i] = r[i]
           /\ \A i \in DOMAIN (s \o r) : \/ i \in DOMAIN s /\ (s \o r)[i] = s[i]
                                         \/ \E j \in DOMAIN r : (s \o r)[i] = r[j]
<1> DEFINE both == s \o r
<1>1. /\ both \in Seq(S) /\ Len(both) = Len(s) + Len(r)
      /\ \A i \in 1 .. Len(s) + Len(r) : both[i] = IF i <= Len(s) THEN s[i] ELSE r[i - Len(s)]
  BY ConcatProperties
<1> HIDE DEF both
<1>2. /\ Len(s) \in Nat /\ DOMAIN s = 1 .. Len(s) /\ Len(r) \in Nat /\ DOMAIN r = 1 .. Len(r)
      /\ DOMAIN both = 1 .. Len(s) + Len(r)
  BY <1>1, LenProperties
<1>3. ASSUME NEW i \in DOMAIN s PROVE i \in DOMAIN both /\ both[i] = s[i]
  BY <1>1, <1>2
<1>4. ASSUME NEW i \in DOMAIN r PROVE Len(s) + i \in DOMAIN both /\ both[Len(s) + i] = r[i]
  BY <1>1, <1>2
<1>5. ASSUME NEW i \in DOMAIN both
      PROVE  (i \in DOMAIN s /\ both[i] = s[i]) \/ \E j \in DOMAIN r : both[i] = r[j]
  <2>1. CASE i <= Len(s)
    BY <1>1, <1>2, <2>1
  <2>2. CASE ~(i <= Len(s))
    <3>1. i - Len(s) \in DOMAIN r /\ both[i] = r[i - Len(s)]
      BY <1>1, <1>2, <2>2
    <3>. QED
      BY <3>1
  <2>. QED
    BY <2>1, <2>2
<1>. QED
  BY <1>3, <1>4, <1>5 DEF both

-----------------------------------------------------------------------------
(* What only grows *)

LEMMA OutGrows ==
    ASSUME TypeInvariant, [Next]_vars, NEW d \in Conns, NEW msg, HasPublish(out[d], msg)
    PROVE  HasPublish(out'[d], msg)
<1>1. out \in [Conns -> Seq(Packet)] /\ out' \in [Conns -> Seq(Packet)]
  BY TypeStep DEF TypeInvariant, BrokerTypeOK, HandlersTypeOK
<1>2. ASSUME NEW c, NEW p, Hand(c, p) PROVE out'[d] = out[d] \/ out'[d] = Append(out[d], p)
  BY <1>1, <1>2 DEF Hand
<1>3. out'[d] = out[d] \/ \E p : out'[d] = Append(out[d], p)
  <2>1. ASSUME NEW c \in Conns, Client(c) PROVE UNCHANGED out
    BY <2>1, ClientEffects
  <2>2. ASSUME NEW c \in Conns, Handler(c) PROVE out'[d] = out[d] \/ \E p : out'[d] = Append(out[d], p)
    <3>1. CASE Emit(c)
      BY <1>2, <3>1 DEF Emit
    <3>2. CASE EmitClosed(c)
      BY <1>1, <3>2 DEF EmitClosed
    <3>. QED
      BY <2>2, <3>1, <3>2, HandlerEffects
  <2>3. ASSUME NEW i \in DOMAIN tasks, Delivering(i)
        PROVE  out'[d] = out[d] \/ \E p : out'[d] = Append(out[d], p)
    <3>1. CASE TaskSend(i)
      BY <1>2, <3>1 DEF TaskSend, sending
    <3>. QED
      BY <2>3, <3>1, TaskEffects
  <2>4. CASE UNCHANGED vars
    BY <2>4 DEF sending, vars
  <2>. QED
    BY <2>1, <2>2, <2>3, <2>4 DEF Next
<1>4. CASE \E p : out'[d] = Append(out[d], p)
  <2>1. PICK p : out'[d] = Append(out[d], p)
    BY <1>4
  <2>2. \A i \in DOMAIN out[d] : i \in DOMAIN out'[d] /\ out'[d][i] = out[d][i]
    BY <1>1, <2>1
  <2>. QED
    BY <2>2 DEF HasPublish
<1>. QED
  BY <1>3, <1>4

LEMMA EntriesStay ==
    ASSUME TypeInvariant, [Next]_vars, NEW filter \in Filters, NEW i \in DOMAIN topic_map[filter]
    PROVE  i \in DOMAIN topic_map'[filter] /\ topic_map'[filter][i] = topic_map[filter][i]
<1>1. topic_map \in [Filters -> Seq(Entry)]
  BY DEF TypeInvariant, BrokerTypeOK, TopicTypeOK
<1>2. ASSUME NEW c \in Conns, RegisterFilter(c)
      PROVE  i \in DOMAIN topic_map'[filter] /\ topic_map'[filter][i] = topic_map[filter][i]
  <2> DEFINE entry == [mid |-> mqtt_id[c], qos |-> Head(todo[c]).qos]
  <2>1. topic_map' = [topic_map EXCEPT ![Head(todo[c]).filter] = Append(@, entry)]
    BY <1>2 DEF RegisterFilter, register
  <2> HIDE DEF entry
  <2>2. topic_map'[filter] = topic_map[filter] \/ topic_map'[filter] = Append(topic_map[filter], entry)
    BY <1>1, <2>1
  <2>3. topic_map[filter] \in Seq(Entry)
    BY <1>1
  <2>. QED
    BY <2>2, <2>3
<1>3. ASSUME NEW c \in Conns, Client(c) PROVE UNCHANGED topic_map
  BY <1>3, ClientEffects DEF maps
<1>4. ASSUME NEW c \in Conns, Handler(c) PROVE UNCHANGED topic_map \/ RegisterFilter(c)
  BY <1>4, HandlerEffects
<1>5. ASSUME NEW j \in DOMAIN tasks, Delivering(j) PROVE UNCHANGED topic_map
  BY <1>5, TaskEffects
<1>6. CASE UNCHANGED vars
  BY <1>6 DEF vars, maps
<1>. QED
  BY <1>2, <1>3, <1>4, <1>5, <1>6 DEF Next
\* A step spawns a task, or moves one, or leaves them all.
LEMMA TaskMoves ==
    ASSUME TypeInvariant, [Next]_vars
    PROVE  \/ UNCHANGED tasks
           \/ \E msg \in Message, stage \in {"update", "visit"} : Spawn(msg, stage)
           \/ \E i \in DOMAIN tasks : Delivering(i)
<1>1. ASSUME NEW c \in Conns, Client(c) PROVE UNCHANGED tasks
  BY <1>1, ClientEffects
<1>2. ASSUME NEW c \in Conns, PublishSpawn(c)
      PROVE  \E msg \in Message, stage \in {"update", "visit"} : Spawn(msg, stage)
  BY <1>2, RequestFields DEF PublishSpawn, Serves, TypeInvariant, BrokerTypeOK, HandlersTypeOK
<1>3. ASSUME NEW c \in Conns, PubrelRelease(c)
      PROVE  \E msg \in Message, stage \in {"update", "visit"} : Spawn(msg, stage)
  BY <1>3 DEF PubrelRelease, TypeInvariant, BrokerTypeOK, HandlersTypeOK, HandlerFits
<1>4. ASSUME NEW c \in Conns, Handler(c)
      PROVE  UNCHANGED tasks \/ PublishSpawn(c) \/ PubrelRelease(c)
  BY <1>4, HandlerEffects
<1>5. CASE UNCHANGED vars
  BY <1>5 DEF vars
<1>. QED
  BY <1>1, <1>2, <1>3, <1>4, <1>5 DEF Next

\* A spawned task stands behind those there are.
LEMMA Spawned ==
    ASSUME tasks \in Seq(Task), NEW msg \in Message, NEW stage \in {"update", "visit"},
           Spawn(msg, stage)
    PROVE  /\ \A i \in DOMAIN tasks : i \in DOMAIN tasks' /\ tasks'[i] = tasks[i]
           /\ Len(tasks) + 1 \in DOMAIN tasks'
           /\ \A i \in DOMAIN tasks' : i \in DOMAIN tasks \/ i = Len(tasks) + 1
           /\ tasks'[Len(tasks) + 1].msg = msg /\ tasks'[Len(tasks) + 1].stage = stage
           /\ tasks'[Len(tasks) + 1].unvisited = subed_filters(msg.topic)
<1> DEFINE task == [msg |-> msg, stage |-> stage, targets |-> <<>>, next |-> 1,
                    unvisited |-> subed_filters(msg.topic)]
<1>1. task \in Task
  BY EmptySeq DEF Task, subed_filters
<1>2. tasks' = Append(tasks, task)
  BY DEF Spawn
<1>3. task.msg = msg /\ task.stage = stage /\ task.unvisited = subed_filters(msg.topic)
  OBVIOUS
<1> HIDE DEF task
<1>. QED
  BY <1>1, <1>2, <1>3, Appended

\* A task that moves leaves the other tasks alone, and goes from a stage to the next.
LEMMA Delivers ==
    ASSUME tasks \in Seq(Task), NEW i \in DOMAIN tasks, Delivering(i)
    PROVE  /\ DOMAIN tasks' = DOMAIN tasks
           /\ \A j \in DOMAIN tasks \ {i} : tasks'[j] = tasks[j]
           /\ tasks'[i].msg = tasks[i].msg
           /\ \/ /\ tasks[i].stage = "update" /\ tasks'[i].stage = "visit"
                 /\ tasks'[i].unvisited = tasks[i].unvisited
                 /\ tasks'[i].targets = tasks[i].targets
              \/ /\ tasks[i].stage = "visit" /\ tasks'[i].stage = "visit"
                 /\ \E f \in tasks[i].unvisited :
                        /\ tasks'[i].unvisited = tasks[i].unvisited \ {f}
                        /\ tasks'[i].targets = tasks[i].targets \o subed_of(f)
              \/ /\ tasks[i].stage = "visit" /\ tasks[i].unvisited = {}
                 /\ tasks'[i].stage = "send" /\ tasks'[i].targets = tasks[i].targets
              \/ /\ tasks[i].stage = "send" /\ tasks'[i].stage = "send"
                 /\ tasks'[i].targets = tasks[i].targets
              \/ /\ tasks[i].stage = "send" /\ tasks'[i].stage = "done"
                 /\ tasks'[i].targets = tasks[i].targets /\ tasks'[i].next = tasks[i].next
                 /\ tasks[i].next > Len(tasks[i].targets)
<1>1. tasks[i] \in Task
  OBVIOUS
<1>2. CASE TaskUpdate(i)
  <2>1. tasks' = [tasks EXCEPT ![i] = [tasks[i] EXCEPT !.stage = "visit"]] /\ tasks[i].stage = "update"
    BY <1>2 DEF TaskUpdate
  <2>. QED
    BY <1>1, <2>1 DEF Task
<1>3. CASE TaskVisit(i)
  <2>1. PICK f \in tasks[i].unvisited :
            tasks' = [tasks EXCEPT ![i].unvisited = @ \ {f},
                                   ![i].targets = @ \o subed_of(f)]
    BY <1>3 DEF TaskVisit
  <2> DEFINE more == tasks[i].targets \o subed_of(f)
             less == tasks[i].unvisited \ {f}
  <2>2. tasks' = [tasks EXCEPT ![i] = [tasks[i] EXCEPT !.unvisited = less, !.targets = more]]
    BY <2>1
  <2>3. tasks[i].stage = "visit"
    BY <1>3 DEF TaskVisit
  <2> HIDE DEF more, less
  <2>4. tasks'[i] = [tasks[i] EXCEPT !.unvisited = less, !.targets = more]
        /\ DOMAIN tasks' = DOMAIN tasks /\ \A j \in DOMAIN tasks \ {i} : tasks'[j] = tasks[j]
    BY <2>2
  <2>5. /\ tasks'[i].stage = "visit" /\ tasks'[i].msg = tasks[i].msg
        /\ tasks'[i].unvisited = less /\ tasks'[i].targets = more
    BY <1>1, <2>3, <2>4 DEF Task
  <2>. QED
    BY <2>3, <2>4, <2>5 DEF more, less
<1>4. CASE TaskVisited(i)
  <2>1. /\ tasks' = [tasks EXCEPT ![i] = [tasks[i] EXCEPT !.stage = "send"]]
        /\ tasks[i].stage = "visit" /\ tasks[i].unvisited = {}
    BY <1>4 DEF TaskVisited
  <2>. QED
    BY <1>1, <2>1 DEF Task
<1>5. CASE TaskSend(i)
  <2>1. /\ tasks' = [tasks EXCEPT ![i] = [tasks[i] EXCEPT !.next = tasks[i].next + 1]]
        /\ tasks[i].stage = "send"
    BY <1>5 DEF TaskSend
  <2>. QED
    BY <1>1, <2>1 DEF Task
<1>6. CASE TaskDone(i)
  <2>1. /\ tasks' = [tasks EXCEPT ![i] = [tasks[i] EXCEPT !.stage = "done"]]
        /\ tasks[i].stage = "send" /\ tasks[i].next > Len(tasks[i].targets)
    BY <1>6 DEF TaskDone
  <2>. QED
    BY <1>1, <2>1 DEF Task
<1>. QED
  BY <1>2, <1>3, <1>4, <1>5, <1>6 DEF Delivering

LEMMA TaskFitsStep ==
    ASSUME TypeInvariant, [Next]_vars, \A i \in DOMAIN tasks : TaskFits(i),
           NEW i \in DOMAIN tasks'
    PROVE  TaskFits(i)'
<1>1. tasks \in Seq(Task)
  BY DEF TypeInvariant, BrokerTypeOK, HandlersTypeOK
<1>2. CASE UNCHANGED tasks
  BY <1>2 DEF TaskFits
<1>3. ASSUME NEW msg \in Message, NEW stage \in {"update", "visit"}, Spawn(msg, stage)
      PROVE  TaskFits(i)'
  BY <1>1, <1>3, Spawned DEF TaskFits
<1>4. ASSUME NEW j \in DOMAIN tasks, Delivering(j)
      PROVE  TaskFits(i)'
  <2>1. CASE i # j
    BY <1>1, <1>4, <2>1, Delivers DEF TaskFits
  <2>2. CASE i = j
    BY <1>1, <1>4, <2>2, Delivers DEF TaskFits
  <2>. QED
    BY <2>1, <2>2
<1>. QED
  BY <1>2, <1>3, <1>4, TaskMoves

\* Who is entered under the filter a task is going to look at, is found there.
LEMMA StaysOnItsWay ==
    ASSUME TypeInvariant, [Next]_vars, NEW filter \in Filters, NEW mid, NEW msg,
           Entered(filter, mid), OnItsWay(mid, filter, msg)
    PROVE  OnItsWay(mid, filter, msg)'
<1>1. tasks \in Seq(Task) /\ topic_map \in [Filters -> Seq(Entry)]
  BY DEF TypeInvariant, BrokerTypeOK, HandlersTypeOK, TopicTypeOK
<1>2. CASE UNCHANGED tasks
  BY <1>2 DEF OnItsWay
<1>3. ASSUME NEW m \in Message, NEW stage \in {"update", "visit"}, Spawn(m, stage)
      PROVE  OnItsWay(mid, filter, msg)'
  BY <1>1, <1>3, Spawned DEF OnItsWay
<1>4. ASSUME NEW j \in DOMAIN tasks, Delivering(j)
      PROVE  OnItsWay(mid, filter, msg)'
  <2>1. PICK i \in DOMAIN tasks :
            /\ tasks[i].msg = msg
            /\ \/ tasks[i].stage \in {"update", "visit"} /\ filter \in tasks[i].unvisited
               \/ \E k \in DOMAIN tasks[i].targets : tasks[i].targets[k].mid = mid
    BY DEF OnItsWay
  <2>2. CASE i # j
    BY <1>1, <1>4, <2>1, <2>2, Delivers DEF OnItsWay
  <2>3. CASE i = j
    <3>1. /\ i \in DOMAIN tasks' /\ tasks'[i].msg = msg
          /\ \/ /\ tasks[i].stage = "update" /\ tasks'[i].stage = "visit"
                /\ tasks'[i].unvisited = tasks[i].unvisited
                /\ tasks'[i].targets = tasks[i].targets
             \/ /\ tasks'[i].stage = "visit"
                /\ \E f \in tasks[i].unvisited :
                        /\ tasks'[i].unvisited = tasks[i].unvisited \ {f}
                        /\ tasks'[i].targets = tasks[i].targets \o subed_of(f)
             \/ /\ tasks[i].stage = "visit" => tasks[i].unvisited = {}
                /\ tasks[i].stage # "update"
                /\ tasks'[i].targets = tasks[i].targets
      BY <1>1, <1>4, <2>1, <2>3, Delivers
    <3>2. ASSUME NEW f \in tasks[i].unvisited,
                 tasks'[i].stage = "visit",
                 tasks'[i].unvisited = tasks[i].unvisited \ {f},
                 tasks'[i].targets = tasks[i].targets \o subed_of(f)
          PROVE  OnItsWay(mid, filter, msg)'
      <4>1. f \in Filters /\ tasks[i].targets \in Seq(Entry)
        BY <1>1, TaskFields
      <4>2. subed_of(f) \in Seq(Entry)
        BY <1>1, <4>1 DEF subed_of
      <4>3. ASSUME NEW k \in DOMAIN tasks[i].targets, tasks[i].targets[k].mid = mid
            PROVE  k \in DOMAIN tasks'[i].targets /\ tasks'[i].targets[k].mid = mid
        BY <3>2, <4>1, <4>2, <4>3, Joined
      <4>4. ASSUME NEW k \in DOMAIN subed_of(f), subed_of(f)[k].mid = mid
            PROVE  \E n \in DOMAIN tasks'[i].targets : tasks'[i].targets[n].mid = mid
        <5>1. /\ Len(tasks[i].targets) + k \in DOMAIN tasks'[i].targets
              /\ tasks'[i].targets[Len(tasks[i].targets) + k] = subed_of(f)[k]
          BY <3>2, <4>1, <4>2, Joined
        <5>. QED
          BY <4>4, <5>1
      <4>5. CASE \E k \in DOMAIN tasks[i].targets : tasks[i].targets[k].mid = mid
        BY <3>1, <4>3, <4>5 DEF OnItsWay
      <4>6. CASE filter \in tasks[i].unvisited /\ filter # f
        BY <3>1, <3>2, <4>6 DEF OnItsWay
      <4>7. CASE filter = f
        BY <3>1, <4>4, <4>7 DEF OnItsWay, Entered, subed_of
      <4>. QED
        BY <2>1, <4>5, <4>6, <4>7
    <3>. QED
      BY <2>1, <3>1, <3>2 DEF OnItsWay
  <2>. QED
    BY <2>2, <2>3
<1>. QED
  BY <1>2, <1>3, <1>4, TaskMoves
-----------------------------------------------------------------------------
(* BrokerFits *)

\* Whoever retains a publish leaves a task that has every filter of its topic
\* still to look at: TaskUpdate stores before it visits, PubrelRelease spawns
\* the task in the same step.
LEMMA NewlyRetained ==
    ASSUME TypeInvariant, \A i \in DOMAIN tasks : TaskFits(i), [Next]_vars,
           NEW t \in TopicNames, kvs'[t] # kvs[t], kvs'[t] # None
    PROVE  /\ kvs'[t].topic = t
           /\ \E i \in DOMAIN tasks' :
                /\ tasks'[i].msg = kvs'[t] /\ tasks'[i].stage = "visit"
                /\ tasks'[i].unvisited = subed_filters(t)
<1>1. kvs \in [TopicNames -> Message \cup {None}] /\ tasks \in Seq(Task)
  BY DEF TypeInvariant, BrokerTypeOK, HandlersTypeOK, RetainTypeOK
<1>2. ASSUME NEW msg, update_retain(msg) PROVE kvs'[t] = msg /\ msg.topic = t
  BY <1>1, <1>2 DEF update_retain
<1>3. ASSUME NEW c \in Conns, PublishEmpty(c) PROVE FALSE
  BY <1>1, <1>3 DEF PublishEmpty, remove_retain
<1>4. ASSUME NEW c \in Conns, PubrelRelease(c)
      PROVE  /\ kvs'[t].topic = t
             /\ \E i \in DOMAIN tasks' :
                    /\ tasks'[i].msg = kvs'[t] /\ tasks'[i].stage = "visit"
                    /\ tasks'[i].unvisited = subed_filters(t)
  <2>1. update_retain(fetched[c]) /\ Spawn(fetched[c], "visit") /\ fetched[c] \in Message
    BY <1>4 DEF PubrelRelease, TypeInvariant, BrokerTypeOK, HandlersTypeOK, HandlerFits
  <2>. QED
    BY <1>1, <1>2, <2>1, Spawned
<1>5. ASSUME NEW i \in DOMAIN tasks, TaskUpdate(i)
      PROVE  /\ kvs'[t].topic = t
             /\ tasks'[i].msg = kvs'[t] /\ tasks'[i].stage = "visit"
             /\ tasks'[i].unvisited = subed_filters(t)
             /\ i \in DOMAIN tasks'
  <2>1. update_retain(tasks[i].msg) /\ tasks[i].stage = "update"
    BY <1>5 DEF TaskUpdate
  <2>2. kvs'[t] = tasks[i].msg /\ tasks[i].msg.topic = t
    BY <1>2, <2>1
  <2>3. tasks[i].unvisited = subed_filters(t)
    BY <2>1, <2>2 DEF TaskFits
  <2>4. /\ i \in DOMAIN tasks' /\ tasks'[i].msg = tasks[i].msg /\ tasks'[i].stage = "visit"
        /\ tasks'[i].unvisited = tasks[i].unvisited
    BY <1>1, <1>5, <2>1, Delivers DEF Delivering
  <2>. QED
    BY <2>2, <2>3, <2>4
<1>6. ASSUME NEW c \in Conns, Client(c) PROVE FALSE
  BY <1>6, ClientEffects DEF maps
<1>7. ASSUME NEW c \in Conns, Handler(c) PROVE PublishEmpty(c) \/ PubrelRelease(c)
  BY <1>7, HandlerEffects
<1>8. ASSUME NEW i \in DOMAIN tasks, Delivering(i) PROVE TaskUpdate(i)
  BY <1>8, TaskEffects
<1>9. CASE UNCHANGED vars
  BY <1>9 DEF vars, maps
<1>. QED
  BY <1>3, <1>4, <1>5, <1>6, <1>7, <1>8, <1>9 DEF Next

LEMMA StoreFitsStep ==
    ASSUME TypeInvariant, \A i \in DOMAIN tasks : TaskFits(i), StoreFits, [Next]_vars
    PROVE  StoreFits'
<1> SUFFICES ASSUME NEW t \in TopicNames, kvs'[t] # None PROVE kvs'[t].topic = t
  BY DEF StoreFits
<1>. QED
  BY NewlyRetained DEF StoreFits

LEMMA HandOwes ==
    ASSUME TypeInvariant, NEW c \in Conns, NEW p \in Packet, Hand(c, p), NEW d \in Conns,
           OwedFits(d)
    PROVE  OwedFits(d)'
<1>1. owed \in [Conns -> Seq(Request)]
  BY DEF TypeInvariant, BrokerTypeOK, ClientsTypeOK
<1>2. ClientsTypeOK
  BY DEF TypeInvariant, BrokerTypeOK
<1>3. CASE owed' = owed
  BY <1>3 DEF OwedFits
<1>4. CASE owed' # owed /\ d # c
  <2> DEFINE more == Owes(p)
  <2>1. owed' = [owed EXCEPT ![c] = owed[c] \o more]
    BY <1>2, <1>4, HandOwed
  <2> HIDE DEF more
  <2>. QED
    BY <1>1, <1>4, <2>1 DEF OwedFits
<1>5. CASE owed' # owed /\ d = c
  <2> DEFINE more == Owes(p)
             before == owed[d]
  <2>1. more \in Seq(Request) /\ \A i \in DOMAIN more : more[i].kind \in {"PUBREC", "PUBCOMP"}
    BY OwesType
  <2>2. owed' = [owed EXCEPT ![c] = owed[c] \o more]
    BY <1>2, <1>5, HandOwed
  <2> HIDE DEF more
  <2>3. owed'[d] = before \o more
    BY <1>1, <1>5, <2>2
  <2>4. before \in Seq(Request) /\ \A i \in DOMAIN before : before[i].kind \in {"PUBREC", "PUBCOMP"}
    BY <1>1 DEF OwedFits
  <2> HIDE DEF before
  <2>5. \A i \in DOMAIN (before \o more) : (before \o more)[i].kind \in {"PUBREC", "PUBCOMP"}
    BY <2>1, <2>4, Joined
  <2>. QED
    BY <2>3, <2>5 DEF OwedFits
<1>. QED
  BY <1>3, <1>4, <1>5

LEMMA OwedFitsStep ==
    ASSUME TypeInvariant, [Next]_vars, NEW d \in Conns, OwedFits(d)
    PROVE  OwedFits(d)'
<1>1. /\ owed \in [Conns -> Seq(Request)] /\ reply \in [Conns -> Seq(Packet)]
      /\ tasks \in Seq(Task) /\ TopicTypeOK /\ SessionTypeOK
  BY DEF TypeInvariant, BrokerTypeOK, ClientsTypeOK, HandlersTypeOK
<1>2. ASSUME NEW c \in Conns, Client(c) PROVE OwedFits(d)'
  <2>1. CASE owed'[d] = owed[d]
    BY <2>1 DEF OwedFits
  <2>2. CASE owed'[d] # owed[d]
    <3>1. c = d
      BY <1>2, <2>2, ClientEffects
    <3>2. owed[d] # <<>> /\ owed'[d] = Tail(owed[d])
      BY <1>1, <1>2, <2>2, <3>1
      DEF Client, Take, Close, Connect, ConnectRefused, Arrives, OwedArrives, clients
    <3>3. \A i \in DOMAIN Tail(owed[d]) : i + 1 \in DOMAIN owed[d] /\ Tail(owed[d])[i] = owed[d][i + 1]
      BY <1>1, <3>2, Beheaded
    <3>. QED
      BY <3>2, <3>3 DEF OwedFits
  <2>. QED
    BY <2>1, <2>2
<1>3. ASSUME NEW c \in Conns, Emit(c) PROVE OwedFits(d)'
  <2>1. Head(reply[c]) \in Packet
    BY <1>1, <1>3, HeadTailProperties DEF Emit, TypeInvariant, HandlerFits
  <2>. QED
    BY <1>3, <2>1, HandOwes DEF Emit
<1>4. ASSUME NEW c \in Conns, Handler(c) PROVE UNCHANGED owed \/ Emit(c)
  BY <1>4, HandlerEffects
<1>5. ASSUME NEW i \in DOMAIN tasks, TaskSend(i) PROVE OwedFits(d)'
  <2> DEFINE entry == tasks[i].targets[tasks[i].next]
             c == by_mqtt_id[entry.mid]
  <2>1. tasks[i] \in Task
    BY <1>1
  <2>2. entry \in Entry
    BY <1>5, <2>1, TaskFields, ElementOfSeq DEF TaskSend
  <2>3. entry.qos \in QoS /\ c \in Conns \cup {None} /\ tasks[i].msg \in Message
    BY <1>1, <2>1, <2>2, TaskFields DEF Entry, SessionTypeOK
  <2>4. IF c = None
        THEN UNCHANGED <<sending, owed, plan, sent>>
        ELSE \E pid \in DeliveryIds(tasks[i].msg, entry.qos) :
                Hand(c, Delivery(tasks[i].msg, entry.qos, pid))
    BY <1>5 DEF TaskSend
  <2> HIDE DEF entry, c
  <2>5. CASE c = None
    BY <2>4, <2>5 DEF OwedFits
  <2>6. CASE c # None
    BY <2>3, <2>4, <2>6, DeliveryType, HandOwes
  <2>. QED
    BY <2>5, <2>6
<1>6. ASSUME NEW i \in DOMAIN tasks, Delivering(i) PROVE UNCHANGED owed \/ TaskSend(i)
  BY <1>6, TaskEffects
<1>7. UNCHANGED owed => OwedFits(d)'
  BY DEF OwedFits
<1>8. CASE UNCHANGED vars
  BY <1>7, <1>8 DEF vars, clients
<1>. QED
  BY <1>2, <1>3, <1>4, <1>5, <1>6, <1>7, <1>8 DEF Next
\* Where a handler goes from where it stands.
LEMMA HandlerSteps ==
    ASSUME TypeInvariant, NEW c \in Conns, Handler(c)
    PROVE  /\ step'[c] \notin {"new", "register"}
           /\ step'[c] = "version" => step[c] = "register"
           /\ step[c] \in {"serve", "check", "answer"} \/ step'[c] \notin {"serve", "check", "answer"}
              \/ request[c].kind = "PUBREL" \/ step[c] = "version"
<1>1. step \in [Conns -> Steps]
  BY DEF TypeInvariant, BrokerTypeOK, HandlersTypeOK
<1>2. HandlerFits(c)
  BY DEF TypeInvariant
<1> USE DEF Return, Goto
<1>3. CASE RegisterMqttId(c) \/ SetVersion(c)
  BY <1>1, <1>3 DEF RegisterMqttId, SetVersion
<1>4. CASE Disconnect(c) \/ Ignore(c) \/ ConnectAgain(c) \/ Pubrec(c) \/ Pubcomp(c)
  BY <1>1, <1>4 DEF Disconnect, Ignore, ConnectAgain, Pubrec, Pubcomp, Serves
<1>5. CASE PublishEmpty(c) \/ PublishSpawn(c) \/ PublishStage(c)
  BY <1>1, <1>5 DEF PublishEmpty, PublishSpawn, PublishStage, Serves
<1>6. CASE PubrelFetch(c) \/ PubrelUnstaged(c) \/ PubrelRelease(c) \/ PubrelCommit(c)
  BY <1>1, <1>2, <1>6
  DEF PubrelFetch, PubrelUnstaged, PubrelRelease, PubrelCommit, Serves, HandlerFits
<1>7. CASE RegisterFilter(c) \/ RetainCheck(c) \/ RetainAnswer(c)
  BY <1>1, <1>7 DEF RegisterFilter, RetainCheck, RetainAnswer, Serves
<1>8. CASE RetainStart(c) \/ RetainNext(c) \/ Emit(c) \/ EmitClosed(c)
  BY <1>1, <1>8 DEF RetainStart, RetainNext, Emit, EmitClosed, CheckNext, Serves
<1>. QED
  BY <1>3, <1>4, <1>5, <1>6, <1>7, <1>8 DEF Handler

LEMMA PlanFollowedStep ==
    ASSUME TypeInvariant, [Next]_vars, NEW d \in Conns, PlanFollowed(d)
    PROVE  PlanFollowed(d)'
<1>1. /\ step \in [Conns -> Steps] /\ request \in [Conns -> Request]
      /\ mqtt_id \in [Conns -> MqttIds] /\ sent \in [Conns -> Nat]
      /\ plan[d] \in Seq(Request)
  BY PlansAssumption DEF TypeInvariant, BrokerTypeOK, HandlersTypeOK, ClientsTypeOK
<1>2. plan' = plan /\ OwedFits(d)'
  BY OwnStep, OwedFitsStep DEF PlanFollowed
<1>3. CASE Untouched(d)
  BY <1>2, <1>3 DEF Untouched, PlanFollowed
<1>4. CASE Take(d)
  <2>1. PICK r \in Requests(d) :
            /\ Arrives(d, r) \/ OwedArrives(d, r)
            /\ request' = [request EXCEPT ![d] = r]
    BY <1>4 DEF Take
  <2>2. request'[d] = r /\ step'[d] = "serve"
    BY <1>1, <1>4, <2>1 DEF Take, Goto
  <2>3. CASE Arrives(d, r)
    <3>1. sent'[d] = sent[d] + 1 /\ sent[d] < Len(plan[d]) /\ r = plan[d][sent[d] + 1]
      BY <1>1, <2>3 DEF Arrives
    <3>2. sent[d] \in Nat /\ Len(plan[d]) \in Nat
      BY <1>1, LenProperties
    <3>3. sent'[d] > 0 /\ sent'[d] <= Len(plan[d]) /\ r = plan[d][sent'[d]]
      BY <3>1, <3>2
    <3>. QED
      BY <1>2, <2>2, <3>3 DEF PlanFollowed
  <2>4. CASE OwedArrives(d, r)
    <3>1. sent' = sent /\ owed[d] # <<>> /\ r = Head(owed[d]) /\ owed[d] \in Seq(Request)
      BY <2>4 DEF OwedArrives, TypeInvariant, BrokerTypeOK, ClientsTypeOK
    <3>2. r.kind \in {"PUBREC", "PUBCOMP"}
      BY <3>1, Beheaded DEF PlanFollowed, OwedFits
    <3>. QED
      BY <1>2, <2>2, <3>1, <3>2 DEF PlanFollowed
  <2>. QED
    BY <2>1, <2>3, <2>4
<1>5. CASE Close(d)
  <2>1. step'[d] = "closed" /\ sent' = sent
    BY <1>1, <1>5 DEF Close, Goto, clients
  <2>. QED
    BY <1>2, <2>1 DEF PlanFollowed
<1>6. CASE Connect(d) \/ ConnectRefused(d)
  <2>1. PICK r \in Requests(d) : Arrives(d, r) /\ request' = [request EXCEPT ![d] = r]
                                 /\ (Connect(d) => r.kind = "CONNECT")
    BY <1>6 DEF Connect, ConnectRefused
  <2>2. step'[d] \in {"register", "closed"} /\ (step'[d] = "register" => request'[d].kind = "CONNECT")
    BY <1>1, <1>6, <2>1 DEF Connect, ConnectRefused, Goto
  <2>3. sent'[d] <= Len(plan[d])
    <3>1. sent'[d] = sent[d] + 1 /\ sent[d] < Len(plan[d])
      BY <1>1, <2>1 DEF Arrives
    <3>2. sent[d] \in Nat /\ Len(plan[d]) \in Nat
      BY <1>1, LenProperties
    <3>. QED
      BY <3>1, <3>2
  <2>. QED
    BY <1>2, <2>2, <2>3 DEF PlanFollowed
<1>7. CASE Handler(d)
  <2>1. sent' = sent /\ request' = request /\ mqtt_id' = mqtt_id
    BY <1>7, HandlerEffects
  <2>2. /\ step'[d] \notin {"new", "register"}
        /\ step'[d] = "version" => step[d] = "register"
        /\ step[d] \in {"serve", "check", "answer"} \/ step'[d] \notin {"serve", "check", "answer"}
           \/ request[d].kind = "PUBREL" \/ step[d] = "version"
    BY <1>7, HandlerSteps
  <2>. QED
    BY <1>2, <2>1, <2>2 DEF PlanFollowed
<1>. QED
  BY <1>3, <1>4, <1>5, <1>6, <1>7, OwnStep DEF Client

LEMMA LocalsFitStep ==
    ASSUME TypeInvariant, [Next]_vars, NEW d \in Conns, LocalsFit(d)
    PROVE  LocalsFit(d)'
<1>1. /\ step \in [Conns -> Steps] /\ request \in [Conns -> Request]
      /\ reply \in [Conns -> Seq(Packet)] /\ found \in [Conns -> Seq(Message)]
  BY DEF TypeInvariant, BrokerTypeOK, HandlersTypeOK
<1>2. CASE Untouched(d)
  BY <1>2 DEF Untouched, LocalsFit
<1>3. CASE Client(d)
  <2>1. step'[d] # "check" /\ step[d] # "check" /\ found' = found
    BY <1>1, <1>3 DEF Client, Take, Close, Connect, ConnectRefused, Goto, locals
  <2>. QED
    BY <2>1 DEF LocalsFit
<1>4. CASE RetainStart(d)
  <2>1. /\ request' = request /\ found' = found /\ request[d].kind = "SUBSCRIBE"
        /\ step[d] = "serve" /\ reply' = [reply EXCEPT ![d] = <<Ack("SUBACK", None)>>]
    BY <1>4 DEF RetainStart, Serves, CheckNext, Return
  <2>2. reply'[d] = <<Ack("SUBACK", None)>>
    BY <1>1, <2>1
  <2>3. Len(reply'[d]) = 1
    BY <2>2
  <2>. QED
    BY <2>1, <2>3 DEF LocalsFit
<1>5. CASE RetainCheck(d)
  BY <1>5 DEF RetainCheck, LocalsFit
<1>6. CASE RetainAnswer(d)
  <2> DEFINE msg == Head(found[d])
             packet == Delivery(msg, msg.qos, msg.pid)
  <2>1. /\ reply' = reply \/ reply' = [reply EXCEPT ![d] = Append(@, packet)]
        /\ step' = step /\ request' = request /\ step[d] = "check" /\ found[d] # <<>>
    BY <1>6 DEF RetainAnswer
  <2>2. packet \in Packet /\ packet.kind = "PUBLISH"
    <3>1. msg \in Message
      BY <1>1, <2>1, HeadTailProperties
    <3>. QED
      BY <3>1, DeliveryType DEF Delivery
  <2> HIDE DEF packet
  <2>3. reply'[d] = reply[d] \/ reply'[d] = Append(reply[d], packet)
    BY <1>1, <2>1
  <2>4. \A i \in 2 .. Len(reply'[d]) : reply'[d][i].kind = "PUBLISH"
    <3>1. CASE reply'[d] = Append(reply[d], packet)
      <4>1. reply[d] \in Seq(Packet)
        BY <1>1
      <4>2. /\ Len(reply'[d]) = Len(reply[d]) + 1 /\ reply'[d][Len(reply[d]) + 1] = packet
            /\ \A i \in 1 .. Len(reply[d]) : reply'[d][i] = reply[d][i]
            /\ Len(reply[d]) \in Nat
        BY <2>2, <3>1, <4>1, AppendProperties, LenProperties
      <4>3. \A i \in 2 .. Len(reply[d]) : reply[d][i].kind = "PUBLISH"
        BY <2>1 DEF LocalsFit
      <4> DEFINE before == reply[d]
                 after == reply'[d]
      <4> HIDE DEF before, after
      <4>4. /\ Len(after) = Len(before) + 1 /\ after[Len(before) + 1].kind = "PUBLISH"
            /\ \A i \in 1 .. Len(before) : after[i] = before[i]
            /\ Len(before) \in Nat
            /\ \A i \in 2 .. Len(before) : before[i].kind = "PUBLISH"
        BY <2>2, <4>2, <4>3 DEF before, after
      <4>5. \A i \in 2 .. Len(after) : after[i].kind = "PUBLISH"
        BY <4>4
      <4>. QED
        BY <4>5 DEF after
    <3>2. CASE reply'[d] = reply[d]
      BY <2>1, <3>2 DEF LocalsFit
    <3>. QED
      BY <2>3, <3>1, <3>2
  <2>. QED
    BY <2>1, <2>4 DEF LocalsFit
<1>7. CASE RetainNext(d)
  <2>1. /\ request' = request /\ found' = found /\ found[d] = <<>> /\ step[d] = "check"
        /\ reply' = [reply EXCEPT ![d] = reply[d]]
    BY <1>7 DEF RetainNext, CheckNext, Return
  <2>2. reply'[d] = reply[d]
    BY <1>1, <2>1
  <2>. QED
    BY <2>1, <2>2 DEF LocalsFit
<1>8. CASE Handler(d) /\ ~(RetainStart(d) \/ RetainCheck(d) \/ RetainAnswer(d) \/ RetainNext(d))
  <2>1. step[d] # "check" /\ step'[d] # "check" /\ found' = found
    <3> USE DEF Return, Goto, locals
    <3>1. CASE RegisterMqttId(d) \/ SetVersion(d)
      BY <1>1, <3>1 DEF RegisterMqttId, SetVersion
    <3>2. CASE Disconnect(d) \/ Ignore(d) \/ ConnectAgain(d) \/ Pubrec(d) \/ Pubcomp(d)
      BY <1>1, <3>2 DEF Disconnect, Ignore, ConnectAgain, Pubrec, Pubcomp, Serves
    <3>3. CASE PublishEmpty(d) \/ PublishSpawn(d) \/ PublishStage(d)
      BY <1>1, <3>3 DEF PublishEmpty, PublishSpawn, PublishStage, Serves
    <3>4. CASE PubrelFetch(d) \/ PubrelUnstaged(d) \/ PubrelRelease(d) \/ PubrelCommit(d)
      BY <1>1, <3>4 DEF PubrelFetch, PubrelUnstaged, PubrelRelease, PubrelCommit, Serves
    <3>5. CASE RegisterFilter(d) \/ Emit(d) \/ EmitClosed(d)
      BY <1>1, <3>5 DEF RegisterFilter, Emit, EmitClosed, Serves
    <3>. QED
      BY <1>8, <3>1, <3>2, <3>3, <3>4, <3>5 DEF Handler
  <2>. QED
    BY <2>1 DEF LocalsFit
<1>. QED
  BY <1>2, <1>3, <1>4, <1>5, <1>6, <1>7, <1>8, OwnStep

LEMMA BrokerFitsInit == Init => BrokerFits
<1> SUFFICES ASSUME Init PROVE BrokerFits
  OBVIOUS
<1>1. ASSUME NEW c \in Conns PROVE PlanFollowed(c) /\ LocalsFit(c)
  <2>1. /\ step[c] = "new" /\ sent[c] = 0 /\ mqtt_id[c] = NoId /\ owed[c] = <<>>
        /\ found[c] = <<>> /\ plan[c] \in Seq(Request)
    BY PlansAssumption DEF Init
  <2>2. Len(plan[c]) \in Nat
    BY <2>1, LenProperties
  <2>. QED
    BY <2>1, <2>2 DEF PlanFollowed, OwedFits, LocalsFit
<1>2. StoreFits /\ \A i \in DOMAIN tasks : TaskFits(i)
  BY DEF Init, RetainInit, StoreFits
<1>. QED
  BY <1>1, <1>2, TypeInit DEF BrokerFits

LEMMA BrokerFitsStep == BrokerFits /\ [Next]_vars => BrokerFits'
<1> SUFFICES ASSUME BrokerFits, [Next]_vars PROVE BrokerFits'
  OBVIOUS
<1>1. /\ TypeInvariant /\ StoreFits
      /\ \A c \in Conns : PlanFollowed(c) /\ LocalsFit(c)
      /\ \A i \in DOMAIN tasks : TaskFits(i)
  BY DEF BrokerFits
<1>2. TypeInvariant'
  BY <1>1, TypeStep
<1>3. \A c \in Conns : PlanFollowed(c)' /\ LocalsFit(c)'
  BY <1>1, PlanFollowedStep, LocalsFitStep
<1>4. StoreFits' /\ \A i \in DOMAIN tasks' : TaskFits(i)'
  BY <1>1, StoreFitsStep, TaskFitsStep
<1>. QED
  BY <1>2, <1>3, <1>4 DEF BrokerFits
-----------------------------------------------------------------------------
(* FiltersEntered *)

\* The steps of a connection that serves a SUBSCRIBE.
LEMMA SubscribeSteps ==
    ASSUME NEW c \in Conns, NEW k, Serving(c, k), Client(c) \/ Handler(c)
    PROVE  \/ RegisterFilter(c) \/ RetainStart(c) \/ RetainCheck(c) \/ RetainAnswer(c)
           \/ RetainNext(c) \/ Emit(c) \/ EmitClosed(c)
<1>1. step[c] \in {"serve", "check", "answer"} /\ request[c].kind = "SUBSCRIBE"
  BY DEF Serving
<1>2. ~Client(c)
  BY <1>1 DEF Client, Take, Close, Connect, ConnectRefused
<1>3. ~(RegisterMqttId(c) \/ SetVersion(c) \/ PubrelUnstaged(c) \/ PubrelRelease(c)
        \/ PubrelCommit(c))
  BY <1>1 DEF RegisterMqttId, SetVersion, PubrelUnstaged, PubrelRelease, PubrelCommit
<1>4. ~(Disconnect(c) \/ Ignore(c) \/ ConnectAgain(c) \/ Pubrec(c) \/ Pubcomp(c)
        \/ PublishEmpty(c) \/ PublishSpawn(c) \/ PublishStage(c) \/ PubrelFetch(c))
  BY <1>1 DEF Disconnect, Ignore, ConnectAgain, Pubrec, Pubcomp, PublishEmpty, PublishSpawn,
              PublishStage, PubrelFetch, Serves
<1>. QED
  BY <1>2, <1>3, <1>4 DEF Handler

\* A SUBSCRIBE that has been read for a client with an identifier was read
\* before this step, or is taken by it.
LEMMA NewlyRead ==
    ASSUME TypeInvariant, NEW d \in Conns, PlanFollowed(d), Client(d),
           mqtt_id'[d] # NoId, NEW k \in 1 .. sent'[d], plan[d][k].kind = "SUBSCRIBE"
    PROVE  \/ /\ mqtt_id'[d] = mqtt_id[d] /\ k \in 1 .. sent[d]
              /\ step[d] \notin {"serve", "check", "answer"}
           \/ /\ k = sent'[d] /\ request'[d] = plan[d][k] /\ step'[d] = "serve"
              /\ todo'[d] = plan[d][k].filters
<1>1. /\ step \in [Conns -> Steps] /\ request \in [Conns -> Request]
      /\ mqtt_id \in [Conns -> MqttIds] /\ sent \in [Conns -> Nat]
      /\ todo \in [Conns -> Seq(Subscription)]
  BY DEF TypeInvariant, BrokerTypeOK, HandlersTypeOK, ClientsTypeOK
<1>2. CASE Take(d)
  <2>1. PICK r \in Requests(d) :
            /\ Arrives(d, r) \/ OwedArrives(d, r)
            /\ request' = [request EXCEPT ![d] = r]
            /\ todo' = [todo EXCEPT ![d] = IF r.kind = "SUBSCRIBE" THEN r.filters ELSE <<>>]
    BY <1>2 DEF Take
  <2>2. step[d] = "reading" /\ step'[d] = "serve" /\ mqtt_id' = mqtt_id /\ request'[d] = r
    BY <1>1, <1>2, <2>1 DEF Take, Goto
  <2>3. CASE OwedArrives(d, r)
    BY <2>2, <2>3 DEF OwedArrives
  <2>4. CASE Arrives(d, r)
    <3>1. sent'[d] = sent[d] + 1 /\ r = plan[d][sent'[d]]
      BY <1>1, <2>4 DEF Arrives
    <3>2. CASE k = sent'[d]
      BY <1>1, <2>1, <2>2, <3>1, <3>2
    <3>3. CASE k # sent'[d]
      <4>1. sent[d] \in Nat
        BY <1>1
      <4>2. k \in 1 .. sent[d]
        BY <3>1, <3>3, <4>1
      <4>. QED
        BY <2>2, <4>2
    <3>. QED
      BY <3>2, <3>3
  <2>. QED
    BY <2>1, <2>3, <2>4
<1>3. CASE Close(d)
  BY <1>3 DEF Close, clients
<1>4. CASE Connect(d) \/ ConnectRefused(d)
  <2>1. PICK r \in Requests(d) :
            Arrives(d, r) /\ (Connect(d) => r.kind = "CONNECT")
    BY <1>4 DEF Connect, ConnectRefused
  <2>2. step[d] = "new" /\ sent[d] = 0 /\ mqtt_id[d] = NoId
    BY <1>4 DEF Connect, ConnectRefused, PlanFollowed
  <2>3. sent'[d] = 1 /\ r = plan[d][1]
    BY <1>1, <2>1, <2>2 DEF Arrives
  <2>4. k = 1
    BY <2>3
  <2>5. Connect(d)
    BY <1>4, <2>2 DEF ConnectRefused
  <2>. QED
    BY <2>1, <2>3, <2>4, <2>5
<1>. QED
  BY <1>2, <1>3, <1>4 DEF Client

LEMMA PlannedFilter ==
    ASSUME TypeInvariant, NEW d \in Conns, NEW k \in 1 .. sent[d], PlanFollowed(d),
           plan[d][k].kind = "SUBSCRIBE", NEW i \in DOMAIN plan[d][k].filters
    PROVE  plan[d][k].filters \in Seq(Subscription) /\ plan[d][k].filters[i].filter \in Filters
<1>1. plan[d] \in Seq(Request) /\ sent[d] \in Nat /\ sent[d] <= Len(plan[d])
  BY PlansAssumption DEF TypeInvariant, BrokerTypeOK, ClientsTypeOK, PlanFollowed
<1>2. k \in 1 .. Len(plan[d])
  BY <1>1, LenProperties
<1>3. plan[d][k] \in Request
  BY <1>1, <1>2, ElementOfSeq
<1>4. plan[d][k].filters \in Seq(Subscription)
  BY <1>3, RequestFields
<1>5. plan[d][k].filters[i] \in Subscription
  BY <1>4
<1>. QED
  BY <1>4, <1>5 DEF Subscription

LEMMA EnteredStays ==
    ASSUME TypeInvariant, [Next]_vars, NEW filter \in Filters, NEW mid, Entered(filter, mid)
    PROVE  Entered(filter, mid)'
  BY EntriesStay DEF Entered

LEMMA FiltersEnteredStep == BrokerFits /\ FiltersEntered /\ [Next]_vars => FiltersEntered'
<1> SUFFICES ASSUME BrokerFits, FiltersEntered, [Next]_vars, NEW d \in Conns,
                    (mqtt_id[d] # NoId)', NEW k \in Read(d)', Is(d, k, "SUBSCRIBE")',
                    NEW i \in (DOMAIN plan[d][k].filters)'
             PROVE  (LET filter == plan[d][k].filters[i].filter IN
                        \/ Entered(filter, mqtt_id[d])
                        \/ Serving(d, k) /\ StillToDo(d, filter))'
  BY DEF FiltersEntered
<1>a. plan' = plan
  BY OwnStep DEF BrokerFits
<1>b. PICK mid, filter : mid = mqtt_id'[d] /\ filter = plan[d][k].filters[i].filter
  OBVIOUS
<1> SUFFICES Entered(filter, mid)' \/ (Serving(d, k) /\ StillToDo(d, filter))'
  BY <1>a, <1>b DEF Entered, Serving, StillToDo
<1>c. /\ mid # NoId /\ k \in 1 .. sent'[d] /\ plan[d][k].kind = "SUBSCRIBE"
      /\ i \in DOMAIN plan[d][k].filters
  BY <1>a, <1>b DEF Read, Is
<1>1. /\ TypeInvariant /\ PlanFollowed(d)
      /\ step \in [Conns -> Steps] /\ mqtt_id \in [Conns -> MqttIds]
      /\ topic_map \in [Filters -> Seq(Entry)] /\ todo \in [Conns -> Seq(Subscription)]
  BY DEF BrokerFits, TypeInvariant, BrokerTypeOK, HandlersTypeOK, TopicTypeOK
<1>2. ASSUME k \in 1 .. sent[d], mqtt_id'[d] = mqtt_id[d]
      PROVE  /\ Entered(filter, mid) \/ (Serving(d, k) /\ StillToDo(d, filter))
             /\ Entered(filter, mid) => Entered(filter, mid)'
  <2>1. filter \in Filters
    BY <1>1, <1>2, <1>b, <1>c, PlannedFilter
  <2>2. Entered(filter, mid) => Entered(filter, mid)'
    BY <1>1, <2>1, EnteredStays
  <2>3. Entered(filter, mid) \/ (Serving(d, k) /\ StillToDo(d, filter))
    BY <1>2, <1>b, <1>c DEF FiltersEntered, Read, Is
  <2>. QED
    BY <2>2, <2>3
<1>3. CASE Untouched(d)
  <2>1. k \in 1 .. sent[d] /\ mqtt_id'[d] = mqtt_id[d]
    BY <1>3, <1>c DEF Untouched
  <2>2. Serving(d, k) /\ StillToDo(d, filter) => (Serving(d, k) /\ StillToDo(d, filter))'
    BY <1>3 DEF Untouched, Serving, StillToDo
  <2>. QED
    BY <1>2, <2>1, <2>2
<1>4. CASE Client(d)
  <2>1. CASE mqtt_id'[d] = mqtt_id[d] /\ k \in 1 .. sent[d]
             /\ step[d] \notin {"serve", "check", "answer"}
    BY <1>2, <2>1 DEF Serving
  <2>2. CASE k = sent'[d] /\ request'[d] = plan[d][k] /\ step'[d] = "serve"
             /\ todo'[d] = plan[d][k].filters
    BY <1>a, <1>b, <1>c, <2>2 DEF Serving, StillToDo
  <2>. QED
    BY <1>1, <1>4, <1>b, <1>c, <2>1, <2>2, NewlyRead
<1>5. CASE Handler(d)
  <2>1. sent' = sent /\ mqtt_id' = mqtt_id /\ request' = request
    BY <1>1, <1>5, HandlerEffects
  <2>2. CASE Entered(filter, mid)
    BY <1>2, <1>c, <2>1, <2>2
  <2>3. CASE Serving(d, k) /\ StillToDo(d, filter)
    <3>1. step[d] = "serve" /\ \E j \in DOMAIN todo[d] : todo[d][j].filter = filter
      BY <2>3 DEF StillToDo
    <3>2. CASE RegisterFilter(d)
      <4>1. /\ todo[d] \in Seq(Subscription) /\ todo[d] # <<>> /\ step' = step
            /\ todo'[d] = Tail(todo[d])
        BY <1>1, <3>2 DEF RegisterFilter
      <4>2. PICK j \in DOMAIN todo[d] : todo[d][j].filter = filter
        BY <3>1
      <4>3. CASE j = 1
        <5> DEFINE entry == [mid |-> mqtt_id[d], qos |-> Head(todo[d]).qos]
        <5>1. topic_map' = [topic_map EXCEPT ![Head(todo[d]).filter] = Append(@, entry)]
          BY <3>2 DEF RegisterFilter, register
        <5>2. Head(todo[d]).filter = filter /\ Head(todo[d]) \in Subscription
          BY <4>1, <4>2, <4>3, Beheaded, HeadTailProperties
        <5>3. entry \in Entry /\ entry.mid = mid /\ filter \in Filters
          BY <1>1, <1>b, <2>1, <5>2 DEF Entry, Subscription
        <5> HIDE DEF entry
        <5>4. topic_map'[filter] = Append(topic_map[filter], entry)
          BY <1>1, <5>1, <5>2, <5>3
        <5>5. topic_map[filter] \in Seq(Entry)
          BY <1>1, <5>3
        <5> DEFINE before == topic_map[filter]
                   after == topic_map'[filter]
        <5> HIDE DEF before, after
        <5>6. before \in Seq(Entry) /\ after = Append(before, entry)
          BY <5>4, <5>5 DEF before, after
        <5>7. \E n \in DOMAIN after : after[n] = entry
          BY <5>3, <5>6, Appended
        <5>8. \E n \in DOMAIN topic_map'[filter] : topic_map'[filter][n].mid = mid
          BY <5>3, <5>7 DEF after
        <5>. QED
          BY <5>8 DEF Entered
      <4>4. CASE j # 1
        <5>1. j - 1 \in DOMAIN todo'[d] /\ todo'[d][j - 1].filter = filter
          BY <4>1, <4>2, <4>4, Beheaded
        <5>. QED
          BY <2>1, <2>3, <3>1, <4>1, <5>1 DEF Serving, StillToDo
      <4>. QED
        BY <4>3, <4>4
    <3>3. CASE RetainStart(d)
      BY <1>b, <1>c, <2>1, <3>1, <3>3 DEF RetainStart
    <3>4. CASE RetainCheck(d) \/ RetainAnswer(d) \/ RetainNext(d) \/ Emit(d) \/ EmitClosed(d)
      BY <3>1, <3>4 DEF RetainCheck, RetainAnswer, RetainNext, Emit, EmitClosed
    <3>. QED
      BY <1>5, <2>3, <3>2, <3>3, <3>4, SubscribeSteps
  <2>. QED
    BY <1>2, <1>c, <2>1, <2>2, <2>3
<1>. QED
  BY <1>1, <1>3, <1>4, <1>5, OwnStep
-----------------------------------------------------------------------------
(* NoMissedRetained *)

LEMMA HasPublishAppended ==
    ASSUME NEW s \in Seq(Packet), NEW p \in Packet, NEW msg
    PROVE  /\ HasPublish(s, msg) => HasPublish(Append(s, p), msg)
           /\ p.kind = "PUBLISH" /\ p.msg = msg => HasPublish(Append(s, p), msg)
<1> DEFINE longer == Append(s, p)
<1>1. /\ \A i \in DOMAIN s : i \in DOMAIN longer /\ longer[i] = s[i]
      /\ \E i \in DOMAIN longer : longer[i] = p
  BY Appended
<1> HIDE DEF longer
<1>2. /\ HasPublish(s, msg) => HasPublish(longer, msg)
      /\ p.kind = "PUBLISH" /\ p.msg = msg => HasPublish(longer, msg)
  BY <1>1 DEF HasPublish
<1>. QED
  BY <1>2 DEF longer

\* A SUBSCRIBE in service keeps collecting what is retained under a topic it
\* selects, until it has handed it over.
LEMMA StartCollects ==
    ASSUME BrokerFits, NEW d \in Conns, NEW k, Serving(d, k), RetainStart(d), NEW t, NEW msg,
           msg.topic = t, NEW i \in DOMAIN plan[d][k].filters, t \in TopicNames,
           Matches(plan[d][k].filters[i].filter, t)
    PROVE  step'[d] = "check" /\ Collecting(d, msg)'
<1>1. /\ step \in [Conns -> Steps] /\ reply \in [Conns -> Seq(Packet)]
      /\ todo \in [Conns -> Seq(Subscription)] /\ unvisited \in [Conns -> SUBSET TopicNames]
      /\ request[d] = plan[d][k] /\ request[d] \in Request
      /\ found[d] = <<>>
  BY DEF BrokerFits, TypeInvariant, BrokerTypeOK, HandlersTypeOK, PlanFollowed, LocalsFit,
         RetainStart, Serves, Serving
<1> DEFINE filters == request[d].filters
<1>2. filters \in Seq(Subscription) /\ i \in DOMAIN filters /\ filters # <<>>
      /\ Matches(filters[i].filter, t)
  BY <1>1, RequestFields DEF RetainStart, Serves
<1>3. /\ CheckNext(d, filters, <<Ack("SUBACK", None)>>) /\ found' = found
  BY DEF RetainStart
<1> HIDE DEF filters
<1>4. /\ step'[d] = "check" /\ todo'[d] = filters /\ reply'[d] = <<Ack("SUBACK", None)>>
      /\ unvisited'[d] = check_topics(Head(filters).filter)
  BY <1>1, <1>2, <1>3 DEF CheckNext, Goto
<1>5. Only(d, msg)'
  <2>1. Len(reply'[d]) = 1 /\ DOMAIN found'[d] = {}
    BY <1>1, <1>3, <1>4
  <2>. QED
    BY <2>1 DEF Only
<1>6. ToCome(d, t)'
  <2>1. CASE i = 1
    <3>1. t \in unvisited'[d]
      BY <1>2, <1>4, <2>1, Beheaded DEF check_topics
    <3>. QED
      BY <3>1 DEF ToCome
  <2>2. CASE i # 1
    <3>1. i \in 2 .. Len(todo'[d])
      BY <1>2, <1>4, <2>2, LenProperties
    <3>. QED
      BY <1>2, <1>4, <3>1 DEF ToCome
  <2>. QED
    BY <2>1, <2>2
<1>. QED
  BY <1>4, <1>5, <1>6 DEF Collecting

LEMMA CheckCollects ==
    ASSUME BrokerFits, NEW d \in Conns, RetainCheck(d), NEW t \in TopicNames,
           NEW msg, msg = kvs[t], msg # None, Collecting(d, msg)
    PROVE  Collecting(d, msg)'
<1>1. /\ unvisited \in [Conns -> SUBSET TopicNames] /\ found \in [Conns -> Seq(Message)]
      /\ kvs \in [TopicNames -> Message \cup {None}]
      /\ msg.topic = t /\ step[d] = "check" /\ step' = step /\ todo' = todo /\ reply' = reply
  BY DEF BrokerFits, TypeInvariant, BrokerTypeOK, HandlersTypeOK, RetainTypeOK, StoreFits,
         RetainCheck
<1>2. Only(d, msg) /\ (ToCome(d, t) \/ InHand(d, msg))
  BY <1>1 DEF Collecting
<1>3. PICK u \in unvisited[d] :
          /\ unvisited' = [unvisited EXCEPT ![d] = @ \ {u}]
          /\ found' = [found EXCEPT ![d] = @ \o check_topic(u)]
  BY DEF RetainCheck
<1> DEFINE before == found[d]
           more == check_topic(u)
<1>4. u \in TopicNames /\ unvisited'[d] = unvisited[d] \ {u}
  BY <1>1, <1>3
<1>5. /\ more \in Seq(Message) /\ before \in Seq(Message)
      /\ \A i \in DOMAIN more : more[i] = kvs[u] /\ more[i].topic = u
      /\ kvs[u] # None => more = <<kvs[u]>>
  <2>1. kvs[u] # None => kvs[u].topic = u
    BY <1>4 DEF BrokerFits, StoreFits
  <2>. QED
    BY <1>1, <1>4, <2>1, EmptySeq DEF check_topic
<1>6. found' = [found EXCEPT ![d] = found[d] \o more]
  BY <1>3
<1> HIDE DEF more
<1>7. found'[d] = before \o more
  BY <1>1, <1>6
<1>8. /\ \A i \in DOMAIN before : before[i].topic = t => before[i] = msg
      /\ \A i \in 2 .. Len(reply[d]) : reply[d][i].msg.topic = t => reply[d][i].msg = msg
  BY <1>1, <1>2 DEF Only
<1> HIDE DEF before
<1> DEFINE after == found'[d]
<1>9. /\ \A i \in DOMAIN before : i \in DOMAIN after /\ after[i] = before[i]
      /\ \A i \in DOMAIN more : \E j \in DOMAIN after : after[j] = more[i]
      /\ \A i \in DOMAIN after : (i \in DOMAIN before /\ after[i] = before[i])
                                 \/ \E j \in DOMAIN more : after[i] = more[j]
  <2> DEFINE both == before \o more
  <2>1. /\ \A i \in DOMAIN before : i \in DOMAIN both /\ both[i] = before[i]
        /\ \A i \in DOMAIN more : Len(before) + i \in DOMAIN both
                                  /\ both[Len(before) + i] = more[i]
        /\ \A i \in DOMAIN both : \/ i \in DOMAIN before /\ both[i] = before[i]
                                  \/ \E j \in DOMAIN more : both[i] = more[j]
    BY <1>5, Joined
  <2>2. after = both
    BY <1>7
  <2> HIDE DEF both, after
  <2>. QED
    BY <2>1, <2>2
<1> HIDE DEF after
<1>10. \A i \in DOMAIN after : after[i].topic = t => after[i] = msg
  BY <1>5, <1>8, <1>9
<1>11. Only(d, msg)'
  BY <1>1, <1>8, <1>10 DEF Only, after
<1>12. CASE t \in unvisited[d] /\ u = t
  <2>1. more = <<msg>>
    BY <1>5, <1>12
  <2>2. 1 \in DOMAIN more /\ more[1] = msg
    BY <2>1
  <2>3. \E j \in DOMAIN after : after[j] = msg
    BY <1>9, <2>2
  <2>. QED
    BY <1>1, <1>11, <2>3 DEF Collecting, InHand, after
<1>13. CASE ToCome(d, t) /\ ~(t \in unvisited[d] /\ u = t)
  BY <1>1, <1>4, <1>11, <1>13 DEF Collecting, ToCome
<1>14. CASE InHand(d, msg)
  <2>1. HasPublish(reply[d], msg) \/ \E j \in DOMAIN after : after[j] = msg
    BY <1>9, <1>14 DEF InHand, before
  <2>. QED
    BY <1>1, <1>11, <2>1 DEF Collecting, InHand, after
<1>. QED
  BY <1>2, <1>12, <1>13, <1>14 DEF ToCome

LEMMA AnswerCollects ==
    ASSUME BrokerFits, NEW d \in Conns, RetainAnswer(d), NEW t, NEW msg, msg.topic = t,
           Collecting(d, msg)
    PROVE  Collecting(d, msg)'
<1>1. /\ found \in [Conns -> Seq(Message)] /\ reply \in [Conns -> Seq(Packet)]
      /\ step[d] = "check" /\ step' = step /\ todo' = todo /\ unvisited' = unvisited
      /\ found[d] # <<>> /\ found' = [found EXCEPT ![d] = Tail(@)]
      /\ \A i \in 2 .. Len(reply[d]) : reply[d][i].kind = "PUBLISH"
  BY DEF BrokerFits, TypeInvariant, BrokerTypeOK, HandlersTypeOK, LocalsFit, RetainAnswer
<1>2. Only(d, msg) /\ (ToCome(d, t) \/ InHand(d, msg))
  BY <1>1 DEF Collecting
<1> DEFINE first == Head(found[d])
           packet == Delivery(first, first.qos, first.pid)
           seen == \E i \in 2 .. Len(reply[d]) : reply[d][i].msg.topic = first.topic
           old == reply[d]
           new == reply'[d]
           before == found[d]
           after == found'[d]
<1>3. reply' = IF seen THEN reply ELSE [reply EXCEPT ![d] = Append(reply[d], packet)]
  BY DEF RetainAnswer
<1>4. first \in Message
  BY <1>1, HeadTailProperties
<1>5. packet \in Packet /\ packet.kind = "PUBLISH" /\ packet.msg = first
  BY <1>4, DeliveryType DEF Delivery
<1> HIDE DEF packet
<1>6. new = IF seen THEN old ELSE Append(old, packet)
  BY <1>1, <1>3
<1>7. /\ before \in Seq(Message) /\ before # <<>> /\ after = Tail(before) /\ first = Head(before)
      /\ old \in Seq(Packet)
  BY <1>1
<1>8. /\ \A i \in DOMAIN before : before[i].topic = t => before[i] = msg
      /\ \A i \in 2 .. Len(old) : old[i].msg.topic = t => old[i].msg = msg
      /\ \A i \in 2 .. Len(old) : old[i].kind = "PUBLISH"
  BY <1>1, <1>2 DEF Only
<1>9. seen <=> \E i \in 2 .. Len(old) : old[i].msg.topic = first.topic
  OBVIOUS
<1> HIDE DEF first, seen, old, new, before, after
<1>10. /\ first = before[1] /\ 1 \in DOMAIN before
       /\ \A i \in DOMAIN before : i = 1 \/ (i - 1 \in DOMAIN after /\ after[i - 1] = before[i])
       /\ \A i \in DOMAIN after : i + 1 \in DOMAIN before /\ after[i] = before[i + 1]
  BY <1>7, Beheaded
<1>11. \A i \in 2 .. Len(new) : new[i].msg.topic = t => new[i].msg = msg
  <2>1. CASE seen
    BY <1>6, <1>8, <2>1
  <2>2. CASE ~seen
    <3>1. /\ Len(new) = Len(old) + 1 /\ new[Len(old) + 1] = packet /\ Len(old) \in Nat
          /\ \A i \in 1 .. Len(old) : new[i] = old[i]
      BY <1>5, <1>6, <1>7, <2>2, AppendProperties, LenProperties
    <3>2. packet.msg.topic = t => packet.msg = msg
      BY <1>5, <1>8, <1>10
    <3>. QED
      BY <1>8, <3>1, <3>2
  <2>. QED
    BY <2>1, <2>2
<1>12. Only(d, msg)'
  <2>1. \A i \in DOMAIN after : after[i].topic = t => after[i] = msg
    BY <1>8, <1>10
  <2>. QED
    BY <1>11, <2>1 DEF Only, after, new
<1>13. HasPublish(old, msg) => HasPublish(new, msg)
  BY <1>5, <1>6, <1>7, HasPublishAppended
<1>14. ASSUME NEW i \in DOMAIN before, before[i] = msg
       PROVE  HasPublish(new, msg) \/ \E j \in DOMAIN after : after[j] = msg
  <2>1. CASE i # 1
    BY <1>10, <1>14, <2>1
  <2>2. CASE i = 1 /\ seen
    <3>1. PICK j \in 2 .. Len(old) : old[j].msg.topic = first.topic
      BY <1>9, <2>2
    <3>2. old[j].kind = "PUBLISH" /\ old[j].msg = msg
      BY <1>8, <1>10, <1>14, <2>2, <3>1
    <3>3. j \in DOMAIN old
      BY <1>7, LenProperties
    <3>. QED
      BY <1>13, <3>2, <3>3 DEF HasPublish
  <2>3. CASE i = 1 /\ ~seen
    <3>1. packet.msg = msg
      BY <1>5, <1>10, <1>14, <2>3
    <3>. QED
      BY <1>5, <1>6, <1>7, <2>3, <3>1, HasPublishAppended
  <2>. QED
    BY <2>1, <2>2, <2>3
<1>15. CASE ToCome(d, t)
  BY <1>1, <1>12, <1>15 DEF Collecting, ToCome
<1>16. CASE InHand(d, msg)
  <2>1. HasPublish(new, msg) \/ \E j \in DOMAIN after : after[j] = msg
    BY <1>13, <1>14, <1>16 DEF InHand, before, old
  <2>. QED
    BY <1>1, <1>12, <2>1 DEF Collecting, InHand, new, after
<1>. QED
  BY <1>2, <1>15, <1>16
LEMMA NextCollects ==
    ASSUME BrokerFits, NEW d \in Conns, RetainNext(d), NEW t \in TopicNames, NEW msg,
           msg.topic = t, Collecting(d, msg)
    PROVE  step'[d] \in {"check", "answer"} /\ Collecting(d, msg)'
<1>1. /\ step \in [Conns -> Steps] /\ reply \in [Conns -> Seq(Packet)]
      /\ todo \in [Conns -> Seq(Subscription)] /\ unvisited \in [Conns -> SUBSET TopicNames]
      /\ step[d] = "check" /\ unvisited[d] = {} /\ found[d] = <<>> /\ found' = found
      /\ CheckNext(d, Tail(todo[d]), reply[d])
      /\ todo[d] # <<>> /\ reply[d] # <<>>
  BY DEF BrokerFits, TypeInvariant, BrokerTypeOK, HandlersTypeOK, HandlerFits, RetainNext
<1>2. Only(d, msg) /\ (ToCome(d, t) \/ InHand(d, msg))
  BY <1>1 DEF Collecting
<1> DEFINE before == todo[d]
           rest == Tail(before)
<1>3. before \in Seq(Subscription) /\ before # <<>>
  BY <1>1
<1> HIDE DEF before
<1>4. /\ \A i \in DOMAIN before : i = 1 \/ (i - 1 \in DOMAIN rest /\ rest[i - 1] = before[i])
      /\ rest \in Seq(Subscription)
      /\ DOMAIN before = 1 .. Len(before) /\ DOMAIN rest = 1 .. Len(rest)
      /\ Len(before) \in Nat /\ Len(rest) \in Nat
  BY <1>3, Beheaded, HeadTailProperties, LenProperties
<1>5. CheckNext(d, rest, reply[d])
  BY <1>1 DEF before
<1>6. ToCome(d, t) => \E i \in 2 .. Len(before) : Matches(before[i].filter, t)
  BY <1>1 DEF ToCome, before
<1> HIDE DEF rest
<1>7. todo'[d] = rest
  BY <1>1, <1>5 DEF CheckNext
<1>8. reply'[d] = reply[d]
  BY <1>1, <1>5 DEF CheckNext, Return
<1>9. Only(d, msg)'
  BY <1>1, <1>2, <1>8 DEF Only
<1>10. InHand(d, msg) => HasPublish(reply[d], msg)
  BY <1>1 DEF InHand
<1>11. CASE rest = <<>>
  <2>1. step'[d] = "answer"
    BY <1>1, <1>5, <1>11 DEF CheckNext, Return, Goto
  <2>2. ~ToCome(d, t)
    BY <1>4, <1>6, <1>11
  <2>. QED
    BY <1>2, <1>8, <1>10, <2>1, <2>2 DEF Collecting
<1>12. CASE rest # <<>>
  <2>1. step'[d] = "check" /\ unvisited'[d] = check_topics(Head(rest).filter)
    BY <1>1, <1>5, <1>12 DEF CheckNext, Goto
  <2>2. ASSUME ToCome(d, t) PROVE ToCome(d, t)'
    <3>1. PICK i \in 2 .. Len(before) : Matches(before[i].filter, t)
      BY <1>6, <2>2
    <3>2. i - 1 \in DOMAIN rest /\ rest[i - 1] = before[i]
      BY <1>4
    <3>3. CASE i = 2
      <4>1. Head(rest) = rest[1]
        BY <1>4, <1>12, Beheaded
      <4>2. t \in unvisited'[d]
        BY <2>1, <3>1, <3>2, <3>3, <4>1 DEF check_topics
      <4>. QED
        BY <4>2 DEF ToCome
    <3>4. CASE i # 2
      <4>1. i - 1 \in 2 .. Len(rest)
        BY <1>4, <3>2, <3>4
      <4>. QED
        BY <1>7, <3>1, <3>2, <4>1 DEF ToCome
    <3>. QED
      BY <3>3, <3>4
  <2>. QED
    BY <1>2, <1>8, <1>9, <1>10, <2>1, <2>2 DEF Collecting, InHand
<1>. QED
  BY <1>11, <1>12

LEMMA EmitCollects ==
    ASSUME BrokerFits, NEW d \in Conns, Emit(d), NEW msg, Collecting(d, msg)
    PROVE  \/ HasPublish(out'[d], msg)
           \/ step'[d] = "answer" /\ Collecting(d, msg)'
<1>1. /\ step \in [Conns -> Steps] /\ reply \in [Conns -> Seq(Packet)]
      /\ out \in [Conns -> Seq(Packet)]
      /\ step[d] = "answer" /\ reply[d] # <<>>
      /\ out' = [out EXCEPT ![d] = Append(@, Head(reply[d]))]
      /\ Return(d, Tail(reply[d]))
  BY DEF BrokerFits, TypeInvariant, BrokerTypeOK, HandlersTypeOK, HandlerFits, Emit, Hand
<1>2. HasPublish(reply[d], msg)
  BY <1>1 DEF Collecting
<1> DEFINE before == reply[d]
           rest == Tail(before)
           first == Head(before)
<1>3. before \in Seq(Packet) /\ before # <<>> /\ HasPublish(before, msg)
  BY <1>1, <1>2
<1> HIDE DEF before
<1>4. /\ first = before[1] /\ first \in Packet /\ rest \in Seq(Packet)
      /\ \A i \in DOMAIN before : i = 1 \/ (i - 1 \in DOMAIN rest /\ rest[i - 1] = before[i])
  BY <1>3, Beheaded, HeadTailProperties
<1>5. Return(d, rest) /\ out' = [out EXCEPT ![d] = Append(out[d], first)]
  BY <1>1 DEF before
<1> HIDE DEF rest, first
<1>6. PICK i \in DOMAIN before : before[i].kind = "PUBLISH" /\ before[i].msg = msg
  BY <1>3 DEF HasPublish
<1>7. CASE i = 1
  <2>1. out'[d] = Append(out[d], first) /\ out[d] \in Seq(Packet)
    BY <1>1, <1>5
  <2>. QED
    BY <1>4, <1>6, <1>7, <2>1, HasPublishAppended
<1>8. CASE i # 1
  <2>1. HasPublish(rest, msg) /\ rest # <<>>
    BY <1>4, <1>6, <1>8 DEF HasPublish
  <2>2. step'[d] = "answer" /\ reply'[d] = rest
    BY <1>1, <1>5, <2>1 DEF Return, Goto
  <2>. QED
    BY <2>1, <2>2 DEF Collecting
<1>. QED
  BY <1>7, <1>8

LEMMA RetainedReachesStep ==
    BrokerFits /\ FiltersEntered /\ RetainedReaches /\ [Next]_vars => RetainedReaches'
<1> SUFFICES ASSUME BrokerFits, FiltersEntered, RetainedReaches, [Next]_vars,
                    NEW t \in TopicNames, (kvs[t] # None)', NEW d \in Conns,
                    (mqtt_id[d] # NoId)', NEW k \in Read(d)', Is(d, k, "SUBSCRIBE")',
                    NEW i \in (DOMAIN plan[d][k].filters)',
                    Matches(plan[d][k].filters[i].filter, t)'
             PROVE  Reaches(d, k, plan[d][k].filters[i].filter, kvs[t])'
  BY DEF RetainedReaches
<1>a. plan' = plan
  BY OwnStep DEF BrokerFits
<1>b. PICK mid, filter, msg :
          mid = mqtt_id'[d] /\ filter = plan[d][k].filters[i].filter /\ msg = kvs'[t]
  OBVIOUS
<1> SUFFICES \/ OnItsWay(mid, filter, msg)'
             \/ HasPublish(out'[d], msg)
             \/ Serving(d, k)' /\ Collecting(d, msg)'
             \/ CutShort(d, k)'
  BY <1>a, <1>b DEF Reaches, OnItsWay, Collecting, Only, InHand, ToCome
<1>c. /\ mid # NoId /\ msg # None /\ k \in 1 .. sent'[d] /\ plan[d][k].kind = "SUBSCRIBE"
      /\ i \in DOMAIN plan[d][k].filters /\ Matches(filter, t)
  BY <1>a, <1>b DEF Read, Is
<1>d. /\ TypeInvariant /\ PlanFollowed(d) /\ BrokerFits'
      /\ TypeInvariant' /\ PlanFollowed(d)' /\ plan'[d] = plan[d]
  BY <1>a, BrokerFitsStep DEF BrokerFits
<1>e. filter \in Filters
  <2>1. (plan[d][k].filters[i].filter \in Filters)'
    <3>1. (plan[d][k].kind = "SUBSCRIBE")' /\ i \in (DOMAIN plan[d][k].filters)'
          /\ k \in (1 .. sent[d])'
      BY <1>a, <1>c
    <3>2. /\ plan'[d] \in Seq(Request) /\ sent'[d] \in Nat /\ sent'[d] <= Len(plan'[d])
      BY <1>d, PlansAssumption DEF TypeInvariant, BrokerTypeOK, ClientsTypeOK, PlanFollowed
    <3>3. k \in 1 .. Len(plan'[d])
      BY <3>1, <3>2, LenProperties
    <3>4. plan'[d][k] \in Request
      BY <3>2, <3>3, ElementOfSeq
    <3>5. plan'[d][k].filters \in Seq(Subscription)
      BY <3>1, <3>4, RequestFields
    <3>6. plan'[d][k].filters[i] \in Subscription
      BY <3>1, <3>5
    <3>. QED
      BY <3>6 DEF Subscription
  <2>. QED
    BY <1>a, <1>b, <2>1
<1>1. CASE kvs'[t] # kvs[t]
  <2>1. PICK j \in DOMAIN tasks' :
            /\ tasks'[j].msg = msg /\ tasks'[j].stage = "visit"
            /\ tasks'[j].unvisited = subed_filters(t)
    BY <1>1, <1>b, <1>c, <1>d, NewlyRetained DEF BrokerFits
  <2>2. filter \in tasks'[j].unvisited
    BY <1>c, <1>e, <2>1 DEF subed_filters
  <2>3. OnItsWay(mid, filter, msg)'
    BY <2>1, <2>2 DEF OnItsWay
  <2>. QED
    BY <2>3
<1>2. CASE kvs'[t] = kvs[t]
  <2>0. msg = kvs[t] /\ msg.topic = t
    BY <1>2, <1>b, <1>c DEF BrokerFits, StoreFits
  \* What an earlier SUBSCRIBE was promised is still true, unless the service
  \* of that very request takes the step.
  <2>1. ASSUME k \in 1 .. sent[d], mqtt_id'[d] = mqtt_id[d]
        PROVE  \/ OnItsWay(mid, filter, msg)'
               \/ HasPublish(out'[d], msg)
               \/ Serving(d, k) /\ Collecting(d, msg)
               \/ CutShort(d, k)
    <3>1. Reaches(d, k, filter, msg)
      BY <1>b, <1>c, <2>0, <2>1 DEF RetainedReaches, Read, Is
    <3>2. Entered(filter, mid) \/ (Serving(d, k) /\ StillToDo(d, filter))
      BY <1>b, <1>c, <2>1 DEF FiltersEntered, Read, Is
    <3>3. CASE OnItsWay(mid, filter, msg) /\ Entered(filter, mid)
      BY <1>d, <1>e, <3>3, StaysOnItsWay
    <3>4. CASE Serving(d, k) /\ StillToDo(d, filter)
      BY <3>4 DEF StillToDo, Collecting
    <3>5. CASE HasPublish(out[d], msg)
      BY <1>d, <3>5, OutGrows
    <3>. QED
      BY <1>b, <2>1, <3>1, <3>2, <3>3, <3>4, <3>5 DEF Reaches
  <2>2. CASE Untouched(d)
    <3>1. k \in 1 .. sent[d] /\ mqtt_id'[d] = mqtt_id[d]
      BY <1>c, <2>2 DEF Untouched
    <3>2. Serving(d, k) /\ Collecting(d, msg) => Serving(d, k)' /\ Collecting(d, msg)'
      BY <2>2 DEF Untouched, Serving, Collecting, Only, ToCome, InHand
    <3>3. CutShort(d, k) => CutShort(d, k)'
      BY <2>2 DEF Untouched, CutShort
    <3>. QED
      BY <2>1, <3>1, <3>2, <3>3
  <2>3. CASE Client(d)
    <3>1. CASE mqtt_id'[d] = mqtt_id[d] /\ k \in 1 .. sent[d]
               /\ step[d] \notin {"serve", "check", "answer"}
      BY <1>d, <2>1, <2>3, <3>1, ClosedStays DEF Serving, CutShort
    <3>2. CASE k = sent'[d] /\ request'[d] = plan[d][k] /\ step'[d] = "serve"
               /\ todo'[d] = plan[d][k].filters
      BY <1>a, <1>c, <3>2 DEF Serving, Collecting
    <3>. QED
      BY <1>b, <1>c, <1>d, <2>3, <3>1, <3>2, NewlyRead
  <2>4. CASE Handler(d)
    <3>1. sent' = sent /\ mqtt_id' = mqtt_id /\ request' = request
      BY <1>d, <2>4, HandlerEffects
    <3>2. SUFFICES ASSUME Serving(d, k), Collecting(d, msg)
                   PROVE  \/ HasPublish(out'[d], msg)
                          \/ step'[d] \in {"serve", "check", "answer"} /\ Collecting(d, msg)'
                          \/ CutShort(d, k)'
      BY <1>c, <1>d, <2>1, <2>4, <3>1, ClosedStays DEF Serving, CutShort
    <3>3. CASE RegisterFilter(d)
      BY <3>3 DEF RegisterFilter, Serves, Collecting
    <3>4. CASE RetainStart(d)
      BY <1>b, <1>c, <2>0, <3>2, <3>4, StartCollects
    <3>5. CASE RetainCheck(d)
      <4>1. step' = step /\ step[d] = "check"
        BY <3>5 DEF RetainCheck
      <4>. QED
        BY <1>c, <2>0, <3>2, <3>5, <4>1, CheckCollects
    <3>6. CASE RetainAnswer(d)
      <4>1. step' = step /\ step[d] = "check"
        BY <3>6 DEF RetainAnswer
      <4>. QED
        BY <2>0, <3>2, <3>6, <4>1, AnswerCollects
    <3>7. CASE RetainNext(d)
      BY <2>0, <3>2, <3>7, NextCollects
    <3>8. CASE Emit(d)
      BY <3>2, <3>8, EmitCollects
    <3>9. CASE EmitClosed(d)
      <4>1. step[d] = "answer" /\ reply' = reply /\ Goto(d, "closed")
        BY <3>9 DEF EmitClosed
      <4>2. step'[d] = "closed"
        BY <1>d, <4>1 DEF Goto, TypeInvariant, BrokerTypeOK, HandlersTypeOK
      <4>3. reply[d] # <<>>
        BY <1>d, <4>1 DEF TypeInvariant, HandlerFits
      <4>. QED
        BY <3>1, <3>2, <4>1, <4>2, <4>3 DEF CutShort, Serving
    <3>. QED
      BY <2>4, <3>2, <3>3, <3>4, <3>5, <3>6, <3>7, <3>8, <3>9, SubscribeSteps
  <2>. QED
    BY <1>d, <2>2, <2>3, <2>4, OwnStep
<1>. QED
  BY <1>1, <1>2

LEMMA RetainInvariantInit == Init => RetainInvariant
<1> SUFFICES ASSUME Init PROVE RetainInvariant
  OBVIOUS
<1>1. \A c \in Conns : Read(c) = {}
  BY DEF Init, Read
<1>2. FiltersEntered /\ RetainedReaches
  BY <1>1 DEF FiltersEntered, RetainedReaches
<1>. QED
  BY <1>2, BrokerFitsInit DEF RetainInvariant

\* Once the tasks of a retained publish are done, who was on its way has been
\* sent to; and a SUBSCRIBE that has been served is not collecting any more.
LEMMA ReachedWhenFinished == RetainInvariant => NoMissedRetained
<1> SUFFICES ASSUME RetainInvariant, NEW t \in TopicNames, kvs[t] # None, Finished(kvs[t]),
                    NEW c \in Conns, NEW k \in Read(c), Served(c, k), mqtt_id[c] # NoId,
                    Subscribes(c, k, t)
             PROVE  Targeted(mqtt_id[c], kvs[t]) \/ HasPublish(out[c], kvs[t])
  BY DEF NoMissedRetained
<1>1. /\ BrokerFits /\ RetainedReaches /\ tasks \in Seq(Task)
      /\ sent[c] \in Nat /\ PlanFollowed(c)
  BY DEF RetainInvariant, BrokerFits, TypeInvariant, BrokerTypeOK, HandlersTypeOK, ClientsTypeOK
<1>2. PICK i \in DOMAIN plan[c][k].filters : Matches(plan[c][k].filters[i].filter, t)
  BY DEF Subscribes
<1>3. Reaches(c, k, plan[c][k].filters[i].filter, kvs[t])
  BY <1>1, <1>2 DEF RetainedReaches, Subscribes
<1>4. ~Serving(c, k)
  BY <1>1 DEF Served, Idle, Serving, Read
<1>6. ~CutShort(c, k)
  BY <1>1 DEF Served, Idle, CutShort, Read
<1>5. ASSUME OnItsWay(mqtt_id[c], plan[c][k].filters[i].filter, kvs[t])
      PROVE  Targeted(mqtt_id[c], kvs[t])
  <2>1. PICK j \in DOMAIN tasks :
            /\ tasks[j].msg = kvs[t]
            /\ \/ tasks[j].stage \in {"update", "visit"}
               \/ \E n \in DOMAIN tasks[j].targets : tasks[j].targets[n].mid = mqtt_id[c]
    BY <1>5 DEF OnItsWay
  <2>2. tasks[j].stage = "done" /\ tasks[j].next > Len(tasks[j].targets)
    BY <1>1, <2>1 DEF Finished, BrokerFits, TaskFits
  <2>3. PICK n \in DOMAIN tasks[j].targets : tasks[j].targets[n].mid = mqtt_id[c]
    BY <2>1, <2>2
  <2>4. tasks[j].targets \in Seq(Entry) /\ tasks[j].next \in Nat \ {0}
    BY <1>1, TaskFields
  <2>5. n \in 1 .. tasks[j].next - 1
    BY <2>2, <2>4, LenProperties
  <2>. QED
    BY <2>1, <2>3, <2>5 DEF Targeted
<1>. QED
  BY <1>3, <1>4, <1>5, <1>6 DEF Reaches

\* No subscriber misses what is retained, whatever clients plan and however
\* handlers, tasks and connections interleave: SUBSCRIBE registers its filters
\* before it reads RETAIN_STORE, and a publish is stored before its task reads
\* the subscriptions, so that one of the two finds the other.
THEOREM RetainedNotMissed == Spec => []NoMissedRetained
<1>1. RetainInvariant /\ [Next]_vars => RetainInvariant'
  BY BrokerFitsStep, FiltersEnteredStep, RetainedReachesStep DEF RetainInvariant
<1>. QED
  BY <1>1, RetainInvariantInit, ReachedWhenFinished, PTL DEF Spec
=============================================================================
