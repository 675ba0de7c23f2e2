---------------------------- MODULE ExchangeProofs ---------------------------
(***************************************************************************)
(* The QoS 2 exchanges of the broker, for every set of clients, topics,    *)
(* filters and packet identifiers, shared between clients or not: nothing  *)
(* is sent before it is released, whichever of the three ways out it takes *)
(* (a delivery task, the store, the answer to a SUBSCRIBE).                *)
(***************************************************************************)
EXTENDS BrokerProofs

-----------------------------------------------------------------------------
(* The inductive invariant *)

\* What was published so far; the packet ids some client has released; the
\* publishes that may be sent, and the packets that carry no other.
Published == {m \in Message : \E c \in Conns : \E k \in Read(c) : Publishes(c, k, m)}
Unlocked ==
    {p \in PacketIds : \E c \in Conns : \E k \in Read(c) : Is(c, k, "PUBREL") /\ plan[c][k].pid = p}
Cleared == {m \in Message : m.qos = 2 => m \in Published /\ m.pid \in Unlocked}
Sendable == {p \in Packet : p.kind = "PUBLISH" => p.msg \in Cleared}

\* What is staged was published, under the packet id it is staged for.
StagedFit ==
    \A p \in PacketIds : qos_tmp[p] # None => qos_tmp[p] \in Published /\ qos_tmp[p].pid = p

\* What is on its way to subscribers may be sent.
StoreCleared == \A t \in TopicNames : kvs[t] # None => kvs[t] \in Cleared
TasksCleared == \A i \in DOMAIN tasks : tasks[i].msg \in Cleared
ConnCleared(c) ==
    /\ request[c].kind = "PUBLISH" => request[c].msg \in Published
    /\ request[c].kind = "PUBREL" => request[c].pid \in Unlocked
    /\ step[c] = "release" => fetched[c] \in Cleared
    /\ found[c] \in Seq(Cleared)
    /\ reply[c] \in Seq(Sendable)
    /\ out[c] \in Seq(Sendable)

ExchangeInvariant ==
    /\ BrokerFits
    /\ StagedFit /\ StoreCleared /\ TasksCleared
    /\ \A c \in Conns : ConnCleared(c)

-----------------------------------------------------------------------------
(* What was published or released stays so *)

LEMMA ReadGrows ==
    ASSUME TypeInvariant, [Next]_vars, NEW c \in Conns
    PROVE  plan' = plan /\ Read(c) \subseteq Read(c)'
<1>1. sent \in [Conns -> Nat]
  BY DEF TypeInvariant, BrokerTypeOK, ClientsTypeOK
<1>2. sent'[c] = sent[c] \/ sent'[c] = sent[c] + 1
  <2>1. CASE Untouched(c)
    BY <2>1 DEF Untouched
  <2>2. CASE Client(c)
    BY <1>1, <2>2 DEF Client, Take, Close, Connect, ConnectRefused, Arrives, OwedArrives, clients
  <2>3. CASE Handler(c)
    BY <2>3, HandlerEffects
  <2>. QED
    BY <2>1, <2>2, <2>3, OwnStep
<1>3. sent[c] \in Nat
  BY <1>1
<1>. QED
  BY <1>2, <1>3, OwnStep DEF Read

LEMMA ClearedGrows ==
    ASSUME TypeInvariant, [Next]_vars
    PROVE  /\ Published \subseteq Published' /\ Unlocked \subseteq Unlocked'
           /\ Cleared \subseteq Cleared' /\ Sendable \subseteq Sendable'
<1>1. \A c \in Conns : plan'[c] = plan[c] /\ Read(c) \subseteq Read(c)'
  BY ReadGrows
<1>2. Published \subseteq Published'
  <2> SUFFICES ASSUME NEW m \in Published PROVE m \in Published'
    OBVIOUS
  <2>1. PICK c \in Conns : \E k \in Read(c) : Publishes(c, k, m)
    BY DEF Published
  <2>2. PICK k \in Read(c) : Publishes(c, k, m)
    BY <2>1
  <2>3. k \in Read(c)' /\ Publishes(c, k, m)'
    BY <1>1, <2>2 DEF Publishes, Is
  <2>. QED
    BY <2>3 DEF Published
<1>3. Unlocked \subseteq Unlocked'
  <2> SUFFICES ASSUME NEW p \in Unlocked PROVE p \in Unlocked'
    OBVIOUS
  <2>1. PICK c \in Conns : \E k \in Read(c) : Is(c, k, "PUBREL") /\ plan[c][k].pid = p
    BY DEF Unlocked
  <2>2. PICK k \in Read(c) : Is(c, k, "PUBREL") /\ plan[c][k].pid = p
    BY <2>1
  <2>3. k \in Read(c)' /\ (Is(c, k, "PUBREL") /\ plan[c][k].pid = p)'
    BY <1>1, <2>2 DEF Is
  <2>. QED
    BY <2>3 DEF Unlocked
<1>4. Cleared \subseteq Cleared'
  BY <1>2, <1>3 DEF Cleared
<1>. QED
  BY <1>2, <1>3, <1>4 DEF Sendable

\* A publish of QoS 0 or 1 needs no release; a fetched one has its own.
LEMMA ClearedWhen ==
    ASSUME NEW m \in Message
    PROVE  /\ m.qos < 2 => m \in Cleared
           /\ m \in Published /\ m.pid \in Unlocked => m \in Cleared
           /\ m \in Cleared /\ m.qos = 2 => m \in Published
           /\ m \in Cleared => \A qos \in QoS : \A pid \in DeliveryIds(m, qos) :
                                    Delivery(m, qos, pid) \in Sendable
           /\ m \in Cleared => Delivery(m, m.qos, m.pid) \in Sendable
<1>1. m.qos \in QoS
  BY MessageFields
<1>2. ASSUME m \in Cleared, NEW p \in Packet, p.msg = m PROVE p \in Sendable
  BY <1>2 DEF Sendable
<1>3. \A qos, pid : Delivery(m, qos, pid).msg = m
  BY DEF Delivery
<1>. QED
  BY <1>1, <1>2, <1>3, DeliveryType DEF Cleared, QoS

LEMMA AckSendable ==
    /\ \A kind \in {"CONNACK", "SUBACK"} : Ack(kind, None) \in Sendable
    /\ \A kind \in {"PUBACK", "PUBREC", "PUBREL", "PUBCOMP"}, pid \in PacketIds :
            Ack(kind, pid) \in Sendable
<1>1. \A kind, pid : Ack(kind, pid).kind = kind
  BY DEF Ack
<1>. QED
  BY <1>1, AckType DEF Sendable

-----------------------------------------------------------------------------
(* Who stages, and who finds *)

LEMMA StagingEffects ==
    ASSUME TypeInvariant, NEW c \in Conns, Handler(c)
    PROVE  \/ UNCHANGED qos_tmp
           \/ PublishStage(c) \/ RetainAnswer(c)
           \/ request[c].kind \in {"PUBREL", "PUBCOMP"} /\ commit_packet(request[c].pid)
<1> USE DEF maps, sessionVars
<1>1. CASE RegisterMqttId(c) \/ SetVersion(c) \/ Disconnect(c) \/ Ignore(c) \/ ConnectAgain(c)
  BY <1>1 DEF RegisterMqttId, SetVersion, Disconnect, Ignore, ConnectAgain
<1>2. CASE Pubrec(c) \/ Pubcomp(c)
  BY <1>2 DEF Pubrec, Pubcomp, Serves
<1>3. CASE PublishEmpty(c) \/ PublishSpawn(c) \/ PublishStage(c)
  BY <1>3 DEF PublishEmpty, PublishSpawn
<1>4. CASE PubrelFetch(c) \/ PubrelUnstaged(c) \/ PubrelRelease(c)
  BY <1>4 DEF PubrelFetch, PubrelUnstaged, PubrelRelease
<1>5. CASE PubrelCommit(c)
  BY <1>5 DEF PubrelCommit, TypeInvariant, HandlerFits
<1>6. CASE RegisterFilter(c) \/ RetainStart(c) \/ RetainCheck(c) \/ RetainNext(c)
  BY <1>6 DEF RegisterFilter, RetainStart, RetainCheck, RetainNext
<1>7. CASE Emit(c) \/ EmitClosed(c)
  BY <1>7 DEF Emit, EmitClosed
<1>. QED
  BY <1>1, <1>2, <1>3, <1>4, <1>5, <1>6, <1>7 DEF Handler

LEMMA StagedFitStep == ExchangeInvariant /\ [Next]_vars => StagedFit'
<1> SUFFICES ASSUME ExchangeInvariant, [Next]_vars PROVE StagedFit'
  OBVIOUS
<1>1. /\ TypeInvariant /\ StagedFit /\ \A c \in Conns : ConnCleared(c)
      /\ qos_tmp \in [PacketIds -> Message \cup {None}]
      /\ found \in [Conns -> Seq(Message)] /\ request \in [Conns -> Request]
      /\ Published \subseteq Published'
  BY ClearedGrows
  DEF ExchangeInvariant, BrokerFits, TypeInvariant, BrokerTypeOK, SessionTypeOK, HandlersTypeOK
<1>2. ASSUME UNCHANGED qos_tmp PROVE StagedFit'
  BY <1>1, <1>2 DEF StagedFit
<1>3. ASSUME NEW m \in Message, m \in Published, add_staging_packet(m) PROVE StagedFit'
  BY <1>1, <1>3 DEF StagedFit, add_staging_packet
<1>4. ASSUME NEW p, commit_packet(p) PROVE StagedFit'
  BY <1>1, <1>4 DEF StagedFit, commit_packet
<1>5. ASSUME NEW c \in Conns, Client(c) PROVE UNCHANGED qos_tmp
  BY <1>1, <1>5, ClientEffects DEF maps, sessionVars
<1>6. ASSUME NEW i \in DOMAIN tasks, Delivering(i) PROVE UNCHANGED qos_tmp
  BY <1>6, TaskEffects DEF sessionVars
<1>7. ASSUME NEW c \in Conns, Handler(c) PROVE StagedFit'
  <2>1. CASE PublishStage(c)
    <3>1. /\ request[c].kind = "PUBLISH" /\ request[c] \in Request
          /\ add_staging_packet(request[c].msg)
      BY <1>1, <2>1 DEF PublishStage, Serves
    <3>2. request[c].msg \in Message /\ request[c].msg \in Published
      BY <1>1, <3>1, RequestFields DEF ConnCleared
    <3>. QED
      BY <1>3, <3>1, <3>2
  <2>2. CASE RetainAnswer(c)
    <3> DEFINE msg == Head(found[c])
    <3>1. found[c] # <<>> /\ (UNCHANGED qos_tmp \/ (msg.qos = 2 /\ add_staging_packet(msg)))
      BY <2>2 DEF RetainAnswer
    <3>2. found[c] \in Seq(Cleared)
      BY <1>1 DEF ConnCleared
    <3>3. msg \in Cleared
      BY <3>1, <3>2, HeadTailProperties
    <3> HIDE DEF msg
    <3>4. msg \in Message
      BY <3>3 DEF Cleared
    <3>. QED
      BY <1>2, <1>3, <3>1, <3>3, <3>4, ClearedWhen
  <2>. QED
    BY <1>1, <1>2, <1>4, <1>7, <2>1, <2>2, StagingEffects
<1>8. CASE UNCHANGED vars
  BY <1>2, <1>8 DEF vars, maps, sessionVars
<1>. QED
  BY <1>2, <1>5, <1>6, <1>7, <1>8 DEF Next

-----------------------------------------------------------------------------
(* The store and the tasks *)

LEMMA StoreClearedStep == ExchangeInvariant /\ [Next]_vars => StoreCleared'
<1> SUFFICES ASSUME ExchangeInvariant, [Next]_vars PROVE StoreCleared'
  OBVIOUS
<1>1. /\ TypeInvariant /\ StoreCleared /\ TasksCleared /\ \A c \in Conns : ConnCleared(c)
      /\ kvs \in [TopicNames -> Message \cup {None}]
      /\ Cleared \subseteq Cleared'
  BY ClearedGrows
  DEF ExchangeInvariant, BrokerFits, TypeInvariant, BrokerTypeOK, RetainTypeOK
<1>2. ASSUME UNCHANGED kvs PROVE StoreCleared'
  BY <1>1, <1>2 DEF StoreCleared
<1>3. ASSUME NEW m \in Cleared, update_retain(m) PROVE StoreCleared'
  BY <1>1, <1>3 DEF StoreCleared, update_retain
<1>4. ASSUME NEW t, remove_retain(t) PROVE StoreCleared'
  BY <1>1, <1>4 DEF StoreCleared, remove_retain
<1>5. ASSUME NEW c \in Conns, Client(c) PROVE UNCHANGED kvs
  BY <1>1, <1>5, ClientEffects DEF maps
<1>6. ASSUME NEW c \in Conns, Handler(c) PROVE StoreCleared'
  <2>1. CASE PublishEmpty(c)
    BY <1>2, <1>4, <2>1 DEF PublishEmpty
  <2>2. CASE PubrelRelease(c)
    <3>1. fetched[c] \in Cleared
      BY <1>1, <2>2 DEF PubrelRelease, ConnCleared
    <3>. QED
      BY <1>2, <1>3, <2>2, <3>1 DEF PubrelRelease
  <2>. QED
    BY <1>1, <1>2, <1>6, <2>1, <2>2, HandlerEffects
<1>7. ASSUME NEW i \in DOMAIN tasks, Delivering(i) PROVE StoreCleared'
  <2>1. CASE TaskUpdate(i)
    BY <1>1, <1>3, <2>1 DEF TaskUpdate, TasksCleared
  <2>. QED
    BY <1>2, <1>7, <2>1, TaskEffects
<1>8. CASE UNCHANGED vars
  BY <1>2, <1>8 DEF vars, maps
<1>. QED
  BY <1>2, <1>5, <1>6, <1>7, <1>8 DEF Next

LEMMA TasksClearedStep == ExchangeInvariant /\ [Next]_vars => TasksCleared'
<1> SUFFICES ASSUME ExchangeInvariant, [Next]_vars PROVE TasksCleared'
  OBVIOUS
<1>1. /\ TypeInvariant /\ TasksCleared /\ \A c \in Conns : ConnCleared(c)
      /\ tasks \in Seq(Task) /\ request \in [Conns -> Request]
      /\ Cleared \subseteq Cleared'
  BY ClearedGrows DEF ExchangeInvariant, BrokerFits, TypeInvariant, BrokerTypeOK, HandlersTypeOK
<1>2. ASSUME UNCHANGED tasks PROVE TasksCleared'
  BY <1>1, <1>2 DEF TasksCleared
<1>3. ASSUME NEW m \in Cleared, NEW stage \in {"update", "visit"}, Spawn(m, stage)
      PROVE  TasksCleared'
  <2>1. m \in Message
    BY DEF Cleared
  <2>. QED
    BY <1>1, <1>3, <2>1, Spawned DEF TasksCleared
<1>4. ASSUME NEW c \in Conns, Client(c) PROVE UNCHANGED tasks
  BY <1>1, <1>4, ClientEffects
<1>5. ASSUME NEW c \in Conns, Handler(c) PROVE TasksCleared'
  <2>1. CASE PublishSpawn(c)
    <3> DEFINE msg == request[c].msg
    <3>1. /\ request[c].kind = "PUBLISH" /\ msg.qos < 2
          /\ Spawn(msg, IF msg.retain THEN "update" ELSE "visit")
      BY <2>1 DEF PublishSpawn, Serves
    <3>2. msg \in Message
      BY <1>1, <3>1, RequestFields
    <3> HIDE DEF msg
    <3>. QED
      BY <1>3, <3>1, <3>2, ClearedWhen
  <2>2. CASE PubrelRelease(c)
    <3>1. fetched[c] \in Cleared /\ Spawn(fetched[c], "visit")
      BY <1>1, <2>2 DEF PubrelRelease, ConnCleared
    <3>. QED
      BY <1>3, <3>1
  <2>. QED
    BY <1>1, <1>2, <1>5, <2>1, <2>2, HandlerEffects
<1>6. ASSUME NEW i \in DOMAIN tasks, Delivering(i) PROVE TasksCleared'
  <2>1. /\ DOMAIN tasks' = DOMAIN tasks
        /\ \A j \in DOMAIN tasks \ {i} : tasks'[j] = tasks[j]
        /\ tasks'[i].msg = tasks[i].msg
    BY <1>1, <1>6, Delivers
  <2>2. \A j \in DOMAIN tasks' : tasks'[j].msg = tasks[j].msg
    BY <2>1
  <2>. QED
    BY <1>1, <2>1, <2>2 DEF TasksCleared
<1>7. CASE UNCHANGED vars
  BY <1>2, <1>7 DEF vars
<1>. QED
  BY <1>2, <1>4, <1>5, <1>6, <1>7 DEF Next

-----------------------------------------------------------------------------
(* The connections *)

\* What a handler starts to serve was read from the client's plan, or is owed.
LEMMA TakenCleared ==
    ASSUME ExchangeInvariant, [Next]_vars, NEW c \in Conns, Client(c), request'[c] # request[c]
    PROVE  /\ request'[c].kind = "PUBLISH" => request'[c].msg \in Published'
           /\ request'[c].kind = "PUBREL" => request'[c].pid \in Unlocked'
<1>1. /\ TypeInvariant /\ PlanFollowed(c) /\ plan' = plan
      /\ request \in [Conns -> Request] /\ request' \in [Conns -> Request]
      /\ sent \in [Conns -> Nat]
  BY TypeStep, OwnStep
  DEF ExchangeInvariant, BrokerFits, TypeInvariant, BrokerTypeOK, HandlersTypeOK, ClientsTypeOK
<1>2. PICK r : /\ Arrives(c, r) \/ OwedArrives(c, r)
               /\ request' = [request EXCEPT ![c] = r]
  BY DEF Client, Take, Close, Connect, ConnectRefused
<1>3. request'[c] = r /\ r \in Request
  BY <1>1, <1>2
<1>4. CASE OwedArrives(c, r)
  <2>1. owed[c] \in Seq(Request) /\ owed[c] # <<>> /\ r = Head(owed[c])
    BY <1>1, <1>4 DEF OwedArrives, TypeInvariant, BrokerTypeOK, ClientsTypeOK
  <2>2. r.kind \in {"PUBREC", "PUBCOMP"}
    BY <1>1, <2>1, Beheaded DEF PlanFollowed, OwedFits
  <2>. QED
    BY <1>3, <2>2
<1>5. CASE Arrives(c, r)
  <2>1. sent'[c] = sent[c] + 1 /\ r = plan'[c][sent'[c]] /\ sent[c] \in Nat
    BY <1>1, <1>5 DEF Arrives
  <2>2. sent'[c] \in Read(c)'
    BY <2>1 DEF Read
  <2>3. ASSUME r.kind = "PUBLISH" PROVE r.msg \in Published'
    <3>1. r.msg \in Message
      BY <1>3, <2>3, RequestFields
    <3>2. Publishes(c, sent[c], r.msg)'
      BY <2>1, <2>3 DEF Publishes, Is
    <3>. QED
      BY <2>2, <3>1, <3>2 DEF Published
  <2>4. ASSUME r.kind = "PUBREL" PROVE r.pid \in Unlocked'
    <3>1. r.pid \in PacketIds
      BY <1>3, <2>4, RequestFields
    <3>2. (Is(c, sent[c], "PUBREL") /\ plan[c][sent[c]].pid = r.pid)'
      BY <2>1, <2>4 DEF Is
    <3>. QED
      BY <2>2, <3>1, <3>2 DEF Unlocked
  <2>. QED
    BY <1>3, <2>3, <2>4
<1>. QED
  BY <1>2, <1>4, <1>5

\* The fields of a connection, step by step: the request is replaced only by
\* a client's step, and the rest by the handler's own.
LEMMA ReleaseFetched ==
    ASSUME ExchangeInvariant, NEW c \in Conns, Handler(c), step'[c] = "release"
    PROVE  fetched'[c] \in Cleared
<1>1. /\ TypeInvariant /\ StagedFit /\ ConnCleared(c)
      /\ step \in [Conns -> Steps] /\ request \in [Conns -> Request]
      /\ fetched \in [Conns -> Message \cup {None}]
      /\ qos_tmp \in [PacketIds -> Message \cup {None}]
  BY DEF ExchangeInvariant, BrokerFits, TypeInvariant, BrokerTypeOK, HandlersTypeOK, SessionTypeOK
<1> USE DEF Return, Goto
<1>2. CASE PubrelFetch(c)
  <2>1. /\ request[c].kind = "PUBREL" /\ request[c].pid \in PacketIds
        /\ fetched'[c] = qos_tmp[request[c].pid] /\ qos_tmp[request[c].pid] # None
    BY <1>1, <1>2, RequestFields DEF PubrelFetch, Serves, fetch_packet
  <2>2. /\ fetched'[c] \in Published /\ fetched'[c].pid \in Unlocked
    BY <1>1, <2>1 DEF StagedFit, ConnCleared
  <2>3. fetched'[c] \in Message
    BY <1>1, <2>1
  <2>. QED
    BY <2>2, <2>3, ClearedWhen
<1>3. ~(RegisterMqttId(c) \/ SetVersion(c) \/ Disconnect(c) \/ Ignore(c) \/ ConnectAgain(c))
  BY <1>1 DEF RegisterMqttId, SetVersion, Disconnect, Ignore, ConnectAgain
<1>4. ~(Pubrec(c) \/ Pubcomp(c) \/ PublishEmpty(c) \/ PublishSpawn(c) \/ PublishStage(c))
  BY <1>1 DEF Pubrec, Pubcomp, PublishEmpty, PublishSpawn, PublishStage
<1>5. ~(PubrelUnstaged(c) \/ PubrelRelease(c) \/ PubrelCommit(c))
  BY <1>1 DEF PubrelUnstaged, PubrelRelease, PubrelCommit
<1>6. ~(RegisterFilter(c) \/ RetainStart(c) \/ RetainCheck(c) \/ RetainAnswer(c) \/ RetainNext(c))
  BY <1>1 DEF RegisterFilter, RetainStart, RetainCheck, RetainAnswer, RetainNext, CheckNext, Serves
<1>7. ~(Emit(c) \/ EmitClosed(c))
  BY <1>1 DEF Emit, EmitClosed
<1>. QED
  BY <1>2, <1>3, <1>4, <1>5, <1>6, <1>7 DEF Handler

\* What SUBSCRIBE finds is in the store.
LEMMA FoundCleared ==
    ASSUME ExchangeInvariant, NEW c \in Conns, Handler(c)
    PROVE  found'[c] \in Seq(Cleared)
<1>1. /\ TypeInvariant /\ StoreCleared /\ found[c] \in Seq(Cleared)
      /\ found \in [Conns -> Seq(Message)]
      /\ unvisited \in [Conns -> SUBSET TopicNames]
  BY DEF ExchangeInvariant, ConnCleared, BrokerFits, TypeInvariant, BrokerTypeOK, HandlersTypeOK
<1>2. CASE RetainCheck(c)
  <2>1. PICK t \in unvisited[c] : found' = [found EXCEPT ![c] = @ \o check_topic(t)]
    BY <1>2 DEF RetainCheck
  <2> DEFINE more == check_topic(t)
  <2>2. more \in Seq(Cleared)
    BY <1>1 DEF check_topic, StoreCleared
  <2>3. found[c] \o more \in Seq(Cleared)
    BY <1>1, <2>2, ConcatProperties
  <2> HIDE DEF more
  <2>4. found'[c] = found[c] \o more
    BY <1>1, <2>1 DEF more
  <2>. QED
    BY <2>3, <2>4
<1>3. CASE RetainAnswer(c)
  <2>1. found[c] # <<>> /\ found'[c] = Tail(found[c])
    BY <1>1, <1>3 DEF RetainAnswer
  <2>. QED
    BY <1>1, <2>1, HeadTailProperties
<1>4. found' = found \/ RetainCheck(c) \/ RetainAnswer(c)
  <2> USE DEF locals
  <2>1. CASE RegisterMqttId(c) \/ SetVersion(c) \/ Disconnect(c) \/ Ignore(c) \/ ConnectAgain(c)
    BY <2>1 DEF RegisterMqttId, SetVersion, Disconnect, Ignore, ConnectAgain
  <2>2. CASE Pubrec(c) \/ Pubcomp(c) \/ PublishEmpty(c) \/ PublishSpawn(c) \/ PublishStage(c)
    BY <2>2 DEF Pubrec, Pubcomp, PublishEmpty, PublishSpawn, PublishStage
  <2>3. CASE PubrelFetch(c) \/ PubrelUnstaged(c) \/ PubrelRelease(c) \/ PubrelCommit(c)
    BY <2>3 DEF PubrelFetch, PubrelUnstaged, PubrelRelease, PubrelCommit
  <2>4. CASE RegisterFilter(c) \/ RetainStart(c) \/ RetainNext(c) \/ Emit(c) \/ EmitClosed(c)
    BY <2>4 DEF RegisterFilter, RetainStart, RetainNext, Emit, EmitClosed
  <2>. QED
    BY <2>1, <2>2, <2>3, <2>4 DEF Handler
<1>. QED
  BY <1>1, <1>2, <1>3, <1>4

LEMMA AnswersSendable ==
    ASSUME NEW m \in Message
    PROVE  Answers(m) \in Seq(Sendable)
<1>1. CASE m.qos = 0
  BY <1>1, EmptySeq DEF Answers
<1>2. CASE m.qos = 1
  <2>1. Ack("PUBACK", m.pid) \in Sendable
    BY <1>2, MessageFields, AckSendable
  <2>. QED
    BY <1>2, <2>1 DEF Answers
<1>3. CASE m.qos = 2
  <2>1. Ack("PUBREC", m.pid) \in Sendable
    BY <1>3, MessageFields, AckSendable
  <2>. QED
    BY <1>3, <2>1 DEF Answers
<1>. QED
  BY <1>1, <1>2, <1>3, MessageFields DEF QoS

\* An answer is made of acknowledgements and of what was found.
LEMMA ReplyCleared ==
    ASSUME ExchangeInvariant, NEW c \in Conns, Handler(c)
    PROVE  reply'[c] \in Seq(Sendable)
<1>1. /\ TypeInvariant /\ ConnCleared(c) /\ HandlerFits(c)
      /\ reply \in [Conns -> Seq(Packet)] /\ request[c] \in Request
      /\ reply[c] \in Seq(Sendable)
  BY DEF ExchangeInvariant, ConnCleared, BrokerFits, TypeInvariant, BrokerTypeOK, HandlersTypeOK
<1>2. ASSUME NEW packets, Return(c, packets) PROVE reply'[c] = packets
  BY <1>1, <1>2 DEF Return
<1>3. ASSUME NEW p \in Sendable, Return(c, <<p>>) PROVE reply'[c] \in Seq(Sendable)
  <2>1. <<p>> \in Seq(Sendable)
    OBVIOUS
  <2>2. reply'[c] = <<p>>
    BY <1>2, <1>3
  <2>. QED
    BY <2>1, <2>2
<1>4. ASSUME Return(c, <<>>) PROVE reply'[c] \in Seq(Sendable)
  BY <1>2, <1>4, EmptySeq
<1>5. CASE SetVersion(c)
  BY <1>3, <1>5, AckSendable DEF SetVersion
<1>6. CASE Disconnect(c) \/ Ignore(c) \/ Pubcomp(c)
  BY <1>4, <1>6 DEF Disconnect, Ignore, Pubcomp
<1>7. CASE Pubrec(c)
  BY <1>1, <1>3, <1>7, AckSendable, RequestFields DEF Pubrec, Serves
<1>8. CASE PublishEmpty(c) \/ PublishSpawn(c) \/ PublishStage(c)
  <2>1. request[c].kind = "PUBLISH" /\ Return(c, Answers(request[c].msg))
    BY <1>8 DEF PublishEmpty, PublishSpawn, PublishStage, Serves
  <2>2. request[c].msg \in Message
    BY <1>1, <2>1, RequestFields
  <2>. QED
    BY <1>2, <2>1, <2>2, AnswersSendable
<1>9. CASE PubrelUnstaged(c) \/ PubrelCommit(c)
  <2>1. request[c].kind = "PUBREL" /\ Return(c, <<Ack("PUBCOMP", request[c].pid)>>)
    BY <1>1, <1>9 DEF PubrelUnstaged, PubrelCommit, HandlerFits
  <2>2. request[c].pid \in PacketIds
    BY <1>1, <2>1, RequestFields
  <2>. QED
    BY <1>3, <2>1, <2>2, AckSendable
<1>10. ASSUME NEW filters, NEW packets \in Seq(Sendable), CheckNext(c, filters, packets)
       PROVE  reply'[c] \in Seq(Sendable)
  BY <1>1, <1>2, <1>10 DEF CheckNext
<1>11. CASE RetainStart(c)
  <2>1. <<Ack("SUBACK", None)>> \in Seq(Sendable)
    BY AckSendable
  <2>. QED
    BY <1>10, <1>11, <2>1 DEF RetainStart
<1>12. CASE RetainNext(c)
  BY <1>1, <1>10, <1>12 DEF RetainNext
<1>13. CASE RetainAnswer(c)
  <2> DEFINE msg == Head(found[c])
             packet == Delivery(msg, msg.qos, msg.pid)
  <2>1. found[c] # <<>> /\ found[c] \in Seq(Cleared)
    BY <1>1, <1>13 DEF RetainAnswer, ConnCleared
  <2>2. msg \in Cleared
    BY <2>1, HeadTailProperties
  <2>3. reply' = reply \/ reply' = [reply EXCEPT ![c] = Append(reply[c], packet)]
    BY <1>13 DEF RetainAnswer
  <2>4. packet \in Sendable
    <3> HIDE DEF msg
    <3>1. msg \in Message
      BY <2>2 DEF Cleared
    <3>. QED
      BY <2>2, <3>1, ClearedWhen
  <2> HIDE DEF packet
  <2>. QED
    BY <1>1, <2>3, <2>4
<1>14. CASE Emit(c)
  <2>1. reply[c] # <<>> /\ Return(c, Tail(reply[c]))
    BY <1>1, <1>14 DEF Emit, HandlerFits
  <2>. QED
    BY <1>1, <1>2, <2>1, HeadTailProperties
<1>15. CASE EmitClosed(c) \/ ConnectAgain(c) \/ RegisterMqttId(c) \/ RegisterFilter(c)
  BY <1>1, <1>15 DEF EmitClosed, ConnectAgain, RegisterMqttId, RegisterFilter
<1>16. CASE PubrelFetch(c) \/ PubrelRelease(c) \/ RetainCheck(c)
  BY <1>1, <1>16 DEF PubrelFetch, PubrelRelease, RetainCheck
<1>. QED
  BY <1>5, <1>6, <1>7, <1>8, <1>9, <1>11, <1>12, <1>13, <1>14, <1>15, <1>16 DEF Handler

\* What a connection is sent: the first packet of its answer, or a task's copy.
LEMMA OutCleared ==
    ASSUME ExchangeInvariant, [Next]_vars, NEW d \in Conns
    PROVE  out'[d] \in Seq(Sendable)
<1>1. /\ TypeInvariant /\ TasksCleared /\ tasks \in Seq(Task) /\ TopicTypeOK /\ SessionTypeOK
      /\ out \in [Conns -> Seq(Packet)]
      /\ \A c \in Conns : /\ reply[c] \in Seq(Sendable) /\ out[c] \in Seq(Sendable)
                          /\ HandlerFits(c)
  BY DEF ExchangeInvariant, ConnCleared, BrokerFits, TypeInvariant, BrokerTypeOK, HandlersTypeOK
<1>2. ASSUME NEW c, NEW p \in Sendable, out' = [out EXCEPT ![c] = Append(@, p)]
      PROVE  out'[d] \in Seq(Sendable)
  <2>1. Append(out[d], p) \in Seq(Sendable)
    BY <1>1
  <2>. QED
    BY <1>1, <1>2, <2>1
<1>3. ASSUME UNCHANGED out PROVE out'[d] \in Seq(Sendable)
  BY <1>1, <1>3
<1>4. ASSUME NEW c \in Conns, Client(c) PROVE UNCHANGED out
  BY <1>1, <1>4, ClientEffects
<1>5. ASSUME NEW c \in Conns, Handler(c) PROVE out'[d] \in Seq(Sendable)
  <2>1. CASE Emit(c) \/ EmitClosed(c)
    <3>1. reply[c] # <<>> /\ out' = [out EXCEPT ![c] = Append(@, Head(reply[c]))]
      BY <1>1, <2>1 DEF Emit, EmitClosed, Hand, HandlerFits
    <3>2. Head(reply[c]) \in Sendable
      BY <1>1, <3>1, HeadTailProperties
    <3>. QED
      BY <1>2, <3>1, <3>2
  <2>. QED
    BY <1>1, <1>3, <1>5, <2>1, HandlerEffects
<1>6. ASSUME NEW i \in DOMAIN tasks, Delivering(i) PROVE out'[d] \in Seq(Sendable)
  <2>1. CASE TaskSend(i)
    <3> DEFINE entry == tasks[i].targets[tasks[i].next]
               c == by_mqtt_id[entry.mid]
    <3>1. tasks[i] \in Task /\ tasks[i].msg \in Cleared
      BY <1>1 DEF TasksCleared
    <3>2. entry \in Entry
      BY <2>1, <3>1, TaskFields, ElementOfSeq DEF TaskSend
    <3>3. entry.qos \in QoS /\ tasks[i].msg \in Message
      BY <3>1, <3>2, TaskFields DEF Entry
    <3>4. \/ UNCHANGED out
          \/ \E pid \in DeliveryIds(tasks[i].msg, entry.qos) :
                out' = [out EXCEPT ![c] = Append(@, Delivery(tasks[i].msg, entry.qos, pid))]
      BY <2>1 DEF TaskSend, Hand, sending
    <3> HIDE DEF entry, c
    <3>. QED
      BY <1>2, <1>3, <3>1, <3>3, <3>4, ClearedWhen
  <2>. QED
    BY <1>3, <1>6, <2>1, TaskEffects
<1>7. CASE UNCHANGED vars
  BY <1>3, <1>7 DEF vars, sending
<1>. QED
  BY <1>3, <1>4, <1>5, <1>6, <1>7 DEF Next

\* A handler keeps what it fetched to itself.
LEMMA FetchedElsewhere ==
    ASSUME TypeInvariant, [Next]_vars, NEW d \in Conns, ~Handler(d)
    PROVE  fetched'[d] = fetched[d]
<1>1. fetched \in [Conns -> Message \cup {None}]
  BY DEF TypeInvariant, BrokerTypeOK, HandlersTypeOK
<1>2. ASSUME NEW c \in Conns, Handler(c) PROVE fetched' = fetched \/ PubrelFetch(c)
  <2> USE DEF locals
  <2>1. CASE RegisterMqttId(c) \/ SetVersion(c) \/ Disconnect(c) \/ Ignore(c) \/ ConnectAgain(c)
    BY <2>1 DEF RegisterMqttId, SetVersion, Disconnect, Ignore, ConnectAgain
  <2>2. CASE Pubrec(c) \/ Pubcomp(c) \/ PublishEmpty(c) \/ PublishSpawn(c) \/ PublishStage(c)
    BY <2>2 DEF Pubrec, Pubcomp, PublishEmpty, PublishSpawn, PublishStage
  <2>3. CASE PubrelUnstaged(c) \/ PubrelRelease(c) \/ PubrelCommit(c)
    BY <2>3 DEF PubrelUnstaged, PubrelRelease, PubrelCommit
  <2>4. CASE RegisterFilter(c) \/ RetainStart(c) \/ RetainCheck(c) \/ RetainAnswer(c)
             \/ RetainNext(c) \/ Emit(c) \/ EmitClosed(c)
    BY <2>4 DEF RegisterFilter, RetainStart, RetainCheck, RetainAnswer, RetainNext, Emit, EmitClosed
  <2>. QED
    BY <1>2, <2>1, <2>2, <2>3, <2>4 DEF Handler
<1>3. ASSUME NEW c \in Conns, PubrelFetch(c), c # d PROVE fetched'[d] = fetched[d]
  BY <1>1, <1>3 DEF PubrelFetch
<1>4. ASSUME NEW c \in Conns, Client(c) PROVE fetched' = fetched
  BY <1>4, ClientEffects
<1>5. ASSUME NEW i \in DOMAIN tasks, Delivering(i) PROVE fetched' = fetched
  BY <1>5, TaskEffects DEF locals
<1>6. CASE UNCHANGED vars
  BY <1>6 DEF vars, locals
<1>. QED
  BY <1>2, <1>3, <1>4, <1>5, <1>6 DEF Next

LEMMA ConnClearedStep ==
    ASSUME ExchangeInvariant, [Next]_vars, NEW d \in Conns
    PROVE  ConnCleared(d)'
<1>1. /\ TypeInvariant /\ ConnCleared(d) /\ request \in [Conns -> Request]
      /\ step \in [Conns -> Steps] /\ fetched \in [Conns -> Message \cup {None}]
      /\ Published \subseteq Published' /\ Unlocked \subseteq Unlocked'
      /\ Cleared \subseteq Cleared' /\ Sendable \subseteq Sendable'
  BY ClearedGrows DEF ExchangeInvariant, BrokerFits, TypeInvariant, BrokerTypeOK, HandlersTypeOK
<1>2. out'[d] \in Seq(Sendable')
  BY <1>1, OutCleared, SeqMonotonic
<1>3. ASSUME request'[d] = request[d]
      PROVE  /\ request'[d].kind = "PUBLISH" => request'[d].msg \in Published'
             /\ request'[d].kind = "PUBREL" => request'[d].pid \in Unlocked'
  BY <1>1, <1>3 DEF ConnCleared
<1>4. ASSUME found'[d] \in Seq(Cleared), reply'[d] \in Seq(Sendable)
      PROVE  found'[d] \in Seq(Cleared') /\ reply'[d] \in Seq(Sendable')
  BY <1>1, <1>4, SeqMonotonic
<1>5. found[d] \in Seq(Cleared) /\ reply[d] \in Seq(Sendable)
  BY <1>1 DEF ConnCleared
<1>6. CASE Handler(d)
  <2>1. request' = request
    BY <1>1, <1>6, HandlerEffects
  <2>2. found'[d] \in Seq(Cleared) /\ reply'[d] \in Seq(Sendable)
    BY <1>6, FoundCleared, ReplyCleared
  <2>3. step'[d] = "release" => fetched'[d] \in Cleared'
    BY <1>1, <1>6, ReleaseFetched
  <2>. QED
    BY <1>2, <1>3, <1>4, <2>1, <2>2, <2>3 DEF ConnCleared
<1>7. CASE Client(d)
  <2>1. found' = found /\ reply' = reply /\ fetched' = fetched
    BY <1>1, <1>7, ClientEffects
  <2>2. step'[d] # "release"
    BY <1>1, <1>7 DEF Client, Take, Close, Connect, ConnectRefused, Goto
  <2>. QED
    BY <1>2, <1>3, <1>4, <1>5, <1>7, <2>1, <2>2, TakenCleared DEF ConnCleared
<1>8. CASE Untouched(d) /\ ~Handler(d) /\ ~Client(d)
  <2>1. found'[d] = found[d] /\ reply'[d] = reply[d] /\ step'[d] = step[d]
        /\ request'[d] = request[d]
    BY <1>8 DEF Untouched
  <2>2. fetched'[d] = fetched[d]
    BY <1>1, <1>8, FetchedElsewhere
  <2>3. step'[d] = "release" => fetched'[d] \in Cleared'
    BY <1>1, <2>1, <2>2 DEF ConnCleared
  <2>. QED
    BY <1>2, <1>3, <1>4, <1>5, <2>1, <2>3 DEF ConnCleared
<1>. QED
  BY <1>1, <1>6, <1>7, <1>8, OwnStep

-----------------------------------------------------------------------------
LEMMA ExchangeInvariantInit == Init => ExchangeInvariant
<1> SUFFICES ASSUME Init PROVE ExchangeInvariant
  OBVIOUS
<1>1. StagedFit /\ StoreCleared /\ TasksCleared
  BY DEF Init, SessionInit, RetainInit, StagedFit, StoreCleared, TasksCleared
<1>2. \A c \in Conns : ConnCleared(c)
  BY EmptySeq DEF Init, NoRequest, ConnCleared
<1>. QED
  BY <1>1, <1>2, BrokerFitsInit DEF ExchangeInvariant

LEMMA ExchangeInvariantStep == ExchangeInvariant /\ [Next]_vars => ExchangeInvariant'
<1> SUFFICES ASSUME ExchangeInvariant, [Next]_vars PROVE ExchangeInvariant'
  OBVIOUS
<1>1. BrokerFits'
  BY BrokerFitsStep DEF ExchangeInvariant
<1>2. StagedFit' /\ StoreCleared' /\ TasksCleared'
  BY StagedFitStep, StoreClearedStep, TasksClearedStep
<1>3. \A c \in Conns : ConnCleared(c)'
  BY ConnClearedStep
<1>. QED
  BY <1>1, <1>2, <1>3 DEF ExchangeInvariant

LEMMA ClearedIsReleased == ExchangeInvariant => SentWhenReleased
<1> SUFFICES ASSUME ExchangeInvariant, NEW c \in Conns, NEW i \in DOMAIN out[c],
                    out[c][i].kind = "PUBLISH", out[c][i].msg.qos = 2
             PROVE  Released(out[c][i].msg)
  BY DEF SentWhenReleased
<1>1. out[c][i] \in Sendable
  BY DEF ExchangeInvariant, ConnCleared
<1>2. PICK m : m = out[c][i].msg
  OBVIOUS
<1>3. m \in Published /\ m.pid \in Unlocked
  BY <1>1, <1>2 DEF Sendable, Cleared
<1>4. \E d \in Conns : \E k \in Read(d) : Publishes(d, k, m)
  BY <1>3 DEF Published
<1>5. \E d \in Conns : \E k \in Read(d) : Is(d, k, "PUBREL") /\ plan[d][k].pid = m.pid
  BY <1>3 DEF Unlocked
<1>. QED
  BY <1>2, <1>4, <1>5 DEF Released

\* No connection is sent a QoS 2 publish, by a task, out of the store or in
\* answer to a SUBSCRIBE, before some client has released its packet id
\* (SESSION_MANAGER.add_staging_packet and the PUBREL service of broker.rs),
\* whatever clients plan and whichever of them share packet ids.
THEOREM SentOnlyWhenReleased == Spec => []SentWhenReleased
  BY ExchangeInvariantInit, ExchangeInvariantStep, ClearedIsReleased, PTL DEF Spec
=============================================================================
