------------------------------- MODULE Broker -------------------------------
(***************************************************************************)
(* The broker application (examples/broker.rs): its connect service, the   *)
(* service of each packet and the delivery tasks it spawns, over the maps  *)
(* every connection shares: SessionManager, RetainStore, TopicManager.     *)
(*                                                                         *)
(* A connection is used through the discipline of RequestReply, which      *)
(* Connection implements: one request at a time, its answers in order.     *)
(* Handlers of different connections and the delivery tasks run on         *)
(* different threads; each action is one operation on one shared map, or   *)
(* one packet handed to a response channel.                                *)
(***************************************************************************)
EXTENDS SessionManager, RetainStore, TopicManager, SequencesExt

CONSTANTS
    Plans,          \* what the clients may set out to send
    MaxRefusals     \* bound on the packets the response channels refuse

ASSUME PlansAssumption == Plans \subseteq [Conns -> Seq(Request)]
ASSUME RefusalsAssumption == MaxRefusals \in Nat

VARIABLES
    plan, sent,     \* the requests of each client, and how many were read
    owed,           \* QoS 2 handshake packets each client owes the broker
    step,           \* where each connection is
    request,        \* the request it serves
    mqtt_id,        \* the identifier its client gave
    todo, unvisited, found, fetched,    \* the handlers' locals
    reply,          \* what is left of the answer
    out,            \* the packets handed to each connection's channel
    refusals,       \* how many of them a channel refused, full or closed
    tasks           \* the delivery tasks, in the order they were spawned

clients == <<plan, sent, owed>>
locals == <<todo, unvisited, found, fetched>>
maps == <<sessionVars, kvs, topic_map>>
sending == <<out, refusals>>
vars == <<clients, step, request, mqtt_id, locals, reply, sending, tasks, maps>>

Steps == {"new", "register", "version", "reading", "serve", "check", "unstaged",
          "release", "commit", "answer", "closed"}

NoRequest == [kind |-> "OTHER"]

\* One delivery task: filters still to look up, then targets still to send to.
Task == [msg : Message, stage : {"update", "visit", "send", "done"},
         unvisited : SUBSET Filters, targets : Seq(Entry), next : Nat \ {0}]

ClientsTypeOK ==
    /\ plan \in Plans
    /\ sent \in [Conns -> Nat]
    /\ owed \in [Conns -> Seq(Request)]

HandlersTypeOK ==
    /\ step \in [Conns -> Steps]
    /\ request \in [Conns -> Request]
    /\ mqtt_id \in [Conns -> MqttIds]
    /\ todo \in [Conns -> Seq(Subscription)]
    /\ unvisited \in [Conns -> SUBSET TopicNames]
    /\ found \in [Conns -> Seq(Message)]
    /\ fetched \in [Conns -> Message \cup {None}]
    /\ reply \in [Conns -> Seq(Packet)]
    /\ out \in [Conns -> Seq(Packet)]
    /\ refusals \in Nat
    /\ tasks \in Seq(Task)

BrokerTypeOK ==
    /\ SessionTypeOK
    /\ RetainTypeOK
    /\ TopicTypeOK
    /\ ClientsTypeOK
    /\ HandlersTypeOK

Init ==
    /\ SessionInit
    /\ RetainInit
    /\ TopicInit
    /\ plan \in Plans
    /\ sent = [c \in Conns |-> 0]
    /\ owed = [c \in Conns |-> <<>>]
    /\ step = [c \in Conns |-> "new"]
    /\ request = [c \in Conns |-> NoRequest]
    /\ mqtt_id = [c \in Conns |-> NoId]
    /\ todo = [c \in Conns |-> <<>>]
    /\ unvisited = [c \in Conns |-> {}]
    /\ found = [c \in Conns |-> <<>>]
    /\ fetched = [c \in Conns |-> None]
    /\ reply = [c \in Conns |-> <<>>]
    /\ out = [c \in Conns |-> <<>>]
    /\ refusals = 0
    /\ tasks = <<>>

-----------------------------------------------------------------------------
(* Clients and connections *)

Goto(c, s) == step' = [step EXCEPT ![c] = s]

\* The next planned request of c arrives.
Arrives(c, r) ==
    /\ sent[c] < Len(plan[c])
    /\ r = plan[c][sent[c] + 1]
    /\ sent' = [sent EXCEPT ![c] = @ + 1]
    /\ UNCHANGED <<plan, owed>>

\* A handshake packet arrives instead.
OwedArrives(c, r) ==
    /\ owed[c] # <<>>
    /\ r = Head(owed[c])
    /\ owed' = [owed EXCEPT ![c] = Tail(@)]
    /\ UNCHANGED <<plan, sent>>

Requests(c) ==
    {plan[c][i] : i \in {sent[c] + 1} \cap DOMAIN plan[c]}
    \cup {owed[c][i] : i \in {1} \cap DOMAIN owed[c]}

\* What c owes the broker for a packet that reached it.
Owes(p) ==
    CASE p.kind = "PUBLISH" /\ p.qos = 2 -> <<[kind |-> "PUBREC", pid |-> p.pid]>>
      [] p.kind = "PUBREL" -> <<[kind |-> "PUBCOMP", pid |-> p.pid]>>
      [] OTHER -> <<>>

\* try_send: the channel of c takes the packet, or it is full or closed and
\* the packet is lost.
Accepts(c, p) ==
    /\ owed' = [owed EXCEPT ![c] = @ \o Owes(p)]
    /\ UNCHANGED refusals
Refuses ==
    /\ refusals < MaxRefusals
    /\ refusals' = refusals + 1
    /\ UNCHANGED owed

Hand(c, p) ==
    /\ out' = [out EXCEPT ![c] = Append(@, p)]
    /\ Accepts(c, p) \/ Refuses
    /\ UNCHANGED <<plan, sent>>

\* A request of an established connection reaches the service.
Take(c) ==
    /\ step[c] = "reading"
    /\ \E r \in Requests(c) :
        /\ Arrives(c, r) \/ OwedArrives(c, r)
        /\ request' = [request EXCEPT ![c] = r]
        /\ todo' = [todo EXCEPT ![c] = IF r.kind = "SUBSCRIBE" THEN r.filters ELSE <<>>]
    /\ Goto(c, "serve")
    /\ UNCHANGED <<mqtt_id, unvisited, found, fetched, reply, sending, tasks, maps>>

\* End of file or a read error; not noticed while a request is served.
Close(c) ==
    /\ step[c] \in {"new", "reading"}
    /\ Goto(c, "closed")
    /\ UNCHANGED <<clients, request, mqtt_id, locals, reply, sending, tasks, maps>>

\* The handler returned these packets; none of them is NOOPERATION's.
Return(c, packets) ==
    /\ reply' = [reply EXCEPT ![c] = packets]
    /\ Goto(c, IF packets = <<>> THEN "reading" ELSE "answer")

\* The connection goes on behind a packet that a full channel refused.
Emit(c) ==
    /\ step[c] = "answer"
    /\ Hand(c, Head(reply[c]))
    /\ Return(c, Tail(reply[c]))
    /\ UNCHANGED <<request, mqtt_id, locals, tasks, maps>>

\* A closed channel ends it, with the rest of the answer.
EmitClosed(c) ==
    /\ step[c] = "answer"
    /\ Refuses
    /\ out' = [out EXCEPT ![c] = Append(@, Head(reply[c]))]
    /\ Goto(c, "closed")
    /\ UNCHANGED <<plan, sent, request, mqtt_id, locals, reply, tasks, maps>>

-----------------------------------------------------------------------------
(* The connect service *)

Connect(c) ==
    /\ step[c] = "new"
    /\ \E r \in Requests(c) :
        /\ Arrives(c, r)
        /\ r.kind = "CONNECT"
        /\ mqtt_id' = [mqtt_id EXCEPT ![c] = r.mid]
        /\ request' = [request EXCEPT ![c] = r]
    /\ Goto(c, "register")
    /\ UNCHANGED <<locals, reply, sending, tasks, maps>>

\* Another first packet, or a protocol name and level that do not go together.
ConnectRefused(c) ==
    /\ step[c] = "new"
    /\ \E r \in Requests(c) :
        /\ Arrives(c, r)
        /\ r.kind # "CONNECT"
        /\ request' = [request EXCEPT ![c] = r]
    /\ Goto(c, "closed")
    /\ UNCHANGED <<mqtt_id, locals, reply, sending, tasks, maps>>

RegisterMqttId(c) ==
    /\ step[c] = "register"
    /\ register_mqtt_id(mqtt_id[c], c)
    /\ Goto(c, "version")
    /\ UNCHANGED <<clients, request, mqtt_id, locals, reply, sending, tasks,
                   mqtt_version, qos_tmp, kvs, topic_map>>

\* Mutant: the protocol version is not recorded.
SetVersionForgotten(c) ==
    /\ step[c] = "version"
    /\ Return(c, <<Ack("CONNACK", None)>>)
    /\ UNCHANGED <<clients, request, mqtt_id, locals, sending, tasks, maps>>

SetVersion(c) ==
    /\ step[c] = "version"
    /\ set_protocol_version(mqtt_id[c])
    /\ Return(c, <<Ack("CONNACK", None)>>)
    /\ UNCHANGED <<clients, request, mqtt_id, locals, sending, tasks,
                   by_mqtt_id, qos_tmp, kvs, topic_map>>

-----------------------------------------------------------------------------
(* The services of DISCONNECT, of the handshake packets, and of the rest *)

Serves(c, kind) == step[c] = "serve" /\ request[c].kind = kind

\* An empty identifier was registered like any other, and is not removed.
Disconnect(c) ==
    /\ Serves(c, "DISCONNECT")
    /\ IF mqtt_id[c] # NoId THEN unregister_mqtt_id(mqtt_id[c]) ELSE UNCHANGED by_mqtt_id
    /\ Return(c, <<>>)
    /\ UNCHANGED <<clients, request, mqtt_id, locals, sending, tasks,
                   mqtt_version, qos_tmp, kvs, topic_map>>

Ignore(c) ==
    /\ Serves(c, "OTHER")
    /\ Return(c, <<>>)
    /\ UNCHANGED <<clients, request, mqtt_id, locals, sending, tasks, maps>>

\* A second CONNECT is an error: the connection ends.
ConnectAgain(c) ==
    /\ Serves(c, "CONNECT") \/ Serves(c, "CONNECT_BAD")
    /\ Goto(c, "closed")
    /\ UNCHANGED <<clients, request, mqtt_id, locals, reply, sending, tasks, maps>>

Pubrec(c) ==
    /\ Serves(c, "PUBREC")
    /\ Return(c, <<Ack("PUBREL", request[c].pid)>>)
    /\ UNCHANGED <<clients, request, mqtt_id, locals, sending, tasks, maps>>

Pubcomp(c) ==
    /\ Serves(c, "PUBCOMP")
    /\ commit_packet(request[c].pid)
    /\ Return(c, <<>>)
    /\ UNCHANGED <<clients, request, mqtt_id, locals, sending, tasks,
                   by_mqtt_id, mqtt_version, kvs, topic_map>>

-----------------------------------------------------------------------------
(* The service of PUBLISH *)

Answers(msg) ==
    CASE msg.qos = 0 -> <<>>
      [] msg.qos = 1 -> <<Ack("PUBACK", msg.pid)>>
      [] msg.qos = 2 -> <<Ack("PUBREC", msg.pid)>>

Spawn(msg, stage) ==
    tasks' = Append(tasks, [msg |-> msg, stage |-> stage, targets |-> <<>>, next |-> 1,
                            unvisited |-> subed_filters(msg.topic)])

\* An empty payload clears the retained message; nothing is delivered.
PublishEmpty(c) ==
    /\ Serves(c, "PUBLISH")
    /\ LET msg == request[c].msg IN
        /\ msg.empty
        /\ IF msg.retain THEN remove_retain(msg.topic) ELSE UNCHANGED kvs
        /\ Return(c, Answers(msg))
    /\ UNCHANGED <<clients, request, mqtt_id, locals, sending, tasks, sessionVars, topic_map>>

\* Mutant: QoS 2 takes the same way.
PublishSpawnAny(c) ==
    /\ Serves(c, "PUBLISH")
    /\ LET msg == request[c].msg IN
        /\ ~msg.empty
        /\ Spawn(msg, IF msg.retain THEN "update" ELSE "visit")
        /\ Return(c, Answers(msg))
    /\ UNCHANGED <<clients, request, mqtt_id, locals, sending, maps>>

\* QoS 0 and 1: a task stores and delivers, whenever it comes to run.
PublishSpawn(c) ==
    /\ Serves(c, "PUBLISH")
    /\ LET msg == request[c].msg IN
        /\ ~msg.empty /\ msg.qos < 2
        /\ Spawn(msg, IF msg.retain THEN "update" ELSE "visit")
        /\ Return(c, Answers(msg))
    /\ UNCHANGED <<clients, request, mqtt_id, locals, sending, maps>>

\* Mutant: a retained publish is stored before it is released.
PublishStageRetains(c) ==
    /\ Serves(c, "PUBLISH")
    /\ LET msg == request[c].msg IN
        /\ ~msg.empty /\ msg.qos = 2
        /\ add_staging_packet(msg)
        /\ IF msg.retain THEN update_retain(msg) ELSE UNCHANGED kvs
        /\ Return(c, Answers(msg))
    /\ UNCHANGED <<clients, request, mqtt_id, locals, sending, tasks,
                   by_mqtt_id, mqtt_version, topic_map>>

PublishStage(c) ==
    /\ Serves(c, "PUBLISH")
    /\ LET msg == request[c].msg IN
        /\ ~msg.empty /\ msg.qos = 2
        /\ add_staging_packet(msg)
        /\ Return(c, Answers(msg))
    /\ UNCHANGED <<clients, request, mqtt_id, locals, sending, tasks,
                   by_mqtt_id, mqtt_version, kvs, topic_map>>

-----------------------------------------------------------------------------
(* The service of PUBREL: fetch, release, commit *)

PubrelFetch(c) ==
    /\ Serves(c, "PUBREL")
    /\ fetched' = [fetched EXCEPT ![c] = fetch_packet(request[c].pid)]
    /\ Goto(c, IF fetch_packet(request[c].pid) = None THEN "unstaged" ELSE "release")
    /\ UNCHANGED <<clients, request, mqtt_id, todo, unvisited, found, reply, sending,
                   tasks, maps>>

\* Nothing is staged: the exchange is completed all the same.
PubrelUnstaged(c) ==
    /\ step[c] = "unstaged"
    /\ Return(c, <<Ack("PUBCOMP", request[c].pid)>>)
    /\ UNCHANGED <<clients, request, mqtt_id, locals, sending, tasks, maps>>

\* What was staged is not empty: PublishEmpty and the retained messages of
\* RetainCheck never stage an empty payload.
PubrelRelease(c) ==
    /\ step[c] = "release"
    /\ IF fetched[c].retain THEN update_retain(fetched[c]) ELSE UNCHANGED kvs
    /\ Spawn(fetched[c], "visit")
    /\ Goto(c, "commit")
    /\ UNCHANGED <<clients, request, mqtt_id, locals, reply, sending, sessionVars, topic_map>>

PubrelCommit(c) ==
    /\ step[c] = "commit"
    /\ commit_packet(request[c].pid)
    /\ Return(c, <<Ack("PUBCOMP", request[c].pid)>>)
    /\ UNCHANGED <<clients, request, mqtt_id, locals, sending, tasks,
                   by_mqtt_id, mqtt_version, kvs, topic_map>>

-----------------------------------------------------------------------------
(* The service of SUBSCRIBE: register every filter, then collect what is   *)
(* retained under each                                                     *)

RegisterFilter(c) ==
    /\ Serves(c, "SUBSCRIBE")
    /\ mqtt_id[c] # NoId
    /\ todo[c] # <<>>
    /\ register(Head(todo[c]).filter, mqtt_id[c], Head(todo[c]).qos)
    /\ todo' = [todo EXCEPT ![c] = Tail(@)]
    /\ UNCHANGED <<clients, step, request, mqtt_id, unvisited, found, fetched, reply,
                   sending, tasks, sessionVars, kvs>>

\* Start on the first of `filters`, or answer if none is left.
CheckNext(c, filters, packets) ==
    /\ todo' = [todo EXCEPT ![c] = filters]
    /\ IF filters = <<>>
       THEN Return(c, packets) /\ UNCHANGED unvisited
       ELSE /\ unvisited' = [unvisited EXCEPT ![c] = check_topics(Head(filters).filter)]
            /\ reply' = [reply EXCEPT ![c] = packets]
            /\ Goto(c, "check")

RetainStart(c) ==
    /\ Serves(c, "SUBSCRIBE")
    /\ mqtt_id[c] = NoId \/ todo[c] = <<>>
    /\ CheckNext(c, request[c].filters, <<Ack("SUBACK", None)>>)
    /\ UNCHANGED <<clients, request, mqtt_id, found, fetched, sending, tasks, maps>>

RetainCheck(c) ==
    /\ step[c] = "check"
    /\ \E t \in unvisited[c] :
        /\ unvisited' = [unvisited EXCEPT ![c] = @ \ {t}]
        /\ found' = [found EXCEPT ![c] = @ \o check_topic(t)]
    /\ UNCHANGED <<clients, step, request, mqtt_id, todo, fetched, reply, sending, tasks, maps>>

\* A topic found under an earlier filter is not sent twice; a QoS 2 message is
\* staged again under the packet id it was published with.
RetainAnswer(c) ==
    /\ step[c] = "check"
    /\ unvisited[c] = {}
    /\ found[c] # <<>>
    /\ LET msg == Head(found[c])
           seen == \E i \in 2 .. Len(reply[c]) : reply[c][i].msg.topic = msg.topic
       IN /\ reply' = IF seen THEN reply
                      ELSE [reply EXCEPT ![c] = Append(@, Delivery(msg, msg.qos, msg.pid))]
          /\ IF ~seen /\ msg.qos = 2 THEN add_staging_packet(msg) ELSE UNCHANGED qos_tmp
    /\ found' = [found EXCEPT ![c] = Tail(@)]
    /\ UNCHANGED <<clients, step, request, mqtt_id, todo, unvisited, fetched, sending, tasks,
                   by_mqtt_id, mqtt_version, kvs, topic_map>>

RetainNext(c) ==
    /\ step[c] = "check"
    /\ unvisited[c] = {}
    /\ found[c] = <<>>
    /\ CheckNext(c, Tail(todo[c]), reply[c])
    /\ UNCHANGED <<clients, request, mqtt_id, found, fetched, sending, tasks, maps>>

-----------------------------------------------------------------------------
(* A delivery task *)

TaskUpdate(i) ==
    /\ tasks[i].stage = "update"
    /\ update_retain(tasks[i].msg)
    /\ tasks' = [tasks EXCEPT ![i].stage = "visit"]
    /\ UNCHANGED <<clients, step, request, mqtt_id, locals, reply, sending, sessionVars, topic_map>>

TaskVisit(i) ==
    /\ tasks[i].stage = "visit"
    /\ \E f \in tasks[i].unvisited :
        tasks' = [tasks EXCEPT ![i].unvisited = @ \ {f},
                               ![i].targets = @ \o subed_of(f)]
    /\ UNCHANGED <<clients, step, request, mqtt_id, locals, reply, sending, maps>>

TaskVisited(i) ==
    /\ tasks[i].stage = "visit"
    /\ tasks[i].unvisited = {}
    /\ tasks' = [tasks EXCEPT ![i].stage = "send"]
    /\ UNCHANGED <<clients, step, request, mqtt_id, locals, reply, sending, maps>>

\* A publish without a packet id is given a random one.
DeliveryIds(msg, qos) ==
    CASE qos = 0 -> {None}
      [] qos > 0 /\ msg.pid # None -> {msg.pid}
      [] qos > 0 /\ msg.pid = None -> PacketIds

\* Mutant: the task gives up at the first delivery that fails.
TaskSendStops(i) ==
    /\ tasks[i].stage = "send"
    /\ tasks[i].next <= Len(tasks[i].targets)
    /\ LET entry == tasks[i].targets[tasks[i].next]
           c == by_mqtt_id[entry.mid]
       IN IF c = None
          THEN UNCHANGED <<sending, owed, plan, sent>>
          ELSE \E pid \in DeliveryIds(tasks[i].msg, entry.qos) :
                    Hand(c, Delivery(tasks[i].msg, entry.qos, pid))
    /\ tasks' = IF refusals' = refusals THEN [tasks EXCEPT ![i].next = @ + 1]
                                       ELSE [tasks EXCEPT ![i].stage = "done"]
    /\ UNCHANGED <<step, request, mqtt_id, locals, reply, maps>>

\* send_by_mqtt_id holds the map's lock while it sends; without an entry it
\* returns Ok.  An error is printed, and the task goes on to the next target.
TaskSend(i) ==
    /\ tasks[i].stage = "send"
    /\ tasks[i].next <= Len(tasks[i].targets)
    /\ LET entry == tasks[i].targets[tasks[i].next]
           c == by_mqtt_id[entry.mid]
       IN IF c = None
          THEN UNCHANGED <<sending, owed, plan, sent>>
          ELSE \E pid \in DeliveryIds(tasks[i].msg, entry.qos) :
                    Hand(c, Delivery(tasks[i].msg, entry.qos, pid))
    /\ tasks' = [tasks EXCEPT ![i].next = @ + 1]
    /\ UNCHANGED <<step, request, mqtt_id, locals, reply, maps>>

TaskDone(i) ==
    /\ tasks[i].stage = "send"
    /\ tasks[i].next > Len(tasks[i].targets)
    /\ tasks' = [tasks EXCEPT ![i].stage = "done"]
    /\ UNCHANGED <<clients, step, request, mqtt_id, locals, reply, sending, maps>>

-----------------------------------------------------------------------------
Client(c) == Take(c) \/ Close(c) \/ Connect(c) \/ ConnectRefused(c)

Handler(c) ==
    \/ RegisterMqttId(c) \/ SetVersion(c)
    \/ Disconnect(c) \/ Ignore(c) \/ ConnectAgain(c) \/ Pubrec(c) \/ Pubcomp(c)
    \/ PublishEmpty(c) \/ PublishSpawn(c) \/ PublishStage(c)
    \/ PubrelFetch(c) \/ PubrelUnstaged(c) \/ PubrelRelease(c) \/ PubrelCommit(c)
    \/ RegisterFilter(c) \/ RetainStart(c) \/ RetainCheck(c) \/ RetainAnswer(c)
    \/ RetainNext(c)
    \/ Emit(c) \/ EmitClosed(c)

Delivering(i) ==
    TaskUpdate(i) \/ TaskVisit(i) \/ TaskVisited(i) \/ TaskSend(i) \/ TaskDone(i)

Next ==
    \/ \E c \in Conns : Client(c) \/ Handler(c)
    \/ \E i \in DOMAIN tasks : Delivering(i)

Spec == Init /\ [][Next]_vars

\* The runtime runs handlers and tasks to their end; clients do as they like.
Tasks == \E i \in DOMAIN tasks : Delivering(i)
Fairness == WF_vars(Tasks) /\ \A c \in Conns : WF_vars(Handler(c))
FairSpec == Spec /\ Fairness
-----------------------------------------------------------------------------
(* Properties *)

Read(c) == 1 .. sent[c]
Idle(c) == step[c] \in {"reading", "closed"} /\ reply[c] = <<>>

\* The k-th request of c has been served (or, if it is the last one read and c
\* serves something else, the first time this can be told); the channel was
\* not closed in the middle of its answer.
Served(c, k) == k \in Read(c) /\ (k < sent[c] \/ Idle(c))

Messages ==
    LET published(requests) ==
            {requests[k].msg : k \in {j \in DOMAIN requests : requests[j].kind = "PUBLISH"}}
    IN UNION {UNION {published(p[c]) : c \in Conns} : p \in Plans}

Is(c, k, kind) == plan[c][k].kind = kind
Publishes(c, k, msg) == Is(c, k, "PUBLISH") /\ plan[c][k].msg = msg
Subscribes(c, k, topic) ==
    /\ Is(c, k, "SUBSCRIBE")
    /\ \E i \in DOMAIN plan[c][k].filters : Matches(plan[c][k].filters[i].filter, topic)

\* A client is about to use this name; c is closed, or has said that it leaves.
CONNECTs(c, mid) ==
    \E r \in Requests(c) : step[c] = "new" /\ r.kind = "CONNECT" /\ r.mid = mid
Leaves(c) == step[c] = "closed" \/ \E k \in Read(c) : Is(c, k, "DISCONNECT")

Finished(msg) == \A i \in DOMAIN tasks : tasks[i].msg = msg => tasks[i].stage = "done"
Targeted(mid, msg) ==
    \E i \in DOMAIN tasks : /\ tasks[i].msg = msg
                            /\ \E j \in 1 .. tasks[i].next - 1 : tasks[i].targets[j].mid = mid
HasPublish(packets, msg) ==
    \E i \in DOMAIN packets : packets[i].kind = "PUBLISH" /\ packets[i].msg = msg

\* The client was sent msg: some connection of its name was handed it.
HandedTo(mid, msg) == \E c \in Conns : mqtt_id[c] = mid /\ HasPublish(out[c], msg)

\* A subscriber never falls between a retained publish's delivery and its
\* storing: SUBSCRIBE registers and then reads the store, the task stores and
\* then reads the subscriptions.  What is retained, and whose tasks are done,
\* was handed to each subscriber by one of the two.
NoMissedRetained ==
    \A t \in TopicNames : kvs[t] # None /\ Finished(kvs[t]) =>
        \A c \in Conns : \A k \in Read(c) :
            Served(c, k) /\ mqtt_id[c] # NoId /\ Subscribes(c, k, t) =>
                Targeted(mqtt_id[c], kvs[t]) \/ HasPublish(out[c], kvs[t])

\* `protocol_version.unwrap()` in the SUBSCRIBE service, on an entry the other
\* service made, never panics.
SubackNeverPanics ==
    \A c \in Conns : step[c] = "check" => mqtt_id[c] \in mqtt_version

\* Every publish is delivered by one task at most.  The PUBREL service commits
\* what it delivered, and SUBSCRIBE stages a retained publish again: a repeated
\* PUBREL releases nothing, unless the publish was retained and restaged.
DeliveredOnce ==
    \A i, j \in DOMAIN tasks : tasks[i].msg = tasks[j].msg => i = j

\* A QoS 2 publish is delivered when its own publisher has released it.
DeliveredWhenReleased ==
    \A i \in DOMAIN tasks : tasks[i].msg.qos = 2 =>
        \E c \in Conns : \E j, k \in Read(c) :
            /\ j < k
            /\ Publishes(c, j, tasks[i].msg)
            /\ Is(c, k, "PUBREL") /\ plan[c][k].pid = tasks[i].msg.pid

\* Nobody is sent a QoS 2 publish, by a task or out of the store, before some
\* client has released its packet id: what is staged stays staged until then,
\* whoever shares the id, and is neither retained nor found by a SUBSCRIBE.
Released(msg) ==
    /\ \E c \in Conns : \E k \in Read(c) : Publishes(c, k, msg)
    /\ \E c \in Conns : \E k \in Read(c) : Is(c, k, "PUBREL") /\ plan[c][k].pid = msg.pid
SentWhenReleased ==
    \A c \in Conns : \A i \in DOMAIN out[c] :
        out[c][i].kind = "PUBLISH" /\ out[c][i].msg.qos = 2 => Released(out[c][i].msg)

\* What c last published under a packet id with QoS 2, and has not released.
OwnStaged(c, pid) ==
    LET staged == {k \in Read(c) :
            /\ Is(c, k, "PUBLISH")
            /\ plan[c][k].msg.qos = 2 /\ ~plan[c][k].msg.empty
            /\ plan[c][k].msg.pid = pid
            /\ \A j \in k + 1 .. sent[c] - 1 :
                Is(c, j, "PUBREL") => plan[c][j].pid # pid}
    IN IF staged = {} THEN None
       ELSE plan[c][CHOOSE k \in staged : \A j \in staged : j <= k].msg

\* The comment in the PUBREL service (broker.rs:277): the corresponding message
\* is taken from the staged ones and delivered, and there is none if the client
\* has released it before.
PubrelDeliversOwn ==
    \A c \in Conns : step[c] \in {"unstaged", "release", "commit"} =>
        fetched[c] = OwnStaged(c, request[c].pid)

\* The flow "Retain Clear" of check.md: once the empty publish is served, what
\* the same client retained before it is gone.
ClearSticks ==
    \A c \in Conns : \A j, k \in Read(c) :
        (j < k /\ Is(c, j, "PUBLISH") /\ Is(c, k, "PUBLISH") /\ Served(c, k)) =>
            LET before == plan[c][j].msg
                clear == plan[c][k].msg
            IN clear.empty /\ clear.retain /\ clear.topic = before.topic =>
                kvs[clear.topic] # before

SubscribedFirst(mid, msg) ==
    /\ \E f \in subed_filters(msg.topic) :
        \E i \in DOMAIN topic_map[f] : topic_map[f][i].mid = mid
    /\ \A c \in Conns : \A k \in Read(c) : ~Publishes(c, k, msg)
WasServed(msg) ==
    \E c \in Conns : \E k \in Read(c) :
        Publishes(c, k, msg) /\ (k < sent[c] \/ step[c] # "serve")

\* A publish of QoS 0 or 1 that was served is handed to everyone who had
\* subscribed before it was read, unless its name is taken off the map
\* (test_subscribe_recieve in test_mqtt_connect.py): a subscriber that has left,
\* or whose channel refuses its copy, does not keep the task from the others.
DeliveredToSubscribers ==
    \A mid \in MqttIds \ {NoId} : \A msg \in {m \in Messages : m.qos < 2 /\ ~m.empty} :
        [](SubscribedFirst(mid, msg) =>
            (<>WasServed(msg) => <>(HandedTo(mid, msg) \/ by_mqtt_id[mid] = None)))

\* c is connecting, every connection that had its name is closed, and nobody
\* else is going to use it.
TakesOver(c) ==
    /\ step[c] = "register" /\ mqtt_id[c] # NoId
    /\ \A d \in Conns \ {c} :
        mqtt_id[d] = mqtt_id[c] \/ CONNECTs(d, mqtt_id[c]) => step[d] = "closed"

\* A client that comes back on another connection, whether the last one ended
\* with a DISCONNECT or without, is sent what is published to its earlier
\* subscriptions, on the new connection, until it leaves that one.
ReachesLatest ==
    \A c \in Conns : \A msg \in {m \in Messages : m.qos < 2 /\ ~m.empty} :
        [](TakesOver(c) =>
            [](step[c] # "register" /\ SubscribedFirst(mqtt_id[c], msg) =>
                [](WasServed(msg) => <>(HasPublish(out[c], msg) \/ Leaves(c)))))
=============================================================================
