------------------------------- MODULE Packets ------------------------------
(***************************************************************************)
(* What clients of the broker send and what the broker sends them, reduced *)
(* to what its handlers look at.                                           *)
(***************************************************************************)
EXTENDS Topics, FiniteSets

CONSTANTS
    MqttIds,    \* client identifiers
    PacketIds,  \* packet identifiers
    Payloads,   \* names of the publishes, so that each can be told apart
    TopicNames, \* topics published to
    Filters,    \* topic filters subscribed to
    None,       \* no entry in a map, no packet id
    NoId        \* the empty client identifier

ASSUME TopicsAssumption == TopicNames \subseteq Levels /\ Filters \subseteq Levels
ASSUME NoIdAssumption == NoId \in MqttIds /\ None \notin MqttIds

QoS == 0 .. 2

\* A PUBLISH as a client sent it; empty: payload_length = 0.  A packet id is
\* read for QoS 1 and 2 only (mqtt.rs:2420).
Message ==
    {m \in [name : Payloads, topic : TopicNames, qos : QoS, retain : BOOLEAN,
            empty : BOOLEAN, pid : PacketIds \cup {None}] :
        m.qos = 0 <=> m.pid = None}

ASSUME NoneAssumption == None \notin PacketIds /\ None \notin Message

Subscription == [filter : Filters, qos : QoS]

\* OTHER stands for PUBACK, UNSUBSCRIBE and all that the broker ignores;
\* CONNECT_BAD for a CONNECT with a protocol name and level it refuses.
Request ==
    [kind : {"CONNECT"}, mid : MqttIds]
    \cup [kind : {"CONNECT_BAD", "DISCONNECT", "OTHER"}]
    \cup [kind : {"SUBSCRIBE"}, filters : Seq(Subscription)]
    \cup [kind : {"PUBLISH"}, msg : Message]
    \cup [kind : {"PUBREC", "PUBREL", "PUBCOMP"}, pid : PacketIds]

\* A delivered PUBLISH has the QoS of the subscription and a packet id of its
\* own choice; a retained one in answer to SUBSCRIBE goes out as it came in.
Delivery(msg, qos, pid) == [kind |-> "PUBLISH", msg |-> msg, qos |-> qos, pid |-> pid]
Ack(kind, pid) == [kind |-> kind, pid |-> pid]

Packet ==
    [kind : {"PUBLISH"}, msg : Message, qos : {0}, pid : {None}]
    \cup [kind : {"PUBLISH"}, msg : Message, qos : {1, 2}, pid : PacketIds]
    \cup [kind : {"CONNACK", "SUBACK"}, pid : {None}]
    \cup [kind : {"PUBACK", "PUBREC", "PUBREL", "PUBCOMP"}, pid : PacketIds]
=============================================================================
