---------------------------- MODULE TopicManager ----------------------------
(***************************************************************************)
(* The broker's subscriptions (broker.rs, topic_manager).  `unregister` is *)
(* never called, so entries are only added.                                *)
(***************************************************************************)
EXTENDS Packets

VARIABLE topic_map  \* filter -> the subscriptions made with it, in order

Entry == [mid : MqttIds, qos : QoS]

TopicTypeOK == topic_map \in [Filters -> Seq(Entry)]
TopicInit == topic_map = [f \in Filters |-> <<>>]

\* Mutant: the whole options octet is kept in place of its QoS bits.
register_octet(filter, mid, qos) ==
    topic_map' = [topic_map EXCEPT ![filter] = Append(@, [mid |-> mid, qos |-> qos + 4])]

\* A client that subscribes again is entered again.
register(filter, mid, qos) ==
    topic_map' = [topic_map EXCEPT ![filter] = Append(@, [mid |-> mid, qos |-> qos])]

\* subed_id reads the filters in any order, each one atomically.  A filter it
\* does not see was read before it was first registered.
subed_filters(topic) == {f \in Filters : Matches(f, topic)}
subed_of(filter) == topic_map[filter]
=============================================================================
