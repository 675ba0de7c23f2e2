----------------------------- MODULE RetainStore ----------------------------
(***************************************************************************)
(* RETAIN_STORE (retain_store.rs): the last retained publish of each topic.*)
(***************************************************************************)
EXTENDS Packets

VARIABLE kvs    \* topic -> publish

RetainTypeOK == kvs \in [TopicNames -> Message \cup {None}]
RetainInit == kvs = [t \in TopicNames |-> None]

update_retain(msg) == kvs' = [kvs EXCEPT ![msg.topic] = msg]
remove_retain(topic) == kvs' = [kvs EXCEPT ![topic] = None]

\* Mutant: the filter is looked up as if it were a topic.
check_exact(filter) == {filter} \cap TopicNames

\* check_retain visits the topics in the order of the map's shards, each under
\* the lock of its shard: here the topics a filter selects, then one of them.
check_topics(filter) == {t \in TopicNames : Matches(filter, t)}
check_topic(topic) == IF kvs[topic] = None THEN <<>> ELSE <<kvs[topic]>>
=============================================================================
