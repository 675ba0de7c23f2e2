--------------------------- MODULE SessionManager ---------------------------
(***************************************************************************)
(* SESSION_MANAGER, the process-wide registry (session_manager.rs).  Each  *)
(* of its maps is a DashMap: one operation on one map is atomic, a method  *)
(* that touches two maps is not.  by_client_mqtt is written and never      *)
(* read, and is left out; by_client_id is the `registered` sender of       *)
(* Connection.                                                             *)
(***************************************************************************)
EXTENDS Packets

CONSTANT Conns  \* connections: the Uuid each one is given

ASSUME ConnsAssumption == None \notin Conns

VARIABLES
    by_mqtt_id,     \* client identifier -> connection
    mqtt_version,   \* the client identifiers whose protocol version is known
    qos_tmp         \* packet id -> staged QoS 2 publish

sessionVars == <<by_mqtt_id, mqtt_version, qos_tmp>>

SessionTypeOK ==
    /\ by_mqtt_id \in [MqttIds -> Conns \cup {None}]
    /\ mqtt_version \in SUBSET MqttIds
    /\ qos_tmp \in [PacketIds -> Message \cup {None}]

SessionInit ==
    /\ by_mqtt_id = [m \in MqttIds |-> None]
    /\ mqtt_version = {}
    /\ qos_tmp = [p \in PacketIds |-> None]

\* Mutant: an entry that is there is kept.
register_first(mid, c) ==
    by_mqtt_id' = [by_mqtt_id EXCEPT ![mid] = IF @ = None THEN c ELSE @]

register_mqtt_id(mid, c) == by_mqtt_id' = [by_mqtt_id EXCEPT ![mid] = c]

\* Whichever connection the identifier stands for by now.
unregister_mqtt_id(mid) == by_mqtt_id' = [by_mqtt_id EXCEPT ![mid] = None]

set_protocol_version(mid) == mqtt_version' = mqtt_version \cup {mid}

\* Mutants: the publish fetched is any that is staged; a commit leaves it.
fetch_any(pid) ==
    LET staged == {p \in PacketIds : qos_tmp[p] # None}
    IN IF staged = {} THEN None ELSE qos_tmp[CHOOSE p \in staged : TRUE]
commit_nothing(pid) == UNCHANGED qos_tmp

\* The packet id is the whole key: neither the client nor the direction of
\* the exchange is part of it.
add_staging_packet(msg) == qos_tmp' = [qos_tmp EXCEPT ![msg.pid] = msg]
fetch_packet(pid) == qos_tmp[pid]
commit_packet(pid) == qos_tmp' = [qos_tmp EXCEPT ![pid] = None]
=============================================================================
