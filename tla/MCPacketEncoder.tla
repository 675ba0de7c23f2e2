--------------------------- MODULE MCPacketEncoder ---------------------------
(***************************************************************************)
(* PacketEncoder with every kind of packet for both protocol levels, lists *)
(* on both sides of each change of size of their length, and a payload     *)
(* that no remaining length can announce.                                  *)
(***************************************************************************)
EXTENDS PacketEncoder

Versions == {4, 5}
Lists == {NoList, 0, 127, 128, 16383, 16384}

Base == [kind |-> "PINGRESP", version |-> 5, reason |-> FALSE, list |-> NoList,
         encodable |-> TRUE, topic |-> 0, qos |-> 0, id |-> FALSE,
         payload_length |-> 0, chunk |-> 0]

MCAcks ==
    {[Base EXCEPT !.kind = k, !.version = v, !.reason = r, !.list = l, !.encodable = e] :
        k \in Acks, v \in Versions, r \in BOOLEAN, l \in Lists, e \in BOOLEAN}

MCCodes ==
    {[Base EXCEPT !.kind = k, !.version = v, !.list = l, !.chunk = c] :
        k \in {"SUBACK", "UNSUBACK"}, v \in Versions, l \in Lists, c \in {0, 1, 126}}

MCPublishes ==
    {[Base EXCEPT !.kind = "PUBLISH", !.version = v, !.list = l, !.topic = t, !.qos = q, !.id = i,
                  !.payload_length = n, !.chunk = c, !.encodable = e] :
        v \in Versions, l \in {NoList, 128}, t \in {0, 125}, q \in {0, 1}, i \in BOOLEAN,
        n \in {0, 1, TooLong}, c \in {0, 1, TooLong}, e \in BOOLEAN}

MCPackets == {Base} \cup MCAcks \cup MCCodes \cup MCPublishes

MCResponses == [version : Versions, list : Lists, encodable : BOOLEAN]

\* All of it, a half, or an octet more than a third.
MCWriteSizes(n) == {n, n \div 2, 1 + n \div 3}
=============================================================================
