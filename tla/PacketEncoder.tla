---------------------------- MODULE PacketEncoder ----------------------------
(***************************************************************************)
(* What the server writes for one packet (encode_header and                *)
(* encode_payload_chunk of mqtt.rs, put together by encode_all or          *)
(* poll_encode of encoder.rs), and what a peer makes of it: it reads the   *)
(* remaining length and takes that many octets for the packet.  Packets    *)
(* are counted in octets; the property list is one count, the octets its   *)
(* build_bytes returns.                                                    *)
(***************************************************************************)
EXTENDS VariableLength

CONSTANTS
    NoList,             \* no properties were set
    Packets,            \* what is sent to the writer, a CONNACK excepted
    Responses,          \* what the connect service may answer with
    WriteSizes(_)       \* octets that one write_buf may take of a buffer

Acks == {"PUBACK", "PUBREC", "PUBREL", "PUBCOMP"}
Chunked == {"SUBACK", "UNSUBACK", "PUBLISH"}
Kinds == Acks \cup Chunked \cup {"CONNACK", "PINGRESP"}

\* `encodable`: every string of the list fits a u16.
Packet ==
    [kind : Kinds, version : Nat, reason : BOOLEAN, list : Nat \cup {NoList},
     encodable : BOOLEAN, topic : Nat, qos : 0 .. 2, id : BOOLEAN,
     payload_length : Nat, chunk : Nat]

Response == [version : Nat, list : Nat \cup {NoList}, encodable : BOOLEAN]

ASSUME EncoderAssumption ==
    /\ NoList \notin Nat
    /\ Packets \subseteq Packet
    /\ Responses \subseteq Response

\* ConnackResponse::to_connack: the reason is Success, whatever the service had.
ToConnack(r) ==
    [kind |-> "CONNACK", version |-> r.version, reason |-> TRUE, list |-> r.list,
     encodable |-> r.encodable, topic |-> 0, qos |-> 0, id |-> FALSE,
     payload_length |-> 0, chunk |-> 0]

Sent == Packets \cup {ToConnack(r) : r \in Responses}

-----------------------------------------------------------------------------
(* One packet, in octets *)

\* A list with its length; no properties are an empty list.
List(p) == IF p.list = NoList THEN 0 ELSE p.list
WithLength(n) == EncodedSize(n) + n

\* The properties are built: the version has them and nothing omits them.
HasList(p) ==
    CASE p.kind \in {"CONNACK", "PUBLISH"} -> p.version = 5
      [] p.kind \in {"SUBACK", "UNSUBACK"} -> p.version >= 5
      [] p.kind \in {"PUBACK", "PUBREC"} -> p.version >= 5 /\ p.reason
      [] p.kind \in {"PUBREL", "PUBCOMP"} -> p.version >= 5 /\ (p.reason \/ p.list # NoList)
      [] OTHER -> FALSE

\* What follows the packet id, topic or codes where the list is written.
AfterId(p) == IF p.kind \in Acks THEN 1 + WithLength(List(p)) ELSE WithLength(List(p))

\* The octets that encode_header writes behind the remaining length.
Header(p) ==
    LET fixed == CASE p.kind = "PINGRESP" -> 0
                   [] p.kind = "PUBLISH" -> IF p.qos = 0 THEN 2 + p.topic ELSE 4 + p.topic
                   [] OTHER -> 2
        written == HasList(p) /\ (p.kind \in Acks => p.reason)
    IN IF written THEN fixed + AfterId(p) ELSE fixed

HasChunk(p) == p.kind \in Chunked
Chunk(p) == IF HasChunk(p) THEN p.chunk ELSE 0

\* Mutant: the length octets of the list are not counted in SUBACK either.
AnnouncedShort(p) ==
    CASE p.kind = "CONNACK" -> IF HasList(p) THEN 3 + List(p) ELSE 2
      [] p.kind \in {"SUBACK", "UNSUBACK"} -> (IF HasList(p) THEN 3 + List(p) ELSE 2) + p.chunk
      [] p.kind = "PUBLISH" -> Header(p) + p.payload_length
      [] p.kind \in Acks -> IF HasList(p) THEN 2 + AfterId(p) ELSE 2
      [] OTHER -> 0

\* The remaining length it announces.  A CONNACK counts one octet for the
\* length of its list; an acknowledgement counts the list it was given even if
\* it has no reason code to write it behind.
Announced(p) ==
    CASE p.kind = "CONNACK" -> IF HasList(p) THEN 3 + List(p) ELSE 2
      [] p.kind \in {"SUBACK", "UNSUBACK"} -> (IF HasList(p) THEN 2 + AfterId(p) ELSE 2) + p.chunk
      [] p.kind = "PUBLISH" -> Header(p) + p.payload_length
      [] p.kind \in Acks -> IF HasList(p) THEN 2 + AfterId(p) ELSE 2
      [] OTHER -> 0

\* encode_header returns an error, or panics: a PUBLISH unwraps its packet id.
\* Its list never fails: the length of a string that is too long is truncated,
\* and the octets are counted as they are.
Fails(p) ==
    \/ p.kind # "PUBLISH" /\ HasList(p) /\ p.list # NoList /\ ~p.encodable
    \/ p.kind = "PUBLISH" /\ p.qos # 0 /\ ~p.id

\* The packet type, the length octets and the rest.
HeaderOctets(p) == 1 + EncodedSize(Announced(p)) + Header(p)

\* What the peer takes for the packet once it has read its length.
Frame(p) ==
    LET d == DecodeLength(EncodeLength(Announced(p)))
    IN IF d.outcome = "Ok" THEN 1 + d.size + d.value ELSE 5

\* The packets whose header does not say what follows.
Misannounced(p) ==
    \/ p.kind = "CONNACK" /\ HasList(p) /\ List(p) >= 128
    \/ p.kind \in Acks /\ HasList(p) /\ ~p.reason
    \/ p.kind = "PUBLISH" /\ p.payload_length # p.chunk
    \/ Announced(p) >= TooLong

-----------------------------------------------------------------------------
VARIABLES
    writer,     \* the writer task, or a caller of poll_encode
    state,      \* Encoder.state
    packet,     \* what poll_encode is called with, NoList in the task
    buffer,     \* octets in the write buffer
    expects,    \* octets the peer waits for until its frame ends
    lost        \* a misannounced packet was written

vars == <<writer, state, packet, buffer, expects, lost>>

EncoderTypeOK ==
    /\ writer \in {"recv", "write", "returned", "shutdown", "poll"}
    /\ state \in {"Header", "Payload", "Done"}
    /\ packet \in Packet \cup {NoList}
    /\ buffer \in Nat /\ expects \in Int /\ lost \in BOOLEAN

Init ==
    /\ \/ writer = "recv" /\ packet = NoList
       \/ writer = "poll" /\ packet \in Sent
    /\ state = "Header"
    /\ buffer = 0 /\ expects = 0 /\ lost = FALSE

\* encode_all in the task of Connection::spawn_writer; an error ends the task
\* before anything of the packet is in the buffer.  The peer is followed until
\* it is out of step.
Encode ==
    /\ writer = "recv" /\ ~lost
    /\ \E p \in Sent :
        IF Fails(p)
        THEN writer' = "returned" /\ UNCHANGED <<buffer, expects, lost>>
        ELSE /\ writer' = "write"
             /\ buffer' = buffer + HeaderOctets(p) + Chunk(p)
             /\ expects' = expects + Frame(p)
             /\ lost' = Misannounced(p)
    /\ UNCHANGED <<state, packet>>

\* Mutant: what write_buf took is not checked against the buffer.
WriteUnbounded ==
    /\ writer = "write"
    /\ \E n \in WriteSizes(buffer) : buffer' = buffer - n /\ expects' = expects - n
    /\ UNCHANGED <<writer, state, packet, lost>>

\* write_buf takes some of the buffer.
Write ==
    /\ writer = "write"
    /\ \E n \in WriteSizes(buffer) :
        /\ n \in 1 .. buffer
        /\ buffer' = buffer - n
        /\ expects' = expects - n
    /\ UNCHANGED <<writer, state, packet, lost>>

\* Nothing taken, or an error.
WriteFails ==
    /\ writer = "write" /\ buffer > 0
    /\ writer' = "returned"
    /\ UNCHANGED <<state, packet, buffer, expects, lost>>

Written ==
    /\ writer = "write" /\ buffer = 0
    /\ writer' = "recv"
    /\ UNCHANGED <<state, packet, buffer, expects, lost>>

\* Every sender is dropped.
Shutdown ==
    /\ writer = "recv"
    /\ writer' = "shutdown"
    /\ UNCHANGED <<state, packet, buffer, expects, lost>>

-----------------------------------------------------------------------------
(* poll_encode, called until it returns None, the buffer emptied in between *)

\* Mutant: the header is all there is.
PollHeaderEnds ==
    /\ writer = "poll" /\ state = "Header"
    /\ IF Fails(packet)
       THEN writer' = "returned" /\ UNCHANGED <<state, buffer, expects, lost>>
       ELSE /\ state' = "Done"
            /\ buffer' = HeaderOctets(packet)
            /\ expects' = Frame(packet)
            /\ lost' = Misannounced(packet)
            /\ UNCHANGED writer
    /\ UNCHANGED packet

PollHeader ==
    /\ writer = "poll" /\ state = "Header"
    /\ IF Fails(packet)
       THEN writer' = "returned" /\ UNCHANGED <<state, buffer, expects, lost>>
       ELSE /\ state' = "Payload"
            /\ buffer' = HeaderOctets(packet)
            /\ expects' = Frame(packet)
            /\ lost' = Misannounced(packet)
            /\ UNCHANGED writer
    /\ UNCHANGED packet

\* Mutant: no chunk leaves the state alone.
PollNoChunkStays ==
    /\ writer = "poll" /\ state = "Payload" /\ buffer = 0
    /\ ~HasChunk(packet)
    /\ UNCHANGED vars

\* The state stays Payload: the next call returns the chunk again.
PollChunk ==
    /\ writer = "poll" /\ state = "Payload" /\ buffer = 0
    /\ HasChunk(packet)
    /\ buffer' = Chunk(packet)
    /\ UNCHANGED <<writer, state, packet, expects, lost>>

PollNoChunk ==
    /\ writer = "poll" /\ state = "Payload" /\ buffer = 0
    /\ ~HasChunk(packet)
    /\ state' = "Done"
    /\ UNCHANGED <<writer, packet, buffer, expects, lost>>

\* The peer does not wait for what lies beyond the frame.
Drain ==
    /\ writer = "poll" /\ buffer > 0
    /\ buffer' = 0
    /\ expects' = IF expects >= buffer THEN expects - buffer ELSE 0
    /\ UNCHANGED <<writer, state, packet, lost>>

Poll == PollHeader \/ PollChunk \/ PollNoChunk \/ Drain

Next == Encode \/ Write \/ WriteFails \/ Written \/ Shutdown \/ Poll

Spec == Init /\ [][Next]_vars

\* The caller of poll_encode goes on calling.
FairSpec == Spec /\ WF_vars(Poll)

-----------------------------------------------------------------------------
(* Properties *)

\* The peer stays in step with the server: whenever the write buffer is empty
\* it waits for the first octet of a packet, and while it is not, for exactly
\* what is in it, however the transport splits the octets.  This holds as long
\* as none of four kinds of packet was written: a CONNACK with 128 octets of
\* properties or more (mqtt.rs:404 counts one octet for their length), a PUBREL
\* or PUBCOMP with properties but no reason code (mqtt.rs:918, 984), a PUBLISH
\* whose payload_length is not that of its data, and a packet of 2^28 octets.
InStep == ~lost /\ writer # "poll" => expects = buffer

\* A packet that poll_encode finished is whole.
PolledWhole == state = "Done" /\ buffer = 0 /\ ~lost => expects = 0

\* poll_encode finishes a packet without payload (the comment of encoder.rs:55
\* names CONNACK), however often its caller has to drain the buffer.  A packet
\* with a payload it never finishes: every call returns the payload once more.
PollEnds ==
    (writer = "poll" /\ ~HasChunk(packet)) ~> (state = "Done" \/ writer = "returned")
=============================================================================
