---------------------------- MODULE PacketDecoder ----------------------------
(***************************************************************************)
(* How mqtt.rs decodes one packet: fixed header, variable header, payload, *)
(* each in a call of poll_decode of its own, with more octets arriving in  *)
(* between.  Decoder has the framing of a stream of packets; this module   *)
(* has the cursor inside one packet, over octets that may hold anything.   *)
(*                                                                         *)
(* No octet is read twice, so its value is chosen when it is read: a field *)
(* takes as many octets as its contents say, if the buffer has them, and   *)
(* may be refused for its value.  An error and a slice out of range both   *)
(* end the connection: both are `refused`.  What is kept of the octets is  *)
(* what the positions depend on: the lengths the packet announces and the  *)
(* lengths its fields turn out to have, which need not agree.              *)
(***************************************************************************)
EXTENDS VariableLength, FiniteSets

CONSTANTS
    None,           \* no protocol version recorded
    Levels,         \* the protocol levels a CONNECT may name
    Lengths,        \* what the buffer may hold where a length is read
    MaxString,      \* octets of a string (65535)
    MaxBuffer,      \* octets of the read buffer behind the fixed header
    Word            \* 2^64: usize wraps unless the build checks overflow

ASSUME DecoderAssumption ==
    /\ Levels \subseteq Nat
    /\ None \notin Levels
    /\ Lengths \subseteq Seq(Octet)
    /\ MaxString \in Nat
    /\ MaxBuffer \in Nat
    /\ Word \in Nat /\ Word > MaxBuffer /\ Word > TooLong

VARIABLES
    stage,          \* what the decoder does with the packet
    kind, qos,      \* what the first octet said
    version,        \* Decoder.protocol_version
    level, flags,   \* protocol_ver and connect_flags of a CONNECT
    remaining,      \* the remaining length it announced
    avail,          \* octets in the buffer behind the fixed header
    pos,            \* how many of them were decoded
    fields,         \* what is decoded next
    listing, end,   \* in a property list that ends at position `end`
    seen,           \* the properties found in it
    start, payload  \* where the payload starts, and payload_length

first == <<kind, qos, version>>
connect == <<level, flags>>
list == <<listing, end, seen>>
vars == <<stage, first, connect, remaining, avail, pos, fields, list, start, payload>>

-----------------------------------------------------------------------------
(* Tables: what the fields look like, and which ones a packet has *)

\* The octets a field of each type may take; a flag, a reason code, the
\* options of a filter, the level and the connect flags take one.
Sizes(type) ==
    CASE type \in {"u16", "nonzero16"} -> {2}
      [] type \in {"u32", "nonzero32"} -> {4}
      [] type = "varint" -> 1 .. 4
      [] type \in {"string", "binary"} -> 2 .. MaxString + 2
      [] type = "pair" -> 4 .. 2 * MaxString + 4
      [] OTHER -> {1}

\* A value of these may be refused although all of it is there: no UTF-8, a
\* reserved bit, a code without a meaning, a zero.
Fallible == {"flag", "reason", "options", "connect_flags", "nonzero16", "nonzero32",
             "varint", "string", "pair"}

PublishProperties ==
    [PAYLOAD_FORMAT_INDICATOR |-> "flag", MESSAGE_EXPIRY_INTERVAL |-> "u32",
     TOPIC_ALIAS |-> "nonzero16", RESPONSE_TOPIC |-> "string",
     CORRELATION_DATA |-> "binary", USER_PROPERTY |-> "pair",
     SUBSCRIPTION_IDENTIFIER |-> "varint", CONTENT_TYPE |-> "string"]

ConnectProperties ==
    [SESSION_EXPIRY_INTERVAL |-> "u32", RECIEVE_MAXIMUM |-> "nonzero16",
     MAXIMUM_PACKET_SIZE |-> "nonzero32", TOPIC_ALIAS_MAXIMUM |-> "nonzero16",
     REQUEST_RESPONSE_INFORMATION |-> "flag", REQUEST_PROBLEM_INFORMATION |-> "flag",
     USER_PROPERTY |-> "pair", AUTHENTICATION_METHOD |-> "string",
     AUTHENTICATION_DATA |-> "binary"]

WillProperties ==
    [WILL_DELAY_INTERVAL |-> "u32", PAYLOAD_FORMAT_INDICATOR |-> "flag",
     MESSAGE_EXPIRY_INTERVAL |-> "u32", CONTENT_TYPE |-> "string",
     RESPONSE_TOPIC |-> "string", CORRELATION_DATA |-> "binary",
     USER_PROPERTY |-> "pair"]

SubscribeProperties == [USER_PROPERTY |-> "pair", SUBSCRIPTION_IDENTIFIER |-> "varint"]
UnsubscribeProperties == [USER_PROPERTY |-> "pair"]
PubrelProperties == [USER_PROPERTY |-> "pair", REASON_STRING |-> "string"]
DisconnectProperties ==
    [SESSION_EXPIRY_INTERVAL |-> "u32", USER_PROPERTY |-> "pair",
     REASON_STRING |-> "string", SERVER_REFERENCE |-> "string"]

Measured == {"PUBLISH", "SUBSCRIBE", "UNSUBSCRIBE"}   \* they keep a payload_length
Acks == {"PUBACK", "PUBREC", "PUBCOMP"}
Kinds == Measured \cup Acks \cup {"CONNECT", "PUBREL", "DISCONNECT"}

\* The list a packet may carry where its decoder stands.
Properties ==
    CASE kind = "PUBLISH" -> PublishProperties
      [] kind = "SUBSCRIBE" -> SubscribeProperties
      [] kind = "UNSUBSCRIBE" -> UnsubscribeProperties
      [] kind = "PUBREL" -> PubrelProperties
      [] kind = "DISCONNECT" -> DisconnectProperties
      [] OTHER -> IF stage = "payload" THEN WillProperties ELSE ConnectProperties

\* The properties whose branch refuses a second one.
Single ==
    CASE kind = "PUBLISH" -> {"TOPIC_ALIAS", "RESPONSE_TOPIC", "CORRELATION_DATA", "CONTENT_TYPE"}
      [] kind = "DISCONNECT" -> {"SESSION_EXPIRY_INTERVAL", "REASON_STRING"}
      [] kind = "CONNECT" -> DOMAIN Properties \ {"USER_PROPERTY"}
      [] OTHER -> {}

\* decode_variable_header of each packet.  PUBREL and DISCONNECT look at the
\* remaining length to see whether there is more.
VariableFields ==
    CASE kind = "CONNECT" -> <<"string", "level", "connect_flags", "u16", "properties">>
      [] kind = "PUBLISH" -> IF qos = 0 THEN <<"string", "properties">>
                             ELSE <<"string", "u16", "properties">>
      [] kind \in {"SUBSCRIBE", "UNSUBSCRIBE"} -> <<"u16", "properties">>
      [] kind \in Acks -> <<"u16">>
      [] kind = "PUBREL" -> IF remaining = 2 THEN <<"u16">>
                            ELSE <<"u16", "reason", "properties">>
      [] kind = "DISCONNECT" -> IF remaining = 0 THEN <<>> ELSE <<"reason", "properties">>

\* decode_payload: the fields before the first decision.  The will of a
\* CONNECT has a property list whatever the protocol level.
PayloadFields ==
    CASE kind = "CONNECT" ->
            <<"string">>
            \o (IF "will" \in flags THEN <<"will_properties", "string", "binary">> ELSE <<>>)
            \o (IF "user_name" \in flags THEN <<"string">> ELSE <<>>)
            \o (IF "password" \in flags THEN <<"binary">> ELSE <<>>)
      [] kind = "SUBSCRIBE" -> <<"string", "options">>
      [] OTHER -> <<>>

Flags == {"will", "user_name", "password"}
Lists == {"properties", "will_properties"}
Fields == {"string", "binary", "u16", "reason", "options", "level", "connect_flags"} \cup Lists
PropertyNames == UNION {DOMAIN t : t \in {PublishProperties, ConnectProperties, WillProperties,
                                         PubrelProperties, DisconnectProperties}}

-----------------------------------------------------------------------------
PacketTypeOK ==
    /\ stage \in {"fixed", "await_variable", "variable", "await_payload", "payload",
                  "accepted", "refused"}
    /\ kind \in Kinds /\ qos \in 0 .. 2
    /\ version \in Levels \cup {None} /\ level \in Levels \cup {None}
    /\ flags \in SUBSET Flags
    /\ remaining \in Nat /\ avail \in 0 .. MaxBuffer /\ pos \in 0 .. avail
    /\ fields \in Seq(Fields)
    /\ listing \in BOOLEAN /\ end \in Nat
    /\ seen \in SUBSET PropertyNames
    /\ start \in 0 .. pos /\ payload \in Nat

Init ==
    /\ stage = "fixed"
    /\ kind \in Kinds
    /\ qos \in IF kind = "PUBLISH" THEN 0 .. 2 ELSE {0}
    /\ version \in IF kind = "CONNECT" THEN {None} ELSE Levels \cup {None}
    /\ level = None /\ flags = {}
    /\ remaining = 0 /\ avail = 0 /\ pos = 0
    /\ fields = <<>>
    /\ listing = FALSE /\ end = 0 /\ seen = {}
    /\ start = 0 /\ payload = 0

Refuse ==
    /\ stage' = "refused"
    /\ UNCHANGED <<first, connect, remaining, avail, pos, fields, list, start, payload>>

\* The next n octets are decoded; they must be there.
Move(n) ==
    /\ pos + n <= avail
    /\ pos' = pos + n

-----------------------------------------------------------------------------
(* The fixed header, and the polls in between *)

\* A type without a branch, reserved bits, or a length that is cut or too long.
FixedRefused ==
    /\ stage = "fixed"
    /\ Refuse

FixedDecoded ==
    /\ stage = "fixed"
    /\ \E s \in Lengths :
        /\ DecodeLength(s).outcome = "Ok"
        /\ remaining' = DecodeLength(s).value
    /\ avail' \in 0 .. MaxBuffer
    /\ stage' = "await_variable"
    /\ UNCHANGED <<first, connect, pos, fields, list, start, payload>>

\* poll_decode returns at once while the buffer is empty.
Arrive ==
    /\ stage \in {"await_variable", "await_payload"}
    /\ avail < MaxBuffer
    /\ avail' = avail + 1
    /\ UNCHANGED <<stage, first, connect, remaining, pos, fields, list, start, payload>>

VariableStart ==
    /\ stage = "await_variable"
    /\ avail > 0
    /\ stage' = "variable"
    /\ fields' = VariableFields
    /\ UNCHANGED <<first, connect, remaining, avail, pos, list, start, payload>>

PayloadStart ==
    /\ stage = "await_payload"
    /\ avail > pos
    /\ stage' = "payload"
    /\ fields' = PayloadFields
    /\ UNCHANGED <<first, connect, remaining, avail, pos, list, start, payload>>

-----------------------------------------------------------------------------
(* One field *)

Decoding == stage \in {"variable", "payload"} /\ ~listing
AtField == Decoding /\ fields # <<>> /\ Head(fields) \notin Lists
AtList(f) == Decoding /\ fields # <<>> /\ Head(fields) = f

FieldRead ==
    /\ AtField
    /\ \E n \in Sizes(Head(fields)) : Move(n)
    /\ level' \in IF Head(fields) = "level" THEN Levels ELSE {level}
    /\ flags' \in IF Head(fields) = "connect_flags" THEN SUBSET Flags ELSE {flags}
    /\ fields' = Tail(fields)
    /\ UNCHANGED <<stage, first, remaining, avail, list, start, payload>>

\* Octets are missing, or the value is wrong.
FieldRefused ==
    /\ AtField
    /\ \/ Head(fields) \in Fallible
       \/ \E n \in Sizes(Head(fields)) : pos + n > avail
    /\ Refuse

\* The version the list depends on: a CONNECT's own, which must be 5, else the
\* recorded one, which is unwrapped.
Known == kind = "CONNECT" \/ version # None
HasProperties == IF kind = "CONNECT" THEN level = 5 ELSE Known /\ version >= 5

ListOpened ==
    /\ AtList("will_properties") \/ (AtList("properties") /\ HasProperties)
    /\ \E s \in Lengths :
        /\ DecodeLength(s).outcome = "Ok"
        /\ Move(DecodeLength(s).size)
        /\ end' = pos + DecodeLength(s).size + DecodeLength(s).value
    /\ listing' = TRUE
    /\ seen' = {}
    /\ fields' = Tail(fields)
    /\ UNCHANGED <<stage, first, connect, remaining, avail, start, payload>>

ListAbsent ==
    /\ AtList("properties")
    /\ Known
    /\ ~HasProperties
    /\ fields' = Tail(fields)
    /\ UNCHANGED <<stage, first, connect, remaining, avail, pos, list, start, payload>>

\* The length is cut or too long, or no version is known.
ListRefused ==
    /\ AtList("will_properties") \/ (AtList("properties") /\ (Known => HasProperties))
    /\ Refuse

-----------------------------------------------------------------------------
(* The loop over a property list *)

\* Mutant: `next_pos >= end_pos` ends the list.
ListClosedAtOrPast ==
    /\ listing /\ stage \in {"variable", "payload"}
    /\ pos >= end
    /\ listing' = FALSE
    /\ UNCHANGED <<stage, first, connect, remaining, avail, pos, fields, end, seen, start, payload>>

ListClosed ==
    /\ listing /\ stage \in {"variable", "payload"}
    /\ pos = end
    /\ listing' = FALSE
    /\ UNCHANGED <<stage, first, connect, remaining, avail, pos, fields, end, seen, start, payload>>

\* Past the end; an octet that is missing or no property of this packet; a
\* value that is missing or refused.
ListFails ==
    /\ listing /\ stage \in {"variable", "payload"}
    /\ pos # end
    /\ Refuse

\* A second one of these; authentication data before its method.
Rejected(p) ==
    \/ p \in Single /\ p \in seen
    \/ kind = "CONNECT" /\ p = "AUTHENTICATION_DATA" /\ "AUTHENTICATION_METHOD" \notin seen

PropertyRead ==
    /\ listing /\ stage \in {"variable", "payload"}
    /\ pos < end
    /\ \E p \in DOMAIN Properties :
        /\ ~Rejected(p)
        /\ \E n \in Sizes(Properties[p]) : Move(1 + n)
        /\ seen' = seen \cup {p}
    /\ UNCHANGED <<stage, first, connect, remaining, avail, fields, listing, end, start, payload>>

-----------------------------------------------------------------------------
(* The end of the variable header, and the payload *)

\* Mutant: the length is signed.
WrapSigned(d) == d

\* A subtraction of usize, where the build does not stop at the overflow.
Wrap(d) == IF d >= 0 THEN d ELSE d + Word

HeaderDone == stage = "variable" /\ ~listing /\ fields = <<>>

VariableDone ==
    /\ HeaderDone
    /\ stage' = IF pos = remaining THEN "accepted" ELSE "await_payload"
    /\ start' = pos
    /\ payload' = IF kind \in Measured THEN Wrap(remaining - pos) ELSE payload
    /\ UNCHANGED <<first, connect, remaining, avail, pos, fields, list>>

\* A build that checks overflow panics.
VariableOverflows ==
    /\ HeaderDone
    /\ kind \in Measured /\ pos > remaining
    /\ Refuse

PayloadRead == stage = "payload" /\ ~listing /\ fields = <<>>

\* PUBLISH: split_off, or InsufficientBytes.
DataTaken ==
    /\ PayloadRead
    /\ kind = "PUBLISH"
    /\ Move(payload)
    /\ stage' = "accepted"
    /\ UNCHANGED <<first, connect, remaining, avail, fields, list, start, payload>>

DataRefused ==
    /\ PayloadRead
    /\ kind = "PUBLISH"
    /\ pos + payload > avail
    /\ Refuse

\* Mutant: `payload_length <= next_pos` ends the loop over the filters.
FiltersDoneAtOrPast ==
    /\ PayloadRead
    /\ kind \in {"SUBSCRIBE", "UNSUBSCRIBE"}
    /\ pos - start >= payload
    /\ stage' = "accepted"
    /\ UNCHANGED <<first, connect, remaining, avail, pos, fields, list, start, payload>>

\* SUBSCRIBE and UNSUBSCRIBE: filters until exactly payload_length is consumed.
\* SUBSCRIBE refuses a payload_length of 0 before its first filter; the packet
\* was accepted already in VariableDone.
FiltersDone ==
    /\ PayloadRead
    /\ kind \in {"SUBSCRIBE", "UNSUBSCRIBE"}
    /\ pos - start = payload
    /\ stage' = "accepted"
    /\ UNCHANGED <<first, connect, remaining, avail, pos, fields, list, start, payload>>

FiltersRefused ==
    /\ PayloadRead
    /\ kind \in {"SUBSCRIBE", "UNSUBSCRIBE"}
    /\ pos - start > payload
    /\ Refuse

\* Mutant: every filter is read from the start of the payload.
NextFilterFromStart ==
    /\ PayloadRead
    /\ kind \in {"SUBSCRIBE", "UNSUBSCRIBE"}
    /\ pos - start < payload
    /\ pos' = start
    /\ fields' = IF kind = "SUBSCRIBE" THEN <<"string", "options">> ELSE <<"string">>
    /\ UNCHANGED <<stage, first, connect, remaining, avail, list, start, payload>>

NextFilter ==
    /\ PayloadRead
    /\ kind \in {"SUBSCRIBE", "UNSUBSCRIBE"}
    /\ pos - start < payload
    /\ fields' = IF kind = "SUBSCRIBE" THEN <<"string", "options">> ELSE <<"string">>
    /\ UNCHANGED <<stage, first, connect, remaining, avail, pos, list, start, payload>>

\* The others have nothing to compare the position with.
OtherDone ==
    /\ PayloadRead
    /\ kind \notin Measured
    /\ stage' = "accepted"
    /\ UNCHANGED <<first, connect, remaining, avail, pos, fields, list, start, payload>>

-----------------------------------------------------------------------------
Poll ==
    \/ FixedRefused \/ FixedDecoded
    \/ VariableStart \/ PayloadStart
    \/ FieldRead \/ FieldRefused
    \/ ListOpened \/ ListAbsent \/ ListRefused
    \/ ListClosed \/ ListFails \/ PropertyRead
    \/ VariableDone \/ VariableOverflows
    \/ DataTaken \/ DataRefused
    \/ FiltersDone \/ FiltersRefused \/ NextFilter
    \/ OtherDone

Next == Arrive \/ Poll

Spec == Init /\ [][Next]_vars

\* A poll runs to its end once it was entered: it never waits.
FairSpec == Spec /\ WF_vars(Poll)

-----------------------------------------------------------------------------
(* Properties *)

\* The frame of an accepted packet is the octets it announced: what the
\* decoder leaves in the buffer starts with the next packet, whatever the
\* lengths inside this one say and even where `remaining_length - (next_pos -
\* start_pos)` (mqtt.rs:509, 2359, 2516) wraps around.  Three kinds have no
\* such comparison: a CONNECT, an acknowledgement that announces anything but
\* its packet id, and a PUBREL or DISCONNECT with a reason code.
AcceptedEndsItsFrame ==
    stage = "accepted" =>
        \/ pos = remaining
        \/ kind = "CONNECT"
        \/ kind \in Acks \cup {"PUBREL"} /\ remaining # 2
        \/ kind = "DISCONNECT" /\ remaining # 0

\* The payload of a version 5 packet begins where its property list said it
\* ends: no property is cut by the end of the list, and no octet of the list is
\* left to be taken for payload.
PayloadFollowsList ==
    stage = "accepted" /\ kind \in Measured /\ HasProperties => start = end

\* A poll of the decoder ends, whatever the packet holds: the loops over
\* properties and over filters have no bound of their own (`loop`), they end
\* because every turn moves the position.
PollReturns == stage \in {"variable", "payload"} ~> stage \notin {"variable", "payload"}
=============================================================================
