-------------------------- MODULE PacketDecoderProofs ------------------------
(***************************************************************************)
(* PacketDecoder for every set of lengths on the wire, every buffer and    *)
(* every protocol level: where an accepted packet ends, and where its      *)
(* payload begins.                                                         *)
(***************************************************************************)
EXTENDS PacketDecoder, VariableLengthProofs, SequenceTheorems

InPayload == stage \in {"await_payload", "payload"}

\* The packet keeps its kind, the cursor stays in the buffer, and the payload starts behind it.
Cursor ==
    /\ kind \in Kinds
    /\ remaining \in Nat
    /\ avail \in 0 .. MaxBuffer
    /\ pos \in 0 .. avail
    /\ start \in 0 .. pos

Untouched == stage \in {"fixed", "await_variable"} => pos = 0 /\ ~listing

\* payload_length is what the frame has left, wrapped around if it has less
\* than nothing, until the payload is decoded.
PayloadKept ==
    InPayload /\ kind \in Measured => start # remaining /\ payload = Wrap(remaining - start)

\* The payload of a PUBLISH has no fields.
DataWhole ==
    InPayload /\ kind = "PUBLISH" =>
        pos = start /\ ~listing /\ (stage = "payload" => fields = <<>>)

\* The short forms of an acknowledgement, a PUBREL and a DISCONNECT end with
\* their frame.
ShortAck ==
    kind \in Acks \cup {"PUBREL"} /\ remaining = 2 =>
        /\ ~InPayload
        /\ stage = "variable" =>
            /\ ~listing
            /\ (fields = <<"u16">> /\ pos = 0) \/ (fields = <<>> /\ pos = 2)
ShortDisconnect ==
    kind = "DISCONNECT" /\ remaining = 0 =>
        /\ ~InPayload
        /\ stage = "variable" => ~listing /\ fields = <<>> /\ pos = 0

\* The inductive invariant behind AcceptedEndsItsFrame.
FrameInv ==
    /\ Cursor
    /\ Untouched
    /\ PayloadKept
    /\ DataWhole
    /\ ShortAck
    /\ ShortDisconnect
    /\ AcceptedEndsItsFrame

-----------------------------------------------------------------------------
\* Every field has at least one octet.
LEMMA SizesPositive ==
    ASSUME NEW type, NEW n \in Sizes(type)
    PROVE  n \in Nat /\ n > 0
<1>1. n \in {1, 2, 4} \cup (1 .. 4) \cup (2 .. MaxString + 2) \cup (4 .. 2 * MaxString + 4)
  BY Zenon DEF Sizes
<1>2. ASSUME NEW m \in Nat, NEW i \in {1, 2, 4} \cup (1 .. 4) \cup (2 .. m + 2) \cup (4 .. 2 * m + 4)
      PROVE  i \in Nat /\ i > 0
  BY SMT
<1>3. MaxString \in Nat
  BY DecoderAssumption
<1> QED BY <1>1, <1>2, <1>3, Zenon

\* The length of a list is a natural number, read from at least one octet.
LEMMA ListLength ==
    ASSUME NEW s \in Lengths, DecodeLength(s).outcome = "Ok"
    PROVE  DecodeLength(s).size \in 1 .. 4 /\ DecodeLength(s).value \in Nat
<1>1. s \in Seq(Octet)
  BY DecoderAssumption
<1> QED BY <1>1, DecodeLengthType DEF Octets

\* A wrapped length never ends inside the buffer: only the one that did not
\* wrap can be consumed.
LEMMA WrapInside ==
    ASSUME NEW r \in Nat, NEW a \in 0 .. MaxBuffer, NEW p \in 0 .. MaxBuffer,
           p = a + Wrap(r - a)
    PROVE  p = r
BY DecoderAssumption DEF Wrap

\* The subtraction yields a usize.
LEMMA WrapType ==
    ASSUME NEW r \in Nat, NEW a \in 0 .. MaxBuffer
    PROVE  Wrap(r - a) \in Nat
BY DecoderAssumption DEF Wrap

LEMMA FrameInit == Init => FrameInv
BY DecoderAssumption
   DEF Init, FrameInv, Cursor, Untouched, PayloadKept, DataWhole, ShortAck, ShortDisconnect,
       AcceptedEndsItsFrame, InPayload

LEMMA FrameStep == FrameInv /\ [Next]_vars => FrameInv'
<1> SUFFICES ASSUME FrameInv, [Next]_vars PROVE FrameInv'
  OBVIOUS
<1> USE DecoderAssumption
        DEF FrameInv, Cursor, Untouched, PayloadKept, DataWhole, ShortAck, ShortDisconnect,
            AcceptedEndsItsFrame, InPayload, first, connect, list
<1>1. CASE FixedRefused \/ FieldRefused \/ ListRefused \/ ListFails \/ VariableOverflows
           \/ DataRefused \/ FiltersRefused
  <2>1. Refuse
    BY <1>1 DEF FixedRefused, FieldRefused, ListRefused, ListFails, VariableOverflows,
                DataRefused, FiltersRefused
  <2> QED BY <2>1 DEF Refuse
<1>2. CASE FixedDecoded
  BY <1>2, ListLength DEF FixedDecoded
<1>3. CASE Arrive
  BY <1>3 DEF Arrive
<1>4. CASE VariableStart
  BY <1>4 DEF VariableStart, VariableFields, Acks
<1>5. CASE PayloadStart
  BY <1>5 DEF PayloadStart, PayloadFields
<1>6. CASE FieldRead
  <2>1. PICK n \in Sizes(Head(fields)) : Move(n)
    BY <1>6 DEF FieldRead
  <2>2. n \in Nat
    BY <2>1, SizesPositive
  <2>3. Cursor'
    BY <1>6, <2>1, <2>2 DEF FieldRead, Move
  <2>4. ShortAck'
    <3>1. fields = <<"u16">> => n = 2 /\ Tail(fields) = <<>>
      BY <2>1 DEF Sizes
    <3> QED BY <1>6, <2>1, <2>2, <3>1 DEF FieldRead, AtField, Decoding, Move, Acks
  <2>5. ShortDisconnect' /\ DataWhole' /\ Untouched' /\ PayloadKept'
    BY <1>6, <2>1 DEF FieldRead, AtField, Decoding, Move
  <2>6. AcceptedEndsItsFrame'
    BY <1>6 DEF FieldRead, AtField, Decoding
  <2> QED BY <2>3, <2>4, <2>5, <2>6
<1>7. CASE ListOpened
  <2>1. PICK s \in Lengths : DecodeLength(s).outcome = "Ok" /\ Move(DecodeLength(s).size)
    BY <1>7 DEF ListOpened
  <2>2. DecodeLength(s).size \in Nat
    BY <2>1, ListLength
  <2>3. fields # <<>> /\ Head(fields) # "u16" /\ stage \in {"variable", "payload"} /\ ~listing
    BY <1>7 DEF ListOpened, AtList, Decoding
  <2> QED BY <1>7, <2>1, <2>2, <2>3, SMTT(30) DEF ListOpened, Move, Acks
<1>8. CASE ListAbsent
  <2>1. fields # <<>> /\ Head(fields) # "u16" /\ stage \in {"variable", "payload"}
    BY <1>8 DEF ListAbsent, AtList, Decoding
  <2> QED BY <1>8, <2>1 DEF ListAbsent, Acks
<1>9. CASE ListClosed
  BY <1>9 DEF ListClosed
<1>10. CASE PropertyRead
  <2>1. PICK p \in DOMAIN Properties : \E n \in Sizes(Properties[p]) : Move(1 + n)
    BY <1>10 DEF PropertyRead
  <2>2. PICK n \in Sizes(Properties[p]) : Move(1 + n)
    BY <2>1
  <2>3. n \in Nat
    BY <2>2, SizesPositive
  <2> QED BY <1>10, <2>2, <2>3 DEF PropertyRead, Move
<1>11. CASE VariableDone
  BY <1>11 DEF VariableDone, HeaderDone, Measured, Acks
<1>12. CASE DataTaken
  <2>1. pos = start /\ payload = Wrap(remaining - start) /\ start \in 0 .. MaxBuffer
    BY <1>12 DEF DataTaken, PayloadRead, Measured
  <2>2. payload \in Nat
    BY <2>1, WrapType
  <2>3. pos' = start + Wrap(remaining - start) /\ pos' \in 0 .. avail
    BY <1>12, <2>1, <2>2 DEF DataTaken, Move
  <2>4. pos' = remaining
    BY <2>1, <2>3, WrapInside
  <2> QED BY <1>12, <2>1, <2>2, <2>3, <2>4 DEF DataTaken
<1>13. CASE FiltersDone
  <2>1. payload = Wrap(remaining - start) /\ start \in 0 .. MaxBuffer /\ pos \in 0 .. MaxBuffer
    BY <1>13 DEF FiltersDone, PayloadRead, Measured
  <2>2. pos = start + Wrap(remaining - start)
    BY <1>13, <2>1, WrapType DEF FiltersDone
  <2>3. pos = remaining
    BY <2>1, <2>2, WrapInside
  <2> QED BY <1>13, <2>3 DEF FiltersDone
<1>14. CASE NextFilter
  BY <1>14 DEF NextFilter, PayloadRead, Acks
<1>15. CASE OtherDone
  BY <1>15 DEF OtherDone, PayloadRead, Kinds, Measured, Acks
<1>16. CASE UNCHANGED vars
  BY <1>16 DEF vars
<1> QED
  BY <1>1, <1>2, <1>3, <1>4, <1>5, <1>6, <1>7, <1>8, <1>9, <1>10, <1>11, <1>12, <1>13,
     <1>14, <1>15, <1>16 DEF Next, Poll

\* An accepted packet ends where its frame ends, for every buffer, level and
\* content: the unchecked subtraction of the three kinds that keep a payload
\* length (mqtt.rs:509, 2359, 2516) wraps around or panics, but no wrapped length
\* is ever met by a position in the buffer.
THEOREM FramesRespected == Spec => []AcceptedEndsItsFrame
<1>1. FrameInv => AcceptedEndsItsFrame
  BY DEF FrameInv
<1> QED BY <1>1, FrameInit, FrameStep, PTL DEF Spec

-----------------------------------------------------------------------------
(* Where the payload begins *)

\* Nothing follows the property list of a Measured packet in its variable
\* header, and none comes in its payload.
HeaderFields ==
    {<<"string", "u16", "properties">>, <<"u16", "properties">>,
     <<"string", "properties">>, <<"properties">>, <<>>}
FilterFields == {<<>>, <<"string", "options">>, <<"options">>, <<"string">>}
FieldOrder ==
    kind \in Measured =>
        /\ stage = "variable" => fields \in HeaderFields /\ (listing => fields = <<>>)
        /\ stage = "payload" => fields \in FilterFields
        /\ InPayload => ~listing

\* The variable header of a version 5 packet ends with its list.
ListPlace ==
    kind \in Measured /\ HasProperties =>
        /\ stage = "variable" /\ fields = <<>> /\ ~listing => pos = end
        /\ InPayload \/ stage = "accepted" => start = end

\* The inductive invariant behind PayloadFollowsList.
ListInv == Untouched /\ FieldOrder /\ ListPlace

\* One field further in a variable header.
LEMMA HeaderTail ==
    ASSUME NEW f \in HeaderFields, f # <<>>
    PROVE  /\ Head(f) # "will_properties"
           /\ Head(f) = "properties" => Tail(f) = <<>>
           /\ Head(f) # "properties" => Tail(f) \in HeaderFields /\ Tail(f) # <<>>
<1>1. CASE f = <<"string", "u16", "properties">>
  <2>1. Head(f) = "string" /\ Tail(f) = <<"u16", "properties">>
    BY <1>1
  <2> QED BY <2>1 DEF HeaderFields
<1>2. CASE f = <<"u16", "properties">>
  <2>1. Head(f) = "u16" /\ Tail(f) = <<"properties">>
    BY <1>2
  <2> QED BY <2>1 DEF HeaderFields
<1>3. CASE f = <<"string", "properties">>
  <2>1. Head(f) = "string" /\ Tail(f) = <<"properties">>
    BY <1>3
  <2> QED BY <2>1 DEF HeaderFields
<1>4. CASE f = <<"properties">>
  BY <1>4
<1> QED BY <1>1, <1>2, <1>3, <1>4 DEF HeaderFields

\* One field further in a filter.
LEMMA FilterTail ==
    ASSUME NEW f \in FilterFields, f # <<>>
    PROVE  Head(f) \notin Lists /\ Tail(f) \in FilterFields
<1>1. CASE f = <<"string", "options">>
  <2>1. Head(f) = "string" /\ Tail(f) = <<"options">>
    BY <1>1
  <2> QED BY <2>1 DEF FilterFields, Lists
<1>2. CASE f = <<"options">>
  <2>1. Head(f) = "options" /\ Tail(f) = <<>>
    BY <1>2
  <2> QED BY <2>1 DEF FilterFields, Lists
<1>3. CASE f = <<"string">>
  <2>1. Head(f) = "string" /\ Tail(f) = <<>>
    BY <1>3
  <2> QED BY <2>1 DEF FilterFields, Lists
<1> QED BY <1>1, <1>2, <1>3 DEF FilterFields

LEMMA ListInit == Init => ListInv
BY DEF Init, ListInv, Untouched, FieldOrder, ListPlace, InPayload

LEMMA ListStep == ListInv /\ [Next]_vars => ListInv'
<1> SUFFICES ASSUME ListInv, [Next]_vars PROVE ListInv'
  OBVIOUS
<1> USE DEF ListInv, Untouched, FieldOrder, ListPlace, InPayload, HasProperties, Known,
            first, connect, list
<1>1. CASE FixedRefused \/ FieldRefused \/ ListRefused \/ ListFails \/ VariableOverflows
           \/ DataRefused \/ FiltersRefused
  <2>1. Refuse
    BY <1>1 DEF FixedRefused, FieldRefused, ListRefused, ListFails, VariableOverflows,
                DataRefused, FiltersRefused
  <2> QED BY <2>1 DEF Refuse
<1>2. CASE FixedDecoded \/ Arrive
  BY <1>2 DEF FixedDecoded, Arrive
<1>3. CASE VariableStart
  <2>1. kind \in Measured => VariableFields \in HeaderFields /\ VariableFields # <<>>
    <3>1. CASE kind = "PUBLISH"
      <4>1. \/ VariableFields = <<"string", "properties">>
            \/ VariableFields = <<"string", "u16", "properties">>
        BY <3>1 DEF VariableFields, Acks
      <4> QED BY <4>1 DEF HeaderFields
    <3>2. CASE kind \in {"SUBSCRIBE", "UNSUBSCRIBE"}
      <4>1. VariableFields = <<"u16", "properties">>
        BY <3>2 DEF VariableFields, Acks
      <4> QED BY <4>1 DEF HeaderFields
    <3> QED BY <3>1, <3>2 DEF Measured
  <2> QED BY <1>3, <2>1 DEF VariableStart
<1>4. CASE PayloadStart
  <2>1. kind \in Measured => PayloadFields \in FilterFields
    BY DEF PayloadFields, FilterFields, Measured
  <2> QED BY <1>4, <2>1 DEF PayloadStart
<1>5. CASE FieldRead
  <2>1. fields # <<>> /\ Head(fields) # "properties" /\ ~listing /\ fields' = Tail(fields)
    BY <1>5 DEF FieldRead, AtField, Decoding, Lists
  <2>2. fields \in HeaderFields => Tail(fields) \in HeaderFields /\ Tail(fields) # <<>>
    BY <2>1, HeaderTail
  <2>3. fields \in FilterFields => Tail(fields) \in FilterFields
    BY <2>1, FilterTail
  <2>4. UNCHANGED <<kind, version, stage, listing, end, start>> /\ stage \in {"variable", "payload"}
    BY <1>5 DEF FieldRead, AtField, Decoding
  <2>5. kind \in Measured => HasProperties' = HasProperties
    BY <2>4 DEF Measured
  <2>6. FieldOrder'
    BY <2>1, <2>2, <2>3, <2>4
  <2>7. ListPlace'
    <3>1. kind \in Measured /\ stage = "variable" => fields' # <<>>
      BY <2>1, <2>2
    <3> QED BY <2>4, <2>5, <3>1
  <2> QED BY <2>4, <2>6, <2>7
<1>6. CASE ListOpened \/ ListAbsent
  <2>1. /\ fields # <<>> /\ Head(fields) \in Lists /\ fields' = Tail(fields)
        /\ stage \in {"variable", "payload"} /\ ~listing /\ stage' = stage
    BY <1>6 DEF ListOpened, ListAbsent, AtList, Decoding, Lists
  <2>2. fields \in HeaderFields => Tail(fields) = <<>>
    BY <2>1, HeaderTail DEF Lists
  <2>3. fields \notin FilterFields
    BY <2>1, FilterTail
  <2>4. kind \in Measured => stage = "variable" /\ fields' = <<>>
    BY <2>1, <2>2, <2>3
  <2>5. UNCHANGED <<kind, version, stage>> /\ (listing' \/ (~HasProperties /\ ~listing'))
    BY <1>6, <2>1 DEF ListOpened, ListAbsent
  <2>6. kind \in Measured => HasProperties' = HasProperties
    BY <2>5 DEF Measured
  <2>7. FieldOrder'
    BY <2>1, <2>4, <2>5 DEF HeaderFields
  <2>8. ListPlace'
    BY <2>4, <2>5, <2>6
  <2> QED BY <2>1, <2>5, <2>7, <2>8
<1>7. CASE ListClosed \/ PropertyRead
  BY <1>7 DEF ListClosed, PropertyRead
<1>8. CASE VariableDone
  BY <1>8 DEF VariableDone, HeaderDone
<1>9. CASE DataTaken \/ FiltersDone
  BY <1>9 DEF DataTaken, FiltersDone, PayloadRead
<1>10. CASE NextFilter
  BY <1>10 DEF NextFilter, PayloadRead, FilterFields
<1>11. CASE OtherDone
  BY <1>11 DEF OtherDone
<1>12. CASE UNCHANGED vars
  BY <1>12 DEF vars
<1> QED
  BY <1>1, <1>2, <1>3, <1>4, <1>5, <1>6, <1>7, <1>8, <1>9, <1>10, <1>11, <1>12 DEF Next, Poll

\* The payload of a version 5 packet begins exactly where its property list
\* said it ends, for every list length on the wire.
THEOREM PayloadsPlaced == Spec => []PayloadFollowsList
<1>1. ListInv => PayloadFollowsList
  BY DEF ListInv, ListPlace, PayloadFollowsList
<1> QED BY <1>1, ListInit, ListStep, PTL DEF Spec
-----------------------------------------------------------------------------
(* PacketTypeOK *)

\* The fields a decoder goes through are fields, and its properties have names.
LEMMA VariableFieldsType ==
    ASSUME kind \in Kinds
    PROVE  VariableFields \in Seq(Fields)
<1>1. /\ "string" \in Fields /\ "u16" \in Fields /\ "reason" \in Fields
      /\ "level" \in Fields /\ "connect_flags" \in Fields /\ "properties" \in Fields
  BY DEF Fields, Lists
<1>2. CASE kind = "CONNECT"
  <2>1. VariableFields = <<"string", "level", "connect_flags", "u16", "properties">>
    BY <1>2 DEF VariableFields, Acks
  <2> QED BY <1>1, <2>1
<1>3. CASE kind = "PUBLISH"
  <2>1. VariableFields = IF qos = 0 THEN <<"string", "properties">>
                         ELSE <<"string", "u16", "properties">>
    BY <1>3 DEF VariableFields, Acks
  <2> QED BY <1>1, <2>1
<1>4. CASE kind \in {"SUBSCRIBE", "UNSUBSCRIBE"}
  <2>1. VariableFields = <<"u16", "properties">>
    BY <1>4 DEF VariableFields, Acks
  <2> QED BY <1>1, <2>1
<1>5. CASE kind \in Acks
  <2>1. VariableFields = <<"u16">>
    BY <1>5 DEF VariableFields, Acks
  <2> QED BY <1>1, <2>1
<1>6. CASE kind = "PUBREL"
  <2>1. VariableFields = IF remaining = 2 THEN <<"u16">> ELSE <<"u16", "reason", "properties">>
    BY <1>6 DEF VariableFields, Acks
  <2> QED BY <1>1, <2>1
<1>7. CASE kind = "DISCONNECT"
  <2>1. VariableFields = IF remaining = 0 THEN <<>> ELSE <<"reason", "properties">>
    BY <1>7 DEF VariableFields, Acks
  <2> QED BY <1>1, <2>1, EmptySeq
<1> QED BY <1>2, <1>3, <1>4, <1>5, <1>6, <1>7 DEF Kinds, Measured

LEMMA PayloadFieldsType == PayloadFields \in Seq(Fields)
<1>1. {"string", "binary", "options", "will_properties"} \subseteq Fields
  BY DEF Fields, Lists
<1>2. CASE kind = "CONNECT"
  <2> DEFINE will == IF "will" \in flags THEN <<"will_properties", "string", "binary">> ELSE <<>>
             name == IF "user_name" \in flags THEN <<"string">> ELSE <<>>
             word == IF "password" \in flags THEN <<"binary">> ELSE <<>>
  <2>1. <<"string">> \in Seq(Fields) /\ will \in Seq(Fields) /\ name \in Seq(Fields)
        /\ word \in Seq(Fields)
    BY <1>1, EmptySeq
  <2>2. PayloadFields = <<"string">> \o will \o name \o word
    BY <1>2 DEF PayloadFields
  <2> HIDE DEF will, name, word
  <2>3. <<"string">> \o will \in Seq(Fields)
    BY <2>1, ConcatProperties
  <2>4. (<<"string">> \o will) \o name \in Seq(Fields)
    BY <2>1, <2>3, ConcatProperties
  <2>5. ((<<"string">> \o will) \o name) \o word \in Seq(Fields)
    BY <2>1, <2>4, ConcatProperties
  <2> QED BY <2>2, <2>5
<1>3. CASE kind = "SUBSCRIBE"
  <2>1. PayloadFields = <<"string", "options">>
    BY <1>3 DEF PayloadFields
  <2> QED BY <1>1, <2>1
<1>4. CASE kind \notin {"CONNECT", "SUBSCRIBE"}
  <2>1. PayloadFields = <<>>
    BY <1>4 DEF PayloadFields
  <2> QED BY <2>1, EmptySeq
<1> QED BY <1>2, <1>3, <1>4

LEMMA PropertiesNamed == DOMAIN Properties \subseteq PropertyNames
<1>1. \/ Properties \in {PublishProperties, ConnectProperties, WillProperties,
                         PubrelProperties, DisconnectProperties}
      \/ Properties = SubscribeProperties \/ Properties = UnsubscribeProperties
  BY DEF Properties
<1>2. DOMAIN SubscribeProperties \subseteq DOMAIN PublishProperties
      /\ DOMAIN UnsubscribeProperties \subseteq DOMAIN PublishProperties
  BY DEF SubscribeProperties, UnsubscribeProperties, PublishProperties
<1> QED BY <1>1, <1>2, Zenon DEF PropertyNames

\* What PacketTypeOK says beyond Cursor.
FieldsTyped ==
    /\ stage \in {"fixed", "await_variable", "variable", "await_payload", "payload",
                  "accepted", "refused"}
    /\ qos \in 0 .. 2
    /\ version \in Levels \cup {None} /\ level \in Levels \cup {None}
    /\ flags \in SUBSET Flags
    /\ fields \in Seq(Fields)
    /\ listing \in BOOLEAN /\ end \in Nat
    /\ seen \in SUBSET PropertyNames
    /\ payload \in Nat

LEMMA TypedInit == Init => FieldsTyped
<1> SUFFICES ASSUME Init PROVE FieldsTyped
  OBVIOUS
<1>1. fields \in Seq(Fields)
  BY EmptySeq DEF Init
<1>2. qos \in 0 .. 2 /\ version \in Levels \cup {None}
  BY DEF Init
<1> QED BY <1>1, <1>2 DEF Init, FieldsTyped

LEMMA TypedStep == Cursor /\ FieldsTyped /\ [Next]_vars => FieldsTyped'
<1> SUFFICES ASSUME Cursor, FieldsTyped, [Next]_vars PROVE FieldsTyped'
  OBVIOUS
<1> USE DEF FieldsTyped, first, connect, list
<1>0. fields # <<>> => Tail(fields) \in Seq(Fields)
  OBVIOUS
<1>1. CASE FixedRefused \/ FieldRefused \/ ListRefused \/ ListFails \/ VariableOverflows
           \/ DataRefused \/ FiltersRefused
  <2>1. Refuse
    BY <1>1 DEF FixedRefused, FieldRefused, ListRefused, ListFails, VariableOverflows,
                DataRefused, FiltersRefused
  <2> QED BY <2>1 DEF Refuse
<1>2. CASE FixedDecoded \/ Arrive
  BY <1>2 DEF FixedDecoded, Arrive
<1>3. CASE VariableStart
  BY <1>3, VariableFieldsType DEF VariableStart, Cursor
<1>4. CASE PayloadStart
  BY <1>4, PayloadFieldsType DEF PayloadStart
<1>5. CASE FieldRead
  <2>1. fields # <<>> /\ fields' = Tail(fields)
    BY <1>5 DEF FieldRead, AtField
  <2>2. level' \in Levels \cup {None} /\ flags' \in SUBSET Flags
    BY <1>5 DEF FieldRead
  <2> QED BY <1>0, <1>5, <2>1, <2>2 DEF FieldRead
<1>6. CASE ListOpened
  <2>1. PICK s \in Lengths :
            /\ DecodeLength(s).outcome = "Ok"
            /\ Move(DecodeLength(s).size)
            /\ end' = pos + DecodeLength(s).size + DecodeLength(s).value
    BY <1>6 DEF ListOpened
  <2>2. end' \in Nat
    BY <2>1, ListLength, DecoderAssumption, SMTT(30) DEF Cursor
  <2>3. fields # <<>> /\ fields' = Tail(fields)
    BY <1>6 DEF ListOpened, AtList
  <2> QED BY <1>0, <1>6, <2>2, <2>3 DEF ListOpened
<1>7. CASE ListAbsent
  BY <1>0, <1>7 DEF ListAbsent, AtList
<1>8. CASE ListClosed
  BY <1>8 DEF ListClosed
<1>9. CASE PropertyRead
  <2>1. PICK p \in DOMAIN Properties : seen' = seen \cup {p}
    BY <1>9 DEF PropertyRead
  <2>2. p \in PropertyNames
    BY <2>1, PropertiesNamed
  <2>3. seen' \in SUBSET PropertyNames
    BY <2>1, <2>2
  <2> QED BY <1>9, <2>3 DEF PropertyRead
<1>10. CASE VariableDone
  <2>1. remaining \in Nat /\ pos \in 0 .. MaxBuffer
    BY DecoderAssumption DEF Cursor
  <2>2. Wrap(remaining - pos) \in Nat
    BY <2>1, WrapType
  <2> QED BY <1>10, <2>2 DEF VariableDone
<1>11. CASE DataTaken \/ FiltersDone \/ OtherDone
  BY <1>11 DEF DataTaken, FiltersDone, OtherDone
<1>12. CASE NextFilter
  <2>1. <<"string", "options">> \in Seq(Fields) /\ <<"string">> \in Seq(Fields)
    BY DEF Fields
  <2> QED BY <1>12, <2>1 DEF NextFilter
<1>13. CASE UNCHANGED vars
  BY <1>13 DEF vars
<1> QED
  BY <1>1, <1>2, <1>3, <1>4, <1>5, <1>6, <1>7, <1>8, <1>9, <1>10, <1>11, <1>12, <1>13
  DEF Next, Poll

\* Whatever the lengths on the wire, the cursor stays inside the buffer and
\* behind the start of the payload, and the subtractions of mqtt.rs leave a
\* payload_length that is a usize.
THEOREM PacketTyped == Spec => []PacketTypeOK
<1>1. Init => FrameInv /\ FieldsTyped
  BY FrameInit, TypedInit
<1>2. FrameInv /\ FieldsTyped /\ [Next]_vars => FrameInv' /\ FieldsTyped'
  BY FrameStep, TypedStep DEF FrameInv
<1>3. FrameInv /\ FieldsTyped => PacketTypeOK
  BY DEF FrameInv, Cursor, FieldsTyped, PacketTypeOK
<1> QED BY <1>1, <1>2, <1>3, PTL DEF Spec
=============================================================================
