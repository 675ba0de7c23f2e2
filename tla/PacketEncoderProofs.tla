------------------------- MODULE PacketEncoderProofs -------------------------
(***************************************************************************)
(* What the encoder announces is what it writes, for every packet whose    *)
(* header is right, every size of its parts and every split of the write   *)
(* buffer: the peer stays in step (InStep), and a packet that poll_encode  *)
(* finished is whole (PolledWhole).                                        *)
(***************************************************************************)
EXTENDS PacketEncoder, VariableLengthProofs

\* Everything that is sent, the CONNACK of a response included, is a packet.
LEMMA SentPackets ==
    Sent \subseteq Packet
<1>1. \A r \in Responses : ToConnack(r) \in Packet
  BY EncoderAssumption DEF ToConnack, Packet, Response, Kinds
<1> QED BY <1>1, EncoderAssumption DEF Sent

\* The parts of a packet are counted in octets.
LEMMA PartSizes ==
    ASSUME NEW p \in Packet
    PROVE  /\ List(p) \in Nat
           /\ AfterId(p) \in Nat
           /\ Header(p) \in Nat
           /\ Chunk(p) \in Nat
           /\ Announced(p) \in Nat
<1>1. List(p) \in Nat
  BY DEF List, Packet
<1>2. EncodedSize(List(p)) \in 1 .. 4
  BY DEF EncodedSize
<1>3. AfterId(p) \in Nat
  BY <1>1, <1>2 DEF AfterId, WithLength
<1>4. Header(p) \in Nat
  BY <1>3 DEF Header, Packet
<1>5. Chunk(p) \in Nat
  BY DEF Chunk, Packet
<1>6. p.chunk \in Nat /\ p.payload_length \in Nat
  BY DEF Packet
<1>7. Announced(p) \in Nat
  BY <1>1, <1>3, <1>4, <1>6 DEF Announced
<1> QED BY <1>1, <1>3, <1>4, <1>5, <1>7

\* The remaining length is that of the rest of the header and the payload.
LEMMA AnnouncedIsWritten ==
    ASSUME NEW p \in Packet, ~Misannounced(p)
    PROVE  Announced(p) = Header(p) + Chunk(p)
<1>1. List(p) \in Nat /\ AfterId(p) \in Nat /\ Header(p) \in Nat
  BY PartSizes
<1>2. p.kind \in Kinds /\ p.chunk \in Nat /\ p.payload_length \in Nat
  BY DEF Packet
<1>3. CASE p.kind = "CONNACK"
  <2>1. HasList(p) => List(p) < 128
    BY <1>1, <1>3 DEF Misannounced
  <2>2. HasList(p) => AfterId(p) = 1 + List(p)
    BY <1>1, <1>3, <2>1 DEF AfterId, WithLength, EncodedSize, Weight, Acks
  <2> QED BY <1>1, <1>3, <2>2 DEF Announced, Header, Chunk, HasChunk, Chunked, Acks
<1>4. CASE p.kind \in {"SUBACK", "UNSUBACK"}
  BY <1>1, <1>2, <1>4 DEF Announced, Header, Chunk, HasChunk, Chunked, Acks
<1>5. CASE p.kind = "PUBLISH"
  <2>1. p.payload_length = p.chunk
    BY <1>5 DEF Misannounced
  <2> QED BY <1>1, <1>2, <1>5, <2>1 DEF Announced, Chunk, HasChunk, Chunked, Acks
<1>6. CASE p.kind \in Acks
  <2>1. HasList(p) => p.reason
    BY <1>6 DEF Misannounced
  <2> QED BY <1>1, <1>6, <2>1 DEF Announced, Header, Chunk, HasChunk, Chunked, Acks
<1>7. CASE p.kind = "PINGRESP"
  BY <1>7 DEF Announced, Header, HasList, Chunk, HasChunk, Chunked, Acks
<1> QED BY <1>2, <1>3, <1>4, <1>5, <1>6, <1>7 DEF Kinds, Chunked

\* What the peer takes for the packet is what was written of it.
LEMMA FrameIsWritten ==
    ASSUME NEW p \in Packet, ~Misannounced(p)
    PROVE  Frame(p) = HeaderOctets(p) + Chunk(p)
<1> DEFINE n == Announced(p)
<1>1. n \in Nat /\ Header(p) \in Nat /\ Chunk(p) \in Nat
  BY PartSizes
<1>2. TooLong \in Nat
  BY DEF TooLong, Weight
<1>3. n \in 0 .. TooLong - 1
  BY <1>1, <1>2 DEF Misannounced
<1>4. <<>> \in Octets
  BY DEF Octets
<1>5. EncodeLength(n) \in Octets /\ EncodedSize(n) \in 1 .. 4
  BY <1>1, EncodedOctets
<1>6. EncodeLength(n) \o <<>> = EncodeLength(n)
  BY <1>5 DEF Octets
<1>7. DecodeLength(EncodeLength(n)) = [outcome |-> "Ok", size |-> EncodedSize(n), value |-> n]
  BY <1>3, <1>4, <1>6, LengthRoundTrip
<1>8. Frame(p) = 1 + EncodedSize(n) + n
  BY <1>7 DEF Frame
<1>9. n = Header(p) + Chunk(p)
  BY AnnouncedIsWritten
<1> HIDE DEF n
<1>10. HeaderOctets(p) = 1 + EncodedSize(n) + Header(p)
  BY DEF HeaderOctets, n
<1> QED BY <1>1, <1>5, <1>8, <1>9, <1>10

LEMMA FrameSizes ==
    ASSUME NEW p \in Packet
    PROVE  HeaderOctets(p) \in Nat /\ Chunk(p) \in Nat /\ Misannounced(p) \in BOOLEAN
<1>1. Announced(p) \in Nat /\ Header(p) \in Nat /\ Chunk(p) \in Nat
  BY PartSizes
<1>2. EncodedSize(Announced(p)) \in 1 .. 4
  BY DEF EncodedSize
<1> QED BY <1>1, <1>2 DEF HeaderOctets, Misannounced

LEMMA FrameIsInt ==
    ASSUME NEW p \in Packet
    PROVE  Frame(p) \in Int
<1> DEFINE s == EncodeLength(Announced(p))
<1>1. s \in Octets
  BY PartSizes, EncodedOctets
<1> HIDE DEF s
<1>2. DecodeLength(s).outcome = "Ok" => DecodeLength(s).size \in 1 .. 4 /\ DecodeLength(s).value \in Nat
  BY <1>1, DecodeLengthType
<1> QED BY <1>2 DEF Frame, s

-----------------------------------------------------------------------------
(* The counts agree at every step of the writer task and of poll_encode *)

\* What the two properties rest on: the task never leaves Header, a caller of
\* poll_encode has a packet and starts with empty buffers, and a packet without
\* payload is complete with its header.
Agreement ==
    /\ EncoderTypeOK
    /\ InStep
    /\ writer \in {"recv", "write"} => state = "Header"
    /\ writer = "poll" =>
        /\ packet \in Packet
        /\ state = "Header" => buffer = 0 /\ expects = 0
        /\ state # "Header" /\ ~lost /\ ~HasChunk(packet) => expects = buffer
        /\ state = "Done" => ~HasChunk(packet)
    /\ state = "Done" => writer = "poll"

LEMMA InitAgreement ==
    Init => Agreement
<1> SUFFICES ASSUME Init PROVE Agreement
  OBVIOUS
<1>1. packet \in Packet \cup {NoList} /\ (writer = "poll" => packet \in Packet)
  BY SentPackets DEF Init
<1>2. writer \in {"recv", "poll"} /\ state = "Header" /\ buffer = 0 /\ expects = 0
  BY DEF Init
<1>3. lost \in BOOLEAN
  BY Zenon DEF Init
<1> QED BY <1>1, <1>2, <1>3 DEF Agreement, EncoderTypeOK, InStep

LEMMA NextAgreement ==
    Agreement /\ [Next]_vars => Agreement'
<1> SUFFICES ASSUME Agreement, [Next]_vars PROVE Agreement'
  OBVIOUS
<1> USE DEF Agreement, EncoderTypeOK, InStep
<1>1. CASE Encode
  <2>1. PICK p \in Sent :
          IF Fails(p)
          THEN writer' = "returned" /\ UNCHANGED <<buffer, expects, lost>>
          ELSE /\ writer' = "write"
               /\ buffer' = buffer + HeaderOctets(p) + Chunk(p)
               /\ expects' = expects + Frame(p)
               /\ lost' = Misannounced(p)
    BY <1>1 DEF Encode
  <2>2. p \in Packet
    BY SentPackets
  <2>3. CASE Fails(p)
    BY <1>1, <2>1, <2>3 DEF Encode
  <2>4. CASE ~Fails(p)
    <3>1. HeaderOctets(p) \in Nat /\ Chunk(p) \in Nat /\ Misannounced(p) \in BOOLEAN
      BY <2>2, FrameSizes
    <3>2. Frame(p) \in Int
      BY <2>2, FrameIsInt
    <3>3. buffer = expects
      BY <1>1 DEF Encode
    <3>4. ~Misannounced(p) => Frame(p) = HeaderOctets(p) + Chunk(p)
      BY <2>2, FrameIsWritten
    <3>5. ~lost' => expects' = buffer'
      BY <2>1, <2>4, <3>1, <3>3, <3>4
    <3>6. buffer' \in Nat /\ expects' \in Int
      BY <2>1, <2>4, <3>1, <3>2
    <3> QED BY <1>1, <2>1, <2>4, <3>1, <3>5, <3>6 DEF Encode
  <2> QED BY <2>3, <2>4
<1>2. CASE Write
  <2>1. PICK n \in WriteSizes(buffer) :
          n \in 1 .. buffer /\ buffer' = buffer - n /\ expects' = expects - n
    BY <1>2 DEF Write
  <2>2. buffer' \in Nat /\ expects' \in Int /\ (expects = buffer => expects' = buffer')
    BY <2>1
  <2> QED BY <1>2, <2>2 DEF Write
<1>3. CASE WriteFails
  BY <1>3 DEF WriteFails
<1>4. CASE Written
  BY <1>4 DEF Written
<1>5. CASE Shutdown
  BY <1>5 DEF Shutdown
<1>6. CASE PollHeader
  <2>1. packet \in Packet /\ buffer = 0 /\ expects = 0
    BY <1>6 DEF PollHeader
  <2>2. CASE Fails(packet)
    BY <1>6, <2>1, <2>2 DEF PollHeader
  <2>3. CASE ~Fails(packet)
    <3>1. HeaderOctets(packet) \in Nat /\ Chunk(packet) \in Nat /\ Misannounced(packet) \in BOOLEAN
      BY <2>1, FrameSizes
    <3>2. Frame(packet) \in Int
      BY <2>1, FrameIsInt
    <3>3. ~Misannounced(packet) => Frame(packet) = HeaderOctets(packet) + Chunk(packet)
      BY <2>1, FrameIsWritten
    <3>4. ~HasChunk(packet) => Chunk(packet) = 0
      BY DEF Chunk
    <3>5. ~Misannounced(packet) /\ ~HasChunk(packet) => Frame(packet) = HeaderOctets(packet)
      BY <3>1, <3>3, <3>4
    <3> QED BY <1>6, <2>1, <2>3, <3>1, <3>2, <3>5 DEF PollHeader
  <2> QED BY <2>2, <2>3
<1>7. CASE PollChunk
  <2>1. Chunk(packet) \in Nat
    BY <1>7, PartSizes DEF PollChunk
  <2> QED BY <1>7, <2>1 DEF PollChunk
<1>8. CASE PollNoChunk
  BY <1>8 DEF PollNoChunk
<1>9. CASE Drain
  <2>1. expects = buffer => expects' = buffer'
    BY <1>9 DEF Drain
  <2>2. buffer' \in Nat /\ expects' \in Int
    BY <1>9 DEF Drain
  <2>3. state # "Header" /\ (writer = "poll")
    BY <1>9 DEF Drain
  <2> QED BY <1>9, <2>1, <2>2, <2>3 DEF Drain
<1>10. CASE UNCHANGED vars
  BY <1>10 DEF vars
<1> QED BY <1>1, <1>2, <1>3, <1>4, <1>5, <1>6, <1>7, <1>8, <1>9, <1>10 DEF Next, Poll

\* The peer of the writer task stays in step with it as long as no packet
\* announced the wrong length, however write_buf splits the buffer.
THEOREM PeerStaysInStep ==
    Spec => []InStep
<1>1. Agreement => InStep
  BY DEF Agreement
<1> QED BY <1>1, InitAgreement, NextAgreement, PTL DEF Spec

\* A packet that poll_encode finished is whole.
THEOREM FinishedPacketsWhole ==
    Spec => []PolledWhole
<1>1. Agreement => PolledWhole
  BY DEF Agreement, PolledWhole
<1> QED BY <1>1, InitAgreement, NextAgreement, PTL DEF Spec

\* The counts and states of the encoder keep their types.
THEOREM EncoderTyped ==
    Spec => []EncoderTypeOK
<1>1. Agreement => EncoderTypeOK
  BY DEF Agreement
<1> QED BY <1>1, InitAgreement, NextAgreement, PTL DEF Spec
=============================================================================
