-------------------------- MODULE ConnectionProofs --------------------------
(***************************************************************************)
(* Theorems about Connection, for all streams of whole frames, segments,   *)
(* spare capacities, replies and bounds: its types, the channel and its    *)
(* wakeups, the order in which it consumes the octets of its client,       *)
(* serves the packets and answers them; and that it implements             *)
(* RequestReply.                                                           *)
(***************************************************************************)
EXTENDS Connection, SequenceTheorems, TLAPS

\* Every frame's parts have a natural number of octets.
LEMMA ExtentsAreNatural ==
    ASSUME NEW f \in FrameNames
    PROVE  /\ FrameExtent[f].fixed \in Nat
           /\ FrameExtent[f].var \in Nat
           /\ FrameExtent[f].pay \in Nat
           /\ FrameExtent[f].rest \in Nat
           /\ FrameExtent[f].over \in Nat
           /\ VariableReads(f) \in Nat
<1>1. /\ FrameExtent[f].fixed \in Nat
      /\ FrameExtent[f].var \in Nat
      /\ FrameExtent[f].pay \in Nat
      /\ FrameExtent[f].rest \in Nat
      /\ FrameExtent[f].over \in Nat
  BY DEF FrameNames, FrameExtent, Extent, ConnectExtent, ConnectWillExtent,
         PublishExtent, SubscribeExtent, SubscribeFlagsExtent, UnsubscribeExtent,
         AckExtent, PubrelExtent, DisconnectExtent, CodeOnly, PingreqExtent,
         SmallHeader, LargeHeader
<1>. QED
  BY <1>1 DEF VariableReads

\* What Advance leaves of a sequence is a sequence over the same set.
LEMMA AdvanceType ==
    ASSUME NEW S, NEW b \in Seq(S), NEW n \in Nat
    PROVE  Advance(b, n) \in Seq(S)
  BY SubSeqProperties DEF Advance
\* One poll reads octets into a buffer of octets.
LEMMA ReadType ==
    ASSUME DecoderTypeOK, ClientTypeOK, FutureTypeOK, NEW b \in AfterRead, Read(b)
    PROVE  /\ b \in Seq(Octet)
           /\ wire' \in Seq(Octet)
           /\ onReadable' \in BOOLEAN
<1>1. ASSUME NEW n \in 1 .. Len(wire)
      PROVE  SubSeq(wire, 1, n) \in Seq(Octet)
  BY <1>1, SubSeqProperties DEF ClientTypeOK
<1>2. b \in Seq(Octet)
  BY <1>1, ConcatProperties DEF AfterRead, DecoderTypeOK
<1>3. CASE wire # <<>>
  <2>1. PICK spare \in SpareMin .. SpareMax :
            wire' = Advance(wire, IF spare < Len(wire) THEN spare ELSE Len(wire))
    BY <1>3 DEF Read
  <2>2. (IF spare < Len(wire) THEN spare ELSE Len(wire)) \in Nat
    BY SpareAssumption, LenProperties DEF ClientTypeOK
  <2>3. wire' \in Seq(Octet)
    BY <2>1, <2>2, AdvanceType DEF ClientTypeOK
  <2>. QED
    BY <1>2, <1>3, <2>3 DEF Read, FutureTypeOK
<1>4. CASE wire = <<>>
  BY <1>2, <1>4 DEF Read, ClientTypeOK
<1>. QED
  BY <1>3, <1>4

\* Every way through poll_decode keeps the decoder well typed, and a packet it
\* returns is one whose fixed header was decoded.
LEMMA DecodeType ==
    ASSUME DecoderTypeOK, NEW b \in Seq(Octet),
           DecodeIdle(b) \/ DecodeAgain(b) \/ DecodePacket(b) \/ DecodeRejects(b)
    PROVE  /\ DecoderTypeOK'
           /\ DecodePacket(b) => current \in Octet
<1>1. CASE DecodeIdle(b) \/ DecodeShort(b)
  BY <1>1 DEF DecodeIdle, DecodeShort, DecoderTypeOK, DecodePacket, DecodeBodiless,
              DecodePayload
<1>2. CASE DecodeFixed(b)
  <2>1. b[1] \in Octet
    BY <1>2, ElementOfSeq, LenProperties DEF DecodeFixed
  <2>2. Advance(b, FrameExtent[b[1].frame].fixed) \in Seq(Octet)
    BY <2>1, AdvanceType, ExtentsAreNatural DEF Octet
  <2>. QED
    BY <1>2, <2>1, <2>2 DEF DecodeFixed, DecoderTypeOK, DecoderStates, DecodePacket,
                            DecodeBodiless, DecodePayload
<1>3. CASE DecodeVariable(b) \/ DecodeBodiless(b)
  <2>1. current \in Octet
    BY <1>3 DEF DecodeVariable, DecodeBodiless, DecoderTypeOK
  <2>2. VariableReads(current.frame) \in Nat
    BY <2>1, ExtentsAreNatural DEF Octet
  <2>3. Advance(b, VariableReads(current.frame)) \in Seq(Octet)
    BY <2>2, AdvanceType
  <2>4. Counted \in Nat
    BY <2>2 DEF Counted, DecoderTypeOK
  <2>. QED
    BY <1>3, <2>1, <2>3, <2>4 DEF DecodeVariable, DecodeBodiless, DecoderTypeOK, DecoderStates
<1>4. CASE DecodePayload(b)
  <2>1. current \in Octet
    BY <1>4 DEF DecodePayload, DecoderTypeOK
  <2>2. Advance(b, FrameExtent[current.frame].pay) \in Seq(Octet)
    BY <2>1, AdvanceType, ExtentsAreNatural DEF Octet
  <2>. QED
    BY <1>4, <2>1, <2>2 DEF DecodePayload, DecoderTypeOK, DecoderStates
<1>5. CASE DecodeRejects(b)
  <2>1. DecoderTypeOK'
    BY <1>5, EmptySeq DEF DecodeRejects, DecoderTypeOK
  <2>2. DecodePacket(b) => current \in Octet
    BY DEF DecodePacket, DecodeBodiless, DecodePayload, DecoderTypeOK
  <2>. QED
    BY <2>1, <2>2
<1>. QED
  BY <1>1, <1>2, <1>3, <1>4, <1>5 DEF DecodeAgain, DecodePacket
-----------------------------------------------------------------------------
\* Type correctness needs that an answer has a request: once the connection has
\* left PreConnection, a request was served.
Asked == cstate # "PreConnection" => served # <<>>

TypeInvariant == ConnectionTypeOK /\ Asked

LEMMA TypeInit == Init => TypeInvariant
<1> SUFFICES ASSUME Init PROVE TypeInvariant
  OBVIOUS
<1>1. DecoderTypeOK
  BY EmptySeq DEF Init, DecoderInit, DecoderTypeOK, DecoderStates
<1>2. ClientTypeOK
  BY EmptySeq, StreamsAssumption DEF Init, ClientTypeOK
<1>3. FutureTypeOK /\ RegistryTypeOK
  BY EmptySeq DEF Init, FutureTypeOK, RegistryTypeOK, States, ReadingStates
<1>4. ChannelTypeOK /\ HistoryTypeOK
  BY EmptySeq DEF Init, ChannelTypeOK, HistoryTypeOK
<1>. QED
  BY <1>1, <1>2, <1>3, <1>4 DEF Init, TypeInvariant, ConnectionTypeOK, Asked

\* Appending to the channel or to a history of messages.
LEMMA TrySendType ==
    ASSUME ChannelTypeOK, HistoryTypeOK, NEW m \in Message, TrySend(m)
    PROVE  /\ queue' \in Seq(Message)
           /\ accepted' \in Seq(Message)
           /\ dropped' \in SUBSET Message
<1>1. CASE Full
  BY <1>1 DEF TrySend, ChannelTypeOK, HistoryTypeOK
<1>2. CASE ~Full
  <2>1. queue' = Append(queue, m) /\ accepted' = Append(accepted, m) /\ UNCHANGED dropped
    BY <1>2 DEF TrySend
  <2>. QED
    BY <2>1, AppendProperties DEF ChannelTypeOK, HistoryTypeOK
<1>. QED
  BY <1>1, <1>2 DEF Full

LEMMA TypeStep == TypeInvariant /\ [Next]_vars => TypeInvariant'
<1> SUFFICES ASSUME TypeInvariant, [Next]_vars
             PROVE  TypeInvariant'
  OBVIOUS
<1> USE DEF TypeInvariant, ConnectionTypeOK
<1>1. CASE ClientSend
  <2>1. PICK n \in 1 .. Len(unsent) : /\ wire' = wire \o SubSeq(unsent, 1, n)
                                      /\ unsent' = Advance(unsent, n)
    BY <1>1 DEF ClientSend
  <2>2. unsent' \in Seq(Octet)
    BY <2>1, AdvanceType DEF ClientTypeOK
  <2>3. SubSeq(unsent, 1, n) \in Seq(Octet)
    BY SubSeqProperties DEF ClientTypeOK
  <2>4. wire' \in Seq(Octet)
    BY <2>1, <2>3, ConcatProperties DEF ClientTypeOK
  <2>5. FutureTypeOK'
    BY <1>1 DEF ClientSend, Arrive, FutureTypeOK
  <2>6. UNCHANGED <<stream, fin, decoderVars, registry, channel, history, cstate>>
    BY <1>1 DEF ClientSend, Arrive
  <2>. QED
    BY <2>2, <2>4, <2>5, <2>6 DEF DecoderTypeOK, ClientTypeOK, RegistryTypeOK,
       ChannelTypeOK, HistoryTypeOK, Asked, decoderVars, registry, channel, history
<1>2. CASE ClientClose
  <2>1. FutureTypeOK'
    BY <1>2 DEF ClientClose, Arrive, FutureTypeOK
  <2>2. fin' \in BOOLEAN
    BY <1>2 DEF ClientClose
  <2>3. UNCHANGED <<stream, unsent, wire, decoderVars, registry, channel, history, cstate>>
    BY <1>2 DEF ClientClose, Arrive
  <2>. QED
    BY <2>1, <2>2, <2>3 DEF DecoderTypeOK, ClientTypeOK, RegistryTypeOK,
       ChannelTypeOK, HistoryTypeOK, Asked, decoderVars, registry, channel, history
<1>3. CASE Services
  <2>1. reply' \in Seq(ReplyKinds)
    BY <1>3, RepliesAssumption DEF Services, ConnectServiceAccepts, ServiceReplies,
       ServiceFails, FutureTypeOK
  <2>2. FutureTypeOK'
    BY <1>3, <2>1 DEF Services, ConnectServiceAccepts, ServiceReplies, ServiceFails,
       Finish, FutureTypeOK
  <2>3. RegistryTypeOK'
    BY <1>3 DEF Services, ConnectServiceAccepts, ServiceReplies, ServiceFails,
       RegistryTypeOK, registry
  <2>4. UNCHANGED <<decoderVars, client, channel, history, cstate>>
    BY <1>3 DEF Services, ConnectServiceAccepts, ServiceReplies, ServiceFails, Finish
  <2>. QED
    BY <2>2, <2>3, <2>4 DEF DecoderTypeOK, ClientTypeOK, ChannelTypeOK,
       HistoryTypeOK, Asked, decoderVars, client, channel, history
<1>4. CASE PollEof \/ PollReadError \/ PollDisconnect \/ PollClosed \/ PollCallFailed
  <2>1. FutureTypeOK' /\ UNCHANGED <<decoderVars, registry, channel, history, cstate>>
    BY <1>4 DEF PollEof, PollReadError, PollDisconnect, PollClosed, PollCallFailed,
       Resolve, FutureTypeOK
  <2>2. ClientTypeOK'
    BY <1>4, EmptySeq DEF PollEof, PollReadError, PollDisconnect, PollClosed,
       PollCallFailed, ClientTypeOK, client
  <2>. QED
    BY <2>1, <2>2 DEF DecoderTypeOK, RegistryTypeOK, ChannelTypeOK, HistoryTypeOK,
       Asked, decoderVars, registry, channel, history
<1>5. CASE PollPending \/ PollRejected \/ PollUnexpected
  <2>1. PICK b \in AfterRead :
            /\ Read(b)
            /\ DecodeIdle(b) \/ DecodeAgain(b) \/ DecodePacket(b) \/ DecodeRejects(b)
    BY <1>5 DEF PollPending, PollRejected, PollUnexpected
  <2>2. DecoderTypeOK' /\ wire' \in Seq(Octet) /\ onReadable' \in BOOLEAN
    BY <2>1, ReadType, DecodeType
  <2>3. FutureTypeOK'
    BY <1>5, <2>2 DEF PollPending, PollRejected, PollUnexpected, FutureTypeOK
  <2>4. UNCHANGED <<stream, unsent, fin, registry, channel, history, cstate>>
    BY <1>5 DEF PollPending, PollRejected, PollUnexpected
  <2>. QED
    BY <2>2, <2>3, <2>4 DEF ClientTypeOK, RegistryTypeOK, ChannelTypeOK,
       HistoryTypeOK, Asked, registry, channel, history
<1>6. CASE PollPacket
  <2>1. PICK b \in AfterRead : Read(b) /\ DecodePacket(b)
    BY <1>6 DEF PollPacket
  <2>2. /\ DecoderTypeOK' /\ wire' \in Seq(Octet) /\ onReadable' \in BOOLEAN
        /\ current \in Octet
    BY <2>1, ReadType, DecodeType
  <2>3. served' \in Seq(Nat) /\ served' # <<>>
    BY <1>6, <2>2, AppendProperties DEF PollPacket, HistoryTypeOK, Octet
  <2>. QED
    BY <1>6, <2>2, <2>3 DEF PollPacket, ClientTypeOK, FutureTypeOK, RegistryTypeOK,
       ChannelTypeOK, HistoryTypeOK, Asked, States, ProcessingStates, registry, channel
<1>7. CASE PollCallPending \/ PollCallFinished \/ PollWritten
  <2>1. FutureTypeOK' /\ UNCHANGED <<decoderVars, client, registry, channel, history>>
    BY <1>7 DEF PollCallPending, PollCallFinished, PollWritten, FutureTypeOK, States,
       AnsweringStates, ReadingStates, ProcessingStates
  <2>2. cstate # "PreConnection"
    BY <1>7 DEF PollCallPending, PollCallFinished, PollWritten, ProcessingStates
  <2>. QED
    BY <2>1, <2>2 DEF DecoderTypeOK, ClientTypeOK, RegistryTypeOK, ChannelTypeOK,
       HistoryTypeOK, Asked, decoderVars, client, registry, channel, history
<1>8. CASE PollConnack
  <2>1. Answer("CONNACK", 1) \in Message
    BY <1>8, ElementOfSeq, LenProperties, EmptySeq
    DEF PollConnack, Answer, Message, MessageKinds, Last, HistoryTypeOK, Asked
  <2>2. /\ queue' \in Seq(Message) /\ accepted' \in Seq(Message)
        /\ dropped' \in SUBSET Message
    BY <1>8, <2>1, TrySendType DEF PollConnack
  <2>. QED
    BY <1>8, <2>2 DEF PollConnack, DecoderTypeOK, ClientTypeOK, FutureTypeOK,
       RegistryTypeOK, ChannelTypeOK, HistoryTypeOK, Asked, States, ReadingStates,
       decoderVars, client, registry
<1>9. CASE PollWrite
  <2>1. /\ Head(reply) \in ReplyKinds
        /\ Len(reply) \in Nat
        /\ reply' \in Seq(ReplyKinds)
    BY <1>9, HeadTailProperties, LenProperties DEF PollWrite, FutureTypeOK
  <2>2. CASE Head(reply) = "NOOPERATION"
    BY <1>9, <2>1, <2>2 DEF PollWrite, DecoderTypeOK, ClientTypeOK, FutureTypeOK,
       RegistryTypeOK, ChannelTypeOK, HistoryTypeOK, Asked, decoderVars, client,
       registry
  <2>3. CASE Head(reply) # "NOOPERATION"
    <3>1. Answer(Head(reply), Len(reply)) \in Message
      BY <1>9, <2>1, <2>3, ElementOfSeq, LenProperties, EmptySeq
      DEF PollWrite, Answer, Message, MessageKinds, ReplyKinds, Last, HistoryTypeOK,
          Asked
    <3>2. /\ queue' \in Seq(Message) /\ accepted' \in Seq(Message)
          /\ dropped' \in SUBSET Message
      BY <1>9, <2>3, <3>1, TrySendType DEF PollWrite
    <3>. QED
      BY <1>9, <2>1, <3>2 DEF PollWrite, DecoderTypeOK, ClientTypeOK, FutureTypeOK,
         RegistryTypeOK, ChannelTypeOK, HistoryTypeOK, Asked, decoderVars, client,
         registry
  <2>. QED
    BY <2>2, <2>3
<1>10. CASE Deliver
  <2>1. deliveries' \in Nat /\ [re |-> 0, kind |-> "DELIVERY", number |-> deliveries'] \in Message
    BY <1>10 DEF Deliver, ChannelTypeOK, Message, MessageKinds
  <2>2. /\ queue' \in Seq(Message) /\ accepted' \in Seq(Message)
        /\ dropped' \in SUBSET Message
    <3>1. CASE Closed \/ Full
      BY <1>10, <2>1, <3>1 DEF Deliver, ChannelTypeOK, HistoryTypeOK
    <3>2. CASE ~(Closed \/ Full)
      <4> DEFINE m == [re |-> 0, kind |-> "DELIVERY", number |-> deliveries']
      <4>1. /\ queue' = Append(queue, m)
            /\ accepted' = Append(accepted, m)
            /\ UNCHANGED dropped
        BY <1>10, <3>2 DEF Deliver
      <4>. QED
        BY <2>1, <4>1, AppendProperties DEF ChannelTypeOK, HistoryTypeOK
    <3>. QED
      BY <3>1, <3>2
  <2>. QED
    BY <1>10, <2>1, <2>2 DEF Deliver, DecoderTypeOK, ClientTypeOK, FutureTypeOK,
       RegistryTypeOK, ChannelTypeOK, HistoryTypeOK, Asked, decoderVars, client,
       future, registry
<1>11. CASE Unregister
  <2>1. RegistryTypeOK' /\ UNCHANGED <<decoderVars, client, future, channel, history>>
    BY <1>11 DEF Unregister, RegistryTypeOK
  <2>. QED
    BY <2>1 DEF DecoderTypeOK, ClientTypeOK, FutureTypeOK, ChannelTypeOK,
       HistoryTypeOK, Asked, decoderVars, client, future, channel, history
<1>12. CASE Writer
  <2>1. CASE WriterRecv
    <3>1. queue' \in Seq(Message) /\ writing' \in Seq(Message)
      BY <2>1, HeadTailProperties DEF WriterRecv, ChannelTypeOK
    <3>. QED
      BY <2>1, <3>1 DEF WriterRecv, DecoderTypeOK, ClientTypeOK, FutureTypeOK,
         RegistryTypeOK, ChannelTypeOK, HistoryTypeOK, Asked, decoderVars, client,
         future, registry, history
  <2>2. CASE WriterRefuses \/ WriterFails
    <3>1. ChannelTypeOK' /\ UNCHANGED <<decoderVars, client, future, registry, history>>
      BY <2>2, EmptySeq DEF WriterRefuses, WriterFails, WriterReturns, ChannelTypeOK
    <3>. QED
      BY <3>1 DEF DecoderTypeOK, ClientTypeOK, FutureTypeOK, RegistryTypeOK,
         HistoryTypeOK, Asked, decoderVars, client, future, registry, history
  <2>3. CASE WriterWrites
    <3>1. inbox' \in Seq(Message) /\ writing' \in Seq(Message)
      BY <2>3, EmptySeq, ConcatProperties DEF WriterWrites, ChannelTypeOK
    <3>. QED
      BY <2>3, <3>1 DEF WriterWrites, DecoderTypeOK, ClientTypeOK, FutureTypeOK,
         RegistryTypeOK, ChannelTypeOK, HistoryTypeOK, Asked, decoderVars, client,
         future, registry, history
  <2>4. CASE WriterShutdown
    BY <2>4 DEF WriterShutdown, DecoderTypeOK, ClientTypeOK, FutureTypeOK,
       RegistryTypeOK, ChannelTypeOK, HistoryTypeOK, Asked, decoderVars, client,
       future, registry, history
  <2>. QED
    BY <1>12, <2>1, <2>2, <2>3, <2>4 DEF Writer
<1>13. CASE UNCHANGED vars
  BY <1>13 DEF vars, DecoderTypeOK, ClientTypeOK, FutureTypeOK, RegistryTypeOK,
     ChannelTypeOK, HistoryTypeOK, Asked, decoderVars, client, future, registry,
     channel, history
<1>. QED
  BY <1>1, <1>2, <1>3, <1>4, <1>5, <1>6, <1>7, <1>8, <1>9, <1>10, <1>11, <1>12, <1>13
  DEF Next, Poll, Client

\* Type correctness of the connection, its decoder, channel and writer.
THEOREM ConnectionTypeCorrect == Spec => []ConnectionTypeOK
<1>1. TypeInvariant => ConnectionTypeOK
  BY DEF TypeInvariant
<1>. QED
  BY <1>1, TypeInit, TypeStep, PTL DEF Spec
-----------------------------------------------------------------------------
\* A read that finds octets leaves the buffer non-empty.
LEMMA ReadFillsBuffer ==
    ASSUME DecoderTypeOK, ClientTypeOK, NEW b, Read(b), b = <<>>
    PROVE  wire = <<>> /\ buf = <<>> /\ ~fin /\ onReadable' = TRUE /\ wire' = wire
<1>1. wire = <<>>
  <2> SUFFICES ASSUME wire # <<>> PROVE FALSE
    OBVIOUS
  <2>1. PICK n \in 1 .. Len(wire) : b = buf \o SubSeq(wire, 1, n)
    <3>1. PICK spare \in SpareMin .. SpareMax :
              b = buf \o SubSeq(wire, 1, IF spare < Len(wire) THEN spare ELSE Len(wire))
      BY DEF Read
    <3>2. Len(wire) \in Nat \ {0}
      BY EmptySeq DEF ClientTypeOK
    <3>3. (IF spare < Len(wire) THEN spare ELSE Len(wire)) \in 1 .. Len(wire)
      BY <3>2, SpareAssumption
    <3>. QED
      BY <3>1, <3>3
  <2>2. SubSeq(wire, 1, n) \in Seq(Octet) /\ Len(SubSeq(wire, 1, n)) = n
    BY SubSeqProperties DEF ClientTypeOK
  <2>3. Len(b) = Len(buf) + n
    BY <2>1, <2>2, ConcatProperties DEF DecoderTypeOK
  <2>. QED
    BY <2>3, EmptySeq, LenProperties DEF DecoderTypeOK
<1>. QED
  BY <1>1 DEF Read

LEMMA WakeupStep == TypeInvariant /\ NoLostWakeup /\ [Next]_vars => NoLostWakeup'
<1> SUFFICES ASSUME TypeInvariant, NoLostWakeup, [Next]_vars
             PROVE  NoLostWakeup'
  OBVIOUS
<1> USE DEF TypeInvariant, ConnectionTypeOK
<1>1. CASE Client
  <2>1. Arrive /\ UNCHANGED decoderVars
    BY <1>1 DEF Client, ClientSend, ClientClose
  <2>. QED
    BY <2>1 DEF Arrive, NoLostWakeup, FutureTypeOK, decoderVars
<1>2. CASE Services
  <2>1. /\ woken' = (woken \/ (onCall /\ result = "running"))
        /\ UNCHANGED <<cstate, onReadable, result, buf, wire, fin>>
    BY <1>2 DEF Services, ConnectServiceAccepts, ServiceReplies, ServiceFails, Finish,
       decoderVars, client
  <2>. QED
    BY <2>1 DEF NoLostWakeup, FutureTypeOK
<1>3. CASE PollPending
  <2>1. PICK b \in AfterRead : /\ Read(b)
                               /\ \/ DecodeIdle(b) /\ woken' = FALSE
                                  \/ DecodeAgain(b) /\ woken' = TRUE
    BY <1>3 DEF PollPending
  <2>2. CASE DecodeIdle(b)
    <3>1. b = <<>> /\ buf' = <<>>
      BY <2>2 DEF DecodeIdle
    <3>2. wire' = <<>> /\ ~fin /\ onReadable' = TRUE
      BY <2>1, <3>1, ReadFillsBuffer
    <3>. QED
      BY <1>3, <3>1, <3>2 DEF PollPending, NoLostWakeup
  <2>3. CASE woken' = TRUE
    BY <2>3 DEF NoLostWakeup
  <2>. QED
    BY <2>1, <2>2, <2>3
<1>4. CASE PollCallPending
  BY <1>4 DEF PollCallPending, NoLostWakeup
<1>5. CASE PollPacket \/ PollCallFinished \/ PollConnack \/ PollWritten
  BY <1>5 DEF PollPacket, PollCallFinished, PollConnack, PollWritten, NoLostWakeup
<1>6. CASE PollWrite
  BY <1>6 DEF PollWrite, Polled, NoLostWakeup
<1>7. CASE PollEof \/ PollReadError \/ PollRejected \/ PollUnexpected \/ PollCallFailed
           \/ PollDisconnect \/ PollClosed
  BY <1>7 DEF PollEof, PollReadError, PollRejected, PollUnexpected, PollCallFailed,
     PollDisconnect, PollClosed, Resolve, NoLostWakeup
<1>8. CASE Writer \/ Deliver \/ Unregister \/ UNCHANGED vars
  <2>1. UNCHANGED <<decoderVars, client, future>>
    BY <1>8 DEF Writer, WriterRecv, WriterRefuses, WriterWrites, WriterFails,
       WriterReturns, WriterShutdown, Deliver, Unregister, vars
  <2>. QED
    BY <2>1 DEF NoLostWakeup, decoderVars, client, future
<1>. QED
  BY <1>1, <1>2, <1>3, <1>4, <1>5, <1>6, <1>7, <1>8 DEF Next, Poll

\* No poll and no event leaves the connection task asleep with work to do:
\* whatever combination of early returns poll and poll_decode take.
THEOREM ConnectionNeverLosesWakeup == Spec => []NoLostWakeup
<1>1. Init => NoLostWakeup
  BY DEF Init, NoLostWakeup
<1>. QED
  BY <1>1, TypeInit, TypeStep, WakeupStep, PTL DEF Spec
-----------------------------------------------------------------------------
\* QueueIsFifo is inductive once it is known when the writer's buffer is empty.
FifoInvariant ==
    /\ QueueIsFifo
    /\ writer # "write" => writing = <<>>

\* The first of two concatenated sequences is a prefix of the result.
LEMMA ConcatPrefix ==
    ASSUME NEW S, NEW s \in Seq(S), NEW t \in Seq(S)
    PROVE  IsPrefix(s, s \o t)
<1>1. /\ s \o t \in Seq(S) /\ Len(s \o t) = Len(s) + Len(t)
      /\ \A i \in 1 .. Len(s) + Len(t) :
            (s \o t)[i] = IF i <= Len(s) THEN s[i] ELSE t[i - Len(s)]
  BY ConcatProperties
<1>2. Len(s) \in Nat /\ Len(t) \in Nat
  BY LenProperties
<1>3. \A i \in 1 .. Len(s) : (s \o t)[i] = s[i] /\ s[i] \in S
  BY <1>1, <1>2, ElementOfSeq
<1>4. /\ SubSeq(s, 1, Len(s)) \in Seq(S)
      /\ Len(SubSeq(s, 1, Len(s))) = Len(s)
      /\ \A i \in 1 .. Len(s) : SubSeq(s, 1, Len(s))[i] = s[i]
  BY <1>2, <1>3, SubSeqProperties
<1>5. /\ SubSeq(s \o t, 1, Len(s)) \in Seq(S)
      /\ Len(SubSeq(s \o t, 1, Len(s))) = Len(s)
      /\ \A i \in 1 .. Len(s) : SubSeq(s \o t, 1, Len(s))[i] = s[i]
  BY <1>2, <1>3, SubSeqProperties
<1>6. SubSeq(s, 1, Len(s)) = SubSeq(s \o t, 1, Len(s))
  BY <1>4, <1>5, SeqEqual
<1>. QED
  BY <1>1, <1>2, <1>6 DEF IsPrefix

\* A history and the three places its messages are in, oldest first.
IsSpread(all, first, second, third) == all = first \o second \o third

\* A message appended to the last place is appended to the history.
LEMMA AppendKeepsSpread ==
    ASSUME NEW S, NEW s \in Seq(S), NEW t \in Seq(S), NEW u \in Seq(S), NEW e \in S,
           NEW all, IsSpread(all, s, t, u)
    PROVE  IsSpread(Append(all, e), s, t, Append(u, e))
<1>1. Append((s \o t) \o u, e) = (s \o t) \o Append(u, e)
  BY SMTT(60)
<1>. QED
  BY <1>1, Zenon DEF IsSpread

\* A message that enters the channel enters the history at the same end.
LEMMA AppendKeepsFifo ==
    ASSUME TypeInvariant, FifoInvariant, ~Closed, NEW m \in Message,
           queue' = Append(queue, m), accepted' = Append(accepted, m),
           UNCHANGED <<writer, writing, inbox>>
    PROVE  FifoInvariant'
<1>1. /\ inbox \in Seq(Message) /\ writing \in Seq(Message)
      /\ queue \in Seq(Message)
  BY DEF TypeInvariant, ConnectionTypeOK, ChannelTypeOK
<1>2. IsSpread(accepted, inbox, writing, queue)
  BY DEF FifoInvariant, QueueIsFifo, IsSpread, Closed
<1>3. IsSpread(Append(accepted, m), inbox, writing, Append(queue, m))
  BY <1>1, <1>2, AppendKeepsSpread, Zenon
<1>4. accepted' = inbox' \o writing' \o queue'
  BY <1>3, Zenon DEF IsSpread
<1>. QED
  BY <1>4 DEF FifoInvariant, QueueIsFifo, Closed

LEMMA FifoStep == TypeInvariant /\ FifoInvariant /\ [Next]_vars => FifoInvariant'
<1> SUFFICES ASSUME TypeInvariant, FifoInvariant, [Next]_vars
             PROVE  FifoInvariant'
  OBVIOUS
<1>1. /\ inbox \in Seq(Message) /\ writing \in Seq(Message) /\ queue \in Seq(Message)
      /\ accepted \in Seq(Message) /\ inbox \o writing \in Seq(Message)
  BY ConcatProperties DEF TypeInvariant, ConnectionTypeOK, ChannelTypeOK, HistoryTypeOK
<1>2. ASSUME NEW m \in Message, TrySend(m), UNCHANGED <<writer, writing, inbox>>
      PROVE  FifoInvariant'
  <2>1. CASE Full
    BY <1>2, <2>1 DEF TrySend, FifoInvariant, QueueIsFifo, Closed
  <2>2. CASE ~Full
    BY <1>2, <2>2, AppendKeepsFifo DEF TrySend
  <2>. QED
    BY <2>1, <2>2
<1>3. CASE PollConnack
  <2>1. Answer("CONNACK", 1) \in Message
    BY <1>3, ElementOfSeq, LenProperties, EmptySeq
    DEF PollConnack, Answer, Message, MessageKinds, Last, HistoryTypeOK, Asked,
        TypeInvariant, ConnectionTypeOK
  <2>. QED
    BY <1>2, <1>3, <2>1 DEF PollConnack
<1>4. CASE PollWrite
  <2>1. CASE Head(reply) = "NOOPERATION"
    BY <1>4, <2>1 DEF PollWrite, FifoInvariant, QueueIsFifo, Closed
  <2>2. CASE Head(reply) # "NOOPERATION"
    <3>1. Head(reply) \in ReplyKinds /\ Len(reply) \in Nat
      BY <1>4, HeadTailProperties, LenProperties
      DEF PollWrite, TypeInvariant, ConnectionTypeOK, FutureTypeOK
    <3>2. Answer(Head(reply), Len(reply)) \in Message
      BY <1>4, <2>2, <3>1, ElementOfSeq, LenProperties, EmptySeq
      DEF PollWrite, Answer, Message, MessageKinds, ReplyKinds, Last, HistoryTypeOK,
          Asked, TypeInvariant, ConnectionTypeOK
    <3>. QED
      BY <1>2, <1>4, <2>2, <3>2 DEF PollWrite
  <2>. QED
    BY <2>1, <2>2
<1>5. CASE Deliver
  <2> DEFINE m == [re |-> 0, kind |-> "DELIVERY", number |-> deliveries']
  <2>1. m \in Message
    BY <1>5 DEF Deliver, Message, MessageKinds, TypeInvariant, ConnectionTypeOK,
                ChannelTypeOK
  <2>2. CASE Closed \/ Full
    BY <1>5, <2>2 DEF Deliver, FifoInvariant, QueueIsFifo, Closed
  <2>3. CASE ~(Closed \/ Full)
    <3>1. /\ queue' = Append(queue, m)
          /\ accepted' = Append(accepted, m)
          /\ UNCHANGED <<writer, writing, inbox>>
      BY <1>5, <2>3 DEF Deliver
    <3>. QED
      BY <2>1, <2>3, <3>1, AppendKeepsFifo
  <2>. QED
    BY <2>2, <2>3
<1>6. CASE WriterRecv
  <2>1. writing = <<>> /\ ~Closed /\ accepted = inbox \o writing \o queue
    BY <1>6 DEF WriterRecv, FifoInvariant, QueueIsFifo, Closed
  <2>2. queue = <<Head(queue)>> \o Tail(queue)
    BY <1>1, <1>6, HeadTailProperties, ConcatProperties, SeqEqual DEF WriterRecv
  <2>3. <<Head(queue)>> \in Seq(Message) /\ Tail(queue) \in Seq(Message)
    BY <1>1, <1>6, HeadTailProperties DEF WriterRecv
  <2>4. inbox \o writing = inbox
    BY <1>1, <2>1, ConcatEmptySeq
  <2>5. inbox \o queue = (inbox \o <<Head(queue)>>) \o Tail(queue)
    BY <1>1, <2>2, <2>3, ConcatAssociative
  <2>. QED
    BY <1>6, <2>1, <2>4, <2>5
    DEF WriterRecv, FifoInvariant, QueueIsFifo, Closed, history
<1>7. CASE WriterWrites
  <2>1. accepted = inbox \o writing \o queue
    BY <1>7 DEF WriterWrites, FifoInvariant, QueueIsFifo, Closed
  <2>2. inbox' \o writing' = inbox \o writing
    BY <1>1, <1>7, ConcatEmptySeq DEF WriterWrites
  <2>. QED
    BY <1>7, <2>1, <2>2 DEF WriterWrites, FifoInvariant, QueueIsFifo, Closed, history
<1>8. CASE WriterRefuses \/ WriterFails
  <2>1. accepted = inbox \o writing \o queue
    BY <1>8 DEF WriterRefuses, WriterFails, FifoInvariant, QueueIsFifo
  <2>2. accepted = inbox \o (writing \o queue) /\ writing \o queue \in Seq(Message)
    BY <1>1, <2>1, ConcatAssociative, ConcatProperties
  <2>3. IsPrefix(inbox, accepted)
    BY <1>1, <2>2, ConcatPrefix
  <2>4. writer' = "returned" /\ UNCHANGED <<inbox, accepted>> /\ writing' = <<>>
    BY <1>8 DEF WriterRefuses, WriterFails, WriterReturns, history
  <2>. QED
    BY <2>3, <2>4 DEF FifoInvariant, QueueIsFifo
<1>11. CASE WriterShutdown
  BY <1>11 DEF WriterShutdown, FifoInvariant, QueueIsFifo, history
<1>9. CASE Client \/ Services \/ Unregister \/ UNCHANGED vars
  <2>1. UNCHANGED <<channel, history>>
    BY <1>9 DEF Client, ClientSend, ClientClose, Services, ConnectServiceAccepts,
       ServiceReplies, ServiceFails, Finish, Unregister, vars
  <2>. QED
    BY <2>1 DEF channel, history, FifoInvariant, QueueIsFifo, Closed
<1>10. CASE PollEof \/ PollReadError \/ PollPending \/ PollRejected \/ PollPacket
            \/ PollUnexpected \/ PollCallPending \/ PollCallFinished \/ PollCallFailed
            \/ PollWritten \/ PollDisconnect \/ PollClosed
  <2>1. UNCHANGED <<channel, accepted>>
    BY <1>10 DEF PollEof, PollReadError, PollPending, PollRejected, PollPacket,
       PollUnexpected, PollCallPending, PollCallFinished, PollCallFailed, PollWritten,
       PollDisconnect, PollClosed, history
  <2>. QED
    BY <2>1 DEF channel, FifoInvariant, QueueIsFifo, Closed
<1>. QED
  BY <1>3, <1>4, <1>5, <1>6, <1>7, <1>8, <1>9, <1>10, <1>11 DEF Next, Poll, Writer

\* What the channel accepted reaches the socket in order and without gaps, for
\* every capacity and however the writer, the connection and the tasks that
\* deliver interleave; a writer that gives up loses only the end of it, and one
\* that shuts the socket down nothing.
THEOREM ConnectionChannelIsFifo == Spec => []QueueIsFifo
<1>1. Init => FifoInvariant
  BY EmptySeq, ConcatEmptySeq DEF Init, FifoInvariant, QueueIsFifo, Closed
<1>2. FifoInvariant => QueueIsFifo
  BY DEF FifoInvariant
<1>. QED
  BY <1>1, <1>2, TypeInit, TypeStep, FifoStep, PTL DEF Spec
-----------------------------------------------------------------------------
(* What Advance does to a sequence *)

\* Advance drops the first n elements.
LEMMA AdvanceProperties ==
    ASSUME NEW S, NEW b \in Seq(S), NEW n \in Nat, n <= Len(b)
    PROVE  /\ Advance(b, n) \in Seq(S)
           /\ Len(Advance(b, n)) = Len(b) - n
           /\ \A i \in 1 .. Len(b) - n : Advance(b, n)[i] = b[i + n]
<1>1. Len(b) \in Nat /\ \A i \in n + 1 .. Len(b) : b[i] \in S
  BY LenProperties, ElementOfSeq
<1>2. /\ SubSeq(b, n + 1, Len(b)) \in Seq(S)
      /\ Len(SubSeq(b, n + 1, Len(b))) = IF n + 1 <= Len(b) THEN Len(b) - (n + 1) + 1 ELSE 0
      /\ \A i \in 1 .. Len(b) - (n + 1) + 1 :
            SubSeq(b, n + 1, Len(b))[i] = b[n + 1 + i - 1]
  BY <1>1, SubSeqProperties
<1>. QED
  BY <1>1, <1>2 DEF Advance

\* Dropping elements of the first of two concatenated sequences.
LEMMA AdvanceConcat ==
    ASSUME NEW S, NEW b \in Seq(S), NEW t \in Seq(S), NEW n \in Nat, n <= Len(b)
    PROVE  Advance(b, n) \o t = Advance(b \o t, n)
<1> DEFINE left == Advance(b, n)
           all == b \o t
           right == Advance(all, n)
<1>1. Len(b) \in Nat /\ Len(t) \in Nat
  BY LenProperties
<1>2. /\ all \in Seq(S) /\ Len(all) = Len(b) + Len(t)
      /\ \A i \in 1 .. Len(b) + Len(t) :
            all[i] = IF i <= Len(b) THEN b[i] ELSE t[i - Len(b)]
  BY ConcatProperties
<1>3. /\ left \in Seq(S) /\ Len(left) = Len(b) - n
      /\ \A i \in 1 .. Len(b) - n : left[i] = b[i + n]
  BY AdvanceProperties
<1>4. n <= Len(all)
  BY <1>1, <1>2
<1> HIDE DEF all, left
<1>5. /\ right \in Seq(S) /\ Len(right) = Len(all) - n
      /\ \A i \in 1 .. Len(all) - n : right[i] = all[i + n]
  BY <1>2, <1>4, AdvanceProperties
<1>6. /\ left \o t \in Seq(S) /\ Len(left \o t) = Len(left) + Len(t)
      /\ \A i \in 1 .. Len(left) + Len(t) :
            (left \o t)[i] = IF i <= Len(left) THEN left[i] ELSE t[i - Len(left)]
  BY <1>3, ConcatProperties
<1> HIDE DEF right
<1>7. Len(left \o t) = Len(right)
  BY <1>1, <1>2, <1>3, <1>5, <1>6
<1>8. ASSUME NEW i \in 1 .. Len(left \o t)
      PROVE  (left \o t)[i] = right[i]
  <2>1. /\ i \in 1 .. Len(left) + Len(t) /\ i \in 1 .. Len(all) - n
        /\ i + n \in 1 .. Len(b) + Len(t)
    BY <1>1, <1>2, <1>3, <1>5, <1>6
  <2>2. right[i] = all[i + n]
    BY <1>5, <2>1
  <2>3. CASE i <= Len(left)
    <3>1. i \in 1 .. Len(b) - n /\ i + n <= Len(b)
      BY <1>1, <1>3, <2>3
    <3>. QED
      BY <1>2, <1>3, <1>6, <2>1, <2>2, <2>3, <3>1
  <2>4. CASE ~(i <= Len(left))
    <3>1. i - Len(left) = (i + n) - Len(b) /\ ~(i + n <= Len(b))
      BY <1>1, <1>3, <2>4
    <3>2. (left \o t)[i] = t[i - Len(left)]
      BY <1>6, <2>1, <2>4
    <3>3. all[i + n] = t[(i + n) - Len(b)]
      BY <1>2, <2>1, <3>1
    <3>. QED
      BY <2>2, <3>1, <3>2, <3>3
  <2>. QED
    BY <2>3, <2>4
<1>9. left \o t = right
  BY <1>5, <1>6, <1>7, <1>8, SeqEqual
<1>. QED
  BY <1>9 DEF left, right, all

\* Dropping m elements and then n drops m + n.
LEMMA AdvanceTwice ==
    ASSUME NEW S, NEW b \in Seq(S), NEW m \in Nat, NEW n \in Nat, m + n <= Len(b)
    PROVE  Advance(Advance(b, m), n) = Advance(b, m + n)
<1> DEFINE once == Advance(b, m)
           twice == Advance(once, n)
           both == Advance(b, m + n)
<1>1. Len(b) \in Nat /\ m <= Len(b) /\ m + n \in Nat
  BY LenProperties
<1>2. /\ once \in Seq(S) /\ Len(once) = Len(b) - m
      /\ \A i \in 1 .. Len(b) - m : once[i] = b[i + m]
  BY <1>1, AdvanceProperties
<1>3. /\ both \in Seq(S) /\ Len(both) = Len(b) - (m + n)
      /\ \A i \in 1 .. Len(b) - (m + n) : both[i] = b[i + (m + n)]
  BY <1>1, AdvanceProperties
<1>4. n <= Len(once)
  BY <1>1, <1>2
<1> HIDE DEF once, both
<1>5. /\ twice \in Seq(S) /\ Len(twice) = Len(once) - n
      /\ \A i \in 1 .. Len(once) - n : twice[i] = once[i + n]
  BY <1>2, <1>4, AdvanceProperties
<1> HIDE DEF twice
<1>6. Len(twice) = Len(both)
  BY <1>1, <1>2, <1>3, <1>5
<1>7. ASSUME NEW i \in 1 .. Len(twice)
      PROVE  twice[i] = both[i]
  <2>1. /\ i \in 1 .. Len(once) - n /\ i \in 1 .. Len(b) - (m + n)
        /\ i + n \in 1 .. Len(b) - m /\ (i + n) + m = i + (m + n)
    BY <1>1, <1>2, <1>5
  <2>. QED
    BY <1>2, <1>3, <1>5, <2>1
<1>8. twice = both
  BY <1>3, <1>5, <1>6, <1>7, SeqEqual
<1>. QED
  BY <1>8 DEF once, twice, both

\* The first n elements and what Advance leaves make up the sequence.
LEMMA TakeAndAdvance ==
    ASSUME NEW S, NEW b \in Seq(S), NEW n \in 1 .. Len(b)
    PROVE  /\ SubSeq(b, 1, n) \in Seq(S)
           /\ Advance(b, n) \in Seq(S)
           /\ SubSeq(b, 1, n) \o Advance(b, n) = b
<1>1. Len(b) \in Nat
  BY LenProperties
<1>2. SubSeq(b, 1, n) \o SubSeq(b, n + 1, Len(b)) = SubSeq(b, 1, Len(b))
  BY <1>1, ConcatAdjacentSubSeq
<1>3. SubSeq(b, 1, Len(b)) = b
  BY SubSeqFull
<1>4. SubSeq(b, 1, n) \in Seq(S)
  BY <1>1, SubSeqProperties, ElementOfSeq
<1>5. Advance(b, n) \in Seq(S)
  BY AdvanceType
<1>. QED
  BY <1>2, <1>3, <1>4, <1>5 DEF Advance
-----------------------------------------------------------------------------
(* The streams of whole frames *)

\* What the decoder consumes of a frame it accepts.
DecodedSize(f) == FrameExtent[f].fixed + FrameExtent[f].var + FrameExtent[f].pay

\* The extents of a frame in octets: what is decoded of it, and what is left.
LEMMA FrameSizes ==
    ASSUME NEW f \in FrameNames
    PROVE  /\ FrameExtent[f].fixed \in Nat \ {0}
           /\ FrameExtent[f].var \in Nat
           /\ FrameExtent[f].pay \in Nat
           /\ FrameExtent[f].rest \in Nat
           /\ FrameExtent[f].over \in Nat
           /\ VariableReads(f) \in Nat
           /\ VariableReads(f) = FrameExtent[f].var + FrameExtent[f].over
           /\ FrameSize(f) \in Nat
           /\ FrameSize(f) = DecodedSize(f) + FrameExtent[f].rest
           /\ DecodedSize(f) \in 1 .. FrameSize(f)
           /\ Remaining(f) = FrameExtent[f].var + FrameExtent[f].pay + FrameExtent[f].rest
           /\ FrameSize(f) >= 2
<1>1. FrameExtent[f].fixed \in Nat \ {0, 1}
  BY DEF FrameNames, FrameExtent, Extent, ConnectExtent, ConnectWillExtent,
         PublishExtent, SubscribeExtent, SubscribeFlagsExtent, UnsubscribeExtent,
         AckExtent, PubrelExtent, DisconnectExtent, CodeOnly, PingreqExtent,
         SmallHeader, LargeHeader
<1>2. \A a \in Nat \ {0, 1} : \A b, c, d \in Nat :
        /\ a + (b + c + d) \in Nat
        /\ a + (b + c + d) >= 2
        /\ a + (b + c + d) = (a + b + c) + d
        /\ a + b + c \in 1 .. a + (b + c + d)
  OBVIOUS
<1>3. /\ FrameSize(f) \in Nat
      /\ FrameSize(f) >= 2
      /\ FrameSize(f) = DecodedSize(f) + FrameExtent[f].rest
      /\ DecodedSize(f) \in 1 .. FrameSize(f)
  BY <1>1, <1>2, ExtentsAreNatural DEF FrameSize, Remaining, DecodedSize
<1>. QED
  BY <1>1, <1>3, ExtentsAreNatural DEF Remaining, VariableReads

\* A frame that takes octets behind it along has no payload, leaves nothing
\* and takes one group.
LEMMA OverExtent ==
    ASSUME NEW f \in FrameNames, FrameExtent[f].over # 0
    PROVE  /\ FrameExtent[f].over = 1
           /\ FrameExtent[f].pay = 0
           /\ FrameExtent[f].rest = 0
  BY DEF FrameNames, FrameExtent, Extent, ConnectExtent, ConnectWillExtent,
         PublishExtent, SubscribeExtent, SubscribeFlagsExtent, UnsubscribeExtent,
         AckExtent, PubrelExtent, DisconnectExtent, CodeOnly, PingreqExtent,
         SmallHeader, LargeHeader

\* The ack that leaves a fixed header behind.
LEMMA UnheardExtent ==
    /\ FrameExtent["PUBACK_UNHEARD"].fixed = 2
    /\ "PUBACK_UNHEARD" \notin WellRead
  BY DEF WellRead, FrameNames, FrameExtent, Extent, AckExtent, SmallHeader

\* A stream begins with the first octet of frame 1.
LEMMA FirstOctet ==
    ASSUME NEW s \in Seq(Octet), InFrames(s), NEW i \in 1 .. Len(s), i = 1
    PROVE  s[i].at = 1 /\ s[i].no = 1
<1>1. i \in DOMAIN s /\ s[i] \in Octet
  BY LenProperties, ElementOfSeq
<1>2. i - s[i].at >= 0 /\ (i - s[i].at = 0 => s[i].no = 1)
  BY <1>1 DEF InFrames
<1>3. s[i].at \in Nat \ {0}
  BY <1>1 DEF Octet
<1>4. s[i].at = 1
  BY <1>2, <1>3
<1>. QED
  BY <1>2, <1>4

\* The octet behind another one is the next of the same frame, if any is left
\* of it, or it starts the frame behind.
LEMMA NextOctet ==
    ASSUME NEW s \in Seq(Octet), InFrames(s), NEW i \in 1 .. Len(s) - 1
    PROVE  IF s[i].at = FrameSize(s[i].frame)
           THEN s[i + 1].at = 1 /\ s[i + 1].no = s[i].no + 1
           ELSE s[i + 1] = [s[i] EXCEPT !.at = s[i].at + 1] /\ s[i + 1].at # 1
<1> DEFINE size == FrameSize(s[i].frame)
           before == i - s[i].at
<1>1. Len(s) \in Nat /\ i \in DOMAIN s /\ i \in 1 .. Len(s)
  BY LenProperties
<1>2. s[i] \in Octet
  BY <1>1, ElementOfSeq
<1>3. s[i].at \in Nat \ {0} /\ size \in Nat /\ before \in Int
  <2>1. s[i].at \in Nat \ {0} /\ s[i].frame \in FrameNames
    BY <1>2 DEF Octet
  <2>2. size \in Nat
    BY <2>1, FrameSizes
  <2>. QED
    BY <2>1, <2>2
<1>4. /\ before + size <= Len(s)
      /\ s[i].at <= size
      /\ \A k \in 1 .. size : s[before + k] = [s[i] EXCEPT !.at = k]
      /\ before + size < Len(s) => /\ s[before + size + 1].at = 1
                                   /\ s[before + size + 1].no = s[i].no + 1
  BY <1>1 DEF InFrames
<1>5. CASE s[i].at = size
  <2>1. before + size = i /\ before + size < Len(s)
    BY <1>1, <1>3, <1>5
  <2> HIDE DEF before, size
  <2>2. s[i + 1].at = 1 /\ s[i + 1].no = s[i].no + 1
    BY <1>4, <2>1
  <2>. QED
    BY <1>5, <2>2 DEF size
<1>6. CASE s[i].at < size
  <2> DEFINE k == s[i].at + 1
  <2>1. k \in 1 .. size /\ before + k = i + 1 /\ k # 1
    BY <1>1, <1>3, <1>6
  <2>2. s[i + 1] = [s[i] EXCEPT !.at = k]
    BY <1>4, <2>1
  <2>3. s[i + 1].at = k
    BY <1>2, <2>2 DEF Octet
  <2>. QED
    BY <1>6, <1>3, <2>1, <2>2, <2>3
<1>. QED
  BY <1>3, <1>4, <1>5, <1>6

\* An octet that starts a frame has the number behind that of the octet before.
LEMMA NextFrameNumber ==
    ASSUME NEW s \in Seq(Octet), InFrames(s), NEW i \in 1 .. Len(s) - 1, s[i + 1].at = 1
    PROVE  s[i + 1].no = s[i].no + 1
  BY NextOctet

\* From the first octet of a frame, the frame's octets follow.
LEMMA FrameFollows ==
    ASSUME NEW s \in Seq(Octet), InFrames(s), NEW i \in 1 .. Len(s), s[i].at = 1
    PROVE  /\ i - 1 + FrameSize(s[i].frame) <= Len(s)
           /\ \A k \in 1 .. FrameSize(s[i].frame) :
                s[i - 1 + k] = [s[i] EXCEPT !.at = k]
           /\ i = 1 => s[i].no = 1
<1>1. i \in DOMAIN s
  BY LenProperties
<1> DEFINE before == i - s[i].at
<1>2. before = i - 1 /\ (before = 0 <=> i = 1)
  BY LenProperties
<1>3. /\ before + FrameSize(s[i].frame) <= Len(s)
      /\ \A k \in 1 .. FrameSize(s[i].frame) : s[before + k] = [s[i] EXCEPT !.at = k]
      /\ before = 0 => s[i].no = 1
  BY <1>1 DEF InFrames
<1> HIDE DEF before
<1>. QED
  BY <1>2, <1>3
-----------------------------------------------------------------------------
(* StreamIntact and ServedInOrder *)

\* The octets not yet decoded, and how many are.
Ahead == buf \o wire \o unsent
Behind == Len(stream) - Len(Ahead)

\* The decoder took the octets of a frame served for what they are not.
Strayed == \E i \in DOMAIN stream : stream[i].no <= Len(served) /\ stream[i].frame \notin WellRead

\* Between two packets the decoder stands at the start of the stream, or
\* behind what it decodes of the frame served last; or it has strayed, and
\* stands inside a frame.
BetweenFrames ==
    \/ Behind = 0 /\ served = <<>>
    \/ /\ Behind >= 1
       /\ stream[Behind].no = Len(served)
       /\ stream[Behind].at = DecodedSize(stream[Behind].frame)
    \/ /\ Strayed
       /\ Behind + 1 <= Len(stream)
       /\ stream[Behind + 1].at # 1

\* Inside a packet it stands behind the parts of `current` decoded so far; one
\* that begins inside a frame gets no further than its fixed header.
InsideFrame ==
    /\ Behind >= DecodedOf
    /\ stream[Behind - DecodedOf + 1] = current
    /\ IF current.at = 1
       THEN /\ current.no = Len(served) + 1
            /\ dstate = "FixedHeaderDecoded" => counter = 0
       ELSE dstate = "FixedHeaderDecoded" /\ Strayed

OnStream ==
    result = "running" =>
        /\ Behind >= 0
        /\ Ahead = Advance(stream, Behind)
        /\ IF dstate = "Done" THEN BetweenFrames ELSE InsideFrame

StreamInvariant == TypeInvariant /\ ServedInOrder /\ OnStream

\* A read moves octets from the socket to the end of the buffer.
LEMMA ReadMoves ==
    ASSUME DecoderTypeOK, ClientTypeOK, FutureTypeOK, NEW b \in AfterRead, Read(b)
    PROVE  /\ b \in Seq(Octet)
           /\ wire' \in Seq(Octet)
           /\ b \o wire' = buf \o wire
<1>1. buf \in Seq(Octet) /\ wire \in Seq(Octet)
  BY DEF DecoderTypeOK, ClientTypeOK
<1>2. b \in Seq(Octet) /\ wire' \in Seq(Octet)
  BY ReadType
<1>3. CASE wire # <<>>
  <2>1. PICK spare \in SpareMin .. SpareMax :
            /\ b = buf \o SubSeq(wire, 1, IF spare < Len(wire) THEN spare ELSE Len(wire))
            /\ wire' = Advance(wire, IF spare < Len(wire) THEN spare ELSE Len(wire))
    BY <1>3 DEF Read
  <2> DEFINE n == IF spare < Len(wire) THEN spare ELSE Len(wire)
  <2>2. n \in 1 .. Len(wire)
    BY <1>1, <1>3, EmptySeq, SpareAssumption
  <2> HIDE DEF n
  <2>3. b = buf \o SubSeq(wire, 1, n) /\ wire' = Advance(wire, n)
    BY <2>1 DEF n
  <2>4. /\ SubSeq(wire, 1, n) \in Seq(Octet)
        /\ Advance(wire, n) \in Seq(Octet)
        /\ SubSeq(wire, 1, n) \o Advance(wire, n) = wire
    BY <1>1, <2>2, TakeAndAdvance
  <2>5. (buf \o SubSeq(wire, 1, n)) \o Advance(wire, n)
            = buf \o (SubSeq(wire, 1, n) \o Advance(wire, n))
    <3> DEFINE taken == SubSeq(wire, 1, n)
               rest == Advance(wire, n)
    <3>1. buf \in Seq(Octet) /\ taken \in Seq(Octet) /\ rest \in Seq(Octet)
      BY <1>1, <2>4
    <3> HIDE DEF taken, rest
    <3>2. (buf \o taken) \o rest = buf \o (taken \o rest)
      BY <3>1, ConcatAssociative
    <3>. QED
      BY <3>2 DEF taken, rest
  <2>. QED
    BY <1>2, <2>3, <2>4, <2>5
<1>4. CASE wire = <<>>
  BY <1>2, <1>4 DEF Read
<1>. QED
  BY <1>3, <1>4

\* The buffer after a read holds the octets of the stream that come next.
LEMMA BufferOnStream ==
    ASSUME StreamInvariant, result = "running", NEW b \in AfterRead, Read(b),
           UNCHANGED unsent
    PROVE  /\ b \in Seq(Octet) /\ wire' \in Seq(Octet)
           /\ (b \o wire') \o unsent = Ahead
           /\ Behind \in Nat /\ Behind + Len(b) <= Len(stream)
           /\ \A i \in 1 .. Len(b) : b[i] = stream[Behind + i]
<1>1. /\ DecoderTypeOK /\ ClientTypeOK /\ FutureTypeOK
      /\ buf \in Seq(Octet) /\ wire \in Seq(Octet) /\ unsent \in Seq(Octet)
      /\ stream \in Seq(Octet)
  BY StreamsAssumption
  DEF StreamInvariant, TypeInvariant, ConnectionTypeOK, DecoderTypeOK, ClientTypeOK
<1>2. b \in Seq(Octet) /\ wire' \in Seq(Octet) /\ b \o wire' = buf \o wire
  BY <1>1, ReadMoves
<1>3. (b \o wire') \o unsent = Ahead
  BY <1>2 DEF Ahead
<1>4. b \o wire' \in Seq(Octet) /\ Ahead \in Seq(Octet)
  BY <1>1, <1>2, <1>3, ConcatProperties
<1>5. /\ Len(b) \in Nat /\ Len(wire') \in Nat /\ Len(unsent) \in Nat /\ Len(stream) \in Nat
      /\ Len(Ahead) = Len(b) + Len(wire') + Len(unsent)
      /\ \A i \in 1 .. Len(b) : Ahead[i] = b[i]
  <2> DEFINE front == b \o wire'
  <2>1. /\ front \in Seq(Octet) /\ Len(front) = Len(b) + Len(wire')
        /\ \A i \in 1 .. Len(b) + Len(wire') :
              front[i] = IF i <= Len(b) THEN b[i] ELSE wire'[i - Len(b)]
    BY <1>2, ConcatProperties
  <2> HIDE DEF front
  <2>2. front \in Seq(Octet) /\ unsent \in Seq(Octet)
    BY <1>1, <2>1
  <2>3. /\ Len(front \o unsent) = Len(front) + Len(unsent)
        /\ \A i \in 1 .. Len(front) + Len(unsent) :
              (front \o unsent)[i] = IF i <= Len(front) THEN front[i]
                                     ELSE unsent[i - Len(front)]
    BY <2>2, ConcatProperties
  <2>4. Ahead = front \o unsent
    BY <1>3 DEF front
  <2>5. Len(b) \in Nat /\ Len(wire') \in Nat /\ Len(unsent) \in Nat /\ Len(stream) \in Nat
    BY <1>1, <1>2, LenProperties
  <2>. QED
    BY <2>1, <2>3, <2>4, <2>5
<1>6. Behind \in Nat /\ Behind <= Len(stream) /\ Ahead = Advance(stream, Behind)
  BY <1>4, <1>5 DEF StreamInvariant, OnStream, Behind
<1>7. /\ Len(Ahead) = Len(stream) - Behind
      /\ \A i \in 1 .. Len(stream) - Behind : Ahead[i] = stream[i + Behind]
  BY <1>1, <1>6, AdvanceProperties
<1>8. Behind + Len(b) <= Len(stream)
  BY <1>5, <1>6, <1>7
<1>9. ASSUME NEW i \in 1 .. Len(b)
      PROVE  b[i] = stream[Behind + i]
  <2>1. i \in 1 .. Len(stream) - Behind /\ i + Behind = Behind + i
    BY <1>5, <1>6, <1>8
  <2>. QED
    BY <1>5, <1>7, <2>1
<1>. QED
  BY <1>2, <1>3, <1>6, <1>8, <1>9

\* A decoder that consumes k octets of the buffer moves k octets on.
LEMMA ConsumeAdvances ==
    ASSUME StreamInvariant, result = "running", NEW b \in AfterRead, Read(b),
           UNCHANGED <<stream, unsent>>, NEW k \in Nat, k <= Len(b),
           buf' = Advance(b, k)
    PROVE  /\ Behind' = Behind + k
           /\ Behind' <= Len(stream)
           /\ Ahead' = Advance(stream, Behind')
<1>1. unsent \in Seq(Octet) /\ stream \in Seq(Octet)
  BY StreamsAssumption DEF StreamInvariant, TypeInvariant, ConnectionTypeOK, ClientTypeOK
<1>2. /\ b \in Seq(Octet) /\ wire' \in Seq(Octet)
      /\ (b \o wire') \o unsent = Ahead
      /\ Behind \in Nat /\ Behind + Len(b) <= Len(stream)
  BY BufferOnStream
<1>3. Len(b) \in Nat /\ Len(stream) \in Nat
  BY <1>1, <1>2, LenProperties
<1>4. b \o wire' \in Seq(Octet) /\ Len(b \o wire') = Len(b) + Len(wire') /\ Len(wire') \in Nat
  BY <1>2, ConcatProperties, LenProperties
<1>5. Ahead' = (Advance(b, k) \o wire') \o unsent
  BY DEF Ahead
<1>6. Advance(b, k) \o wire' = Advance(b \o wire', k)
  BY <1>2, AdvanceConcat
<1>7. k <= Len(b \o wire')
  BY <1>3, <1>4
<1>8. Advance(b \o wire', k) \o unsent = Advance((b \o wire') \o unsent, k)
  BY <1>1, <1>4, <1>7, AdvanceConcat
<1>9. Ahead' = Advance(Ahead, k)
  BY <1>2, <1>5, <1>6, <1>8
<1>10. Ahead = Advance(stream, Behind)
  BY DEF StreamInvariant, OnStream
<1>11. Behind + k <= Len(stream)
  BY <1>2, <1>3
<1>12. Ahead' = Advance(stream, Behind + k)
  BY <1>1, <1>2, <1>9, <1>10, <1>11, AdvanceTwice
<1>13. Len(Ahead') = Len(stream) - (Behind + k)
  BY <1>1, <1>2, <1>11, <1>12, AdvanceProperties, SMTT(30)
<1>14. Behind' = Len(stream) - Len(Ahead')
  BY DEF Behind
<1>15. Behind' = Behind + k
  BY <1>2, <1>3, <1>13, <1>14
<1>. QED
  BY <1>11, <1>12, <1>15

\* The octets of the frame that `current` begins.
LEMMA CurrentOnStream ==
    ASSUME StreamInvariant, result = "running", dstate # "Done", current.at = 1
    PROVE  /\ current \in Octet
           /\ DecodedOf \in Nat
           /\ Behind \in Nat /\ Behind >= DecodedOf
           /\ \A k \in 1 .. FrameSize(current.frame) :
                stream[Behind - DecodedOf + k] = [current EXCEPT !.at = k]
           /\ Behind - DecodedOf + FrameSize(current.frame) <= Len(stream)
<1>1. /\ stream \in Seq(Octet) /\ InFrames(stream) /\ dstate \in DecoderStates
      /\ current \in Octet
      /\ buf \in Seq(Octet) /\ wire \in Seq(Octet) /\ unsent \in Seq(Octet)
  BY StreamsAssumption
  DEF StreamInvariant, TypeInvariant, ConnectionTypeOK, DecoderTypeOK, ClientTypeOK
<1>2. DecodedOf \in Nat \ {0}
  <2>1. /\ FrameExtent[current.frame].fixed \in Nat \ {0}
        /\ VariableReads(current.frame) \in Nat
    BY <1>1, FrameSizes DEF Octet
  <2>2. dstate \in {"FixedHeaderDecoded", "VariableHeaderDecoded"}
    BY <1>1 DEF DecoderStates
  <2>3. CASE dstate = "FixedHeaderDecoded"
    BY <2>1, <2>3 DEF DecodedOf
  <2>4. CASE dstate = "VariableHeaderDecoded"
    BY <2>1, <2>4 DEF DecodedOf
  <2>. QED
    BY <2>2, <2>3, <2>4
<1>3. Ahead \in Seq(Octet)
  BY <1>1, ConcatProperties DEF Ahead
<1>4. Len(Ahead) \in Nat /\ Len(stream) \in Nat
  BY <1>1, <1>3, LenProperties
<1>5. /\ Behind >= 0 /\ Behind >= DecodedOf /\ current.at = 1
      /\ stream[Behind - DecodedOf + 1] = current
  BY DEF StreamInvariant, OnStream, InsideFrame
<1>6. Behind \in Nat /\ Behind <= Len(stream)
  BY <1>4, <1>5 DEF Behind
<1> DEFINE i == Behind - DecodedOf + 1
<1>7. i \in 1 .. Len(stream) /\ i - 1 = Behind - DecodedOf
  BY <1>2, <1>4, <1>5, <1>6
<1>8. stream[i] = current
  BY <1>5
<1> HIDE DEF i
<1>9. /\ i - 1 + FrameSize(stream[i].frame) <= Len(stream)
      /\ \A k \in 1 .. FrameSize(stream[i].frame) : stream[i - 1 + k] = [stream[i] EXCEPT !.at = k]
  BY <1>1, <1>5, <1>7, <1>8, FrameFollows
<1>. QED
  BY <1>1, <1>2, <1>5, <1>6, <1>7, <1>8, <1>9

\* Where a frame starts between two packets, it is the one behind those served.
LEMMA StartsNext ==
    ASSUME StreamInvariant, BetweenFrames, Behind \in Nat,
           Behind + 1 \in 1 .. Len(stream), stream[Behind + 1].at = 1
    PROVE  stream[Behind + 1].no = Len(served) + 1
<1>1. stream \in Seq(Octet) /\ InFrames(stream) /\ Len(stream) \in Nat
  BY StreamsAssumption, LenProperties
  DEF StreamInvariant, TypeInvariant, ConnectionTypeOK, ClientTypeOK
<1>2. CASE Behind = 0 /\ served = <<>>
  BY <1>1, <1>2, FirstOctet, EmptySeq
<1>3. CASE Behind >= 1 /\ stream[Behind].no = Len(served)
  <2>1. Behind \in 1 .. Len(stream) - 1
    BY <1>1, <1>3
  <2>. QED
    BY <1>1, <1>3, <2>1, NextFrameNumber
<1>. QED
  BY <1>2, <1>3 DEF BetweenFrames

\* Where no frame starts between two packets, the decoder has strayed: the
\* frame served last has octets left there, or it went past one before.
LEMMA StrayedInside ==
    ASSUME StreamInvariant, BetweenFrames, Behind \in Nat,
           Behind + 1 \in 1 .. Len(stream), stream[Behind + 1].at # 1
    PROVE  Strayed
<1>1. /\ stream \in Seq(Octet) /\ InFrames(stream) /\ Len(stream) \in Nat
      /\ DOMAIN stream = 1 .. Len(stream) /\ Len(served) \in Nat
  BY StreamsAssumption, LenProperties
  DEF StreamInvariant, TypeInvariant, ConnectionTypeOK, ClientTypeOK, HistoryTypeOK
<1>2. CASE Behind = 0
  BY <1>1, <1>2, FirstOctet
<1>3. CASE /\ Behind >= 1 /\ stream[Behind].no = Len(served)
           /\ stream[Behind].at = DecodedSize(stream[Behind].frame)
  <2> DEFINE f == stream[Behind].frame
  <2>1. Behind \in 1 .. Len(stream) - 1 /\ Behind \in DOMAIN stream
    BY <1>1, <1>3
  <2>2. f \in FrameNames
    <3>1. stream[Behind] \in Octet
      BY <1>1, <2>1, ElementOfSeq
    <3>. QED
      BY <3>1 DEF Octet
  <2>3. DecodedSize(f) # FrameSize(f)
    BY <1>1, <1>3, <2>1, NextOctet
  <2>4. FrameExtent[f].rest # 0
    <3>1. /\ FrameSize(f) = DecodedSize(f) + FrameExtent[f].rest
          /\ DecodedSize(f) \in 1 .. FrameSize(f)
          /\ FrameSize(f) \in Nat
      BY <2>2, FrameSizes
    <3>. QED
      BY <2>3, <3>1
  <2>5. f \notin WellRead
    BY <2>4 DEF WellRead
  <2>. QED
    BY <1>1, <1>3, <2>1, <2>5 DEF Strayed
<1>. QED
  BY <1>2, <1>3 DEF BetweenFrames

\* Every way through poll_decode that does not end the connection leaves the
\* decoder on the stream; the packet it returns is the next one.
LEMMA DecodeOnStream ==
    ASSUME StreamInvariant, result = "running", NEW b \in AfterRead, Read(b),
           UNCHANGED <<stream, unsent>>,
           \/ (DecodeIdle(b) \/ DecodeAgain(b)) /\ UNCHANGED served
           \/ DecodePacket(b) /\ served' = Append(served, current.no)
    PROVE  OnStream' /\ ServedInOrder'
<1>1. /\ stream \in Seq(Octet) /\ InFrames(stream) /\ served \in Seq(Nat)
      /\ Len(stream) \in Nat /\ Len(served) \in Nat
  BY StreamsAssumption, LenProperties
  DEF StreamInvariant, TypeInvariant, ConnectionTypeOK, HistoryTypeOK, ClientTypeOK
<1>2. /\ b \in Seq(Octet) /\ Len(b) \in Nat
      /\ Behind \in Nat /\ Behind + Len(b) <= Len(stream)
      /\ \A i \in 1 .. Len(b) : b[i] = stream[Behind + i]
  BY BufferOnStream, LenProperties
<1>3. /\ Behind >= 0
      /\ Ahead = Advance(stream, Behind)
      /\ IF dstate = "Done" THEN BetweenFrames ELSE InsideFrame
  BY DEF StreamInvariant, OnStream
<1>4. ASSUME NEW k \in Nat, k <= Len(b), buf' = Advance(b, k)
      PROVE  /\ Behind' = Behind + k
             /\ Behind' \in Nat
             /\ Ahead' = Advance(stream', Behind')
  BY <1>2, <1>4, ConsumeAdvances
<1>5. CASE DecodeIdle(b) \/ DecodeShort(b)
  <2>1. buf' = b /\ UNCHANGED <<dstate, current, counter, served>>
    BY <1>5 DEF DecodeIdle, DecodeShort, DecodePacket, DecodeBodiless, DecodePayload
  <2>2. Advance(b, 0) = b
    BY <1>2, SubSeqFull DEF Advance
  <2>3. Behind' = Behind /\ Ahead' = Advance(stream', Behind')
    BY <1>2, <1>4, <2>1, <2>2
  <2>4. BetweenFrames' = BetweenFrames /\ InsideFrame' = InsideFrame
    BY <2>1, <2>3 DEF BetweenFrames, InsideFrame, DecodedOf, Strayed
  <2>. QED
    BY <1>3, <2>1, <2>3, <2>4 DEF OnStream, ServedInOrder, StreamInvariant
<1>6. CASE DecodeFixed(b)
  <2> DEFINE fixed == FrameExtent[b[1].frame].fixed
  <2>1. /\ dstate = "Done" /\ dstate' = "FixedHeaderDecoded" /\ counter' = 0
        /\ current' = b[1] /\ HeaderDecodes(b) /\ Len(b) >= 2
        /\ buf' = Advance(b, fixed) /\ UNCHANGED served
    BY <1>6 DEF DecodeFixed, DecodePacket, DecodeBodiless, DecodePayload
  <2>2. b[1] = stream[Behind + 1] /\ Behind + 1 \in 1 .. Len(stream)
    <3>1. Len(b) >= 2
      BY <2>1
    <3>2. 1 \in 1 .. Len(b)
      BY <1>2, <3>1
    <3>3. Behind + 1 \in 1 .. Len(stream)
      <4>1. Behind \in Nat /\ Len(b) \in Nat /\ Len(stream) \in Nat /\ Behind + Len(b) <= Len(stream)
        BY <1>1, <1>2
      <4>. QED
        BY <3>1, <4>1
    <3>. QED
      BY <1>2, <3>2, <3>3
  <2>3. b[1] \in Octet /\ fixed \in Nat
    <3>1. stream[Behind + 1] \in Octet
      BY <1>1, <2>2, ElementOfSeq
    <3>. QED
      BY <2>2, <3>1, FrameSizes DEF Octet
  <2>4. fixed <= Len(b) /\ (b[1].at # 1 => b[1].frame = "PUBACK_UNHEARD")
    BY <2>1, UnheardExtent DEF HeaderDecodes, LeftHeader
  <2>5. Behind' = Behind + fixed /\ Behind' \in Nat /\ Ahead' = Advance(stream', Behind')
    BY <1>4, <2>1, <2>3, <2>4
  <2>6. DecodedOf' = fixed
    BY <2>1 DEF DecodedOf
  <2>7. Behind' - DecodedOf' + 1 = Behind + 1 /\ Behind' >= DecodedOf'
    BY <1>2, <2>3, <2>5, <2>6, SMTT(30)
  <2>8. CASE b[1].at = 1
    <3>1. b[1].no = Len(served) + 1
      <4>1. BetweenFrames /\ Behind \in Nat
        BY <1>2, <1>3, <2>1
      <4>. QED
        BY <2>2, <2>8, <4>1, StartsNext
    <3>. QED
      BY <2>1, <2>2, <2>5, <2>7, <2>8, <3>1 DEF InsideFrame, OnStream, ServedInOrder, StreamInvariant
  <2>9. CASE b[1].at # 1
    <3>1. Strayed
      <4>1. BetweenFrames /\ Behind \in Nat
        BY <1>2, <1>3, <2>1
      <4>. QED
        BY <2>2, <2>9, <4>1, StrayedInside
    <3>2. Strayed'
      BY <2>1, <3>1 DEF Strayed
    <3>. QED
      BY <2>1, <2>2, <2>5, <2>7, <2>9, <3>2 DEF InsideFrame, OnStream, ServedInOrder, StreamInvariant
  <2>. QED
    BY <2>8, <2>9
<1>7. CASE DecodeVariable(b)
  <2> DEFINE var == VariableReads(current.frame)
  <2>1. /\ dstate = "FixedHeaderDecoded" /\ dstate' = "VariableHeaderDecoded"
        /\ Len(b) >= var /\ buf' = Advance(b, var) /\ UNCHANGED <<current, served>>
        /\ current.at = 1
    BY <1>7 DEF DecodeVariable, VariableDecodes, DecodePacket, DecodeBodiless, DecodePayload
  <2>2. current \in Octet /\ DecodedOf \in Nat /\ var \in Nat
    BY <2>1, CurrentOnStream, FrameSizes DEF Octet
  <2>3. Behind' = Behind + var /\ Behind' \in Nat /\ Ahead' = Advance(stream', Behind')
    BY <1>4, <2>1, <2>2
  <2>4. DecodedOf' = DecodedOf + var
    BY <2>1, <2>2 DEF DecodedOf
  <2>5. Behind' - DecodedOf' = Behind - DecodedOf
    BY <1>2, <2>2, <2>3, <2>4
  <2>6. InsideFrame'
    <3>1. /\ current.at = 1 /\ current.no = Len(served) + 1 /\ Behind >= DecodedOf
          /\ stream[Behind - DecodedOf + 1] = current
      BY <1>3, <2>1 DEF InsideFrame
    <3>2. Behind' >= DecodedOf'
      BY <1>2, <2>2, <2>3, <2>4, <3>1
    <3>3. stream'[Behind' - DecodedOf' + 1] = current'
      BY <2>1, <2>5, <3>1
    <3>. QED
      BY <2>1, <3>1, <3>2, <3>3 DEF InsideFrame
  <2>. QED
    BY <2>1, <2>3, <2>6 DEF OnStream, ServedInOrder, StreamInvariant
<1>8. CASE DecodePacket(b)
  <2> DEFINE f == FrameExtent[current.frame]
             last == DecodedSize(current.frame)
  <2>1. dstate # "Done" /\ dstate' = "Done" /\ b # <<>>
    BY <1>8 DEF DecodePacket, DecodeBodiless, DecodePayload
  <2>2. served' = Append(served, current.no)
    BY <1>8 DEF DecodePacket, DecodeBodiless, DecodePayload, DecodeIdle, DecodeAgain,
                DecodeShort, DecodeFixed, DecodeVariable
  <2>3. current.at = 1
    BY <1>3, <1>8 DEF DecodePacket, DecodeBodiless, DecodePayload, VariableDecodes, InsideFrame
  <2>4. /\ current \in Octet /\ DecodedOf \in Nat /\ Behind \in Nat /\ Behind >= DecodedOf
        /\ \A k \in 1 .. FrameSize(current.frame) :
             stream[Behind - DecodedOf + k] = [current EXCEPT !.at = k]
        /\ Behind - DecodedOf + FrameSize(current.frame) <= Len(stream)
    BY <2>1, <2>3, CurrentOnStream
  <2>5. /\ f.fixed \in Nat \ {0} /\ f.var \in Nat /\ f.pay \in Nat /\ f.rest \in Nat
        /\ f.over \in Nat /\ VariableReads(current.frame) = f.var + f.over
        /\ last \in 1 .. FrameSize(current.frame) /\ FrameSize(current.frame) \in Nat
        /\ Remaining(current.frame) = f.var + f.pay + f.rest
        /\ FrameSize(current.frame) = last + f.rest
        /\ last = f.fixed + f.var + f.pay
    BY <2>4, FrameSizes DEF Octet, DecodedSize
  <2>6. f.over # 0 => f.over = 1 /\ f.pay = 0 /\ f.rest = 0
    BY <2>4, OverExtent DEF Octet
  <2>7. last \in Nat
    BY <2>5
  <2> HIDE DEF last
  <2> DEFINE Takes(n) == /\ n <= Len(b)
                         /\ buf' = Advance(b, n)
                         /\ DecodedOf + n = last + f.over
                         /\ (f.over # 0) => (n = 0)
  <2>8. \E n \in Nat : Takes(n)
    <3>1. CASE DecodeBodiless(b)
      <4>1. counter = 0 /\ dstate = "FixedHeaderDecoded"
        BY <1>3, <2>3, <3>1 DEF DecodeBodiless, InsideFrame
      <4>2. /\ counter + VariableReads(current.frame) = Remaining(current.frame)
            /\ VariableReads(current.frame) <= Len(b)
            /\ buf' = Advance(b, VariableReads(current.frame))
        BY <3>1 DEF DecodeBodiless, VariableDecodes, Counted
      <4>3. f.over = 0 /\ f.pay = 0
        <5>1. f.var + f.over = f.var + f.pay + f.rest
          BY <2>5, <4>1, <4>2
        <5> HIDE DEF f
        <5>2. CASE f.over = 0
          BY <2>5, <5>1, <5>2
        <5>3. CASE f.over # 0
          BY <2>5, <2>6, <5>1, <5>3
        <5>. QED
          BY <5>2, <5>3
      <4>4. VariableReads(current.frame) = f.var /\ f.var \in Nat
        BY <2>5, <4>3
      <4>5. DecodedOf + f.var = last + f.over
        BY <2>5, <4>1, <4>3 DEF DecodedOf
      <4>. QED
        BY <4>2, <4>3, <4>4, <4>5
    <3>2. CASE DecodePayload(b)
      <4>1. /\ dstate = "VariableHeaderDecoded" /\ f.pay <= Len(b)
            /\ buf' = Advance(b, f.pay)
        BY <3>2 DEF DecodePayload, PayloadDecodes
      <4>2. DecodedOf = f.fixed + (f.var + f.over)
        BY <2>5, <4>1 DEF DecodedOf
      <4>3. DecodedOf + f.pay = last + f.over
        <5> HIDE DEF f
        <5>. QED
          BY <2>5, <4>2
      <4>. QED
        BY <2>5, <2>6, <4>1, <4>3
    <3>. QED
      BY <1>8, <3>1, <3>2 DEF DecodePacket
  <2> HIDE DEF Takes
  <2>8a. PICK n \in Nat : Takes(n)
    BY <2>8
  <2>9. Behind' = Behind + n /\ Behind' \in Nat /\ Ahead' = Advance(stream', Behind')
    <3>1. n \in Nat /\ n <= Len(b) /\ buf' = Advance(b, n)
      BY <2>8a DEF Takes
    <3>. QED
      BY <1>4, <3>1
  <2>10. Behind' = (Behind - DecodedOf) + last + f.over
    <3>1. \A w, d, l, o, m \in Nat :
             w >= d /\ d + m = l + o => w + m = (w - d) + l + o
      OBVIOUS
    <3>2. DecodedOf + n = last + f.over /\ f.over \in Nat /\ n \in Nat
      BY <2>5, <2>8a DEF Takes
    <3>3. Behind \in Nat /\ DecodedOf \in Nat /\ Behind >= DecodedOf
      BY <2>4
    <3>4. Behind' = Behind + n
      BY <2>9
    <3> HIDE DEF f
    <3>. QED
      BY <2>7, <3>1, <3>2, <3>3, <3>4
  <2>11. current.no = Len(served) + 1 /\ current.no \in Nat
    BY <1>3, <2>1, <2>3, <2>4 DEF InsideFrame, Octet
  <2>12. /\ Len(served') = Len(served) + 1 /\ served' \in Seq(Nat)
         /\ \A i \in 1 .. Len(served) : served'[i] = served[i]
         /\ served'[Len(served) + 1] = current.no
    BY <1>1, <2>2, <2>11, AppendProperties
  <2>13. BetweenFrames'
    <3>1. CASE f.over = 0
      <4>1. Behind' = (Behind - DecodedOf) + last
        BY <2>4, <2>7, <2>10, <3>1
      <4>2. stream[Behind'] = [current EXCEPT !.at = last]
        BY <2>4, <2>5, <4>1
      <4>3. /\ stream[Behind'].no = current.no /\ stream[Behind'].at = last
            /\ stream[Behind'].frame = current.frame
        BY <2>4, <4>2 DEF Octet
      <4>4. Behind' >= 1
        BY <2>4, <2>5, <4>1
      <4>. QED
        BY <2>11, <2>12, <4>3, <4>4 DEF BetweenFrames, last
    <3>2. CASE f.over # 0
      <4> DEFINE start == Behind - DecodedOf
                 size == FrameSize(current.frame)
      <4>1. /\ start \in Nat /\ size \in Nat \ {0} /\ Behind = start + size + 1
            /\ Behind' = Behind
        <5>1. size = last /\ f.over = 1 /\ last \in Nat \ {0}
          BY <2>5, <2>6, <2>7, <3>2
        <5>2. Behind \in Nat /\ DecodedOf \in Nat /\ Behind >= DecodedOf
          BY <2>4
        <5>3. n = 0 /\ Behind' = Behind + n
          BY <2>8a, <2>9, <3>2 DEF Takes
        <5> HIDE DEF f, size
        <5>. QED
          BY <2>10, <5>1, <5>2, <5>3
      <4>2. Behind + 1 <= Len(stream)
        BY <1>1, <1>2, <2>1, EmptySeq
      <4> HIDE DEF start, size
      <4>3. start + size \in 1 .. Len(stream) - 1 /\ stream[start + size] = [current EXCEPT !.at = size]
        <5>1. start + size \in 1 .. Len(stream) - 1
          BY <1>1, <4>1, <4>2
        <5>2. size \in 1 .. size
          BY <4>1
        <5>. QED
          BY <2>4, <5>1, <5>2 DEF start, size
      <4>4. stream[start + size].at = size /\ stream[start + size].frame = current.frame
        BY <2>4, <4>3 DEF Octet
      <4>5. stream[Behind].at = 1
        BY <1>1, <4>1, <4>3, <4>4, NextOctet DEF size
      <4>6. Behind \in 1 .. Len(stream) - 1
        BY <1>1, <1>2, <4>1, <4>2
      <4>7. stream[Behind].frame \in FrameNames
        <5>1. stream[Behind] \in Octet
          BY <1>1, <4>6, ElementOfSeq
        <5>. QED
          BY <5>1 DEF Octet
      <4>8. stream[Behind].at # FrameSize(stream[Behind].frame)
        BY <4>5, <4>7, FrameSizes
      <4>9. stream[Behind + 1].at # 1
        BY <1>1, <4>6, <4>8, NextOctet
      <4>10. Strayed'
        <5>1. /\ Behind - DecodedOf + 1 \in DOMAIN stream
              /\ stream[Behind - DecodedOf + 1] = current
          BY <1>1, <1>3, <2>1, <4>1, <4>2, LenProperties DEF InsideFrame, start
        <5>2. current.frame \notin WellRead
          BY <3>2 DEF WellRead
        <5>3. UNCHANGED stream /\ current.no <= Len(served')
          BY <1>1, <2>11, <2>12
        <5>. QED
          BY <5>1, <5>2, <5>3 DEF Strayed
      <4>. QED
        BY <4>1, <4>2, <4>9, <4>10 DEF BetweenFrames
    <3>. QED
      BY <3>1, <3>2
  <2>14. ServedInOrder'
    <3>1. DOMAIN served' = 1 .. Len(served) + 1 /\ DOMAIN served = 1 .. Len(served)
      BY <1>1, <2>12, LenProperties
    <3>. QED
      BY <1>1, <2>11, <2>12, <3>1 DEF ServedInOrder, StreamInvariant
  <2>. QED
    BY <2>1, <2>9, <2>13, <2>14 DEF OnStream
<1>. QED
  BY <1>5, <1>6, <1>7, <1>8 DEF DecodeAgain

\* Octets that arrive move from the client to the socket.
LEMMA SendKeepsAhead ==
    ASSUME TypeInvariant, ClientSend
    PROVE  Ahead' = Ahead
<1>1. buf \in Seq(Octet) /\ wire \in Seq(Octet) /\ unsent \in Seq(Octet)
  BY DEF TypeInvariant, ConnectionTypeOK, DecoderTypeOK, ClientTypeOK
<1>2. PICK n \in 1 .. Len(unsent) : /\ wire' = wire \o SubSeq(unsent, 1, n)
                                    /\ unsent' = Advance(unsent, n)
  BY DEF ClientSend
<1> DEFINE now == SubSeq(unsent, 1, n)
           later == Advance(unsent, n)
<1>3. now \in Seq(Octet) /\ later \in Seq(Octet) /\ now \o later = unsent
  BY <1>1, TakeAndAdvance
<1>4. Ahead' = (buf \o (wire \o now)) \o later
  BY <1>2 DEF Ahead, ClientSend, decoderVars
<1> HIDE DEF now, later
<1>5. /\ buf \in Seq(Octet) /\ wire \in Seq(Octet)
      /\ now \in Seq(Octet) /\ later \in Seq(Octet)
  BY <1>1, <1>3
<1>6. (wire \o now) \o later = wire \o (now \o later)
  BY <1>5
<1>7. (buf \o wire) \o unsent = buf \o (wire \o unsent)
  BY <1>1
<1> DEFINE arrived == wire \o now
<1>8. arrived \in Seq(Octet)
  BY <1>5
<1> HIDE DEF arrived
<1>9. (buf \o arrived) \o later = buf \o (arrived \o later)
  BY <1>5, <1>8
<1>10. Ahead' = buf \o (wire \o unsent)
  <2>1. arrived \o later = wire \o unsent
    BY <1>3, <1>6 DEF arrived
  <2>2. Ahead' = (buf \o arrived) \o later
    BY <1>4 DEF arrived
  <2>. QED
    BY <1>9, <2>1, <2>2
<1>. QED
  BY <1>7, <1>10 DEF Ahead

LEMMA StreamInit == Init => StreamInvariant
<1> SUFFICES ASSUME Init PROVE StreamInvariant
  OBVIOUS
<1>1. stream \in Seq(Octet) /\ Len(stream) \in Nat
  BY StreamsAssumption, LenProperties DEF Init
<1>2. /\ buf = <<>> /\ wire = <<>> /\ unsent = stream /\ dstate = "Done"
      /\ served = <<>>
  BY DEF Init, DecoderInit
<1>3. Ahead = stream
  BY <1>1, <1>2, ConcatEmptySeq DEF Ahead
<1>4. Behind = 0
  BY <1>1, <1>3 DEF Behind
<1>5. Advance(stream, 0) = stream
  BY <1>1, SubSeqFull DEF Advance
<1>6. OnStream
  BY <1>2, <1>3, <1>4, <1>5 DEF OnStream, BetweenFrames
<1>7. ServedInOrder
  BY <1>2 DEF ServedInOrder
<1>. QED
  BY <1>6, <1>7, TypeInit DEF StreamInvariant

LEMMA StreamStep == StreamInvariant /\ [Next]_vars => StreamInvariant'
<1> SUFFICES ASSUME StreamInvariant, [Next]_vars
             PROVE  StreamInvariant'
  OBVIOUS
<1>1. TypeInvariant /\ TypeInvariant' /\ ServedInOrder /\ OnStream
  BY TypeStep DEF StreamInvariant
<1>2. CASE ClientSend
  <2>1. UNCHANGED <<stream, dstate, current, counter, served, result>>
    BY <1>2 DEF ClientSend, Arrive, decoderVars, history
  <2>2. Ahead' = Ahead
    BY <1>1, <1>2, SendKeepsAhead
  <2>. QED
    BY <1>1, <2>1, <2>2
    DEF StreamInvariant, OnStream, ServedInOrder, Behind, BetweenFrames, InsideFrame,
        DecodedOf, Strayed
<1>3. CASE PollPending \/ PollPacket
  <2>1. PICK b \in AfterRead :
            /\ Read(b)
            /\ \/ (DecodeIdle(b) \/ DecodeAgain(b)) /\ UNCHANGED served
               \/ DecodePacket(b) /\ served' = Append(served, current.no)
    BY <1>3 DEF PollPending, PollPacket, history
  <2>2. result = "running" /\ UNCHANGED <<stream, unsent>>
    BY <1>3 DEF PollPending, PollPacket, Polled
  <2>. QED
    BY <1>1, <2>1, <2>2, DecodeOnStream DEF StreamInvariant
<1>4. CASE PollEof \/ PollReadError \/ PollRejected \/ PollUnexpected \/ PollCallFailed
           \/ PollDisconnect \/ PollClosed
  <2>1. result' # "running" /\ UNCHANGED served
    BY <1>4 DEF PollEof, PollReadError, PollRejected, PollUnexpected, PollCallFailed,
       PollDisconnect, PollClosed, Resolve, history
  <2>. QED
    BY <1>1, <2>1 DEF StreamInvariant, OnStream, ServedInOrder
<1>5. CASE \/ PollCallPending \/ PollCallFinished \/ PollConnack \/ PollWrite \/ PollWritten
           \/ Services \/ Writer \/ ClientClose \/ Deliver \/ Unregister \/ UNCHANGED vars
  <2>1. UNCHANGED <<stream, unsent, wire, dstate, current, counter, buf, served>>
    BY <1>5 DEF PollCallPending, PollCallFinished, PollConnack, PollWrite, PollWritten,
       Services, ConnectServiceAccepts, ServiceReplies, ServiceFails, Finish,
       Writer, WriterRecv, WriterRefuses, WriterWrites, WriterFails, WriterReturns,
       WriterShutdown, ClientClose, Deliver, Unregister, vars, decoderVars, client, history
  <2>2. UNCHANGED result
    BY <1>5 DEF PollCallPending, PollCallFinished, PollConnack, PollWrite, PollWritten,
       Services, ConnectServiceAccepts, ServiceReplies, ServiceFails, Finish,
       Writer, WriterRecv, WriterRefuses, WriterWrites, WriterFails, WriterReturns,
       WriterShutdown, ClientClose, Arrive, Deliver, Unregister, vars, future
  <2>. QED
    BY <1>1, <2>1, <2>2
    DEF StreamInvariant, OnStream, ServedInOrder, Ahead, Behind, BetweenFrames,
        InsideFrame, DecodedOf, Strayed
<1>. QED
  BY <1>2, <1>3, <1>4, <1>5 DEF Next, Poll, Client

\* However the octets arrive and are read, and in whatever places the buffer
\* cuts the packets, the decoder loses and repeats none of them.
THEOREM ConnectionKeepsStream == Spec => []StreamIntact
<1>1. StreamInvariant => StreamIntact
  BY DEF StreamInvariant, OnStream, StreamIntact, InsideFrame, Ahead, Behind
<1>. QED
  BY <1>1, StreamInit, StreamStep, PTL DEF Spec

\* The services see the packets of the client in order, each once.
THEOREM ConnectionServesInOrder == Spec => []ServedInOrder
<1>1. StreamInvariant => ServedInOrder
  BY DEF StreamInvariant
<1>. QED
  BY <1>1, StreamInit, StreamStep, PTL DEF Spec
-----------------------------------------------------------------------------
(* AnswersInOrder *)

\* How many requests were served in each state.
RequestsFit ==
    /\ served = <<>> <=> cstate = "PreConnection"
    /\ cstate \in {"ProcessingConnect", "ResponseConnect"} => Len(served) = 1
    /\ cstate \in {"ProcessingService", "WritingPacket"} => Len(served) >= 2

\* An accepted answer answers a request that was served; the request that is
\* being served is answered only in WritingPacket, by what left the list.
AnswerFits(m) ==
    /\ m.re <= Len(served)
    /\ cstate \in {"ProcessingConnect", "ResponseConnect", "ProcessingService"} =>
            m.re < Len(served)
    /\ cstate = "WritingPacket" /\ m.re = Len(served) => m.number > Len(reply)

AnswersFit == \A i \in DOMAIN accepted : AnswerFits(accepted[i])

AnswerInvariant == StreamInvariant /\ RequestsFit /\ AnswersFit /\ AnswersInOrder

\* What may be answered after `first`.
Follows(second, first) ==
    first.re > 0 /\ second.re > 0 =>
        first.re < second.re \/ (first.re = second.re /\ first.number > second.number)

\* An answer that follows all the accepted ones keeps them in order.
LEMMA AppendKeepsOrder ==
    ASSUME AnswersInOrder, accepted \in Seq(Message), NEW m \in Message,
           accepted' = Append(accepted, m),
           \A i \in DOMAIN accepted : Follows(m, accepted[i]),
           m.kind = "CONNACK" <=> m.re = 1
    PROVE  AnswersInOrder'
<1>1. /\ Len(accepted) \in Nat
      /\ accepted' \in Seq(Message) /\ Len(accepted') = Len(accepted) + 1
      /\ \A i \in 1 .. Len(accepted) : accepted'[i] = accepted[i]
      /\ accepted'[Len(accepted) + 1] = m
  BY AppendProperties, LenProperties
<1>2. DOMAIN accepted = 1 .. Len(accepted) /\ DOMAIN accepted' = 1 .. Len(accepted) + 1
  BY <1>1, LenProperties
<1>3. ASSUME NEW i \in DOMAIN accepted', NEW j \in DOMAIN accepted', i < j
      PROVE  Follows(accepted'[j], accepted'[i])
  <2>1. i \in DOMAIN accepted /\ accepted'[i] = accepted[i]
    BY <1>1, <1>2, <1>3
  <2>2. CASE j = Len(accepted) + 1
    BY <1>1, <2>1, <2>2
  <2>3. CASE j # Len(accepted) + 1
    <3>1. j \in DOMAIN accepted /\ accepted'[j] = accepted[j]
      BY <1>1, <1>2, <2>3
    <3>. QED
      BY <1>3, <2>1, <3>1 DEF AnswersInOrder, Follows
  <2>. QED
    BY <2>2, <2>3
<1>4. ASSUME NEW i \in DOMAIN accepted'
      PROVE  accepted'[i].kind = "CONNACK" <=> accepted'[i].re = 1
  <2>1. CASE i = Len(accepted) + 1
    BY <1>1, <2>1
  <2>2. CASE i # Len(accepted) + 1
    <3>1. i \in DOMAIN accepted /\ accepted'[i] = accepted[i]
      BY <1>1, <1>2, <2>2
    <3>. QED
      BY <3>1 DEF AnswersInOrder
  <2>. QED
    BY <2>1, <2>2
<1>. QED
  BY <1>3, <1>4 DEF AnswersInOrder, Follows

\* The request being answered is the one served last.
LEMMA AnswersLast ==
    ASSUME StreamInvariant, RequestsFit, cstate \in AnsweringStates
    PROVE  Last(served) = Len(served) /\ Len(served) \in Nat \ {0}
<1>1. served \in Seq(Nat) /\ served # <<>>
  BY DEF StreamInvariant, TypeInvariant, ConnectionTypeOK, HistoryTypeOK, RequestsFit,
         AnsweringStates
<1>2. Len(served) \in Nat \ {0} /\ Len(served) \in DOMAIN served
  BY <1>1, EmptySeq, LenProperties
<1>. QED
  BY <1>2 DEF Last, StreamInvariant, ServedInOrder

\* try_send of an answer that fits, seen from the answers accepted before it.
LEMMA TrySendKeepsOrder ==
    ASSUME AnswerInvariant, NEW m \in Message, TrySend(m),
           \A i \in DOMAIN accepted : Follows(m, accepted[i]),
           m.kind = "CONNACK" <=> m.re = 1
    PROVE  /\ AnswersInOrder'
           /\ \A i \in DOMAIN accepted' :
                accepted'[i] = m \/ \E j \in DOMAIN accepted : accepted'[i] = accepted[j]
<1>1. accepted \in Seq(Message)
  BY DEF AnswerInvariant, StreamInvariant, TypeInvariant, ConnectionTypeOK, HistoryTypeOK
<1>2. CASE Full
  BY <1>2 DEF TrySend, AnswersInOrder, AnswerInvariant
<1>3. CASE ~Full
  <2>1. accepted' = Append(accepted, m)
    BY <1>3 DEF TrySend
  <2>2. AnswersInOrder'
    BY <1>1, <2>1, AppendKeepsOrder DEF AnswerInvariant
  <2>3. /\ DOMAIN accepted = 1 .. Len(accepted) /\ Len(accepted) \in Nat
        /\ DOMAIN accepted' = 1 .. Len(accepted) + 1
        /\ \A i \in 1 .. Len(accepted) : accepted'[i] = accepted[i]
        /\ accepted'[Len(accepted) + 1] = m
    BY <1>1, <2>1, AppendProperties, LenProperties
  <2>. QED
    BY <2>2, <2>3
<1>. QED
  BY <1>2, <1>3

LEMMA AnswerStep == AnswerInvariant /\ [Next]_vars => AnswerInvariant'
<1> SUFFICES ASSUME AnswerInvariant, [Next]_vars
             PROVE  AnswerInvariant'
  OBVIOUS
<1>1. /\ StreamInvariant /\ StreamInvariant' /\ RequestsFit /\ AnswersFit /\ AnswersInOrder
  BY StreamStep DEF AnswerInvariant
<1>2. /\ accepted \in Seq(Message) /\ served \in Seq(Nat) /\ Len(served) \in Nat
      /\ reply \in Seq(ReplyKinds) /\ Len(reply) \in Nat
      /\ served' \in Seq(Nat) /\ Len(served') \in Nat
      /\ cstate \in States
  BY <1>1, LenProperties
  DEF StreamInvariant, TypeInvariant, ConnectionTypeOK, HistoryTypeOK, FutureTypeOK
<1>3. ASSUME NEW i \in DOMAIN accepted
      PROVE  /\ accepted[i].re \in Nat /\ accepted[i].number \in Nat
             /\ AnswerFits(accepted[i])
  <2>1. accepted[i] \in Message
    BY <1>2, <1>3, LenProperties, ElementOfSeq
  <2>. QED
    BY <1>1, <2>1 DEF Message, AnswersFit
<1>4. CASE PollPacket
  <2>1. /\ Len(served') = Len(served) + 1 /\ served' # <<>>
        /\ UNCHANGED accepted
        /\ \/ cstate = "PreConnection" /\ cstate' = "ProcessingConnect"
           \/ cstate = "ReadingPacket" /\ cstate' = "ProcessingService"
    <3>1. PICK b \in AfterRead : Read(b) /\ DecodePacket(b)
      BY <1>4 DEF PollPacket
    <3>2. current \in Octet
      BY <1>1, <3>1, ReadType, DecodeType DEF StreamInvariant, TypeInvariant, ConnectionTypeOK
    <3>. QED
      BY <1>2, <1>4, <3>2, AppendProperties DEF PollPacket, Octet
  <2>2. RequestsFit'
    <3>1. cstate = "PreConnection" => Len(served) = 0
      BY <1>1, EmptySeq DEF RequestsFit
    <3>2. cstate = "ReadingPacket" => Len(served) >= 1
      BY <1>1, <1>2, EmptySeq DEF RequestsFit
    <3>. QED
      BY <1>2, <2>1, <3>1, <3>2 DEF RequestsFit
  <2>3. AnswersFit'
    BY <1>2, <1>3, <2>1 DEF AnswersFit, AnswerFits
  <2>. QED
    BY <1>1, <2>1, <2>2, <2>3 DEF AnswerInvariant, AnswersInOrder
<1>5. CASE PollCallFinished \/ PollWritten
  <2>1. /\ \/ cstate = "ProcessingConnect" /\ cstate' = "ResponseConnect"
           \/ cstate = "ProcessingService" /\ cstate' = "WritingPacket"
           \/ cstate = "WritingPacket" /\ cstate' = "ReadingPacket"
        /\ UNCHANGED <<served, accepted, reply>>
    BY <1>5 DEF PollCallFinished, PollWritten, history
  <2>2. RequestsFit'
    BY <1>1, <2>1 DEF RequestsFit
  <2>3. AnswersFit'
    BY <1>2, <1>3, <2>1 DEF AnswersFit, AnswerFits
  <2>. QED
    BY <1>1, <2>1, <2>2, <2>3 DEF AnswerInvariant, AnswersInOrder
<1>6. CASE PollConnack
  <2> DEFINE m == Answer("CONNACK", 1)
  <2>1. /\ cstate = "ResponseConnect" /\ cstate' = "ReadingPacket" /\ UNCHANGED served
        /\ TrySend(m)
    BY <1>6 DEF PollConnack
  <2>2. Len(served) = 1 /\ m = [re |-> 1, kind |-> "CONNACK", number |-> 1]
    BY <1>1, <2>1, AnswersLast DEF RequestsFit, AnsweringStates, Answer
  <2>3. m \in Message /\ m.re = 1 /\ m.kind = "CONNACK"
    BY <2>2 DEF Message, MessageKinds
  <2> HIDE DEF m
  <2>4. \A i \in DOMAIN accepted : Follows(m, accepted[i])
    BY <1>3, <2>1, <2>2, <2>3 DEF AnswerFits, Follows
  <2>5. /\ AnswersInOrder'
        /\ \A i \in DOMAIN accepted' :
             accepted'[i] = m \/ \E j \in DOMAIN accepted : accepted'[i] = accepted[j]
    BY <2>1, <2>3, <2>4, TrySendKeepsOrder
  <2>6. RequestsFit'
    BY <1>1, <2>1 DEF RequestsFit
  <2>7. AnswersFit'
    BY <1>3, <2>1, <2>2, <2>3, <2>5 DEF AnswersFit, AnswerFits
  <2>. QED
    BY <1>1, <2>5, <2>6, <2>7 DEF AnswerInvariant
<1>7. CASE PollWrite
  <2>1. /\ cstate = "WritingPacket" /\ UNCHANGED <<served, cstate>>
        /\ reply # <<>> /\ reply' = Tail(reply) /\ Len(served) >= 2
    BY <1>1, <1>7 DEF PollWrite, RequestsFit
  <2>2. /\ Len(reply') = Len(reply) - 1 /\ Len(reply') \in Nat /\ Head(reply) \in ReplyKinds
    BY <1>2, <2>1, HeadTailProperties, EmptySeq
  <2>3. RequestsFit'
    BY <1>1, <2>1 DEF RequestsFit
  <2>4. CASE Head(reply) = "NOOPERATION"
    <3>1. UNCHANGED accepted
      BY <1>7, <2>4 DEF PollWrite
    <3>2. AnswersFit'
      BY <1>2, <1>3, <2>1, <2>2, <3>1 DEF AnswersFit, AnswerFits
    <3>. QED
      BY <1>1, <2>3, <3>1, <3>2 DEF AnswerInvariant, AnswersInOrder
  <2>5. CASE Head(reply) # "NOOPERATION"
    <3> DEFINE m == Answer(Head(reply), Len(reply))
    <3>1. TrySend(m) /\ Head(reply) \in {"ACK", "UNENCODABLE"}
      BY <1>7, <2>2, <2>5 DEF PollWrite, ReplyKinds
    <3>2. m = [re |-> Len(served), kind |-> Head(reply), number |-> Len(reply)]
      BY <1>1, <2>1, AnswersLast DEF AnsweringStates, Answer
    <3>3. /\ m \in Message /\ m.re = Len(served) /\ m.number = Len(reply)
          /\ m.kind # "CONNACK" /\ m.re # 1
      BY <1>2, <2>1, <3>1, <3>2 DEF Message, MessageKinds
    <3> HIDE DEF m
    <3>4. \A i \in DOMAIN accepted : Follows(m, accepted[i])
      BY <1>2, <1>3, <2>1, <3>3 DEF AnswerFits, Follows
    <3>5. /\ AnswersInOrder'
          /\ \A i \in DOMAIN accepted' :
               accepted'[i] = m \/ \E j \in DOMAIN accepted : accepted'[i] = accepted[j]
      BY <3>1, <3>3, <3>4, TrySendKeepsOrder
    <3>6. AnswersFit'
      BY <1>2, <1>3, <2>1, <2>2, <3>3, <3>5 DEF AnswersFit, AnswerFits
    <3>. QED
      BY <1>1, <2>3, <3>5, <3>6 DEF AnswerInvariant
  <2>. QED
    BY <2>4, <2>5
<1>8. CASE Deliver
  <2> DEFINE m == [re |-> 0, kind |-> "DELIVERY", number |-> deliveries']
  <2>1. UNCHANGED <<served, cstate, reply>>
    BY <1>8 DEF Deliver, future
  <2>2. RequestsFit'
    BY <1>1, <2>1 DEF RequestsFit
  <2>3. CASE UNCHANGED accepted
    BY <1>1, <2>1, <2>2, <2>3
    DEF AnswerInvariant, AnswersInOrder, AnswersFit, AnswerFits
  <2>4. CASE accepted' = Append(accepted, m)
    <3>1. m \in Message /\ m.re = 0 /\ m.kind = "DELIVERY"
      BY <1>1, <1>8 DEF Deliver, Message, MessageKinds, StreamInvariant, TypeInvariant,
                        ConnectionTypeOK, ChannelTypeOK
    <3> HIDE DEF m
    <3>2. AnswersInOrder'
      BY <1>1, <1>2, <2>4, <3>1, AppendKeepsOrder DEF Follows
    <3>3. /\ DOMAIN accepted = 1 .. Len(accepted) /\ Len(accepted) \in Nat
          /\ DOMAIN accepted' = 1 .. Len(accepted) + 1
          /\ \A i \in 1 .. Len(accepted) : accepted'[i] = accepted[i]
          /\ accepted'[Len(accepted) + 1] = m
      BY <1>2, <2>4, <3>1, AppendProperties, LenProperties
    <3>4. AnswerFits(m)
      <4>1. cstate \in ProcessingStates \cup AnsweringStates => Len(served) >= 1
        BY <1>1, <1>2 DEF RequestsFit, ProcessingStates, AnsweringStates
      <4>. QED
        BY <1>2, <3>1, <4>1 DEF AnswerFits, ProcessingStates, AnsweringStates
    <3>5. AnswersFit'
      BY <1>1, <2>1, <3>3, <3>4 DEF AnswersFit, AnswerFits
    <3>. QED
      BY <1>1, <2>2, <3>2, <3>5 DEF AnswerInvariant
  <2>. QED
    BY <1>8, <2>3, <2>4 DEF Deliver
<1>9. CASE Services
  <2>1. UNCHANGED <<served, accepted, cstate>> /\ (cstate = "WritingPacket" => UNCHANGED reply)
    BY <1>9 DEF Services, ConnectServiceAccepts, ServiceReplies, ServiceFails, Finish, history
  <2>. QED
    BY <1>1, <2>1 DEF AnswerInvariant, RequestsFit, AnswersFit, AnswerFits, AnswersInOrder
<1>10. CASE \/ PollEof \/ PollReadError \/ PollPending \/ PollRejected \/ PollUnexpected
            \/ PollCallPending \/ PollCallFailed \/ PollDisconnect \/ PollClosed
            \/ Writer \/ Client \/ Unregister \/ UNCHANGED vars
  <2>1. UNCHANGED <<served, accepted, cstate, reply>>
    BY <1>10 DEF PollEof, PollReadError, PollPending, PollRejected, PollUnexpected,
       PollCallPending, PollCallFailed, PollDisconnect, PollClosed, Resolve, Writer,
       WriterRecv, WriterRefuses, WriterWrites, WriterFails, WriterReturns,
       WriterShutdown, Client, ClientSend, ClientClose, Arrive, Unregister, vars,
       future, history
  <2>. QED
    BY <1>1, <2>1 DEF AnswerInvariant, RequestsFit, AnswersFit, AnswerFits, AnswersInOrder
<1>. QED
  BY <1>4, <1>5, <1>6, <1>7, <1>8, <1>9, <1>10 DEF Next, Poll

LEMMA AnswerInit == Init => AnswerInvariant
<1> SUFFICES ASSUME Init PROVE AnswerInvariant
  OBVIOUS
<1>1. served = <<>> /\ accepted = <<>> /\ cstate = "PreConnection"
  BY DEF Init
<1>. QED
  BY <1>1, StreamInit DEF AnswerInvariant, RequestsFit, AnswersFit, AnswersInOrder

\* Whatever the services answer, and however full the channel is, it takes the
\* answers in the order of the requests and of each answer's list.
THEOREM ConnectionAnswersInOrder == Spec => []AnswersInOrder
<1>1. AnswerInvariant => AnswersInOrder
  BY DEF AnswerInvariant
<1>. QED
  BY <1>1, AnswerInit, AnswerStep, PTL DEF Spec
-----------------------------------------------------------------------------
(* Connection implements RequestReply *)

\* The refinement needs that a finished service left one of its answers, and
\* that only a connection whose CONNECT was served has a name to deliver to.
MappingFits ==
    /\ cstate = "ProcessingService" /\ call = "finished" => reply \in Replies
    /\ named => served # <<>>

MappingInvariant == AnswerInvariant /\ MappingFits

LEMMA MappingStep == MappingInvariant /\ [Next]_vars => MappingInvariant'
<1> SUFFICES ASSUME MappingInvariant, [Next]_vars
             PROVE  MappingInvariant'
  OBVIOUS
<1>1. /\ AnswerInvariant /\ AnswerInvariant' /\ RequestsFit /\ MappingFits
      /\ served \in Seq(Nat)
  BY AnswerStep
  DEF MappingInvariant, AnswerInvariant, StreamInvariant, TypeInvariant, ConnectionTypeOK,
      HistoryTypeOK
<1>2. CASE Services
  <2>1. CASE ConnectServiceAccepts
    <3>1. cstate = "ProcessingConnect" /\ UNCHANGED <<cstate, served>>
      BY <2>1 DEF ConnectServiceAccepts, Finish, history
    <3>2. served # <<>>
      BY <1>1, <3>1 DEF RequestsFit
    <3>. QED
      BY <1>1, <3>1, <3>2 DEF MappingInvariant, MappingFits
  <2>2. CASE ServiceReplies \/ ServiceFails
    <3>1. /\ UNCHANGED <<cstate, served, named>>
          /\ reply' \in Replies \/ call' = "failed"
      BY <2>2 DEF ServiceReplies, ServiceFails, Finish, history, registry
    <3>. QED
      BY <1>1, <3>1 DEF MappingInvariant, MappingFits
  <2>. QED
    BY <1>2, <2>1, <2>2 DEF Services
<1>3. CASE PollPacket
  <2>1. call' = "running" /\ UNCHANGED named /\ served' # <<>>
    <3>1. cstate' # "PreConnection"
      BY <1>3 DEF PollPacket
    <3>2. RequestsFit'
      BY <1>1 DEF AnswerInvariant
    <3>. QED
      BY <1>3, <3>1, <3>2 DEF PollPacket, registry, RequestsFit
  <2>. QED
    BY <1>1, <2>1 DEF MappingInvariant, MappingFits
<1>4. CASE PollCallFinished \/ PollConnack \/ PollWrite \/ PollWritten
  <2>1. UNCHANGED <<named, served>> /\ cstate' # "ProcessingService"
    BY <1>4 DEF PollCallFinished, PollConnack, PollWrite, PollWritten, registry, history
  <2>. QED
    BY <1>1, <2>1 DEF MappingInvariant, MappingFits
<1>5. CASE \/ PollEof \/ PollReadError \/ PollPending \/ PollRejected \/ PollUnexpected
           \/ PollCallPending \/ PollCallFailed \/ PollDisconnect \/ PollClosed
           \/ Writer \/ Client \/ Deliver \/ Unregister \/ UNCHANGED vars
  <2>1. UNCHANGED <<cstate, call, reply, named, served>>
    BY <1>5 DEF PollEof, PollReadError, PollPending, PollRejected, PollUnexpected,
       PollCallPending, PollCallFailed, PollDisconnect, PollClosed, Resolve, Writer,
       WriterRecv, WriterRefuses, WriterWrites, WriterFails, WriterReturns,
       WriterShutdown, Client, ClientSend, ClientClose, Arrive, Deliver, Unregister,
       vars, future, history, registry
  <2>. QED
    BY <1>1, <2>1 DEF MappingInvariant, MappingFits
<1>. QED
  BY <1>2, <1>3, <1>4, <1>5 DEF Next, Poll

\* The abstract state of a connection, as Discipline maps it.
Phase ==
    IF result # "running" THEN "closed"
    ELSE IF cstate \in ReadingStates THEN "reading"
    ELSE IF cstate \in ProcessingStates THEN "calling"
    ELSE "answering"
Todo ==
    IF result # "running" THEN <<>>
    ELSE IF cstate = "ResponseConnect" THEN <<"CONNACK">>
    ELSE IF cstate = "WritingPacket" THEN reply
    ELSE <<>>

\* The abstract steps, in the terms of the connection.
LEMMA MapsToTake ==
    ASSUME Phase = "reading", Phase' = "calling", Len(served)' = Len(served) + 1,
           UNCHANGED <<Todo, accepted>>
    PROVE  Discipline!RRNext
  BY DEF Phase, Todo, Discipline!RRNext, Discipline!Take

LEMMA MapsToRespond ==
    ASSUME Phase = "calling", Phase' = "answering",
           Todo' \in (IF Len(served) = 1 THEN {<<"CONNACK">>} ELSE Replies),
           UNCHANGED <<Len(served), accepted>>
    PROVE  Discipline!RRNext
  BY DEF Phase, Todo, Discipline!RRNext, Discipline!Respond

LEMMA MapsToEmit ==
    ASSUME Phase = "answering", Todo # <<>>, Todo' = Tail(Todo),
           \/ UNCHANGED accepted
           \/ /\ Head(Todo) \notin {"NOOPERATION", "DISCONNECT"}
              /\ accepted' = Append(accepted, [re |-> Len(served), kind |-> Head(Todo),
                                               number |-> Len(Todo)]),
           Phase' = "answering" \/ (Phase' = "reading" /\ Todo' = <<>>),
           UNCHANGED Len(served)
    PROVE  Discipline!RRNext
  BY DEF Phase, Todo, Discipline!RRNext, Discipline!Emit, Discipline!Emission

LEMMA MapsToAnswered ==
    ASSUME Phase = "answering", Todo = <<>>, Phase' = "reading",
           UNCHANGED <<Len(served), Todo, accepted>>
    PROVE  Discipline!RRNext
  BY DEF Phase, Todo, Discipline!RRNext, Discipline!Answered

LEMMA MapsToClose ==
    ASSUME Phase # "closed", Phase' = "closed", Todo' = <<>>,
           UNCHANGED <<Len(served), accepted>>
    PROVE  Discipline!RRNext
  BY DEF Phase, Todo, Discipline!RRNext, Discipline!Close

LEMMA MapsToDeliver ==
    ASSUME Len(served) >= 1, accepted \in Seq(Message), NEW m \in Message, m.re = 0,
           accepted' = Append(accepted, m), UNCHANGED <<Phase, Len(served), Todo>>
    PROVE  Discipline!RRNext
<1>1. /\ Len(accepted) \in Nat /\ accepted' \in Seq(Message)
      /\ Len(accepted') = Len(accepted) + 1
      /\ \A i \in 1 .. Len(accepted) : accepted'[i] = accepted[i]
      /\ accepted'[Len(accepted) + 1] = m
  BY AppendProperties, LenProperties
<1>2. Last(accepted').re = 0
  BY <1>1 DEF Last
<1>3. Front(accepted') = accepted
  <2>1. Front(accepted') = SubSeq(accepted', 1, Len(accepted))
    BY <1>1 DEF Front
  <2>2. \A i \in 1 .. Len(accepted) : accepted'[i] \in Message
    BY <1>1, ElementOfSeq
  <2>3. /\ SubSeq(accepted', 1, Len(accepted)) \in Seq(Message)
        /\ Len(SubSeq(accepted', 1, Len(accepted))) = Len(accepted)
        /\ \A i \in 1 .. Len(accepted) :
              SubSeq(accepted', 1, Len(accepted))[i] = accepted'[i]
    BY <1>1, <2>2, SubSeqProperties
  <2>. QED
    BY <1>1, <2>1, <2>3, SeqEqual
<1>. QED
  BY <1>1, <1>2, <1>3
  DEF Phase, Todo, Discipline!RRNext, Discipline!Deliver, Discipline!Front,
      Discipline!Last, Front, Last

LEMMA MapsToStutter ==
    ASSUME UNCHANGED <<Phase, Len(served), Todo, accepted>>
    PROVE  UNCHANGED Discipline!rrVars
  BY DEF Phase, Todo, Discipline!rrVars

LEMMA MappingInit == Init => MappingInvariant /\ Discipline!RRInit
<1> SUFFICES ASSUME Init PROVE MappingInvariant /\ Discipline!RRInit
  OBVIOUS
<1>1. /\ cstate = "PreConnection" /\ ~named /\ result = "running" /\ served = <<>>
      /\ accepted = <<>>
  BY DEF Init
<1>2. MappingInvariant
  BY <1>1, AnswerInit DEF MappingInvariant, MappingFits
<1>3. Discipline!RRInit
  BY <1>1, EmptySeq DEF Discipline!RRInit, ReadingStates
<1>. QED
  BY <1>2, <1>3

\* Every step of a connection is a step of the discipline, or none of it.
LEMMA DisciplineStep ==
    MappingInvariant /\ [Next]_vars => [Discipline!RRNext]_Discipline!rrVars
<1> SUFFICES ASSUME MappingInvariant, [Next]_vars
             PROVE  Discipline!RRNext \/ UNCHANGED Discipline!rrVars
  OBVIOUS
<1>1. /\ AnswerInvariant /\ StreamInvariant /\ RequestsFit /\ MappingFits
      /\ served \in Seq(Nat) /\ Len(served) \in Nat
      /\ reply \in Seq(ReplyKinds) /\ accepted \in Seq(Message) /\ cstate \in States
  BY LenProperties
  DEF MappingInvariant, AnswerInvariant, StreamInvariant, TypeInvariant, ConnectionTypeOK,
      HistoryTypeOK, FutureTypeOK
<1> USE DEF ReadingStates, ProcessingStates, AnsweringStates
<1>2. CASE PollPacket
  <2>1. PICK b \in AfterRead : Read(b) /\ DecodePacket(b)
    BY <1>2 DEF PollPacket
  <2>2. current \in Octet
    BY <1>1, <2>1, ReadType, DecodeType DEF StreamInvariant, TypeInvariant, ConnectionTypeOK
  <2>3. Len(served)' = Len(served) + 1
    BY <1>1, <1>2, <2>2, AppendProperties DEF PollPacket, Octet
  <2>4. /\ Phase = "reading" /\ Phase' = "calling" /\ UNCHANGED <<Todo, accepted>>
    BY <1>2 DEF PollPacket, Polled, Phase, Todo
  <2>. QED
    BY <2>3, <2>4, MapsToTake
<1>3. CASE PollCallFinished
  <2>1. Phase = "calling" /\ Phase' = "answering" /\ UNCHANGED <<Len(served), accepted>>
    BY <1>3 DEF PollCallFinished, Polled, Phase, history
  <2>2. Todo' \in (IF Len(served) = 1 THEN {<<"CONNACK">>} ELSE Replies)
    <3>1. CASE cstate = "ProcessingConnect"
      <4>1. cstate' = "ResponseConnect" /\ result' = "running"
        BY <1>3, <3>1 DEF PollCallFinished, Polled
      <4>2. Len(served) = 1
        BY <1>1, <3>1 DEF RequestsFit
      <4>. QED
        BY <4>1, <4>2 DEF Todo
    <3>2. CASE cstate = "ProcessingService"
      <4>1. cstate' = "WritingPacket" /\ result' = "running" /\ reply' = reply
        BY <1>3, <3>2 DEF PollCallFinished, Polled
      <4>2. Len(served) # 1
        <5>1. Len(served) >= 2
          BY <1>1, <3>2 DEF RequestsFit
        <5>2. \A n \in Nat : n >= 2 => n # 1
          OBVIOUS
        <5>. QED
          BY <1>1, <5>1, <5>2
      <4>3. reply \in Replies
        BY <1>1, <1>3, <3>2 DEF PollCallFinished, MappingFits
      <4>. QED
        BY <4>1, <4>2, <4>3 DEF Todo
    <3>. QED
      BY <1>3, <3>1, <3>2 DEF PollCallFinished
  <2>. QED
    BY <2>1, <2>2, MapsToRespond
<1>4. CASE PollConnack
  <2>1. /\ Phase = "answering" /\ Todo = <<"CONNACK">> /\ Phase' = "reading" /\ Todo' = <<>>
        /\ UNCHANGED Len(served)
    BY <1>4 DEF PollConnack, Polled, Phase, Todo
  <2>2. Todo' = Tail(Todo) /\ Head(Todo) = "CONNACK" /\ Len(Todo) = 1 /\ Todo # <<>>
    BY <2>1
  <2>3. Last(served) = Len(served)
    BY <1>1, <1>4, AnswersLast DEF PollConnack
  <2>4. \/ UNCHANGED accepted
        \/ accepted' = Append(accepted, [re |-> Len(served), kind |-> Head(Todo),
                                         number |-> Len(Todo)])
    BY <1>4, <2>2, <2>3 DEF PollConnack, TrySend, Answer
  <2>. QED
    BY <2>1, <2>2, <2>4, MapsToEmit
<1>5. CASE PollWrite
  <2>1. /\ Phase = "answering" /\ Todo = reply /\ Phase' = "answering" /\ Todo' = reply'
        /\ reply # <<>> /\ reply' = Tail(reply) /\ Head(reply) # "DISCONNECT"
        /\ UNCHANGED Len(served)
    BY <1>5 DEF PollWrite, Polled, Phase, Todo
  <2>2. Last(served) = Len(served)
    BY <1>1, <1>5, AnswersLast DEF PollWrite
  <2>3. \/ UNCHANGED accepted
        \/ /\ Head(Todo) \notin {"NOOPERATION", "DISCONNECT"}
           /\ accepted' = Append(accepted, [re |-> Len(served), kind |-> Head(Todo),
                                            number |-> Len(Todo)])
    BY <1>5, <2>1, <2>2 DEF PollWrite, TrySend, Answer
  <2>. QED
    BY <2>1, <2>3, MapsToEmit
<1>6. CASE PollWritten
  <2>1. /\ Phase = "answering" /\ Todo = <<>> /\ Phase' = "reading"
        /\ UNCHANGED <<Len(served), Todo, accepted>>
    BY <1>6 DEF PollWritten, Polled, Phase, Todo, history
  <2>. QED
    BY <2>1, MapsToAnswered
<1>7. CASE PollEof \/ PollReadError \/ PollRejected \/ PollUnexpected \/ PollCallFailed
           \/ PollDisconnect \/ PollClosed
  <2>1. result = "running" /\ result' # "running" /\ UNCHANGED <<served, accepted>>
    BY <1>7 DEF PollEof, PollReadError, PollRejected, PollUnexpected, PollCallFailed,
       PollDisconnect, PollClosed, Polled, Resolve, history
  <2>2. Phase # "closed" /\ Phase' = "closed" /\ Todo' = <<>>
    BY <1>1, <2>1 DEF Phase, Todo
  <2>. QED
    BY <2>1, <2>2, MapsToClose
<1>8. CASE Deliver
  <2> DEFINE m == [re |-> 0, kind |-> "DELIVERY", number |-> deliveries']
  <2>1. UNCHANGED <<Phase, Len(served), Todo>>
    BY <1>8 DEF Deliver, Phase, Todo, future
  <2>2. CASE UNCHANGED accepted
    BY <2>1, <2>2, MapsToStutter
  <2>3. CASE accepted' = Append(accepted, m)
    <3>1. m \in Message /\ m.re = 0
      BY <1>1, <1>8 DEF Deliver, Message, MessageKinds, StreamInvariant, TypeInvariant,
                        ConnectionTypeOK, ChannelTypeOK
    <3>2. Len(served) >= 1
      BY <1>1, <1>8, EmptySeq DEF Deliver, MappingFits
    <3> HIDE DEF m
    <3>. QED
      BY <1>1, <2>1, <2>3, <3>1, <3>2, MapsToDeliver
  <2>. QED
    BY <1>8, <2>2, <2>3 DEF Deliver
<1>9. CASE Services
  <2>1. UNCHANGED <<result, cstate, served, accepted>>
    BY <1>9 DEF Services, ConnectServiceAccepts, ServiceReplies, ServiceFails, Finish, history
  <2>2. cstate = "WritingPacket" => UNCHANGED reply
    BY <1>9 DEF Services, ConnectServiceAccepts, ServiceReplies, ServiceFails
  <2>3. UNCHANGED <<Phase, Len(served), Todo, accepted>>
    BY <2>1, <2>2 DEF Phase, Todo
  <2>. QED
    BY <2>3, MapsToStutter
<1>10. CASE PollPending \/ PollCallPending \/ Writer \/ Client \/ Unregister \/ UNCHANGED vars
  <2>1. UNCHANGED <<result, cstate, served, accepted, reply>>
    BY <1>10 DEF PollPending, PollCallPending, Writer, WriterRecv, WriterRefuses,
       WriterWrites, WriterFails, WriterReturns, WriterShutdown, Client, ClientSend,
       ClientClose, Arrive, Unregister, vars, future, history
  <2>2. UNCHANGED <<Phase, Len(served), Todo, accepted>>
    BY <2>1 DEF Phase, Todo
  <2>. QED
    BY <2>2, MapsToStutter
<1>. QED
  BY <1>2, <1>3, <1>4, <1>5, <1>6, <1>7, <1>8, <1>9, <1>10 DEF Next, Poll

\* A connection implements the request/reply discipline that the broker's
\* services and its client rely on.
THEOREM ConnectionFollowsDiscipline == Spec => FollowsDiscipline
<1>. QED
  BY MappingInit, MappingStep, DisciplineStep, PTL DEF Spec, FollowsDiscipline, Discipline!Spec
-----------------------------------------------------------------------------
(* FailsOnNoWholeFrame *)

FailureInvariant == AnswerInvariant /\ FailsOnNoWholeFrame

\* The octets of the stream that the buffer does not hold after a read are in
\* the socket or on their way.
LEMMA RestIsUnread ==
    ASSUME StreamInvariant, result = "running", NEW b \in AfterRead, Read(b),
           UNCHANGED <<stream, unsent>>,
           NEW q \in 1 .. Len(stream), q > Behind + Len(b)
    PROVE  \/ \E i \in DOMAIN wire' : wire'[i] = stream[q]
           \/ \E i \in DOMAIN unsent' : unsent'[i] = stream[q]
<1>1. stream \in Seq(Octet) /\ unsent \in Seq(Octet) /\ unsent' = unsent
  BY StreamsAssumption
  DEF StreamInvariant, TypeInvariant, ConnectionTypeOK, ClientTypeOK
<1>2. /\ b \in Seq(Octet) /\ wire' \in Seq(Octet) /\ (b \o wire') \o unsent = Ahead
      /\ Behind \in Nat /\ Behind + Len(b) <= Len(stream)
  BY BufferOnStream
<1>3. /\ Len(b) \in Nat /\ Len(wire') \in Nat /\ Len(unsent) \in Nat /\ Len(stream) \in Nat
      /\ DOMAIN wire' = 1 .. Len(wire') /\ DOMAIN unsent = 1 .. Len(unsent)
  BY <1>1, <1>2, LenProperties
<1> DEFINE front == b \o wire'
           j == q - Behind
<1>4. /\ front \in Seq(Octet) /\ Len(front) = Len(b) + Len(wire')
      /\ \A i \in 1 .. Len(b) + Len(wire') :
            front[i] = IF i <= Len(b) THEN b[i] ELSE wire'[i - Len(b)]
  BY <1>2, ConcatProperties
<1>5. Ahead = front \o unsent
  BY <1>2
<1> HIDE DEF front
<1>6. /\ Len(Ahead) = Len(front) + Len(unsent)
      /\ \A i \in 1 .. Len(front) + Len(unsent) :
            Ahead[i] = IF i <= Len(front) THEN front[i] ELSE unsent[i - Len(front)]
  <2>1. /\ Len(front \o unsent) = Len(front) + Len(unsent)
        /\ \A i \in 1 .. Len(front) + Len(unsent) :
              (front \o unsent)[i] = IF i <= Len(front) THEN front[i] ELSE unsent[i - Len(front)]
    <3>1. front \in Seq(Octet) /\ unsent \in Seq(Octet)
      BY <1>1, <1>4
    <3>. QED
      BY <3>1, ConcatProperties, Zenon
  <2>. QED
    BY <1>5, <2>1
<1>7. Behind <= Len(stream) /\ Ahead = Advance(stream, Behind)
  BY <1>2, <1>3 DEF StreamInvariant, OnStream
<1>8. /\ Len(Ahead) = Len(stream) - Behind
      /\ \A i \in 1 .. Len(stream) - Behind : Ahead[i] = stream[i + Behind]
  BY <1>1, <1>2, <1>7, AdvanceProperties
<1>9. j \in 1 .. Len(stream) - Behind /\ j + Behind = q /\ j > Len(b)
  BY <1>2, <1>3
<1>10. Ahead[j] = stream[q]
  BY <1>8, <1>9
<1>11. j \in 1 .. Len(front) + Len(unsent) /\ j \in Nat
  BY <1>6, <1>8, <1>9
<1> HIDE DEF j
<1>12. CASE j <= Len(front)
  <2>1. j - Len(b) \in 1 .. Len(wire') /\ j \in 1 .. Len(b) + Len(wire') /\ ~(j <= Len(b))
    BY <1>3, <1>4, <1>9, <1>11, <1>12
  <2>2. Ahead[j] = wire'[j - Len(b)]
    BY <1>4, <1>6, <1>11, <1>12, <2>1
  <2>. QED
    BY <1>3, <1>10, <2>1, <2>2
<1>13. CASE ~(j <= Len(front))
  <2>1. j - Len(front) \in 1 .. Len(unsent)
    BY <1>3, <1>4, <1>11, <1>13
  <2>2. Ahead[j] = unsent[j - Len(front)]
    BY <1>6, <1>11, <1>13
  <2>. QED
    BY <1>1, <1>3, <1>10, <2>1, <2>2
<1>. QED
  BY <1>12, <1>13

\* A frame the decoder takes, all of which is in the buffer or consumed, is not
\* rejected.
LEMMA RejectionHasReason ==
    ASSUME StreamInvariant, result = "running", NEW b \in AfterRead, Read(b),
           UNCHANGED <<stream, unsent, served>>, DecodeRejects(b),
           WellReadUpTo(Len(served) + 1)
    PROVE  Unread(Len(served) + 1)'
<1>1. /\ stream \in Seq(Octet) /\ InFrames(stream) /\ Len(stream) \in Nat
      /\ DOMAIN stream = 1 .. Len(stream) /\ Len(served) \in Nat
  BY StreamsAssumption, LenProperties
  DEF StreamInvariant, TypeInvariant, ConnectionTypeOK, ClientTypeOK, HistoryTypeOK
<1>2. b # <<>>
  BY DEF DecodeRejects
<1>3. /\ b \in Seq(Octet) /\ Behind \in Nat /\ Behind + Len(b) <= Len(stream)
      /\ \A i \in 1 .. Len(b) : b[i] = stream[Behind + i]
  BY BufferOnStream
<1>4. Len(b) \in Nat \ {0}
  BY <1>2, <1>3, EmptySeq
<1>5. ~Strayed
  <2> SUFFICES ASSUME NEW i \in DOMAIN stream, stream[i].no <= Len(served)
               PROVE  stream[i].frame \in WellRead
    BY DEF Strayed
  <2>1. stream[i].no \in Nat
    <3>1. stream[i] \in Octet
      BY <1>1, ElementOfSeq
    <3>. QED
      BY <3>1 DEF Octet
  <2>2. stream[i].no <= Len(served) + 1
    BY <1>1, <2>1
  <2>. QED
    BY <2>2 DEF WellReadUpTo
<1>6. ASSUME NEW p \in 1 .. Len(stream), stream[p].at = 1, stream[p].no = Len(served) + 1
      PROVE  /\ FrameExtent[stream[p].frame].bad = "none"
             /\ FrameExtent[stream[p].frame].rest = 0
             /\ FrameExtent[stream[p].frame].over = 0
             /\ p - 1 + FrameSize(stream[p].frame) > Behind + Len(b) =>
                    Unread(Len(served) + 1)'
  <2> DEFINE size == FrameSize(stream[p].frame)
             q == p - 1 + size
  <2>1. stream[p] \in Octet
    BY <1>1, ElementOfSeq
  <2>2. stream[p].frame \in FrameNames /\ size \in Nat \ {0} /\ stream[p].no \in Nat
    BY <2>1, FrameSizes DEF Octet
  <2>3. stream[p].frame \in WellRead
    BY <1>1, <1>6 DEF WellReadUpTo
  <2>4. /\ q <= Len(stream)
        /\ \A k \in 1 .. size : stream[p - 1 + k] = [stream[p] EXCEPT !.at = k]
    BY <1>1, <1>6, FrameFollows
  <2>5. stream[q] = [stream[p] EXCEPT !.at = size]
    BY <2>2, <2>4
  <2>6. stream[q].no = Len(served) + 1
    BY <1>6, <2>1, <2>5 DEF Octet
  <2>7. q \in 1 .. Len(stream)
    BY <1>1, <2>2, <2>4
  <2>8. ASSUME q > Behind + Len(b)
        PROVE  Unread(Len(served) + 1)'
    <3> HIDE DEF q
    <3>1. \/ \E i \in DOMAIN wire' : wire'[i] = stream[q]
          \/ \E i \in DOMAIN unsent' : unsent'[i] = stream[q]
      BY <2>7, <2>8, RestIsUnread
    <3>. QED
      BY <2>6, <3>1 DEF Unread
  <2>. QED
    BY <2>3, <2>8 DEF WellRead
<1>7. CASE dstate = "Done"
  <2>1. ~HeaderDecodes(b)
    BY <1>7 DEF DecodeRejects
  <2>2. Behind + 1 \in 1 .. Len(stream) /\ b[1] = stream[Behind + 1]
    BY <1>1, <1>3, <1>4
  <2>3. BetweenFrames
    BY <1>7 DEF StreamInvariant, OnStream
  <2>4. b[1].at = 1
    BY <1>3, <1>5, <2>2, <2>3, StrayedInside
  <2>5. b[1].no = Len(served) + 1
    BY <1>3, <2>2, <2>3, <2>4, StartsNext
  <2> DEFINE f == b[1].frame
  <2>6. f \in FrameNames
    <3>1. b[1] \in Octet
      BY <1>1, <2>2, ElementOfSeq
    <3>. QED
      BY <3>1 DEF Octet
  <2>7. /\ FrameExtent[f].bad = "none"
        /\ Behind + FrameSize(f) > Behind + Len(b) => Unread(Len(served) + 1)'
    <3>1. (Behind + 1) - 1 = Behind
      BY <1>3
    <3>. QED
      BY <1>6, <2>2, <2>4, <2>5, <3>1
  <2>8. Len(b) < FrameExtent[f].fixed
    <3>1. FrameExtent[f].fixed \in Nat
      BY <2>6, FrameSizes
    <3>. QED
      BY <1>4, <2>1, <2>4, <2>7, <3>1 DEF HeaderDecodes
  <2>9. FrameSize(f) \in Nat /\ FrameExtent[f].fixed <= FrameSize(f)
    <3>1. /\ FrameExtent[f].fixed \in Nat /\ FrameExtent[f].var \in Nat
          /\ FrameExtent[f].pay \in Nat /\ DecodedSize(f) <= FrameSize(f)
          /\ FrameSize(f) \in Nat
      BY <2>6, FrameSizes
    <3>. QED
      BY <3>1 DEF DecodedSize
  <2>10. Behind + FrameSize(f) > Behind + Len(b)
    <3>1. FrameExtent[f].fixed \in Nat
      BY <2>6, FrameSizes
    <3> HIDE DEF f
    <3>. QED
      BY <1>3, <1>4, <2>8, <2>9, <3>1
  <2>. QED
    BY <2>7, <2>10
<1>8. CASE dstate # "Done"
  <2>1. InsideFrame
    BY <1>8 DEF StreamInvariant, OnStream
  <2>2. current.at = 1 /\ current.no = Len(served) + 1
    BY <1>5, <2>1 DEF InsideFrame
  <2>3. /\ current \in Octet /\ DecodedOf \in Nat /\ Behind >= DecodedOf
        /\ stream[Behind - DecodedOf + 1] = current
        /\ Behind - DecodedOf + FrameSize(current.frame) <= Len(stream)
    BY <1>8, <2>1, <2>2, CurrentOnStream DEF InsideFrame
  <2> DEFINE p == Behind - DecodedOf + 1
             f == FrameExtent[current.frame]
             size == FrameSize(current.frame)
  <2>4. /\ f.fixed \in Nat /\ f.var \in Nat /\ f.pay \in Nat /\ f.rest \in Nat
        /\ VariableReads(current.frame) = f.var + f.over
        /\ size \in Nat \ {0} /\ size = (f.fixed + f.var + f.pay) + f.rest
    BY <2>3, FrameSizes DEF Octet, DecodedSize
  <2>5. p \in 1 .. Len(stream) /\ p - 1 = Behind - DecodedOf
    BY <1>1, <1>3, <2>3, <2>4
  <2>6. stream[p] = current
    BY <2>3
  <2> HIDE DEF p
  <2>7. /\ f.bad = "none" /\ f.rest = 0 /\ f.over = 0
        /\ p - 1 + size > Behind + Len(b) => Unread(Len(served) + 1)'
    BY <1>6, <2>2, <2>5, <2>6
  <2>8. f.over \in Nat /\ VariableReads(current.frame) = f.var
    BY <2>4, <2>7
  <2>9. CASE dstate = "FixedHeaderDecoded"
    <3>1. Len(b) < f.var
      BY <1>4, <2>2, <2>4, <2>7, <2>8, <2>9 DEF DecodeRejects, VariableDecodes
    <3>2. DecodedOf = f.fixed
      BY <2>9 DEF DecodedOf
    <3>3. p - 1 + size > Behind + Len(b)
      <4>1. \A w, d, v, y, r, n \in Nat :
               w >= d /\ n < v => (w - d) + ((d + v + y) + r) > w + n
        OBVIOUS
      <4>2. Behind \in Nat /\ Len(b) \in Nat /\ Behind >= DecodedOf
        BY <1>3, <1>4, <2>3
      <4> HIDE DEF f, size
      <4>. QED
        BY <2>4, <2>5, <3>1, <3>2, <4>1, <4>2
    <3>. QED
      BY <2>7, <3>3
  <2>10. CASE dstate = "VariableHeaderDecoded"
    <3>1. Len(b) < f.pay
      BY <1>4, <2>4, <2>7, <2>10 DEF DecodeRejects, PayloadDecodes
    <3>2. DecodedOf = f.fixed + f.var
      BY <2>8, <2>10 DEF DecodedOf
    <3>3. p - 1 + size > Behind + Len(b)
      <4>1. \A w, d, v, y, r, n \in Nat :
               w >= d + v /\ n < y => (w - (d + v)) + ((d + v + y) + r) > w + n
        OBVIOUS
      <4>2. Behind \in Nat /\ Len(b) \in Nat /\ Behind >= DecodedOf
        BY <1>3, <1>4, <2>3
      <4> HIDE DEF f, size
      <4>. QED
        BY <2>4, <2>5, <3>1, <3>2, <4>1, <4>2
    <3>. QED
      BY <2>7, <3>3
  <2>. QED
    BY <1>8, <2>9, <2>10
    DEF StreamInvariant, TypeInvariant, ConnectionTypeOK, DecoderTypeOK, DecoderStates
<1>. QED
  BY <1>7, <1>8

\* A first packet that is no CONNECT is a reason as well.
LEMMA UnexpectedHasReason ==
    ASSUME StreamInvariant, RequestsFit, PollUnexpected
    PROVE  ~WellReadUpTo(Len(served) + 1)
<1>1. /\ stream \in Seq(Octet) /\ Len(stream) \in Nat /\ DOMAIN stream = 1 .. Len(stream)
  BY StreamsAssumption, LenProperties
  DEF StreamInvariant, TypeInvariant, ConnectionTypeOK, ClientTypeOK
<1>2. result = "running" /\ served = <<>>
  BY DEF PollUnexpected, Polled, RequestsFit
<1>3. PICK b \in AfterRead : DecodePacket(b)
  BY DEF PollUnexpected
<1>4. dstate # "Done"
  BY <1>3 DEF DecodePacket, DecodeBodiless, DecodePayload
<1>5. InsideFrame
  BY <1>2, <1>4 DEF StreamInvariant, OnStream
<1>6. current.at = 1
  BY <1>3, <1>5 DEF DecodePacket, DecodeBodiless, DecodePayload, VariableDecodes, InsideFrame
<1>7. Len(served) + 1 = 1
  BY <1>2, EmptySeq
<1>8. /\ current \in Octet /\ DecodedOf \in Nat /\ Behind \in Nat /\ Behind >= DecodedOf
      /\ Behind - DecodedOf + FrameSize(current.frame) <= Len(stream)
  BY <1>2, <1>4, <1>6, CurrentOnStream
<1>9. current.no = 1 /\ stream[Behind - DecodedOf + 1] = current
  BY <1>5, <1>6, <1>7 DEF InsideFrame
<1>10. FrameSize(current.frame) \in Nat \ {0}
  <2>1. current.frame \in FrameNames
    BY <1>8 DEF Octet
  <2>. QED
    BY <2>1, FrameSizes
<1>11. Behind - DecodedOf + 1 \in DOMAIN stream
  BY <1>1, <1>8, <1>10
<1>12. current.frame # "CONNECT"
  BY DEF PollUnexpected, IsConnect
<1>. QED
  BY <1>7, <1>9, <1>11, <1>12 DEF WellReadUpTo

\* What is on its way arrives in the socket.
LEMMA SendKeepsUnread ==
    ASSUME ClientTypeOK, ClientSend, NEW k \in Nat, Unread(k)
    PROVE  Unread(k)'
<1>1. /\ wire \in Seq(Octet) /\ unsent \in Seq(Octet)
      /\ Len(wire) \in Nat /\ Len(unsent) \in Nat
      /\ DOMAIN wire = 1 .. Len(wire) /\ DOMAIN unsent = 1 .. Len(unsent)
  BY LenProperties DEF ClientTypeOK
<1>2. PICK n \in 1 .. Len(unsent) : /\ wire' = wire \o SubSeq(unsent, 1, n)
                                    /\ unsent' = Advance(unsent, n)
  BY DEF ClientSend
<1> DEFINE now == SubSeq(unsent, 1, n)
<1>3. /\ now \in Seq(Octet) /\ Len(now) = n
      /\ \A i \in 1 .. n : now[i] = unsent[i]
  <2>1. \A i \in 1 .. n : unsent[i] \in Octet
    BY <1>1, <1>2, ElementOfSeq
  <2>2. /\ now \in Seq(Octet)
        /\ Len(now) = IF 1 <= n THEN n - 1 + 1 ELSE 0
        /\ \A i \in 1 .. n - 1 + 1 : now[i] = unsent[1 + i - 1]
    BY <1>1, <1>2, <2>1, SubSeqProperties
  <2>. QED
    BY <1>1, <1>2, <2>2
<1> HIDE DEF now
<1>4. /\ wire' \in Seq(Octet) /\ Len(wire') = Len(wire) + n /\ DOMAIN wire' = 1 .. Len(wire) + n
      /\ \A i \in 1 .. Len(wire) + n :
            wire'[i] = IF i <= Len(wire) THEN wire[i] ELSE now[i - Len(wire)]
  <2>1. wire' = wire \o now
    BY <1>2 DEF now
  <2>2. /\ wire \o now \in Seq(Octet) /\ Len(wire \o now) = Len(wire) + n
        /\ \A i \in 1 .. Len(wire) + n :
              (wire \o now)[i] = IF i <= Len(wire) THEN wire[i] ELSE now[i - Len(wire)]
    BY <1>1, <1>3, ConcatProperties
  <2>3. DOMAIN (wire \o now) = 1 .. Len(wire) + n
    BY <2>2, LenProperties
  <2>. QED
    BY <2>1, <2>2, <2>3
<1>5. /\ unsent' \in Seq(Octet) /\ DOMAIN unsent' = 1 .. Len(unsent) - n
      /\ \A i \in 1 .. Len(unsent) - n : unsent'[i] = unsent[i + n]
  <2>1. n \in Nat /\ n <= Len(unsent)
    BY <1>1, <1>2
  <2>2. /\ Advance(unsent, n) \in Seq(Octet)
        /\ Len(Advance(unsent, n)) = Len(unsent) - n
        /\ \A i \in 1 .. Len(unsent) - n : Advance(unsent, n)[i] = unsent[i + n]
    BY <1>1, <2>1, AdvanceProperties
  <2>3. DOMAIN Advance(unsent, n) = 1 .. Len(unsent) - n
    BY <2>2, LenProperties
  <2>. QED
    BY <1>2, <2>2, <2>3
<1>6. CASE \E i \in DOMAIN wire : wire[i].no = k
  <2>1. PICK i \in 1 .. Len(wire) : wire[i].no = k
    BY <1>1, <1>6
  <2>2. i \in 1 .. Len(wire) + n /\ i <= Len(wire)
    BY <1>1, <1>2
  <2>3. wire'[i] = wire[i]
    BY <1>4, <2>2
  <2>. QED
    BY <1>4, <2>1, <2>2, <2>3 DEF Unread
<1>7. CASE \E i \in DOMAIN unsent : unsent[i].no = k
  <2>1. PICK i \in 1 .. Len(unsent) : unsent[i].no = k
    BY <1>1, <1>7
  <2>2. CASE i <= n
    <3> DEFINE j == Len(wire) + i
    <3>1. j \in 1 .. Len(wire) + n /\ ~(j <= Len(wire)) /\ j - Len(wire) = i /\ i \in 1 .. n
      BY <1>1, <1>2, <2>2
    <3>2. wire'[j] = unsent[i]
      BY <1>3, <1>4, <3>1
    <3>. QED
      BY <1>4, <2>1, <3>1, <3>2 DEF Unread
  <2>3. CASE ~(i <= n)
    <3>1. i - n \in 1 .. Len(unsent) - n /\ (i - n) + n = i
      BY <1>1, <1>2, <2>3
    <3>2. unsent'[i - n] = unsent[i]
      BY <1>5, <3>1
    <3>. QED
      BY <1>5, <2>1, <3>1, <3>2 DEF Unread
  <2>. QED
    BY <2>2, <2>3
<1>. QED
  BY <1>6, <1>7 DEF Unread

LEMMA FailureStep == FailureInvariant /\ [Next]_vars => FailureInvariant'
<1> SUFFICES ASSUME FailureInvariant, [Next]_vars
             PROVE  FailureInvariant'
  OBVIOUS
<1>1. /\ AnswerInvariant /\ StreamInvariant /\ RequestsFit /\ FailsOnNoWholeFrame
      /\ ClientTypeOK /\ served \in Seq(Nat)
  BY DEF FailureInvariant, AnswerInvariant, StreamInvariant, TypeInvariant, ConnectionTypeOK,
         HistoryTypeOK
<1>2. AnswerInvariant'
  BY <1>1, AnswerStep
<1>3. Len(served) + 1 \in Nat
  BY <1>1, LenProperties
<1>4. FailsOnNoWholeFrame'
  <2>1. CASE PollEof \/ PollReadError
    BY <2>1 DEF PollEof, PollReadError, FailsOnNoWholeFrame, client
  <2>2. CASE PollRejected
    <3>1. PICK b \in AfterRead : Read(b) /\ DecodeRejects(b)
      BY <2>2 DEF PollRejected
    <3>2. result = "running" /\ UNCHANGED <<stream, unsent, served>>
      BY <2>2 DEF PollRejected, Polled, history
    <3>3. WellReadUpTo(Len(served) + 1) => Unread(Len(served) + 1)'
      BY <1>1, <3>1, <3>2, RejectionHasReason
    <3>. QED
      BY <3>2, <3>3 DEF FailsOnNoWholeFrame, WellReadUpTo, Unread
  <2>3. CASE PollUnexpected
    <3>1. ~WellReadUpTo(Len(served) + 1) /\ UNCHANGED <<stream, served>>
      BY <1>1, <2>3, UnexpectedHasReason DEF PollUnexpected, history
    <3>. QED
      BY <3>1 DEF FailsOnNoWholeFrame, WellReadUpTo
  <2>4. CASE PollCallFailed
    BY <2>4 DEF PollCallFailed, Resolve, FailsOnNoWholeFrame
  <2>5. CASE PollClosed
    BY <2>5 DEF PollClosed, Closed, channel, FailsOnNoWholeFrame
  <2>6. CASE PollDisconnect
    BY <2>6 DEF PollDisconnect, Resolve, FailsOnNoWholeFrame
  <2>7. CASE \/ PollPending \/ PollPacket \/ PollCallPending \/ PollCallFinished
             \/ PollConnack \/ PollWrite \/ PollWritten
    <3>1. result' = "running"
      BY <2>7 DEF PollPending, PollPacket, PollCallPending, PollCallFinished, PollConnack,
         PollWrite, PollWritten, Polled
    <3>. QED
      BY <3>1 DEF FailsOnNoWholeFrame
  <2>8. CASE Services \/ Writer \/ Client \/ Deliver \/ Unregister \/ UNCHANGED vars
    <3>1. /\ UNCHANGED <<result, stream, served>>
          /\ fin => fin'
          /\ call = "failed" => call' = "failed"
          /\ Closed => Closed'
      <4>1. CASE Services
        BY <4>1 DEF Services, ConnectServiceAccepts, ServiceReplies, ServiceFails, Finish,
           client, channel, history, Closed
      <4>2. CASE Writer
        BY <4>2 DEF Writer, WriterRecv, WriterRefuses, WriterWrites, WriterFails,
           WriterReturns, WriterShutdown, client, future, history, Closed
      <4>3. CASE Client
        BY <4>3 DEF Client, ClientSend, ClientClose, Arrive, channel, history, Closed
      <4>4. CASE Deliver \/ Unregister \/ UNCHANGED vars
        BY <4>4 DEF Deliver, Unregister, vars, client, future, channel, history, Closed
      <4>. QED
        BY <2>8, <4>1, <4>2, <4>3, <4>4
    <3>2. Unread(Len(served) + 1) => Unread(Len(served) + 1)'
      <4>1. CASE ClientSend
        <5>1. ASSUME NEW k \in Nat, k = Len(served) + 1, Unread(k)
              PROVE  Unread(k)'
          BY <1>1, <4>1, <5>1, SendKeepsUnread
        <5>. QED
          BY <1>3, <3>1, <5>1 DEF Unread
      <4>2. CASE Services \/ Writer \/ ClientClose \/ Deliver \/ Unregister \/ UNCHANGED vars
        <5>1. UNCHANGED <<wire, unsent>>
          BY <4>2 DEF Services, ConnectServiceAccepts, ServiceReplies, ServiceFails, Finish,
             Writer, WriterRecv, WriterRefuses, WriterWrites, WriterFails, WriterReturns,
             WriterShutdown, ClientClose, Deliver, Unregister, vars, client
        <5>. QED
          BY <3>1, <5>1 DEF Unread
      <4>. QED
        BY <2>8, <4>1, <4>2 DEF Client
    <3>3. WellReadUpTo(Len(served) + 1)' = WellReadUpTo(Len(served) + 1)
      BY <3>1 DEF WellReadUpTo
    <3>. QED
      BY <1>1, <3>1, <3>2, <3>3 DEF FailsOnNoWholeFrame
  <2>. QED
    BY <2>1, <2>2, <2>3, <2>4, <2>5, <2>6, <2>7, <2>8 DEF Next, Poll
<1>. QED
  BY <1>2, <1>4 DEF FailureInvariant

\* For every stream of whole frames, however segments and reads cut them: the
\* connection does not fail on a frame that has been read to its last octet,
\* if it and those before it are ones the decoder takes.
THEOREM ConnectionFailsOnNoWholeFrame == Spec => []FailsOnNoWholeFrame
<1>1. Init => FailureInvariant
  <2> SUFFICES ASSUME Init PROVE FailureInvariant
    OBVIOUS
  <2>1. result = "running"
    BY DEF Init
  <2>. QED
    BY <2>1, AnswerInit DEF FailureInvariant, FailsOnNoWholeFrame
<1>2. FailureInvariant => FailsOnNoWholeFrame
  BY DEF FailureInvariant
<1>. QED
  BY <1>1, <1>2, FailureStep, PTL DEF Spec
=============================================================================
