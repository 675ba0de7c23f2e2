----------------------------- MODULE Connection -----------------------------
(***************************************************************************)
(* One client connection of the library: the Connection future that tokio  *)
(* polls (src/src/aqua/connection.rs), the decoder it feeds, the bounded   *)
(* response channel, the writer task that drains it, and the Outbound      *)
(* sender that Connection::new leaves in SESSION_MANAGER.                  *)
(*                                                                         *)
(* Connection::poll takes one transition of its state machine per call and *)
(* asks to be called again.  Here a poll is one action, guarded by `woken` *)
(* (tokio polls a task once per wake-up), except that the loop of the      *)
(* WritingPacket state is one action per response packet: other tasks and  *)
(* the writer use the channel between its try_sends.                       *)
(*                                                                         *)
(* The environment is the client (its octets arrive in segments, it may    *)
(* close at any time), the two tower services (they finish whenever they   *)
(* like, with any of the answers in Replies, or fail) and the tasks that   *)
(* deliver publishes through the Outbound sender.                          *)
(***************************************************************************)
EXTENDS Decoder, FiniteSets

CONSTANTS
    Streams,        \* the octet sequences a client may send, whole frames
    SplitStreams,   \* those whose TCP segments may end inside a frame
    SpareMin,       \* least and largest spare capacity of decoder.buf, which
    SpareMax,       \*   is what one poll_read_buf can take
    Capacity,       \* CHANNEL_CAPACITY
    Replies,        \* the packet lists a service may answer with
    ServicesFail,   \* may a service return an error?
    MaxDeliveries,  \* bound on the publishes other tasks deliver here
    Unregisters     \* does the application call unregister_client_id?

ASSUME StreamsAssumption ==
    /\ Streams \subseteq Seq(Octet)
    /\ \A s \in Streams : InFrames(s)
    /\ SplitStreams \subseteq Streams
ASSUME FlagsAssumption == {ServicesFail, Unregisters} \subseteq BOOLEAN
ASSUME SpareAssumption ==
    /\ SpareMin \in Nat \ {0}
    /\ SpareMax \in Nat
    /\ SpareMin <= SpareMax
ASSUME CapacityAssumption == Capacity \in Nat \ {0}
ASSUME DeliveriesAssumption == MaxDeliveries \in Nat

\* What a response list may hold: a packet the encoder knows, one it does not
\* (encode_header returns NotImplemented or is todo!()), NOOPERATION, DISCONNECT.
ReplyKinds == {"ACK", "UNENCODABLE", "NOOPERATION", "DISCONNECT"}
ASSUME RepliesAssumption == Replies \subseteq Seq(ReplyKinds)

VARIABLES
    stream, unsent, wire, fin,                      \* the client, its socket
    cstate, woken, onReadable, call, onCall, reply, \* the Connection future
    result,                                         \* what it resolved to
    registered, named,                              \* SESSION_MANAGER
    queue, writer, writing, inbox,                  \* channel, writer, client
    deliveries,                                     \* bound of Deliver
    served, accepted, dropped                       \* history

client == <<stream, unsent, wire, fin>>
registry == <<registered, named>>
channel == <<queue, writer, writing, inbox, deliveries>>
history == <<served, accepted, dropped>>
future == <<cstate, woken, onReadable, call, onCall, reply, result>>
vars == <<decoderVars, client, future, registry, channel, history>>

ReadingStates == {"PreConnection", "ReadingPacket"}
ProcessingStates == {"ProcessingConnect", "ProcessingService"}
AnsweringStates == {"ResponseConnect", "WritingPacket"}
States == ReadingStates \cup ProcessingStates \cup AnsweringStates

\* A message in the channel: the request it answers (0: a delivery), and its
\* number among the deliveries.
MessageKinds == {"CONNACK", "ACK", "UNENCODABLE", "DELIVERY"}
Message == [re : Nat, kind : MessageKinds, number : Nat]
Encodable(m) == m.kind # "UNENCODABLE"

ClientTypeOK ==
    /\ stream \in Streams
    /\ unsent \in Seq(Octet)
    /\ wire \in Seq(Octet)
    /\ fin \in BOOLEAN

FutureTypeOK ==
    /\ cstate \in States
    /\ woken \in BOOLEAN
    /\ onReadable \in BOOLEAN
    /\ call \in {"none", "running", "finished", "failed"}
    /\ onCall \in BOOLEAN
    /\ reply \in Seq(ReplyKinds)
    /\ result \in {"running", "ok", "err"}

RegistryTypeOK ==
    /\ registered \in BOOLEAN
    /\ named \in BOOLEAN

ChannelTypeOK ==
    /\ queue \in Seq(Message)
    /\ writer \in {"recv", "write", "returned", "shutdown"}
    /\ writing \in Seq(Message)
    /\ inbox \in Seq(Message)
    /\ deliveries \in Nat

HistoryTypeOK ==
    /\ served \in Seq(Nat)
    /\ accepted \in Seq(Message)
    /\ dropped \in SUBSET Message

ConnectionTypeOK ==
    /\ DecoderTypeOK
    /\ ClientTypeOK
    /\ FutureTypeOK
    /\ RegistryTypeOK
    /\ ChannelTypeOK
    /\ HistoryTypeOK

-----------------------------------------------------------------------------
\* Connection::new, called once TCP accepted the client: the writer is
\* spawned and a sender registered before the future is polled.
Init ==
    /\ stream \in Streams
    /\ unsent = stream
    /\ wire = <<>>
    /\ fin = FALSE
    /\ DecoderInit
    /\ cstate = "PreConnection"
    /\ woken = TRUE
    /\ onReadable = FALSE
    /\ call = "none"
    /\ onCall = FALSE
    /\ reply = <<>>
    /\ result = "running"
    /\ registered = TRUE
    /\ named = FALSE
    /\ queue = <<>>
    /\ writer = "recv"
    /\ writing = <<>>
    /\ inbox = <<>>
    /\ deliveries = 0
    /\ served = <<>>
    /\ accepted = <<>>
    /\ dropped = {}

-----------------------------------------------------------------------------
(* The client *)

\* Octets the kernel receives wake the task if its last read was Pending.
Arrive ==
    /\ onReadable' = FALSE
    /\ woken' = (woken \/ (onReadable /\ result = "running"))
    /\ UNCHANGED <<cstate, call, onCall, reply, result>>

EndsFrame(n) == n < Len(unsent) => unsent[n + 1].at = 1

ClientSend ==
    /\ ~fin
    /\ \E n \in 1 .. Len(unsent) :
        /\ stream \in SplitStreams \/ EndsFrame(n)
        /\ wire' = wire \o SubSeq(unsent, 1, n)
        /\ unsent' = Advance(unsent, n)
    /\ Arrive
    /\ UNCHANGED <<stream, fin, decoderVars, registry, channel, history>>

\* The client closes its socket, with or without having sent everything.
ClientClose ==
    /\ ~fin
    /\ fin' = TRUE
    /\ Arrive
    /\ UNCHANGED <<stream, unsent, wire, decoderVars, registry, channel, history>>

-----------------------------------------------------------------------------
(* The tower services *)

\* The service's future resolves and wakes the task that polled it.
Finish(outcome) ==
    /\ call = "running"
    /\ call' = outcome
    /\ onCall' = FALSE
    /\ woken' = (woken \/ (onCall /\ result = "running"))
    /\ UNCHANGED <<cstate, onReadable, result, decoderVars, client, channel, history>>

\* The connect service accepts the client, and names it in SESSION_MANAGER so
\* that other tasks can deliver to it.
ConnectServiceAccepts ==
    /\ cstate = "ProcessingConnect"
    /\ Finish("finished")
    /\ named' = TRUE
    /\ UNCHANGED <<reply, registered>>

ServiceReplies ==
    /\ cstate = "ProcessingService"
    /\ Finish("finished")
    /\ reply' \in Replies
    /\ UNCHANGED registry

ServiceFails ==
    /\ ServicesFail
    /\ Finish("failed")
    /\ UNCHANGED <<reply, registry>>

-----------------------------------------------------------------------------
(* Connection::poll *)

Polled == woken /\ result = "running"

\* The future resolves; the task ends and drops the Connection.
Resolve(r) ==
    /\ result' = r
    /\ woken' = FALSE
    /\ UNCHANGED <<cstate, onReadable, call, onCall, reply>>

\* poll_read_buf appends what has arrived, up to the spare capacity of
\* decoder.buf, or registers the waker; b is decoder.buf afterwards.
Read(b) ==
    \/ /\ wire # <<>>
       /\ \E spare \in SpareMin .. SpareMax :
            LET n == IF spare < Len(wire) THEN spare ELSE Len(wire) IN
            /\ b = buf \o SubSeq(wire, 1, n)
            /\ wire' = Advance(wire, n)
       /\ UNCHANGED onReadable
    \/ /\ wire = <<>>
       /\ ~fin
       /\ b = buf
       /\ onReadable' = TRUE
       /\ UNCHANGED wire

\* The values decoder.buf can have after the read.
AfterRead ==
    {buf} \cup {buf \o SubSeq(wire, 1, n) : n \in 1 .. Len(wire)}

\* Ok(0): end of file, whatever decoder.buf still holds.
PollEof ==
    /\ Polled
    /\ cstate \in ReadingStates
    /\ wire = <<>>
    /\ fin
    /\ Resolve("err")
    /\ UNCHANGED <<decoderVars, client, registry, channel, history>>

\* The read fails: the peer reset the connection.
PollReadError ==
    /\ Polled
    /\ cstate \in ReadingStates
    /\ fin
    /\ wire' = <<>>
    /\ Resolve("err")
    /\ UNCHANGED <<stream, unsent, fin, decoderVars, registry, channel, history>>

PollPending ==
    /\ Polled
    /\ cstate \in ReadingStates
    /\ \E b \in AfterRead :
        /\ Read(b)
        /\ \/ DecodeIdle(b) /\ woken' = FALSE
           \/ DecodeAgain(b) /\ woken' = TRUE
    /\ UNCHANGED <<cstate, call, onCall, reply, result, stream, unsent, fin,
                   registry, channel, history>>

PollRejected ==
    /\ Polled
    /\ cstate \in ReadingStates
    /\ \E b \in AfterRead :
        /\ Read(b)
        /\ DecodeRejects(b)
    /\ result' = "err"
    /\ woken' = FALSE
    /\ UNCHANGED <<cstate, call, onCall, reply, stream, unsent, fin,
                   registry, channel, history>>

IsConnect == current.frame \in {"CONNECT", "CONNECT_WILL"}

\* A packet is decoded and handed to the service that serves this state.
PollPacket ==
    /\ Polled
    /\ \E b \in AfterRead :
        /\ Read(b)
        /\ DecodePacket(b)
    /\ cstate = "PreConnection" => IsConnect
    /\ \/ cstate = "PreConnection" /\ cstate' = "ProcessingConnect"
       \/ cstate = "ReadingPacket" /\ cstate' = "ProcessingService"
    /\ call' = "running"
    /\ served' = Append(served, current.no)
    /\ woken' = TRUE
    /\ UNCHANGED <<onCall, reply, result, stream, unsent, fin, registry,
                   channel, accepted, dropped>>

\* The first packet is not a CONNECT.
PollUnexpected ==
    /\ Polled
    /\ cstate = "PreConnection"
    /\ \E b \in AfterRead :
        /\ Read(b)
        /\ DecodePacket(b)
    /\ ~IsConnect
    /\ result' = "err"
    /\ woken' = FALSE
    /\ UNCHANGED <<cstate, call, onCall, reply, stream, unsent, fin, registry,
                   channel, history>>

PollCallPending ==
    /\ Polled
    /\ cstate \in ProcessingStates
    /\ call = "running"
    /\ onCall' = TRUE
    /\ woken' = FALSE
    /\ UNCHANGED <<cstate, onReadable, call, reply, result, decoderVars, client,
                   registry, channel, history>>

PollCallFinished ==
    /\ Polled
    /\ call = "finished"
    /\ \/ cstate = "ProcessingConnect" /\ cstate' = "ResponseConnect"
       \/ cstate = "ProcessingService" /\ cstate' = "WritingPacket"
    /\ call' = "none"
    /\ woken' = TRUE
    /\ UNCHANGED <<onReadable, onCall, reply, result, decoderVars, client,
                   registry, channel, history>>

PollCallFailed ==
    /\ Polled
    /\ cstate \in ProcessingStates
    /\ call = "failed"
    /\ Resolve("err")
    /\ UNCHANGED <<decoderVars, client, registry, channel, history>>

-----------------------------------------------------------------------------
(* The response channel *)

Closed == writer \in {"returned", "shutdown"}   \* the receiver is gone
Full == Len(queue) >= Capacity

\* Mutant: a full channel makes room by dropping its oldest packet.
TrySendDropsOldest(m) ==
    /\ ~Closed
    /\ queue' = Append(IF Full THEN Tail(queue) ELSE queue, m)
    /\ accepted' = Append(accepted, m)
    /\ UNCHANGED dropped

\* Sender::try_send by the connection: Ok, or Full, which drops the packet.
TrySend(m) ==
    /\ ~Closed
    /\ IF Full
       THEN /\ dropped' = dropped \cup {m}
            /\ UNCHANGED <<queue, accepted>>
       ELSE /\ queue' = Append(queue, m)
            /\ accepted' = Append(accepted, m)
            /\ UNCHANGED dropped

Answer(kind, k) == [re |-> Last(served), kind |-> kind, number |-> k]

\* Mutant: the state stays ResponseConnect after the CONNACK.
PollConnackStays ==
    /\ Polled
    /\ cstate = "ResponseConnect"
    /\ TrySend(Answer("CONNACK", 1))
    /\ UNCHANGED <<cstate, woken, onReadable, call, onCall, reply, result,
                   decoderVars, client, registry, writer, writing, inbox,
                   deliveries, served>>

PollConnack ==
    /\ Polled
    /\ cstate = "ResponseConnect"
    /\ TrySend(Answer("CONNACK", 1))
    /\ cstate' = "ReadingPacket"
    /\ woken' = TRUE
    /\ UNCHANGED <<onReadable, call, onCall, reply, result, decoderVars, client,
                   registry, writer, writing, inbox, deliveries, served>>

\* Mutant: the state changes inside the loop, after the first packet.
PollWriteOne ==
    /\ Polled
    /\ cstate = "WritingPacket"
    /\ reply # <<>>
    /\ Head(reply) # "DISCONNECT"
    /\ IF Head(reply) = "NOOPERATION"
       THEN UNCHANGED <<queue, accepted, dropped>>
       ELSE TrySend(Answer(Head(reply), Len(reply)))
    /\ reply' = <<>>
    /\ cstate' = "ReadingPacket"
    /\ UNCHANGED <<woken, onReadable, call, onCall, result, decoderVars,
                   client, registry, writer, writing, inbox, deliveries, served>>

\* One turn of the loop over res.packets.
PollWrite ==
    /\ Polled
    /\ cstate = "WritingPacket"
    /\ reply # <<>>
    /\ Head(reply) # "DISCONNECT"
    /\ IF Head(reply) = "NOOPERATION"
       THEN UNCHANGED <<queue, accepted, dropped>>
       ELSE TrySend(Answer(Head(reply), Len(reply)))
    /\ reply' = Tail(reply)
    /\ UNCHANGED <<cstate, woken, onReadable, call, onCall, result, decoderVars,
                   client, registry, writer, writing, inbox, deliveries, served>>

\* Mutant: no wake_by_ref after the responses.
PollWrittenSleeps ==
    /\ Polled
    /\ cstate = "WritingPacket"
    /\ reply = <<>>
    /\ cstate' = "ReadingPacket"
    /\ woken' = FALSE
    /\ UNCHANGED <<onReadable, call, onCall, reply, result, decoderVars, client,
                   registry, channel, history>>

PollWritten ==
    /\ Polled
    /\ cstate = "WritingPacket"
    /\ reply = <<>>
    /\ cstate' = "ReadingPacket"
    /\ woken' = TRUE
    /\ UNCHANGED <<onReadable, call, onCall, reply, result, decoderVars, client,
                   registry, channel, history>>

\* A DISCONNECT among the responses ends the connection.
PollDisconnect ==
    /\ Polled
    /\ cstate = "WritingPacket"
    /\ reply # <<>>
    /\ Head(reply) = "DISCONNECT"
    /\ Resolve("ok")
    /\ UNCHANGED <<decoderVars, client, registry, channel, history>>

\* try_send finds the receiver gone.
PollClosed ==
    /\ Polled
    /\ Closed
    /\ \/ cstate = "ResponseConnect"
       \/ /\ cstate = "WritingPacket"
          /\ reply # <<>>
          /\ Head(reply) \notin {"DISCONNECT", "NOOPERATION"}
    /\ Resolve("err")
    /\ UNCHANGED <<decoderVars, client, registry, channel, history>>

\* Another task sends through the registered Outbound; nobody waits for room.
Deliver ==
    /\ named
    /\ registered
    /\ deliveries < MaxDeliveries
    /\ deliveries' = deliveries + 1
    /\ LET m == [re |-> 0, kind |-> "DELIVERY", number |-> deliveries'] IN
        IF Closed \/ Full
        THEN dropped' = dropped \cup {m} /\ UNCHANGED <<queue, accepted>>
        ELSE queue' = Append(queue, m) /\ accepted' = Append(accepted, m)
             /\ UNCHANGED dropped
    /\ UNCHANGED <<decoderVars, client, future, registry, writer, writing, inbox,
                   served>>

\* The application drops the registered sender of a connection that ended.
Unregister ==
    /\ Unregisters
    /\ result # "running"
    /\ registered
    /\ registered' = FALSE
    /\ UNCHANGED <<decoderVars, client, future, named, channel, history>>

-----------------------------------------------------------------------------
(* The writer task *)

\* Mutant: what piled up in the channel is encoded over one write_buffer.
WriterRecvOverwrites ==
    /\ writer = "recv"
    /\ queue # <<>>
    /\ Encodable(Head(queue))
    /\ writing' = <<Last(queue)>>
    /\ queue' = <<>>
    /\ writer' = "write"
    /\ UNCHANGED <<decoderVars, client, future, registry, inbox, deliveries, history>>

WriterRecv ==
    /\ writer = "recv"
    /\ queue # <<>>
    /\ Encodable(Head(queue))
    /\ writing' = <<Head(queue)>>
    /\ queue' = Tail(queue)
    /\ writer' = "write"
    /\ UNCHANGED <<decoderVars, client, future, registry, inbox, deliveries, history>>

\* The task returns: the receiver is dropped with what it still held.
WriterReturns ==
    /\ writer' = "returned"
    /\ queue' = <<>>
    /\ writing' = <<>>
    /\ UNCHANGED <<decoderVars, client, future, registry, inbox, deliveries, history>>

WriterRefuses ==
    /\ writer = "recv"
    /\ queue # <<>>
    /\ ~Encodable(Head(queue))
    /\ WriterReturns

\* write_buf until write_buffer is empty; a socket the peer has closed may
\* still take the octets.
WriterWrites ==
    /\ writer = "write"
    /\ inbox' = inbox \o writing
    /\ writing' = <<>>
    /\ writer' = "recv"
    /\ UNCHANGED <<decoderVars, client, future, registry, queue, deliveries, history>>

WriterFails ==
    /\ writer = "write"
    /\ fin
    /\ WriterReturns

\* Mutant: the task holds a clone of the sender, so that recv never returns None.
WriterHoldsSender ==
    /\ FALSE
    /\ writer' = "shutdown"
    /\ UNCHANGED <<decoderVars, client, future, registry, queue, writing, inbox,
                   deliveries, history>>

\* recv returns None: every sender is gone and the queue is empty.
WriterShutdown ==
    /\ writer = "recv"
    /\ queue = <<>>
    /\ result # "running"
    /\ ~registered
    /\ writer' = "shutdown"
    /\ UNCHANGED <<decoderVars, client, future, registry, queue, writing, inbox,
                   deliveries, history>>

-----------------------------------------------------------------------------
Poll ==
    \/ PollEof \/ PollReadError \/ PollPending \/ PollRejected \/ PollPacket
    \/ PollUnexpected \/ PollCallPending \/ PollCallFinished \/ PollCallFailed
    \/ PollConnack \/ PollWrite \/ PollWritten \/ PollDisconnect \/ PollClosed

Services == ConnectServiceAccepts \/ ServiceReplies \/ ServiceFails
Writer == WriterRecv \/ WriterRefuses \/ WriterWrites \/ WriterFails \/ WriterShutdown
Client == ClientSend \/ ClientClose

Next == Poll \/ Services \/ Writer \/ Client \/ Deliver \/ Unregister

Spec == Init /\ [][Next]_vars

\* tokio polls a woken task and runs the writer; the services' futures resolve.
\* Nothing makes the client send or close, other tasks deliver, or the
\* application unregister the connection.
Fairness ==
    /\ WF_vars(Poll)
    /\ WF_vars(Services)
    /\ WF_vars(Writer)

FairSpec == Spec /\ Fairness
-----------------------------------------------------------------------------
(* Properties *)

\* A task that nobody will poll again has nothing to do: it waits for octets
\* (its waker is with the socket, which is empty and open, and no octet waits
\* in decoder.buf), or for the service's future (which holds the waker and has
\* not resolved).  Each early `return Poll::Pending` of poll and poll_decode
\* has to leave a waker somewhere; this says none forgets it.
NoLostWakeup ==
    (result = "running" /\ ~woken) =>
        \/ /\ cstate \in ReadingStates
           /\ onReadable
           /\ wire = <<>>
           /\ ~fin
           /\ buf = <<>>
        \/ /\ cstate \in ProcessingStates
           /\ call = "running"
           /\ onCall

\* The decoder neither loses nor repeats an octet: while the connection runs,
\* what is buffered, in the socket and unsent is the tail of the stream that
\* follows the frames served and the parts of `current` decoded so far.  A
\* packet that begins a frame is the one behind the packets served.
DecodedOf ==
    CASE dstate = "Done" -> 0
      [] dstate = "FixedHeaderDecoded" -> FrameExtent[current.frame].fixed
      [] dstate = "VariableHeaderDecoded" ->
            FrameExtent[current.frame].fixed + VariableReads(current.frame)

StreamIntact ==
    result = "running" =>
        LET ahead == buf \o wire \o unsent
            behind == Len(stream) - Len(ahead)
        IN /\ behind >= 0
           /\ ahead = Advance(stream, behind)
           /\ dstate # "Done" => /\ current.at = 1 => current.no = Len(served) + 1
                                 /\ behind >= DecodedOf
                                 /\ stream[behind - DecodedOf + 1] = current

\* Services see the client's packets in order, each once, none skipped.
ServedInOrder == \A i \in DOMAIN served : served[i] = i

\* The channel takes the answers of the connection in the order of the
\* requests and, for one request, in the order of the service's list; none
\* twice; and CONNACK answers the first request and no other.
AnswersInOrder ==
    /\ \A i, j \in DOMAIN accepted :
        i < j /\ accepted[i].re > 0 /\ accepted[j].re > 0 =>
            \/ accepted[i].re < accepted[j].re
            \/ /\ accepted[i].re = accepted[j].re
               /\ accepted[i].number > accepted[j].number
    /\ \A i \in DOMAIN accepted :
        accepted[i].kind = "CONNACK" <=> accepted[i].re = 1

\* What try_send accepted reaches the socket in order and without gaps: it is
\* on the socket, in the writer's buffer or in the channel.  Only a writer
\* that returned loses some, and then only the end of it; one that shut the
\* socket down has written everything.
QueueIsFifo ==
    IF writer = "returned" THEN IsPrefix(inbox, accepted)
                           ELSE accepted = inbox \o writing \o queue

FrameIs(k, frames) == \E i \in DOMAIN stream : stream[i].no = k /\ stream[i].frame \in frames

\* Part of frame k is still in the socket or on its way.
Unread(k) ==
    \/ \E i \in DOMAIN wire : wire[i].no = k
    \/ \E i \in DOMAIN unsent : unsent[i].no = k

\* The frames whose parts the decoder takes for what they are; the stream is
\* made of them up to frame k, and begins with a CONNECT.
WellRead ==
    {f \in FrameNames : LET e == FrameExtent[f] IN e.bad = "none" /\ e.rest = 0 /\ e.over = 0}
WellReadUpTo(k) ==
    \A i \in DOMAIN stream :
        stream[i].no <= k => /\ stream[i].frame \in WellRead
                             /\ stream[i].no = 1 => stream[i].frame = "CONNECT"

\* The connection never fails on a frame it has read to its last octet, one of
\* those the decoder takes, wherever segments and reads cut it and what came
\* before; nor when no frame is left.  Then the client closed, a service
\* failed or the writer is gone.
FailsOnNoWholeFrame ==
    result = "err" /\ ~fin /\ call # "failed" /\ ~Closed =>
        LET next == Len(served) + 1 IN Unread(next) \/ ~WellReadUpTo(next)

\* The example broker and the test of CONNACK answer a PINGREQ
\* (examples/broker.rs:64, tests/conack_test.rs:28): a client that keeps its
\* connection alive does not lose it by that.
PingreqKeepsAlive ==
    result = "err" /\ FrameIs(Len(served) + 1, {"PINGREQ"}) =>
        fin \/ call = "failed" \/ Closed

\* The comment on Publish::decode_variable_header (mqtt.rs:2404): a PUBLISH
\* need not have arrived completely when it is decoded.  Then having part of
\* one is no reason to end the connection.
PublishMayArriveInParts ==
    result = "err" /\ ~fin => current = Undefined \/ current.frame # "PUBLISH"

Numbers == UNION {1 .. stream0[Len(stream0)].no : stream0 \in Streams}
Sent(k) == \A i \in DOMAIN unsent : unsent[i].no > k

\* Frames that are not served before something is behind them: those without
\* a body, such as the DISCONNECT e0 00, and those that take it along.
Held == {f \in FrameNames : Remaining(f) = 0 \/ FrameExtent[f].over > 0}
SentWhole(k) ==
    /\ FrameIs(k, FrameNames) /\ Sent(k)
    /\ FrameIs(k, Held) => FrameIs(k + 1, FrameNames) /\ Sent(k + 1)

\* Time and again every frame the client sent whole is served, if the
\* connection goes on: the decoder does not sit on a packet while octets keep
\* the task awake.
SentIsServed ==
    []<>(result # "running" \/ \A k \in Numbers : SentWhole(k) => Len(served) >= k)

\* Time and again every accepted answer has reached the client, unless the
\* writer gave up.
AcceptedIsWritten == []<>(inbox = accepted \/ Closed)

\* The comment in decode_fixed_header (mqtt.rs:3040): after a malformed packet
\* the server must close the network connection.  The socket is closed once
\* both halves are dropped: the future has resolved and the writer returned.
ErrorClosesSocket == (result = "err" /\ ~fin) ~> Closed

\* Once the application has dropped its sender as well, a connection that ended
\* closes its socket; what was accepted has been written then (QueueIsFifo).
ReleasedConnectionCloses == (result # "running" /\ ~registered) ~> Closed

\* The connection implements the request/reply discipline of RequestReply.
Discipline == INSTANCE RequestReply WITH
    phase <- IF result # "running" THEN "closed"
             ELSE IF cstate \in ReadingStates THEN "reading"
             ELSE IF cstate \in ProcessingStates THEN "calling"
             ELSE "answering",
    taken <- Len(served),
    todo <- IF result # "running" THEN <<>>
            ELSE IF cstate = "ResponseConnect" THEN <<"CONNACK">>
            ELSE IF cstate = "WritingPacket" THEN reply
            ELSE <<>>,
    out <- accepted

FollowsDiscipline == Discipline!Spec
=============================================================================
