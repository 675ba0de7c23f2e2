# aqua in TLA+

aqua is an MQTT broker library in Rust: a `Connection` future per client over
tokio, an incremental packet decoder, process-wide registries, and a broker
application (`examples/broker.rs`) built from two tower services. This directory
holds TLA+ modules that model it, TLC configurations that check them on small
instances, and theorems about them that TLAPS proves for every value of the
constants. Paths below are relative to the repository's root.

## 1. The system

### Components

| Component | State | Operations | Interacts with |
|---|---|---|---|
| Decoder (`mqtt_coder/src/decoder.rs`, decoding half of `mqtt.rs`) | state, packet under construction, count of decoded octets, read buffer | `poll_decode` | fed and polled by the connection |
| Connection (`src/aqua/connection.rs`) | six-state machine, service futures, `tx` of the response channel | `new`, `poll`, `read_packet` | tokio wakes it; calls the services; sends to the writer |
| Writer task (`spawn_writer`) | receiver, write buffer, write half | receive, encode, write, shut down | drains the channel, owns the write half |
| Session registry (`session_manager.rs`) | five DashMaps | register, unregister, send, stage, fetch, commit, versions | written by connections and services, read by delivery tasks |
| Retained store (`retain_store.rs`) | topic to last retained publish | update, remove, check | services and delivery tasks |
| Topic manager (`examples/broker.rs:441`) | filter to list of subscriptions | `register`, `subed_id` | SUBSCRIBE service, delivery tasks |
| Broker services (`examples/broker.rs`) | a client identifier per connection | one branch per packet type | all of the maps |
| Delivery tasks (`broker.rs:183`, `:297`) | the publish, its targets | store, look up, send | spawned by PUBLISH and PUBREL, never awaited |
| Accept loop (`aqua.rs`) | listener, the client it is making services for | accept, make services, spawn | creates connections, which hold its descriptors |
| Encoder (`encoder.rs`, encoding half of `mqtt.rs`, `connack_response.rs`) | state of `poll_encode` | `encode_all`, `poll_encode` | called by the writer |

### What is hard

* **Wake-ups.** `poll` takes one transition per call and asks to be polled
  again. Every early return must leave a waker somewhere; `poll_decode` has
  paths that wake and paths that do not.
* **Frame boundaries.** A packet is decoded in three steps over several polls,
  while octets arrive in pieces that have nothing to do with packets.
* **The response channel** is bounded, never waited for, and shared by the
  connection and by every delivery task; its receiver may be gone.
* **Shared maps.** Handlers of different connections and delivery tasks
  interleave between single map operations. Nothing spans two maps.
* **Spawned deliveries** run in any order, whenever the runtime gets to them.
* **Packet identifiers** key one staging map for all clients and for both
  directions of the QoS 2 exchange.
* **Lengths inside lengths.** A packet announces its length, its property list
  announces another, and so does each string; they need not agree, and most
  decoders never compare them.
* **Accepting.** The loop makes one client's services at a time, survives its
  listener's errors, and runs out of descriptors that ended connections keep.
* **Shutdown.** The socket closes only when both halves are dropped, and the
  write half goes only with the last sender.

`PROJECT.json` lists each hazard at its line.

### What makes each component correct

* Decoder: no octet lost or decoded twice; the next packet starts where this one
  ends, whatever lengths it holds; it never waits without a waker, and a poll ends.
* Encoder: what is announced is what is written, so the peer finds the next packet.
* Accept loop: the stream can be unwrapped when the task starts; a client waits
  in the backlog only for a reason.
* Connection: requests served once and in order; one request at a time; answers
  in order; no failure on a packet that is there; its socket closed when it ends.
* Writer: what the channel accepted is written in order and without gaps.
* Registry: a client that comes back is reached on its new connection.
* Registry, services: a QoS 2 message is delivered once, when its publisher
  released it, and never earlier; entries a handler relies on are there; a packet
  that one subscriber's channel refuses reaches the others.
* Retained store and topic manager: topics and filters are matched right; a
  subscriber is sent a retained message by the store or by the delivery, never
  by neither.

## 2. The modules

| Module | Models | Correspondence |
|---|---|---|
| `Frames` | packets as the decoder sees them | extents of header, variable header, payload, of octets that are counted and consumed by neither, and of octets that are consumed without being counted |
| `Decoder` | `Decoder` | `dstate`, `current`, `counter`, `buf` are `state`, `tmp_packet`, `remain_length_counter`, `buf`; one definition per way through `poll_decode` |
| `VariableLength` | `decode_variable_length`, `encode_variable_bytes` | two functions, over sequences of octets |
| `PacketDecoder` | what `mqtt.rs` does inside one packet | `avail`, `pos` are the buffer and `next_pos`; one action per field, property, comparison and return; tables of the fields and properties of each packet |
| `PacketEncoder` | `encode_header`, `encode_payload_chunk`, `encode_all`, `poll_encode`, `to_connack` | a packet is a record of the counts its layout depends on; `expects` is a peer reading |
| `MCPacketDecoder`, `MCPacketEncoder` | instances | lengths on the wire, packets |
| `VariableLengthProofs`, `PacketDecoderProofs`, `PacketEncoderProofs` | theorems | |
| `Serve` | `Serve::into_future`, `tcp_accept` | one action per await or return of the loop and per step of a connection's task; `clones` are the Arcs of a stream |
| `ServeProofs` | theorems | |
| `Connection` | `Connection`, writer, channel, its entry in the registry | `cstate` is the state machine; `woken`, `onReadable`, `onCall` say where its waker is; `queue`, `writing`, `inbox` are the channel, the write buffer and the socket |
| `RequestReply` | abstract specification | what a connection promises its services and its client |
| `MCConnection` | instances | streams of packets, answer lists |
| `ConnectionProofs` | theorems about `Connection`, and that it implements `RequestReply` | |
| `Topics` | the matching relation | what `is_match` computes |
| `TopicFilter` | the `is_match` loop | one action per match arm; the copies in `broker.rs` and `retain_store.rs` are the same |
| `MCTopicFilter`, `TopicFilterProofs` | instances, theorems | |
| `Packets` | requests and packets of the broker | what the handlers look at |
| `SessionManager`, `RetainStore`, `TopicManager` | the shared maps | one operator per method |
| `Broker` | services and delivery tasks over the three maps | one action per map operation, or per packet handed to a channel, which may refuse it |
| `MCBroker` | instances | plans: what each client sets out to send |
| `BrokerProofs`, `ExchangeProofs` | theorems about `Broker`: types, versions and retained messages; what is staged until it is released | |

### The connection

A poll is one action guarded by `woken`, except that the loop of the
`WritingPacket` state (`connection.rs:275`) is one action per response, because
the writer and delivery tasks use the channel between its `try_send`s. Octets
are grouped: a frame is a handful of octet groups whose number says which part
they belong to, so cutting a stream at any group cuts real packets in every
part. `poll_read_buf` takes any amount between `SpareMin` and `SpareMax`, the
spare capacity a `BytesMut` may offer. Errors and slices out of range both end
the task; both are `DecodeRejects`. A rejected frame is described by the frame
(`bad`), not by the bits that are wrong with it. After a packet whose decoder
leaves octets behind or takes too many, the decoder stands inside a frame: what
it finds there is no packet type, with one exception. The reason code `0x10` that
a PUBACK leaves behind (`PUBACK_UNHEARD`) is taken for the header of a CONNECT,
whose variable header is then refused, since no octets of a client begin with the
protocol name there. The model takes the property length behind that reason code
to be present; were it absent, the next packet's first octet would be taken for
the length, and the CONNECT refused likewise.

A version 5 PUBREL or DISCONNECT that ends with its reason code has no property
length, but its decoder reads one (`mqtt.rs:844`, `:2862`). `CodeOnly` has both
outcomes: what is read is no property list and the packet is refused, or it is
one and the packet takes it along (`over`), here one group, so that the decoder
stands inside the next frame. That a list ends exactly where a later frame
begins is left out.

The services are the environment of the library: they resolve whenever they
like, with any of `Replies`, or fail. `ConnectServiceAccepts` names the client
and resolves in one step, since nothing of the connection moves in between.
`Deliver` is a task that sends through the registered `Outbound`.
`unregister_client_id` exists but nothing in the repository calls it:
`Unregisters` says whether the application may, and no fairness makes it.

`RequestReply` is the discipline the broker model relies on: requests are taken
one at a time, the first is answered by CONNACK alone, each answer is emitted
in list order or lost, and other tasks' deliveries come in between. `connection`
checks that `Connection` implements it, under the refinement mapping
`Discipline` at the end of `Connection`. `Broker`'s `Take`, `Return`, `Emit`,
`EmitClosed` and `Close` are its actions, with the packets filled in.

### Inside a packet

`Decoder` knows where the parts of a well-formed packet end; `PacketDecoder` is
about where the code thinks they end. No octet is read twice, so its value is
chosen when it is read: `Lengths` are the octets that may stand where a length
is read, a string has any size up to `MaxString`, and a value that can be refused
may be. The version a property list depends on is the CONNECT's own, or the one
recorded for the connection, which may be missing. Errors and reads out of range
both end the connection and are one stage, `refused`. `usize` subtraction is
modelled as both builds have it: `VariableOverflows` panics, `Wrap` goes on with
the difference modulo 2^64. The parts a packet's decoder has in common with
others (a property list, a list of filters) are one group of actions; what
differs is in the tables.

### What is written

`PacketEncoder` counts octets. `Announced` is the remaining length each
`encode_header` computes and `Header` what it then writes; the peer reads the
length back with `DecodeLength` and takes that many octets for the packet. The
writer task empties its buffer in writes of any size, or gives up.
`poll_encode`, which nothing in the repository calls yet, is the same encoder with
its three states and a caller that empties the buffer between calls.

### Accepting

The makers are given clones of the Arc around the stream, and may keep them: the
task's `try_unwrap` then panics. A socket is open as long as the loop, a clone,
the task or the writer of the connection holds it; `accept` fails without a
descriptor and the loop sleeps. `Finish` is the whole `Connection` of the module
above; `Unregister` is what the application would have to call.

### The broker

Each map is a DashMap: an operation on one is atomic, a handler is not. Every
action of `Broker` is one map operation or one packet handed to a channel; a
handler that touches no map is one action. Iteration over a map visits the keys
in any order, each one atomically. A delivery task has the stages of its code:
store (for a retained QoS 0 or 1 publish; PUBREL stores in the handler), look up
each matching filter, send to each target. `send_by_mqtt_id` holds the lock of
its entry while it sends, so it is one action.

A channel may refuse any packet (`Refuses`), as full and closed ones do
(`session_manager.rs:23`). `out` has every packet that was handed to a channel,
refused ones included: what the properties say was handed over was offered to the
client's channel, and a refused packet is lost and owes no handshake. The
connection goes on behind a packet that did not fit (`Emit`), and ends if its
channel is closed (`EmitClosed`, `connection.rs:289`); a task prints the error and
goes on to its next target (`broker.rs:228`). Which channels are full or closed is
not kept: one that refused a packet may take the next, so the model has more
behaviours than the code. `Connection` says when a channel really refuses.

Left out on purpose: `by_client_mqtt`, which is written and never read;
`payload_length == 0` in the PUBREL service (`broker.rs:284`), which cannot be
staged; the PINGREQ service, which the decoder keeps out of reach; reason codes,
properties and protocol versions other than "is one recorded".

## 3. The runs

All of them set `CHECK_DEADLOCK FALSE`: clients stop sending, connections end
and delivery tasks finish, so a behaviour may well come to rest.

### Passing

| Run | States | Shows |
|---|---|---|
| `connection` | 439,402 | every frame kind behind a CONNECT, some streams and all reads cut anywhere: wake-ups, octets, order of service and of answers, the channel, failures, the refinement, and liveness |
| `topic_filter` | 17,874 | `is_match` against its definition, and that it ends |
| `broker_safe` | 3,693,644 | SUBSCRIBE racing retained publishes; QoS 2 exchanges with packet ids that no two publishers share; a packet that is refused |
| `broker_deliver` | 68,765 | every earlier subscriber is handed a served publish, also behind one that was refused, a returning one on its new connection |
| `decode_packet` | 1,093,887 | packets of every kind whose lengths agree or not, in buffers that hold any part of them |
| `encode_packet` | 41,025 | every packet the server writes, in writes of any size |
| `serve` | 80,441 | three clients, two descriptors, listener errors, makers that keep their clone |

The properties, with what would break them:

* `NoLostWakeup`: a task that is not woken waits for octets or for a service's
  future, the waker is there, and nothing is left in the read buffer. Broken by
  a return path without a waker.
* `StreamIntact`: buffer, socket and unsent octets together are the tail of the
  stream that follows what was decoded. Broken if the buffer is not handed back
  whole, or a part is consumed twice.
* `ServedInOrder`, `AnswersInOrder`, `QueueIsFifo`: order across decoder,
  services, a channel that may be full, and a writer that may have returned.
* `FollowsDiscipline`: the refinement of `RequestReply`.
* `FailsOnNoWholeFrame`: the connection does not fail on a frame that it has read
  to its last octet, if that frame and those before it are of the kinds whose
  parts the decoder takes for what they are, wherever segments and reads cut
  them; nor when no frame is left. What then made it fail is the client, a
  service or the writer. Broken by a count that is carried over, or by a frame
  boundary lost in any other way. It leaves out frames that are cut, which
  `conn_parts` is about, and what follows a frame that is not well read: PINGREQ
  (`conn_ping`), acknowledgements with a reason (`mqtt.rs:103`), the CONNECT with a
  will of a 3.1.1 client (`mqtt.rs:2724`), a SUBSCRIBE with wrong flags, and a
  PUBREL or DISCONNECT with a reason code only.
* `SentIsServed`: a frame the client sent whole is served, if the connection goes
  on. Two kinds of packet wait for the one behind them (`Held`): one without a
  body, and one that takes along part of the next.
* `AcceptedIsWritten`: what the channel accepted reaches the socket, unless the
  writer gave up.
* `ReleasedConnectionCloses`: a connection that ended closes its socket once the
  application has dropped the sender in the registry. Broken if the future or the
  writer keeps a sender of its own. It does not say that the application does so:
  `conn_error_open` shows what happens when it does not.
* `LoopDecides`, `LoopInvariant`, `LoopEnds`: the matching loop.
* `NoMissedRetained`: SUBSCRIBE registers and then reads the store, a delivery
  stores and then reads the subscriptions: one of the two reaches each
  subscriber. Swapping either order, or matching the store differently from the
  subscriptions, breaks it.
* `SubackNeverPanics`: `protocol_version.unwrap()` finds what the connect
  service recorded.
* `PubrelDeliversOwn`, `DeliveredOnce`, `DeliveredWhenReleased`: QoS 2, with
  repeated PUBRELs, restaged retained messages and the subscriber's half of the
  exchange. They hold for the plans of `broker_safe`, in which no two publishers
  use one packet id; the code does not ask for that, and `broker_shared_id` shows
  what happens otherwise.
* `SentWhenReleased`: nobody is sent a QoS 2 publish, by a task, out of the store or
  in answer to a SUBSCRIBE, before some client has released its packet id. Broken
  if a publish is retained or delivered where it is staged. It is proved for every
  plan, packet ids shared or used again included.
* `DeliveredToSubscribers`: a publish that was served is handed to the channel of
  everyone who had subscribed before it was read, unless the name has been taken
  off the map. A subscriber that has left, or whose channel refuses its copy,
  does not keep the task from the others.
* `ReachesLatest`: a client whose earlier connections are closed and which
  connects again is sent what is published to its old subscriptions on the new
  connection, until it leaves. The DISCONNECT of an old connection that is still
  open can unregister it (`session_manager.rs:116`); the property excludes that
  case, for which nothing in the repository says what should happen.
* `AcceptedEndsItsFrame`: the decoder leaves in the buffer what follows the frame,
  also where a subtraction wraps around. CONNECT, acknowledgements with more than
  their id, and PUBREL and DISCONNECT with a reason are excluded: their decoders
  never compare (`mqtt.rs:103`, `:2602`).
* `PayloadFollowsList`: no property is cut by the end of its list, and no octet of
  the list is taken for payload.
* `PollReturns`: the unbounded loops over properties and filters end.
* `InStep`, `PolledWhole`: the peer waits for exactly what is in the write buffer.
  Four kinds of packet are excluded, whose headers are wrong: a CONNACK with 128
  octets of properties (`mqtt.rs:403`), a PUBREL or PUBCOMP with properties and no
  reason code (`:918`, `:984`), a PUBLISH whose `payload_length` is not that of its
  data, and a length of 2^28 (`:2269`).
* `PollEnds`: `poll_encode` ends for packets without a payload. For SUBACK,
  UNSUBACK and PUBLISH it returns the payload again on every call
  (`encoder.rs:52`).
* `PanicsOnlyIfKept`: neither the loop's own Arc nor another client's gets in the
  way of `try_unwrap`.
* `WaitsForAReason`, `SlotsComeBack`: a client stays in the backlog only behind a
  maker that never returns or because no descriptor ever comes back; they come back
  if the application unregisters the connections that ended, which
  `examples/broker.rs` never does.

### What the code does otherwise than it says

Each is a run whose one property TLC refutes.

| Run | Disagreement |
|---|---|
| `conn_error_open` | after a malformed packet the socket stays open, since the registry keeps a sender (`connection.rs:96`); the comment at `mqtt.rs:3040` says it must be closed |
| `conn_parts` | a PUBLISH in two segments is an error, in the payload (`mqtt.rs:2525`) or, as on the shortest trace, in the variable header (`mqtt.rs:2216`, `:2233`); the comment at `mqtt.rs:2405` says it need not have arrived completely |
| `conn_ping` | `decode_fixed_header` has no branch for PINGREQ (`mqtt.rs:3067`), which ends the connection; `broker.rs:64` and `tests/conack_test.rs:28` answer it |
| `broker_clear_lost` | the task of an earlier publish restores what a clear removed (`broker.rs:183`); the flow at `check.md:40` clears it |
| `broker_shared_id` | clients that use one packet id share one staged message (`session_manager.rs:53`), and a subscriber's PUBCOMP commits the publisher's next message (`broker.rs:365`), against the comment at `broker.rs:277` |

Three more disagreements are plain from the text and have no run. The two octets
`e0 00` of a DISCONNECT wait for a further octet (`decoder.rs:42`), although the
unit test at `mqtt.rs:3875` decodes them; `SentIsServed` states the case (`Held`). An empty retained publish is not
forwarded (`broker.rs:176`), although `check.md:37` draws it. Authentication data
that comes before its method is refused (`mqtt.rs:2705`, inside the loop over the
properties), although the comment above it only asks that there be a method;
`Rejected` states it.

### Bounds, and why they suffice

* Frames have 2 to 9 octet groups, a stream has two or three frames. The decoder
  keeps nothing but `buf` and the count between packets, so three frames show a
  packet with a predecessor and a successor. A read takes between one group and
  six, less than a packet and its successor; three streams (`SplitStreams`) also
  come in segments of any length, one for each way of being cut or misread: inside
  any part of a packet with and without a payload, behind an acknowledgement, and
  behind a packet that takes octets of the next. In the violation runs a read takes
  nine groups, the longest frame: a packet is decoded over several polls, each of
  which reads, so what follows has been read whole when its turn comes, and what
  these runs show is not the read's doing.
* `Capacity` 2 (32 in the code) fills with the answers of one request.
  `MaxDeliveries` of 1 puts a delivery before, between or after answers.
* `MaxRefusals` of 1: one refused packet, at any step of any connection or task, is
  what a loop has to survive. The theorems about `Broker` have no such bound.
* Three connections: a subscriber, a publisher, and a second publisher or the
  subscriber's second connection. Two packet ids, because a clash needs one and
  its absence two. Two topics and two filters, one of them `#`, so that a topic
  is matched by one and by both.
* Filters and topics of three levels over two words: each arm of the loop is
  taken before, at and after the end of the topic. The theorem removes the bound.

* `decode_packet`: strings of at most one octet and a buffer of 17 behind the fixed
  header, room for a CONNECT with will, name and password, for two properties, and
  for three filters. Lengths below, at and above what the buffer holds, one in two
  octets, one that is cut and one that never ends. `Word` stands for 2^64: all that
  matters is that it exceeds every position, and the theorem asks for no more.
* `encode_packet`: lists of 0, 127, 128, 16383 and 16384 octets, the sizes at which
  the number of length octets changes, and a payload that no length can announce.
* `serve`: two descriptors for three clients, so that one waits for a descriptor,
  and one listener error.

### Fairness

`Connection`: weak fairness of polls (tokio polls a woken task), of the services
(their futures resolve) and of the writer (a task of the runtime). None for the
client, for other tasks' deliveries, or for `Unregister`, which nothing in the
repository performs. `Broker`: weak fairness of each connection's handler and of the
delivery tasks together, which end one after another. None for the clients.
`TopicFilter`: the loop runs. `PacketDecoder` and `PacketEncoder`: a poll that was
entered goes on, and the caller of `poll_encode` keeps calling; none for the octets
that arrive. `Serve`: the runtime polls the accept loop and the tasks. None for
the makers, the clones, connections and the application: `WaitsForAReason` and
`SlotsComeBack` name what they assume of them.

## 4. What is proved

Each theorem is `Spec => []P` for the property named, `Spec => P` for the
refinement, and about sequences of octets for the two of `VariableLength`.

| Theorem | Property | Strengthening |
|---|---|---|
| `ConnectionTypeCorrect` | `ConnectionTypeOK` | `TypeInvariant`: an answer has a request, so whatever state is past `PreConnection`, something was served |
| `ConnectionNeverLosesWakeup` | `NoLostWakeup` | inductive relative to `TypeInvariant`; `ReadFillsBuffer` says a read that leaves the buffer empty has registered the waker |
| `ConnectionChannelIsFifo` | `QueueIsFifo` | `FifoInvariant`: also, the writer's buffer is empty unless it writes. Without it `WriterRecv` could overwrite |
| `ConnectionKeepsStream` | `StreamIntact` | `OnStream`: the position in the stream behind what was decoded is where a frame starts, or as far into `current` as the decoder's state and count say, or inside a frame the decoder strayed into |
| `ConnectionServesInOrder` | `ServedInOrder` | the same: the number of the packet being decoded is one more than were served |
| `ConnectionAnswersInOrder` | `AnswersInOrder` | `AnswerInvariant`: how many requests were served in each state (`RequestsFit`), and what of the answer list in hand is still to come (`AnswersFit`) |
| `ConnectionFollowsDiscipline` | `FollowsDiscipline` | `MappingInvariant`; one lemma per action: it maps to the action of `RequestReply` it performs, or to a stutter |
| `ConnectionFailsOnNoWholeFrame` | `FailsOnNoWholeFrame` | `FailureInvariant`: with `OnStream` and the fields of the frames. Before an octet is decoded, what is neither buffered, in the socket nor unsent lies behind (`RestIsUnread`), so a frame with nothing unread is in the buffer whole (`RejectionHasReason`) |
| `IsMatchStaysInBounds` | `LoopInvariant` | `IInv`: with `LoopDecides`; what has been compared matched, and no `#` was passed |
| `IsMatchDecides` | `LoopDecides` | the same |
| `LengthRoundTrip` | every length below 2^28 is read back, with its size, whatever follows it | the digits of a number add up to it (`DigitSum`), and only the last is below 128 (`Continuation`) |
| `CutLengthWaits` | a length that is cut is `InsufficientBytes` | the same |
| `FramesRespected` | `AcceptedEndsItsFrame` | `FrameInv`: `payload` is what the frame has left, wrapped around; a wrapped one exceeds the buffer, so it is never met exactly. The short forms keep their fields |
| `PayloadsPlaced` | `PayloadFollowsList` | `ListInv`: between the property list and the payload nothing is left to decode |
| `PacketTyped` | `PacketTypeOK` | `FrameInv` (the cursor, and `payload` wrapped around) with `FieldsTyped` (the rest) |
| `PeerStaysInStep` | `InStep` | what the peer expects and what is buffered agree in every state; rests on `LengthRoundTrip` (`FrameIsWritten`) |
| `FinishedPacketsWhole` | `PolledWhole` | the same invariant |
| `EncoderTyped` | `EncoderTypeOK` | the same invariant |
| `StreamsUnwrapped` | `PanicsOnlyIfKept` | `Holding`: a clone is with the maker the loop waits for, or was kept |
| `ServeTyped` | `ServeTypeOK` | `Holding` and `Counted`: what the registry and the count of errors hold |
| `BrokerTyped` | `BrokerTypeOK` | `HandlerFits`: what each handler's locals hold where it stands |
| `SubackVersionKnown` | `SubackNeverPanics` | `VersionsKnown`: whoever is past the connect service has recorded a version, and none is ever removed |
| `RetainedNotMissed` | `NoMissedRetained` | `RetainInvariant`, below |
| `SentOnlyWhenReleased` | `SentWhenReleased` | `ExchangeInvariant`, below |

**Retained messages.** "Sent" is handed to the channel, which may refuse it.
`NoMissedRetained` speaks of finished tasks and served requests, `RetainInvariant`
of all states in between. For each retained publish,
each connected client and each filter of its that matches, the publish is on its
way (a task has the client among its targets, or has still to look at that
filter), or was handed to the client, or is being collected by the SUBSCRIBE that
is served, or the connection was closed in the middle of that answer (`CutShort`).
The third has cases of its own: before the store is read every
publish will be seen; while it is read, the topic is unvisited, or the publish is
in hand and no other one to its topic is (`Only`); after it the publish is in the
answer. A step of another client that stores a new publish starts a task, which
has yet to look at every filter. So does the argument depend on both orders:
SUBSCRIBE registers (`FiltersEntered`) before it reads, a task stores before it
looks. Plans, filters and interleavings are arbitrary here.

**QoS 2.** A publish leaves the broker on three ways: a delivery task, the retained
store, and the answer to a SUBSCRIBE that found it there. `ExchangeInvariant` calls
a publish cleared if it needs no release, or was published and some PUBREL for its
packet id has been read (`Published`, `Unlocked`, `Cleared`), and says that
everything on one of these ways is: what is retained (`StoreCleared`), what tasks
deliver (`TasksCleared`), what a SUBSCRIBE has found and what is in an answer or was
handed over (`ConnCleared`). What is staged need not be, but it was published, and
under the id it is staged for (`StagedFit`): so the PUBREL that fetches it has
unlocked it, whoever staged it, and the handler that is between fetch and release
holds a cleared one. A SUBSCRIBE that stages a retained publish again stages what
was cleared. All four sets only grow (`ClearedGrows`). The theorem is about every
plan: packet ids that two publishers share, that are used again, PUBRELs out of
nowhere and random ids of deliveries included.

That a PUBREL releases its own client's publish, and each publish once, is not true
of all plans: `broker_shared_id` refutes it for two publishers with one packet id,
which MQTT allows, and for a publisher that uses an id again which a subscriber
still owes the end of. `PubrelDeliversOwn`, `DeliveredOnce` and
`DeliveredWhenReleased` are therefore checked by TLC on the plans of `broker_safe`
and not proved. Two plans outside of them that also break these properties: a
PUBREL repeated after a SUBSCRIBE has staged the retained publish again
(`broker.rs:105`), and a random id, of a QoS 0 publish delivered with QoS 2
(`broker.rs:220`), that is the id of a staged publish, which the PUBCOMP then
commits.

**Assumptions.** The theorems rest on the named assumptions of the constants:
streams are sequences of octets, whole frames from the start (`InFrames`), spare
and capacity at least 1, replies are lists of reply kinds; the words are no
wildcards; the lengths on the wire are octets, the word is larger than the buffer
and than every length; plans are sequences of requests, in which a publish has a
packet id if and only if its QoS is not 0; `None` is no packet id, no message and no
client. No bound of a configuration is used. TLC evaluates all of them in the
runs.

**Layout.** Each property is checked by TLC in the run that lists it. The
invariants that are stronger were model-checked before they were proved, on the
plans of `MCBroker` and the streams of `MCConnection`. The proofs have one step per
action of `Next`; facts about sequences are lemmas (`AdvanceType`, `ConcatPrefix`,
`AppendKeepsFifo`), and so is what each group of actions leaves alone.

**Only model-checked.** Liveness under fairness, which the prover cannot treat:
`SentIsServed`, `AcceptedIsWritten`, `ReleasedConnectionCloses`, `LoopEnds`, `PollReturns`,
`PollEnds`, `WaitsForAReason`, `SlotsComeBack`, `DeliveredToSubscribers` and
`ReachesLatest`. And the three invariants of `broker_safe` that depend on its plans:
`PubrelDeliversOwn`, `DeliveredOnce` and `DeliveredWhenReleased`. Every other
invariant of a passing run, and the refinement, is proved.

## 5. What is not modelled

* The values of fields that decide no position: what a property says, the order
  of bits in the connect flags, the text of a string. A wrong value is an outcome
  (`Fallible`), not a computation. The contents of the octets an encoder lays out
  are data too; that the strings of a CONNACK's properties lack their lengths
  (`mqtt.rs:318`) is no part of the model. A SUBSCRIBE without filters is accepted,
  since the guard at `mqtt.rs:2371` never runs; this is in `PacketDecoder`, and
  nothing in the repository says whether it is meant.
* The encoders of packets only clients send, which are `todo!()`. A service that
  answers one is the `UNENCODABLE` message of `Connection`.
* `main.rs`, the Python clients and the Rust integration test are other users of
  the library, with constant answers.
* tower's contract: `make_connect_service` is called without `poll_ready`
  (`aqua.rs:177`), which the makers of both applications allow.
* Locks inside dashmap. `check_retain` reads the map while it iterates over it
  (`retain_store.rs:35`), which dashmap warns about; a model of it would be one
  of dashmap.

## 6. Plan

1. Done: the connection with its decoder, channel and writer; the matching loop;
   the broker over its maps; the inside of a packet, decoded and encoded; the
   accept loop; a client that comes back; channels that refuse a packet. Proved: the
   invariants of the passing runs that hold for every plan, and that `Connection`
   implements `RequestReply`.
2. Extend: a PUBREL repeated on a new connection while the old handler is between
   `fetch_packet` and `commit_packet`.
3. Prove: the safety half of the liveness properties (an entry once made stays,
   what a task has visited it has targeted); `DeliveredOnce` and
   `PubrelDeliversOwn` under a condition on the ids in use at one time, checked as
   the clients go along and not of whole plans.
