------------------------------- MODULE Frames -------------------------------
(***************************************************************************)
(* The control packets a client can put on the wire, as the broker's       *)
(* decoder sees them.  A frame is described by the extent of the parts     *)
(* that mqtt.rs decodes separately, in octet groups:                       *)
(*                                                                         *)
(*   fixed   type/flags octet and remaining-length field                   *)
(*   var     what decode_variable_header consumes                          *)
(*   pay     what decode_payload consumes                                  *)
(*   rest    octets the remaining length counts and neither call consumes  *)
(*   over    octets behind the frame that decode_variable_header consumes  *)
(*   bad     the stage that rejects the frame although all of it is there  *)
(*                                                                         *)
(* The contents of the parts are abstracted away; their extents are what   *)
(* decides where the decoder believes the next frame starts.               *)
(***************************************************************************)
EXTENDS Naturals, SequencesExt

Stages == {"none", "fixed", "variable", "payload"}

Extent(fixed, var, pay, rest, bad) ==
    [fixed |-> fixed, var |-> var, pay |-> pay, rest |-> rest, over |-> 0, bad |-> bad]

\* decode_variable_length reads one octet of a short length, two of a longer
\* one: the fixed header of a small frame is 2 octets, of a large one 3.
SmallHeader == 2
LargeHeader == 3

\* CONNECT: name, level, flags, keep alive (and v5 properties), then the
\* client id and what the flags announce.
ConnectExtent == Extent(SmallHeader, 2, 2, 0, "none")

\* CONNECT of a 3.1.1 client with a will: the payload decoder reads a will
\* properties length whatever the level is and loses its place.
ConnectWillExtent == Extent(SmallHeader, 2, 3, 0, "payload")

\* PUBLISH: topic, packet id, properties; the payload is the remainder.
PublishExtent(fixed, pay) == Extent(fixed, 2, pay, 0, "none")

\* SUBSCRIBE: packet id and properties; the filters are the payload.
SubscribeExtent == Extent(SmallHeader, 2, 2, 0, "none")

\* UNSUBSCRIBE: as SUBSCRIBE, without options.
UnsubscribeExtent == Extent(SmallHeader, 2, 1, 0, "none")

\* PUBACK, PUBREC and PUBCOMP: only the packet id is decoded; a reason code
\* and a property length are counted by the remaining length and left in the
\* buffer.
AckExtent(reason) == Extent(SmallHeader, 2, 0, reason, "none")

\* PUBREL decodes the reason code, and the properties of a v5 client, as part
\* of the variable header.
PubrelExtent(reason) == Extent(SmallHeader, 2 + reason, 0, 0, "none")

\* DISCONNECT: an empty body, or a reason code in the variable header.
DisconnectExtent(reason) == Extent(SmallHeader, reason, 0, 0, "none")

\* A v5 PUBREL (`var` = 3) or DISCONNECT (`var` = 1) that ends with its reason
\* code.  The property length is read nevertheless, from the octets behind the
\* frame: what they announce is no property list and the packet is rejected
\* (`over` = 0), or it is one, and the packet takes them along.
CodeOnly(var, over) ==
    [fixed |-> SmallHeader, var |-> var, pay |-> 0, rest |-> 0, over |-> over,
     bad |-> IF over = 0 THEN "variable" ELSE "none"]

\* PINGREQ: decode_fixed_header has no branch for packet type 12.
PingreqExtent == Extent(SmallHeader, 0, 0, 0, "fixed")

\* SUBSCRIBE with reserved flag bits other than 0010 is malformed.
SubscribeFlagsExtent == Extent(SmallHeader, 2, 2, 0, "fixed")

FrameExtent ==
    [CONNECT           |-> ConnectExtent,
     CONNECT_WILL      |-> ConnectWillExtent,
     PUBLISH           |-> PublishExtent(SmallHeader, 2),
     PUBLISH_EMPTY     |-> PublishExtent(SmallHeader, 0),
     PUBLISH_LARGE     |-> PublishExtent(LargeHeader, 4),
     SUBSCRIBE         |-> SubscribeExtent,
     SUBSCRIBE_FLAGS   |-> SubscribeFlagsExtent,
     UNSUBSCRIBE       |-> UnsubscribeExtent,
     PUBACK            |-> AckExtent(0),
     PUBACK_REASON     |-> AckExtent(1),
     PUBACK_UNHEARD    |-> AckExtent(2),
     PUBREL            |-> PubrelExtent(0),
     PUBREL_REASON     |-> PubrelExtent(1),
     PUBREL_CODE       |-> CodeOnly(3, 0),
     PUBREL_EATS       |-> CodeOnly(3, 1),
     DISCONNECT        |-> DisconnectExtent(0),
     DISCONNECT_REASON |-> DisconnectExtent(1),
     DISCONNECT_CODE   |-> CodeOnly(1, 0),
     DISCONNECT_EATS   |-> CodeOnly(1, 1),
     PINGREQ           |-> PingreqExtent]

FrameNames == DOMAIN FrameExtent

Remaining(f) == FrameExtent[f].var + FrameExtent[f].pay + FrameExtent[f].rest
FrameSize(f) == FrameExtent[f].fixed + Remaining(f)

\* The `no`-th frame of a client is the octets 1 .. FrameSize of that frame.
Octets(no, f) == [at \in 1 .. FrameSize(f) |-> [no |-> no, frame |-> f, at |-> at]]
Stream(frames) ==
    FlattenSeq([no \in 1 .. Len(frames) |-> Octets(no, frames[no])])
Octet == [no : Nat \ {0}, frame : FrameNames, at : Nat \ {0}]

\* What a client that writes whole frames, one after the other, puts on the
\* wire: every octet lies in a frame that is there from its first octet to its
\* last, the frame behind it has the next number, and the first is number 1.
InFrames(s) ==
    \A i \in DOMAIN s :
        LET size == FrameSize(s[i].frame)
            before == i - s[i].at
        IN /\ before >= 0
           /\ before + size <= Len(s)
           /\ s[i].at <= size
           /\ \A k \in 1 .. size : s[before + k] = [s[i] EXCEPT !.at = k]
           /\ before = 0 => s[i].no = 1
           /\ before + size < Len(s) => /\ s[before + size + 1].at = 1
                                        /\ s[before + size + 1].no = s[i].no + 1
=============================================================================
