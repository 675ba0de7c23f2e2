------------------------------- MODULE Decoder ------------------------------
(***************************************************************************)
(* mqtt_coder::decoder::Decoder: the incremental packet decoder of one     *)
(* connection.  poll_decode runs once per poll of the connection, after    *)
(* the read; each definition below is one way through it.  The parameter   *)
(* b is decoder.buf as the read left it.                                   *)
(*                                                                         *)
(* What the caller learns from poll_decode:                                *)
(*   DecodeIdle     Pending, and no waker was called                       *)
(*   DecodeAgain    Pending, and cx.waker().wake_by_ref() was called       *)
(*   DecodePacket   Ready(Ok(packet)), the packet being `current`          *)
(*   DecodeRejects  Ready(Err(_)), or a slice out of range: both end the   *)
(*                  connection task                                        *)
(***************************************************************************)
EXTENDS Naturals, Sequences, Frames

VARIABLES
    dstate,     \* Decoder.state
    current,    \* Decoder.tmp_packet: the octet its fixed header began with
    counter,    \* Decoder.remain_length_counter
    buf         \* Decoder.buf

decoderVars == <<dstate, current, counter, buf>>

DecoderStates == {"Done", "FixedHeaderDecoded", "VariableHeaderDecoded"}
Undefined == [no |-> 0]     \* ControlPacket::UNDEFINED, the default

DecoderTypeOK ==
    /\ dstate \in DecoderStates
    /\ current \in Octet \cup {Undefined}
    /\ dstate # "Done" => current \in Octet
    /\ counter \in Nat
    /\ buf \in Seq(Octet)

DecoderInit ==
    /\ dstate = "Done"
    /\ current = Undefined
    /\ counter = 0
    /\ buf = <<>>

Advance(b, n) == SubSeq(b, n + 1, Len(b))

\* What an ack leaves behind is no packet type, but for the reason code 0x10
\* (no matching subscribers) of PUBACK_UNHEARD: with the property length 0 it
\* is the fixed header of a CONNECT.
LeftHeader(o) == o.frame = "PUBACK_UNHEARD" /\ o.at = FrameSize(o.frame) - 1

\* A fixed header is accepted at the first octet of a frame whose type has a
\* branch in decode_fixed_header, if the remaining-length field is complete.
HeaderDecodes(b) ==
    \/ /\ b[1].at = 1
       /\ FrameExtent[b[1].frame].bad # "fixed"
       /\ Len(b) >= FrameExtent[b[1].frame].fixed
    \/ LeftHeader(b[1])

\* decode_variable_header and decode_payload succeed only on what is
\* completely in the buffer; no frame begins with the name of the protocol,
\* which a CONNECT that is none would need behind its fixed header.
VariableReads(f) == FrameExtent[f].var + FrameExtent[f].over
VariableDecodes(b) ==
    /\ current.at = 1
    /\ FrameExtent[current.frame].bad # "variable"
    /\ Len(b) >= VariableReads(current.frame)
PayloadDecodes(b) ==
    /\ FrameExtent[current.frame].bad # "payload"
    /\ Len(b) >= FrameExtent[current.frame].pay

\* `counter` once the variable header has been consumed.
Counted == counter + VariableReads(current.frame)

\* Mutant: the `len < 2` return forgets to wake the task.
DecodeIdleOnShort(b) ==
    /\ b = <<>> \/ (dstate = "Done" /\ Len(b) = 1)
    /\ buf' = b
    /\ UNCHANGED <<dstate, current, counter>>

DecodeIdle(b) ==
    /\ b = <<>>
    /\ buf' = b
    /\ UNCHANGED <<dstate, current, counter>>

DecodeShort(b) ==
    /\ dstate = "Done"
    /\ Len(b) = 1
    /\ buf' = b
    /\ UNCHANGED <<dstate, current, counter>>

\* Mutants: tmp_packet is not kept; remain_length_counter is not reset.
DecodeFixedForgets(b) ==
    /\ dstate = "Done"
    /\ Len(b) >= 2
    /\ HeaderDecodes(b)
    /\ current' = Undefined
    /\ buf' = Advance(b, FrameExtent[b[1].frame].fixed)
    /\ dstate' = "FixedHeaderDecoded"
    /\ counter' = 0

DecodeFixedKeepsCount(b) ==
    /\ dstate = "Done"
    /\ Len(b) >= 2
    /\ HeaderDecodes(b)
    /\ current' = b[1]
    /\ buf' = Advance(b, FrameExtent[b[1].frame].fixed)
    /\ dstate' = "FixedHeaderDecoded"
    /\ UNCHANGED counter

DecodeFixed(b) ==
    /\ dstate = "Done"
    /\ Len(b) >= 2
    /\ HeaderDecodes(b)
    /\ current' = b[1]
    /\ buf' = Advance(b, FrameExtent[b[1].frame].fixed)
    /\ dstate' = "FixedHeaderDecoded"
    /\ counter' = 0

DecodeVariable(b) ==
    /\ dstate = "FixedHeaderDecoded"
    /\ b # <<>>
    /\ VariableDecodes(b)
    /\ Counted # Remaining(current.frame)
    /\ buf' = Advance(b, VariableReads(current.frame))
    /\ counter' = Counted
    /\ dstate' = "VariableHeaderDecoded"
    /\ UNCHANGED current

DecodeAgain(b) == DecodeShort(b) \/ DecodeFixed(b) \/ DecodeVariable(b)

DecodeBodiless(b) ==
    /\ dstate = "FixedHeaderDecoded"
    /\ b # <<>>
    /\ VariableDecodes(b)
    /\ Counted = Remaining(current.frame)
    /\ buf' = Advance(b, VariableReads(current.frame))
    /\ counter' = Counted
    /\ dstate' = "Done"
    /\ current' = Undefined

\* Mutant: decode_payload does not hand back what follows the payload.
DecodePayloadDropsRest(b) ==
    /\ dstate = "VariableHeaderDecoded"
    /\ b # <<>>
    /\ PayloadDecodes(b)
    /\ buf' = <<>>
    /\ dstate' = "Done"
    /\ current' = Undefined
    /\ UNCHANGED counter

\* Mutant: state stays VariableHeaderDecoded behind the payload.
DecodePayloadStays(b) ==
    /\ dstate = "VariableHeaderDecoded"
    /\ b # <<>>
    /\ PayloadDecodes(b)
    /\ buf' = Advance(b, FrameExtent[current.frame].pay)
    /\ UNCHANGED <<dstate, current, counter>>

DecodePayload(b) ==
    /\ dstate = "VariableHeaderDecoded"
    /\ b # <<>>
    /\ PayloadDecodes(b)
    /\ buf' = Advance(b, FrameExtent[current.frame].pay)
    /\ dstate' = "Done"
    /\ current' = Undefined
    /\ UNCHANGED counter

DecodePacket(b) == DecodeBodiless(b) \/ DecodePayload(b)

\* The connection is not polled again after an error; decode_payload was
\* given the buffer and did not hand it back.
DecodeRejects(b) ==
    /\ b # <<>>
    /\ \/ dstate = "Done" /\ Len(b) >= 2 /\ ~HeaderDecodes(b) /\ buf' = b
       \/ dstate = "FixedHeaderDecoded" /\ ~VariableDecodes(b) /\ buf' = b
       \/ dstate = "VariableHeaderDecoded" /\ ~PayloadDecodes(b) /\ buf' = <<>>
    /\ UNCHANGED <<dstate, current, counter>>
=============================================================================
