--------------------------- MODULE MCPacketDecoder ---------------------------
(***************************************************************************)
(* PacketDecoder with strings of at most one octet, and a buffer that has  *)
(* room for a CONNECT with will, name and password, two properties, or     *)
(* three filters.  The lengths on the wire cover every frame up to the     *)
(* buffer and one beyond it, a length in two octets, one that is cut off   *)
(* and one that never ends.                                                *)
(***************************************************************************)
EXTENDS PacketDecoder

CONSTANT Announced      \* the lengths written in one octet

MCLengths ==
    {EncodeLength(n) : n \in Announced}
    \cup {<<131, 0>>, <<129>>, <<129, 129, 129, 129>>}
=============================================================================
