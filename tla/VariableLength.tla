---------------------------- MODULE VariableLength ---------------------------
(***************************************************************************)
(* The variable byte integer of MQTT (mqtt.rs): seven bits of value and a  *)
(* continuation bit in each of one to four octets, the least significant   *)
(* first.  The remaining length of every packet, the length of every       *)
(* property list and the subscription identifiers are written and read     *)
(* with these two functions.                                               *)
(***************************************************************************)
EXTENDS Integers, Sequences

\* What the k-th octet counts, and what four octets cannot hold.
Weight(k) ==
    CASE k = 1 -> 1
      [] k = 2 -> 128
      [] k = 3 -> 128 * 128
      [] k = 4 -> 128 * 128 * 128
      [] OTHER -> 128 * 128 * 128 * 128
TooLong == Weight(5)

\* An octet: a digit, and 128 more if another octet follows.
Octet == 0 .. 255

\* encode_variable_bytes ends with the last octet that is not zero, or after
\* four: a length of 2^28 or more is cut short, its last octet still marked
\* as continued.
EncodedSize(n) ==
    IF n < Weight(2) THEN 1
    ELSE IF n < Weight(3) THEN 2
    ELSE IF n < Weight(4) THEN 3
    ELSE 4

Digit(n, k) == (n \div Weight(k)) % 128

EncodeLength(n) ==
    [k \in 1 .. EncodedSize(n) |->
        IF n \div Weight(k + 1) > 0 THEN Digit(n, k) + 128 ELSE Digit(n, k)]

\* The k-th octet of s is the one the decoder stops at.
EndsAt(s, k) ==
    /\ k <= Len(s)
    /\ s[k] < 128
    /\ \A j \in 1 .. k - 1 : s[j] >= 128

\* What octet k adds to a number that ends at octet `last`.
Adds(s, k, last) == IF k <= last THEN (s[k] % 128) * Weight(k) ELSE 0

\* decode_variable_length over the octets s that the buffer holds from the
\* start of the number on.
DecodeLength(s) ==
    IF \E k \in 1 .. 4 : EndsAt(s, k)
    THEN LET last == CHOOSE k \in 1 .. 4 : EndsAt(s, k)
         IN [outcome |-> "Ok", size |-> last,
             value |-> Adds(s, 1, last) + Adds(s, 2, last) + Adds(s, 3, last)
                       + Adds(s, 4, last)]
    ELSE [outcome |-> IF Len(s) < 4 THEN "InsufficientBytes" ELSE "InvalidRemainingLength"]
=============================================================================
