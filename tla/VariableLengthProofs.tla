------------------------- MODULE VariableLengthProofs ------------------------
(***************************************************************************)
(* What encode_variable_bytes writes, decode_variable_length reads: every  *)
(* length below 2^28 comes back, whatever follows it in the buffer, and    *)
(* stays undecided while an octet of it is missing.                        *)
(***************************************************************************)
EXTENDS VariableLength, TLAPS

Octets == Seq(Octet)

\* What the buffer holds is octets.
LEMMA OctetAt ==
    ASSUME NEW s \in Octets, NEW j \in 1 .. Len(s)
    PROVE  s[j] \in Int /\ s[j] \in 0 .. 255
<1>1. s[j] \in Octet
  BY DEF Octets
<1>2. Octet = 0 .. 255
  BY DEF Octet
<1>3. s[j] \in 0 .. 255
  BY <1>1, <1>2, Zenon
<1>4. \A o \in 0 .. 255 : o \in Int
  OBVIOUS
<1> HIDE DEF Octet
<1> QED BY <1>3, <1>4, Zenon

\* A number ends at one octet at most.
LEMMA OneEnd ==
    ASSUME NEW s \in Octets, NEW j \in 1 .. 4, NEW k \in 1 .. 4, EndsAt(s, j), EndsAt(s, k)
    PROVE  j = k
<1>1. ASSUME NEW a \in 1 .. 4, NEW b \in 1 .. 4, EndsAt(s, a), EndsAt(s, b) PROVE ~(a < b)
  <2>1. a <= Len(s) /\ Len(s) \in Nat
    BY <1>1 DEF EndsAt, Octets
  <2>2. s[a] \in Int
    BY <2>1, OctetAt
  <2>3. a < b => a \in 1 .. b - 1
    OBVIOUS
  <2>4. s[a] < 128 /\ \A i \in 1 .. b - 1 : s[i] >= 128
    BY <1>1 DEF EndsAt
  <2> QED BY <2>2, <2>3, <2>4
<1>2. ~(j < k) /\ ~(k < j)
  BY <1>1
<1> QED BY <1>2

\* Where a number ends, the decoder returns it and its size.
LEMMA DecodeAt ==
    ASSUME NEW s \in Octets, NEW k \in 1 .. 4, EndsAt(s, k)
    PROVE  DecodeLength(s) =
             [outcome |-> "Ok", size |-> k,
              value |-> Adds(s, 1, k) + Adds(s, 2, k) + Adds(s, 3, k) + Adds(s, 4, k)]
<1> DEFINE last == CHOOSE i \in 1 .. 4 : EndsAt(s, i)
<1>1. last \in 1 .. 4 /\ EndsAt(s, last)
  OBVIOUS
<1>2. last = k
  BY <1>1, OneEnd
<1>3. DecodeLength(s) =
             [outcome |-> "Ok", size |-> last,
              value |-> Adds(s, 1, last) + Adds(s, 2, last) + Adds(s, 3, last) + Adds(s, 4, last)]
  BY DEF DecodeLength
<1> QED BY <1>2, <1>3

\* An octet adds a natural number.
LEMMA AddsType ==
    ASSUME NEW s \in Octets, NEW k \in 1 .. 4, EndsAt(s, k), NEW j \in 1 .. 4
    PROVE  Adds(s, j, k) \in Nat
<1>1. CASE j <= k
  <2>1. j \in 1 .. Len(s)
    BY <1>1 DEF EndsAt, Octets
  <2>2. s[j] \in 0 .. 255
    BY <2>1, OctetAt
  <2>3. s[j] % 128 \in 0 .. 127
    BY <2>2, SMT
  <2>4. Weight(j) \in Nat
    BY DEF Weight, TooLong
  <2>5. (s[j] % 128) * Weight(j) \in Nat
    BY <2>3, <2>4
  <2> QED BY <1>1, <2>5 DEF Adds
<1>2. CASE ~(j <= k)
  BY <1>2 DEF Adds
<1> QED BY <1>1, <1>2

\* A decoded length is a natural number of one to four octets.
LEMMA DecodeLengthType ==
    ASSUME NEW s \in Octets, DecodeLength(s).outcome = "Ok"
    PROVE  DecodeLength(s).size \in 1 .. 4 /\ DecodeLength(s).value \in Nat
<1>1. PICK k \in 1 .. 4 : EndsAt(s, k)
  BY DEF DecodeLength
<1>2. \A j \in 1 .. 4 : Adds(s, j, k) \in Nat
  BY <1>1, AddsType
<1>3. DecodeLength(s).size = k
  BY <1>1, DecodeAt
<1>4. DecodeLength(s).value = Adds(s, 1, k) + Adds(s, 2, k) + Adds(s, 3, k) + Adds(s, 4, k)
  BY <1>1, DecodeAt
<1> QED BY <1>2, <1>3, <1>4

-----------------------------------------------------------------------------
\* The octets that encode_variable_bytes writes for n.
LEMMA EncodedOctets ==
    ASSUME NEW n \in Nat
    PROVE  /\ EncodedSize(n) \in 1 .. 4
           /\ EncodeLength(n) \in Octets
           /\ Len(EncodeLength(n)) = EncodedSize(n)
           /\ \A k \in 1 .. EncodedSize(n) :
                EncodeLength(n)[k] = (IF n \div Weight(k + 1) > 0 THEN Digit(n, k) + 128 ELSE Digit(n, k))
<1>1. EncodedSize(n) \in 1 .. 4
  BY DEF EncodedSize
<1>2. \A k \in 1 .. 4 : Digit(n, k) \in 0 .. 127
  BY DEF Digit, Weight, TooLong
<1>3. \A k \in 1 .. EncodedSize(n) :
        (IF n \div Weight(k + 1) > 0 THEN Digit(n, k) + 128 ELSE Digit(n, k)) \in Octet
  BY <1>1, <1>2 DEF Octet
<1>4. EncodeLength(n) = [k \in 1 .. EncodedSize(n) |->
          (IF n \div Weight(k + 1) > 0 THEN Digit(n, k) + 128 ELSE Digit(n, k))]
  BY DEF EncodeLength, Digit
<1>5. EncodeLength(n) \in Octets /\ Len(EncodeLength(n)) = EncodedSize(n)
  <2>1. EncodeLength(n) \in [1 .. EncodedSize(n) -> Octet]
    BY <1>3, <1>4
  <2>2. EncodedSize(n) \in Nat
    BY <1>1
  <2> QED BY <2>1, <2>2 DEF Octets
<1> QED BY <1>1, <1>4, <1>5

-----------------------------------------------------------------------------
(* Arithmetic of base 128 *)

\* Division with rest, by one digit.
LEMMA DivMod ==
    ASSUME NEW n \in Nat
    PROVE  n \div 128 \in Nat /\ n % 128 \in 0 .. 127 /\ n = 128 * (n \div 128) + (n % 128)
BY SMT

\* Dividing by a higher weight divides digit by digit.
LEMMA DivDiv ==
    ASSUME NEW n \in Nat
    PROVE  /\ n \div (128 * 128) = (n \div 128) \div 128
           /\ n \div (128 * 128 * 128) = (n \div (128 * 128)) \div 128
           /\ n \div (128 * 128 * 128 * 128) = (n \div (128 * 128 * 128)) \div 128
<1>1. n \div (128 * 128) = (n \div 128) \div 128
  BY SMT
<1>2. n \div (128 * 128 * 128) = (n \div (128 * 128)) \div 128
  BY SMT
<1>3. n \div (128 * 128 * 128 * 128) = (n \div (128 * 128 * 128)) \div 128
  BY SMT
<1> QED BY <1>1, <1>2, <1>3

\* Another octet follows as long as something is left to be written.
LEMMA Continuation ==
    ASSUME NEW n \in 0 .. TooLong - 1
    PROVE  /\ n \div Weight(EncodedSize(n) + 1) = 0
           /\ \A j \in 1 .. EncodedSize(n) - 1 : n \div Weight(j + 1) > 0
<1>1. CASE n < 128
  <2>1. EncodedSize(n) = 1
    BY <1>1 DEF EncodedSize, Weight, TooLong
  <2>2. n \div 128 = 0
    BY <1>1, SMT
  <2> QED BY <2>1, <2>2 DEF Weight, TooLong
<1>2. CASE 128 <= n /\ n < 128 * 128
  <2>1. EncodedSize(n) = 2
    BY <1>2 DEF EncodedSize, Weight, TooLong
  <2>2. n \div (128 * 128) = 0 /\ n \div 128 > 0
    BY <1>2, SMT
  <2>3. \A j \in 1 .. 2 - 1 : j = 1
    BY SMT
  <2> QED BY <2>1, <2>2, <2>3 DEF Weight, TooLong
<1>3. CASE 128 * 128 <= n /\ n < 128 * 128 * 128
  <2>1. EncodedSize(n) = 3
    BY <1>3 DEF EncodedSize, Weight, TooLong
  <2>2. n \div (128 * 128 * 128) = 0 /\ n \div (128 * 128) > 0 /\ n \div 128 > 0
    BY <1>3, SMT
  <2>3. \A j \in 1 .. 3 - 1 : j = 1 \/ j = 2
    BY SMT
  <2> QED BY <2>1, <2>2, <2>3 DEF Weight, TooLong
<1>4. CASE 128 * 128 * 128 <= n
  <2>1. EncodedSize(n) = 4
    BY <1>4 DEF EncodedSize, Weight, TooLong
  <2>2. /\ n \div (128 * 128 * 128 * 128) = 0
        /\ n \div (128 * 128 * 128) > 0 /\ n \div (128 * 128) > 0 /\ n \div 128 > 0
    BY <1>4, SMT DEF Weight, TooLong
  <2>3. \A j \in 1 .. 4 - 1 : j = 1 \/ j = 2 \/ j = 3
    BY SMT
  <2> QED BY <2>1, <2>2, <2>3 DEF Weight, TooLong
<1> QED BY <1>1, <1>2, <1>3, <1>4 DEF Weight, TooLong

\* n is the sum of its digits.
LEMMA DigitSum ==
    ASSUME NEW n \in 0 .. TooLong - 1
    PROVE  n = Digit(n, 1) + 128 * Digit(n, 2) + (128 * 128) * Digit(n, 3)
               + (128 * 128 * 128) * Digit(n, 4)
<1> DEFINE a == n \div 128
           b == n \div (128 * 128)
           c == n \div (128 * 128 * 128)
<1>1. n \in Nat
  BY DEF Weight, TooLong
<1>2. n = 128 * a + (n % 128) /\ a \in Nat
  BY <1>1, DivMod
<1>3. b = a \div 128 /\ c = b \div 128
  BY <1>1, DivDiv
<1>4. c \in 0 .. 127
  BY <1>1, SMT DEF Weight, TooLong
<1>5. Digit(n, 1) = n % 128 /\ Digit(n, 2) = a % 128 /\ Digit(n, 3) = b % 128 /\ Digit(n, 4) = c % 128
  <2>1. n \div 1 = n
    BY <1>1, SMT
  <2> QED BY <2>1 DEF Digit, Weight, TooLong
<1> HIDE DEF a, b, c
<1>6. a = 128 * b + (a % 128) /\ b \in Nat
  BY <1>2, <1>3, DivMod
<1>7. b = 128 * c + (b % 128)
  BY <1>3, <1>6, DivMod
<1>8. c % 128 = c
  BY <1>4, SMT
<1> QED BY <1>1, <1>2, <1>4, <1>5, <1>6, <1>7, <1>8, SMT

-----------------------------------------------------------------------------
\* The octet that encode_variable_bytes writes at place k, and what the decoder
\* adds for it, if it reads them at the start of a longer buffer.
LEMMA ReadBack ==
    ASSUME NEW n \in 0 .. TooLong - 1, NEW rest \in Octets
    PROVE  LET s == EncodeLength(n) \o rest
           IN  /\ s \in Octets
               /\ EndsAt(s, EncodedSize(n))
               /\ \A k \in 1 .. EncodedSize(n) : s[k] % 128 = Digit(n, k)
<1> DEFINE s == EncodeLength(n) \o rest
           size == EncodedSize(n)
<1>0. n \in Nat
  BY DEF Weight, TooLong
<1>1. /\ size \in 1 .. 4 /\ EncodeLength(n) \in Octets /\ Len(EncodeLength(n)) = size
      /\ \A k \in 1 .. size :
            EncodeLength(n)[k] = (IF n \div Weight(k + 1) > 0 THEN Digit(n, k) + 128 ELSE Digit(n, k))
  BY <1>0, EncodedOctets
<1>2. s \in Octets /\ Len(s) = size + Len(rest) /\ Len(rest) \in Nat
  BY <1>1 DEF Octets
<1>3. \A k \in 1 .. size : s[k] = EncodeLength(n)[k]
  BY <1>1 DEF Octets
<1>4. \A k \in 1 .. size : s[k] = (IF n \div Weight(k + 1) > 0 THEN Digit(n, k) + 128 ELSE Digit(n, k))
  BY <1>1, <1>3
<1>5. ASSUME NEW k \in 1 .. size
      PROVE  s[k] % 128 = Digit(n, k) /\ (s[k] >= 128 <=> n \div Weight(k + 1) > 0)
  <2>1. s[k] = IF n \div Weight(k + 1) > 0 THEN Digit(n, k) + 128 ELSE Digit(n, k)
    BY <1>4
  <2>2. Digit(n, k) \in 0 .. 127
    <3>1. k \in 1 .. 4
      BY <1>1
    <3> QED BY <1>0, <3>1 DEF Digit, Weight
  <2> HIDE DEF s
  <2> QED BY <2>1, <2>2, SMT
<1>6. EndsAt(s, size)
  <2>1. size <= Len(s)
    BY <1>1, <1>2
  <2>2. s[size] < 128
    <3>1. size \in 1 .. size /\ size \in 1 .. Len(s)
      BY <1>1, <1>2
    <3>2. ~(n \div Weight(size + 1) > 0)
      BY Continuation
    <3>3. s[size] \in Int
      BY <1>2, <3>1, OctetAt
    <3> HIDE DEF s, size
    <3> QED BY <1>5, <3>1, <3>2, <3>3
  <2>3. \A j \in 1 .. size - 1 : s[j] >= 128
    <3>1. \A j \in 1 .. size - 1 : j \in 1 .. size
      BY <1>1
    <3> QED BY <1>5, <3>1, Continuation
  <2> QED BY <2>1, <2>2, <2>3 DEF EndsAt
<1> QED BY <1>2, <1>5, <1>6

\* Digits beyond the size are zero.
LEMMA HighDigits ==
    ASSUME NEW n \in 0 .. TooLong - 1, NEW k \in 1 .. 4, k > EncodedSize(n)
    PROVE  Digit(n, k) = 0
<1>1. k = 2 => n < 128
  BY DEF EncodedSize, Weight, TooLong
<1>2. k = 3 => n < 128 * 128
  BY DEF EncodedSize, Weight, TooLong
<1>3. k = 4 => n < 128 * 128 * 128
  BY DEF EncodedSize, Weight, TooLong
<1>4. k # 1
  BY DEF EncodedSize
<1>5. CASE k = 2
  <2>1. n \div 128 = 0
    BY <1>5, <1>1, SMT DEF Weight, TooLong
  <2> QED BY <1>5, <2>1 DEF Digit, Weight, TooLong
<1>6. CASE k = 3
  <2>1. n \div (128 * 128) = 0
    BY <1>6, <1>2, SMT DEF Weight, TooLong
  <2> QED BY <1>6, <2>1 DEF Digit, Weight, TooLong
<1>7. CASE k = 4
  <2>1. n \div (128 * 128 * 128) = 0
    BY <1>7, <1>3, SMT DEF Weight, TooLong
  <2> QED BY <1>7, <2>1 DEF Digit, Weight, TooLong
<1> QED BY <1>4, <1>5, <1>6, <1>7

\* What octet k of the written length adds is its digit times its weight, and
\* nothing beyond the size.
LEMMA AddsDigit ==
    ASSUME NEW n \in 0 .. TooLong - 1, NEW rest \in Octets, NEW k \in 1 .. 4
    PROVE  Adds(EncodeLength(n) \o rest, k, EncodedSize(n)) = Digit(n, k) * Weight(k)
<1>1. CASE k <= EncodedSize(n)
  <2>1. k \in 1 .. EncodedSize(n)
    BY <1>1 DEF EncodedSize
  <2> QED BY <1>1, <2>1, ReadBack DEF Adds
<1>2. CASE ~(k <= EncodedSize(n))
  <2>1. k > EncodedSize(n)
    BY <1>2 DEF EncodedSize
  <2>2. Digit(n, k) = 0
    BY <2>1, HighDigits
  <2>3. 0 * Weight(k) = 0
    BY DEF Weight, TooLong
  <2> QED BY <1>2, <2>2, <2>3 DEF Adds
<1> QED BY <1>1, <1>2

\* Every length below 2^28 is read back as it was written, whatever follows
\* (mqtt.rs: encode_variable_bytes and decode_variable_length).
THEOREM LengthRoundTrip ==
    ASSUME NEW n \in 0 .. TooLong - 1, NEW rest \in Octets
    PROVE  DecodeLength(EncodeLength(n) \o rest) =
             [outcome |-> "Ok", size |-> EncodedSize(n), value |-> n]
<1> DEFINE s == EncodeLength(n) \o rest
           size == EncodedSize(n)
<1>1. s \in Octets /\ size \in 1 .. 4 /\ EndsAt(s, size)
  BY ReadBack DEF EncodedSize
<1>2. DecodeLength(s) = [outcome |-> "Ok", size |-> size,
        value |-> Adds(s, 1, size) + Adds(s, 2, size) + Adds(s, 3, size) + Adds(s, 4, size)]
  <2> HIDE DEF s, size
  <2> QED BY <1>1, DecodeAt
<1>3. /\ Adds(s, 1, size) = Digit(n, 1) * 1
      /\ Adds(s, 2, size) = Digit(n, 2) * 128
      /\ Adds(s, 3, size) = Digit(n, 3) * (128 * 128)
      /\ Adds(s, 4, size) = Digit(n, 4) * (128 * 128 * 128)
  <2>1. ASSUME NEW k \in 1 .. 4
        PROVE  Adds(s, k, size) = Digit(n, k) * Weight(k)
    BY AddsDigit
  <2> HIDE DEF s, size
  <2> QED BY <2>1 DEF Weight
<1>4. \A k \in 1 .. 4 : Digit(n, k) \in Nat
  BY DEF Digit, Weight, TooLong
<1>5. Adds(s, 1, size) + Adds(s, 2, size) + Adds(s, 3, size) + Adds(s, 4, size) = n
  BY <1>3, <1>4, DigitSum, SMT
<1> QED BY <1>2, <1>5

\* A length that is not complete yet is waited for, never taken for a shorter
\* one (InsufficientBytes): reading it again when the rest is there is safe.
THEOREM CutLengthWaits ==
    ASSUME NEW n \in 0 .. TooLong - 1, NEW m \in 0 .. EncodedSize(n) - 1
    PROVE  DecodeLength(SubSeq(EncodeLength(n), 1, m)).outcome = "InsufficientBytes"
<1> DEFINE s == SubSeq(EncodeLength(n), 1, m)
           size == EncodedSize(n)
<1>1. n \in Nat /\ size \in 1 .. 4
  BY DEF EncodedSize, Weight, TooLong
<1>2. /\ EncodeLength(n) \in Octets /\ Len(EncodeLength(n)) = size
      /\ \A k \in 1 .. size :
            EncodeLength(n)[k] = (IF n \div Weight(k + 1) > 0 THEN Digit(n, k) + 128 ELSE Digit(n, k))
  BY <1>1, EncodedOctets
<1>3. m \in 0 .. 3
  BY <1>1
<1>4. Len(s) = m /\ \A k \in 1 .. m : s[k] = EncodeLength(n)[k]
  BY <1>1, <1>2, <1>3 DEF Octets
<1>5. \A k \in 1 .. m : s[k] >= 128
  <2>1. \A k \in 1 .. m : k \in 1 .. size - 1 /\ k \in 1 .. size
    BY <1>1
  <2> SUFFICES ASSUME NEW k \in 1 .. m PROVE s[k] >= 128
    OBVIOUS
  <2>2. s[k] = IF n \div Weight(k + 1) > 0 THEN Digit(n, k) + 128 ELSE Digit(n, k)
    BY <1>2, <1>4, <2>1
  <2>3. n \div Weight(k + 1) > 0
    BY <2>1, Continuation
  <2>4. Digit(n, k) \in 0 .. 127
    BY <1>1, <2>1 DEF Digit, Weight
  <2> HIDE DEF s
  <2> QED BY <2>2, <2>3, <2>4
<1>6. ~(\E k \in 1 .. 4 : EndsAt(s, k))
  <2> SUFFICES ASSUME NEW k \in 1 .. 4, k <= m PROVE ~(s[k] < 128)
    BY <1>4 DEF EndsAt
  <2>1. k \in 1 .. m /\ k \in 1 .. Len(EncodeLength(n))
    BY <1>1, <1>2, <1>3
  <2>2. s[k] \in Int
    BY <1>2, <1>4, <2>1, OctetAt
  <2> QED BY <1>5, <2>1, <2>2
<1>7. Len(s) < 4
  BY <1>3, <1>4
<1> QED BY <1>6, <1>7 DEF DecodeLength
=============================================================================
