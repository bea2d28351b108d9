---------------------------- MODULE Base64Proofs ----------------------------
(***************************************************************************)
(* Proofs about Base64 for any payload, any buffer size and any width of   *)
(* the accumulator: decode_base64 stays in its buffer, and undoes what the *)
(* encoding of RFC 4648 did.                                               *)
(***************************************************************************)
EXTENDS Base64, SequenceTheorems, TLAPS

\* The divisors of the decoder's shifts.
LEMMA Powers == 2^0 = 1 /\ 2^2 = 4 /\ 2^4 = 16
OBVIOUS

\* The accumulator's range.
LEMMA ShiftedType ==
    ASSUME NEW v \in Nat, NEW d \in Nat
    PROVE  (v * 64 + d) % IntValues \in 0 .. IntValues - 1
<1>1. v * 64 + d \in Nat
  OBVIOUS
<1> QED
  BY <1>1, Base64Assumption

\* What the decoder takes out of the accumulator is a byte.
FullByte(v, fill) == (v \div 2^fill) % 256

\* It is a byte.
LEMMA ByteType ==
    ASSUME NEW v \in Nat, NEW fill \in {0, 2, 4}
    PROVE  FullByte(v, fill) \in 0 .. 255
<1>1. 2^fill \in {1, 4, 16}
  BY Powers
<1>2. v \div 2^fill \in Nat
  BY <1>1
<1> QED
  BY <1>2 DEF FullByte
-----------------------------------------------------------------------------
(* The texts are made of characters.                                       *)

\* The divisors of the encoder's shifts.
LEMMA PowersOfSextet ==
    ASSUME NEW n \in {4, 6, 8, 10}
    PROVE  2^n \in Nat \ {0}
<1>1. CASE n = 4
  BY <1>1
<1>2. CASE n = 6
  BY <1>2
<1>3. CASE n = 8
  BY <1>3
<1>4. CASE n = 10
  BY <1>4
<1> QED
  BY <1>1, <1>2, <1>3, <1>4

\* A payload read past its end is zero.
LEMMA ByteAtType ==
    ASSUME NEW p \in Seq(0 .. 255), NEW i \in Nat \ {0}
    PROVE  ByteAt(p, i) \in Nat
<1>1. CASE i <= Len(p)
  <2>1. p[i] \in 0 .. 255
    BY <1>1, ElementOfSeq
  <2>2. ByteAt(p, i) = p[i]
    BY <1>1, Zenon DEF ByteAt
  <2>3. \A b \in 0 .. 255 : b \in Nat
    OBVIOUS
  <2> QED
    BY <2>1, <2>2, <2>3, Zenon
<1>2. CASE ~(i <= Len(p))
  BY <1>2 DEF ByteAt
<1> QED
  BY <1>1, <1>2

\* The encoder yields letters of the alphabet.
LEMMA SextetType ==
    ASSUME NEW p \in Payloads, NEW j \in Nat \ {0}
    PROVE  Sextet(p, j) \in 0 .. 63
<1> DEFINE first  == 6 * (j - 1)
           byte   == 1 + first \div 8
           offset == first % 8
           word   == ByteAt(p, byte) * 256 + ByteAt(p, byte + 1)
<1>1. byte \in Nat \ {0} /\ byte + 1 \in Nat \ {0}
      /\ 10 - offset \in {4, 6, 8, 10}
  OBVIOUS
<1>2. word \in Nat
  <2> HIDE DEF byte
  <2>1. p \in Seq(0 .. 255)
    BY Base64Assumption
  <2>2. ByteAt(p, byte) \in Nat /\ ByteAt(p, byte + 1) \in Nat
    BY <1>1, <2>1, ByteAtType
  <2> QED
    BY <2>2
<1> HIDE DEF word, offset
<1>3. 2^(10 - offset) \in Nat \ {0}
  BY <1>1, PowersOfSextet
<1>4. word \div 2^(10 - offset) \in Nat
  BY <1>2, <1>3
<1>5. (word \div 2^(10 - offset)) % 64 \in 0 .. 63
  BY <1>4
<1> QED
  BY <1>5 DEF Sextet, word, offset

\* The letters of a payload are characters.
LEMMA LettersType ==
    ASSUME NEW p \in Payloads
    PROVE  Sextets(p) \in Seq(Chars)
<1> USE DEF Chars, Other, Pad
<1>1. Len(p) \in Nat
  BY Base64Assumption
<1>2. (8 * Len(p) + 5) \div 6 \in Nat
  BY <1>1
<1>3. ASSUME NEW j \in 1 .. (8 * Len(p) + 5) \div 6
      PROVE  Sextet(p, j) \in Chars
  <2>1. j \in Nat \ {0}
    BY <1>2
  <2>2. Sextet(p, j) \in 0 .. 63
    BY <2>1, SextetType
  <2> QED
    BY <2>2
<1> QED
  BY <1>2, <1>3 DEF Sextets

\* So is what may follow them.
LEMMA TailType ==
    ASSUME NEW p \in Payloads, NEW e \in Endings
    PROVE  Tail64(p, e) \in Seq(Chars)
<1> USE DEF Chars, Other, Pad
<1>1. PadCount(p) \in Nat
  <2>1. Len(p) \in Nat
    BY Base64Assumption
  <2> QED
    BY <2>1 DEF PadCount
<1>2. [k \in 1 .. PadCount(p) |-> Pad] \in Seq(Chars)
  BY <1>1
<1>3. <<>> \in Seq(Chars) /\ <<Other, 1, 2, 3, 4>> \in Seq(Chars)
  OBVIOUS
<1>4. CASE e = "bare"
  BY <1>3, <1>4 DEF Tail64
<1>5. CASE e = "padded"
  BY <1>2, <1>5 DEF Tail64
<1>6. CASE e = "junk"
  BY <1>3, <1>6 DEF Tail64
<1> QED
  BY <1>4, <1>5, <1>6, Base64Assumption

\* The texts of Init, without the blank, consist of characters.
LEMMA TextType ==
    ASSUME NEW p \in Payloads, NEW e \in Endings
    PROVE  Sextets(p) \o Tail64(p, e) \in Seq(Chars)
BY LettersType, TailType

\* So do the texts with a blank somewhere.
LEMMA BlanksType ==
    ASSUME NEW text \in Seq(Chars), NEW blank \in Blanks(text)
    PROVE  blank \in Seq(Chars)
<1>1. CASE blank = text
  BY <1>1
<1>2. ASSUME NEW k \in 1 .. Len(text) + 1, blank = InsertAt(text, k, Space)
      PROVE  blank \in Seq(Chars)
  <2>1. SubSeq(text, 1, k - 1) \in Seq(Chars)
        /\ SubSeq(text, k, Len(text)) \in Seq(Chars)
    OBVIOUS
  <2>2. <<Space>> \in Seq(Chars)
    BY DEF Space, Chars, Other
  <2> QED
    BY <1>2, <2>1, <2>2 DEF InsertAt
<1> QED
  BY <1>1, <1>2 DEF Blanks
-----------------------------------------------------------------------------
\* The decoder starts with an empty accumulator and output.
LEMMA InitType == Init => TypeOK
<1> SUFFICES ASSUME Init PROVE TypeOK
  OBVIOUS
<1>1. input \in Seq(Chars)
  BY TextType, BlanksType DEF Init
<1> QED
  BY <1>1, Base64Assumption DEF Init, TypeOK

\* A byte more.
LEMMA AppendsByte ==
    ASSUME NEW s \in Seq(0 .. 255), NEW byte \in 0 .. 255
    PROVE  /\ Append(s, byte) \in Seq(0 .. 255)
           /\ Len(Append(s, byte)) = Len(s) + 1
OBVIOUS

\* The one step that writes: a byte goes out only where there is room.
LEMMA AccumulateType ==
    ASSUME TypeOK, Accumulate
    PROVE  TypeOK'
<1> USE DEF TypeOK
<1>1. result = "run" /\ pos \in 1 .. Len(input) /\ bits \in {-8, -6, -4, -2}
  BY DEF Accumulate
<1>2. Table(input[pos]) \in Nat
  <2>1. input[pos] \in Chars
    BY <1>1
  <2>2. ASSUME NEW ch \in Chars
        PROVE  Table(ch) \in Nat \cup {-1}
    BY DEF Table, Chars, Pad, Other
  <2>3. Table(input[pos]) # -1
    BY DEF Accumulate
  <2> QED
    BY <2>1, <2>2, <2>3
<1>3. val' \in 0 .. IntValues - 1 /\ val' \in Nat
  <2>1. val \in Nat
    BY Base64Assumption
  <2>2. (val * 64 + Table(input[pos])) % IntValues \in 0 .. IntValues - 1
    BY <1>2, <2>1, ShiftedType
  <2> QED
    BY <2>2, Base64Assumption DEF Accumulate, Shifted
<1>4. input' = input /\ input \in Seq(Chars) /\ Len(input) \in Nat
  BY DEF Accumulate
<1>5. CASE /\ bits + 6 < 0
           /\ bits' = BitsAfter(bits + 6)
           /\ pos' = pos + 1
           /\ UNCHANGED <<output, result>>
  BY <1>1, <1>3, <1>4, <1>5 DEF BitsAfter
<1>6. CASE /\ bits + 6 >= 0 /\ HasRoom
           /\ output' = Append(output, (val' \div 2^(bits + 6)) % 256)
           /\ bits' = BitsAfter(bits + 6)
           /\ pos' = pos + 1
           /\ UNCHANGED result
  <2>1. bits + 6 \in {0, 2, 4}
    BY <1>1, <1>6
  <2>2. (val' \div 2^(bits + 6)) % 256 \in 0 .. 255
    <3>1. FullByte(val', bits + 6) \in 0 .. 255
      BY <1>3, <2>1, ByteType
    <3> QED
      BY <3>1, Zenon DEF FullByte
  <2>3. output' \in Seq(0 .. 255) /\ Len(output') <= PayloadMax
    <3>1. /\ output \in Seq(0 .. 255) /\ Len(output) \in Nat
          /\ Len(output) + 1 <= PayloadMax
      BY <1>6, Base64Assumption DEF HasRoom
    <3> DEFINE byte == (val' \div 2^(bits + 6)) % 256
    <3>2. output' = Append(output, byte) /\ byte \in 0 .. 255
      BY <1>6, <2>2
    <3> HIDE DEF byte
    <3>3. /\ Append(output, byte) \in Seq(0 .. 255)
          /\ Len(Append(output, byte)) = Len(output) + 1
      BY <3>1, <3>2, AppendsByte
    <3> QED
      BY <3>1, <3>2, <3>3
  <2>4. bits' \in {-8, -6, -4} /\ result' = "run"
    BY <1>1, <1>6, <2>1 DEF BitsAfter
  <2>5. pos' \in 1 .. Len(input') + 1
    BY <1>1, <1>4, <1>6
  <2> QED
    BY <1>3, <1>4, <2>3, <2>4, <2>5
<1>7. CASE /\ bits + 6 >= 0 /\ ~HasRoom
           /\ bits' = bits + 6
           /\ result' = "false"
           /\ UNCHANGED <<pos, output>>
  BY <1>1, <1>3, <1>4, <1>7
<1> QED
  BY <1>5, <1>6, <1>7 DEF Accumulate

\* Every step keeps the types.
LEMMA NextType == TypeOK /\ [Next]_vars => TypeOK'
<1> SUFFICES ASSUME TypeOK, [Next]_vars PROVE TypeOK'
  OBVIOUS
<1>1. CASE SkipSpace
  BY <1>1 DEF SkipSpace, AtChar, TypeOK
<1>2. CASE Accumulate
  BY <1>2, AccumulateType
<1>3. CASE Finish
  BY <1>3 DEF Finish, TypeOK
<1>4. CASE UNCHANGED vars
  BY <1>4 DEF vars, TypeOK
<1> QED
  BY <1>1, <1>2, <1>3, <1>4 DEF Next, Done

\* For every text and every buffer size: the output never outgrows the
\* event's buffer and no character makes decode_base64 shift by a negative
\* or overlong distance.
THEOREM DecoderStaysInBounds == Spec => []TypeOK
BY InitType, NextType, PTL DEF Spec
-----------------------------------------------------------------------------
(* Where the bits of a byte go, and how they come back.                    *)

\* The powers of two of the encoder and of Decoded.
LEMMA MorePowers ==
    2^6 = 64 /\ 2^8 = 256 /\ 2^10 = 1024
OBVIOUS

\* A payload is read as bytes, also past its end.
LEMMA ByteAtByte ==
    ASSUME NEW p \in Seq(0 .. 255), NEW i \in Nat \ {0}
    PROVE  ByteAt(p, i) \in 0 .. 255
<1>1. CASE i <= Len(p)
  <2>1. p[i] \in 0 .. 255
    BY <1>1, ElementOfSeq
  <2>2. ByteAt(p, i) = p[i]
    BY <1>1, Zenon DEF ByteAt
  <2> QED
    BY <2>1, <2>2, Zenon
<1>2. CASE ~(i <= Len(p))
  BY <1>2 DEF ByteAt
<1> QED
  BY <1>1, <1>2

\* The letters that two bytes have in common, by the bits on both sides.
Split(x, y) ==
    /\ ((x * 256 + y) \div 1024) % 64 = x \div 4
    /\ ((x * 256 + y) \div 16) % 64 = (x % 4) * 16 + y \div 16
    /\ ((x * 256 + y) \div 64) % 64 = (x % 16) * 4 + y \div 64
    /\ ((x * 256 + y) \div 256) % 64 = x % 64

\* They are made of those bits.
LEMMA SplitBytes ==
    ASSUME NEW x \in 0 .. 255, NEW y \in 0 .. 255
    PROVE  Split(x, y)
<1>1. x \in Int /\ y \in Int /\ 0 <= x /\ x <= 255 /\ 0 <= y /\ y <= 255
  OBVIOUS
<1>2. ((x * 256 + y) \div 1024) % 64 = x \div 4
  BY <1>1
<1>3. ((x * 256 + y) \div 16) % 64 = (x % 4) * 16 + y \div 16
  BY <1>1
<1>4. ((x * 256 + y) \div 64) % 64 = (x % 16) * 4 + y \div 64
  BY <1>1
<1>5. ((x * 256 + y) \div 256) % 64 = x % 64
  <2>1. (x * 256 + y) \div 256 = x
    BY <1>1
  <2> QED
    BY <2>1
<1> QED
  BY <1>2, <1>3, <1>4, <1>5 DEF Split

\* In which byte a letter begins, and where.
LEMMA LetterPlaces ==
    ASSUME NEW q \in Nat
    PROVE  /\ 1 + (6 * (4 * q + 1 - 1)) \div 8 = 3 * q + 1
           /\ (6 * (4 * q + 1 - 1)) % 8 = 0
           /\ 1 + (6 * (4 * q + 2 - 1)) \div 8 = 3 * q + 1
           /\ (6 * (4 * q + 2 - 1)) % 8 = 6
           /\ 1 + (6 * (4 * q + 3 - 1)) \div 8 = 3 * q + 2
           /\ (6 * (4 * q + 3 - 1)) % 8 = 4
           /\ 1 + (6 * (4 * q + 4 - 1)) \div 8 = 3 * q + 3
           /\ (6 * (4 * q + 4 - 1)) % 8 = 2
<1>1. PICK r \in Nat : r = 3 * q
  OBVIOUS
<1>2. /\ 6 * (4 * q + 1 - 1) = 8 * r
      /\ 6 * (4 * q + 2 - 1) = 8 * r + 6
      /\ 6 * (4 * q + 3 - 1) = 8 * (r + 1) + 4
      /\ 6 * (4 * q + 4 - 1) = 8 * (r + 2) + 2
  BY <1>1
<1>3. /\ (8 * r) \div 8 = r /\ (8 * r) % 8 = 0
      /\ (8 * r + 6) \div 8 = r /\ (8 * r + 6) % 8 = 6
  OBVIOUS
<1>4. /\ (8 * (r + 1) + 4) \div 8 = r + 1 /\ (8 * (r + 1) + 4) % 8 = 4
      /\ (8 * (r + 2) + 2) \div 8 = r + 2 /\ (8 * (r + 2) + 2) % 8 = 2
  OBVIOUS
<1>5. 1 + r = 3 * q + 1 /\ 1 + (r + 1) = 3 * q + 2 /\ 1 + (r + 2) = 3 * q + 3
  BY <1>1
<1> QED
  BY <1>2, <1>3, <1>4, <1>5, Zenon

\* Three bytes make four letters.
LEMMA LettersOfBytes ==
    ASSUME NEW p \in Seq(0 .. 255), NEW q \in Nat
    PROVE  /\ Sextet(p, 4 * q + 1) = ByteAt(p, 3 * q + 1) \div 4
           /\ Sextet(p, 4 * q + 2) = (ByteAt(p, 3 * q + 1) % 4) * 16
                                        + ByteAt(p, 3 * q + 2) \div 16
           /\ Sextet(p, 4 * q + 3) = (ByteAt(p, 3 * q + 2) % 16) * 4
                                        + ByteAt(p, 3 * q + 3) \div 64
           /\ Sextet(p, 4 * q + 4) = ByteAt(p, 3 * q + 3) % 64
<1> DEFINE b(i) == ByteAt(p, i)
<1>1. /\ b(3 * q + 1) \in 0 .. 255 /\ b(3 * q + 2) \in 0 .. 255
      /\ b(3 * q + 3) \in 0 .. 255 /\ b(3 * q + 4) \in 0 .. 255
  <2>1. /\ 3 * q + 1 \in Nat \ {0} /\ 3 * q + 2 \in Nat \ {0}
        /\ 3 * q + 3 \in Nat \ {0} /\ 3 * q + 4 \in Nat \ {0}
    OBVIOUS
  <2> QED
    BY <2>1, ByteAtByte
<1>2. ASSUME NEW j \in Nat, NEW byte \in Nat, NEW offset \in 0 .. 6,
             1 + (6 * (j - 1)) \div 8 = byte,
             (6 * (j - 1)) % 8 = offset
      PROVE  Sextet(p, j)
                = ((b(byte) * 256 + b(byte + 1)) \div 2^(10 - offset)) % 64
  <2> HIDE DEF b
  <2> QED
    BY <1>2 DEF Sextet, b
<1> HIDE DEF b
<1>3. Sextet(p, 4 * q + 1) = b(3 * q + 1) \div 4
  <2>1. /\ 4 * q + 1 \in Nat /\ 3 * q + 1 \in Nat /\ 0 \in 0 .. 6
        /\ 10 - 0 = 10 /\ 3 * q + 1 + 1 = 3 * q + 2
    OBVIOUS
  <2>2. Sextet(p, 4 * q + 1)
           = ((b(3 * q + 1) * 256 + b(3 * q + 1 + 1)) \div 2^(10 - 0)) % 64
    <3>1. /\ 1 + (6 * (4 * q + 1 - 1)) \div 8 = 3 * q + 1
          /\ (6 * (4 * q + 1 - 1)) % 8 = 0
      BY LetterPlaces, Zenon
    <3> QED
      BY <1>2, <2>1, <3>1
  <2>3. Sextet(p, 4 * q + 1)
           = ((b(3 * q + 1) * 256 + b(3 * q + 2)) \div 1024) % 64
    BY <2>1, <2>2, MorePowers
  <2>4. ((b(3 * q + 1) * 256 + b(3 * q + 2)) \div 1024) % 64
           = b(3 * q + 1) \div 4
    <3>1. Split(b(3 * q + 1), b(3 * q + 2))
      BY <1>1, SplitBytes, Zenon
    <3> QED
      BY <3>1 DEF Split
  <2> QED
    BY <2>3, <2>4
<1>4. Sextet(p, 4 * q + 2) = (b(3 * q + 1) % 4) * 16 + b(3 * q + 2) \div 16
  <2>1. /\ 4 * q + 2 \in Nat /\ 3 * q + 1 \in Nat /\ 6 \in 0 .. 6
        /\ 10 - 6 = 4 /\ 3 * q + 1 + 1 = 3 * q + 2
    OBVIOUS
  <2>2. Sextet(p, 4 * q + 2)
           = ((b(3 * q + 1) * 256 + b(3 * q + 1 + 1)) \div 2^(10 - 6)) % 64
    <3>1. /\ 1 + (6 * (4 * q + 2 - 1)) \div 8 = 3 * q + 1
          /\ (6 * (4 * q + 2 - 1)) % 8 = 6
      BY LetterPlaces, Zenon
    <3> QED
      BY <1>2, <2>1, <3>1
  <2>3. Sextet(p, 4 * q + 2)
           = ((b(3 * q + 1) * 256 + b(3 * q + 2)) \div 16) % 64
    BY <2>1, <2>2, Powers
  <2>4. ((b(3 * q + 1) * 256 + b(3 * q + 2)) \div 16) % 64
           = (b(3 * q + 1) % 4) * 16 + b(3 * q + 2) \div 16
    <3>1. Split(b(3 * q + 1), b(3 * q + 2))
      BY <1>1, SplitBytes, Zenon
    <3> QED
      BY <3>1 DEF Split
  <2> QED
    BY <2>3, <2>4
<1>5. Sextet(p, 4 * q + 3) = (b(3 * q + 2) % 16) * 4 + b(3 * q + 3) \div 64
  <2>1. /\ 4 * q + 3 \in Nat /\ 3 * q + 2 \in Nat /\ 4 \in 0 .. 6
        /\ 10 - 4 = 6 /\ 3 * q + 2 + 1 = 3 * q + 3
    OBVIOUS
  <2>2. Sextet(p, 4 * q + 3)
           = ((b(3 * q + 2) * 256 + b(3 * q + 2 + 1)) \div 2^(10 - 4)) % 64
    <3>1. /\ 1 + (6 * (4 * q + 3 - 1)) \div 8 = 3 * q + 2
          /\ (6 * (4 * q + 3 - 1)) % 8 = 4
      BY LetterPlaces, Zenon
    <3> QED
      BY <1>2, <2>1, <3>1
  <2>3. Sextet(p, 4 * q + 3)
           = ((b(3 * q + 2) * 256 + b(3 * q + 3)) \div 64) % 64
    BY <2>1, <2>2, MorePowers
  <2>4. ((b(3 * q + 2) * 256 + b(3 * q + 3)) \div 64) % 64
           = (b(3 * q + 2) % 16) * 4 + b(3 * q + 3) \div 64
    <3>1. Split(b(3 * q + 2), b(3 * q + 3))
      BY <1>1, SplitBytes, Zenon
    <3> QED
      BY <3>1 DEF Split
  <2> QED
    BY <2>3, <2>4
<1>6. Sextet(p, 4 * q + 4) = b(3 * q + 3) % 64
  <2>1. /\ 4 * q + 4 \in Nat /\ 3 * q + 3 \in Nat /\ 2 \in 0 .. 6
        /\ 10 - 2 = 8 /\ 3 * q + 3 + 1 = 3 * q + 4
    OBVIOUS
  <2>2. Sextet(p, 4 * q + 4)
           = ((b(3 * q + 3) * 256 + b(3 * q + 3 + 1)) \div 2^(10 - 2)) % 64
    <3>1. /\ 1 + (6 * (4 * q + 4 - 1)) \div 8 = 3 * q + 3
          /\ (6 * (4 * q + 4 - 1)) % 8 = 2
      BY LetterPlaces, Zenon
    <3> QED
      BY <1>2, <2>1, <3>1
  <2>3. Sextet(p, 4 * q + 4)
           = ((b(3 * q + 3) * 256 + b(3 * q + 4)) \div 256) % 64
    BY <2>1, <2>2, MorePowers
  <2>4. ((b(3 * q + 3) * 256 + b(3 * q + 4)) \div 256) % 64
           = b(3 * q + 3) % 64
    <3>1. Split(b(3 * q + 3), b(3 * q + 4))
      BY <1>1, SplitBytes, Zenon
    <3> QED
      BY <3>1 DEF Split
  <2> QED
    BY <2>3, <2>4
<1> QED
  BY <1>3, <1>4, <1>5, <1>6 DEF b

\* The last 14 bits are the same.
SameEnds(w, y) == w % 16384 = y % 16384

\* Every width of the accumulator keeps the bits that are still needed.
LEMMA WidthSuffices ==
    ASSUME NEW x \in Nat
    PROVE  SameEnds(x % IntValues, x)
<1>1. PICK e \in Nat : IntValues = 16384 * e
  <2>1. IntValues \in Nat /\ IntValues % 16384 = 0
    BY Base64Assumption
  <2>2. /\ IntValues = 16384 * (IntValues \div 16384)
        /\ IntValues \div 16384 \in Nat
    BY <2>1
  <2> QED
    BY <2>2
<1> DEFINE c == x \div IntValues
           r == x % IntValues
<1>2. x = IntValues * c + r /\ c \in Nat /\ r \in Nat
  BY Base64Assumption
<1> HIDE DEF c, r
<1>3. PICK f \in Nat : f = e * c
  BY <1>2
<1>4. IntValues * c = 16384 * f
  BY <1>1, <1>2, <1>3
<1>5. x = 16384 * f + r
  BY <1>2, <1>4
<1>6. x % 16384 = r % 16384
  BY <1>2, <1>5
<1>7. r % 16384 = x % 16384
  BY <1>6
<1> QED
  BY <1>7 DEF r, SameEnds

\* All that the decoder looks at is the same.
SameLowBits(w, y) ==
    /\ w % 64 = y % 64 /\ w % 16 = y % 16 /\ w % 4 = y % 4
    /\ (w \div 16) % 256 = (y \div 16) % 256
    /\ (w \div 4) % 256 = (y \div 4) % 256
    /\ (w \div 1) % 256 = y % 256

\* What the decoder looks at of the accumulator lies in its last 14 bits.
LEMMA LowBits ==
    ASSUME NEW w \in Nat, NEW y \in Nat, SameEnds(w, y)
    PROVE  SameLowBits(w, y)
<1> USE DEF SameEnds
<1>1. w % 64 = y % 64 /\ w % 16 = y % 16 /\ w % 4 = y % 4
  OBVIOUS
<1>2. (w \div 16) % 256 = (y \div 16) % 256
  OBVIOUS
<1>3. (w \div 4) % 256 = (y \div 4) % 256
  OBVIOUS
<1>4. (w \div 1) % 256 = y % 256
  OBVIOUS
<1> QED
  BY <1>1, <1>2, <1>3, <1>4 DEF SameLowBits

\* The bytes that m digits fill, and the bits beyond them.
BytesOf(m) == (6 * m) \div 8
RestOf(m)  == (6 * m) % 8

\* The accumulator v, after m digits, ends in the first bits of a byte.
FirstBits(m, v) ==
    v % 2^RestOf(m)
        = ByteAt(payload, BytesOf(m) + 1) \div 2^(8 - RestOf(m))

\* Four digits fill three bytes.
LEMMA Phases ==
    ASSUME NEW m \in Nat
    PROVE  \E q \in Nat :
              \/ /\ m = 4 * q /\ BytesOf(m) = 3 * q /\ RestOf(m) = 0
                 /\ BytesOf(m + 1) = 3 * q /\ RestOf(m + 1) = 6
              \/ /\ m = 4 * q + 1 /\ BytesOf(m) = 3 * q /\ RestOf(m) = 6
                 /\ BytesOf(m + 1) = 3 * q + 1 /\ RestOf(m + 1) = 4
              \/ /\ m = 4 * q + 2 /\ BytesOf(m) = 3 * q + 1 /\ RestOf(m) = 4
                 /\ BytesOf(m + 1) = 3 * q + 2 /\ RestOf(m + 1) = 2
              \/ /\ m = 4 * q + 3 /\ BytesOf(m) = 3 * q + 2 /\ RestOf(m) = 2
                 /\ BytesOf(m + 1) = 3 * q + 3 /\ RestOf(m + 1) = 0
<1>1. PICK q \in Nat : m = 4 * q \/ m = 4 * q + 1 \/ m = 4 * q + 2
                       \/ m = 4 * q + 3
  <2>1. /\ m \div 4 \in Nat
        /\ \/ m = 4 * (m \div 4) \/ m = 4 * (m \div 4) + 1
           \/ m = 4 * (m \div 4) + 2 \/ m = 4 * (m \div 4) + 3
    OBVIOUS
  <2> QED
    BY <2>1
<1> USE DEF BytesOf, RestOf
<1>2. CASE m = 4 * q
  <2>1. /\ BytesOf(m) = 3 * q /\ RestOf(m) = 0
        /\ BytesOf(m + 1) = 3 * q /\ RestOf(m + 1) = 6
    BY <1>2
  <2> QED
    BY <1>2, <2>1
<1>3. CASE m = 4 * q + 1
  <2>1. /\ BytesOf(m) = 3 * q /\ RestOf(m) = 6
        /\ BytesOf(m + 1) = 3 * q + 1 /\ RestOf(m + 1) = 4
    BY <1>3
  <2> QED
    BY <1>3, <2>1
<1>4. CASE m = 4 * q + 2
  <2>1. /\ BytesOf(m) = 3 * q + 1 /\ RestOf(m) = 4
        /\ BytesOf(m + 1) = 3 * q + 2 /\ RestOf(m + 1) = 2
    BY <1>4
  <2> QED
    BY <1>4, <2>1
<1>5. CASE m = 4 * q + 3
  <2>1. /\ BytesOf(m) = 3 * q + 2 /\ RestOf(m) = 2
        /\ BytesOf(m + 1) = 3 * q + 3 /\ RestOf(m + 1) = 0
    BY <1>5
  <2> QED
    BY <1>5, <2>1
<1> QED
  BY <1>1, <1>2, <1>3, <1>4, <1>5

\* The bits of a byte x that arrive with one digit and with the next one,
\* which brings the first bits of y.
Meet(v, x, y) ==
    /\ (v * 64 + x \div 4) % 64 = x \div 4
    /\ v % 64 = x \div 4 =>
          ((v * 64 + ((x % 4) * 16 + y \div 16)) \div 16) % 256 = x
    /\ (v * 64 + ((x % 4) * 16 + y \div 16)) % 16 = y \div 16
    /\ v % 16 = x \div 16 =>
          ((v * 64 + ((x % 16) * 4 + y \div 64)) \div 4) % 256 = x
    /\ (v * 64 + ((x % 16) * 4 + y \div 64)) % 4 = y \div 64
    /\ v % 4 = x \div 64 => (v * 64 + (x % 64)) % 256 = x

\* So they do.
LEMMA DigitsMeet ==
    ASSUME NEW v \in Nat, NEW x \in 0 .. 255, NEW y \in 0 .. 255
    PROVE  Meet(v, x, y)
<1>1. x \in Int /\ y \in Int /\ 0 <= x /\ x <= 255 /\ 0 <= y /\ y <= 255
  OBVIOUS
<1>2. (v * 64 + x \div 4) % 64 = x \div 4
  BY <1>1
<1>3. ASSUME v % 64 = x \div 4
      PROVE  ((v * 64 + ((x % 4) * 16 + y \div 16)) \div 16) % 256 = x
  <2>1. PICK a \in Nat : v = 64 * a + (v % 64)
    <3>1. v \div 64 \in Nat /\ v = 64 * (v \div 64) + (v % 64)
      OBVIOUS
    <3> QED
      BY <3>1
  <2>2. PICK up \in Nat, low \in Nat :
           up = x \div 4 /\ low = x % 4 /\ x = 4 * up + low
    BY <1>1
  <2>3. PICK t \in 0 .. 15 : t = y \div 16
    BY <1>1
  <2>4. v * 64 + ((x % 4) * 16 + y \div 16) = 16 * (256 * a + x) + t
    BY <1>3, <2>1, <2>2, <2>3
  <2>5. (16 * (256 * a + x) + t) \div 16 = 256 * a + x
    BY <1>1
  <2>6. (256 * a + x) % 256 = x
    BY <1>1
  <2> QED
    BY <2>4, <2>5, <2>6, Zenon
<1>4. (v * 64 + ((x % 4) * 16 + y \div 16)) % 16 = y \div 16
  BY <1>1
<1>5. ASSUME v % 16 = x \div 16
      PROVE  ((v * 64 + ((x % 16) * 4 + y \div 64)) \div 4) % 256 = x
  <2>1. PICK a \in Nat : v = 16 * a + (v % 16)
    <3>1. v \div 16 \in Nat /\ v = 16 * (v \div 16) + (v % 16)
      OBVIOUS
    <3> QED
      BY <3>1
  <2>2. PICK up \in Nat, low \in Nat :
           up = x \div 16 /\ low = x % 16 /\ x = 16 * up + low
    BY <1>1
  <2>3. PICK t \in 0 .. 3 : t = y \div 64
    BY <1>1
  <2>4. v * 64 + ((x % 16) * 4 + y \div 64) = 4 * (256 * a + x) + t
    BY <1>5, <2>1, <2>2, <2>3
  <2>5. (4 * (256 * a + x) + t) \div 4 = 256 * a + x
    BY <1>1
  <2>6. (256 * a + x) % 256 = x
    BY <1>1
  <2> QED
    BY <2>4, <2>5, <2>6, Zenon
<1>6. (v * 64 + ((x % 16) * 4 + y \div 64)) % 4 = y \div 64
  BY <1>1
<1>7. ASSUME v % 4 = x \div 64
      PROVE  (v * 64 + (x % 64)) % 256 = x
  <2>1. PICK a \in Nat : v = 4 * a + (v % 4)
    <3>1. v \div 4 \in Nat /\ v = 4 * (v \div 4) + (v % 4)
      OBVIOUS
    <3> QED
      BY <3>1
  <2>2. x = 64 * (x \div 64) + (x % 64)
    BY <1>1
  <2>3. v * 64 + (x % 64) = 256 * a + x
    BY <1>1, <1>7, <2>1, <2>2
  <2>4. (256 * a + x) % 256 = x
    BY <1>1
  <2> QED
    BY <2>3, <2>4, Zenon
<1> QED
  BY <1>2, <1>3, <1>4, <1>5, <1>6, <1>7 DEF Meet

\* No bits of the next byte are left over.
LEMMA NoBits ==
    ASSUME NEW w \in Nat, NEW x \in 0 .. 255
    PROVE  w % 1 = x \div 256
<1>1. w % 1 = 0
  OBVIOUS
<1>2. x \div 256 = 0
  OBVIOUS
<1> QED
  BY <1>1, <1>2, Zenon

\* One digit on: either the byte is not complete yet, or it comes out of the
\* accumulator, and what stays is the beginning of the next one.
LEMMA DigitDecodes ==
    ASSUME payload \in Seq(0 .. 255), NEW m \in Nat, NEW v \in Nat,
           FirstBits(m, v), NEW w,
           w = (v * 64 + Sextet(payload, m + 1)) % IntValues
    PROVE  /\ FirstBits(m + 1, w)
           /\ BitsAfter(RestOf(m) - 2) = RestOf(m + 1) - 8
           /\ \/ RestOf(m) - 2 < 0 /\ BytesOf(m + 1) = BytesOf(m)
              \/ /\ RestOf(m) - 2 \in {0, 2, 4}
                 /\ BytesOf(m + 1) = BytesOf(m) + 1
                 /\ (w \div 2^(RestOf(m) - 2)) % 256
                       = ByteAt(payload, BytesOf(m) + 1)
<1> DEFINE d == Sextet(payload, m + 1)
           y == v * 64 + d
<1>1. PICK q \in Nat :
              \/ /\ m = 4 * q /\ BytesOf(m) = 3 * q /\ RestOf(m) = 0
                 /\ BytesOf(m + 1) = 3 * q /\ RestOf(m + 1) = 6
              \/ /\ m = 4 * q + 1 /\ BytesOf(m) = 3 * q /\ RestOf(m) = 6
                 /\ BytesOf(m + 1) = 3 * q + 1 /\ RestOf(m + 1) = 4
              \/ /\ m = 4 * q + 2 /\ BytesOf(m) = 3 * q + 1 /\ RestOf(m) = 4
                 /\ BytesOf(m + 1) = 3 * q + 2 /\ RestOf(m + 1) = 2
              \/ /\ m = 4 * q + 3 /\ BytesOf(m) = 3 * q + 2 /\ RestOf(m) = 2
                 /\ BytesOf(m + 1) = 3 * q + 3 /\ RestOf(m + 1) = 0
  BY Phases
<1>2. PICK x1 \in 0 .. 255, x2 \in 0 .. 255, x3 \in 0 .. 255,
           x4 \in 0 .. 255 :
         /\ x1 = ByteAt(payload, 3 * q + 1) /\ x2 = ByteAt(payload, 3 * q + 2)
         /\ x3 = ByteAt(payload, 3 * q + 3) /\ x4 = ByteAt(payload, 3 * q + 4)
  <2>1. /\ 3 * q + 1 \in Nat \ {0} /\ 3 * q + 2 \in Nat \ {0}
        /\ 3 * q + 3 \in Nat \ {0} /\ 3 * q + 4 \in Nat \ {0}
    OBVIOUS
  <2> QED
    BY <2>1, ByteAtByte
<1>3. /\ Sextet(payload, 4 * q + 1) = x1 \div 4
      /\ Sextet(payload, 4 * q + 2) = (x1 % 4) * 16 + x2 \div 16
      /\ Sextet(payload, 4 * q + 3) = (x2 % 16) * 4 + x3 \div 64
      /\ Sextet(payload, 4 * q + 4) = x3 % 64
  BY <1>2, LettersOfBytes
<1>4. /\ 3 * q + 1 + 1 = 3 * q + 2 /\ 3 * q + 2 + 1 = 3 * q + 3
      /\ 3 * q + 3 + 1 = 3 * q + 4 /\ 4 * q + 1 + 1 = 4 * q + 2
      /\ 4 * q + 2 + 1 = 4 * q + 3 /\ 4 * q + 3 + 1 = 4 * q + 4
  OBVIOUS
<1>5. ASSUME d \in Nat
      PROVE  w \in Nat /\ SameLowBits(w, y)
  <2>1. y \in Nat /\ w = y % IntValues
    BY <1>5
  <2> HIDE DEF y
  <2>2. w \in Nat
    BY <2>1, Base64Assumption
  <2>3. SameEnds(w, y)
    BY <2>1, WidthSuffices, Zenon
  <2> QED
    BY <2>1, <2>2, <2>3, LowBits, Zenon
<1>6. Meet(v, x1, x2) /\ Meet(v, x2, x3) /\ Meet(v, x3, x4)
  BY DigitsMeet
<1>7. CASE /\ m = 4 * q /\ BytesOf(m) = 3 * q /\ RestOf(m) = 0
           /\ BytesOf(m + 1) = 3 * q /\ RestOf(m + 1) = 6
  <2>1. d = x1 \div 4 /\ d \in Nat
    BY <1>3, <1>7
  <2>2. w % 64 = x1 \div 4
    <3>1. (v * 64 + x1 \div 4) % 64 = x1 \div 4
      BY <1>6, Zenon DEF Meet
    <3>2. y = v * 64 + x1 \div 4
      BY <2>1
    <3> HIDE DEF y
    <3> QED
      BY <1>5, <2>1, <3>1, <3>2, Zenon DEF SameLowBits
  <2>3. 2^6 = 64 /\ 2^(8 - 6) = 4
    BY MorePowers, Powers
  <2>4. FirstBits(m + 1, w)
    BY <1>2, <1>7, <2>2, <2>3 DEF FirstBits
  <2> QED
    BY <1>7, <2>4 DEF BitsAfter
<1>8. CASE /\ m = 4 * q + 1 /\ BytesOf(m) = 3 * q /\ RestOf(m) = 6
           /\ BytesOf(m + 1) = 3 * q + 1 /\ RestOf(m + 1) = 4
  <2>1. d = (x1 % 4) * 16 + x2 \div 16 /\ d \in Nat
    BY <1>3, <1>4, <1>8
  <2>2. 2^6 = 64 /\ 2^(8 - 6) = 4 /\ 2^4 = 16 /\ 2^(8 - 4) = 16
        /\ 2^(6 - 2) = 16
    BY MorePowers, Powers
  <2>3. v % 64 = x1 \div 4
    BY <1>2, <1>8, <2>2 DEF FirstBits
  <2>4. (w \div 16) % 256 = x1 /\ w % 16 = x2 \div 16
    <3>1. /\ ((v * 64 + ((x1 % 4) * 16 + x2 \div 16)) \div 16) % 256 = x1
          /\ (v * 64 + ((x1 % 4) * 16 + x2 \div 16)) % 16 = x2 \div 16
      BY <2>3, <1>6 DEF Meet
    <3>2. y = v * 64 + ((x1 % 4) * 16 + x2 \div 16)
      BY <2>1
    <3> HIDE DEF y
    <3>3. (y \div 16) % 256 = x1 /\ y % 16 = x2 \div 16
      BY <3>1, <3>2, Zenon
    <3> QED
      BY <1>5, <2>1, <3>3 DEF SameLowBits
  <2>5. FirstBits(m + 1, w)
    BY <1>2, <1>4, <1>8, <2>2, <2>4 DEF FirstBits
  <2>6. (w \div 2^(RestOf(m) - 2)) % 256 = ByteAt(payload, BytesOf(m) + 1)
    BY <1>2, <1>8, <2>2, <2>4
  <2>7. BitsAfter(RestOf(m) - 2) = RestOf(m + 1) - 8
    BY <1>8 DEF BitsAfter
  <2>8. RestOf(m) - 2 \in {0, 2, 4} /\ BytesOf(m + 1) = BytesOf(m) + 1
    BY <1>8
  <2> QED
    BY <2>5, <2>6, <2>7, <2>8, Zenon
<1>9. CASE /\ m = 4 * q + 2 /\ BytesOf(m) = 3 * q + 1 /\ RestOf(m) = 4
           /\ BytesOf(m + 1) = 3 * q + 2 /\ RestOf(m + 1) = 2
  <2>1. d = (x2 % 16) * 4 + x3 \div 64 /\ d \in Nat
    BY <1>3, <1>4, <1>9
  <2>2. 2^4 = 16 /\ 2^(8 - 4) = 16 /\ 2^2 = 4 /\ 2^(8 - 2) = 64
        /\ 2^(4 - 2) = 4
    BY MorePowers, Powers
  <2>3. v % 16 = x2 \div 16
    BY <1>2, <1>4, <1>9, <2>2 DEF FirstBits
  <2>4. (w \div 4) % 256 = x2 /\ w % 4 = x3 \div 64
    <3>1. /\ ((v * 64 + ((x2 % 16) * 4 + x3 \div 64)) \div 4) % 256 = x2
          /\ (v * 64 + ((x2 % 16) * 4 + x3 \div 64)) % 4 = x3 \div 64
      BY <2>3, <1>6 DEF Meet
    <3>2. y = v * 64 + ((x2 % 16) * 4 + x3 \div 64)
      BY <2>1
    <3> HIDE DEF y
    <3>3. (y \div 4) % 256 = x2 /\ y % 4 = x3 \div 64
      BY <3>1, <3>2, Zenon
    <3> QED
      BY <1>5, <2>1, <3>3 DEF SameLowBits
  <2>5. FirstBits(m + 1, w)
    BY <1>2, <1>4, <1>9, <2>2, <2>4 DEF FirstBits
  <2>6. (w \div 2^(RestOf(m) - 2)) % 256 = ByteAt(payload, BytesOf(m) + 1)
    BY <1>2, <1>4, <1>9, <2>2, <2>4
  <2>7. BitsAfter(RestOf(m) - 2) = RestOf(m + 1) - 8
    BY <1>9 DEF BitsAfter
  <2>8. RestOf(m) - 2 \in {0, 2, 4} /\ BytesOf(m + 1) = BytesOf(m) + 1
    BY <1>9
  <2> QED
    BY <2>5, <2>6, <2>7, <2>8, Zenon
<1>10. CASE /\ m = 4 * q + 3 /\ BytesOf(m) = 3 * q + 2 /\ RestOf(m) = 2
           /\ BytesOf(m + 1) = 3 * q + 3 /\ RestOf(m + 1) = 0
  <2>1. d = x3 % 64 /\ d \in Nat
    BY <1>3, <1>4, <1>10
  <2>2. 2^2 = 4 /\ 2^(8 - 2) = 64 /\ 2^0 = 1 /\ 2^(8 - 0) = 256
        /\ 2^(2 - 2) = 1
    BY MorePowers, Powers
  <2>3. v % 4 = x3 \div 64
    BY <1>2, <1>4, <1>10, <2>2 DEF FirstBits
  <2>4. (w \div 1) % 256 = x3 /\ w \in Nat
    <3>1. (v * 64 + (x3 % 64)) % 256 = x3
      BY <2>3, <1>6, Zenon DEF Meet
    <3>2. y = v * 64 + (x3 % 64)
      BY <2>1
    <3> HIDE DEF y
    <3> QED
      BY <1>5, <2>1, <3>1, <3>2, Zenon DEF SameLowBits
  <2>5. FirstBits(m + 1, w)
    <3>1. w % 1 = x4 \div 256
      BY <2>4, NoBits, Zenon
    <3>2. ByteAt(payload, BytesOf(m + 1) + 1) = x4
      BY <1>2, <1>4, <1>10, Zenon
    <3>3. 2^RestOf(m + 1) = 1 /\ 2^(8 - RestOf(m + 1)) = 256
      <4>1. RestOf(m + 1) = 0
        BY <1>10, Zenon
      <4>2. 2^0 = 1
        BY <2>2, Zenon
      <4>3. 2^(8 - 0) = 256
        BY <2>2, Zenon
      <4>4. 2^RestOf(m + 1) = 1
        BY <4>1, <4>2, Zenon
      <4>5. 2^(8 - RestOf(m + 1)) = 256
        BY <4>1, <4>3, Zenon
      <4> QED
        BY <4>4, <4>5, Zenon
    <3>4. w % 2^RestOf(m + 1) = w % 1
      BY <3>3, Zenon
    <3>5. ByteAt(payload, BytesOf(m + 1) + 1) \div 2^(8 - RestOf(m + 1))
             = x4 \div 256
      BY <3>2, <3>3, Zenon
    <3> QED
      BY <3>1, <3>4, <3>5, Zenon DEF FirstBits
  <2>6. (w \div 2^(RestOf(m) - 2)) % 256 = ByteAt(payload, BytesOf(m) + 1)
    BY <1>2, <1>4, <1>10, <2>2, <2>4
  <2>7. BitsAfter(RestOf(m) - 2) = RestOf(m + 1) - 8
    BY <1>10 DEF BitsAfter
  <2>8. RestOf(m) - 2 \in {0, 2, 4} /\ BytesOf(m + 1) = BytesOf(m) + 1
    BY <1>10
  <2> QED
    BY <2>5, <2>6, <2>7, <2>8, Zenon
<1> QED
  BY <1>1, <1>7, <1>8, <1>9, <1>10
-----------------------------------------------------------------------------
(* What the text says.                                                     *)

\* How many digits the text has, and how many bytes they fill: those of the
\* payload, and one more for every '='.
LEMMA DigitCounts ==
    ASSUME payload \in Payloads, ending \in Endings
    PROVE  /\ Len(payload) \in Nat /\ PadCount(payload) \in Nat
           /\ Len(Sextets(payload)) = (8 * Len(payload) + 5) \div 6
           /\ Len(Sextets(payload)) \in Nat /\ Digits \in Nat
           /\ BytesOf(Len(Sextets(payload))) = Len(payload)
           /\ BytesOf(Len(Sextets(payload)) + PadCount(payload))
                 = Len(payload) + PadCount(payload)
           /\ Len(Text) = Len(Sextets(payload))
                             + Len(Tail64(payload, ending))
           /\ ending = "bare" => Len(Tail64(payload, ending)) = 0
           /\ ending = "padded" =>
                 Len(Tail64(payload, ending)) = PadCount(payload)
           /\ ending = "junk" => Len(Tail64(payload, ending)) = 5
           /\ Len(Tail64(payload, ending)) \in Nat
<1> DEFINE n == Len(payload)
           t == (8 * n + 5) \div 6
<1>1. n \in Nat
  BY Base64Assumption
<1>2. t \in Nat /\ Len(Sextets(payload)) = t
  <2>1. t \in Nat
    BY <1>1
  <2>2. Sextets(payload) = [j \in 1 .. t |-> Sextet(payload, j)]
    BY DEF Sextets
  <2> HIDE DEF t
  <2> QED
    BY <2>1, <2>2
<1>3. PadCount(payload) \in Nat
  BY <1>1 DEF PadCount
<1>4. (6 * t) \div 8 = n
  <2> HIDE DEF n
  <2> QED
    BY <1>1
<1>5. (6 * (t + PadCount(payload))) \div 8 = n + PadCount(payload)
  <2>1. PadCount(payload) = (3 - (n % 3)) % 3
    BY DEF PadCount
  <2> HIDE DEF n
  <2>2. CASE n % 3 = 0
    BY <1>1, <2>1, <2>2
  <2>3. CASE n % 3 = 1
    BY <1>1, <2>1, <2>3
  <2>4. CASE n % 3 = 2
    BY <1>1, <2>1, <2>4
  <2> QED
    BY <1>1, <2>2, <2>3, <2>4
<1>6. /\ ending = "bare" => Tail64(payload, ending) = <<>>
      /\ ending = "padded" =>
            Tail64(payload, ending) = [k \in 1 .. PadCount(payload) |-> Pad]
      /\ ending = "junk" => Tail64(payload, ending) = <<Other, 1, 2, 3, 4>>
  BY DEF Tail64
<1>7. /\ ending = "bare" => Len(Tail64(payload, ending)) = 0
      /\ ending = "padded" =>
            Len(Tail64(payload, ending)) = PadCount(payload)
      /\ ending = "junk" => Len(Tail64(payload, ending)) = 5
  BY <1>3, <1>6
<1>8. Len(Tail64(payload, ending)) \in Nat
  BY <1>3, <1>7, Base64Assumption
<1>9. Len(Text) = Len(Sextets(payload)) + Len(Tail64(payload, ending))
  BY LettersType, TailType DEF Text
<1>10. Digits \in Nat
  BY <1>2, <1>3 DEF Digits
<1> QED
  BY <1>1, <1>2, <1>3, <1>4, <1>5, <1>7, <1>8, <1>9, <1>10 DEF BytesOf

\* Past its end a payload is all zeros, and so are the letters that begin
\* there.
LEMMA ZerosFollow ==
    ASSUME payload \in Payloads, ending \in Endings,
           NEW j \in Nat, Len(Sextets(payload)) < j,
           j <= Len(Sextets(payload)) + PadCount(payload)
    PROVE  Sextet(payload, j) = 0
<1> DEFINE n == Len(payload)
           t == Len(Sextets(payload))
           b(i) == ByteAt(payload, i)
<1>1. /\ n \in Nat /\ t = (8 * n + 5) \div 6 /\ t < j
      /\ j <= t + PadCount(payload) /\ PadCount(payload) = (3 - (n % 3)) % 3
  BY DigitCounts DEF PadCount
<1>2. \A i \in Nat : i > n => b(i) = 0
  BY DEF ByteAt
<1> HIDE DEF n, t, b
<1>3. PICK q \in Nat : \/ n = 3 * q /\ n % 3 = 0
                       \/ n = 3 * q + 1 /\ n % 3 = 1
                       \/ n = 3 * q + 2 /\ n % 3 = 2
  <2>1. /\ n \div 3 \in Nat
        /\ \/ n = 3 * (n \div 3) /\ n % 3 = 0
           \/ n = 3 * (n \div 3) + 1 /\ n % 3 = 1
           \/ n = 3 * (n \div 3) + 2 /\ n % 3 = 2
    BY <1>1
  <2> QED
    BY <2>1
<1>4. /\ Sextet(payload, 4 * q + 3)
            = (b(3 * q + 2) % 16) * 4 + b(3 * q + 3) \div 64
      /\ Sextet(payload, 4 * q + 4) = b(3 * q + 3) % 64
  <2>1. payload \in Seq(0 .. 255)
    BY Base64Assumption
  <2> QED
    BY <2>1, LettersOfBytes DEF b
<1>5. CASE n = 3 * q /\ n % 3 = 0
  BY <1>1, <1>5
<1>6. CASE n = 3 * q + 1 /\ n % 3 = 1
  <2>1. j = 4 * q + 3 \/ j = 4 * q + 4
    <3>1. t = 4 * q + 2 /\ PadCount(payload) = 2
      BY <1>1, <1>6
    <3> QED
      BY <1>1, <3>1
  <2>2. b(3 * q + 2) = 0 /\ b(3 * q + 3) = 0
    BY <1>2, <1>6
  <2> QED
    BY <1>4, <2>1, <2>2
<1>7. CASE n = 3 * q + 2 /\ n % 3 = 2
  <2>1. j = 4 * q + 4
    <3>1. t = 4 * q + 3 /\ PadCount(payload) = 1
      BY <1>1, <1>7
    <3> QED
      BY <1>1, <3>1
  <2>2. b(3 * q + 3) = 0
    BY <1>2, <1>7
  <2> QED
    BY <1>4, <2>1, <2>2
<1> QED
  BY <1>3, <1>5, <1>6, <1>7

\* The digits of the text, '=' among them, are the letters of the payload with
\* zeros after it; behind them the text is over, or something foreign stands.
LEMMA TextReads ==
    ASSUME payload \in Payloads, ending \in Endings
    PROVE  /\ \A j \in 1 .. Digits : /\ Text[j] \in 0 .. Pad
                                     /\ Table(Text[j]) = Sextet(payload, j)
           /\ Digits <= Len(Text)
           /\ Len(Text) > Digits => Text[Digits + 1] = Other
<1> DEFINE t == Len(Sextets(payload))
           letters == Sextets(payload)
           tail == Tail64(payload, ending)
<1>1. /\ t \in Nat /\ PadCount(payload) \in Nat /\ Len(tail) \in Nat
      /\ Len(Text) = t + Len(tail)
      /\ ending = "bare" => Len(tail) = 0
      /\ ending = "padded" => Len(tail) = PadCount(payload)
      /\ ending = "junk" => Len(tail) = 5
      /\ Digits = t + (IF ending = "padded" THEN PadCount(payload) ELSE 0)
      /\ ending \in {"bare", "padded", "junk"}
  BY DigitCounts, Base64Assumption DEF Digits
<1>2. \A j \in 1 .. t : letters[j] = Sextet(payload, j)
  <2>1. (8 * Len(payload) + 5) \div 6 = t
    BY DigitCounts
  <2> HIDE DEF t
  <2>2. letters = [j \in 1 .. t |-> Sextet(payload, j)]
    BY <2>1 DEF Sextets
  <2> HIDE DEF letters
  <2> QED
    BY <2>2
<1>3. /\ ending = "padded" => tail = [k \in 1 .. PadCount(payload) |-> Pad]
      /\ ending = "junk" => tail = <<Other, 1, 2, 3, 4>>
  BY DEF Tail64
<1>4. letters \in Seq(Chars) /\ tail \in Seq(Chars)
  BY LettersType, TailType
<1>5. \A j \in 1 .. t + Len(tail) :
         Text[j] = IF j <= t THEN letters[j] ELSE tail[j - t]
  BY <1>4 DEF Text
<1> HIDE DEF t, letters, tail
<1>6. ASSUME NEW j \in 1 .. Digits
      PROVE  Text[j] \in 0 .. Pad /\ Table(Text[j]) = Sextet(payload, j)
  <2>1. CASE j <= t
    <3>1. Text[j] = Sextet(payload, j)
      BY <1>1, <1>2, <1>5, <2>1
    <3>2. Sextet(payload, j) \in 0 .. 63
      BY SextetType
    <3> QED
      BY <3>1, <3>2 DEF Table, Pad
  <2>2. CASE j > t
    <3>1. ending = "padded" /\ j <= t + PadCount(payload)
      BY <1>1, <2>2
    <3>2. Text[j] = tail[j - t] /\ j - t \in 1 .. PadCount(payload)
      BY <1>1, <1>5, <2>2, <3>1
    <3>3. Text[j] = Pad
      BY <1>3, <3>1, <3>2
    <3>4. Sextet(payload, j) = 0
      BY <1>1, <2>2, <3>1, ZerosFollow DEF t
    <3> QED
      BY <3>3, <3>4 DEF Table, Pad
  <2> QED
    BY <1>1, <2>1, <2>2
<1>7. Digits <= Len(Text)
  BY <1>1
<1>8. ASSUME Len(Text) > Digits
      PROVE  Text[Digits + 1] = Other
  <2>1. ending = "junk" /\ Digits = t
    BY <1>1, <1>8
  <2>2. PICK j \in 1 .. t + Len(tail) : j = t + 1
    BY <1>1, <2>1
  <2>3. ~(j <= t) /\ j - t = 1
    BY <1>1, <2>2
  <2>4. Text[j] = tail[1]
    BY <1>5, <2>3
  <2> QED
    BY <1>3, <2>1, <2>2, <2>4
<1> QED
  BY <1>6, <1>7, <1>8
-----------------------------------------------------------------------------
(* Where the decoder is in the text.                                       *)

\* One blank at most stands in the text.
LEMMA BlankSomewhere ==
    ASSUME Init
    PROVE  \E k \in 1 .. Len(Text) + 2 : BlankAt(k) /\ Passed(k) = 0
<1>1. /\ payload \in Payloads /\ ending \in Endings /\ input \in Blanks(Text)
      /\ pos = 1
  BY DEF Init, Text
<1>2. Text \in Seq(Chars) /\ Len(Text) \in Nat
  BY <1>1, TextType DEF Text
<1> HIDE DEF Text
<1>3. CASE input = Text
  <2>1. PICK k \in 1 .. Len(Text) + 2 : k = Len(Text) + 2
    BY <1>2
  <2>2. BlankAt(k)
    BY <1>2, <1>3, <2>1 DEF BlankAt
  <2>3. Passed(k) = 0
    BY <1>1, <2>1, <1>2 DEF Passed
  <2> QED
    BY <2>2, <2>3
<1>4. ASSUME NEW k \in 1 .. Len(Text) + 1, input = InsertAt(Text, k, Space)
      PROVE  BlankAt(k) /\ Passed(k) = 0
  <2> DEFINE front == SubSeq(Text, 1, k - 1)
             back  == SubSeq(Text, k, Len(Text))
  <2>1. input = front \o <<Space>> \o back
    BY <1>4 DEF InsertAt
  <2>2. /\ front \in Seq(Chars) /\ Len(front) = k - 1
        /\ \A i \in 1 .. k - 1 : front[i] = Text[i]
    BY <1>2, <1>4
  <2>3. /\ back \in Seq(Chars) /\ Len(back) = Len(Text) - k + 1
        /\ \A i \in 1 .. Len(Text) - k + 1 : back[i] = Text[i + k - 1]
    BY <1>2, <1>4
  <2>4. <<Space>> \in Seq(Chars)
    BY DEF Space, Chars, Other
  <2> HIDE DEF front, back
  <2>5. Len(input) = Len(Text) + 1
    <3>1. /\ front \o <<Space>> \in Seq(Chars)
          /\ Len(front \o <<Space>>) = k
      BY <1>2, <1>4, <2>2, <2>4
    <3>2. Len(input) = Len(front \o <<Space>>) + Len(back)
      BY <2>1, <2>3, <3>1, ConcatProperties
    <3>3. Len(input) = k + (Len(Text) - k + 1)
      BY <2>3, <3>1, <3>2, Zenon
    <3>4. k + (Len(Text) - k + 1) = Len(Text) + 1
      BY <1>2, <1>4
    <3> QED
      BY <3>3, <3>4, Zenon
  <2>6. ASSUME NEW i \in 1 .. Len(input)
        PROVE  input[i] = IF i < k THEN Text[i]
                          ELSE IF i = k THEN Space ELSE Text[i - 1]
    <3>1. CASE i < k
      BY <1>2, <1>4, <2>1, <2>2, <2>3, <2>4, <2>5, <3>1
    <3>2. CASE i = k
      BY <1>2, <1>4, <2>1, <2>2, <2>3, <2>4, <2>5, <3>2
    <3>3. CASE i > k
      <4>1. input[i] = back[i - k] /\ i - k \in 1 .. Len(Text) - k + 1
        BY <1>2, <1>4, <2>1, <2>2, <2>3, <2>4, <2>5, <3>3
      <4>2. back[i - k] = Text[(i - k) + k - 1] /\ (i - k) + k - 1 = i - 1
        BY <2>3, <4>1, <1>4
      <4> QED
        BY <3>3, <4>1, <4>2, <1>4
    <3> QED
      BY <1>4, <3>1, <3>2, <3>3
  <2> QED
    BY <1>1, <1>4, <2>5, <2>6 DEF BlankAt, Passed
<1> QED
  BY <1>1, <1>3, <1>4 DEF Blanks

\* The next character is the blank, the next one of the text, or its end.
LEMMA NextCharacter ==
    ASSUME TypeOK, payload \in Payloads, ending \in Endings,
           result = "run",
           NEW k \in 1 .. Len(Text) + 2, BlankAt(k), Passed(k) <= Digits
    PROVE  /\ Passed(k) \in Nat
           /\ pos <= Len(input) /\ input[pos] = Space => pos = k
           /\ pos <= Len(input) /\ input[pos] # Space =>
                 /\ pos # k
                 /\ Passed(k) + 1 <= Len(Text)
                 /\ input[pos] = Text[Passed(k) + 1]
           /\ pos > Len(input) => Passed(k) = Len(Text)
<1>1. /\ Len(Text) \in Nat /\ Digits \in Nat /\ Digits <= Len(Text)
      /\ k \in Nat
  BY TextType, DigitCounts, TextReads DEF Text
<1>2. /\ Len(input) \in Nat /\ pos \in 1 .. Len(input) + 1
      /\ Len(input) = Len(Text) + (IF k <= Len(Text) + 1 THEN 1 ELSE 0)
      /\ \A i \in 1 .. Len(input) :
            input[i] = IF i < k THEN Text[i]
                       ELSE IF i = k THEN Space ELSE Text[i - 1]
  BY DEF TypeOK, BlankAt
<1>3. Passed(k) = IF k < pos THEN pos - 2 ELSE pos - 1
  BY DEF Passed
<1> DEFINE m == Passed(k)
<1> HIDE DEF m
<1>4. m \in Nat
  BY <1>1, <1>2, <1>3 DEF m
<1>5. pos > Len(input) => m = Len(Text)
  BY <1>1, <1>2, <1>3 DEF m
<1>6. ASSUME pos <= Len(input), pos # k
      PROVE  /\ m + 1 <= Len(Text) /\ input[pos] = Text[m + 1]
             /\ input[pos] # Space
  <2>1. m + 1 = (IF pos < k THEN pos ELSE pos - 1) /\ m + 1 <= Len(Text)
    BY <1>1, <1>2, <1>3, <1>6 DEF m
  <2>2. input[pos] = Text[m + 1]
    BY <1>1, <1>2, <1>6, <2>1
  <2>3. CASE m + 1 <= Digits
    <3>1. m + 1 \in 1 .. Digits
      BY <1>1, <1>4, <2>3
    <3>2. Text[m + 1] \in 0 .. Pad
      BY <3>1, TextReads
    <3>3. PICK ch \in 0 .. Pad : ch = Text[m + 1]
      BY <3>2
    <3>4. ch # Space
      BY DEF Pad, Space
    <3> QED
      BY <2>1, <2>2, <3>3, <3>4, Zenon
  <2>4. CASE m + 1 > Digits
    <3>1. m = Digits /\ Len(Text) > Digits
      BY <1>1, <1>4, <2>1, <2>4 DEF m
    <3>2. Text[Digits + 1] = Other
      BY <3>1, TextReads
    <3> QED
      BY <2>1, <2>2, <3>1, <3>2 DEF Other, Space
  <2> QED
    BY <1>1, <1>4, <2>3, <2>4
<1>7. ASSUME pos <= Len(input), pos = k
      PROVE  input[pos] = Space
  BY <1>1, <1>2, <1>7
<1> QED
  BY <1>4, <1>5, <1>6, <1>7 DEF m
-----------------------------------------------------------------------------
(* The decoder's invariant.                                                *)

\* Decoded in the terms of the lemmas.
LEMMA DecodedParts ==
    ASSUME NEW m
    PROVE  Decoded(m) <=>
              /\ output = [i \in 1 .. BytesOf(m) |-> ByteAt(payload, i)]
              /\ bits = RestOf(m) - 8
              /\ FirstBits(m, val)
BY DEF Decoded, BytesOf, RestOf, FirstBits

\* decode_base64 begins with nothing read and nothing decoded.
LEMMA InitDecodes == Init => SafeDecoder
<1> SUFFICES ASSUME Init PROVE SafeDecoder
  OBVIOUS
<1>1. payload \in Payloads /\ ending \in Endings /\ result = "run" /\ val = 0
      /\ bits = -8 /\ output = <<>>
  BY DEF Init
<1>2. PICK k \in 1 .. Len(Text) + 2 : BlankAt(k) /\ Passed(k) = 0
  BY BlankSomewhere
<1>3. Decoded(0)
  <2>1. BytesOf(0) = 0 /\ RestOf(0) = 0
    BY DEF BytesOf, RestOf
  <2>2. output = [i \in 1 .. 0 |-> ByteAt(payload, i)]
    BY <1>1
  <2>3. FirstBits(0, 0)
    <3>1. 2^0 = 1 /\ 2^(8 - 0) = 256
      BY Powers, MorePowers
    <3>2. PICK x \in 0 .. 255 : x = ByteAt(payload, 1)
      <4>1. payload \in Seq(0 .. 255) /\ 1 \in Nat \ {0}
        BY <1>1, Base64Assumption
      <4> QED
        BY <4>1, ByteAtByte
    <3>3. 0 % 1 = 0 /\ x \div 256 = 0 /\ 0 + 1 = 1
      OBVIOUS
    <3> QED
      BY <2>1, <3>1, <3>2, <3>3, Zenon DEF FirstBits
  <2> QED
    BY <1>1, <2>1, <2>2, <2>3, DecodedParts
<1>4. 0 <= Digits
  BY <1>1, DigitCounts
<1>5. ReadUpTo(k)
  BY <1>1, <1>2, <1>3, <1>4 DEF ReadUpTo
<1> QED
  BY <1>1, <1>2, <1>5, InitType DEF SafeDecoder

\* A blank is passed over.
LEMMA SkipSpaceDecodes ==
    ASSUME TypeOK, payload \in Payloads, ending \in Endings,
           NEW k \in 1 .. Len(Text) + 2, ReadUpTo(k), SkipSpace
    PROVE  ReadUpTo(k)'
<1>1. /\ pos' = pos + 1 /\ pos <= Len(input) /\ input[pos] = Space
      /\ result = "run"
      /\ UNCHANGED <<payload, ending, input, val, bits, output, result>>
  BY DEF SkipSpace, AtChar
<1>2. BlankAt(k) /\ Passed(k) <= Digits /\ Decoded(Passed(k))
  BY <1>1 DEF ReadUpTo
<1>3. pos = k
  BY <1>1, <1>2, NextCharacter
<1>4. Passed(k)' = Passed(k)
  BY <1>1, <1>3 DEF Passed
<1>5. Text' = Text /\ Digits' = Digits
  BY <1>1 DEF Text, Digits
<1>6. BlankAt(k)'
  BY <1>1, <1>2, <1>5 DEF BlankAt
<1>7. Decoded(Passed(k))'
  BY <1>1, <1>2, <1>4 DEF Decoded
<1> QED
  BY <1>1, <1>2, <1>4, <1>5, <1>6, <1>7 DEF ReadUpTo

\* The call ends well where the digits do.
LEMMA FinishDecodes ==
    ASSUME TypeOK, payload \in Payloads, ending \in Endings,
           NEW k \in 1 .. Len(Text) + 2, ReadUpTo(k), Finish
    PROVE  ReadUpTo(k)'
<1>1. /\ result = "run" /\ result' = "true"
      /\ UNCHANGED <<payload, ending, input, pos, val, bits, output>>
      /\ \/ pos > Len(input)
         \/ /\ pos <= Len(input) /\ input[pos] # Space
            /\ Table(input[pos]) = -1
  BY DEF Finish, AtChar
<1>2. BlankAt(k) /\ Passed(k) <= Digits /\ Decoded(Passed(k))
  BY <1>1 DEF ReadUpTo
<1> DEFINE m == Passed(k)
<1>3. m \in Nat /\ Digits \in Nat
  BY <1>1, <1>2, NextCharacter, DigitCounts
<1>4. m = Digits
  <2>1. CASE pos > Len(input)
    <3>1. m = Len(Text)
      BY <1>1, <1>2, <2>1, NextCharacter
    <3>2. Len(Text) \in Nat /\ Digits <= Len(Text)
      BY TextReads, TextType DEF Text
    <3> HIDE DEF m
    <3>3. m <= Digits
      BY <1>2 DEF m
    <3> QED
      BY <1>3, <3>1, <3>2, <3>3
  <2>2. CASE pos <= Len(input) /\ input[pos] # Space /\ Table(input[pos]) = -1
    <3>1. input[pos] = Text[m + 1]
      BY <1>1, <1>2, <2>2, NextCharacter
    <3>2. ASSUME NEW j \in 1 .. Digits, j = m + 1
          PROVE  FALSE
      <4>1. Table(Text[j]) = Sextet(payload, j)
        BY <3>2, TextReads
      <4>2. Sextet(payload, j) \in 0 .. 63
        <5>1. j \in Nat \ {0}
          BY <1>3
        <5> QED
          BY <5>1, SextetType
      <4>3. \A d \in 0 .. 63 : d # -1
        OBVIOUS
      <4> QED
        BY <2>2, <3>1, <3>2, <4>1, <4>2, <4>3, Zenon
    <3>3. m <= Digits
      BY <1>2
    <3> HIDE DEF m
    <3> QED
      BY <1>3, <3>2, <3>3
  <2> QED
    BY <1>1, <2>1, <2>2
<1>5. Text' = Text /\ Digits' = Digits /\ Passed(k)' = Passed(k)
  BY <1>1 DEF Text, Digits, Passed
<1>6. BlankAt(k)'
  BY <1>1, <1>2, <1>5 DEF BlankAt
<1>7. Decoded(Passed(k))'
  BY <1>1, <1>2, <1>5 DEF Decoded
<1> QED
  BY <1>1, <1>2, <1>4, <1>5, <1>6, <1>7 DEF ReadUpTo

\* A digit is decoded, or there is no room for the byte it completes.
LEMMA AccumulateDecodes ==
    ASSUME TypeOK, payload \in Payloads, ending \in Endings,
           NEW k \in 1 .. Len(Text) + 2, ReadUpTo(k), Accumulate
    PROVE  ReadUpTo(k)'
<1> DEFINE m == Passed(k)
           fill == bits + 6
<1>1. /\ result = "run" /\ pos <= Len(input) /\ input[pos] # Space
      /\ Table(input[pos]) # -1
      /\ val' = Shifted(Table(input[pos]))
      /\ UNCHANGED <<payload, ending, input>>
  BY DEF Accumulate, AtChar
<1>2. BlankAt(k) /\ m <= Digits /\ Decoded(m)
  BY <1>1 DEF ReadUpTo
<1>3. /\ m \in Nat /\ Digits \in Nat /\ pos # k /\ input[pos] = Text[m + 1]
      /\ m + 1 <= Len(Text) /\ payload \in Seq(0 .. 255)
      /\ pos \in Nat /\ k \in Nat
  <2>1. pos \in Nat /\ k \in Nat
    <3>1. Len(Text) \in Nat
      BY TextType DEF Text
    <3> QED
      BY <3>1 DEF TypeOK
  <2>2. payload \in Seq(0 .. 255) /\ Digits \in Nat
    BY DigitCounts, Base64Assumption
  <2> QED
    BY <1>1, <1>2, <2>1, <2>2, NextCharacter
<1>4. m + 1 <= Digits
  <2> HIDE DEF m
  <2>1. SUFFICES ASSUME m = Digits PROVE FALSE
    BY <1>2, <1>3
  <2>2. Len(Text) > Digits
    <3>1. Len(Text) \in Nat
      BY TextType DEF Text
    <3> QED
      BY <1>3, <2>1, <3>1
  <2>3. input[pos] = Other
    BY <1>3, <2>1, <2>2, TextReads
  <2> QED
    BY <1>1, <2>3 DEF Table, Other, Pad
<1>5. Table(input[pos]) = Sextet(payload, m + 1)
  <2> HIDE DEF m
  <2>1. m + 1 \in 1 .. Digits
    BY <1>3, <1>4
  <2> QED
    BY <1>3, <2>1, TextReads
<1>6. /\ output = [i \in 1 .. BytesOf(m) |-> ByteAt(payload, i)]
      /\ bits = RestOf(m) - 8
      /\ FirstBits(m, val)
  BY <1>2, DecodedParts
<1> HIDE DEF m
<1>7. BytesOf(m) \in Nat /\ RestOf(m) \in Nat /\ fill = RestOf(m) - 2
  BY <1>3, <1>6 DEF BytesOf, RestOf
<1>8. /\ FirstBits(m + 1, val')
      /\ BitsAfter(fill) = RestOf(m + 1) - 8
      /\ \/ fill < 0 /\ BytesOf(m + 1) = BytesOf(m)
         \/ /\ fill \in {0, 2, 4}
            /\ BytesOf(m + 1) = BytesOf(m) + 1
            /\ (val' \div 2^fill) % 256 = ByteAt(payload, BytesOf(m) + 1)
  <2>1. val \in Nat
    BY Base64Assumption DEF TypeOK
  <2>2. val' = (val * 64 + Sextet(payload, m + 1)) % IntValues
    BY <1>1, <1>5 DEF Shifted
  <2>3. PICK w : w = val'
    OBVIOUS
  <2>4. /\ FirstBits(m + 1, w)
        /\ BitsAfter(RestOf(m) - 2) = RestOf(m + 1) - 8
        /\ \/ RestOf(m) - 2 < 0 /\ BytesOf(m + 1) = BytesOf(m)
           \/ /\ RestOf(m) - 2 \in {0, 2, 4}
              /\ BytesOf(m + 1) = BytesOf(m) + 1
              /\ (w \div 2^(RestOf(m) - 2)) % 256
                    = ByteAt(payload, BytesOf(m) + 1)
    BY <1>3, <1>6, <2>1, <2>2, <2>3, DigitDecodes
  <2> QED
    BY <1>7, <2>3, <2>4
<1>9. Text' = Text /\ Digits' = Digits /\ BlankAt(k)'
  BY <1>1, <1>2 DEF Text, Digits, BlankAt
<1> HIDE DEF fill
<1>10. ASSUME pos' = pos + 1, result' = result,
              output' = [i \in 1 .. BytesOf(m + 1) |-> ByteAt(payload, i)],
              bits' = BitsAfter(fill)
       PROVE  ReadUpTo(k)'
  <2>1. Passed(k)' = m + 1
    BY <1>3, <1>10 DEF Passed, m
  <2>2. Decoded(Passed(k))'
    <3>1. PICK n : n = m + 1
      OBVIOUS
    <3>2. FirstBits(n, val)'
      BY <1>1, <1>8, <3>1 DEF FirstBits, ByteAt, BytesOf, RestOf
    <3>3. output' = [i \in 1 .. BytesOf(n) |-> ByteAt(payload', i)]
      BY <1>1, <1>10, <3>1
    <3>4. bits' = RestOf(n) - 8
      BY <1>8, <1>10, <3>1
    <3>5. Decoded(n)'
      BY <3>2, <3>3, <3>4 DEF Decoded, FirstBits, BytesOf, RestOf, ByteAt
    <3> QED
      BY <2>1, <3>1, <3>5 DEF Decoded
  <2> QED
    BY <1>1, <1>4, <1>9, <1>10, <2>1, <2>2 DEF ReadUpTo
<1>11. CASE fill < 0
  <2>1. /\ bits' = BitsAfter(fill) /\ pos' = pos + 1
        /\ UNCHANGED <<output, result>>
    BY <1>7, <1>11 DEF Accumulate, fill
  <2> QED
    BY <1>6, <1>7, <1>8, <1>10, <1>11, <2>1
<1>12. CASE fill >= 0 /\ HasRoom
  <2>1. /\ output' = Append(output, (val' \div 2^fill) % 256)
        /\ bits' = BitsAfter(fill) /\ pos' = pos + 1 /\ UNCHANGED result
    BY <1>7, <1>12 DEF Accumulate, fill
  <2>2. /\ BytesOf(m + 1) = BytesOf(m) + 1
        /\ (val' \div 2^fill) % 256 = ByteAt(payload, BytesOf(m) + 1)
    BY <1>7, <1>8, <1>12
  <2>3. output' = [i \in 1 .. BytesOf(m) + 1 |-> ByteAt(payload, i)]
    BY <1>6, <1>7, <2>1, <2>2
  <2> QED
    BY <1>10, <2>1, <2>2, <2>3
<1>13. CASE fill >= 0 /\ ~HasRoom
  <2>1. result' = "false" /\ UNCHANGED <<pos, output>>
    BY <1>7, <1>13 DEF Accumulate, fill
  <2>2. Passed(k)' = m
    BY <2>1 DEF Passed, m
  <2>3. BytesOf(m + 1) > PayloadMax
    <3>1. Len(output) = BytesOf(m)
      BY <1>6, <1>7
    <3>2. Len(output) >= PayloadMax
      BY <1>7, <1>13, <3>1, Base64Assumption DEF HasRoom
    <3>3. BytesOf(m + 1) = BytesOf(m) + 1
      BY <1>7, <1>8, <1>13
    <3> QED
      BY <1>7, <3>1, <3>2, <3>3, Base64Assumption
  <2>4. m < Digits /\ m <= Digits
    BY <1>3, <1>4
  <2>5. (6 * (m + 1)) \div 8 > PayloadMax
    BY <2>3 DEF BytesOf
  <2>6. ((6 * (Passed(k) + 1)) \div 8 > PayloadMax)'
    BY <2>2, <2>5, Zenon
  <2>7. (Passed(k) < Digits /\ Passed(k) <= Digits)'
    BY <1>9, <2>2, <2>4
  <2> QED
    BY <1>9, <2>1, <2>6, <2>7 DEF ReadUpTo
<1> QED
  BY <1>7, <1>8, <1>11, <1>12, <1>13

\* Every step keeps the invariant.
LEMMA NextDecodes == SafeDecoder /\ [Next]_vars => SafeDecoder'
<1> SUFFICES ASSUME SafeDecoder, [Next]_vars PROVE SafeDecoder'
  OBVIOUS
<1>1. /\ TypeOK /\ payload \in Payloads /\ ending \in Endings
      /\ UNCHANGED <<payload, ending, input>>
  BY DEF SafeDecoder, Next, SkipSpace, Accumulate, Finish, Done, vars
<1>2. TypeOK'
  BY <1>1, NextType
<1>3. PICK k \in 1 .. Len(Text) + 2 : ReadUpTo(k)
  BY DEF SafeDecoder
<1>4. ReadUpTo(k)'
  <2>1. CASE SkipSpace
    BY <1>1, <1>3, <2>1, SkipSpaceDecodes
  <2>2. CASE Accumulate
    BY <1>1, <1>3, <2>2, AccumulateDecodes
  <2>3. CASE Finish
    BY <1>1, <1>3, <2>3, FinishDecodes
  <2>4. CASE UNCHANGED vars
    BY <1>3, <2>4 DEF vars, ReadUpTo, BlankAt, Passed, Decoded, Digits, Text
  <2> QED
    BY <2>1, <2>2, <2>3, <2>4 DEF Next, Done
<1>5. Text' = Text
  BY <1>1 DEF Text
<1> QED
  BY <1>1, <1>2, <1>3, <1>4, <1>5 DEF SafeDecoder

\* The inductive invariant of the decoder: at every character the output and
\* the accumulator hold exactly the bits of the digits read so far.
THEOREM DecoderSafe == Spec => []SafeDecoder
BY InitDecodes, NextDecodes, PTL DEF Spec

\* What decode_base64 has in its hands when it returns.
LEMMA AtTheEnd ==
    ASSUME SafeDecoder
    PROVE  /\ result = "true" =>
                 output = [i \in 1 .. BytesOf(Digits) |-> ByteAt(payload, i)]
           /\ result = "false" => BytesOf(Digits) > PayloadMax
           /\ payload \in Seq(0 .. 255) /\ Len(payload) \in Nat
           /\ PadCount(payload) \in Nat
           /\ BytesOf(Digits) = Len(payload)
                 + (IF ending = "padded" THEN PadCount(payload) ELSE 0)
<1>1. /\ TypeOK /\ payload \in Payloads /\ ending \in Endings
  BY DEF SafeDecoder
<1>2. PICK k \in 1 .. Len(Text) + 2 : ReadUpTo(k)
  BY DEF SafeDecoder
<1>3. ASSUME result = "true"
      PROVE  output = [i \in 1 .. BytesOf(Digits) |-> ByteAt(payload, i)]
  <2>1. Passed(k) = Digits /\ Decoded(Passed(k))
    BY <1>2, <1>3 DEF ReadUpTo
  <2> QED
    BY <2>1, DecodedParts
<1>4. ASSUME result = "false"
      PROVE  BytesOf(Digits) > PayloadMax
  <2>1. /\ Passed(k) < Digits /\ (6 * (Passed(k) + 1)) \div 8 > PayloadMax
        /\ Digits \in Nat /\ Passed(k) \in Int
    <3>1. Len(Text) \in Nat
      BY <1>1, TextType DEF Text
    <3>2. pos \in Int /\ k \in Int
      BY <1>1, <3>1 DEF TypeOK
    <3> QED
      BY <1>1, <1>2, <1>4, <3>2, DigitCounts DEF ReadUpTo, Passed
  <2>2. PICK m \in Int : m = Passed(k)
    BY <2>1
  <2>3. (6 * (m + 1)) \div 8 <= (6 * Digits) \div 8
    BY <2>1, <2>2
  <2>4. (6 * (m + 1)) \div 8 > PayloadMax
    BY <2>1, <2>2
  <2> QED
    BY <2>1, <2>2, <2>3, <2>4, Base64Assumption DEF BytesOf
<1>5. /\ Len(payload) \in Nat /\ PadCount(payload) \in Nat
      /\ BytesOf(Digits) = Len(payload)
            + (IF ending = "padded" THEN PadCount(payload) ELSE 0)
  <2>1. /\ Len(payload) \in Nat /\ PadCount(payload) \in Nat
        /\ Len(Sextets(payload)) \in Nat
        /\ BytesOf(Len(Sextets(payload))) = Len(payload)
        /\ BytesOf(Len(Sextets(payload)) + PadCount(payload))
              = Len(payload) + PadCount(payload)
    BY <1>1, DigitCounts
  <2>2. CASE ending = "padded"
    BY <2>1, <2>2 DEF Digits
  <2>3. CASE ending # "padded"
    <3>1. Digits = Len(Sextets(payload))
      BY <2>1, <2>3 DEF Digits
    <3> QED
      BY <2>1, <2>3, <3>1
  <2> QED
    BY <2>2, <2>3
<1> QED
  BY <1>1, <1>3, <1>4, <1>5, Base64Assumption

\* For every payload that fits into an event: whatever blank or foreign
\* characters stand in the text, the event gets exactly the bytes logged.
THEOREM LoggedIsStored == Spec => []RoundTrip
<1>1. SafeDecoder => RoundTrip
  <2> SUFFICES ASSUME SafeDecoder, result # "run", ~Padded,
                      Len(payload) <= PayloadMax
               PROVE  result = "true" /\ output = payload
    BY DEF RoundTrip
  <2>1. BytesOf(Digits) = Len(payload)
    BY AtTheEnd DEF Padded
  <2>2. result = "true"
    <3>1. result # "false"
      BY <2>1, AtTheEnd, Base64Assumption
    <3> QED
      BY <3>1 DEF SafeDecoder, TypeOK
  <2>3. output = [i \in 1 .. Len(payload) |-> ByteAt(payload, i)]
    BY <2>1, <2>2, AtTheEnd
  <2>4. output = payload
    BY <2>3, AtTheEnd DEF ByteAt
  <2> QED
    BY <2>2, <2>4
<1> QED
  BY <1>1, DecoderSafe, PTL

\* For every payload and buffer: what does not fit is refused as a whole.
THEOREM LongIsRefused == Spec => []TooLongRefused
<1>1. SafeDecoder => TooLongRefused
  <2> SUFFICES ASSUME SafeDecoder, Len(payload) > PayloadMax, result = "true"
               PROVE  FALSE
    BY DEF TooLongRefused
  <2>1. /\ output = [i \in 1 .. BytesOf(Digits) |-> ByteAt(payload, i)]
        /\ BytesOf(Digits) \in Nat /\ BytesOf(Digits) >= Len(payload)
        /\ Len(payload) \in Nat
    BY AtTheEnd
  <2>2. Len(output) = BytesOf(Digits)
    BY <2>1
  <2>3. Len(output) <= PayloadMax
    BY DEF SafeDecoder, TypeOK
  <2> QED
    BY <2>1, <2>2, <2>3, Base64Assumption
<1> QED
  BY <1>1, DecoderSafe, PTL

\* For every payload: padding never spoils a byte of it, it only adds zeros.
THEOREM PaddingAddsZeros == Spec => []PaddingBecomesZeros
<1>1. SafeDecoder => PaddingBecomesZeros
  <2> SUFFICES ASSUME SafeDecoder, result = "true", Padded
               PROVE  output = payload \o [k \in 1 .. PadCount(payload) |-> 0]
    BY DEF PaddingBecomesZeros
  <2> DEFINE n == Len(payload)
             c == PadCount(payload)
             zeros == [k \in 1 .. c |-> 0]
  <2>1. /\ output = [i \in 1 .. n + c |-> ByteAt(payload, i)]
        /\ n \in Nat /\ c \in Nat /\ payload \in Seq(0 .. 255)
    BY AtTheEnd DEF Padded
  <2>2. /\ zeros \in Seq(0 .. 255) /\ Len(zeros) = c
        /\ \A k \in 1 .. c : zeros[k] = 0
    <3> HIDE DEF c
    <3> QED
      BY <2>1
  <2> HIDE DEF c, zeros
  <2>3. /\ payload \o zeros \in Seq(0 .. 255)
        /\ Len(payload \o zeros) = n + c
        /\ \A i \in 1 .. n + c : (payload \o zeros)[i] =
              IF i <= n THEN payload[i] ELSE zeros[i - n]
    <3>1. payload \in Seq(0 .. 255) /\ zeros \in Seq(0 .. 255)
      BY <2>1, <2>2
    <3>2. /\ payload \o zeros \in Seq(0 .. 255)
          /\ Len(payload \o zeros) = Len(payload) + Len(zeros)
          /\ \A i \in 1 .. Len(payload) + Len(zeros) : (payload \o zeros)[i]
                = IF i <= Len(payload) THEN payload[i]
                  ELSE zeros[i - Len(payload)]
      BY <3>1, ConcatProperties, Zenon
    <3> QED
      BY <2>2, <3>2
  <2>4. \A i \in 1 .. n + c : (payload \o zeros)[i] = ByteAt(payload, i)
    BY <2>1, <2>2, <2>3 DEF ByteAt
  <2>5. payload \o zeros = [i \in 1 .. n + c |-> ByteAt(payload, i)]
    <3> DEFINE both == payload \o zeros
    <3>1. both \in Seq(0 .. 255) /\ Len(both) = n + c
          /\ \A i \in 1 .. n + c : both[i] = ByteAt(payload, i)
      BY <2>3, <2>4
    <3> HIDE DEF both
    <3>2. both = [i \in 1 .. n + c |-> ByteAt(payload, i)]
      BY <3>1
    <3> QED
      BY <3>2 DEF both
  <2> QED
    BY <2>1, <2>5 DEF c, zeros
<1> QED
  BY <1>1, DecoderSafe, PTL
=============================================================================
