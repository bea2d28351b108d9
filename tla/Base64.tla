------------------------------- MODULE Base64 -------------------------------
(***************************************************************************)
(* decode_base64 of src/parser.c, one character of the "Program data:"     *)
(* text per step, against the encoding of RFC 4648.                        *)
(*                                                                         *)
(* A character is its position in the base64 alphabet (0 .. 63), Pad for   *)
(* '=', Space for anything isspace() accepts, Other for the rest.          *)
(***************************************************************************)
EXTENDS Integers, Sequences, SequencesExt

CONSTANTS
    Payloads,       \* byte strings a program may have logged
    Endings,        \* how the text may go on after them, see Tail64
    PayloadMax,     \* YUREI_EVENT_PAYLOAD_MAX
    IntValues       \* how many values the accumulator `val' (an int) has

\* The alphabet of the text and what base64_table says of it.
Pad   == 64
Space == 65
Other == 66
Chars == 0 .. Other

ASSUME Base64Assumption ==
    /\ Payloads \subseteq Seq(0 .. 255)
    /\ Endings \subseteq {"bare", "padded", "junk"}
    /\ PayloadMax \in Nat
    /\ IntValues \in Nat \ {0}
    /\ IntValues % 16384 = 0       \* 14 bits are all it needs; it has 32

BugTable(ch) ==
    IF ch < 63 THEN ch ELSE IF ch = Pad THEN 0 ELSE -1

Table(ch) ==
    IF ch < Pad THEN ch ELSE IF ch = Pad THEN 0 ELSE -1
-----------------------------------------------------------------------------
(* The reference: the text RFC 4648 makes of a byte string.                *)
ByteAt(p, i) == IF i <= Len(p) THEN p[i] ELSE 0

\* Six bits from bit 6*(j-1) on, of the two bytes they lie in.
Sextet(p, j) ==
    LET first  == 6 * (j - 1)
        byte   == 1 + first \div 8
        offset == first % 8
        word   == ByteAt(p, byte) * 256 + ByteAt(p, byte + 1)
    IN  (word \div 2^(10 - offset)) % 64

Sextets(p) == [j \in 1 .. (8 * Len(p) + 5) \div 6 |-> Sextet(p, j)]

PadCount(p) == (3 - (Len(p) % 3)) % 3

\* "bare": unpadded; "padded": as RFC 4648 has it; "junk": some other
\* character and more letters follow.
Tail64(p, ending) ==
    CASE ending = "bare"   -> <<>>
      [] ending = "padded" -> [k \in 1 .. PadCount(p) |-> Pad]
      [] ending = "junk"   -> <<Other, 1, 2, 3, 4>>

\* One blank may stand at any place of the text (after it at the latest).
Blanks(text) ==
    {text} \cup {InsertAt(text, k, Space) : k \in 1 .. Len(text) + 1}
-----------------------------------------------------------------------------
VARIABLES
    payload, ending,    \* what was logged, and the text's ending
    input,              \* the text
    pos,                \* ptr, as an index of input
    val, bits,          \* the accumulator and its fill, -8 when empty
    output,             \* output[0 .. out_index)
    result              \* "run", or the call's value: "true" or "false"

vars == <<payload, ending, input, pos, val, bits, output, result>>

Init ==
    /\ payload \in Payloads
    /\ ending \in Endings
    /\ input \in Blanks(Sextets(payload) \o Tail64(payload, ending))
    /\ pos = 1
    /\ val = 0
    /\ bits = -8
    /\ output = <<>>
    /\ result = "run"

AtChar(ch) == result = "run" /\ pos <= Len(input) /\ input[pos] = ch

SkipSpace ==
    /\ AtChar(Space)
    /\ pos' = pos + 1
    /\ UNCHANGED <<payload, ending, input, val, bits, output, result>>

\* The end of the text or a character outside the alphabet: *out_len is set.
Finish ==
    /\ result = "run"
    /\ \/ pos > Len(input)
       \/ /\ pos <= Len(input) /\ ~AtChar(Space)
          /\ Table(input[pos]) = -1
    /\ result' = "true"
    /\ UNCHANGED <<payload, ending, input, pos, val, bits, output>>

\* An accumulator that holds one byte only.
BugShifted(d) == (val * 64 + d) % 256

\* val << 6 beyond the width of int is undefined; the build drops the bits.
Shifted(d) == (val * 64 + d) % IntValues

BugHasRoom == Len(output) <= PayloadMax

HasRoom == Len(output) < PayloadMax

\* `bits' after a step; a full byte is taken out of it.
BitsAfter(b) == IF b >= 0 THEN b - 8 ELSE b

Accumulate ==
    /\ result = "run" /\ pos <= Len(input)
    /\ ~AtChar(Space) /\ Table(input[pos]) # -1
    /\ val' = Shifted(Table(input[pos]))
    /\ LET fill == bits + 6
       IN  \/ /\ fill < 0
              /\ bits' = BitsAfter(fill)
              /\ pos' = pos + 1
              /\ UNCHANGED <<output, result>>
           \/ /\ fill >= 0 /\ HasRoom
              /\ output' = Append(output, (val' \div 2^fill) % 256)
              /\ bits' = BitsAfter(fill)
              /\ pos' = pos + 1
              /\ UNCHANGED result
           \/ /\ fill >= 0 /\ ~HasRoom
              /\ bits' = fill
              /\ result' = "false"
              /\ UNCHANGED <<pos, output>>
    /\ UNCHANGED <<payload, ending, input>>

Done == result # "run" /\ UNCHANGED vars

Next == SkipSpace \/ Accumulate \/ Finish \/ Done

Spec == Init /\ [][Next]_vars
-----------------------------------------------------------------------------
\* The buffer is never overrun and the shift distance never negative.
TypeOK ==
    /\ input \in Seq(Chars)
    /\ pos \in 1 .. Len(input) + 1
    /\ val \in 0 .. IntValues - 1
    /\ bits \in IF result = "false" THEN {0, 2, 4} ELSE {-8, -6, -4, -2}
    /\ output \in Seq(0 .. 255)
    /\ Len(output) <= PayloadMax
    /\ result \in {"run", "true", "false"}

Padded == ending = "padded" /\ PadCount(payload) > 0

\* A text without padding that fits gives back the bytes that were logged,
\* wherever a blank or foreign characters stand.
RoundTrip ==
    result # "run" /\ ~Padded /\ Len(payload) <= PayloadMax =>
        result = "true" /\ output = payload

\* A payload too long for an event is refused, never cut short.
TooLongRefused == Len(payload) > PayloadMax => result # "true"

\* With padding the payload comes first and is followed by one zero byte
\* per '=' (which the table takes for a zero), if they fit.
PaddingBecomesZeros ==
    result = "true" /\ Padded =>
        output = payload \o [k \in 1 .. PadCount(payload) |-> 0]

\* The text without the blank, and how many of its characters the decoder
\* takes for data.
Text == Sextets(payload) \o Tail64(payload, ending)

Digits ==
    Len(Sextets(payload))
        + (IF ending = "padded" THEN PadCount(payload) ELSE 0)

\* The blank stands at k, or nowhere if k is beyond the text and a blank.
BlankAt(k) ==
    /\ Len(input) = Len(Text) + (IF k <= Len(Text) + 1 THEN 1 ELSE 0)
    /\ \A i \in 1 .. Len(input) :
          input[i] = IF i < k THEN Text[i]
                     ELSE IF i = k THEN Space ELSE Text[i - 1]

\* The characters of Text that have been read.
Passed(k) == IF k < pos THEN pos - 2 ELSE pos - 1

\* What m digits leave behind: their whole bytes in the output, and in the
\* accumulator the first bits of the byte after them.
Decoded(m) ==
    LET bytes == (6 * m) \div 8
        rest  == (6 * m) % 8
    IN  /\ output = [i \in 1 .. bytes |-> ByteAt(payload, i)]
        /\ bits = rest - 8
        /\ val % 2^rest = ByteAt(payload, bytes + 1) \div 2^(8 - rest)

\* The call with the blank at k: what it has read is decoded; it ends well
\* behind the last digit only, and badly at the digit there is no room for.
ReadUpTo(k) ==
    /\ BlankAt(k)
    /\ Passed(k) <= Digits
    /\ result # "false" => Decoded(Passed(k))
    /\ result = "true" => Passed(k) = Digits
    /\ result = "false" => /\ Passed(k) < Digits
                           /\ (6 * (Passed(k) + 1)) \div 8 > PayloadMax

\* RoundTrip, TooLongRefused and PaddingBecomesZeros with what makes them
\* inductive.
SafeDecoder ==
    /\ TypeOK
    /\ payload \in Payloads /\ ending \in Endings
    /\ \E k \in 1 .. Len(Text) + 2 : ReadUpTo(k)

\* README.md:14, "Base64 decoding of `Program data:` payloads": what is
\* stored is what was logged, also for a text padded as RFC 4648 has it.
PaddedRoundTrip ==
    result = "true" => output = payload
=============================================================================
