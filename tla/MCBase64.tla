------------------------------ MODULE MCBase64 ------------------------------
(***************************************************************************)
(* Instances of Base64 for TLC: every payload of up to five bytes over     *)
(* three values, for an event that holds four.  4 and 4096 leave the same  *)
(* remainder modulo 3, so padding meets the end of the buffer alike.       *)
(***************************************************************************)
EXTENDS Base64

ByteValues == {1, 90, 255}

ShortPayloads == UNION {[1 .. n -> ByteValues] : n \in 1 .. 5}
AllEndings    == {"bare", "padded", "junk"}
Standard      == {"padded"}
=============================================================================
