----------------------------- MODULE FloatEncoding -----------------------------
(***************************************************************************)
(* The way of float32 numbers through the file: encode_floats turns their  *)
(* bytes into base64 and cuts the text into strings, decode_floats joins   *)
(* these, decodes group after group and reads the bytes as float32 again.  *)
(*                                                                         *)
(* A float is the sequence of its four bytes, a character its code.        *)
(***************************************************************************)
EXTENDS Integers, Sequences

CONSTANTS
  Weights,   \* the arrays there are to be stored
  ChunkSize  \* the length of a string in the file

ASSUME WeightsAssumption == Weights \subseteq Seq([1 .. 4 -> 0 .. 255])
ASSUME ChunkSizeAssumption == ChunkSize \in Nat \ {0}

VARIABLES
  floats,    \* the array stored
  strs,      \* the strings in the file, then those not joined yet
  text,      \* encoded_string
  i,         \* how much of it is decoded
  ret,       \* the bytes decoded
  out,       \* the floats read
  pc         \* where decode_floats is

vars == <<floats, strs, text, i, ret, out, pc>>

NotABase64 == 255
Padding == 61                \* '='
-----------------------------------------------------------------------------
(***************************************************************************)
(* encode_floats, with the b64encode of Python (RFC 4648).                 *)
(***************************************************************************)
BytesOf(a) == [p \in 1 .. 4 * Len(a) |-> a[((p - 1) \div 4) + 1][((p - 1) % 4) + 1]]
ByteOrZero(bytes, p) == IF p <= Len(bytes) THEN bytes[p] ELSE 0
ToBase64(n) ==
  CASE n \in 0 .. 25  -> n + 65
    [] n \in 26 .. 51 -> n + 71
    [] n \in 52 .. 61 -> n - 4
    [] n = 62         -> 43
    [] OTHER          -> 47
Sextet(b1, b2, b3, k) ==
  CASE k = 0 -> b1 \div 4
    [] k = 1 -> (b1 % 4) * 16 + (b2 \div 16)
    [] k = 2 -> (b2 % 16) * 4 + (b3 \div 64)
    [] k = 3 -> b3 % 64
Groups(bytes) == (Len(bytes) + 2) \div 3
Character(bytes, g, k) ==
  IF 3 * g + k > Len(bytes) THEN Padding
  ELSE ToBase64(Sextet(ByteOrZero(bytes, 3 * g + 1), ByteOrZero(bytes, 3 * g + 2),
                       ByteOrZero(bytes, 3 * g + 3), k))
B64Encode(bytes) ==
  [p \in 1 .. 4 * Groups(bytes) |-> Character(bytes, (p - 1) \div 4, (p - 1) % 4)]

Chunks(n, size) == (n + size - 1) \div size
EndOf(n, size, c) == IF c * size < n THEN c * size ELSE n
\* Mutation: the last string, which may be short, is left out.
FullOnes(size, s) == [c \in 1 .. Len(s) \div size |-> SubSeq(s, (c - 1) * size + 1, c * size)]
SplitEvery(size, s) ==
  [c \in 1 .. Chunks(Len(s), size) |-> SubSeq(s, (c - 1) * size + 1, EndOf(Len(s), size, c))]
-----------------------------------------------------------------------------
(***************************************************************************)
(* Base64_decode, one group of four characters                             *)
(***************************************************************************)
\* from_base64, with 255 for what is no digit
FromBase64(c) ==
  CASE c \in 65 .. 90   -> c - 65
    [] c \in 97 .. 122  -> c - 71
    [] c \in 48 .. 57   -> c + 4
    [] c \in {43, 45}   -> 62
    [] c \in {47, 95}   -> 63
    [] OTHER            -> NotABase64

\* b3 from b4: masks and shifts of std::uint8_t
\* Mutation: arithmetic on int, without the masks.
Unmasked(b4, k) ==
  CASE k = 1 -> b4[1] * 4 + (b4[2] \div 16)
    [] k = 2 -> b4[2] * 16 + (b4[3] \div 4)
    [] k = 3 -> b4[3] * 64 + b4[4]
Byte(b4, k) ==
  CASE k = 1 -> ((b4[1] % 64) * 4 + ((b4[2] % 64) \div 16)) % 256
    [] k = 2 -> ((b4[2] % 16) * 16 + ((b4[3] % 64) \div 4)) % 256
    [] k = 3 -> ((b4[3] % 4) * 64 + (b4[4] % 64)) % 256

\* Mutation: the bytes of the padding are kept.
Always(bytes, digit, byte) == Append(bytes, byte)
PushUnlessPadding(bytes, digit, byte) ==
  IF digit # NotABase64 THEN Append(bytes, byte) ELSE bytes
-----------------------------------------------------------------------------
Init ==
  /\ floats \in Weights
  /\ strs = SplitEvery(ChunkSize, B64Encode(BytesOf(floats)))
  /\ text = << >>
  /\ i = 0
  /\ ret = << >>
  /\ out = << >>
  /\ pc = "concat"

\* fplus::concat, string by string
Concat ==
  /\ pc = "concat"
  /\ strs # << >>
  /\ text' = text \o Head(strs)
  /\ strs' = Tail(strs)
  /\ UNCHANGED <<floats, i, ret, out, pc>>

\* "Make sure string length is a multiple of 4"
Pad ==
  /\ pc = "concat"
  /\ strs = << >>
  /\ text' = text \o [k \in 1 .. (-Len(text)) % 4 |-> Padding]
  /\ pc' = "decode"
  /\ UNCHANGED <<floats, strs, i, ret, out>>

DecodeGroup ==
  /\ pc = "decode"
  /\ i < Len(text)
  /\ LET b4 == [k \in 1 .. 4 |-> FromBase64(text[i + k])]
         one == PushUnlessPadding(ret, b4[2], Byte(b4, 1))
         two == PushUnlessPadding(one, b4[3], Byte(b4, 2))
     IN ret' = PushUnlessPadding(two, b4[4], Byte(b4, 3))
  /\ i' = i + 4
  /\ UNCHANGED <<floats, strs, text, out, pc>>

\* "invalid float vector data": the exception is left out, as FloatsSurvive
\* says that there is none.
\* Mutation: floats are taken for doubles.
DivisibleByEight == Len(ret) % 8 = 0
Divisible == Len(ret) % 4 = 0
ReadFloats ==
  /\ pc = "decode"
  /\ i >= Len(text)
  /\ Divisible
  /\ out' = [f \in 1 .. Len(ret) \div 4 |-> SubSeq(ret, 4 * f - 3, 4 * f)]
  /\ pc' = "done"
  /\ UNCHANGED <<floats, strs, text, i, ret>>

Next == Concat \/ Pad \/ DecodeGroup \/ ReadFloats
Spec == Init /\ [][Next]_vars
-----------------------------------------------------------------------------
\* The loop of Base64_decode stays in the text, on the start of a group, and
\* pushes no more bytes than it has reserved.
TypeOK ==
  /\ pc \in {"concat", "decode", "done"}
  /\ i \in 0 .. Len(text)
  /\ i % 4 = 0
  /\ ret \in Seq(0 .. 255)
  /\ 4 * Len(ret) <= 3 * i
  /\ pc # "concat" => Len(text) % 4 = 0

(***************************************************************************)
(* At every moment Base64_decode has decoded a prefix of the bytes that    *)
(* were encoded, three for each group: none is lost, doubled or taken from *)
(* the padding, wherever the strings were cut.                             *)
(***************************************************************************)
IsDecoded(n) == ret = SubSeq(BytesOf(floats), 1, n)
DecodesPrefix ==
  LET n == 4 * Len(floats)
      three == 3 * (i \div 4)
  IN IsDecoded(IF three < n THEN three ELSE n)

(***************************************************************************)
(* An array of floats is what decode_floats returns of what encode_floats  *)
(* wrote: same count, same numbers, same order, and never an exception.    *)
(***************************************************************************)
FloatsSurvive ==
  /\ pc = "done" => out = floats
  /\ pc = "decode" /\ i = Len(text) => Divisible
=============================================================================
