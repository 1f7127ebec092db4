------------------------- MODULE FloatEncodingProofs -------------------------
(***************************************************************************)
(* For every set of arrays and every length of the strings, decode_floats  *)
(* is the inverse of encode_floats.                                        *)
(***************************************************************************)
EXTENDS FloatEncoding, SequenceTheorems, TLAPS

Bytes == 0 .. 255
N == 4 * Len(floats)
Encoded == B64Encode(BytesOf(floats))
-----------------------------------------------------------------------------
(***************************************************************************)
(* Characters and bytes                                                    *)
(***************************************************************************)
LEMMA BytesOfType ==
  ASSUME NEW a \in Seq([1 .. 4 -> Bytes])
  PROVE  /\ BytesOf(a) \in Seq(Bytes)
         /\ Len(BytesOf(a)) = 4 * Len(a)
         /\ \A p \in 1 .. 4 * Len(a) :
              BytesOf(a)[p] = a[((p - 1) \div 4) + 1][((p - 1) % 4) + 1]
<1>1. ASSUME NEW p \in 1 .. 4 * Len(a)
      PROVE  a[((p - 1) \div 4) + 1][((p - 1) % 4) + 1] \in Bytes
  <2>1. /\ ((p - 1) \div 4) + 1 \in 1 .. Len(a)
        /\ ((p - 1) % 4) + 1 \in 1 .. 4
    OBVIOUS
  <2>2. a[((p - 1) \div 4) + 1] \in [1 .. 4 -> Bytes]
    BY <2>1, ElementOfSeq
  <2> QED BY <2>1, <2>2
<1>2. 4 * Len(a) \in Nat
  OBVIOUS
<1> QED BY <1>1, <1>2 DEF BytesOf

LEMMA Digits ==
  ASSUME NEW n \in 0 .. 63
  PROVE  FromBase64(ToBase64(n)) = n
<1>1. CASE n \in 0 .. 25  BY <1>1 DEF FromBase64, ToBase64
<1>2. CASE n \in 26 .. 51 BY <1>2 DEF FromBase64, ToBase64
<1>3. CASE n \in 52 .. 61 BY <1>3 DEF FromBase64, ToBase64
<1>4. CASE n = 62         BY <1>4 DEF FromBase64, ToBase64
<1>5. CASE n = 63         BY <1>5 DEF FromBase64, ToBase64
<1> QED BY <1>1, <1>2, <1>3, <1>4, <1>5

LEMMA PaddingIsNoDigit == FromBase64(Padding) = NotABase64
BY DEF FromBase64, Padding, NotABase64

LEMMA SextetOK ==
  ASSUME NEW b1 \in Bytes, NEW b2 \in Bytes, NEW b3 \in Bytes, NEW k \in 0 .. 3
  PROVE  Sextet(b1, b2, b3, k) \in 0 .. 63
<1>1. CASE k = 0 BY <1>1 DEF Sextet, Bytes
<1>2. CASE k = 1 BY <1>2 DEF Sextet, Bytes
<1>3. CASE k = 2 BY <1>3 DEF Sextet, Bytes
<1>4. CASE k = 3 BY <1>4 DEF Sextet, Bytes
<1> QED BY <1>1, <1>2, <1>3, <1>4

\* The masks and shifts put together what the sextets took apart.
LEMMA FirstByte ==
  ASSUME NEW b1 \in Bytes, NEW b2 \in Bytes, NEW b3 \in Bytes, NEW b4,
         b4[1] = Sextet(b1, b2, b3, 0), b4[2] = Sextet(b1, b2, b3, 1)
  PROVE  Byte(b4, 1) = b1
<1>1. b4[1] = b1 \div 4 /\ b4[2] = (b1 % 4) * 16 + (b2 \div 16)
  BY DEF Sextet
<1>2. (((b1 \div 4) % 64) * 4 + ((((b1 % 4) * 16 + (b2 \div 16)) % 64) \div 16)) % 256 = b1
  BY DEF Bytes
<1> QED BY <1>1, <1>2 DEF Byte

LEMMA SecondByte ==
  ASSUME NEW b1 \in Bytes, NEW b2 \in Bytes, NEW b3 \in Bytes, NEW b4,
         b4[2] = Sextet(b1, b2, b3, 1), b4[3] = Sextet(b1, b2, b3, 2)
  PROVE  Byte(b4, 2) = b2
<1>1. b4[2] = (b1 % 4) * 16 + (b2 \div 16) /\ b4[3] = (b2 % 16) * 4 + (b3 \div 64)
  BY DEF Sextet
<1>2. ((((b1 % 4) * 16 + (b2 \div 16)) % 16) * 16
         + ((((b2 % 16) * 4 + (b3 \div 64)) % 64) \div 4)) % 256 = b2
  BY DEF Bytes
<1> QED BY <1>1, <1>2 DEF Byte

LEMMA ThirdByte ==
  ASSUME NEW b1 \in Bytes, NEW b2 \in Bytes, NEW b3 \in Bytes, NEW b4,
         b4[3] = Sextet(b1, b2, b3, 2), b4[4] = Sextet(b1, b2, b3, 3)
  PROVE  Byte(b4, 3) = b3
<1>1. b4[3] = (b2 % 16) * 4 + (b3 \div 64) /\ b4[4] = b3 % 64
  BY DEF Sextet
<1>2. ((((b2 % 16) * 4 + (b3 \div 64)) % 4) * 64 + ((b3 % 64) % 64)) % 256 = b3
  BY DEF Bytes
<1> QED BY <1>1, <1>2 DEF Byte

LEMMA ByteOK ==
  ASSUME NEW bytes \in Seq(Bytes), NEW p \in Nat \ {0}
  PROVE  ByteOrZero(bytes, p) \in Bytes
<1>1. CASE p <= Len(bytes)
  BY <1>1, ElementOfSeq DEF ByteOrZero
<1>2. CASE p > Len(bytes)
  BY <1>2 DEF ByteOrZero, Bytes
<1> QED BY <1>1, <1>2

LEMMA LetterOK ==
  ASSUME NEW n \in 0 .. 63
  PROVE  ToBase64(n) \in Bytes
BY DEF ToBase64, Bytes

LEMMA CharacterOK ==
  ASSUME NEW bytes \in Seq(Bytes), NEW g \in Nat, NEW k \in 0 .. 3
  PROVE  Character(bytes, g, k) \in Bytes
<1>1. /\ ByteOrZero(bytes, 3 * g + 1) \in Bytes
      /\ ByteOrZero(bytes, 3 * g + 2) \in Bytes
      /\ ByteOrZero(bytes, 3 * g + 3) \in Bytes
  BY ByteOK
<1>2. ToBase64(Sextet(ByteOrZero(bytes, 3 * g + 1), ByteOrZero(bytes, 3 * g + 2),
                      ByteOrZero(bytes, 3 * g + 3), k)) \in Bytes
  BY <1>1, SextetOK, LetterOK
<1> QED BY <1>2 DEF Character, Padding, Bytes

LEMMA EncodeOK ==
  ASSUME NEW bytes \in Seq(Bytes)
  PROVE  /\ B64Encode(bytes) \in Seq(Bytes)
         /\ Len(B64Encode(bytes)) = 4 * Groups(bytes)
         /\ Groups(bytes) \in Nat
         /\ \A g \in 0 .. Groups(bytes) - 1 : \A k \in 1 .. 4 :
              B64Encode(bytes)[4 * g + k] = Character(bytes, g, k - 1)
<1>1. Groups(bytes) \in Nat /\ 4 * Groups(bytes) \in Nat
  BY DEF Groups
<1>2. ASSUME NEW p \in 1 .. 4 * Groups(bytes)
      PROVE  Character(bytes, (p - 1) \div 4, (p - 1) % 4) \in Bytes
  BY <1>1, CharacterOK
<1>3. ASSUME NEW g \in 0 .. Groups(bytes) - 1, NEW k \in 1 .. 4
      PROVE  B64Encode(bytes)[4 * g + k] = Character(bytes, g, k - 1)
  <2>1. 4 * g + k \in 1 .. 4 * Groups(bytes)
    BY <1>1
  <2>2. (4 * g + k - 1) \div 4 = g /\ (4 * g + k - 1) % 4 = k - 1
    BY <1>1
  <2> QED BY <2>1, <2>2 DEF B64Encode
<1>4. B64Encode(bytes) \in Seq(Bytes) /\ Len(B64Encode(bytes)) = 4 * Groups(bytes)
  BY <1>1, <1>2 DEF B64Encode
<1> QED BY <1>1, <1>3, <1>4

LEMMA PrefixGrows ==
  ASSUME NEW bytes \in Seq(Bytes), NEW m \in Nat, m < Len(bytes)
  PROVE  SubSeq(bytes, 1, m + 1) = Append(SubSeq(bytes, 1, m), bytes[m + 1])
<1>1. SubSeq(bytes, 1, m + 1) = SubSeq(bytes, 1, m) \o <<bytes[m + 1]>>
  BY SubSeqRecursiveSecond
<1>2. SubSeq(bytes, 1, m) \in Seq(Bytes) /\ bytes[m + 1] \in Bytes
  BY SubSeqProperties, ElementOfSeq
<1> QED BY <1>1, <1>2

(***************************************************************************)
(* One pass of the loop of Base64_decode: of the bytes of a group those    *)
(* there are.                                                              *)
(***************************************************************************)
DecodedGroup(s, g, done) ==
  LET b4 == [k \in 1 .. 4 |-> FromBase64(s[4 * g + k])]
      one == PushUnlessPadding(done, b4[2], Byte(b4, 1))
      two == PushUnlessPadding(one, b4[3], Byte(b4, 2))
  IN PushUnlessPadding(two, b4[4], Byte(b4, 3))

LEMMA GroupDecoded ==
  ASSUME NEW bytes \in Seq(Bytes), NEW g \in 0 .. Groups(bytes) - 1,
         NEW done \in Seq(Bytes), done = SubSeq(bytes, 1, 3 * g)
  PROVE  DecodedGroup(B64Encode(bytes), g, done) =
           SubSeq(bytes, 1, IF 3 * g + 3 < Len(bytes) THEN 3 * g + 3 ELSE Len(bytes))
<1> DEFINE s == B64Encode(bytes)
           b4 == [k \in 1 .. 4 |-> FromBase64(s[4 * g + k])]
           b1 == ByteOrZero(bytes, 3 * g + 1)
           b2 == ByteOrZero(bytes, 3 * g + 2)
           b3 == ByteOrZero(bytes, 3 * g + 3)
<1>0. g \in Nat /\ 3 * g \in Nat /\ Len(bytes) \in Nat
  BY EncodeOK
<1>1. 3 * g + 1 <= Len(bytes)
  BY DEF Groups
<1>2. b1 \in Bytes /\ b2 \in Bytes /\ b3 \in Bytes
  BY ByteOK
<1>3. ASSUME NEW k \in 0 .. 3
      PROVE  /\ 3 * g + k <= Len(bytes) =>
                  b4[k + 1] = Sextet(b1, b2, b3, k) /\ b4[k + 1] # NotABase64
             /\ 3 * g + k > Len(bytes) => b4[k + 1] = NotABase64
  <2>1. s[4 * g + (k + 1)] = Character(bytes, g, (k + 1) - 1) /\ (k + 1) - 1 = k
    <3>1. k + 1 \in 1 .. 4 /\ (k + 1) - 1 = k
      OBVIOUS
    <3>2. s[4 * g + (k + 1)] = Character(bytes, g, (k + 1) - 1)
      BY <3>1, EncodeOK
    <3> QED BY <3>1, <3>2
  <2>2. b4[k + 1] = FromBase64(Character(bytes, g, k))
    <3> HIDE DEF s
    <3> QED BY <2>1
  <2>3. Sextet(b1, b2, b3, k) \in 0 .. 63
    BY <1>2, SextetOK
  <2>4. CASE 3 * g + k > Len(bytes)
    <3>1. Character(bytes, g, k) = Padding
      BY <2>4 DEF Character
    <3> QED BY <3>1, <2>2, <2>4, PaddingIsNoDigit
  <2>5. CASE ~(3 * g + k > Len(bytes))
    <3>1. Character(bytes, g, k) = ToBase64(Sextet(b1, b2, b3, k))
      BY <2>5 DEF Character
    <3>2. b4[k + 1] = Sextet(b1, b2, b3, k)
      <4> HIDE DEF b4, b1, b2, b3
      <4> QED BY <3>1, <2>2, <2>3, Digits
    <3>3. Sextet(b1, b2, b3, k) # NotABase64
      <4>1. \A n \in 0 .. 63 : n # NotABase64
        BY DEF NotABase64
      <4> QED BY <2>3, <4>1
    <3> HIDE DEF b4, b1, b2, b3
    <3> QED BY <3>2, <3>3, <2>5
  <2> QED BY <2>4, <2>5
<1>4. /\ b4[1] = Sextet(b1, b2, b3, 0)
      /\ b4[2] = Sextet(b1, b2, b3, 1) /\ b4[2] # NotABase64
  <2> HIDE DEF b4, b1, b2, b3
  <2>1. 0 \in 0 .. 3 /\ 1 \in 0 .. 3 /\ 0 + 1 = 1 /\ 1 + 1 = 2
    OBVIOUS
  <2> QED BY <1>1, <1>3, <2>1
<1>5. /\ 3 * g + 2 <= Len(bytes) => b4[3] = Sextet(b1, b2, b3, 2) /\ b4[3] # NotABase64
      /\ 3 * g + 2 > Len(bytes) => b4[3] = NotABase64
      /\ 3 * g + 3 <= Len(bytes) => b4[4] = Sextet(b1, b2, b3, 3) /\ b4[4] # NotABase64
      /\ 3 * g + 3 > Len(bytes) => b4[4] = NotABase64
  <2> HIDE DEF b4, b1, b2, b3
  <2>1. 2 \in 0 .. 3 /\ 3 \in 0 .. 3 /\ 2 + 1 = 3 /\ 3 + 1 = 4
    OBVIOUS
  <2> QED BY <1>3, <2>1
<1>6. /\ b1 = bytes[3 * g + 1]
      /\ 3 * g + 2 <= Len(bytes) => b2 = bytes[3 * g + 2]
      /\ 3 * g + 3 <= Len(bytes) => b3 = bytes[3 * g + 3]
  BY <1>1 DEF ByteOrZero
<1> DEFINE one == PushUnlessPadding(done, b4[2], Byte(b4, 1))
           two == PushUnlessPadding(one, b4[3], Byte(b4, 2))
           three == PushUnlessPadding(two, b4[4], Byte(b4, 3))
<1>7. DecodedGroup(s, g, done) = three
  BY DEF DecodedGroup
<1> HIDE DEF b4, s, b1, b2, b3
<1>8. one = SubSeq(bytes, 1, 3 * g + 1)
  <2>1. Byte(b4, 1) = bytes[3 * g + 1]
    BY <1>2, <1>4, <1>6, FirstByte
  <2>2. one = Append(SubSeq(bytes, 1, 3 * g), bytes[3 * g + 1])
    BY <2>1, <1>4 DEF PushUnlessPadding
  <2>3. SubSeq(bytes, 1, 3 * g + 1) = Append(SubSeq(bytes, 1, 3 * g), bytes[3 * g + 1])
    BY <1>0, <1>1, PrefixGrows
  <2> QED BY <2>2, <2>3
<1> HIDE DEF one
<1>9. two = SubSeq(bytes, 1, IF 3 * g + 2 < Len(bytes) THEN 3 * g + 2 ELSE Len(bytes))
  <2>1. CASE 3 * g + 2 <= Len(bytes)
    <3>1. Byte(b4, 2) = bytes[3 * g + 2]
      BY <2>1, <1>2, <1>4, <1>5, <1>6, SecondByte
    <3>2. two = Append(SubSeq(bytes, 1, 3 * g + 1), bytes[3 * g + 2])
      BY <3>1, <2>1, <1>5, <1>8 DEF PushUnlessPadding
    <3>3. two = SubSeq(bytes, 1, 3 * g + 2)
      <4> HIDE DEF two
      <4>1. 3 * g + 1 \in Nat /\ 3 * g + 1 < Len(bytes) /\ (3 * g + 1) + 1 = 3 * g + 2
        BY <2>1
      <4> QED BY <3>2, <4>1, PrefixGrows
    <3> QED BY <3>3, <2>1
  <2>2. CASE 3 * g + 2 > Len(bytes)
    <3>1. Len(bytes) = 3 * g + 1
      BY <2>2, <1>1
    <3> QED BY <3>1, <2>2, <1>5, <1>8 DEF PushUnlessPadding
  <2> QED BY <2>1, <2>2
<1> HIDE DEF two
<1>10. three = SubSeq(bytes, 1, IF 3 * g + 3 < Len(bytes) THEN 3 * g + 3 ELSE Len(bytes))
  <2>1. CASE 3 * g + 3 <= Len(bytes)
    <3>1. Byte(b4, 3) = bytes[3 * g + 3]
      BY <2>1, <1>2, <1>5, <1>6, ThirdByte
    <3>2. three = Append(SubSeq(bytes, 1, 3 * g + 2), bytes[3 * g + 3])
      BY <3>1, <2>1, <1>5, <1>9 DEF PushUnlessPadding
    <3>3. three = SubSeq(bytes, 1, 3 * g + 3)
      <4> HIDE DEF three
      <4>1. 3 * g + 2 \in Nat /\ 3 * g + 2 < Len(bytes) /\ (3 * g + 2) + 1 = 3 * g + 3
        BY <2>1
      <4> QED BY <3>2, <4>1, PrefixGrows
    <3> QED BY <3>3, <2>1
  <2>2. CASE 3 * g + 3 > Len(bytes)
    BY <2>2, <1>1, <1>5, <1>9 DEF PushUnlessPadding
  <2> QED BY <2>1, <2>2
<1> QED BY <1>7, <1>10 DEF s
-----------------------------------------------------------------------------
(***************************************************************************)
(* The strings in the file: joining the first c of them gives the text up  *)
(* to the end of string c.                                                 *)
(***************************************************************************)
Strings == Chunks(Len(Encoded), ChunkSize)
End(c) == EndOf(Len(Encoded), ChunkSize, c)
String(c) == SubSeq(Encoded, (c - 1) * ChunkSize + 1, End(c))

LEMMA ChunkBounds ==
  ASSUME NEW n \in Nat, NEW size \in Nat \ {0}
  PROVE  /\ Chunks(n, size) \in Nat
         /\ EndOf(n, size, 0) = 0
         /\ EndOf(n, size, Chunks(n, size)) = n
         /\ \A c \in 0 .. Chunks(n, size) - 1 :
              /\ EndOf(n, size, c) = c * size
              /\ c * size \in 0 .. n
              /\ EndOf(n, size, c + 1) \in c * size .. n
<1> DEFINE k == Chunks(n, size)
           r == (n + size - 1) % size
<1>1. k \in Nat /\ r \in 0 .. size - 1 /\ size * k + r = n + size - 1
  BY DEF Chunks
<1>2. k * size = size * k /\ k * size \in Nat
  BY <1>1
<1>3. k * size >= n
  <2> HIDE DEF k, r
  <2> QED BY <1>1, <1>2
<1>4. ASSUME NEW c \in 0 .. k - 1
      PROVE  /\ c * size \in Nat /\ c * size < n
             /\ (c + 1) * size \in Nat /\ (c + 1) * size = c * size + size
  <2> HIDE DEF k, r
  <2>1. c * size \in Nat /\ (c + 1) * size = c * size + size
    BY <1>1
  <2>2. k - 1 - c \in Nat /\ (k - 1 - c) * size \in Nat
    BY <1>1
  <2>3. (k - 1 - c) * size = k * size - size - c * size
    BY <1>1
  <2> QED BY <1>1, <1>2, <2>1, <2>2, <2>3
<1>5. EndOf(n, size, 0) = 0
  BY DEF EndOf
<1>6. EndOf(n, size, k) = n
  <2> HIDE DEF k
  <2> QED BY <1>2, <1>3 DEF EndOf
<1>7. ASSUME NEW c \in 0 .. k - 1
      PROVE  /\ EndOf(n, size, c) = c * size
             /\ c * size \in 0 .. n
             /\ EndOf(n, size, c + 1) \in c * size .. n
  <2> HIDE DEF k
  <2> QED BY <1>4 DEF EndOf
<1> QED BY <1>1, <1>5, <1>6, <1>7

LEMMA SeqIsFunction ==
  ASSUME NEW S, NEW s \in Seq(S)
  PROVE  s = [k \in 1 .. Len(s) |-> s[k]]
OBVIOUS

Joining(c) ==
  /\ strs = [k \in 1 .. Strings - c |-> String(c + k)]
  /\ text = SubSeq(Encoded, 1, End(c))

Decoding(g) ==
  /\ i = 4 * g
  /\ ret = SubSeq(BytesOf(floats), 1, IF 3 * g < N THEN 3 * g ELSE N)

IInv ==
  /\ floats \in Weights
  /\ pc \in {"concat", "decode", "done"}
  /\ pc = "concat" => \E c \in 0 .. Strings : Joining(c)
  /\ pc # "concat" => text = Encoded
  /\ \E g \in 0 .. Groups(BytesOf(floats)) : Decoding(g)
  /\ pc = "concat" => i = 0
  /\ pc = "done" => out = floats

LEMMA Types ==
  ASSUME floats \in Weights
  PROVE  /\ floats \in Seq([1 .. 4 -> Bytes])
         /\ BytesOf(floats) \in Seq(Bytes)
         /\ Len(BytesOf(floats)) = N
         /\ N \in Nat
         /\ Encoded \in Seq(Bytes)
         /\ Len(Encoded) = 4 * Groups(BytesOf(floats))
         /\ Len(Encoded) \in Nat
         /\ Groups(BytesOf(floats)) \in Nat
         /\ Strings \in Nat
<1>1. floats \in Seq([1 .. 4 -> Bytes])
  BY WeightsAssumption DEF Bytes
<1>2. BytesOf(floats) \in Seq(Bytes) /\ Len(BytesOf(floats)) = N /\ N \in Nat
  BY <1>1, BytesOfType DEF N
<1>3. Encoded \in Seq(Bytes) /\ Len(Encoded) = 4 * Groups(BytesOf(floats))
        /\ Groups(BytesOf(floats)) \in Nat
  BY <1>2, EncodeOK DEF Encoded
<1>4. Len(Encoded) \in Nat
  BY <1>3
<1>5. Strings \in Nat
  BY <1>4, ChunkBounds, ChunkSizeAssumption DEF Strings
<1> QED BY <1>1, <1>2, <1>3, <1>4, <1>5

LEMMA InitOK == Init => IInv
<1> SUFFICES ASSUME Init PROVE IInv
  OBVIOUS
<1>1. floats \in Weights /\ pc = "concat" /\ i = 0 /\ ret = << >> /\ text = << >>
  BY DEF Init
<1>2. Joining(0)
  <2>1. Strings \in Nat /\ Len(Encoded) \in Nat
    BY <1>1, Types
  <2>2. End(0) = 0
    BY <2>1, ChunkBounds, ChunkSizeAssumption DEF End
  <2>3. text = SubSeq(Encoded, 1, 0)
    BY <1>1, SubSeqEmpty
  <2>4. strs = [k \in 1 .. Strings |-> String(k)]
    BY DEF Init, SplitEvery, Strings, String, Encoded, End
  <2>5. [k \in 1 .. Strings |-> String(k)] = [k \in 1 .. Strings - 0 |-> String(0 + k)]
    BY <2>1
  <2> QED BY <2>2, <2>3, <2>4, <2>5 DEF Joining
<1>3. Decoding(0)
  <2>1. N \in Nat
    BY <1>1, Types
  <2>2. ret = SubSeq(BytesOf(floats), 1, 0)
    BY <1>1, SubSeqEmpty
  <2> QED BY <1>1, <2>1, <2>2 DEF Decoding
<1>4. 0 \in 0 .. Strings /\ 0 \in 0 .. Groups(BytesOf(floats))
  BY <1>1, Types
<1> QED BY <1>1, <1>2, <1>3, <1>4 DEF IInv

LEMMA ConcatOK == IInv /\ Concat => IInv'
<1> SUFFICES ASSUME IInv, Concat PROVE IInv'
  OBVIOUS
<1>0. Strings \in Nat /\ Len(Encoded) \in Nat /\ Encoded \in Seq(Bytes)
  BY Types DEF IInv
<1>1. /\ strs # << >> /\ text' = text \o Head(strs) /\ strs' = Tail(strs)
      /\ floats' = floats /\ i' = i /\ ret' = ret /\ pc' = pc /\ pc = "concat"
  BY DEF Concat
<1>2. PICK c \in 0 .. Strings : Joining(c)
  BY <1>1 DEF IInv
<1>3. ASSUME NEW k \in 1 .. Strings PROVE String(k) \in Seq(Bytes)
  <2>1. k - 1 \in 0 .. Strings - 1 /\ (k - 1) + 1 = k
    BY <1>0
  <2>2. (k - 1) * ChunkSize \in Nat /\ End(k) \in 0 .. Len(Encoded)
    <3>1. /\ (k - 1) * ChunkSize \in 0 .. Len(Encoded)
          /\ EndOf(Len(Encoded), ChunkSize, (k - 1) + 1) \in (k - 1) * ChunkSize .. Len(Encoded)
      BY <1>0, <2>1, ChunkBounds, ChunkSizeAssumption DEF Strings
    <3> QED BY <2>1, <3>1 DEF End
  <2>3. \A p \in (k - 1) * ChunkSize + 1 .. End(k) : Encoded[p] \in Bytes
    BY <1>0, <2>2, ElementOfSeq
  <2> QED BY <2>2, <2>3, SubSeqProperties DEF String
<1>4. c < Strings
  <2>1. CASE c = Strings
    <3>1. strs = [k \in 1 .. 0 |-> String(c + k)]
      BY <1>0, <1>2, <2>1 DEF Joining
    <3> QED BY <1>1, <3>1
  <2> QED BY <1>0, <2>1
<1>5. strs \in Seq(Seq(Bytes)) /\ Len(strs) = Strings - c
        /\ \A k \in 1 .. Strings - c : strs[k] = String(c + k)
  <2>1. \A k \in 1 .. Strings - c : String(c + k) \in Seq(Bytes)
    BY <1>0, <1>3
  <2>2. strs = [k \in 1 .. Strings - c |-> String(c + k)] /\ Strings - c \in Nat
    BY <1>0, <1>2 DEF Joining
  <2> QED BY <2>1, <2>2
<1>6. Head(strs) = String(c + 1)
  BY <1>0, <1>1, <1>4, <1>5, HeadTailProperties
<1>7. Tail(strs) = [k \in 1 .. Strings - (c + 1) |-> String((c + 1) + k)]
  <2>1. /\ Tail(strs) \in Seq(Seq(Bytes))
        /\ Len(Tail(strs)) = Strings - (c + 1)
        /\ \A k \in 1 .. Strings - (c + 1) : Tail(strs)[k] = strs[k + 1]
    BY <1>0, <1>1, <1>5, HeadTailProperties
  <2>2. \A k \in 1 .. Strings - (c + 1) : strs[k + 1] = String((c + 1) + k)
    <3> SUFFICES ASSUME NEW k \in 1 .. Strings - (c + 1)
                 PROVE  strs[k + 1] = String((c + 1) + k)
      OBVIOUS
    <3>1. k + 1 \in 1 .. Strings - c /\ c + (k + 1) = (c + 1) + k
      BY <1>0
    <3> QED BY <1>5, <3>1
  <2>3. Strings - (c + 1) \in Nat
    BY <1>0, <1>4
  <2>4. \A k \in 1 .. Strings - (c + 1) : Tail(strs)[k] = String((c + 1) + k)
    BY <2>1, <2>2
  <2>5. Tail(strs) = [k \in 1 .. Len(Tail(strs)) |-> Tail(strs)[k]]
    BY <2>1, SeqIsFunction
  <2>6. Tail(strs) = [k \in 1 .. Strings - (c + 1) |-> Tail(strs)[k]]
    BY <2>1, <2>5
  <2> QED BY <2>4, <2>6
<1>8. text \o Head(strs) = SubSeq(Encoded, 1, End(c + 1))
  <2>1. /\ c \in 0 .. Strings - 1
        /\ End(c) = c * ChunkSize
        /\ End(c) \in 0 .. Len(Encoded)
        /\ End(c + 1) \in End(c) .. Len(Encoded)
    <3>1. c \in 0 .. Strings - 1
      BY <1>0, <1>4
    <3>2. /\ EndOf(Len(Encoded), ChunkSize, c) = c * ChunkSize
          /\ c * ChunkSize \in 0 .. Len(Encoded)
          /\ EndOf(Len(Encoded), ChunkSize, c + 1) \in c * ChunkSize .. Len(Encoded)
      BY <1>0, <3>1, ChunkBounds, ChunkSizeAssumption DEF Strings
    <3> QED BY <3>1, <3>2 DEF End
  <2>2. String(c + 1) = SubSeq(Encoded, End(c) + 1, End(c + 1))
    <3>1. (c + 1) - 1 = c
      OBVIOUS
    <3> QED BY <2>1, <3>1 DEF String
  <2>3. SubSeq(Encoded, 1, End(c)) \o SubSeq(Encoded, End(c) + 1, End(c + 1))
          = SubSeq(Encoded, 1, End(c + 1))
    <3>1. /\ 1 \in 1 .. Len(Encoded) + 1
          /\ End(c) \in 1 - 1 .. Len(Encoded)
      BY <1>0, <2>1
    <3> QED BY <1>0, <2>1, <3>1, ConcatAdjacentSubSeq
  <2> QED BY <1>2, <1>6, <2>2, <2>3 DEF Joining
<1>9. Joining(c + 1)' /\ c + 1 \in 0 .. Strings
  <2>1. Strings' = Strings /\ Encoded' = Encoded /\ End(c + 1)' = End(c + 1)
    BY <1>1 DEF Strings, Encoded, End
  <2>2. \A k \in 1 .. Strings - (c + 1) : String((c + 1) + k)' = String((c + 1) + k)
    BY <1>1 DEF String, Encoded, End
  <2>3. strs' = [k \in 1 .. Strings' - (c + 1) |-> String((c + 1) + k)']
    BY <1>1, <1>7, <2>1, <2>2
  <2>4. text' = SubSeq(Encoded', 1, End(c + 1)')
    <3>1. text' = SubSeq(Encoded, 1, End(c + 1))
      BY <1>1, <1>8
    <3> HIDE DEF Encoded
    <3> QED BY <2>1, <3>1
  <2>5. c + 1 \in 0 .. Strings
    BY <1>0, <1>4
  <2> QED BY <2>3, <2>4, <2>5 DEF Joining
<1>10. (\E g \in 0 .. Groups(BytesOf(floats)) : Decoding(g))'
  BY <1>1 DEF IInv, Decoding, N
<1>11. Strings' = Strings
  BY <1>1 DEF Strings, Encoded
<1>12. (\E d \in 0 .. Strings : Joining(d))'
  BY <1>9, <1>11
<1> QED BY <1>1, <1>10, <1>12 DEF IInv

LEMMA PadOK == IInv /\ Pad => IInv'
<1> SUFFICES ASSUME IInv, Pad PROVE IInv'
  OBVIOUS
<1>1. /\ strs = << >> /\ pc = "concat" /\ pc' = "decode"
      /\ text' = text \o [k \in 1 .. (-Len(text)) % 4 |-> Padding]
      /\ floats' = floats /\ i' = i /\ ret' = ret
  BY DEF Pad
<1>2. PICK c \in 0 .. Strings : Joining(c)
  BY <1>1 DEF IInv
<1>3. c = Strings
  <2>1. Strings \in Nat
    BY Types DEF IInv
  <2>2. Len(strs) = Strings - c
    <3>1. Strings - c \in Nat
      BY <2>1
    <3> QED BY <1>2, <3>1 DEF Joining
  <2>3. Len(strs) = 0
    BY <1>1
  <2> QED BY <2>1, <2>2, <2>3
<1>4. text = Encoded
  <2>1. End(Strings) = Len(Encoded)
    BY Types, ChunkBounds, ChunkSizeAssumption DEF IInv, Strings, End
  <2> QED BY <1>2, <1>3, <2>1, Types, SubSeqFull DEF Joining, IInv
<1>5. (-Len(text)) % 4 = 0
  <2>1. Len(text) = 4 * Groups(BytesOf(floats)) /\ Groups(BytesOf(floats)) \in Nat
    BY <1>4, Types DEF IInv
  <2>2. \A g \in Nat : (-(4 * g)) % 4 = 0
    OBVIOUS
  <2> QED BY <2>1, <2>2
<1>6. text' = Encoded
  <2>1. [k \in 1 .. 0 |-> Padding] = << >>
    OBVIOUS
  <2> QED BY <1>1, <1>4, <1>5, <2>1, Types, ConcatEmptySeq DEF IInv
<1>7. Encoded' = Encoded
  BY <1>1 DEF Encoded
<1>8. (\E g \in 0 .. Groups(BytesOf(floats)) : Decoding(g))'
  BY <1>1 DEF IInv, Decoding, N
<1> QED BY <1>1, <1>6, <1>7, <1>8 DEF IInv

LEMMA DecodeGroupOK == IInv /\ DecodeGroup => IInv'
<1> SUFFICES ASSUME IInv, DecodeGroup PROVE IInv'
  OBVIOUS
<1> DEFINE bytes == BytesOf(floats)
<1>1. /\ pc = "decode" /\ pc' = pc /\ i < Len(text) /\ i' = i + 4
      /\ floats' = floats /\ text' = text /\ out' = out
  BY DEF DecodeGroup
<1>2. text = Encoded
  BY <1>1 DEF IInv
<1>3. PICK g \in 0 .. Groups(bytes) : Decoding(g)
  BY DEF IInv
<1>4. /\ bytes \in Seq(Bytes) /\ Len(bytes) = N /\ N \in Nat
      /\ Len(text) = 4 * Groups(bytes) /\ Groups(bytes) \in Nat
  BY <1>2, Types DEF IInv
<1> HIDE DEF bytes
<1>5. g \in 0 .. Groups(bytes) - 1 /\ i = 4 * g /\ i' = 4 * (g + 1)
  BY <1>1, <1>3, <1>4 DEF Decoding
<1>6. 3 * g < N /\ 3 * (g + 1) = 3 * g + 3
  BY <1>4, <1>5 DEF Groups
<1>7. ret = SubSeq(bytes, 1, 3 * g)
  BY <1>3, <1>6 DEF Decoding, bytes
<1>8. ret \in Seq(Bytes)
  <2>1. \A p \in 1 .. 3 * g : bytes[p] \in Bytes
    BY <1>4, <1>5, <1>6, ElementOfSeq
  <2> QED BY <1>5, <1>7, <2>1, SubSeqProperties
<1>9. ret' = DecodedGroup(Encoded, g, ret)
  BY <1>2, <1>5 DEF DecodeGroup, DecodedGroup
<1>10. ret' = SubSeq(bytes, 1, IF 3 * (g + 1) < N THEN 3 * (g + 1) ELSE N)
  BY <1>4, <1>5, <1>6, <1>7, <1>8, <1>9, GroupDecoded DEF Encoded, bytes
<1>11. Decoding(g + 1)' /\ g + 1 \in 0 .. Groups(bytes) /\ bytes' = bytes
  BY <1>1, <1>4, <1>5, <1>10 DEF Decoding, bytes, N
<1>12. Encoded' = Encoded
  BY <1>1 DEF Encoded
<1> QED BY <1>1, <1>2, <1>11, <1>12 DEF IInv, bytes

LEMMA ReadFloatsOK == IInv /\ ReadFloats => IInv'
<1> SUFFICES ASSUME IInv, ReadFloats PROVE IInv'
  OBVIOUS
<1> DEFINE bytes == BytesOf(floats)
<1>1. /\ pc = "decode" /\ pc' = "done" /\ i >= Len(text) /\ i' = i /\ ret' = ret
      /\ floats' = floats /\ text' = text
      /\ out' = [f \in 1 .. Len(ret) \div 4 |-> SubSeq(ret, 4 * f - 3, 4 * f)]
  BY DEF ReadFloats
<1>2. text = Encoded
  BY <1>1 DEF IInv
<1>3. PICK g \in 0 .. Groups(bytes) : Decoding(g)
  BY DEF IInv
<1>4. /\ bytes \in Seq(Bytes) /\ Len(bytes) = N /\ N \in Nat
      /\ Len(text) = 4 * Groups(bytes) /\ Groups(bytes) \in Nat
      /\ floats \in Seq([1 .. 4 -> Bytes])
  BY <1>2, Types DEF IInv
<1>5. ret = bytes
  <2>1. g = Groups(bytes)
    BY <1>1, <1>3, <1>4 DEF Decoding
  <2>2. ~(3 * g < N)
    BY <1>4, <2>1 DEF Groups
  <2> HIDE DEF bytes
  <2>3. ret = SubSeq(bytes, 1, N)
    BY <1>3, <2>2 DEF Decoding, bytes
  <2> QED BY <1>4, <2>3, SubSeqFull
<1>6. Len(ret) \div 4 = Len(floats)
  BY <1>4, <1>5 DEF N
<1>7. ASSUME NEW f \in 1 .. Len(floats)
      PROVE  SubSeq(bytes, 4 * f - 3, 4 * f) = floats[f]
  <2>1. 4 * f - 3 \in Nat /\ 4 * f <= N /\ 4 * f - 3 >= 1
    BY <1>4 DEF N
  <2>2. \A k \in 1 .. 4 : bytes[4 * f - 3 + k - 1] = floats[f][k]
    <3> SUFFICES ASSUME NEW k \in 1 .. 4 PROVE bytes[4 * f - 3 + k - 1] = floats[f][k]
      OBVIOUS
    <3> DEFINE p == 4 * f - 3 + k - 1
    <3>1. p \in 1 .. 4 * Len(floats) /\ ((p - 1) \div 4) + 1 = f /\ ((p - 1) % 4) + 1 = k
      <4>1. Len(floats) \in Nat /\ f \in Nat /\ f >= 1 /\ f <= Len(floats)
        BY <1>4
      <4>2. p - 1 = 4 * (f - 1) + (k - 1) /\ f - 1 \in Nat /\ k - 1 \in 0 .. 3
        BY <4>1
      <4>3. \A h \in Nat : \A j \in 0 .. 3 : (4 * h + j) \div 4 = h /\ (4 * h + j) % 4 = j
        OBVIOUS
      <4>4. p \in 1 .. 4 * Len(floats)
        BY <4>1
      <4> HIDE DEF p
      <4>5. (p - 1) \div 4 = f - 1 /\ (p - 1) % 4 = k - 1
        BY <4>2, <4>3
      <4> QED BY <4>1, <4>4, <4>5
    <3> HIDE DEF p
    <3>2. bytes[p] = floats[((p - 1) \div 4) + 1][((p - 1) % 4) + 1]
      BY <1>4, <3>1, BytesOfType
    <3> QED BY <3>1, <3>2 DEF p
  <2>3. \A q \in 4 * f - 3 .. 4 * f : bytes[q] \in Bytes
    BY <1>4, <2>1, ElementOfSeq
  <2> HIDE DEF bytes
  <2>4. /\ SubSeq(bytes, 4 * f - 3, 4 * f) \in Seq(Bytes)
        /\ Len(SubSeq(bytes, 4 * f - 3, 4 * f)) = 4
        /\ \A k \in 1 .. 4 : SubSeq(bytes, 4 * f - 3, 4 * f)[k] = bytes[4 * f - 3 + k - 1]
    <3>1. 4 * f - 3 \in Int /\ 4 * f \in Int /\ 4 * f - (4 * f - 3) + 1 = 4
      OBVIOUS
    <3> QED BY <2>1, <2>3, <3>1, SubSeqProperties
  <2>5. floats[f] = [k \in 1 .. 4 |-> floats[f][k]]
    <3>1. floats[f] \in [1 .. 4 -> Bytes]
      BY <1>4, ElementOfSeq
    <3> QED BY <3>1
  <2>6. SubSeq(bytes, 4 * f - 3, 4 * f) = [k \in 1 .. 4 |-> SubSeq(bytes, 4 * f - 3, 4 * f)[k]]
    BY <2>4, SeqIsFunction
  <2>7. \A k \in 1 .. 4 : SubSeq(bytes, 4 * f - 3, 4 * f)[k] = floats[f][k]
    BY <2>2, <2>4
  <2> QED BY <2>5, <2>6, <2>7
<1>8. out' = floats
  <2>1. floats = [f \in 1 .. Len(floats) |-> floats[f]]
    BY <1>4, SeqIsFunction
  <2> QED BY <1>1, <1>5, <1>6, <1>7, <2>1
<1>9. Encoded' = Encoded /\ (\E h \in 0 .. Groups(BytesOf(floats)) : Decoding(h))'
  BY <1>1 DEF Encoded, IInv, Decoding, N
<1> QED BY <1>1, <1>2, <1>8, <1>9 DEF IInv

LEMMA StutterOK == IInv /\ UNCHANGED vars => IInv'
<1> SUFFICES ASSUME IInv, UNCHANGED vars PROVE IInv'
  OBVIOUS
<1>1. /\ floats' = floats /\ strs' = strs /\ text' = text /\ i' = i
      /\ ret' = ret /\ out' = out /\ pc' = pc
  BY DEF vars
<1> QED BY <1>1 DEF IInv, Joining, Decoding, N, Encoded, Strings, String, End

LEMMA Inductive == Spec => []IInv
<1>1. Init => IInv
  BY InitOK
<1>2. IInv /\ [Next]_vars => IInv'
  BY ConcatOK, PadOK, DecodeGroupOK, ReadFloatsOK, StutterOK DEF Next
<1> QED BY <1>1, <1>2, PTL DEF Spec
-----------------------------------------------------------------------------
(***************************************************************************)
(* The loop of Base64_decode stays within the text, whatever is stored,    *)
(* and does not push more than it reserved.                                *)
(***************************************************************************)
THEOREM TypeCorrect == Spec => []TypeOK
<1>1. IInv => TypeOK
  <2> SUFFICES ASSUME IInv PROVE TypeOK
    OBVIOUS
  <2> DEFINE bytes == BytesOf(floats)
  <2>1. PICK g \in 0 .. Groups(bytes) : Decoding(g)
    BY DEF IInv
  <2>2. /\ bytes \in Seq(Bytes) /\ Len(bytes) = N /\ N \in Nat
        /\ Groups(bytes) \in Nat /\ Encoded \in Seq(Bytes)
        /\ Len(Encoded) = 4 * Groups(bytes)
    BY Types DEF IInv
  <2> HIDE DEF bytes
  <2> DEFINE n == IF 3 * g < N THEN 3 * g ELSE N
  <2>3. n \in 0 .. N /\ n <= 3 * g /\ i = 4 * g
    BY <2>1, <2>2 DEF Decoding
  <2>4. ret = SubSeq(bytes, 1, n)
    BY <2>1 DEF Decoding, bytes
  <2> HIDE DEF n
  <2>5. ret \in Seq(Bytes) /\ Len(ret) = n
    <3>1. \A p \in 1 .. n : bytes[p] \in Bytes
      BY <2>2, <2>3, ElementOfSeq
    <3> QED BY <2>3, <2>4, <3>1, SubSeqProperties
  <2>6. pc # "concat" => Len(text) = 4 * Groups(bytes)
    BY <2>2 DEF IInv
  <2>7. i \in 0 .. Len(text)
    <3>1. CASE pc = "concat"
      <4>1. PICK c \in 0 .. Strings : Joining(c)
        BY <3>1 DEF IInv
      <4>2. i = 0
        BY <3>1 DEF IInv
      <4>3. End(c) \in Int /\ \A p \in 1 .. End(c) : Encoded[p] \in Bytes
        <5>1. Len(Encoded) \in Nat /\ Strings \in Nat
          BY Types DEF IInv
        <5>2. End(c) \in 0 .. Len(Encoded)
          <6>1. End(Strings) = Len(Encoded)
            BY <5>1, ChunkBounds, ChunkSizeAssumption DEF End, Strings
          <6>2. \A d \in 0 .. Strings - 1 : End(d) \in 0 .. Len(Encoded)
            <7>1. \A d \in 0 .. Strings - 1 :
                    /\ EndOf(Len(Encoded), ChunkSize, d) = d * ChunkSize
                    /\ d * ChunkSize \in 0 .. Len(Encoded)
              BY <5>1, ChunkBounds, ChunkSizeAssumption DEF Strings
            <7> QED BY <7>1 DEF End
          <6>3. c = Strings \/ c \in 0 .. Strings - 1
            BY <5>1
          <6> QED BY <5>1, <6>1, <6>2, <6>3
        <5> QED BY <2>2, <5>2, ElementOfSeq
      <4>4. text \in Seq(Bytes)
        <5> HIDE DEF Encoded
        <5> QED BY <4>1, <4>3, SubSeqProperties DEF Joining
      <4> QED BY <4>2, <4>4
    <3>2. CASE pc # "concat"
      BY <2>2, <2>3, <2>6, <3>2
    <3> QED BY <3>1, <3>2
  <2>8. pc # "concat" => Len(text) % 4 = 0
    BY <2>2, <2>6
  <2>9. i % 4 = 0 /\ 4 * Len(ret) <= 3 * i
    BY <2>2, <2>3, <2>5
  <2> QED BY <2>5, <2>7, <2>8, <2>9 DEF TypeOK, IInv, Bytes
<1> QED BY <1>1, Inductive, PTL

(***************************************************************************)
(* Whatever array is stored, in strings of whatever length, the bytes      *)
(* decoded so far are the first bytes that were encoded.                   *)
(***************************************************************************)
THEOREM NoByteLost == Spec => []DecodesPrefix
<1>1. IInv => DecodesPrefix
  <2> SUFFICES ASSUME IInv PROVE DecodesPrefix
    OBVIOUS
  <2>1. PICK g \in 0 .. Groups(BytesOf(floats)) : Decoding(g)
    BY DEF IInv
  <2>2. i \div 4 = g
    BY <2>1, Types DEF IInv, Decoding
  <2> QED BY <2>1, <2>2 DEF Decoding, DecodesPrefix, IsDecoded, N
<1> QED BY <1>1, Inductive, PTL

(***************************************************************************)
(* decode_floats returns the array encode_floats was given, and its        *)
(* assertion on the number of bytes never fails.                           *)
(***************************************************************************)
THEOREM DecodeInvertsEncode == Spec => []FloatsSurvive
<1>1. IInv => FloatsSurvive
  <2> SUFFICES ASSUME IInv, pc = "decode", i = Len(text) PROVE Divisible
    BY DEF IInv, FloatsSurvive
  <2> DEFINE bytes == BytesOf(floats)
  <2>1. PICK g \in 0 .. Groups(bytes) : Decoding(g)
    BY DEF IInv
  <2>2. /\ bytes \in Seq(Bytes) /\ Len(bytes) = N /\ N \in Nat
        /\ Groups(bytes) \in Nat /\ Len(text) = 4 * Groups(bytes)
        /\ floats \in Seq([1 .. 4 -> Bytes])
    BY Types DEF IInv
  <2>3. g = Groups(bytes)
    <3>1. i = 4 * g
      BY <2>1 DEF Decoding
    <3>2. 4 * g = 4 * Groups(bytes)
      BY <2>2, <3>1
    <3> HIDE DEF bytes
    <3> QED BY <2>1, <2>2, <3>2
  <2>4. ~(3 * g < N)
    BY <2>2, <2>3 DEF Groups
  <2> HIDE DEF bytes
  <2>5. ret = bytes
    <3>1. ret = SubSeq(bytes, 1, N)
      BY <2>1, <2>4 DEF Decoding, bytes
    <3> QED BY <2>2, <3>1, SubSeqFull
  <2>6. Len(floats) \in Nat /\ Len(ret) = 4 * Len(floats)
    BY <2>2, <2>5 DEF N
  <2> QED BY <2>6 DEF Divisible
<1> QED BY <1>1, Inductive, PTL
=============================================================================
