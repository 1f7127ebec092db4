------------------------------- MODULE Arrays -------------------------------
(***************************************************************************)
(* Arrays of any rank, stored in the order of C, as NumPy and tensor3 do:  *)
(* the last index varies fastest.  A tensor3 is an array of the shape      *)
(* <<depth, height, width>>.                                               *)
(***************************************************************************)
EXTENDS Integers, Sequences, SequencesExt

Volume(shape) ==
  LET upTo[k \in 0 .. Len(shape)] == IF k = 0 THEN 1 ELSE upTo[k - 1] * shape[k]
  IN upTo[Len(shape)]

\* How far apart two cells are that differ by one in index k.
Stride(shape, k) == Volume(SubSeq(shape, k + 1, Len(shape)))
IndexOf(shape, pos) == [k \in 1 .. Len(shape) |-> (pos \div Stride(shape, k)) % shape[k]]
PosOf(shape, idx) ==
  LET upTo[k \in 0 .. Len(shape)] == IF k = 0 THEN 0 ELSE upTo[k - 1] * shape[k] + idx[k]
  IN upTo[Len(shape)]

IsArray(a) == Len(a.values) = Volume(a.shape)
Array(shape, F(_)) ==
  [shape |-> shape,
   values |-> [p \in 1 .. Volume(shape) |-> F(IndexOf(shape, p - 1))]]
At(a, idx) == a.values[PosOf(a.shape, idx) + 1]

Swapped(s, i, j) == [s EXCEPT ![i] = s[j], ![j] = s[i]]

\* numpy.swapaxes (axes counted from 1) and numpy.reshape
SwapAxes(a, i, j) ==
  Array(Swapped(a.shape, i, j), LAMBDA idx : At(a, Swapped(idx, i, j)))
Reshape(a, shape) == [shape |-> shape, values |-> a.values]

\* The shape of an image, the axes a smaller array lacks being of size 1.
ThreeAxes(shape) == SubSeq(<<1, 1, 1>>, 1, 3 - Len(shape)) \o shape

\* swapaxes(swapaxes(a, 2, 1), 1, 0) of an array with the channels last: the
\* cells of one channel after those of another.
ChannelsFirst(a) ==
  LET n == a.shape[1] * a.shape[2] IN
  LET c == a.shape[3] IN
  [shape |-> <<c, a.shape[1], a.shape[2]>>,
   values |-> [p \in 1 .. n * c |-> a.values[((p - 1) % n) * c + ((p - 1) \div n) + 1]]]

\* An array whose cells all differ.
Numbered(shape) == [shape |-> shape, values |-> [p \in 1 .. Volume(shape) |-> p]]
=============================================================================
