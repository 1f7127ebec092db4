----------------------------- MODULE KerasArrays -----------------------------
(***************************************************************************)
(* What Keras's layers are defined to do to an array without its batch     *)
(* axis: <<height, width, channels>>, <<time, channels>> or <<units>>.     *)
(* The last axis is the channels; the others are spatial.                  *)
(***************************************************************************)
EXTENDS Arrays, FiniteSetsExt

Rank(a) == Len(a.shape)
Axes(a) == 1 .. Rank(a)
SpatialAxes(a) == 1 .. Rank(a) - 1
Channels(a) == a.shape[Rank(a)]
Indices(a) == {IndexOf(a.shape, p - 1) : p \in DOMAIN a.values}

\* The sizes of the spatial axes changed by Size, the channels kept.
Resized(a, Size(_)) ==
  [k \in Axes(a) |-> IF k \in SpatialAxes(a) THEN Size(k) ELSE a.shape[k]]
\* The index of the cell that an index of the new array takes its value from.
Source(a, idx, From(_, _)) ==
  [k \in Axes(a) |-> IF k \in SpatialAxes(a) THEN From(k, idx[k]) ELSE idx[k]]
-----------------------------------------------------------------------------
Flattened(a) == Reshape(a, <<Volume(a.shape)>>)

\* pads[k] and crops[k]: how much before and after along spatial axis k
ZeroPadded(a, pads) ==
  LET from(idx) == Source(a, idx, LAMBDA k, i : i - pads[k][1]) IN
  Array(Resized(a, LAMBDA k : pads[k][1] + a.shape[k] + pads[k][2]),
        LAMBDA idx : IF \A k \in Axes(a) : from(idx)[k] \in 0 .. a.shape[k] - 1
                     THEN At(a, from(idx)) ELSE 0)
Cropped(a, crops) ==
  Array(Resized(a, LAMBDA k : a.shape[k] - crops[k][1] - crops[k][2]),
        LAMBDA idx : At(a, Source(a, idx, LAMBDA k, i : i + crops[k][1])))
UpSampled(a, size) ==
  Array(Resized(a, LAMBDA k : a.shape[k] * size[k]),
        LAMBDA idx : At(a, Source(a, idx, LAMBDA k, i : i \div size[k])))

\* The values of one channel, cell by cell.
OfChannel(a, c) == {idx \in Indices(a) : idx[Rank(a)] = c}
Total(a, cells) == FoldSet(LAMBDA idx, sum : sum + At(a, idx), 0, cells)
GlobalMaxPooled(a) ==
  Array(<<Channels(a)>>, LAMBDA i : Max({At(a, idx) : idx \in OfChannel(a, i[1])}))
GlobalAveragePooled(a) ==
  Array(<<Channels(a)>>,
        LAMBDA i : Total(a, OfChannel(a, i[1])) \div (Volume(a.shape) \div Channels(a)))

\* Concatenate(axis): the axes other than it are of the same sizes.
Concatenable(a, b, axis) ==
  Rank(a) = Rank(b) /\ \A k \in Axes(a) \ {axis} : a.shape[k] = b.shape[k]
Concatenated(a, b, axis) ==
  LET n == a.shape[axis] IN
  Array([a.shape EXCEPT ![axis] = n + b.shape[axis]],
        LAMBDA idx : IF idx[axis] < n THEN At(a, idx)
                     ELSE At(b, [idx EXCEPT ![axis] = @ - n]))

CellByCell(a, b, F(_, _)) == Array(a.shape, LAMBDA idx : F(At(a, idx), At(b, idx)))
ForChannel(a, F(_, _)) == Array(a.shape, LAMBDA idx : F(At(a, idx), idx[Rank(a)] + 1))
\* F(v, cells): of a value and the cells of its pixel
OverChannels(a, F(_, _)) ==
  Array(a.shape, LAMBDA idx : F(At(a, idx), {[idx EXCEPT ![Rank(a)] = c] :
                                               c \in 0 .. Channels(a) - 1}))

\* numpy.argmax of a vector
ArgMax(a) == Min({i \in 0 .. Volume(a.shape) - 1 :
                    \A idx \in Indices(a) : At(a, idx) <= At(a, <<i>>)})
=============================================================================
