------------------------------- MODULE Tensor3 -------------------------------
(***************************************************************************)
(* The functions of tensor3.hpp, and the layers that only rearrange,       *)
(* combine or scale the cells of tensors.  A tensor3 is an array of the    *)
(* shape <<depth, height, width>>; cells are counted from 0.               *)
(***************************************************************************)
EXTENDS Arrays, FiniteSetsExt

Depth(t) == t.shape[1]
Height(t) == t.shape[2]
Width(t) == t.shape[3]
Get(t, z, y, x) == t.values[(z * Height(t) + y) * Width(t) + x + 1]

\* tensor3(shape3(depth, height, width), values), with the value F of each cell
Tensor(depth, height, width, F(_, _, _)) ==
  [shape |-> <<depth, height, width>>,
   values |-> [p \in 1 .. depth * height * width |->
                 F((p - 1) \div (height * width), ((p - 1) \div width) % height,
                   (p - 1) % width)]]

Spatial(t) == (0 .. Height(t) - 1) \X (0 .. Width(t) - 1)
-----------------------------------------------------------------------------
\* (height, width, depth) -> (depth, height, width) and back
DepthLastToDepthFirst(t) ==
  Tensor(Width(t), Depth(t), Height(t), LAMBDA x, z, y : Get(t, z, y, x))
\* Mutation: column by column.
ColumnByColumn(t) ==
  Tensor(Width(t), Height(t), Depth(t), LAMBDA x, y, z : Get(t, z, y, x))
DepthFirstToDepthLast(t) ==
  Tensor(Height(t), Width(t), Depth(t), LAMBDA y, x, z : Get(t, z, y, x))

\* Mutation: the cells in the order they are stored.
FlattenAsStored(t) == Reshape(t, <<Volume(t.shape), 1, 1>>)
\* push_back in the loops over y, x and z
FlattenTensor3(t) ==
  Tensor(Volume(t.shape), 1, 1,
         LAMBDA p, y0, x0 : Get(t, p % Depth(t), p \div (Depth(t) * Width(t)),
                                (p \div Depth(t)) % Width(t)))

PadTensor3(val, top, bottom, left, right, t) ==
  Tensor(Depth(t), Height(t) + top + bottom, Width(t) + left + right,
         LAMBDA z, y, x : IF <<y - top, x - left>> \in Spatial(t)
                          THEN Get(t, z, y - top, x - left) ELSE val)
CropTensor3(top, bottom, left, right, t) ==
  Tensor(Depth(t), Height(t) - (top + bottom), Width(t) - (left + right),
         LAMBDA z, y, x : Get(t, z, y + top, x + left))
UpSampling2D(scaleY, scaleX, t) ==
  Tensor(Depth(t), Height(t) * scaleY, Width(t) * scaleX,
         LAMBDA z, y, x : Get(t, z, y \div scaleY, x \div scaleX))

\* The assertions of the functions that take several tensors.
AllTheSameSize(ts) == \A i, j \in DOMAIN ts : ts[i].shape = ts[j].shape
AllTheSameArea(ts) == \A i, j \in DOMAIN ts : Tail(ts[i].shape) = Tail(ts[j].shape)

\* Mutation: all tensors are as deep as the first.
AllAsDeep(ts) ==
  [shape |-> <<Len(ts) * Depth(ts[1])>> \o Tail(ts[1].shape),
   values |-> FoldLeft(LAMBDA vs, t : vs \o t.values, << >>, ts)]
ConcatenateTensor3s(ts) ==
  [shape |-> <<FoldLeft(LAMBDA n, t : n + Depth(t), 0, ts)>> \o Tail(ts[1].shape),
   values |-> FoldLeft(LAMBDA vs, t : vs \o t.values, << >>, ts)]
SumTensor3s(ts) ==
  [ts[1] EXCEPT !.values =
     [p \in DOMAIN @ |-> FoldLeft(LAMBDA sum, t : sum + t.values[p], 0, ts)]]
MaxTensor3s(ts) ==
  [ts[1] EXCEPT !.values =
     [p \in DOMAIN @ |-> Max({ts[i].values[p] : i \in DOMAIN ts})]]

\* global_max_pooling_2d_layer and global_average_pooling_2d_layer
Channel(t, z) == {<<z, c[1], c[2]>> : c \in Spatial(t)}
ValueAt(t, c) == Get(t, c[1], c[2], c[3])
SumOver(t, cells) == FoldSet(LAMBDA c, sum : sum + ValueAt(t, c), 0, cells)
GlobalMax(t) ==
  Tensor(Depth(t), 1, 1, LAMBDA z, y, x : Max({ValueAt(t, c) : c \in Channel(t, z)}))
GlobalAverage(t) ==
  Tensor(Depth(t), 1, 1,
         LAMBDA z, y, x : SumOver(t, Channel(t, z)) \div (Height(t) * Width(t)))

\* batch_normalization_layer: one mean, gamma and beta per channel
Normalised(v, mean, gamma, beta) == (v - mean) * gamma + beta
BatchNormalized(mean, gamma, beta, t) ==
  Tensor(Depth(t), Height(t), Width(t),
         LAMBDA z, y, x : Normalised(Get(t, z, y, x), mean[z + 1], gamma[z + 1], beta[z + 1]))

\* softmax_layer: the share of a cell in the sum over the channels of its pixel.
\* Positive, as std::exp is; which function it is makes no difference here.
Exp(v) == v * v + 1
Share(v, sum) == (100 * v) \div sum
Softmax(t) ==
  LET e == [t EXCEPT !.values = [p \in DOMAIN @ |-> Exp(@[p])]] IN
  Tensor(Depth(t), Height(t), Width(t),
         LAMBDA z, y, x :
           Share(Get(e, z, y, x), SumOver(e, {<<c, y, x>> : c \in 0 .. Depth(e) - 1})))

\* tensor3_max_pos: the first of the greatest, in the order of z, y, x.
\* Mutation: the last of them.
LastMaxPos(t) ==
  Max({p \in DOMAIN t.values : \A q \in DOMAIN t.values : t.values[q] <= t.values[p]}) - 1
MaxPos(t) ==
  Min({p \in DOMAIN t.values : \A q \in DOMAIN t.values : t.values[q] <= t.values[p]}) - 1
=============================================================================
