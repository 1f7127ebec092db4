----------------------------- MODULE WeightLayout -----------------------------
(***************************************************************************)
(* A layer with weights or windows on its way: its weights are laid out by *)
(* Keras, flattened by convert_model.py, and split into filters and        *)
(* matrices when the model is loaded; the offset of its windows is         *)
(* measured by the converter, handed on in the file and chosen when the    *)
(* layer is applied to an image or a sequence.                             *)
(*                                                                         *)
(* Numbers are symbolic.  A weight is a number that names it, 0 if it is   *)
(* nought; a value is a sum of products, the set of the sequences of their *)
(* factors.  No product occurs twice in a sum here.                        *)
(***************************************************************************)
EXTENDS Tensor3

CONSTANTS
  KerasLayers, \* the layers: class, kernels, bias, pool, strides, dilation, padding
  Input(_),    \* the shape of the array a layer is applied to
  Shifts(_)    \* what the backend may shift, for a layer: sets of operations

VARIABLES
  layer,   \* the layer in Keras
  shifted, \* the operations whose windows the backend shifts
  params,  \* what the file holds of the layer and of the operations
  made,    \* the members of the layer of frugally-deep
  output,  \* what it returns
  phase    \* how far the layer has come

vars == <<layer, shifted, params, made, output, phase>>

None == << >>
One == {<< >>}
Times(w, value) == IF w = 0 THEN {} ELSE {<<w>> \o product : product \in value}
Dot(row, column) == UNION {Times(row[i], column[i]) : i \in DOMAIN row}

\* An input whose cells are all different unknowns, and the tensor3 of it.
InputArray == Array(Input(layer), LAMBDA idx : {<< -1 - PosOf(Input(layer), idx)>>})
InputTensor == ChannelsFirst(Reshape(InputArray, ThreeAxes(Input(layer))))

Convolutions == {"Conv1D", "Conv2D"}
MaxPoolings == {"MaxPooling1D", "MaxPooling2D"}
AveragePoolings == {"AveragePooling1D", "AveragePooling2D"}
Poolings == MaxPoolings \cup AveragePoolings
SpatialRank(l) ==
  CASE l.class = "Dense" -> 0
    [] l.class \in {"Conv1D", "MaxPooling1D", "AveragePooling1D"} -> 1
    [] l.class \in {"Conv2D", "SeparableConv2D", "MaxPooling2D", "AveragePooling2D"} -> 2
Units(l) == l.kernel.shape[Len(l.kernel.shape)]
KernelSize(l) == SubSeq(l.kernel.shape, 1, Len(l.kernel.shape) - 2)
\* How far a window of l reaches along a spatial axis, before dilation.
WindowOf(l, a) ==
  CASE l.class \in Poolings -> l.pool[a]
    [] l.class = "SeparableConv2D" -> l.depthwise.shape[a]
    [] l.class \in Convolutions -> l.kernel.shape[a]
CreateShape2(sizes) == IF Len(sizes) = 1 THEN <<1, sizes[1]>> ELSE sizes

Paddings == {"valid", "same"}

(***************************************************************************)
(* What Keras builds: weights for every position of kernels that are       *)
(* nowhere empty, an input with the channels of the kernel, and windows    *)
(* that fit into it unless it is padded.  Strides are shorter than the     *)
(* thousand at which the ceilings of the code lose a window.               *)
(***************************************************************************)
SizesOf(rank) == [1 .. rank -> Nat \ {0}]
IsKernel(w, rank) ==
  w.shape \in SizesOf(rank) /\ w.values \in [1 .. Volume(w.shape) -> Nat]
KernelFits(l, in, rank) ==
  CASE l.class \in Convolutions ->
         IsKernel(l.kernel, rank + 2) /\ l.kernel.shape[rank + 1] = in
    [] l.class = "SeparableConv2D" ->
         /\ IsKernel(l.depthwise, 4) /\ l.depthwise.shape[3] = in /\ l.depthwise.shape[4] = 1
         /\ IsKernel(l.kernel, 4) /\ SubSeq(l.kernel.shape, 1, 3) = <<1, 1, in>>
    [] l.class = "Dense" -> IsKernel(l.kernel, 2) /\ l.kernel.shape[1] = in
    [] l.class \in Poolings -> l.pool \in SizesOf(rank) /\ \A a \in 1 .. rank : l.dilation[a] = 1
ASSUME LayersAssumption ==
  \A l \in KerasLayers : LET rank == SpatialRank(l) IN
    /\ l.class \in Convolutions \cup {"SeparableConv2D", "Dense"} \cup Poolings
    /\ l.padding \in Paddings
    /\ Input(l) \in SizesOf(rank + 1)
    /\ l.strides \in SizesOf(rank) /\ \A a \in 1 .. rank : l.strides[a] < 1000
    /\ l.dilation \in SizesOf(rank)
    /\ KernelFits(l, Input(l)[rank + 1], rank)
    /\ l.class \notin Poolings => l.bias = None \/ l.bias \in [1 .. Units(l) -> Nat]
    /\ l.padding = "valid" =>
         \A a \in 1 .. rank : (WindowOf(l, a) - 1) * l.dilation[a] + 1 <= Input(l)[a]

\* Windows along one axis, as the geometry of SlidingWindows.
Axis(size, window, spread, step, padding) ==
  [size |-> size, window |-> window, spread |-> spread, step |-> step, padding |-> padding]
Along(axis, useOffset) ==
  INSTANCE SlidingWindows WITH
    Sizes <- {axis.size}, Kernels <- {axis.window},
    Rates <- {axis.spread}, Strides <- {axis.step},
    layer <- "convolution", in <- axis.size, kernel <- axis.window,
    rate <- axis.spread, stride <- axis.step, pad <- axis.padding,
    shift <- useOffset, fits <- TRUE,
    pc <- "plan", plan <- None, win <- 0, tap <- 0, reads <- None
-----------------------------------------------------------------------------
(***************************************************************************)
(* convert_model.py                                                        *)
(***************************************************************************)
PrepareFilterWeightsConv2D(w) == SwapAxes(SwapAxes(SwapAxes(w, 1, 3), 2, 4), 1, 2).values
PrepareFilterWeightsConv1D(w) == SwapAxes(w, 1, 3).values

Exported(l) ==
  CASE l.class = "Conv1D" -> [weights |-> PrepareFilterWeightsConv1D(l.kernel), bias |-> l.bias]
    [] l.class = "Conv2D" -> [weights |-> PrepareFilterWeightsConv2D(l.kernel), bias |-> l.bias]
    [] l.class = "SeparableConv2D" ->
         [slices |-> PrepareFilterWeightsConv2D(l.depthwise),
          weights |-> PrepareFilterWeightsConv2D(l.kernel), bias |-> l.bias]
    [] l.class = "Dense" -> [weights |-> l.kernel.values, bias |-> l.bias]
    [] l.class \in Poolings -> [weights |-> None, bias |-> None]

(***************************************************************************)
(* What TensorFlow does is not in its documentation: a backend shifts the  *)
(* windows of some operations by half of what they leave out, depending on *)
(* the operation, the padding and whether the input has one channel.       *)
(***************************************************************************)
Operations ==
  ({"conv2d", "separable_conv2d"} \X Paddings \X {1, 2})
    \cup ({"max_pooling_2d", "average_pooling_2d"} \X Paddings \X {1})
\* The operation Keras calls for a layer and an input of so many channels.
OperationFor(l, channels) ==
  LET depth == IF channels = 1 THEN 1 ELSE 2 IN
  CASE l.class \in Convolutions -> <<"conv2d", l.padding, depth>>
    [] l.class = "SeparableConv2D" -> <<"separable_conv2d", l.padding, depth>>
    [] l.class \in MaxPoolings -> <<"max_pooling_2d", l.padding, 1>>
    [] l.class \in AveragePoolings -> <<"average_pooling_2d", l.padding, 1>>
BackendOffset(operation, axis) ==
  LET extent == (Along(axis, FALSE)!TFOut - 1) * axis.step + (axis.window - 1) * axis.spread + 1
  IN IF operation \in shifted
     THEN (axis.size + Along(axis, FALSE)!TFPadding - extent) \div 2 ELSE 0

\* One cell of six is under every window, the windows are three apart.
CheckOperationOffset(operation) ==
  [w \in 1 .. 2 |-> 3 * (w - 1) + BackendOffset(operation, Axis(6, 1, 1, 3, operation[2]))]
    = <<1, 4>>
Offsets == {operation \in Operations : CheckOperationOffset(operation)}
-----------------------------------------------------------------------------
(***************************************************************************)
(* filter.hpp and convolution.hpp                                          *)
(***************************************************************************)
DilateTensor3(rate, t) ==
  Tensor(Depth(t), (Height(t) - 1) * rate[1] + 1, (Width(t) - 1) * rate[2] + 1,
         LAMBDA z, y, x : IF y % rate[1] = 0 /\ x % rate[2] = 0
                          THEN Get(t, z, y \div rate[1], x \div rate[2]) ELSE 0)

EnoughFor(shape, k, weights, bias) == Len(weights) = k * Volume(shape) /\ Len(bias) = k
GenerateFilters(rate, shape, k, weights, bias) ==
  LET n == Volume(shape) IN
  [f \in 1 .. k |->
     [m |-> DilateTensor3(rate, [shape |-> shape,
                                 values |-> SubSeq(weights, (f - 1) * n + 1, f * n)]),
      bias |-> bias[f]]]

\* A row of generate_im2col_filter_matrix, and the column of convolve_im2col
\* for the window at y, x.
Row(filter) == filter.m.values \o <<filter.bias>>
Column(filter, strides, cfg, t, y, x) ==
  Tensor(Depth(filter.m), Height(filter.m), Width(filter.m),
         LAMBDA zf, yf, xf : Get(t, zf, cfg.y.offset + strides[1] * y + yf,
                                 cfg.x.offset + strides[2] * x + xf)).values
  \o <<One>>

\* The plan along the height and the one along the width.
PreprocessConvolution(height, width, strides, padding, useOffset, t) ==
  [y |-> Along(Axis(Height(t), height, 1, strides[1], padding), useOffset)!Plan,
   x |-> Along(Axis(Width(t), width, 1, strides[2], padding), useOffset)!Plan]

Convolve(filters, strides, padding, useOffset, t) ==
  LET m == filters[1].m
      cfg == PreprocessConvolution(Height(m), Width(m), strides, padding, useOffset, t)
      padded == PadTensor3({}, cfg.y.top, cfg.y.bottom, cfg.x.top, cfg.x.bottom, t)
  IN Tensor(Len(filters), cfg.y.out, cfg.x.out,
            LAMBDA f, y, x :
              Dot(Row(filters[f + 1]), Column(filters[f + 1], strides, cfg, padded, y, x)))

(***************************************************************************)
(* max_pool_2d and average_pool_2d.  get_x_y_padded answers "invalid"      *)
(* outside the tensor, which is never the greatest and not counted.  The   *)
(* greatest of different unknowns is known by their set; a mean is a sum   *)
(* of cells, each with the divisor.                                        *)
(***************************************************************************)
Pool2D(size, strides, padding, useOffset, t, F(_)) ==
  LET cfg == PreprocessConvolution(size[1], size[2], strides, padding, useOffset, t)
      place(y, x, yf, xf) == <<cfg.y.offset + strides[1] * y + yf - cfg.y.top,
                               cfg.x.offset + strides[2] * x + xf - cfg.x.top>>
      cells(z, y, x) ==
        {Get(t, z, p[1], p[2]) :
           p \in {place(y, x, yf, xf) : yf \in 0 .. size[1] - 1, xf \in 0 .. size[2] - 1}
                  \cap Spatial(t)}
  IN Tensor(Depth(t), cfg.y.out, cfg.x.out, LAMBDA z, y, x : F(cells(z, y, x)))
Greatest(cells) == UNION cells
Mean(cells) == UNION {Times(Cardinality(cells), v) : v \in cells}
-----------------------------------------------------------------------------
(***************************************************************************)
(* import_model.hpp: the counts a creator checks, and what it makes.       *)
(***************************************************************************)
\* Absent biases are noughts.
Trained == params.trainable_params
Bias == IF Trained.bias = None THEN [f \in 1 .. Units(layer) |-> 0] ELSE Trained.bias
Size2 == CreateShape2(KernelSize(layer))
Area == Size2[1] * Size2[2]
\* Mutation: the weights of all filters in one.
AllInOne == <<Len(Trained.weights) \div Area, Size2[1], Size2[2]>>
FilterShape == <<Len(Trained.weights) \div (Area * Units(layer)), Size2[1], Size2[2]>>
SliceSize == CreateShape2(SubSeq(layer.depthwise.shape, 1, 2))
InputDepth == Len(Trained.slices) \div (SliceSize[1] * SliceSize[2])
Slices == [z \in 1 .. InputDepth |-> 0]

EigenMatFromValues(height, width, values) == [shape |-> <<height, width>>, values |-> values]
\* dense_layer::generate_params: a matrix row by row, the bias its last row.
DenseParams ==
  EigenMatFromValues((Len(Trained.weights) \div Len(Bias)) + 1, Len(Bias), Trained.weights \o Bias)

\* The counts the creators, generate_filters, dense_layer and
\* eigen_mat_from_values assert.
CountsFit ==
  /\ layer.class \notin Poolings => Len(Bias) = Units(layer)
  /\ CASE layer.class \in Convolutions ->
            /\ Len(Trained.weights) % Area = 0
            /\ EnoughFor(FilterShape, Units(layer), Trained.weights, Bias)
       [] layer.class = "SeparableConv2D" ->
            /\ Len(Trained.slices) % (SliceSize[1] * SliceSize[2]) = 0
            /\ Len(Trained.weights) % Units(layer) = 0
            /\ Len(Trained.weights) \div InputDepth = Units(layer)
            /\ EnoughFor(<<1>> \o SliceSize, InputDepth, Trained.slices, Slices)
            /\ EnoughFor(<<InputDepth, 1, 1>>, Units(layer), Trained.weights, Bias)
       [] layer.class = "Dense" ->
            /\ Len(Trained.weights) % Len(Bias) = 0
            /\ Len(Trained.weights) % Units(layer) = 0
            /\ IsArray(DenseParams)
       [] layer.class \in Poolings -> TRUE

\* The flags of the operation a layer performs, as its constructor takes them.
Flag(operation, padding, depth) == <<operation, padding, depth>> \in params.offsets
Flags(operation) ==
  [valid_depth_1 |-> Flag(operation, "valid", 1), same_depth_1 |-> Flag(operation, "same", 1),
   valid_depth_2 |-> Flag(operation, "valid", 2), same_depth_2 |-> Flag(operation, "same", 2)]
PoolFlags(operation) ==
  [valid |-> Flag(operation, "valid", 1), same |-> Flag(operation, "same", 1)]

Made ==
  CASE layer.class \in Convolutions ->
         [filters |-> GenerateFilters(CreateShape2(layer.dilation), FilterShape, Units(layer),
                                      Trained.weights, Bias),
          flags |-> Flags("conv2d")]
    [] layer.class = "SeparableConv2D" ->
         [flags |-> Flags("separable_conv2d"),
          depthwise |-> GenerateFilters(layer.dilation, <<1>> \o SliceSize, InputDepth,
                                        Trained.slices, Slices),
          pointwise |-> GenerateFilters(<<1, 1>>, <<InputDepth, 1, 1>>, Units(layer),
                                        Trained.weights, Bias)]
    [] layer.class = "Dense" -> DenseParams
    [] layer.class \in MaxPoolings -> PoolFlags("max_pooling_2d")
    [] layer.class \in AveragePoolings -> PoolFlags("average_pooling_2d")
-----------------------------------------------------------------------------
(***************************************************************************)
(* apply_impl of the layers                                                *)
(***************************************************************************)
\* Mutation: the flags measured with one channel for every input.
SameForAllDepths(depth) ==
  \/ layer.padding = "valid" /\ made.flags.valid_depth_1
  \/ layer.padding = "same" /\ made.flags.same_depth_1
UseOffset(depth) ==
  IF depth = 1
  THEN \/ layer.padding = "valid" /\ made.flags.valid_depth_1
       \/ layer.padding = "same" /\ made.flags.same_depth_1
  ELSE \/ layer.padding = "valid" /\ made.flags.valid_depth_2
       \/ layer.padding = "same" /\ made.flags.same_depth_2
PoolUseOffset ==
  \/ layer.padding = "valid" /\ made.valid
  \/ layer.padding = "same" /\ made.same

\* A tensor2 is an array of the shape <<height, width>>.
DepthSlices(t) ==
  [z \in 1 .. Depth(t) |->
     Array(<<Height(t), Width(t)>>, LAMBDA p : Get(t, z - 1, p[1], p[2]))]
Tensor2ToTensor3(m) == Reshape(m, <<1>> \o m.shape)
SeparablyConvolved(t) ==
  LET slices == DepthSlices(t)
      temp == [z \in DOMAIN slices |->
                 Convolve(<<made.depthwise[z]>>, layer.strides, layer.padding,
                          UseOffset(Len(slices)), Tensor2ToTensor3(slices[z]))]
  IN Convolve(made.pointwise, <<1, 1>>, "valid", FALSE, ConcatenateTensor3s(temp))

DenselyApplied(t) ==
  LET padded == t.values \o <<One>> IN
  Tensor(made.shape[2], 1, 1,
         LAMBDA u, y, x :
           Dot([i \in 1 .. made.shape[1] |-> At(made, <<i - 1, u>>)], padded))

Applied(t) ==
  LET strides == CreateShape2(layer.strides) IN
  CASE layer.class \in Convolutions ->
         Convolve(made.filters, strides, layer.padding, UseOffset(Depth(t)), t)
    [] layer.class = "SeparableConv2D" -> SeparablyConvolved(t)
    [] layer.class = "Dense" -> DenselyApplied(t)
    [] layer.class \in MaxPoolings ->
         Pool2D(CreateShape2(layer.pool), strides, layer.padding, PoolUseOffset, t, Greatest)
    [] layer.class \in AveragePoolings ->
         Pool2D(CreateShape2(layer.pool), strides, layer.padding, PoolUseOffset, t, Mean)

InputFits(t) ==
  CASE layer.class \in Convolutions -> Depth(made.filters[1].m) = Depth(t)
    [] layer.class = "SeparableConv2D" -> Len(made.depthwise) = Depth(t)
    [] layer.class = "Dense" -> Height(t) = 1 /\ Width(t) = 1
    [] layer.class \in Poolings -> TRUE
-----------------------------------------------------------------------------
Init ==
  /\ layer \in KerasLayers
  /\ shifted \in Shifts(layer)
  /\ params = None
  /\ made = None
  /\ output = None
  /\ phase = "trained"

Export ==
  /\ phase = "trained"
  /\ params' = [offsets |-> Offsets, trainable_params |-> Exported(layer)]
  /\ phase' = "exported"
  /\ UNCHANGED <<layer, shifted, made, output>>
Load ==
  /\ phase = "exported"
  /\ CountsFit
  /\ made' = Made
  /\ phase' = "loaded"
  /\ UNCHANGED <<layer, shifted, params, output>>
ApplyLayer ==
  /\ phase = "loaded"
  /\ InputFits(InputTensor)
  /\ output' = Applied(InputTensor)
  /\ phase' = "applied"
  /\ UNCHANGED <<layer, shifted, params, made>>

Next == Export \/ Load \/ ApplyLayer
Spec == Init /\ [][Next]_vars
-----------------------------------------------------------------------------
(***************************************************************************)
(* Every layer Keras has trained gets as far as being applied: no count    *)
(* that is checked on the way is wrong.                                    *)
(***************************************************************************)
NothingRefused ==
  /\ phase = "exported" => CountsFit
  /\ phase = "loaded" => InputFits(InputTensor)

(***************************************************************************)
(* A layer yields as many channels and windows as Keras's, and each value  *)
(* is the one TensorFlow defines: for channel f at each window, the sum of *)
(* each kernel weight of f times the input cell under it and of the bias   *)
(* of f; for separable convolutions in two steps, for dense layers with    *)
(* all cells; for pooling layers the greatest or the mean of the cells     *)
(* inside the image.  The windows lie where the backend has them, which    *)
(* the code knows by the converter's measurements only.                    *)
(***************************************************************************)
Positions(w) == {IndexOf(w.shape, p - 1) : p \in DOMAIN w.values}
BiasTerm(f) == IF layer.bias = None THEN {} ELSE Times(layer.bias[f + 1], One)

Rank == Len(Input(layer)) - 1
AxisOf(a) ==
  Axis(Input(layer)[a], WindowOf(layer, a), layer.dilation[a], layer.strides[a], layer.padding)
FirstCell(a) ==
  BackendOffset(OperationFor(layer, Input(layer)[Rank + 1]), AxisOf(a))
    - Along(AxisOf(a), FALSE)!TFPadding \div 2
Windows(a) == 0 .. Along(AxisOf(a), FALSE)!TFOut - 1

\* The input cell the kernel's cell k lies over, and its value; k and out are
\* spatial indices followed by a channel.
Under(k, out) ==
  [a \in 1 .. Rank + 1 |->
     IF a > Rank THEN k[a]
     ELSE FirstCell(a) + out[a] * layer.strides[a] + k[a] * layer.dilation[a]]
IsCell(idx) == \A a \in 1 .. Rank : idx[a] \in 0 .. Input(layer)[a] - 1
ValueUnder(k, out) == IF IsCell(Under(k, out)) THEN At(InputArray, Under(k, out)) ELSE {}

KerasConvolution(out, f) ==
  (UNION {Times(At(layer.kernel, k), ValueUnder(k, out)) :
            k \in {q \in Positions(layer.kernel) : q[Len(q)] = f}}) \cup BiasTerm(f)
KerasSeparable(out, f) ==
  (UNION {Times(At(layer.kernel, <<0, 0, d[3], f>>),
                Times(At(layer.depthwise, d), ValueUnder(d, out))) :
            d \in Positions(layer.depthwise)}) \cup BiasTerm(f)
KerasDense(f) ==
  (UNION {Times(At(layer.kernel, <<i, f>>), At(InputArray, <<i>>)) :
            i \in 0 .. layer.kernel.shape[1] - 1}) \cup BiasTerm(f)
PoolCells(out, f) ==
  LET taps == {IndexOf(layer.pool, p - 1) : p \in 1 .. Volume(layer.pool)} IN
  {At(InputArray, idx) :
     idx \in {i \in {Under(Append(tap, f), out) : tap \in taps} : IsCell(i)}}
KerasValue(y, x, f) ==
  LET out == IF Rank = 1 THEN <<x>> ELSE <<y, x>> IN
  CASE layer.class \in Convolutions -> KerasConvolution(out, f)
    [] layer.class = "SeparableConv2D" -> KerasSeparable(out, f)
    [] layer.class = "Dense" -> KerasDense(f)
    [] layer.class \in MaxPoolings -> UNION PoolCells(out, f)
    [] layer.class \in AveragePoolings ->
         UNION {Times(Cardinality(PoolCells(out, f)), v) : v \in PoolCells(out, f)}

KerasWindows ==
  CASE Rank = 0 -> {<<0, 0>>}
    [] Rank = 1 -> {0} \X Windows(1)
    [] Rank = 2 -> Windows(1) \X Windows(2)
KerasChannels == IF layer.class \in Poolings THEN Input(layer)[Rank + 1] ELSE Units(layer)
OutputIsKeras ==
  phase = "applied" =>
    /\ Depth(output) = KerasChannels
    /\ Spatial(output) = KerasWindows
    /\ \A f \in 0 .. KerasChannels - 1 : \A c \in Spatial(output) :
      Get(output, f, c[1], c[2]) = KerasValue(c[1], c[2], f)
=============================================================================
