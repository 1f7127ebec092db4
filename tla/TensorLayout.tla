----------------------------- MODULE TensorLayout -----------------------------
(***************************************************************************)
(* Keras keeps the channels of an array last, frugally-deep keeps them     *)
(* first and has three axes for every tensor.  Layer after layer is        *)
(* applied here to an array, as Keras defines it, and to a tensor3, as the *)
(* code computes it.                                                       *)
(***************************************************************************)
EXTENDS Tensor3

CONSTANTS
  Inputs,        \* shapes and bytes of the input arrays
  Paddings,      \* pairs: how much a layer pads or crops before and after
  Scales,        \* factors of upsampling layers
  Low, High,     \* the interval bytes are scaled to
  ConcatAxes(_), \* ConcatAxes(r): axes along which arrays of rank r are joined
  MaxLayers,     \* bound: the number of layers
  MaxVolume      \* bound: the cells of a tensor

\* Scaling is exact.
IntervalAssumption == High > Low /\ (High - Low) % 255 = 0
ASSUME IntervalAssumption

ParametersAssumption ==
  /\ \A i \in Inputs : /\ i.shape \in Seq(Nat \ {0})
                       /\ Len(i.shape) \in 1 .. 3
                       /\ i.bytes \in [1 .. Volume(i.shape) -> 0 .. 255]
  /\ Paddings \subseteq Nat \X Nat
  /\ Scales \subseteq Nat \ {0}
  /\ Low \in Int /\ High \in Int
  /\ MaxLayers \in Nat
ASSUME ParametersAssumption

VARIABLES
  keras,      \* the array as Keras computes it
  tensor,     \* the tensor3 of frugally-deep
  keptKeras,  \* an array computed before and used again
  kept,       \* the tensor3 for it
  layers,     \* the number of layers applied
  class,      \* what predict_class returned
  bytes,      \* what tensor3_to_bytes returned
  raised      \* an assertion of the code failed

vars == <<keras, tensor, keptKeras, kept, layers, class, bytes, raised>>

Keras == INSTANCE KerasArrays

None == -1
NoBytes == << >>
NoArray == [shape |-> <<0>>, values |-> << >>]
-----------------------------------------------------------------------------
\* tensor3_from_bytes and tensor3_into_bytes
Scale == (High - Low) \div 255
Scaled(b) == Low + b * Scale
Unscaled(v) == (v - Low) \div Scale
FromBytes(shape, bs) ==
  DepthLastToDepthFirst([shape |-> shape, values |-> [p \in DOMAIN bs |-> Scaled(bs[p])]])
IntoBytes(t) ==
  LET vs == DepthFirstToDepthLast(t).values IN [p \in DOMAIN vs |-> Unscaled(vs[p])]

Init ==
  /\ \E i \in Inputs :
       /\ keras = [shape |-> i.shape, values |-> [p \in DOMAIN i.bytes |-> Scaled(i.bytes[p])]]
       /\ tensor = FromBytes(ThreeAxes(i.shape), i.bytes)
  /\ keptKeras = NoArray
  /\ kept = NoArray
  /\ layers = 0
  /\ class = None
  /\ bytes = NoBytes
  /\ raised = FALSE

Busy == ~raised /\ layers < MaxLayers
Apply(a, t) ==
  /\ Volume(a.shape) <= MaxVolume
  /\ keras' = a
  /\ tensor' = t
  /\ layers' = layers + 1
  /\ class' = None
  /\ bytes' = NoBytes
  /\ UNCHANGED <<keptKeras, kept, raised>>
Raise ==
  /\ raised' = TRUE
  /\ UNCHANGED <<keras, tensor, keptKeras, kept, layers, class, bytes>>

HasSpace == Keras!Rank(keras) > 1
PerSpatialAxis(S) == [Keras!SpatialAxes(keras) -> S]

\* The parameters of a layer for sequences are those of the width.
TopLeft(pads) == IF Len(pads) = 1 THEN <<0, 0>> \o pads[1] ELSE pads[1] \o pads[2]
CreateShape2(sizes) == IF Len(sizes) = 1 THEN <<1, sizes[1]>> ELSE sizes
-----------------------------------------------------------------------------
Flatten == Busy /\ HasSpace /\ Apply(Keras!Flattened(keras), FlattenTensor3(tensor))

ZeroPadding ==
  /\ Busy
  /\ HasSpace
  /\ \E pads \in PerSpatialAxis(Paddings) :
       LET p == TopLeft(pads) IN
       Apply(Keras!ZeroPadded(keras, pads), PadTensor3(0, p[1], p[2], p[3], p[4], tensor))

Cropping ==
  /\ Busy
  /\ HasSpace
  /\ \E crops \in PerSpatialAxis(Paddings) :
       LET p == TopLeft(crops) IN
       /\ \A k \in DOMAIN crops : crops[k][1] + crops[k][2] < keras.shape[k]
       /\ Apply(Keras!Cropped(keras, crops), CropTensor3(p[1], p[2], p[3], p[4], tensor))

UpSampling ==
  /\ Busy
  /\ HasSpace
  /\ \E sizes \in PerSpatialAxis(Scales) :
       LET s == CreateShape2(sizes) IN
       Apply(Keras!UpSampled(keras, sizes), UpSampling2D(s[1], s[2], tensor))

GlobalMaxPooling ==
  Busy /\ HasSpace /\ Apply(Keras!GlobalMaxPooled(keras), GlobalMax(tensor))
GlobalAveragePooling ==
  Busy /\ HasSpace /\ Apply(Keras!GlobalAveragePooled(keras), GlobalAverage(tensor))

\* The parameters of channel c, in this order in the weights.
Mean(c) == c
Gamma(c) == 1 - c
Beta(c) == 2 * c
PerChannel(P(_)) == [c \in 1 .. Keras!Channels(keras) |-> P(c)]
BatchNormalization ==
  /\ Busy
  /\ Apply(Keras!ForChannel(keras, LAMBDA v, c : Normalised(v, Mean(c), Gamma(c), Beta(c))),
           BatchNormalized(PerChannel(Mean), PerChannel(Gamma), PerChannel(Beta), tensor))

SoftmaxLayer ==
  /\ Busy
  /\ Apply(Keras!OverChannels(keras,
             LAMBDA v, cells :
               Share(Exp(v), FoldSet(LAMBDA i, sum : sum + Exp(Keras!At(keras, i)), 0, cells))),
           Softmax(tensor))

\* A layer, or a branch of the model, reads the tensor again later.
Keep ==
  /\ Busy
  /\ keptKeras' = keras
  /\ kept' = tensor
  /\ UNCHANGED <<keras, tensor, layers, class, bytes, raised>>

Both == <<kept, tensor>>
HasBoth == Busy /\ keptKeras # NoArray
SameShape == keptKeras.shape = keras.shape

Add ==
  /\ HasBoth
  /\ SameShape
  /\ IF AllTheSameSize(Both)
     THEN Apply(Keras!CellByCell(keptKeras, keras, LAMBDA v, w : v + w), SumTensor3s(Both))
     ELSE Raise
Maximum ==
  /\ HasBoth
  /\ SameShape
  /\ IF AllTheSameSize(Both)
     THEN Apply(Keras!CellByCell(keptKeras, keras, LAMBDA v, w : Max({v, w})),
                MaxTensor3s(Both))
     ELSE Raise
Concatenate ==
  /\ HasBoth
  /\ \E axis \in ConcatAxes(Keras!Rank(keras)) :
       /\ Keras!Concatenable(keptKeras, keras, axis)
       /\ IF AllTheSameArea(Both)
          THEN Apply(Keras!Concatenated(keptKeras, keras, axis), ConcatenateTensor3s(Both))
          ELSE Raise

\* The application at the end.
PredictClass ==
  /\ ~raised
  /\ Height(tensor) * Width(tensor) = 1
  /\ class' = MaxPos(tensor) \div (Height(tensor) * Width(tensor))
  /\ UNCHANGED <<keras, tensor, keptKeras, kept, layers, bytes, raised>>

\* Bound: the values are those of bytes.
ToBytes ==
  /\ ~raised
  /\ \A p \in DOMAIN tensor.values : tensor.values[p] \in {Scaled(b) : b \in 0 .. 255}
  /\ bytes' = IntoBytes(tensor)
  /\ UNCHANGED <<keras, tensor, keptKeras, kept, layers, class, raised>>

Next ==
  \/ Flatten \/ ZeroPadding \/ Cropping \/ UpSampling
  \/ GlobalMaxPooling \/ GlobalAveragePooling
  \/ BatchNormalization \/ SoftmaxLayer
  \/ Keep \/ Add \/ Maximum \/ Concatenate
  \/ PredictClass \/ ToBytes

Spec == Init /\ [][Next]_vars
-----------------------------------------------------------------------------
TypeOK ==
  /\ IsArray(keras) /\ IsArray(tensor) /\ IsArray(keptKeras) /\ IsArray(kept)
  /\ Keras!Rank(keras) \in 1 .. 3
  /\ Len(tensor.shape) = 3
  /\ \A k \in 1 .. 3 : tensor.shape[k] > 0
  /\ layers \in 0 .. MaxLayers
  /\ class \in Nat \cup {None}
  /\ raised \in BOOLEAN

(***************************************************************************)
(* Whatever layers were applied, the tensor3 holds the cells of Keras's    *)
(* array: channels first, time on the width, missing axes of size 1 in     *)
(* front.  It is what the order of the weights of a following layer, the   *)
(* tests in the exported file and the application rely on.                 *)
(***************************************************************************)
AsTensor3(a) == ChannelsFirst(Reshape(a, ThreeAxes(a.shape)))
SameTensor == tensor = AsTensor3(keras)

(***************************************************************************)
(* No assertion on sizes refuses what Keras accepts.                       *)
(***************************************************************************)
NothingRefused == ~raised

(***************************************************************************)
(* predict_class names the class Keras's answer has its first maximum at.  *)
(***************************************************************************)
ClassIsArgMax == class # None /\ Keras!Rank(keras) = 1 => class = Keras!ArgMax(keras)

(***************************************************************************)
(* tensor3_to_bytes gives the image row by row with its channels last, as  *)
(* tensor3_from_bytes takes it.                                            *)
(***************************************************************************)
BytesAreRows == bytes # NoBytes => bytes = [p \in DOMAIN keras.values |-> Unscaled(keras.values[p])]
=============================================================================
