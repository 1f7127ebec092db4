---------------------------- MODULE SlidingWindows ----------------------------
(***************************************************************************)
(* The geometry of convolution and pooling layers along one spatial axis:  *)
(* preprocess_convolution plans padding, offset and output size, then      *)
(* convolve_im2col or a pooling loop reads every tap of every window.      *)
(* Height and width are handled by the same code, each on its own; a 2D    *)
(* window is the product of one window per axis, it is empty when one of   *)
(* them is, and an output has no element when one axis has none.           *)
(*                                                                         *)
(* tensor3::get checks no index, so nothing but this arithmetic keeps the  *)
(* reads inside the tensor.  Positions are counted from the first cell of  *)
(* the input before padding; a filter tap's float is left out.             *)
(***************************************************************************)
EXTENDS Integers, FiniteSets

CONSTANTS
  Sizes,    \* heights (or widths) of an input
  Kernels,  \* heights of a filter before dilation, or of a pool
  Rates,    \* dilation rates of convolutions
  Strides

ASSUME GeometryAssumption ==
  /\ Sizes \subseteq Nat \ {0}
  /\ Kernels \subseteq Nat \ {0}
  /\ Rates \subseteq Nat \ {0}
  /\ Strides \subseteq Nat \ {0}

\* 0.001 is less than the least fraction of a quotient by the stride.
ASSUME ToleranceAssumption == \A s \in Strides : s < 1000

Layers == {"convolution", "average", "max"}
Paddings == {"valid", "same"}

(***************************************************************************)
(* C++ division and remainder of ints round towards zero.                  *)
(***************************************************************************)
CDiv(a, b) == IF a >= 0 THEN a \div b ELSE -((-a) \div b)
CMod(a, b) == a - b * CDiv(a, b)
Larger(a, b) == IF a >= b THEN a ELSE b

\* fplus::ceil(n / s - 0.001), the quotient taken as exact.
CeilRounded(n, s) == n \div s
Ceil(n, s) == -((s - 1000 * n) \div (1000 * s))
-----------------------------------------------------------------------------
VARIABLES
  layer,    \* which layer runs
  in,       \* size of its input along the axis
  kernel, rate, stride,
  pad,      \* "valid" or "same"
  shift,    \* use_offset, chosen from the flags the converter measured
  fits,     \* whether the filters have the depth of the input
  pc,       \* "plan", "slide", then "done", "threw" or "undefined"
  plan,     \* the convolution_config along the axis
  win, tap, \* loop variables: output index, index within the filter
  reads     \* reads[w]: the <<tap, position>> pairs window w has read

config == <<layer, in, kernel, rate, stride, pad, shift, fits>>
vars == <<config, pc, plan, win, tap, reads>>

Filter == kernel + (kernel - 1) * (rate - 1)      \* dilate_shape3

OutSizeOfSame == Ceil(in, stride)
OutSize == IF pad = "same" THEN Ceil(in, stride) ELSE Ceil(in - Filter + 1, stride)

PadAlong ==
  IF pad = "valid" THEN 0
  ELSE IF in % stride = 0 THEN Larger(Filter - stride, 0)
  ELSE Larger(Filter - (in % stride), 0)
PadBottomFirst == PadAlong - PadAlong \div 2
PadTop == PadAlong \div 2
PadBottom == PadAlong - PadTop

\* Mutations: the remainder is not halved; the flag is ignored.
OffsetNotHalved == IF shift THEN CMod(in + PadAlong - Filter, stride) ELSE 0
OffsetAlways == CDiv(CMod(in + PadAlong - Filter, stride), 2)
Offset == IF shift THEN CDiv(CMod(in + PadAlong - Filter, stride), 2) ELSE 0

Plan == [top |-> PadTop, bottom |-> PadBottom, offset |-> Offset, out |-> OutSize]

PositionPadAdded(w, t) == plan.offset + stride * w + t + plan.top
Position(w, t) == plan.offset + stride * w + t - plan.top
Inside(p) == p \in 0 .. in - 1

WindowLeftOneMore == win <= plan.out
WindowLeft == win < plan.out
TapLeft == tap < Filter
Note(w, t) == [reads EXCEPT ![w] = @ \cup {<<t, Position(w, t)>>}]
-----------------------------------------------------------------------------
Init ==
  /\ layer \in Layers
  /\ in \in Sizes
  /\ kernel \in Kernels
  /\ rate \in IF layer = "convolution" THEN Rates ELSE {1}
  /\ stride \in Strides
  /\ pad \in Paddings
  /\ shift \in BOOLEAN
  /\ fits \in BOOLEAN
  /\ pc = "plan"
  /\ plan = [top |-> 0, bottom |-> 0, offset |-> 0, out |-> 0]
  /\ win = 0
  /\ tap = 0
  /\ reads = [w \in {} |-> {}]

\* convolve asserts the depth of its filters before it plans anything.
WrongDepth ==
  /\ pc = "plan"
  /\ layer = "convolution"
  /\ ~fits
  /\ pc' = "threw"
  /\ UNCHANGED <<config, plan, win, tap, reads>>

\* preprocess_convolution; integral_cast_throw rejects negative results.
Preprocess ==
  /\ pc = "plan"
  /\ layer = "convolution" => fits
  /\ Plan.out >= 0
  /\ Plan.offset >= 0
  /\ plan' = Plan
  /\ reads' = [w \in 0 .. Plan.out - 1 |-> {}]
  /\ pc' = "slide"
  /\ UNCHANGED <<config, win, tap>>
NegativeSize ==
  /\ pc = "plan"
  /\ layer = "convolution" => fits
  /\ Plan.out < 0 \/ Plan.offset < 0
  /\ pc' = "threw"
  /\ UNCHANGED <<config, plan, win, tap, reads>>

\* convolve_im2col copies tap by tap, every window's cell under that tap.
Gather ==
  /\ pc = "slide"
  /\ layer = "convolution"
  /\ TapLeft
  /\ WindowLeft
  /\ reads' = Note(win, tap)
  /\ win' = win + 1
  /\ UNCHANGED <<config, pc, plan, tap>>
NextRow ==
  /\ pc = "slide"
  /\ layer = "convolution"
  /\ TapLeft
  /\ ~WindowLeft
  /\ tap' = tap + 1
  /\ win' = 0
  /\ UNCHANGED <<config, pc, plan, reads>>

\* The matrices are multiplied, and the size of the product is divided by the
\* number of windows: by zero when there is none.
Multiply ==
  /\ pc = "slide"
  /\ layer = "convolution"
  /\ ~TapLeft
  /\ pc' = IF plan.out = 0 THEN "undefined" ELSE "done"
  /\ UNCHANGED <<config, plan, win, tap, reads>>

\* A pooling layer goes window by window; get_x_y_padded answers "invalid"
\* for a position in the padding, which the loop skips.
PoolTap ==
  /\ pc = "slide"
  /\ layer # "convolution"
  /\ WindowLeft
  /\ TapLeft
  /\ reads' = IF Inside(Position(win, tap)) THEN Note(win, tap) ELSE reads
  /\ tap' = tap + 1
  /\ UNCHANGED <<config, pc, plan, win>>
PoolSet ==
  /\ pc = "slide"
  /\ layer # "convolution"
  /\ WindowLeft
  /\ ~TapLeft
  /\ win' = win + 1
  /\ tap' = 0
  /\ UNCHANGED <<config, pc, plan, reads>>
PoolEnd ==
  /\ pc = "slide"
  /\ layer # "convolution"
  /\ ~WindowLeft
  /\ pc' = "done"
  /\ UNCHANGED <<config, plan, win, tap, reads>>

Next ==
  \/ WrongDepth \/ Preprocess \/ NegativeSize
  \/ Gather \/ NextRow \/ Multiply
  \/ PoolTap \/ PoolSet \/ PoolEnd

Spec == Init /\ [][Next]_vars
-----------------------------------------------------------------------------
(***************************************************************************)
(* Type correctness: the loops stay within their bounds.                   *)
(***************************************************************************)
TypeOK ==
  /\ layer \in Layers
  /\ in \in Sizes
  /\ kernel \in Kernels
  /\ rate \in Rates \cup {1}
  /\ stride \in Strides
  /\ pad \in Paddings
  /\ shift \in BOOLEAN
  /\ fits \in BOOLEAN
  /\ pc \in {"plan", "slide", "done", "threw", "undefined"}
  /\ plan \in [top : Nat, bottom : Nat, offset : Nat, out : Nat]
  /\ win \in 0 .. plan.out
  /\ tap \in 0 .. Filter
  /\ pc # "plan" /\ pc # "threw" => DOMAIN reads = 0 .. plan.out - 1
  /\ \A w \in DOMAIN reads : reads[w] \subseteq Nat \X Int

(***************************************************************************)
(* No layer reads outside the tensor it was given: a convolution not       *)
(* outside the padded copy of the input, although offset and output size   *)
(* are computed apart from each other, a pooling layer not outside the     *)
(* input itself.                                                           *)
(***************************************************************************)
ReadsInsideTensor ==
  \A w \in DOMAIN reads : \A r \in reads[w] :
    r[2] \in IF layer = "convolution" THEN -plan.top .. in + plan.bottom - 1
             ELSE 0 .. in - 1

(***************************************************************************)
(* average_pool_2d divides by the number of cells it has found: no window  *)
(* lies in the padding altogether.                                         *)
(***************************************************************************)
WindowHasCell ==
  pc = "slide" /\ layer # "convolution" /\ WindowLeft /\ ~TapLeft => reads[win] # {}

(***************************************************************************)
(* The windows of TensorFlow's definition, which the code cites: SAME has  *)
(* ceil(in / stride) windows and pads so much that the last one ends with  *)
(* the padding, the odd cell behind; VALID has as many as fit.             *)
(***************************************************************************)
TFOut ==
  IF pad = "same" THEN (in + stride - 1) \div stride
  ELSE IF in < Filter THEN 0
  ELSE (in - Filter) \div stride + 1
TFPadding ==
  IF pad = "same" THEN Larger((TFOut - 1) * stride + Filter - in, 0) ELSE 0
TFWindow(w) ==
  {x \in {<<k, w * stride + k * rate - TFPadding \div 2>> : k \in 0 .. kernel - 1} :
     Inside(x[2])}
WeightedCells(w) ==
  {<<r[1] \div rate, r[2] - plan.offset>> :
     r \in {x \in reads[w] : x[1] % rate = 0 /\ Inside(x[2])}}

(***************************************************************************)
(* A layer that answers has combined, in every window, the filter's        *)
(* weights with the cells TensorFlow combines them with, or with the cells *)
(* that lie the offset behind those.                                       *)
(***************************************************************************)
WindowsAreTensorFlows ==
  pc = "done" =>
    /\ plan.out = TFOut
    /\ \A w \in 0 .. plan.out - 1 : WeightedCells(w) = TFWindow(w)

(***************************************************************************)
(* The offset centres the windows: what they leave out of the padded input *)
(* in front and behind differs by one cell at most.                        *)
(***************************************************************************)
WindowsCentred ==
  pc = "done" /\ shift /\ plan.out > 0 =>
    in + plan.top + plan.bottom
      - (plan.offset + stride * (plan.out - 1) + Filter) - plan.offset \in {0, 1}

(***************************************************************************)
(* With strides no longer than the filter no input is lost under "same",   *)
(* and fewer cells than one stride under "valid".                          *)
(***************************************************************************)
Unread ==
  {p \in 0 .. in - 1 : \A w \in DOMAIN reads : \A r \in reads[w] : r[2] # p}
CoversInput ==
  pc = "done" /\ plan.out > 0 /\ stride <= Filter =>
    /\ pad = "same" => Unread = {}
    /\ Cardinality(Unread) < stride

(***************************************************************************)
(* check_operation_offset of the converter runs a filter of one cell with  *)
(* stride 3 over six cells and reads an offset off the answer [1, 4], none *)
(* off [0, 3]: with the flag it then exports this code gives that answer.  *)
(***************************************************************************)
ProbeTellsOffset ==
  pc = "done" /\ in = 6 /\ kernel = 1 /\ stride = 3 =>
    [w \in DOMAIN reads |-> {r[2] : r \in reads[w]}] =
      [w \in {0, 1} |-> {3 * w + IF shift THEN 1 ELSE 0}]

(***************************************************************************)
(* "Can not calculate out_depth" is asserted of a remainder that always    *)
(* exists (convolution.hpp:116): a convolution answers or throws.          *)
(***************************************************************************)
AnswersOrThrows == pc # "undefined"
=============================================================================
