------------------------- MODULE SlidingWindowsProofs -------------------------
(***************************************************************************)
(* What SlidingWindows promises for every size, filter, dilation, stride   *)
(* and padding: the loops keep their bounds, no read leaves the tensor, no *)
(* average is taken over nothing, and the offset centres the windows.      *)
(*                                                                         *)
(* The argument is about one number, Free: how far the first window can    *)
(* move in the padded input.  The last window starts s * (out - 1) behind  *)
(* the first, which is Free less the remainder the offset halves.          *)
(***************************************************************************)
EXTENDS SlidingWindows, FiniteSetTheorems, TLAPS

-----------------------------------------------------------------------------
(***************************************************************************)
(* Arithmetic.                                                             *)
(***************************************************************************)

\* Quotient and remainder by a positive number.
LEMMA DivMod ==
  ASSUME NEW a \in Int, NEW b \in Nat, b > 0
  PROVE  /\ a \div b \in Int
         /\ a % b \in Nat
         /\ a % b < b
         /\ a = b * (a \div b) + (a % b)
  OBVIOUS

\* Multiplication by a stride is monotonic.
LEMMA TimesMonotonic ==
  ASSUME NEW s \in Nat, NEW v \in Int, NEW w \in Int, w <= v
  PROVE  s * w <= s * v
  OBVIOUS

\* A multiple that is not above s * q + r, with r < s, is not above s * q.
LEMMA MultipleBelow ==
  ASSUME NEW s \in Nat, NEW q \in Int, NEW k \in Int, NEW r \in Nat, r < s,
         s * k <= s * q + r
  PROVE  s * k <= s * q
<1>1. CASE k <= q
  BY <1>1, TimesMonotonic
<1>2. CASE k > q
  <2>1. s * (q + 1) <= s * k
    BY <1>2, TimesMonotonic
  <2>2. s * (q + 1) = s * q + s
    OBVIOUS
  <2> QED  BY <2>1, <2>2
<1> QED  BY <1>1, <1>2

\* fplus::ceil(n / s - 0.001): one less, taken s times, is below n.
LEMMA CeilBelow ==
  ASSUME NEW n \in Int, NEW s \in Nat, s > 0
  PROVE  /\ Ceil(n, s) \in Int
         /\ s * (Ceil(n, s) - 1) < n
<1> DEFINE a == s - 1000 * n
           d == 1000 * s
           q == a \div d
<1>1. /\ q \in Int /\ a % d \in Nat /\ a % d < d
      /\ a = d * q + (a % d)
  BY DivMod, d \in Nat, d > 0, a \in Int
<1>2. Ceil(n, s) = -q
  BY DEF Ceil
<1>3. s * (-q - 1) = -(s * q) - s
  BY <1>1
<1>4. d * q = 1000 * (s * q)
  BY <1>1
<1>5. s * q \in Int
  BY <1>1
<1>6. 1000 * (s * q) > s - 1000 * n - 1000 * s
  BY <1>1, <1>4, <1>5
<1> QED  BY <1>1, <1>2, <1>3, <1>5, <1>6

\* With strides below 1000 it is the ceiling: s times it reaches n.
LEMMA CeilReaches ==
  ASSUME NEW n \in Int, NEW s \in Nat, s > 0, s < 1000
  PROVE  s * Ceil(n, s) >= n
<1> DEFINE a == s - 1000 * n
           d == 1000 * s
           q == a \div d
<1>1. /\ q \in Int /\ a % d \in Nat /\ a % d < d
      /\ a = d * q + (a % d)
  BY DivMod, d \in Nat, d > 0, a \in Int
<1>2. Ceil(n, s) = -q
  BY DEF Ceil
<1>3. s * (-q) = -(s * q)
  BY <1>1
<1>4. d * q = 1000 * (s * q)
  BY <1>1
<1>5. s * q \in Int
  BY <1>1
<1>6. 1000 * (s * q) <= s - 1000 * n
  BY <1>1, <1>4, <1>5
<1> QED  BY <1>2, <1>3, <1>5, <1>6

\* The half of a remainder, as C++ computes it from what is not negative.
LEMMA HalfOfRemainder ==
  ASSUME NEW a \in Nat, NEW s \in Nat, s > 0
  PROVE  /\ CMod(a, s) = a % s
         /\ CDiv(CMod(a, s), 2) \in Nat
         /\ (a % s) - 2 * CDiv(CMod(a, s), 2) \in {0, 1}
<1>1. /\ a \div s \in Int /\ a % s \in Nat
      /\ a = s * (a \div s) + (a % s)
  BY DivMod
<1>2. CMod(a, s) = a % s
  BY <1>1 DEF CMod, CDiv
<1>3. CDiv(a % s, 2) = (a % s) \div 2
  BY <1>1 DEF CDiv
<1> QED  BY <1>1, <1>2, <1>3
-----------------------------------------------------------------------------
(***************************************************************************)
(* The geometry of one layer.                                              *)
(***************************************************************************)
ConfigOK ==
  /\ layer \in Layers
  /\ in \in Sizes
  /\ kernel \in Kernels
  /\ rate \in Rates \cup {1}
  /\ stride \in Strides
  /\ pad \in Paddings
  /\ shift \in BOOLEAN
  /\ fits \in BOOLEAN

\* How many cells the first window can move before it leaves the padded input.
Free == in + PadAlong - Filter

LEMMA ConfigNumbers ==
  ASSUME ConfigOK
  PROVE  /\ in \in Nat /\ in > 0
         /\ kernel \in Nat /\ kernel > 0
         /\ rate \in Nat /\ rate > 0
         /\ stride \in Nat /\ stride > 0 /\ stride < 1000
         /\ Filter \in Nat /\ Filter > 0
<1>1. /\ in \in Nat /\ in > 0
      /\ kernel \in Nat /\ kernel > 0
      /\ rate \in Nat /\ rate > 0
      /\ stride \in Nat /\ stride > 0 /\ stride < 1000
  BY GeometryAssumption, ToleranceAssumption DEF ConfigOK
<1>2. (kernel - 1) * (rate - 1) \in Nat
  <2>1. kernel - 1 \in Nat /\ rate - 1 \in Nat
    BY <1>1
  <2>2. ASSUME NEW a \in Nat, NEW b \in Nat PROVE a * b \in Nat
    OBVIOUS
  <2> QED  BY <2>1, <2>2
<1> QED  BY <1>1, <1>2 DEF Filter

\* There is less padding than one filter, and it is halved, the odd cell behind.
LEMMA PaddingOK ==
  ASSUME ConfigOK
  PROVE  /\ PadAlong \in 0 .. Filter - 1
         /\ PadTop \in Nat
         /\ PadBottom \in Nat
         /\ PadTop + PadBottom = PadAlong
<1>1. /\ in \in Nat /\ stride \in Nat /\ stride > 0
      /\ Filter \in Nat /\ Filter > 0
  BY ConfigNumbers
<1>2. in % stride \in Nat
  BY <1>1, DivMod
<1>3. PadAlong \in 0 .. Filter - 1
  BY <1>1, <1>2 DEF PadAlong, Larger
<1> QED  BY <1>3 DEF PadTop, PadBottom

\* The last window starts where the last one that fits starts.
LEMMA LastWindow ==
  ASSUME ConfigOK
  PROVE  /\ OutSize \in Int
         /\ Free \in Int
         /\ stride * (OutSize - 1) <= Free
         /\ Free < stride * OutSize
<1>1. /\ in \in Nat /\ in > 0
      /\ stride \in Nat /\ stride > 0 /\ stride < 1000
      /\ Filter \in Nat /\ Filter > 0
  BY ConfigNumbers
<1>2. PadAlong \in Nat
  BY PaddingOK
<1>3. CASE pad = "valid"
  <2>1. in - Filter + 1 \in Int
    BY <1>1
  <2>2. OutSize = Ceil(in - Filter + 1, stride)
    BY <1>3 DEF OutSize
  <2>3. Free = in - Filter
    BY <1>1, <1>3 DEF Free, PadAlong
  <2>4. OutSize \in Int /\ stride * (OutSize - 1) < in - Filter + 1
    BY <1>1, <2>1, <2>2, CeilBelow
  <2>5. stride * OutSize >= in - Filter + 1
    BY <1>1, <2>1, <2>2, CeilReaches
  <2>6. stride * (OutSize - 1) \in Int /\ stride * OutSize \in Int
    BY <1>1, <2>4
  <2> QED  BY <1>1, <2>3, <2>4, <2>5, <2>6
<1>4. CASE pad # "valid"
  <2>1. OutSize = Ceil(in, stride)
    BY <1>4 DEF OutSize, ConfigOK, Paddings
  <2>2. OutSize \in Int /\ stride * (OutSize - 1) < in
    BY <1>1, <2>1, CeilBelow
  <2>3. stride * OutSize >= in
    BY <1>1, <2>1, CeilReaches
  <2> DEFINE q == in \div stride
             r == in % stride
  <2>4. /\ q \in Int /\ r \in Nat /\ r < stride
        /\ in = stride * q + r
    BY <1>1, DivMod
  <2>5. PadAlong = IF r = 0 THEN Larger(Filter - stride, 0) ELSE Larger(Filter - r, 0)
    BY <1>4 DEF PadAlong
  <2>6. stride * OutSize \in Int /\ stride * (OutSize - 1) \in Int
    BY <1>1, <2>2
  <2>7. Free < stride * OutSize
    BY <1>1, <2>3, <2>4, <2>5, <2>6 DEF Free, Larger
  <2>8. CASE r = 0
    <3>1. stride * (OutSize - 1) <= stride * (q - 1) + (stride - 1)
      BY <1>1, <2>2, <2>4, <2>8
    <3>2. stride * (OutSize - 1) <= stride * (q - 1)
      BY <1>1, <2>2, <2>4, <3>1, MultipleBelow
    <3>3. Free >= in - stride
      BY <1>1, <2>5, <2>8 DEF Free, Larger
    <3> QED  BY <1>1, <1>2, <2>2, <2>4, <2>6, <2>7, <2>8, <3>2, <3>3 DEF Free
  <2>9. CASE r # 0
    <3>1. stride * (OutSize - 1) <= stride * q
      BY <1>1, <2>2, <2>4, <2>6, MultipleBelow
    <3>2. Free >= in - r
      BY <1>1, <2>4, <2>5, <2>9 DEF Free, Larger
    <3> QED  BY <1>1, <1>2, <2>2, <2>4, <2>6, <2>7, <3>1, <3>2 DEF Free
  <2> QED  BY <2>8, <2>9
<1> QED  BY <1>3, <1>4

\* The first window fits when there is one; with the offset in front and the
\* other half of the remainder behind, the last one does.
LEMMA OffsetOK ==
  ASSUME ConfigOK, OutSize > 0
  PROVE  /\ Free \in Nat
         /\ Offset \in Nat
         /\ Offset + stride * (OutSize - 1) <= Free
         /\ shift => Free - stride * (OutSize - 1) - 2 * Offset \in {0, 1}
<1>1. /\ stride \in Nat /\ stride > 0
      /\ OutSize \in Int /\ Free \in Int
      /\ stride * (OutSize - 1) <= Free
      /\ Free < stride * OutSize
  BY ConfigNumbers, LastWindow
<1>2. Free \in Nat
  <2>1. stride * 0 <= stride * (OutSize - 1)
    BY <1>1, TimesMonotonic
  <2> QED  BY <1>1, <2>1
<1> DEFINE q == Free \div stride
           r == Free % stride
<1>3. /\ q \in Int /\ r \in Nat /\ r < stride
      /\ Free = stride * q + r
  BY <1>1, <1>2, DivMod
<1>4. stride * (OutSize - 1) <= stride * q
  BY <1>1, <1>3, MultipleBelow
<1>5. stride * q <= stride * (OutSize - 1)
  <2>1. CASE q <= OutSize - 1
    BY <1>1, <1>3, <2>1, TimesMonotonic
  <2>2. CASE q > OutSize - 1
    <3>1. stride * OutSize <= stride * q
      BY <1>1, <1>3, <2>2, TimesMonotonic
    <3> QED  BY <1>1, <1>3, <3>1
  <2> QED  BY <1>1, <1>3, <2>1, <2>2
<1>6. Free - stride * (OutSize - 1) = r
  BY <1>1, <1>3, <1>4, <1>5
<1>7. Offset = IF shift THEN CDiv(CMod(Free, stride), 2) ELSE 0
  BY DEF Offset, Free
<1>8. /\ CDiv(CMod(Free, stride), 2) \in Nat
      /\ r - 2 * CDiv(CMod(Free, stride), 2) \in {0, 1}
  BY <1>1, <1>2, HalfOfRemainder
<1> QED  BY <1>1, <1>2, <1>3, <1>6, <1>7, <1>8

\* Every tap of every window lies in the padded input.
LEMMA TapInside ==
  ASSUME ConfigOK, plan = Plan, plan.offset \in Nat,
         NEW w \in 0 .. plan.out - 1, NEW t \in 0 .. Filter - 1
  PROVE  /\ plan.out \in Nat /\ plan.out > 0
         /\ stride * w \in Nat
         /\ plan.offset + stride * w <= Free
         /\ Position(w, t) \in -plan.top .. in + plan.bottom - 1
<1>1. /\ stride \in Nat /\ in \in Nat
      /\ Filter \in Nat
      /\ PadAlong \in Nat /\ PadTop \in Nat /\ PadBottom \in Nat
      /\ PadTop + PadBottom = PadAlong
  BY ConfigNumbers, PaddingOK
<1>2. /\ plan.out = OutSize /\ plan.offset = Offset
      /\ plan.top = PadTop /\ plan.bottom = PadBottom
  BY DEF Plan
<1>3. OutSize \in Nat /\ OutSize > 0 /\ w \in Nat /\ w <= OutSize - 1
  BY <1>2, LastWindow
<1>4. Offset + stride * (OutSize - 1) <= Free /\ Free \in Nat /\ Offset \in Nat
  BY <1>3, OffsetOK
<1>5. stride * w <= stride * (OutSize - 1) /\ stride * w \in Nat
      /\ stride * (OutSize - 1) \in Int
  BY <1>1, <1>3, TimesMonotonic
<1>6. Offset + stride * w <= Free
  BY <1>4, <1>5
<1> QED  BY <1>1, <1>2, <1>3, <1>4, <1>5, <1>6 DEF Position, Free

\* Every window has a tap on a cell of the input.
LEMMA TapOnCell ==
  ASSUME ConfigOK, plan = Plan, plan.offset \in Nat, NEW w \in 0 .. plan.out - 1
  PROVE  \E t \in 0 .. Filter - 1 : Inside(Position(w, t))
<1>1. /\ in \in Nat /\ in > 0
      /\ Filter \in Nat /\ Filter > 0
      /\ PadAlong \in 0 .. Filter - 1 /\ PadTop \in Nat /\ PadBottom \in Nat
      /\ PadTop + PadBottom = PadAlong
      /\ plan.top = PadTop
  BY ConfigNumbers, PaddingOK DEF Plan
<1>2. 0 \in 0 .. Filter - 1
  BY <1>1
<1>3. stride * w \in Nat /\ plan.offset + stride * w <= Free
  BY <1>2, TapInside
<1> DEFINE start == plan.offset + stride * w - plan.top
<1>4. start \in Int /\ start >= -(Filter - 1) /\ start <= in - 1
  BY <1>1, <1>3 DEF Free
<1>5. CASE start >= 0
  BY <1>1, <1>2, <1>3, <1>4, <1>5 DEF Position, Inside
<1>6. CASE start < 0
  <2>1. -start \in 0 .. Filter - 1
    BY <1>1, <1>4, <1>6
  <2>2. Position(w, -start) = 0
    BY <1>1, <1>3 DEF Position
  <2> QED  BY <1>1, <2>1, <2>2 DEF Inside
<1> QED  BY <1>4, <1>5, <1>6
-----------------------------------------------------------------------------
(***************************************************************************)
(* The inductive invariant: once planned, the plan is the geometry of the  *)
(* configuration; every recorded read is where the formula puts it; and a  *)
(* pooling window has read every tap that lies on a cell up to tap.        *)
(***************************************************************************)
PlanOK ==
  /\ pc \in {"plan", "slide", "done", "threw", "undefined"}
  /\ plan \in [top : Nat, bottom : Nat, offset : Nat, out : Nat]
  /\ pc \in {"slide", "done", "undefined"} => plan = Plan
  /\ pc \in {"plan", "threw"} => plan.out = 0 /\ tap = 0

LoopOK ==
  /\ win \in 0 .. plan.out
  /\ tap \in 0 .. Filter
  /\ reads = [w \in 0 .. plan.out - 1 |-> reads[w]]

ReadOK(w, r) ==
  /\ r \in Nat \X Int
  /\ r[1] \in 0 .. Filter - 1
  /\ r[2] = Position(w, r[1])
  /\ layer # "convolution" => Inside(r[2])
ReadsOK == \A w \in 0 .. plan.out - 1 : \A r \in reads[w] : ReadOK(w, r)

HasRead(w, t) == Inside(Position(w, t)) => <<t, Position(w, t)>> \in reads[w]
PoolOK ==
  pc \in {"slide", "done"} /\ layer # "convolution" =>
    /\ \A w \in 0 .. win - 1 : \A t \in 0 .. Filter - 1 : HasRead(w, t)
    /\ win < plan.out => \A t \in 0 .. tap - 1 : HasRead(win, t)
    /\ pc = "done" => win = plan.out
GatherOK ==
  pc \in {"slide", "done"} /\ layer = "convolution" =>
    /\ \A w \in 0 .. plan.out - 1 : \A t \in 0 .. tap - 1 : HasRead(w, t)
    /\ tap < Filter => \A w \in 0 .. win - 1 : HasRead(w, tap)
    /\ pc = "done" => tap = Filter

IInv == ConfigOK /\ PlanOK /\ LoopOK /\ ReadsOK /\ PoolOK /\ GatherOK

LEMMA InitOK == Init => IInv
<1> SUFFICES ASSUME Init PROVE IInv
  OBVIOUS
<1>1. ConfigOK
  BY DEF Init, ConfigOK
<1>2. Filter \in Nat
  BY <1>1, ConfigNumbers
<1>3. PlanOK
  BY DEF Init, PlanOK
<1>4. LoopOK
  BY <1>2 DEF Init, LoopOK
<1>5. ReadsOK /\ PoolOK /\ GatherOK
  BY DEF Init, ReadsOK, PoolOK, GatherOK
<1> QED  BY <1>1, <1>3, <1>4, <1>5 DEF IInv

\* Nothing but the plan changes a position, and the configuration never changes.
LEMMA Unchanged ==
  ASSUME UNCHANGED config
  PROVE  /\ ConfigOK => ConfigOK'
         /\ Filter' = Filter /\ Plan' = Plan
         /\ \A p : Inside(p)' = Inside(p)
         /\ plan' = plan => \A w, t : Position(w, t)' = Position(w, t)
<1>1. /\ layer' = layer /\ in' = in /\ kernel' = kernel /\ rate' = rate
      /\ stride' = stride /\ pad' = pad /\ shift' = shift /\ fits' = fits
  BY DEF config
<1>2. ConfigOK => ConfigOK'
  BY <1>1 DEF ConfigOK
<1>3. Filter' = Filter
  BY <1>1 DEF Filter
<1>4. PadAlong' = PadAlong
  BY <1>1, <1>3 DEF PadAlong
<1>5. Offset' = Offset /\ OutSize' = OutSize
  BY <1>1, <1>3, <1>4 DEF Offset, OutSize
<1>6. Plan' = Plan
  BY <1>4, <1>5 DEF Plan, PadTop, PadBottom
<1> QED  BY <1>1, <1>2, <1>3, <1>6 DEF Inside, Position

LEMMA PreprocessOK == IInv /\ Preprocess => IInv'
<1> SUFFICES ASSUME IInv, Preprocess PROVE IInv'
  OBVIOUS
<1> USE DEF IInv
<1>1. /\ UNCHANGED config /\ pc = "plan" /\ pc' = "slide"
      /\ plan' = Plan /\ Plan.out >= 0 /\ Plan.offset >= 0
      /\ reads' = [w \in 0 .. Plan.out - 1 |-> {}]
      /\ win' = win /\ tap' = tap
  BY DEF Preprocess
<1>2. ConfigOK' /\ Filter' = Filter /\ Plan' = Plan
  BY <1>1, Unchanged
<1>3. win = 0 /\ tap \in 0 .. Filter
  BY <1>1 DEF PlanOK, LoopOK
<1>4. Plan.out \in Nat /\ Plan.offset \in Nat /\ Plan.top \in Nat /\ Plan.bottom \in Nat
  <2>1. Plan.out \in Int
    BY LastWindow DEF Plan
  <2>2. Plan.top \in Nat /\ Plan.bottom \in Nat
    BY PaddingOK DEF Plan
  <2>3. Plan.offset \in Int
    <3>1. /\ PadAlong \in Int /\ Filter \in Int /\ in \in Int
          /\ stride \in Nat /\ stride > 0
      BY PaddingOK, ConfigNumbers
    <3>2. \A a \in Int, b \in Nat : b > 0 => CDiv(a, b) \in Int
      BY DivMod DEF CDiv
    <3>3. \A a \in Int, b \in Nat : b > 0 => CMod(a, b) \in Int
      BY <3>2 DEF CMod
    <3> QED  BY <3>1, <3>2, <3>3 DEF Plan, Offset
  <2> QED  BY <1>1, <2>1, <2>2, <2>3
<1>5. PlanOK'
  BY <1>1, <1>2, <1>4 DEF PlanOK, Plan
<1>6. LoopOK'
  BY <1>1, <1>2, <1>3, <1>4 DEF LoopOK
<1>7. ReadsOK'
  BY <1>1 DEF ReadsOK
<1>8. tap = 0
  BY <1>1 DEF PlanOK
<1> QED  BY <1>1, <1>2, <1>3, <1>5, <1>6, <1>7, <1>8 DEF PoolOK, GatherOK

LEMMA RejectOK == IInv /\ (WrongDepth \/ NegativeSize) => IInv'
<1> SUFFICES ASSUME IInv, WrongDepth \/ NegativeSize PROVE IInv'
  OBVIOUS
<1>1. /\ UNCHANGED config /\ pc = "plan" /\ pc' = "threw"
      /\ plan' = plan /\ win' = win /\ tap' = tap /\ reads' = reads
  BY DEF WrongDepth, NegativeSize
<1>2. ConfigOK' /\ Filter' = Filter
  BY <1>1, Unchanged DEF IInv
<1>3. PlanOK' /\ LoopOK'
  BY <1>1, <1>2 DEF IInv, PlanOK, LoopOK
<1>4. ReadsOK' /\ PoolOK' /\ GatherOK'
  BY <1>1 DEF IInv, PlanOK, ReadsOK, PoolOK, GatherOK
<1> QED  BY <1>2, <1>3, <1>4 DEF IInv

\* A step of a loop that records one read, if any.
LEMMA RecordOK ==
  ASSUME IInv, UNCHANGED config, plan' = plan, plan = Plan,
         NEW v \in 0 .. plan.out - 1, NEW u \in 0 .. Filter - 1,
         \/ reads' = Note(v, u) /\ (layer # "convolution" => Inside(Position(v, u)))
         \/ reads' = reads /\ ~Inside(Position(v, u))
  PROVE  /\ reads' = [w \in 0 .. plan.out - 1 |-> reads'[w]]
         /\ ReadsOK'
         /\ \A w \in 0 .. plan.out - 1 : reads[w] \subseteq reads'[w]
         /\ HasRead(v, u)'
<1>1. /\ Filter' = Filter
      /\ \A p : Inside(p)' = Inside(p)
      /\ \A w, t : Position(w, t)' = Position(w, t)
      /\ layer' = layer
  BY Unchanged DEF config
<1>2. plan.out \in Nat /\ plan.offset \in Nat
  BY DEF IInv, PlanOK
<1>3. reads = [w \in 0 .. plan.out - 1 |-> reads[w]]
  BY DEF IInv, LoopOK
<1>4. u \in Nat /\ Position(v, u) \in Int
  <2>1. /\ Filter \in Nat /\ in \in Int
        /\ plan.top \in Int /\ plan.bottom \in Int
    BY ConfigNumbers DEF IInv, PlanOK
  <2>2. Position(v, u) \in -plan.top .. in + plan.bottom - 1
    BY <1>2, TapInside DEF IInv
  <2> QED  BY <2>1, <2>2
<1>5. ReadsOK
  BY DEF IInv
<1>6. CASE reads' = Note(v, u) /\ (layer # "convolution" => Inside(Position(v, u)))
  <2>1. reads' = [w \in 0 .. plan.out - 1 |->
                    IF w = v THEN reads[w] \cup {<<u, Position(v, u)>>} ELSE reads[w]]
    BY <1>3, <1>6 DEF Note
  <2>2. ReadOK(v, <<u, Position(v, u)>>)
    BY <1>4, <1>6 DEF ReadOK
  <2>3. \A w \in 0 .. plan.out - 1 : \A r \in reads'[w] : ReadOK(w, r)
    BY <1>5, <2>1, <2>2 DEF ReadsOK
  <2>4. ReadsOK'
    BY <1>1, <2>3 DEF ReadsOK, ReadOK
  <2>5. HasRead(v, u)'
    <3> DEFINE here == <<u, Position(v, u)>>
    <3>1. here \in reads'[v]
      BY <2>1
    <3> QED  BY <1>1, <3>1 DEF HasRead
  <2> QED  BY <2>1, <2>4, <2>5
<1>7. CASE reads' = reads /\ ~Inside(Position(v, u))
  <2>1. ReadsOK'
    BY <1>1, <1>5, <1>7 DEF ReadsOK, ReadOK
  <2> QED  BY <1>1, <1>3, <1>7, <2>1 DEF HasRead
<1> QED  BY <1>6, <1>7

LEMMA GatherStepOK == IInv /\ Gather => IInv'
<1> SUFFICES ASSUME IInv, Gather PROVE IInv'
  OBVIOUS
<1>1. /\ UNCHANGED config /\ pc = "slide" /\ pc' = pc /\ plan' = plan
      /\ layer = "convolution" /\ layer' = layer
      /\ tap < Filter /\ win < plan.out
      /\ reads' = Note(win, tap) /\ win' = win + 1 /\ tap' = tap
  BY DEF Gather, TapLeft, WindowLeft, config
<1>2. /\ ConfigOK' /\ Filter' = Filter /\ Plan' = Plan
      /\ \A p : Inside(p)' = Inside(p)
      /\ \A w, t : Position(w, t)' = Position(w, t)
  BY <1>1, Unchanged DEF IInv
<1>3. /\ plan = Plan /\ plan.out \in Nat /\ win \in Nat /\ tap \in Nat
      /\ Filter \in Nat
  BY <1>1, ConfigNumbers DEF IInv, PlanOK, LoopOK
<1>4. PICK v \in 0 .. plan.out - 1, u \in 0 .. Filter - 1 : v = win /\ u = tap
  BY <1>1, <1>3
<1>5. /\ reads' = [w \in 0 .. plan.out - 1 |-> reads'[w]]
      /\ ReadsOK'
      /\ \A w \in 0 .. plan.out - 1 : reads[w] \subseteq reads'[w]
      /\ HasRead(v, u)'
  BY <1>1, <1>3, <1>4, RecordOK
<1>6. PlanOK' /\ LoopOK' /\ PoolOK'
  BY <1>1, <1>2, <1>3, <1>5 DEF IInv, PlanOK, LoopOK, PoolOK
<1>7. GatherOK'
  <2>1. ASSUME NEW w \in 0 .. plan.out - 1, NEW t \in 0 .. Filter - 1, HasRead(w, t)
        PROVE  HasRead(w, t)'
    BY <1>2, <1>5, <2>1 DEF HasRead
  <2>2. \A w \in 0 .. plan.out - 1 : \A t \in 0 .. tap - 1 : HasRead(w, t)'
    BY <1>1, <1>3, <2>1 DEF IInv, GatherOK
  <2>3. ASSUME NEW w \in 0 .. win PROVE HasRead(w, u)'
    <3>1. w \in 0 .. plan.out - 1
      BY <1>1, <1>3
    <3>2. CASE w = v
      BY <1>5, <3>2
    <3>3. CASE w # v
      <4>1. HasRead(w, u)
        BY <1>1, <1>3, <1>4, <3>3 DEF IInv, GatherOK
      <4> QED  BY <2>1, <3>1, <4>1
    <3> QED  BY <3>2, <3>3
  <2> QED  BY <1>1, <1>2, <1>3, <1>4, <2>2, <2>3 DEF GatherOK
<1> QED  BY <1>2, <1>5, <1>6, <1>7 DEF IInv

LEMMA NextRowOK == IInv /\ NextRow => IInv'
<1> SUFFICES ASSUME IInv, NextRow PROVE IInv'
  OBVIOUS
<1>1. /\ UNCHANGED config /\ pc = "slide" /\ pc' = pc /\ plan' = plan
      /\ layer = "convolution" /\ layer' = layer /\ reads' = reads
      /\ tap < Filter /\ ~(win < plan.out) /\ win' = 0 /\ tap' = tap + 1
  BY DEF NextRow, TapLeft, WindowLeft, config
<1>2. /\ ConfigOK' /\ Filter' = Filter /\ Plan' = Plan
      /\ \A p : Inside(p)' = Inside(p)
      /\ \A w, t : Position(w, t)' = Position(w, t)
  BY <1>1, Unchanged DEF IInv
<1>3. /\ plan = Plan /\ plan.out \in Nat /\ win = plan.out /\ tap \in Nat
      /\ Filter \in Nat
  BY <1>1, ConfigNumbers DEF IInv, PlanOK, LoopOK
<1>4. PlanOK' /\ LoopOK' /\ PoolOK'
  BY <1>1, <1>2, <1>3 DEF IInv, PlanOK, LoopOK, PoolOK
<1>5. ReadsOK'
  BY <1>1, <1>2 DEF IInv, ReadsOK, ReadOK
<1>6. GatherOK'
  <2>1. \A w \in 0 .. plan.out - 1 : \A t \in 0 .. tap : HasRead(w, t)
    BY <1>1, <1>3 DEF IInv, GatherOK
  <2>2. \A w, t : HasRead(w, t) => HasRead(w, t)'
    BY <1>1, <1>2 DEF HasRead
  <2> QED  BY <1>1, <1>3, <2>1, <2>2 DEF GatherOK
<1> QED  BY <1>2, <1>4, <1>5, <1>6 DEF IInv

LEMMA MultiplyOK == IInv /\ Multiply => IInv'
<1> SUFFICES ASSUME IInv, Multiply PROVE IInv'
  OBVIOUS
<1>1. /\ UNCHANGED config /\ pc = "slide" /\ pc' \in {"done", "undefined"}
      /\ plan' = plan /\ layer = "convolution" /\ layer' = layer
      /\ reads' = reads /\ win' = win /\ tap' = tap /\ ~(tap < Filter)
  BY DEF Multiply, TapLeft, config
<1>2. /\ ConfigOK' /\ Filter' = Filter /\ Plan' = Plan
      /\ \A p : Inside(p)' = Inside(p)
      /\ \A w, t : Position(w, t)' = Position(w, t)
  BY <1>1, Unchanged DEF IInv
<1>3. plan = Plan /\ tap = Filter /\ Filter \in Nat
  BY <1>1, ConfigNumbers DEF IInv, PlanOK, LoopOK
<1>4. PlanOK' /\ LoopOK' /\ PoolOK'
  BY <1>1, <1>2, <1>3 DEF IInv, PlanOK, LoopOK, PoolOK
<1>5. ReadsOK'
  BY <1>1, <1>2 DEF IInv, ReadsOK, ReadOK
<1>6. \A w, t : HasRead(w, t) => HasRead(w, t)'
  BY <1>1, <1>2 DEF HasRead
<1>7. GatherOK'
  BY <1>1, <1>2, <1>3, <1>6 DEF IInv, GatherOK
<1> QED  BY <1>2, <1>4, <1>5, <1>7 DEF IInv

LEMMA PoolTapOK == IInv /\ PoolTap => IInv'
<1> SUFFICES ASSUME IInv, PoolTap PROVE IInv'
  OBVIOUS
<1>1. /\ UNCHANGED config /\ pc = "slide" /\ pc' = pc /\ plan' = plan
      /\ layer # "convolution" /\ layer' = layer
      /\ tap < Filter /\ win < plan.out
      /\ reads' = IF Inside(Position(win, tap)) THEN Note(win, tap) ELSE reads
      /\ win' = win /\ tap' = tap + 1
  BY DEF PoolTap, TapLeft, WindowLeft, config
<1>2. /\ ConfigOK' /\ Filter' = Filter /\ Plan' = Plan
      /\ \A p : Inside(p)' = Inside(p)
      /\ \A w, t : Position(w, t)' = Position(w, t)
  BY <1>1, Unchanged DEF IInv
<1>3. /\ plan = Plan /\ plan.out \in Nat /\ win \in Nat /\ tap \in Nat
      /\ Filter \in Nat
  BY <1>1, ConfigNumbers DEF IInv, PlanOK, LoopOK
<1>4. PICK v \in 0 .. plan.out - 1, u \in 0 .. Filter - 1 : v = win /\ u = tap
  BY <1>1, <1>3
<1>5. /\ reads' = [w \in 0 .. plan.out - 1 |-> reads'[w]]
      /\ ReadsOK'
      /\ \A w \in 0 .. plan.out - 1 : reads[w] \subseteq reads'[w]
      /\ HasRead(v, u)'
  <2>1. \/ reads' = Note(v, u) /\ (layer # "convolution" => Inside(Position(v, u)))
        \/ reads' = reads /\ ~Inside(Position(v, u))
    BY <1>1, <1>4
  <2> QED  BY <1>1, <1>3, <2>1, RecordOK
<1>6. PlanOK' /\ LoopOK' /\ GatherOK'
  BY <1>1, <1>2, <1>3, <1>5 DEF IInv, PlanOK, LoopOK, GatherOK
<1>7. PoolOK'
  <2>1. ASSUME NEW w \in 0 .. plan.out - 1, NEW t \in 0 .. Filter - 1, HasRead(w, t)
        PROVE  HasRead(w, t)'
    BY <1>2, <1>5, <2>1 DEF HasRead
  <2>2. \A w \in 0 .. win - 1 : \A t \in 0 .. Filter - 1 : HasRead(w, t)'
    BY <1>1, <1>3, <2>1 DEF IInv, PoolOK
  <2>3. ASSUME NEW t \in 0 .. tap PROVE HasRead(v, t)'
    <3>1. t \in 0 .. Filter - 1
      BY <1>1, <1>3
    <3>2. CASE t = u
      BY <1>5, <3>2
    <3>3. CASE t # u
      <4>1. HasRead(v, t)
        BY <1>1, <1>3, <1>4, <3>3 DEF IInv, PoolOK
      <4> QED  BY <2>1, <3>1, <4>1
    <3> QED  BY <3>2, <3>3
  <2>4. \A t \in 0 .. tap' - 1 : HasRead(v, t)'
    BY <1>1, <1>3, <2>3
  <2> QED  BY <1>1, <1>2, <1>3, <1>4, <2>2, <2>4 DEF PoolOK, HasRead
<1> QED  BY <1>2, <1>5, <1>6, <1>7 DEF IInv

LEMMA PoolSetOK == IInv /\ PoolSet => IInv'
<1> SUFFICES ASSUME IInv, PoolSet PROVE IInv'
  OBVIOUS
<1>1. /\ UNCHANGED config /\ pc = "slide" /\ pc' = pc /\ plan' = plan
      /\ layer # "convolution" /\ layer' = layer /\ reads' = reads
      /\ ~(tap < Filter) /\ win < plan.out /\ win' = win + 1 /\ tap' = 0
  BY DEF PoolSet, TapLeft, WindowLeft, config
<1>2. /\ ConfigOK' /\ Filter' = Filter /\ Plan' = Plan
      /\ \A p : Inside(p)' = Inside(p)
      /\ \A w, t : Position(w, t)' = Position(w, t)
  BY <1>1, Unchanged DEF IInv
<1>3. /\ plan = Plan /\ plan.out \in Nat /\ win \in Nat /\ tap = Filter
      /\ Filter \in Nat
  BY <1>1, ConfigNumbers DEF IInv, PlanOK, LoopOK
<1>4. PlanOK' /\ LoopOK' /\ GatherOK'
  BY <1>1, <1>2, <1>3 DEF IInv, PlanOK, LoopOK, GatherOK
<1>5. ReadsOK'
  BY <1>1, <1>2 DEF IInv, ReadsOK, ReadOK
<1>6. PoolOK'
  <2>1. \A w \in 0 .. win : \A t \in 0 .. Filter - 1 : HasRead(w, t)
    BY <1>1, <1>3 DEF IInv, PoolOK
  <2>2. \A w, t : HasRead(w, t) => HasRead(w, t)'
    BY <1>1, <1>2 DEF HasRead
  <2> QED  BY <1>1, <1>2, <1>3, <2>1, <2>2 DEF PoolOK
<1> QED  BY <1>2, <1>4, <1>5, <1>6 DEF IInv

LEMMA PoolEndOK == IInv /\ PoolEnd => IInv'
<1> SUFFICES ASSUME IInv, PoolEnd PROVE IInv'
  OBVIOUS
<1>1. /\ UNCHANGED config /\ pc = "slide" /\ pc' = "done"
      /\ plan' = plan /\ layer # "convolution" /\ layer' = layer
      /\ reads' = reads /\ win' = win /\ tap' = tap /\ ~(win < plan.out)
  BY DEF PoolEnd, WindowLeft, config
<1>2. /\ ConfigOK' /\ Filter' = Filter /\ Plan' = Plan
      /\ \A p : Inside(p)' = Inside(p)
      /\ \A w, t : Position(w, t)' = Position(w, t)
  BY <1>1, Unchanged DEF IInv
<1>3. plan = Plan /\ plan.out \in Nat /\ win = plan.out
  BY <1>1 DEF IInv, PlanOK, LoopOK
<1>4. PlanOK' /\ LoopOK' /\ GatherOK'
  BY <1>1, <1>2, <1>3 DEF IInv, PlanOK, LoopOK, GatherOK
<1>5. ReadsOK'
  BY <1>1, <1>2 DEF IInv, ReadsOK, ReadOK
<1>6. \A w, t : HasRead(w, t) => HasRead(w, t)'
  BY <1>1, <1>2 DEF HasRead
<1>7. PoolOK'
  BY <1>1, <1>2, <1>3, <1>6 DEF IInv, PoolOK
<1> QED  BY <1>2, <1>4, <1>5, <1>7 DEF IInv

LEMMA StutterOK == IInv /\ UNCHANGED vars => IInv'
<1> SUFFICES ASSUME IInv, UNCHANGED vars PROVE IInv'
  OBVIOUS
<1>1. /\ UNCHANGED config /\ pc' = pc /\ plan' = plan
      /\ win' = win /\ tap' = tap /\ reads' = reads
      /\ layer' = layer
  BY DEF vars, config
<1>2. /\ ConfigOK' /\ Filter' = Filter /\ Plan' = Plan
      /\ \A p : Inside(p)' = Inside(p)
      /\ \A w, t : Position(w, t)' = Position(w, t)
  BY <1>1, Unchanged DEF IInv
<1>3. \A w, t : HasRead(w, t)' = HasRead(w, t)
  BY <1>1, <1>2 DEF HasRead
<1> QED  BY <1>1, <1>2, <1>3
  DEF IInv, PlanOK, LoopOK, ReadsOK, ReadOK, PoolOK, GatherOK

THEOREM Invariance == Spec => []IInv
<1>1. Init => IInv
  BY InitOK
<1>2. IInv /\ [Next]_vars => IInv'
  BY PreprocessOK, RejectOK, GatherStepOK, NextRowOK, MultiplyOK,
     PoolTapOK, PoolSetOK, PoolEndOK, StutterOK DEF Next
<1> QED  BY <1>1, <1>2, PTL DEF Spec
-----------------------------------------------------------------------------
(***************************************************************************)
(* The loops of every layer keep their bounds.                             *)
(***************************************************************************)
THEOREM TypeCorrect == Spec => []TypeOK
<1>1. IInv => TypeOK
  <2> SUFFICES ASSUME IInv PROVE TypeOK
    OBVIOUS
  <2>1. ConfigOK /\ PlanOK /\ LoopOK /\ ReadsOK
    BY DEF IInv
  <2>2. DOMAIN reads = 0 .. plan.out - 1
    BY <2>1 DEF LoopOK
  <2>3. \A w \in DOMAIN reads : reads[w] \subseteq Nat \X Int
    BY <2>1, <2>2 DEF ReadsOK, ReadOK
  <2> QED  BY <2>1, <2>2, <2>3 DEF TypeOK, ConfigOK, PlanOK, LoopOK
<1> QED  BY Invariance, <1>1, PTL

(***************************************************************************)
(* No read leaves the tensor, whatever the sizes: tensor3::get needs no    *)
(* check of its own.                                                       *)
(***************************************************************************)
THEOREM NoReadOutside == Spec => []ReadsInsideTensor
<1>1. IInv => ReadsInsideTensor
  <2> SUFFICES ASSUME IInv, NEW w \in DOMAIN reads, NEW r \in reads[w]
               PROVE  r[2] \in IF layer = "convolution"
                               THEN -plan.top .. in + plan.bottom - 1
                               ELSE 0 .. in - 1
    BY DEF ReadsInsideTensor
  <2>1. w \in 0 .. plan.out - 1 /\ ReadOK(w, r)
    BY DEF IInv, LoopOK, ReadsOK
  <2>2. ConfigOK /\ plan = Plan /\ plan.offset \in Nat
    BY <2>1 DEF IInv, PlanOK
  <2>3. CASE layer = "convolution"
    BY <2>1, <2>2, <2>3, TapInside DEF ReadOK
  <2>4. CASE layer # "convolution"
    BY <2>1, <2>4 DEF ReadOK, Inside
  <2> QED  BY <2>3, <2>4
<1> QED  BY Invariance, <1>1, PTL

(***************************************************************************)
(* average_pool_2d never divides by zero: every window has met a cell.     *)
(***************************************************************************)
THEOREM NoEmptyWindow == Spec => []WindowHasCell
<1>1. IInv => WindowHasCell
  <2> SUFFICES ASSUME IInv, pc = "slide", layer # "convolution", WindowLeft, ~TapLeft
               PROVE  reads[win] # {}
    BY DEF WindowHasCell
  <2>1. /\ ConfigOK /\ plan = Plan /\ plan.offset \in Nat
        /\ win \in 0 .. plan.out - 1 /\ tap = Filter
    BY ConfigNumbers DEF IInv, PlanOK, LoopOK, WindowLeft, TapLeft
  <2>2. PICK t \in 0 .. Filter - 1 : Inside(Position(win, t))
    BY <2>1, TapOnCell
  <2>3. HasRead(win, t)
    BY <2>1, <2>2 DEF IInv, PoolOK, WindowLeft
  <2> QED  BY <2>2, <2>3 DEF HasRead
<1> QED  BY Invariance, <1>1, PTL

(***************************************************************************)
(* The offset centres the windows, for every layer that has one.           *)
(***************************************************************************)
THEOREM OffsetCentres == Spec => []WindowsCentred
<1>1. IInv => WindowsCentred
  <2> SUFFICES ASSUME IInv, pc = "done", shift, plan.out > 0
               PROVE  in + plan.top + plan.bottom
                        - (plan.offset + stride * (plan.out - 1) + Filter) - plan.offset
                      \in {0, 1}
    BY DEF WindowsCentred
  <2>1. ConfigOK /\ plan = Plan
    BY DEF IInv, PlanOK
  <2>2. /\ plan.out = OutSize /\ plan.offset = Offset
        /\ plan.top = PadTop /\ plan.bottom = PadBottom
    BY <2>1 DEF Plan
  <2>3. Free - stride * (OutSize - 1) - 2 * Offset \in {0, 1}
    BY <2>1, <2>2, OffsetOK
  <2>4. /\ in \in Int /\ Filter \in Int /\ PadTop \in Int /\ PadBottom \in Int
        /\ PadTop + PadBottom = PadAlong
        /\ Offset \in Int /\ stride * (OutSize - 1) \in Int
    BY <2>1, <2>2, ConfigNumbers, PaddingOK, OffsetOK, LastWindow
  <2> QED  BY <2>2, <2>3, <2>4 DEF Free
<1> QED  BY Invariance, <1>1, PTL
-----------------------------------------------------------------------------
(***************************************************************************)
(* The windows are TensorFlow's: its output size and its padding are those *)
(* of the plan, and a tap of the dilated filter with a weight is a tap of  *)
(* the filter times the rate.                                              *)
(***************************************************************************)

\* The quotient is the only number with a remainder below the divisor.
LEMMA QuotientUnique ==
  ASSUME NEW a \in Int, NEW b \in Nat, b > 0, NEW q \in Int,
         b * q <= a, a < b * (q + 1)
  PROVE  a \div b = q /\ a % b = a - b * q
<1> DEFINE k == a \div b
           r == a % b
<1>1. k \in Int /\ r \in Nat /\ r < b /\ a = b * k + r
  BY DivMod
<1>2. b * q \in Int /\ b * k \in Int /\ b * (q + 1) = b * q + b
  BY <1>1
<1>3. k <= q
  <2>1. CASE k > q
    <3>1. b * (q + 1) <= b * k
      BY <1>1, <2>1, TimesMonotonic
    <3> QED  BY <1>1, <1>2, <3>1
  <2> QED  BY <1>1, <2>1
<1>4. k >= q
  <2>1. CASE k < q
    <3>1. b * (k + 1) <= b * q
      BY <1>1, <2>1, TimesMonotonic
    <3>2. b * (k + 1) = b * k + b
      BY <1>1
    <3> QED  BY <1>1, <1>2, <3>1, <3>2
  <2> QED  BY <1>1, <2>1
<1> QED  BY <1>1, <1>3, <1>4

LEMMA OutIsTFOut ==
  ASSUME ConfigOK, OutSize >= 0
  PROVE  OutSize = TFOut
<1>1. /\ in \in Nat /\ in > 0
      /\ stride \in Nat /\ stride > 0 /\ stride < 1000
      /\ Filter \in Nat /\ Filter > 0
      /\ pad \in {"valid", "same"}
  BY ConfigNumbers DEF ConfigOK, Paddings
<1>2. /\ OutSize \in Int /\ Free \in Int
      /\ stride * (OutSize - 1) <= Free /\ Free < stride * OutSize
  BY LastWindow
<1>3. CASE pad = "same"
  <2>1. OutSize = Ceil(in, stride)
    BY <1>3 DEF OutSize
  <2>2. stride * (OutSize - 1) < in /\ stride * OutSize >= in
    BY <1>1, <2>1, CeilBelow, CeilReaches
  <2>3. /\ stride * OutSize \in Int
        /\ stride * (OutSize - 1) = stride * OutSize - stride
        /\ stride * (OutSize + 1) = stride * OutSize + stride
    BY <1>1, <1>2
  <2>4. stride * OutSize <= in + stride - 1 /\ in + stride - 1 < stride * (OutSize + 1)
    BY <1>1, <2>2, <2>3
  <2>5. (in + stride - 1) \div stride = OutSize
    BY <1>1, <1>2, <2>4, QuotientUnique
  <2> QED  BY <1>3, <2>5 DEF TFOut
<1>4. CASE pad = "valid" /\ in < Filter
  <2>1. Free < 0
    BY <1>1, <1>4 DEF Free, PadAlong
  <2>2. CASE OutSize > 0
    BY <2>1, <2>2, OffsetOK
  <2> QED  BY <1>1, <1>2, <1>4, <2>2 DEF TFOut
<1>5. CASE pad = "valid" /\ ~(in < Filter)
  <2>1. Free = in - Filter
    BY <1>1, <1>5 DEF Free, PadAlong
  <2>2. (in - Filter) \div stride = OutSize - 1
    <3>1. Free < stride * ((OutSize - 1) + 1)
      BY <1>2
    <3> QED  BY <1>1, <1>2, <2>1, <3>1, QuotientUnique
  <2> QED  BY <1>1, <1>2, <1>5, <2>2 DEF TFOut
<1> QED  BY <1>1, <1>3, <1>4, <1>5

\* Under "same" the last window starts one stride, or what is left of one,
\* before the end of the input.
LEMMA LastOfSame ==
  ASSUME ConfigOK, pad = "same"
  PROVE  stride * (OutSize - 1) =
           in - IF in % stride = 0 THEN stride ELSE in % stride
<1>1. /\ in \in Nat /\ in > 0
      /\ stride \in Nat /\ stride > 0 /\ stride < 1000
  BY ConfigNumbers
<1>2. OutSize \in Int
  BY LastWindow
<1> DEFINE q == in \div stride
           r == in % stride
<1>3. /\ q \in Int /\ r \in Nat /\ r < stride
      /\ in = stride * q + r
  BY <1>1, DivMod
<1>4. stride * (OutSize - 1) < in /\ in <= stride * OutSize
  BY <1>1, CeilBelow, CeilReaches DEF OutSize
<1>5. CASE r = 0
  <2>1. stride * (q - 1) = in - stride
    BY <1>1, <1>3, <1>5
  <2>2. stride * ((OutSize - 1) + 1) = stride * (OutSize - 1) + stride
    BY <1>1, <1>2
  <2>3. stride * (OutSize - 1) <= stride * (q - 1) + (stride - 1)
    BY <1>1, <1>2, <1>3, <1>4, <2>1
  <2>4. stride * (OutSize - 1) <= stride * (q - 1)
    BY <1>1, <1>2, <1>3, <2>3, MultipleBelow
  <2>5. stride * (OutSize - 1) \in Int /\ stride * OutSize = stride * (OutSize - 1) + stride
    BY <1>1, <1>2
  <2>6. stride * (q - 1) \in Int
    BY <1>1, <1>3
  <2>7. stride * (OutSize - 1) = in - stride
    BY <1>1, <1>4, <2>1, <2>4, <2>5, <2>6
  <2> QED  BY <1>5, <2>7
<1>6. CASE r # 0
  <2>1. stride * (OutSize - 1) <= stride * q
    <3>1. stride * (OutSize - 1) <= stride * q + r
      BY <1>1, <1>2, <1>3, <1>4
    <3> QED  BY <1>1, <1>2, <1>3, <3>1, MultipleBelow
  <2>2. stride * q <= stride * (OutSize - 1)
    <3>1. CASE q <= OutSize - 1
      BY <1>1, <1>2, <1>3, <3>1, TimesMonotonic
    <3>2. CASE q > OutSize - 1
      <4>1. stride * OutSize <= stride * q
        BY <1>1, <1>2, <1>3, <3>2, TimesMonotonic
      <4> QED  BY <1>1, <1>2, <1>3, <1>4, <1>6, <4>1
    <3> QED  BY <1>2, <1>3, <3>1, <3>2
  <2> QED  BY <1>1, <1>2, <1>3, <1>6, <2>1, <2>2
<1> QED  BY <1>5, <1>6

\* Either the windows start where the padding starts, or there is no padding.
LEMMA PaddingIsTFPadding ==
  ASSUME ConfigOK, OutSize > 0
  PROVE  /\ TFPadding = PadAlong
         /\ PadAlong = 0 \/ Offset = 0
<1>1. /\ in \in Nat /\ in > 0
      /\ stride \in Nat /\ stride > 0 /\ stride < 1000
      /\ Filter \in Nat /\ Filter > 0
      /\ pad \in {"valid", "same"}
  BY ConfigNumbers DEF ConfigOK, Paddings
<1>2. TFOut = OutSize /\ OutSize \in Nat
  BY OutIsTFOut, LastWindow
<1>3. CASE pad = "valid"
  BY <1>3 DEF TFPadding, PadAlong
<1>4. CASE pad = "same"
  <2> DEFINE q == in \div stride
             r == in % stride
             back == IF r = 0 THEN stride ELSE r
  <2>1. /\ q \in Int /\ r \in Nat /\ r < stride
        /\ in = stride * q + r
    BY <1>1, DivMod
  <2>2. PadAlong = Larger(Filter - back, 0)
    BY <1>4 DEF PadAlong
  <2>3. /\ OutSize = Ceil(in, stride)
        /\ stride * (OutSize - 1) < in /\ in <= stride * OutSize
    BY <1>1, <1>4, CeilBelow, CeilReaches DEF OutSize
  <2>4. stride * (OutSize - 1) = in - back
    BY <1>4, LastOfSame
  <2>5. TFPadding = PadAlong
    <3>1. (OutSize - 1) * stride = stride * (OutSize - 1)
      BY <1>1, <1>2
    <3>2. (OutSize - 1) * stride + Filter - in = Filter - back
      BY <1>1, <2>1, <2>4, <3>1
    <3> QED  BY <1>2, <1>4, <2>2, <3>2 DEF TFPadding
  <2>6. ASSUME PadAlong # 0 PROVE Offset = 0
    <3>1. Free = stride * (OutSize - 1)
      BY <1>1, <2>1, <2>2, <2>4, <2>6 DEF Free, Larger
    <3>2. Free \in Nat
      BY OffsetOK
    <3>3. Free < stride * ((OutSize - 1) + 1)
      BY LastWindow, <1>1, <1>2
    <3>4. Free % stride = 0
      BY <1>1, <1>2, <3>1, <3>2, <3>3, QuotientUnique
    <3>5. CMod(Free, stride) = 0
      BY <1>1, <3>2, <3>4, HalfOfRemainder
    <3> QED  BY <3>5 DEF Offset, Free, CDiv
  <2> QED  BY <2>5, <2>6
<1> QED  BY <1>1, <1>3, <1>4

\* The taps of a dilated filter that carry a weight are the multiples of rate.
LEMMA WeightedTaps ==
  ASSUME ConfigOK
  PROVE  /\ \A t \in 0 .. Filter - 1 : t % rate = 0 =>
              t \div rate \in 0 .. kernel - 1 /\ t = (t \div rate) * rate
         /\ \A k \in 0 .. kernel - 1 :
              /\ k * rate \in 0 .. Filter - 1
              /\ (k * rate) % rate = 0
              /\ (k * rate) \div rate = k
<1>1. /\ kernel \in Nat /\ kernel > 0 /\ rate \in Nat /\ rate > 0
      /\ Filter \in Nat
  BY ConfigNumbers
<1>2. Filter - 1 = rate * (kernel - 1)
  <2>1. ASSUME NEW a \in Nat, NEW b \in Nat
        PROVE  a + (a - 1) * (b - 1) - 1 = b * (a - 1)
    OBVIOUS
  <2> QED  BY <1>1, <2>1 DEF Filter
<1>3. ASSUME NEW t \in 0 .. Filter - 1, t % rate = 0
      PROVE  t \div rate \in 0 .. kernel - 1 /\ t = (t \div rate) * rate
  <2>1. /\ t \in Int /\ t \div rate \in Int
        /\ t = rate * (t \div rate)
    BY <1>1, <1>3, DivMod
  <2>2. t \div rate <= kernel - 1
    <3>1. CASE t \div rate >= kernel
      <4>1. rate * kernel <= rate * (t \div rate)
        BY <1>1, <2>1, <3>1, TimesMonotonic
      <4>2. rate * kernel = rate * (kernel - 1) + rate
        BY <1>1
      <4> QED  BY <1>1, <1>2, <2>1, <4>1, <4>2
    <3> QED  BY <1>1, <2>1, <3>1
  <2>3. t \div rate >= 0
    <3>1. CASE t \div rate <= -1
      <4>1. rate * (t \div rate) <= rate * (-1)
        BY <1>1, <2>1, <3>1, TimesMonotonic
      <4> QED  BY <1>1, <2>1, <4>1
    <3> QED  BY <2>1, <3>1
  <2>4. rate * (t \div rate) = (t \div rate) * rate
    BY <1>1, <2>1
  <2> QED  BY <1>1, <2>1, <2>2, <2>3, <2>4
<1>4. ASSUME NEW k \in 0 .. kernel - 1
      PROVE  /\ k * rate \in 0 .. Filter - 1
             /\ (k * rate) % rate = 0
             /\ (k * rate) \div rate = k
  <2>1. /\ k \in Nat /\ k * rate = rate * k /\ k * rate \in Nat
    BY <1>1
  <2>2. rate * k <= rate * (kernel - 1)
    BY <1>1, <2>1, TimesMonotonic
  <2>3. rate * (k + 1) = rate * k + rate
    BY <1>1, <2>1
  <2>4. (k * rate) \div rate = k /\ (k * rate) % rate = k * rate - rate * k
    BY <1>1, <2>1, <2>3, QuotientUnique
  <2> QED  BY <1>1, <1>2, <2>1, <2>2, <2>4
<1> QED  BY <1>3, <1>4

\* A layer that has answered has read every tap of every window.
LEMMA AllRead ==
  ASSUME IInv, pc = "done"
  PROVE  \A w \in 0 .. plan.out - 1 : \A t \in 0 .. Filter - 1 : HasRead(w, t)
<1>1. Filter \in Nat
  BY ConfigNumbers DEF IInv
<1>2. CASE layer = "convolution"
  BY <1>1, <1>2 DEF IInv, GatherOK, LoopOK
<1>3. CASE layer # "convolution"
  BY <1>3 DEF IInv, PoolOK
<1> QED  BY <1>2, <1>3

(***************************************************************************)
(* Every layer that answers has combined, in every window, the weights     *)
(* with the cells TensorFlow's definition names, moved by the offset.      *)
(***************************************************************************)
THEOREM LayersAreTensorFlows == Spec => []WindowsAreTensorFlows
<1>1. ASSUME IInv, pc = "done"
      PROVE  plan.out = TFOut
  <2>1. ConfigOK /\ plan = Plan /\ plan.out \in Nat
    BY <1>1 DEF IInv, PlanOK
  <2> QED  BY <2>1, OutIsTFOut DEF Plan
<1>2. ASSUME IInv, pc = "done", NEW w \in 0 .. plan.out - 1
      PROVE  WeightedCells(w) = TFWindow(w)
  <2>1. /\ ConfigOK /\ plan = Plan
        /\ plan.offset \in Nat /\ plan.out \in Nat /\ plan.top \in Nat
    BY <1>2 DEF IInv, PlanOK
  <2>2. /\ plan.out = OutSize /\ plan.offset = Offset
        /\ plan.top = PadTop /\ plan.bottom = PadBottom
        /\ OutSize > 0
    BY <2>1 DEF Plan
  <2>3. /\ in \in Nat /\ in > 0 /\ kernel \in Nat
        /\ rate \in Nat /\ rate > 0 /\ stride \in Nat
        /\ Filter \in Nat /\ Filter > 0
    BY <2>1, ConfigNumbers
  <2>4. /\ TFPadding = PadAlong /\ TFPadding \div 2 = plan.top
        /\ plan.offset > 0 => plan.top = 0 /\ plan.bottom = 0
    <3>1. TFPadding = PadAlong /\ (PadAlong = 0 \/ Offset = 0)
      BY <2>1, <2>2, PaddingIsTFPadding
    <3> QED  BY <2>1, <2>2, <3>1 DEF PadTop, PadBottom
  <2>5. stride * w \in Nat /\ w * stride = stride * w
    BY <2>3
  <2>6. \A t \in 0 .. Filter - 1 : HasRead(w, t)
    BY <1>2, AllRead
  <2>7. ASSUME NEW t \in 0 .. Filter - 1
        PROVE  /\ Position(w, t) \in Int
               /\ Position(w, t) - plan.offset = stride * w + t - plan.top
               /\ Inside(Position(w, t)) <=> Inside(Position(w, t) - plan.offset)
    <3>1. Position(w, t) \in -plan.top .. in + plan.bottom - 1
      BY <2>1, TapInside
    <3>2. Position(w, t) = plan.offset + stride * w + t - plan.top
      BY DEF Position
    <3>3. plan.offset + stride * w + t - plan.top \in Int
      BY <2>1, <2>3, <2>5
    <3>4. CASE plan.offset = 0
      BY <2>1, <2>3, <2>5, <3>2, <3>4
    <3>5. CASE plan.offset > 0
      BY <2>1, <2>3, <2>4, <2>5, <3>1, <3>2, <3>5 DEF Inside
    <3> QED  BY <2>1, <3>4, <3>5
  <2>8. ASSUME NEW x \in WeightedCells(w) PROVE x \in TFWindow(w)
    <3>1. PICK r \in reads[w] : /\ r[1] % rate = 0 /\ Inside(r[2])
                               /\ x = <<r[1] \div rate, r[2] - plan.offset>>
      BY DEF WeightedCells
    <3>2. r[1] \in 0 .. Filter - 1 /\ r[2] = Position(w, r[1])
      BY <1>2 DEF IInv, ReadsOK, ReadOK
    <3> DEFINE k == r[1] \div rate
    <3>3. k \in 0 .. kernel - 1 /\ r[1] = k * rate
      BY <2>1, <3>1, <3>2, WeightedTaps
    <3>4. r[2] - plan.offset = w * stride + k * rate - TFPadding \div 2
      BY <2>4, <2>5, <2>7, <3>2, <3>3
    <3>5. Inside(w * stride + k * rate - TFPadding \div 2)
      BY <2>7, <3>1, <3>2, <3>4
    <3>6. x = <<k, w * stride + k * rate - TFPadding \div 2>>
      BY <3>1, <3>4
    <3> QED  BY <3>3, <3>5, <3>6 DEF TFWindow
  <2>9. ASSUME NEW x \in TFWindow(w) PROVE x \in WeightedCells(w)
    <3>1. PICK k \in 0 .. kernel - 1 :
            /\ x = <<k, w * stride + k * rate - TFPadding \div 2>>
            /\ Inside(w * stride + k * rate - TFPadding \div 2)
      BY DEF TFWindow
    <3> DEFINE t == k * rate
               r == <<t, Position(w, t)>>
    <3>2. t \in 0 .. Filter - 1 /\ t % rate = 0 /\ t \div rate = k
      BY <2>1, WeightedTaps
    <3>3. Position(w, t) - plan.offset = w * stride + k * rate - TFPadding \div 2
      BY <2>4, <2>5, <2>7, <3>2
    <3>4. Inside(Position(w, t))
      BY <2>7, <3>1, <3>2, <3>3
    <3>5. r \in reads[w]
      BY <2>6, <3>2, <3>4 DEF HasRead
    <3>6. x = <<r[1] \div rate, r[2] - plan.offset>>
      BY <3>1, <3>2, <3>3
    <3> QED  BY <3>2, <3>4, <3>5, <3>6 DEF WeightedCells
  <2> QED  BY <2>8, <2>9
<1>3. IInv => WindowsAreTensorFlows
  BY <1>1, <1>2 DEF WindowsAreTensorFlows
<1> QED  BY Invariance, <1>3, PTL
-----------------------------------------------------------------------------
(***************************************************************************)
(* The converter's probe: one cell, three apart, over six cells.           *)
(***************************************************************************)
THEOREM ProbeIsTold == Spec => []ProbeTellsOffset
<1>1. ASSUME IInv, pc = "done", in = 6, kernel = 1, stride = 3
      PROVE  [w \in DOMAIN reads |-> {r[2] : r \in reads[w]}] =
               [w \in {0, 1} |-> {3 * w + IF shift THEN 1 ELSE 0}]
  <2>1. ConfigOK /\ plan = Plan /\ plan.out \in Nat
    BY <1>1 DEF IInv, PlanOK
  <2>2. Filter = 1
    <3>1. rate \in Nat
      BY <2>1, ConfigNumbers
    <3> QED  BY <1>1, <3>1 DEF Filter
  <2>3. TFOut = 2 /\ PadAlong = 0
    BY <1>1, <2>1, <2>2 DEF TFOut, PadAlong, Larger, ConfigOK, Paddings
  <2>4. plan.out = 2 /\ plan.top = 0
    BY <2>1, <2>3, OutIsTFOut DEF Plan, PadTop
  <2>5. plan.offset = IF shift THEN 1 ELSE 0
    BY <1>1, <2>1, <2>2, <2>3 DEF Plan, Offset, CMod, CDiv
  <2>6. DOMAIN reads = {0, 1}
    BY <1>1, <2>4 DEF IInv, LoopOK
  <2>7. ASSUME NEW w \in {0, 1}
        PROVE  {r[2] : r \in reads[w]} = {3 * w + IF shift THEN 1 ELSE 0}
    <3>1. Position(w, 0) = 3 * w + IF shift THEN 1 ELSE 0
      BY <1>1, <2>4, <2>5 DEF Position
    <3>2. Inside(Position(w, 0))
      BY <1>1, <3>1 DEF Inside
    <3>3. <<0, Position(w, 0)>> \in reads[w]
      BY <1>1, <2>2, <2>4, <3>2, AllRead DEF HasRead
    <3>4. ASSUME NEW r \in reads[w] PROVE r[2] = Position(w, 0)
      BY <1>1, <2>2, <2>4 DEF IInv, ReadsOK, ReadOK
    <3> QED  BY <3>1, <3>3, <3>4
  <2> QED  BY <2>6, <2>7
<1>2. IInv => ProbeTellsOffset
  BY <1>1 DEF ProbeTellsOffset
<1> QED  BY Invariance, <1>2, PTL
-----------------------------------------------------------------------------
(***************************************************************************)
(* Coverage: overlapping windows leave no gap, so what is unread lies in   *)
(* front of the first window or behind the last one.                       *)
(***************************************************************************)
Start == Offset - PadTop
End == Start + stride * (OutSize - 1) + Filter

LEMMA NoGap ==
  ASSUME ConfigOK, OutSize > 0, stride <= Filter,
         NEW p \in Int, Start <= p, p < End
  PROVE  \E w \in 0 .. OutSize - 1, t \in 0 .. Filter - 1 : p = Start + stride * w + t
<1>1. /\ stride \in Nat /\ stride > 0 /\ Filter \in Nat
      /\ OutSize \in Nat /\ Start \in Int
  BY ConfigNumbers, LastWindow, OffsetOK, PaddingOK DEF Start
<1> DEFINE q == (p - Start) \div stride
           r == (p - Start) % stride
<1>2. /\ q \in Int /\ r \in Nat /\ r < stride
      /\ p - Start = stride * q + r
  BY <1>1, DivMod
<1>3. q >= 0
  <2>1. CASE q <= -1
    <3>1. stride * q <= stride * (-1)
      BY <1>1, <1>2, <2>1, TimesMonotonic
    <3> QED  BY <1>1, <1>2, <3>1
  <2> QED  BY <1>2, <2>1
<1>4. CASE q <= OutSize - 1
  <2>1. q \in 0 .. OutSize - 1 /\ r \in 0 .. Filter - 1
    BY <1>1, <1>2, <1>3, <1>4
  <2>2. p = Start + stride * q + r
    BY <1>1, <1>2
  <2> QED  BY <2>1, <2>2
<1>5. CASE q > OutSize - 1
  <2> DEFINE t == p - Start - stride * (OutSize - 1)
  <2>1. stride * (OutSize - 1) <= stride * q /\ stride * (OutSize - 1) \in Int
    BY <1>1, <1>2, <1>5, TimesMonotonic
  <2>2. t \in 0 .. Filter - 1
    BY <1>1, <1>2, <2>1 DEF End
  <2>3. OutSize - 1 \in 0 .. OutSize - 1 /\ p = Start + stride * (OutSize - 1) + t
    BY <1>1, <2>1, <2>2
  <2> QED  BY <2>2, <2>3
<1> QED  BY <1>1, <1>2, <1>4, <1>5

\* What is left out in front and behind is the remainder the offset splits.
LEMMA LeftOut ==
  ASSUME ConfigOK, OutSize > 0, stride <= Filter
  PROVE  /\ Start \in Int /\ End \in Int
         /\ Start <= Offset
         /\ End >= in - (stride - 1) + Offset
         /\ Offset \in 0 .. stride - 1
         /\ pad = "same" => Start <= 0 /\ in <= End
<1>1. /\ in \in Nat /\ in > 0
      /\ stride \in Nat /\ stride > 0 /\ Filter \in Nat
      /\ pad \in {"valid", "same"}
  BY ConfigNumbers DEF ConfigOK, Paddings
<1>2. /\ OutSize \in Int /\ Free \in Int
      /\ Free < stride * OutSize
      /\ stride * OutSize = stride * (OutSize - 1) + stride
      /\ stride * (OutSize - 1) \in Int
  BY <1>1, LastWindow
<1>3. /\ PadAlong \in Nat /\ PadTop \in Nat /\ PadBottom \in Nat
      /\ PadTop + PadBottom = PadAlong
  BY PaddingOK
<1>4. Offset \in Nat /\ Offset + stride * (OutSize - 1) <= Free
  BY OffsetOK
<1>5. Offset \in 0 .. stride - 1
  BY <1>1, <1>2, <1>4
<1>6. PadAlong = 0 \/ Offset = 0
  BY PaddingIsTFPadding
<1>7. Start \in Int /\ End \in Int /\ Start <= Offset
  BY <1>1, <1>2, <1>3, <1>4 DEF Start, End
<1>8. End >= in - (stride - 1) + Offset
  BY <1>1, <1>2, <1>3, <1>4, <1>6 DEF Start, End, Free, PadTop
<1>9. ASSUME pad = "same" PROVE Start <= 0 /\ in <= End
  <2> DEFINE back == IF in % stride = 0 THEN stride ELSE in % stride
  <2>1. stride * (OutSize - 1) = in - back
    BY <1>9, LastOfSame
  <2>2. back \in Nat /\ back <= stride
    BY <1>1, DivMod
  <2>3. PadAlong = Filter - back
    BY <1>1, <1>9, <2>2 DEF PadAlong, Larger
  <2>4. Offset = 0
    BY <1>1, <1>2, <1>4, <2>1, <2>2, <2>3 DEF Free
  <2> QED  BY <1>1, <1>3, <2>1, <2>2, <2>3, <2>4 DEF Start, End
<1> QED  BY <1>5, <1>7, <1>8, <1>9

(***************************************************************************)
(* No cell of a padded input is lost, and fewer cells than one stride of   *)
(* an unpadded one, as long as strides do not exceed the filter.           *)
(***************************************************************************)
THEOREM InputIsCovered == Spec => []CoversInput
<1>1. ASSUME IInv, pc = "done", plan.out > 0, stride <= Filter
      PROVE  /\ pad = "same" => Unread = {}
             /\ Cardinality(Unread) < stride
  <2>1. /\ ConfigOK /\ plan = Plan
        /\ plan.out = OutSize /\ plan.offset = Offset /\ plan.top = PadTop
        /\ DOMAIN reads = 0 .. plan.out - 1
    BY <1>1 DEF IInv, PlanOK, LoopOK, Plan
  <2>2. /\ in \in Nat /\ in > 0
        /\ stride \in Nat /\ stride > 0 /\ Filter \in Nat
        /\ OutSize \in Int /\ PadTop \in Nat /\ Offset \in Nat
    BY <1>1, <2>1, ConfigNumbers, LastWindow, PaddingOK, OffsetOK
  <2>3. /\ Start \in Int /\ End \in Int
        /\ Start <= Offset
        /\ End >= in - (stride - 1) + Offset
        /\ Offset \in 0 .. stride - 1
        /\ pad = "same" => Start <= 0 /\ in <= End
    BY <1>1, <2>1, LeftOut
  <2>4. ASSUME NEW p \in Unread PROVE p \in 0 .. in - 1 /\ (p < Start \/ End <= p)
    <3>1. p \in 0 .. in - 1
      BY DEF Unread
    <3>2. ASSUME Start <= p, p < End PROVE FALSE
      <4>1. PICK w \in 0 .. OutSize - 1, t \in 0 .. Filter - 1 : p = Start + stride * w + t
        BY <1>1, <2>1, <3>1, <3>2, NoGap
      <4>2. Position(w, t) = p
        <5>1. stride * w \in Int
          BY <2>2
        <5> QED  BY <2>1, <2>2, <4>1, <5>1 DEF Position, Start
      <4>3. <<t, p>> \in reads[w]
        BY <1>1, <2>1, <3>1, <4>2, AllRead DEF HasRead, Inside
      <4> QED  BY <2>1, <4>3 DEF Unread
    <3> QED  BY <2>3, <3>1, <3>2
  <2>5. pad = "same" => Unread = {}
    BY <2>2, <2>3, <2>4
  <2>6. Cardinality(Unread) < stride
    <3> DEFINE Front == 0 .. Offset - 1
               Back == in - (stride - 1) + Offset .. in - 1
    <3>1. Unread \subseteq Front \cup Back
      BY <2>2, <2>3, <2>4
    <3>2. IsFiniteSet(Front) /\ Cardinality(Front) = Offset
      BY <2>2, FS_Interval
    <3>3. IsFiniteSet(Back) /\ Cardinality(Back) = stride - 1 - Offset
      <4> DEFINE a == in - (stride - 1) + Offset
                 b == in - 1
      <4>1. a \in Int /\ b \in Int
            /\ (IF a > b THEN 0 ELSE b - a + 1) = stride - 1 - Offset
        BY <2>2, <2>3
      <4> HIDE DEF a, b
      <4>2. IsFiniteSet(a .. b) /\ Cardinality(a .. b) = stride - 1 - Offset
        BY <4>1, FS_Interval
      <4> QED  BY <4>2 DEF a, b
    <3>4. /\ IsFiniteSet(Front \cup Back)
          /\ Cardinality(Front \cup Back) <= stride - 1
      <4>1. /\ IsFiniteSet(Front \cup Back)
            /\ Cardinality(Front \cup Back) =
                 Cardinality(Front) + Cardinality(Back) - Cardinality(Front \cap Back)
        BY <3>2, <3>3, FS_Union
      <4>2. Cardinality(Front \cap Back) \in Nat
        BY <3>2, FS_Intersection, FS_CardinalityType
      <4> QED  BY <2>2, <2>3, <3>2, <3>3, <4>1, <4>2
    <3>5. Cardinality(Unread) <= Cardinality(Front \cup Back)
      BY <3>1, <3>4, FS_Subset
    <3>6. Cardinality(Unread) \in Nat /\ Cardinality(Front \cup Back) \in Nat
      BY <3>1, <3>4, FS_Subset, FS_CardinalityType
    <3> QED  BY <2>2, <3>4, <3>5, <3>6
  <2> QED  BY <2>5, <2>6
<1>2. IInv => CoversInput
  BY <1>1 DEF CoversInput
<1> QED  BY Invariance, <1>2, PTL
=============================================================================
