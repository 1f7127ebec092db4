---------------------------- MODULE MCWeightLayout ----------------------------
(***************************************************************************)
(* Layers of every class, with kernels and pools that are not square, one  *)
(* or more channels and units, padded or not, and either strides, some     *)
(* longer than the window, or dilation.  The backend shifts the operation  *)
(* of the layer and no other, or all others.                               *)
(***************************************************************************)
EXTENDS WeightLayout

Named(shape, from) == [shape |-> shape, values |-> [p \in 1 .. Volume(shape) |-> from + p]]
Biases(out) == {None, [f \in 1 .. out |-> 100 + f]}
Moves(rank) ==
  LET unit == [a \in 1 .. rank |-> 1]
      strides == IF rank = 1 THEN {<<1>>, <<2>>, <<3>>}
                 ELSE {<<1, 1>>, <<1, 2>>, <<2, 1>>, <<3, 2>>}
      dilations == IF rank = 1 THEN {<<2>>} ELSE {<<1, 2>>, <<2, 1>>}
  IN {[strides |-> s, dilation |-> unit] : s \in strides}
       \cup {[strides |-> unit, dilation |-> d] : d \in dilations}
Layer(class, kernel, depthwise, bias, move, padding) ==
  [class |-> class, kernel |-> kernel, depthwise |-> depthwise, bias |-> bias, pool |-> None,
   strides |-> move.strides, dilation |-> move.dilation, padding |-> padding]

Conv1Ds ==
  UNION {{Layer("Conv1D", Named(<<k, in, out>>, 0), None, b, m, p) :
            b \in Biases(out), m \in Moves(1), p \in Paddings} :
         k \in 1 .. 2, in \in 1 .. 2, out \in 1 .. 2}
Kernels == {<<1, 2>>, <<2, 1>>, <<2, 2>>}
Conv2Ds ==
  UNION {{Layer("Conv2D", Named(k \o <<in, out>>, 0), None, b, m, p) :
            b \in Biases(out), m \in Moves(2), p \in Paddings} :
         k \in Kernels, in \in 1 .. 2, out \in 1 .. 2}
Separables ==
  UNION {{Layer("SeparableConv2D", Named(<<1, 1, in, out>>, 0), Named(k \o <<in, 1>>, 20),
                  b, m, p) :
            b \in Biases(out), m \in Moves(2), p \in Paddings} :
         k \in Kernels, in \in 1 .. 2, out \in 1 .. 2}
Denses ==
  UNION {{Layer("Dense", Named(<<in, out>>, 0), None, b,
                  [strides |-> << >>, dilation |-> << >>], "valid") :
            b \in Biases(out)} : in \in 1 .. 3, out \in 1 .. 3}
Pooling(class, pool, move, padding) ==
  [Layer(class, None, None, None, move, padding) EXCEPT !.pool = pool]
Pools(dims, sizes) ==
  {Pooling(class, pool, m, p) :
     class \in {"MaxPooling" \o dims, "AveragePooling" \o dims}, pool \in sizes,
     m \in {n \in Moves(Len(CHOOSE s \in sizes : TRUE)) :
              \A a \in DOMAIN n.dilation : n.dilation[a] = 1},
     p \in Paddings}

MCLayers ==
  Conv1Ds \cup Conv2Ds \cup Separables \cup Denses
    \cup Pools("1D", {<<1>>, <<2>>, <<3>>}) \cup Pools("2D", Kernels)
MCInput(l) ==
  CASE l.class = "Conv1D" -> <<6, l.kernel.shape[2]>>
    [] l.class \in {"Conv2D", "SeparableConv2D"} -> <<3, 4, l.kernel.shape[3]>>
    [] l.class = "Dense" -> <<l.kernel.shape[1]>>
    [] l.class \in {"MaxPooling1D", "AveragePooling1D"} -> <<6, 2>>
    [] l.class \in {"MaxPooling2D", "AveragePooling2D"} -> <<3, 4, 2>>
MCShifts(l) ==
  LET own == {OperationFor(l, Input(l)[Len(Input(l))])} IN
  IF l.class = "Dense" THEN {{}} ELSE {own, Operations \ own}
=============================================================================
