---------------------------- MODULE MCTensorLayout ----------------------------
(***************************************************************************)
(* An image of two channels, a sequence of three, and a vector; their      *)
(* cells differ but for two.                                               *)
(***************************************************************************)
EXTENDS TensorLayout

Input(shape) ==
  [shape |-> shape, bytes |-> [p \in 1 .. Volume(shape) |-> IF p = 1 THEN 2 ELSE p]]
MCInputs == {Input(<<2, 3, 2>>), Input(<<2, 3>>), Input(<<3>>)}
MCPaddings == {<<0, 1>>, <<1, 0>>}
MCScales == {1, 2}
LastAxis(r) == {r}
AnyAxis(r) == 1 .. r
=============================================================================
