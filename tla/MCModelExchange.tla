--------------------------- MODULE MCModelExchange ---------------------------
(***************************************************************************)
(* Keras models, and files that were not written by this converter.        *)
(***************************************************************************)
EXTENDS ModelExchange, TLC

CONSTANT Models  \* names of the models of this run

Leaf(name, class, activation) ==
  [name |-> name, class |-> class, activation |-> activation,
   alpha |-> IF class \in {"ELU", "LeakyReLU"} THEN "alpha" ELSE "none",
   exports |-> TRUE, layers |-> << >>]
Net(name, class, layers) ==
  [name |-> name, class |-> class, activation |-> "none", alpha |-> "none",
   exports |-> TRUE, layers |-> layers]
Dense(name) == Leaf(name, "Dense", "linear")
Input == Leaf("input", "InputLayer", "none")
Model(layer, outputs) ==
  [top |-> "top", layer |-> layer, sized |-> TRUE, outputs |-> outputs]
Flat(class, activation, exports) ==
  Model(("top" :> Net("net", "Sequential", <<"i", "a">>)) @@ ("i" :> Input)
        @@ ("a" :> [Leaf("a", class, activation) EXCEPT !.exports = exports]), <<<<2>>>>)

\* A Sequential in a Sequential, with one dense layer each, and the same with
\* both dense layers named alike, the outer one last or first.
Nested(class, layers, nameA, nameB) ==
  Model(("top" :> Net("net", class, layers)) @@ ("i" :> Input)
        @@ ("n" :> Net("n", class, <<"j", "b">>)) @@ ("j" :> Input)
        @@ ("a" :> Dense(nameA)) @@ ("b" :> Dense(nameB)), <<<<2>>>>)

AllModels ==
  ("nested" :> Nested("Sequential", <<"i", "a", "n">>, "a", "b"))
  @@ ("clash_after" :> Nested("Sequential", <<"i", "n", "a">>, "d", "d"))
  @@ ("clash_before" :> Nested("Sequential", <<"i", "a", "n">>, "d", "d"))
  @@ ("shared" :> Model(("top" :> Net("net", "Model", <<"i", "a", "n">>)) @@ ("i" :> Input)
                        @@ ("n" :> Net("n", "Model", <<"j", "a">>)) @@ ("j" :> Input)
                        @@ ("a" :> Dense("a")), <<<<2>>>>))
  @@ ("activations" :>
        Model(("top" :> Net("net", "Sequential", <<"i", "p", "a", "e", "r", "s">>))
              @@ ("i" :> Input) @@ ("p" :> Leaf("p", "AveragePooling1D", "none"))
              @@ ("a" :> Leaf("a", "Dense", "elu")) @@ ("e" :> Leaf("e", "ELU", "none"))
              @@ ("r" :> Leaf("r", "LeakyReLU", "none"))
              @@ ("s" :> Leaf("s", "Activation", "softmax")), <<<<2>>>>))
  @@ ("prelu" :> Flat("PReLU", "none", TRUE))
  @@ ("separable_1d" :> Flat("SeparableConv1D", "linear", TRUE))
  @@ ("softsign" :> Flat("Dense", "softsign", TRUE))
  @@ ("dense_on_volume" :> Flat("Dense", "linear", FALSE))
  @@ ("unsized" :> [Flat("Conv2D", "relu", TRUE) EXCEPT !.sized = FALSE])
  @@ ("sequence" :> [Flat("Conv1D", "relu", TRUE) EXCEPT !.outputs = <<<<2, 2>>>>])
  @@ ("image_sequence" :> [Flat("Conv2D", "relu", TRUE) EXCEPT !.outputs = <<<<2, 1, 2>>, <<2, 2>>>>])

MCKerasModels == {AllModels[m] : m \in Models}

\* Files of another origin: no tests in it; the weights of two layers swapped;
\* two layers with one name; an offset missing; those of two operations swapped.
GivenDocument(name, tests0, weights) ==
  [state |-> "complete", tests |-> tests0, params |-> weights,
   offsets |-> Converter!Measured, output_shapes |-> <<<<2, 1, 1>>>>,
   architecture |-> Converted(Nested("Model", <<"i", "n", "a">>, name, "b"))]
Untested == GivenDocument("untested", << >>, [untested |-> "a", b |-> "b"])
MixedUp ==
  GivenDocument("mixed", <<<<Loader!FdeepOutput(<<2>>)>>>>, [mixed |-> "b", b |-> "a"])
TwoOfOneName ==
  [state |-> "complete", tests |-> << >>, params |-> [a |-> "a"],
   offsets |-> Converter!Measured, output_shapes |-> <<<<2, 1, 1>>>>,
   architecture |-> Converted(Model(("top" :> Net("net", "Model", <<"i", "a", "a">>))
                                    @@ ("i" :> Input) @@ ("a" :> Dense("a")), <<<<2>>>>))]
Pooling(tests0, flags) ==
  [state |-> "complete", tests |-> tests0, params |-> << >>,
   offsets |-> flags, output_shapes |-> <<<<2, 1, 1>>>>,
   architecture |-> Converted(Model(("top" :> Net("net", "Model", <<"i", "p">>))
                                    @@ ("i" :> Input)
                                    @@ ("p" :> Leaf("p", "MaxPooling1D", "none")), <<<<2>>>>))]
\* Written before the offsets of pooling were measured.
Older == Pooling(<< >>, [conv2d |-> "conv2d"])
SwappedOffsets ==
  Pooling(<<<<Loader!FdeepOutput(<<2>>)>>>>,
          [Converter!Measured EXCEPT !.max_pooling_2d = "average_pooling_2d",
                                     !.average_pooling_2d = "max_pooling_2d"])
MCGivenFiles == {Converter!NoFile, Untested, MixedUp, TwoOfOneName, Older, SwappedOffsets}
=============================================================================
