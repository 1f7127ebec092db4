--------------------------- MODULE ModelConversion ---------------------------
(***************************************************************************)
(* convert_model.py: a Keras model is turned into a document of json that  *)
(* holds its architecture, a test made with Keras and, in one flat map     *)
(* from the names of layers, all weights.                                  *)
(*                                                                         *)
(* A Keras model is a record                                               *)
(*   top      its outermost model                                          *)
(*   layer    for every layer, nested models included: its name, class,    *)
(*            activation and alpha, whether the assertions made of it hold *)
(*            when its weights are asked for (exports), and its layers, if *)
(*            it is a model                                                *)
(*   sized    whether all dimensions of its inputs are known               *)
(*   outputs  the shapes of its outputs, without the batch axis            *)
(* What the weights of a layer are is left open: they are named after it.  *)
(* So are the offset flags: those of an operation are named after it.      *)
(***************************************************************************)
EXTENDS Arrays

CONSTANTS
  KerasModels,     \* the models there are to be converted
  MaxConversions   \* bound: the number of conversions

VARIABLES
  file,            \* what is under the output path
  conversion,      \* what the converter is doing
  keras,           \* the model being converted
  sequential,      \* its models that are still Sequential
  visits,          \* stack of layers convert_sequential_to_model has to visit
  tests,           \* test_data
  calls,           \* stack of the running calls of get_all_weights: the
                   \*   layers they have to visit, their result so far
  conversions      \* the number of conversions begun

NoFile == [state |-> "absent"]
PartialFile == [state |-> "partial"]
NoModel == [top |-> "none"]
EmptyDict == << >>
NestedClasses == {"Model", "Sequential"}
ShowFunctions == {"Conv1D", "Conv2D", "Conv2DTranspose", "SeparableConv2D",
                  "BatchNormalization", "Dense"}
-----------------------------------------------------------------------------
\* Mutation: an array with the batch axis is left as it is.
BatchAxisKept(a) ==
  IF Len(a.shape) = 3 THEN ChannelsFirst(a)
  ELSE IF Len(a.shape) = 4 THEN a
  ELSE Reshape(a, <<a.shape[Len(a.shape)], 1, Volume(a.shape) \div a.shape[Len(a.shape)]>>)
ArrAsArr3(a) ==
  LET s == a.shape IN
  CASE Len(s) = 1 -> Reshape(a, <<s[1], 1, 1>>)
    [] Len(s) = 2 -> Reshape(a, <<s[2], 1, s[1]>>)
    [] Len(s) = 3 -> ChannelsFirst(a)
    [] Len(s) = 4 -> ChannelsFirst(Reshape(a, Tail(s)))

\* The outputs of model.predict for a batch of one.  With one output it is an
\* array, and iterating over it takes the batch axis off.
PredictedOutputs(k) ==
  IF Len(k.outputs) = 1 THEN <<Numbered(k.outputs[1])>>
  ELSE [o \in 1 .. Len(k.outputs) |-> Numbered(<<1>> \o k.outputs[o])]
GenTestData(k) ==
  [o \in 1 .. Len(k.outputs) |-> ArrAsArr3(PredictedOutputs(k)[o])]

GetShapes(ts) == [i \in DOMAIN ts |-> ts[i].shape]
\* The operations whose offsets are measured and written down, and what
\* check_operation_offset told of each for both paddings and, if it is a
\* convolution, both depths.
Operations == {"conv2d", "separable_conv2d", "max_pooling_2d", "average_pooling_2d"}
Measured == [o \in Operations |-> o]

\* model.to_json() after the conversion of the sequential models.
ClassIn(k, seqs, l) ==
  IF k.layer[l].class = "Sequential" /\ l \notin seqs THEN "Model"
  ELSE k.layer[l].class
Architecture(k, seqs) ==
  [top |-> k.top, outputs |-> k.outputs,
   layer |-> [l \in DOMAIN k.layer |->
                [k.layer[l] EXCEPT !.class = ClassIn(k, seqs, l)]]]
Document(params) ==
  [state |-> "complete", architecture |-> Architecture(keras, sequential),
   offsets |-> Measured, output_shapes |-> GetShapes(tests),
   tests |-> <<tests>>, params |-> params]
-----------------------------------------------------------------------------
Init ==
  /\ conversion = "idle"
  /\ keras = NoModel
  /\ sequential = {}
  /\ visits = << >>
  /\ tests = << >>
  /\ calls = << >>
  /\ conversions = 0

Attribute(l) == keras.layer[l]
Call(l) == [rest |-> Attribute(l).layers, result |-> EmptyDict]
Raise ==
  /\ conversion' = "raised"
  /\ calls' = << >>
  /\ UNCHANGED <<keras, sequential, visits, tests, conversions>>

Convert(k) ==
  /\ conversion \in {"idle", "raised"}
  /\ conversions < MaxConversions
  /\ conversion' = "normalising"
  /\ keras' = k
  /\ sequential' = {l \in DOMAIN k.layer : k.layer[l].class = "Sequential"}
  /\ visits' = <<k.top>>
  /\ conversions' = conversions + 1
  /\ UNCHANGED <<file, tests, calls>>

\* convert_sequential_to_model: this layer and, if it is a model, then its layers.
ConvertSequential ==
  /\ conversion = "normalising"
  /\ visits # << >>
  /\ sequential' = sequential \ {Head(visits)}
  /\ visits' = (IF Attribute(Head(visits)).class \in NestedClasses
                THEN Attribute(Head(visits)).layers ELSE << >>) \o Tail(visits)
  /\ UNCHANGED <<file, conversion, keras, tests, calls, conversions>>

Test ==
  /\ conversion = "normalising"
  /\ visits = << >>
  /\ keras.sized
  /\ tests' = GenTestData(keras)
  /\ calls' = <<Call(keras.top)>>
  /\ conversion' = "exporting"
  /\ UNCHANGED <<file, keras, sequential, visits, conversions>>

\* numpy.random.random cannot make an array of unknown size.
CannotTest ==
  /\ conversion = "normalising"
  /\ visits = << >>
  /\ ~keras.sized
  /\ Raise
  /\ UNCHANGED file

\* get_all_weights, one layer of the innermost call.
Running == conversion = "exporting"
Innermost == calls[Len(calls)]
NextLayer == Innermost.rest[1]
AtLayer == Running /\ Innermost.rest # << >> /\ Attribute(NextLayer).class \notin NestedClasses
NameTaken == Attribute(NextLayer).name \in DOMAIN Innermost.result
Shown == Attribute(NextLayer).class \in ShowFunctions
Weights == [n \in IF Shown THEN {Attribute(NextLayer).name} ELSE {} |-> NextLayer]
\* The entries of both dictionaries.
Merged(x, y) ==
  [n \in DOMAIN x \cup DOMAIN y |-> IF n \in DOMAIN x THEN x[n] ELSE y[n]]

ShowLayer ==
  /\ AtLayer
  /\ ~NameTaken
  /\ Attribute(NextLayer).exports
  /\ calls' = [calls EXCEPT ![Len(calls)] =
                 [rest |-> Tail(@.rest), result |-> Merged(@.result, Weights)]]
  /\ UNCHANGED <<file, conversion, keras, sequential, visits, tests, conversions>>

DuplicateLayerName == AtLayer /\ NameTaken /\ Raise /\ UNCHANGED file
NotExportable ==
  /\ AtLayer
  /\ ~NameTaken
  /\ ~Attribute(NextLayer).exports
  /\ Raise
  /\ UNCHANGED file

EnterNested ==
  /\ Running
  /\ Innermost.rest # << >>
  /\ Attribute(NextLayer).class \in NestedClasses
  /\ calls' = Append(calls, Call(NextLayer))
  /\ UNCHANGED <<file, conversion, keras, sequential, visits, tests, conversions>>

\* merge_two_disjunct_dicts
\* Mutation: the assertion takes one dictionary for both.
SameTwice(x, y) == DOMAIN x \cap DOMAIN x = {}
Disjunct(x, y) == DOMAIN x \cap DOMAIN y = {}
Caller == calls[Len(calls) - 1]
NestedDone == Running /\ Len(calls) > 1 /\ Innermost.rest = << >>

MergeNested ==
  /\ NestedDone
  /\ Disjunct(Caller.result, Innermost.result)
  /\ calls' = [SubSeq(calls, 1, Len(calls) - 1) EXCEPT ![Len(calls) - 1] =
                 [rest |-> Tail(@.rest), result |-> Merged(Innermost.result, @.result)]]
  /\ UNCHANGED <<file, conversion, keras, sequential, visits, tests, conversions>>

NotDisjunct ==
  /\ NestedDone
  /\ ~Disjunct(Caller.result, Innermost.result)
  /\ Raise
  /\ UNCHANGED file

\* write_text_file: open truncates the file; writing may be interrupted.
OpenFile ==
  /\ Running
  /\ Len(calls) = 1
  /\ Innermost.rest = << >>
  /\ file' = PartialFile
  /\ conversion' = "writing"
  /\ UNCHANGED <<keras, sequential, visits, tests, calls, conversions>>

Write ==
  /\ conversion = "writing"
  /\ file' = Document(Innermost.result)
  /\ conversion' = "idle"
  /\ calls' = << >>
  /\ UNCHANGED <<keras, sequential, visits, tests, conversions>>

Interrupted == conversion = "writing" /\ Raise /\ UNCHANGED file

Step ==
  \/ ConvertSequential \/ Test \/ CannotTest
  \/ ShowLayer \/ DuplicateLayerName \/ NotExportable
  \/ EnterNested \/ MergeNested \/ NotDisjunct
  \/ OpenFile \/ Write

Next == Step \/ Interrupted \/ \E k \in KerasModels : Convert(k)
=============================================================================
