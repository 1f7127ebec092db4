---------------------------- MODULE ModelLoading ----------------------------
(***************************************************************************)
(* fdeep::load_model and read_model with the creators of import_model.hpp: *)
(* a document is read, its layers are created depth first, each fetching   *)
(* its weights by name from the one map of the document, and the model is  *)
(* tried on the tests of the document before it is handed out.             *)
(***************************************************************************)
EXTENDS Arrays

CONSTANT MaxLoads  \* bound: the number of calls of load_model

VARIABLES
  file,            \* what is under the path
  load,            \* what load_model is doing
  verify,          \* its parameter
  json,            \* json_data
  creating,        \* stack of the models under construction and the layers
                   \*   each still has to create
  made,            \* the layers created: the weights and the offset flags each
                   \*   got, and the functions apply() runs one after the other
  model,           \* full_model: its architecture, layers and output_shapes_
  pending,         \* the tests still to be run
  loads            \* the number of calls of load_model

Creators ==
  {"Model", "Conv1D", "Conv2D", "SeparableConv1D", "SeparableConv2D",
   "InputLayer", "BatchNormalization", "Dropout", "LeakyReLU", "ELU",
   "MaxPooling1D", "MaxPooling2D", "AveragePooling1D", "AveragePooling2D",
   "GlobalMaxPooling1D", "GlobalMaxPooling2D", "GlobalAveragePooling1D",
   "GlobalAveragePooling2D", "UpSampling1D", "UpSampling2D", "Dense", "Add",
   "Maximum", "Concatenate", "Flatten", "ZeroPadding1D", "ZeroPadding2D",
   "Cropping1D", "Cropping2D", "Activation"}
\* Mutation: the parameters of a layer are asked for that has none.
ParameterisedToo ==
  {"Conv1D", "Conv2D", "SeparableConv1D", "SeparableConv2D",
   "BatchNormalization", "Dense", "LeakyReLU"}
Parameterised == {"Conv1D", "Conv2D", "SeparableConv1D", "SeparableConv2D",
                  "BatchNormalization", "Dense"}
Activations == {"linear", "softmax", "softplus", "tanh", "sigmoid",
                "hard_sigmoid", "relu", "selu", "elu"}
NoActivation == "none"

\* Mutation: the flags of the other pooling are asked for.
PoolingsAlike(class) ==
  CASE class \in {"Conv1D", "Conv2D"} -> {"conv2d"}
    [] class \in {"SeparableConv1D", "SeparableConv2D"} -> {"separable_conv2d"}
    [] class \in {"MaxPooling1D", "MaxPooling2D", "AveragePooling1D",
                  "AveragePooling2D"} -> {"max_pooling_2d"}
    [] OTHER -> {}
\* The operations whose offsets a creator asks for with get_global_param.
OffsetsOf(class) ==
  CASE class \in {"Conv1D", "Conv2D"} -> {"conv2d"}
    [] class \in {"SeparableConv1D", "SeparableConv2D"} -> {"separable_conv2d"}
    [] class \in {"MaxPooling1D", "MaxPooling2D"} -> {"max_pooling_2d"}
    [] class \in {"AveragePooling1D", "AveragePooling2D"} -> {"average_pooling_2d"}
    [] OTHER -> {}

Freed == [state |-> "freed"]
NoModel == [top |-> "none"]
NoWeights == "none"
NoLayers == << >>
-----------------------------------------------------------------------------
Init ==
  /\ load = "idle"
  /\ verify = FALSE
  /\ json = Freed
  /\ creating = << >>
  /\ made = NoLayers
  /\ model = NoModel
  /\ pending = << >>
  /\ loads = 0

Attribute(l) == json.architecture.layer[l]
Throw ==
  /\ load' = "threw"
  /\ creating' = << >>
  /\ json' = Freed
  /\ UNCHANGED <<verify, made, model, pending, loads>>

Readable == file.state = "complete"
Top == file.architecture.top

\* load_model reads the file, here in one step, and read_model parses it.
ReadModel(v) ==
  /\ load \in {"idle", "threw", "returned"}
  /\ loads < MaxLoads
  /\ loads' = loads + 1
  /\ verify' = v
  /\ made' = NoLayers
  /\ model' = NoModel
  /\ pending' = << >>
  /\ IF Readable
     THEN /\ load' = "creating"
          /\ json' = file
          /\ creating' = <<[id |-> Top, rest |-> file.architecture.layer[Top].layers]>>
     ELSE /\ load' = "threw"
          /\ json' = Freed
          /\ creating' = << >>

\* create_layer, for the next layer of the innermost model
Innermost == creating[Len(creating)]
NextLayer == Innermost.rest[1]
AtLayer == load = "creating" /\ creating # << >> /\ Innermost.rest # << >>
Known == Attribute(NextLayer).class \in Creators
Nested == Attribute(NextLayer).class = "Model"
\* Mutation: the same layer is created again.
SameAgain(stack) == stack
Advance(stack) ==
  [stack EXCEPT ![Len(stack)] = [id |-> @.id, rest |-> Tail(@.rest)]]

\* get_param: json_data["trainable_params"][name]
HasParams(l) == Attribute(l).class \in Parameterised
Param(l) ==
  IF json.state = "complete" /\ Attribute(l).name \in DOMAIN json.params
  THEN json.params[Attribute(l).name]
  ELSE NoWeights
GotParams == HasParams(NextLayer) => Param(NextLayer) # NoWeights
GotOffsets == OffsetsOf(Attribute(NextLayer).class) \subseteq DOMAIN json.offsets
Offsets(l) == [o \in OffsetsOf(Attribute(l).class) |-> json.offsets[o]]
GotActivation == Attribute(NextLayer).activation \in Activations \cup {NoActivation}

\* create_elu_layer and create_leaky_relu_layer look for an alpha in the config
\* of the layer the activation belongs to; the other creators take none.
NoAlpha == "none"
AlphaOr1(l) == IF Attribute(l).alpha = NoAlpha THEN "1" ELSE Attribute(l).alpha
Created(l, type) ==
  [function |-> type,
   alpha |-> IF type \in {"elu", "leaky_relu"} THEN AlphaOr1(l) ELSE NoAlpha]
OwnFunction(l) ==
  CASE Attribute(l).class = "Activation" -> Created(l, Attribute(l).activation)
    [] Attribute(l).class = "LeakyReLU" -> Created(l, "leaky_relu")
    [] Attribute(l).class = "ELU" -> Created(l, "elu")
    [] OTHER -> Created(l, Attribute(l).class)
\* Mutation: also for a layer that is an activation itself.
AnyActivation(l) == Attribute(l).activation # NoActivation
SetsActivation(l) ==
  Attribute(l).class # "Activation" /\ Attribute(l).activation # NoActivation
Applies(l) ==
  <<OwnFunction(l)>>
    \o IF SetsActivation(l) THEN <<Created(l, Attribute(l).activation)>> ELSE << >>

CreateLayer ==
  /\ AtLayer
  /\ Known
  /\ ~Nested
  /\ GotParams
  /\ GotOffsets
  /\ GotActivation
  /\ made' = [l \in DOMAIN made \cup {NextLayer} |->
                IF l = NextLayer
                THEN [weights |-> IF HasParams(l) THEN Param(l) ELSE NoWeights,
                      offsets |-> Offsets(l),
                      applies |-> Applies(l)]
                ELSE made[l]]
  /\ creating' = Advance(creating)
  /\ UNCHANGED <<load, verify, json, model, pending, loads>>

UnknownType == AtLayer /\ ~Known /\ Throw
InvalidFloats == AtLayer /\ Known /\ ~Nested /\ ~GotParams /\ Throw
\* null is no bool.
OffsetMissing == AtLayer /\ Known /\ ~Nested /\ GotParams /\ ~GotOffsets /\ Throw
UnknownActivation ==
  AtLayer /\ Known /\ ~Nested /\ GotParams /\ GotOffsets /\ ~GotActivation /\ Throw

EnterNested ==
  /\ AtLayer
  /\ Nested
  /\ creating' = Append(creating, [id |-> NextLayer, rest |-> Attribute(NextLayer).layers])
  /\ UNCHANGED <<load, verify, json, made, model, pending, loads>>

\* The constructor of model_layer, for a nested model and for the whole.
NamesUnique(id) ==
  LET ls == Attribute(id).layers IN
  \A i, j \in 1 .. Len(ls) : Attribute(ls[i]).name = Attribute(ls[j]).name => i = j
AtModel == load = "creating" /\ creating # << >> /\ Innermost.rest = << >>

NestedMade ==
  /\ AtModel
  /\ Len(creating) > 1
  /\ NamesUnique(Innermost.id)
  /\ creating' = Advance(SubSeq(creating, 1, Len(creating) - 1))
  /\ UNCHANGED <<load, verify, json, made, model, pending, loads>>

NamesNotUnique == AtModel /\ ~NamesUnique(Innermost.id) /\ Throw

ModelMade ==
  /\ AtModel
  /\ Len(creating) = 1
  /\ NamesUnique(Innermost.id)
  /\ model' = [architecture |-> json.architecture, layers |-> made,
                shapes |-> json.output_shapes]
  /\ creating' = << >>
  /\ load' = IF verify THEN "verifying" ELSE "returned"
  /\ UNCHANGED <<verify, json, made, pending, loads>>
-----------------------------------------------------------------------------
\* "No test cases available": tests is no array, or an empty one.
NoTests ==
  /\ load = "verifying"
  /\ json.tests = << >>
  /\ load' = "returned"
  /\ UNCHANGED <<verify, json, creating, made, model, pending, loads>>

LoadTests ==
  /\ load = "verifying"
  /\ json.tests # << >>
  /\ pending' = json.tests
  /\ json' = Freed
  /\ load' = "testing"
  /\ UNCHANGED <<verify, creating, made, model, loads>>

\* An output of Keras's shape s, its cells numbered, as the layers deliver it:
\* time lies along the width, the height is then 1, and what has no spatial
\* axis lies along the depth.
FdeepOutput(s) ==
  CASE Len(s) = 1 -> Reshape(Numbered(s), <<s[1], 1, 1>>)
    [] Len(s) = 2 -> ChannelsFirst(Reshape(Numbered(s), <<1>> \o s))
    [] Len(s) = 3 -> ChannelsFirst(Numbered(s))

\* What a layer of Keras computes with: elu has an alpha of 1 unless it is a
\* layer of its own.
KerasActivation(type) == [function |-> type, alpha |-> IF type = "elu" THEN "1" ELSE NoAlpha]
KerasApplies(l) ==
  CASE l.class = "Activation" -> <<KerasActivation(l.activation)>>
    [] l.class = "LeakyReLU" -> <<[function |-> "leaky_relu", alpha |-> l.alpha]>>
    [] l.class = "ELU" -> <<[function |-> "elu", alpha |-> l.alpha]>>
    [] OTHER -> <<KerasActivation(l.class)>>
                  \o IF l.activation = NoActivation THEN << >>
                     ELSE <<KerasActivation(l.activation)>>

\* The classes of Keras that perform an operation of the backend, and the
\* flags that tell how it does so.
PerformedFor ==
  [conv2d |-> {"Conv1D", "Conv2D"},
   separable_conv2d |-> {"SeparableConv1D", "SeparableConv2D"},
   max_pooling_2d |-> {"MaxPooling1D", "MaxPooling2D"},
   average_pooling_2d |-> {"AveragePooling1D", "AveragePooling2D"}]
KerasOffsets(class) ==
  [o \in {o \in DOMAIN PerformedFor : class \in PerformedFor[o]} |-> o]

\* What full_model computes: with the weights of another layer, another
\* activation or the offsets of another operation, the numbers are wrong.
LayerRight(m, l) ==
  /\ m.architecture.layer[l].class \in Parameterised => m.layers[l].weights = l
  /\ m.layers[l].applies = KerasApplies(m.architecture.layer[l])
  /\ m.layers[l].offsets = KerasOffsets(m.architecture.layer[l].class)
ModelRight(m) == \A l \in DOMAIN m.layers : LayerRight(m, l)
Wrong(t) == [t EXCEPT !.values = [p \in DOMAIN @ |-> 0]]
Predicted(m) ==
  [o \in 1 .. Len(m.architecture.outputs) |->
     LET t == FdeepOutput(m.architecture.outputs[o])
     IN IF ModelRight(m) THEN t ELSE Wrong(t)]

\* check_test_outputs
\* Mutation: only the sizes are compared.
SizesAgree(outputs, targets) ==
  \A i \in 1 .. Len(targets) : outputs[i].shape = targets[i].shape
OutputsAgree(outputs, targets) ==
  /\ Len(outputs) = Len(targets)
  /\ \A i \in 1 .. Len(targets) :
       /\ outputs[i].shape = targets[i].shape
       /\ \A p \in 1 .. Len(targets[i].values) : outputs[i].values[p] = targets[i].values[p]

\* model::predict throws if the outputs are not of the announced shapes.
Answers(m) == [o \in DOMAIN Predicted(m) |-> Predicted(m)[o].shape] = m.shapes

PassTest ==
  /\ load = "testing"
  /\ pending # << >>
  /\ Answers(model)
  /\ OutputsAgree(Predicted(model), Head(pending))
  /\ pending' = Tail(pending)
  /\ UNCHANGED <<load, verify, json, creating, made, model, loads>>

FailTest ==
  /\ load = "testing"
  /\ pending # << >>
  /\ ~(Answers(model) /\ OutputsAgree(Predicted(model), Head(pending)))
  /\ Throw

Return ==
  /\ load = "testing"
  /\ pending = << >>
  /\ load' = "returned"
  /\ UNCHANGED <<verify, json, creating, made, model, pending, loads>>

Step ==
  \/ CreateLayer \/ UnknownType \/ InvalidFloats \/ OffsetMissing \/ UnknownActivation
  \/ EnterNested \/ NestedMade \/ NamesNotUnique \/ ModelMade
  \/ NoTests \/ LoadTests \/ PassTest \/ FailTest \/ Return

Next == (Step \/ \E v \in BOOLEAN : ReadModel(v)) /\ UNCHANGED file
=============================================================================
