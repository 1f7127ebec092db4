---------------------------- MODULE ModelExchange ----------------------------
(***************************************************************************)
(* The converter and the loader at work on one file: while models are      *)
(* converted to it, one after the other, a program loads what is there.    *)
(* Nothing but the file connects the two.                                  *)
(***************************************************************************)
EXTENDS Arrays

CONSTANTS
  KerasModels,     \* the models there are to be converted
  GivenFiles,      \* what may be under the path to begin with
  MaxNesting,      \* bound: how deep models are nested in models
  MaxConversions,  \* bound: the number of conversions
  MaxLoads         \* bound: the number of calls of load_model

VARIABLES
  file,
  conversion, keras, sequential, visits, tests, calls, conversions,
  load, verify, json, creating, made, model, pending, loads

Converter == INSTANCE ModelConversion
Loader == INSTANCE ModelLoading

converterVars == <<conversion, keras, sequential, visits, tests, calls, conversions>>
loaderVars == <<load, verify, json, creating, made, model, pending, loads>>
vars == <<file, converterVars, loaderVars>>

Init ==
  /\ file \in GivenFiles
  /\ Converter!Init
  /\ Loader!Init

Next ==
  \/ Converter!Next /\ UNCHANGED loaderVars
  \/ Loader!Next /\ UNCHANGED converterVars

Spec == Init /\ [][Next]_vars

\* Neither program waits for anything.
FairSpec ==
  /\ Spec
  /\ WF_vars(Converter!Step /\ UNCHANGED loaderVars)
  /\ WF_vars(Loader!Step /\ UNCHANGED <<file, converterVars>>)
-----------------------------------------------------------------------------
Plain(k, l) == k.layer[l].class \notin Converter!NestedClasses
Converted(k) == Converter!Architecture(k, {})
Weighted(k, l) == k.layer[l].class \in Converter!ShowFunctions
IsDocument(f) == f.state = "complete"

(***************************************************************************)
(* What Keras makes sure of.  A model is made of layers that exist before  *)
(* it, so that no model is part of itself and every layer is reached from  *)
(* the outermost one; outputs have one to three axes besides the batch     *)
(* axis; only ELU and LeakyReLU have an alpha, and no activation besides.  *)
(***************************************************************************)
IsLayer(layer, l) ==
  /\ layer[l] = [name |-> layer[l].name, class |-> layer[l].class,
                 activation |-> layer[l].activation, alpha |-> layer[l].alpha,
                 exports |-> layer[l].exports, layers |-> layer[l].layers]
  /\ layer[l].layers \in Seq(DOMAIN layer)
LayersOf(k, l) == {k.layer[l].layers[i] : i \in 1 .. Len(k.layer[l].layers)}
Closed(k, S) == \A l \in S : ~Plain(k, l) => LayersOf(k, l) \subseteq S
IsRank(k, rank) ==
  \A l \in DOMAIN k.layer : ~Plain(k, l) =>
    \A m \in LayersOf(k, l) : ~Plain(k, m) => rank[m] < rank[l]
OutputShapes == {s \in Seq(Nat \ {0}) : Len(s) \in 1 .. 3}
AreOutputs(outputs) == outputs # << >> /\ outputs \in Seq(OutputShapes)
AlphaFits(l) ==
  IF l.class \in {"ELU", "LeakyReLU"}
  THEN l.alpha # Loader!NoAlpha /\ l.activation = Loader!NoActivation
  ELSE l.alpha = Loader!NoAlpha
IsKerasModel(k) ==
  /\ \A l \in DOMAIN k.layer : IsLayer(k.layer, l) /\ AlphaFits(k.layer[l])
  /\ Loader!NoWeights \notin DOMAIN k.layer
  /\ k.top \in DOMAIN k.layer
  /\ ~Plain(k, k.top)
  /\ \A S \in SUBSET DOMAIN k.layer : k.top \in S /\ Closed(k, S) => S = DOMAIN k.layer
  /\ \E rank \in [DOMAIN k.layer -> 1 .. MaxNesting] : IsRank(k, rank)
  /\ AreOutputs(k.outputs)

(***************************************************************************)
(* A file of another origin may be no document at all.  If it is one, it   *)
(* need not fit its model or itself, but json has no dangling layers, and  *)
(* its tests expect numbers: 0 stands for a wrong one only.                *)
(***************************************************************************)
TestTensors ==
  {t \in [shape : Seq(Nat \ {0}), values : Seq(Nat \ {0})] :
     t.values # << >> /\ Len(t.shape) = 3 /\ IsArray(t)}
IsTest(test) == test # << >> /\ test \in Seq(TestTensors)
IsGivenDocument(f) ==
  /\ \A l \in DOMAIN f.architecture.layer : IsLayer(f.architecture.layer, l)
  /\ f.architecture.top \in DOMAIN f.architecture.layer
  /\ AreOutputs(f.architecture.outputs)
  /\ \A n \in DOMAIN f.params : f.params[n] # Loader!NoWeights
  /\ f.tests \in Seq({test \in Seq(TestTensors) : test # << >>})
  /\ \A k \in KerasModels : f.architecture # Converted(k)

ASSUME NestingAssumption == MaxNesting \in Nat
ASSUME KerasAssumption == \A k \in KerasModels : IsKerasModel(k)
ASSUME GivenAssumption ==
  \A f \in GivenFiles :
    \/ f.state = "absent"
    \/ IsDocument(f) /\ IsGivenDocument(f)
-----------------------------------------------------------------------------
\* The ways get_all_weights may take into nested models, each a sequence of
\* models and the positions in them at which it goes on.
Places(k) ==
  UNION {{<<m, i>> : i \in 1 .. Len(k.layer[m].layers)} : m \in DOMAIN k.layer}
LayerAt(k, place) == k.layer[place[1]].layers[place[2]]
IsPath(k, p) ==
  /\ p[1][1] = k.top
  /\ \A d \in 1 .. Len(p) - 1 :
       ~Plain(k, LayerAt(k, p[d])) /\ p[d + 1][1] = LayerAt(k, p[d])
Paths(k) ==
  {p \in UNION {[1 .. n -> Places(k)] : n \in 1 .. MaxNesting} : IsPath(k, p)}
Target(k, p) == LayerAt(k, p[Len(p)])
\* On two ways two layers of one name are met, one of them with weights; on
\* different ways this may be twice the same layer.
NameClash(k) ==
  \E p, q \in Paths(k) :
    /\ p # q
    /\ Weighted(k, Target(k, p))
    /\ Plain(k, Target(k, q))
    /\ k.layer[Target(k, p)].name = k.layer[Target(k, q)].name

TypeOK ==
  /\ conversion \in {"idle", "normalising", "exporting", "writing", "raised"}
  /\ load \in {"idle", "creating", "verifying", "testing", "returned", "threw"}
  /\ file.state \in {"absent", "partial", "complete"}
  /\ json.state \in {"freed", "complete"}
  /\ conversion = "exporting" => calls # << >>
  /\ conversion # "idle" => sequential \subseteq DOMAIN keras.layer
  /\ load = "creating" <=> creating # << >>
  /\ load \in {"creating", "verifying"} => json.state = "complete"
  /\ load = "returned" => model # Loader!NoModel
  /\ \A i \in DOMAIN tests : IsArray(tests[i]) /\ Len(tests[i].shape) = 3

(***************************************************************************)
(* A model that was converted and loaded, verified or not, has all its     *)
(* layers; each has its own weights, although one flat map carries those   *)
(* of all nested models and the file may be overwritten once it is read,   *)
(* applies its activation once, with its own alpha, and has the offset     *)
(* flags that were measured of the operation it performs.                  *)
(***************************************************************************)
LoadedIsConverted ==
  load = "returned" =>
    \A k \in KerasModels :
      model.architecture = Converted(k) =>
        /\ DOMAIN model.layers = {l \in DOMAIN k.layer : Plain(k, l)}
        /\ \A l \in DOMAIN model.layers :
             /\ Weighted(k, l) => model.layers[l].weights = l
             /\ model.layers[l].applies = Loader!KerasApplies(k.layer[l])
             /\ model.layers[l].offsets = Loader!KerasOffsets(k.layer[l].class)

(***************************************************************************)
(* predict compares the shapes of its answer with those in the file, which *)
(* the converter takes from its test and not from the model: a model that  *)
(* was converted can answer as soon as it is built, verified or not.       *)
(***************************************************************************)
LoadedAnswers ==
  load \in {"verifying", "testing", "returned"}
  /\ (\E k \in KerasModels : model.architecture = Converted(k)) =>
    Loader!Answers(model)

(***************************************************************************)
(* With verify, a document with tests is not returned as a model unless    *)
(* the model computes what Keras computed.                                 *)
(***************************************************************************)
VerifiedIsRight ==
  load = "returned" /\ verify =>
    \/ Loader!ModelRight(model)
    \/ \E f \in GivenFiles : IsDocument(f) /\ f.architecture = model.architecture
                                           /\ f.tests = << >>

(***************************************************************************)
(* Loading a model fails only if the file is no document, or the document  *)
(* has a layer or an activation frugally-deep does not know, has two       *)
(* layers of one name in a model, lacks or mixes up offsets or weights,    *)
(* announces other shapes than those of its model's outputs, or has tests  *)
(* that are not what Keras computes.                                       *)
(***************************************************************************)
LayersWithWeights == Converter!ShowFunctions \cup {"SeparableConv1D"}
Legible(f) ==
  LET layer == f.architecture.layer IN
  \A l \in DOMAIN layer :
    /\ layer[l].class \in Loader!Creators
    /\ layer[l].activation \in Loader!Activations \cup {Loader!NoActivation}
    /\ layer[l].class \in LayersWithWeights => layer[l].name \in DOMAIN f.params
    /\ Loader!OffsetsOf(layer[l].class) \subseteq DOMAIN f.offsets
    /\ \A i, j \in 1 .. Len(layer[l].layers) :
         layer[layer[l].layers[i]].name = layer[layer[l].layers[j]].name => i = j
OwnTest(m) ==
  [o \in DOMAIN m.architecture.outputs |-> Loader!FdeepOutput(m.architecture.outputs[o])]
ThrowReason ==
  \/ load \in {"idle", "threw", "returned"} /\ ~IsDocument(file)
  \/ load = "creating" /\ ~Legible(json)
  \/ /\ load = "testing"
     /\ \/ ~Loader!ModelRight(model)
        \/ ~Loader!Answers(model)
        \/ \E i \in DOMAIN pending : pending[i] # OwnTest(model)
LoadThrowsWithReason ==
  [][load' = "threw" /\ (load # "threw" \/ loads' # loads) => ThrowReason]_vars

(***************************************************************************)
(* The converter refuses a model only when it has to: an input of unknown  *)
(* size, a layer it cannot export, two layers of one name, or trouble with *)
(* the file.                                                               *)
(***************************************************************************)
RaisesWithReason ==
  conversion = "raised" =>
    \/ ~keras.sized
    \/ \E l \in DOMAIN keras.layer : Plain(keras, l) /\ ~keras.layer[l].exports
    \/ NameClash(keras)
    \/ file.state = "partial"

(***************************************************************************)
(* A conversion and a load, once begun, end, however deep the nesting.     *)
(***************************************************************************)
ExchangeEnds ==
  /\ conversion = "normalising" ~> conversion \in {"idle", "raised"}
  /\ load = "creating" ~> load \in {"returned", "threw"}

(***************************************************************************)
(* What the documentation says.  Any Keras model whose layers are          *)
(* supported can be converted and loaded (convert_model.py:362, README.md, *)
(* "Supported layer types", "Also supported").                             *)
(***************************************************************************)
ListedAsSupported ==
  {"InputLayer", "Model", "Sequential", "Activation", "Add", "Concatenate",
   "AveragePooling1D", "AveragePooling2D", "GlobalAveragePooling1D",
   "GlobalAveragePooling2D", "Conv1D", "Conv2D", "SeparableConv2D",
   "Cropping1D", "Cropping2D", "ZeroPadding1D", "ZeroPadding2D",
   "BatchNormalization", "Dense", "Dropout", "Flatten", "MaxPooling1D",
   "MaxPooling2D", "GlobalMaxPooling1D", "GlobalMaxPooling2D", "ELU",
   "LeakyReLU", "UpSampling1D", "UpSampling2D"}
SupportedModel(k) ==
  /\ k.sized
  /\ \A l \in DOMAIN k.layer :
       /\ k.layer[l].class \in ListedAsSupported
       /\ k.layer[l].exports
       /\ k.layer[l].activation \in Loader!Activations \cup {"none"}
BeingLoaded == IF load = "creating" THEN json.architecture ELSE model.architecture
SupportedBeingLoaded ==
  \E k \in KerasModels : SupportedModel(k) /\ Converted(k) = BeingLoaded
\* load_model does not refuse what was converted from a supported model.
SupportedModelLoads ==
  [][load' = "threw" /\ load \in {"creating", "testing"} => ~SupportedBeingLoaded]_vars
\* convert_model.py raises nothing on a supported model, trouble with the file apart.
SupportedModelConverts ==
  conversion = "raised" /\ SupportedModel(keras) => file.state = "partial"
=============================================================================
