# A formal model of frugally-deep

frugally-deep predicts in C++ with a model that was trained in Keras:
`keras_export/convert_model.py` writes the Keras model to a json file,
`fdeep::load_model` builds layers from the file, `model::predict` evaluates them.
This directory holds TLA+ models of that program, the TLC configurations that
check them on small instances, and proofs about them for all instances, checked by
TLAPS. `PROJECT.json` relates every definition to the lines it models and lists
the runs, the hazards and the theorems. Paths below are relative to
`src/include/fdeep/` unless they start with `src/`.

    tlc -config MCForwardPass.cfg MCForwardPass      # a run
    tlapm ForwardPassProofs.tla                      # the proofs of a module

## The system

```
 Keras model --convert_model.py--> file.json --load_model--> model --predict--> tensors
                  |  weights: base64     |  create_*_layer       |  graph walk, one per call,
                  |  tests made by Keras |  runs the tests       |  many threads at once
```

| Component | State | Operations | Meets others through |
|---|---|---|---|
| forward pass (`model.hpp`, `node.hpp`, `layers/layer.hpp`, `layers/model_layer.hpp`, `layers/activation_layer.hpp`) | the call stack and one `output_cache` per running `model_layer::apply_impl` | `predict`, `get_output`, `apply`, `apply_impl` | calls every layer; a nested model calls itself |
| sliding windows (`convolution.hpp`, convolution and pooling layers) | padding, offset, output size; two loop counters | `preprocess_convolution`, `convolve_im2col`, `average_pool_2d`, `max_pool_2d` | reads tensors without index checks |
| concurrent prediction (`model::predict_multi`, `tensor3::values_`) | shared buffers, one task per data entry | `predict_multi`, sequential or parallel; `predict` | several callers share a model and each other's tensors |
| export (`src/keras_export/convert_model.py`) | the stack of `get_all_weights` calls, the file | `convert`, `convert_sequential_to_model`, `gen_test_data`, `get_all_weights` | the file |
| import (`import_model.hpp`, `model.hpp`) | json document, layers under construction | `read_model`, `load_model`, `create_*`, the tests | the file; predicts to run the tests |
| tensors (`tensor3.hpp` and the layers that rearrange cells) | none | transpose, flatten, pad, crop, upsample, pool, concatenate, normalise, softmax, bytes | values passed between layers |
| weights (`filter.hpp`, `convolution.hpp`, dense, convolution and pooling layers) | `filters_`, `params_` | export, `generate_filters`, `convolve_im2col`, matrix product, windows over both axes | the file; tensors; sliding windows |
| float encoding (`base64.hpp`, `encode_floats`, `decode_floats`) | the position in the text | encode, split, join, decode | every number of the file |
| activation functions (which one a layer applies, and when) | `activation_` | `create_activation_layer`, `apply_activation_layer` | import; forward pass |
| transposed convolution, test model generators, tests and packaging | | | not modelled, see below |

What is hard in this code, and where it is treated:

- **Memoisation by name.** `output_cache` is keyed by layer name and node index;
  nested models reuse names, shared layers have several nodes, and
  `output_cache[key] = f()` may insert the key before `f` runs: *ForwardPass*.
- **Unchecked index arithmetic.** `tensor3::get` checks nothing; padding, offset and
  output size are computed apart from each other, partly in floating point:
  *SlidingWindows*.
- **Sharing without locks.** Copies of a tensor share its buffer, and so do the results of
  dropout and linear layers: *ParallelPredictions*.
- **Two programs, one file.** Weights are found by layer name in one flat map; the
  file is overwritten in place; only the tests in the file tell a model
  with wrong weights, a wrong activation or a wrong offset from a right one: *ModelExchange*.
- **Two orders of axes.** Keras has channels last and arrays of rank 1 to 3,
  frugally-deep channels first and always three axes: *TensorLayout*, *WeightLayout*.
- **Bytes.** The last group of base64, and strings that cut groups: *FloatEncoding*.

`PROJECT.json` has the full list of hazards, each at its line with the
properties that would notice it.

## What makes each part correct

| Part | Promise |
|---|---|
| forward pass | returns the tensors the network's equations define, throws only for a reason, evaluates each node once, ends |
| sliding windows | the same windows as TensorFlow's (up to the offset the converter measured), no read outside the tensor, no division by an empty window |
| concurrency | each call is answered as if it were alone; arguments are never written; no data race; no thread left behind |
| export and import | a model that was loaded has every layer of the Keras model with that layer's own weights; both fail only for a reason |
| tensor and weight layout | each layer yields the Keras result, in the other order of axes |
| float encoding | the same bytes arrive |

## Modules

**ForwardPass** is the walk of `model_layer::apply_impl`. The C++ call stack is the
variable `stack` of frames: a frame is a node being evaluated (`node::get_output`
collecting its inbound tensors in `got`) or a model collecting its outputs (key `Outputs`);
`cache[path]` is the `output_cache` of the call with that path of nested nodes.
One action is one step of the recursion: `Descend` (cache miss), `Deliver`
(cache hit, or the value just computed), `ApplyLayer`, `EnterModel`, `LeaveModel`,
`Return`, and one action per exception. `eager` tells builds that
insert the cache entry before the recursive call from those that do not: C++14
leaves the order open. What a layer computes is the uninterpreted `Tensor`, and
`Rejecting` are the nodes whose own shape assertions fail. After an answer `predict` may be
called again, with any number of inputs.
**ForwardPassMeaning** adds the equations of a network as a constant `Meaning`
constrained by an assumption, and the properties. **Dataflow** is the
abstract specification: nodes fire in any order that respects what they need, and the
outputs are ready once all wanted nodes have fired. ForwardPass implements it
(`ImplementsDataflow`): a node has fired when it is in the history `applied`.

**SlidingWindows** treats one spatial axis (the code treats height and width alike and apart):
`Preprocess` makes the plan, then the im2col loop (`Gather`, `NextRow`, `Multiply`)
runs over taps outside and windows inside, and the pooling loop (`PoolTap`, `PoolSet`,
`PoolEnd`) over windows outside and taps inside. Division is C++'s, which truncates. `Ceil` is
the code's `fplus::ceil(n / s - 0.001)` with the float quotient taken as exact, which it is
closely enough for sizes below some ten thousand. `reads` records
which cell each tap of each window read.

**ParallelPredictions** has a heap of buffers, several callers, and tasks that apply
layers one after the other; a task reads its arguments and writes its result between `Apply` and
`Applied`, so overlapping accesses are visible as states. `transform_parallelly` starts one
`std::async` task per entry and then gets their results in order; `StartFails` is
a system without a thread left, `Unwound` the futures' destructors that wait for the
tasks of a call that throws. Callers edit their results between calls and pass
them in again. **Predictions** is the abstract specification of what callers see.

**ModelConversion** and **ModelLoading** follow the converter's and the loader's
recursion over nested models; **ModelExchange** composes them over one `file`.
Convert, load, overwrite and interruption may come in any order. Weights
are named after the layer they belong to, and offset flags after the operation they were
measured of, so that a mix-up is visible. A loaded layer (`made`) carries
its weights, the activation it applies (with its parameter) and the offset flags it was
given; the document announces the shapes of inputs and outputs, which
the loader turns round once more. A file may lack tests or offset flags, mix up weights or
flags or have two layers of one name.

**Arrays**, **Tensor3** and **KerasArrays** are pure: arrays of any rank, the functions of
`tensor3.hpp` with their index arithmetic, and Keras's definitions of the same layers.
**TensorLayout** applies a sequence of layers to both. **WeightLayout** takes one
layer with windows or weights through export, import and application, with symbolic numbers
(a value is a set of products), so that an exchanged index cannot cancel out. Its
windows are those of SlidingWindows, instantiated once per axis: padding, strides, dilation
and the offset flags, which the probe of the converter measures on the same backend
whose windows the layer has to reproduce.

**FloatEncoding** encodes an array, splits the text into strings and steps through
`decode_floats` as the code does: join, skip padding, four characters at a time.

**UntypedSeq** holds sequences whose elements have no common set, for the
forward pass, whose tensors are left open. **ArrayProofs** has the lemmas several proofs share: on such
sequences, on the positions of cells in arrays, and a principle of induction.

## Runs

| Run | Bounds | What it shows |
|---|---|---|
| `forward_pass` | 17 networks, both builds, up to 3 inputs passed, any number of predictions in a row; 640 states | all properties of ForwardPassMeaning, and that the walk implements Dataflow |
| `input_of_another_shape` | the same | **violated**: `InputsAreChecked` |
| `sliding_windows` | sizes 1-7, kernels 1-4, rates 1-2, strides 1-4, valid and same, all three layers, with and without offset; 28889 states | TensorFlow's windows, reads in bounds, no empty pooling window, coverage, the converter's probe |
| `convolution_of_nothing` | the same | **violated**: `AnswersOrThrows` |
| `parallel_predictions` | 2 callers with 2 and 1 calls, 2 entries a call, 2 threads, 3 layers; 69705 states | no race, arguments untouched, results owned, and the refinement of Predictions |
| `model_exchange` | 12 Keras models, nested at most two deep, 2 conversions, 2 loads, 6 files to begin with; 201476 states | layers get their own weights, activations and offsets, a loaded model answers what Keras answered, verification works, both programs fail only for a reason and end |
| `sequence_model_loads` | one model that returns a sequence | **violated**: `SupportedModelLoads` |
| `shared_layer_converts` | one model with a layer it shares with a nested model | **violated**: `SupportedModelConverts` |
| `tensor_layout` | an image 2x3x2, a sequence 2x3, a vector 3; up to 3 layers, 24 cells, one tensor kept and used again; 17778 states | every sequence of layers gives the Keras result |
| `concatenate_axis` | the same, one layer, any axis | **violated**: `SameTensor` |
| `weight_layout` | kernels and pools 1x2, 2x1, 2x2 on 3x4 images and sequences of 6, 1-2 channels and units, valid and same, strides 1-3, dilation 1-2, backends with and without shifted windows; dense 1-3 to 1-3; 6376 states | Keras's sums of products, for every class of layer with weights or windows |
| `float_encoding` | arrays of 0-4 of three floats, each byte once in each place; strings of 6 characters; 3211 states | every prefix is decoded right, every array survives |

Why these bounds are enough:

- The networks have one instance of everything the walk distinguishes: shared layers, a node
  reached along several paths, nested models two deep with colliding names,
  a nested model called twice, several outputs, an input that is an output, an input listed twice, and
  one network per reference or layer that the code rejects.
- Window arithmetic depends on remainders modulo the stride and on whether input, filter and
  stride exceed each other; 7, 4 and 4 give all of these. The proofs remove the bound.
- Two callers and two entries let a write of one meet an access of any other; one call of
  the first caller passes on what another returned.
- Axis and index errors show up as soon as sizes differ from each other; hence no
  square shapes in the inputs.
- Base64 has three lengths of padding, and a group can be cut in three places.

A run has `CHECK_DEADLOCK FALSE` where the modelled program stops (a layer is applied once, a
bounded number of calls is made); `forward_pass` checks for deadlock.

### Fairness

Liveness is checked for three modules, always under weak fairness of steps that the code
takes without waiting. `ForwardPass`: the thread that runs `predict` goes on. Nobody
need call `predict`. `ParallelPredictions`: each task and each running call goes on as
long as it can; `std::future::get` waits for one task, which is the guard of `Collect`.
Nothing is assumed of the application between its calls. `ModelExchange`: converter and loader go on,
except that the converter may be interrupted while it writes.

### Disagreements

1. An input layer's assertion "invalid input size" (`layers/input_layer.hpp:25`) is never evaluated:
   the caller's tensors are already in the output cache, so the input layer is never applied.
   A tensor of the wrong shape is answered if the later layers and the output shape accept it
   (a global pooling layer does).
2. A convolution with valid padding whose input is shorter than the filter, by at most the stride, plans an
   output of size 0 and then computes a remainder by zero inside an assertion (`convolution.hpp:116`).
3. A model with one output that is a sequence is exported with scrambled test outputs,
   so `load_model` refuses the file (`src/keras_export/convert_model.py:43`).
4. A layer shared between a model and a model nested in it cannot be converted
   (`src/keras_export/convert_model.py:248`).
5. `Concatenate` ignores its axis (`import_model.hpp:416`).

Also met while reading, without a run: `README.md` lists `Maximum` as not supported, but
`create_layer` has a creator for it (`import_model.hpp:694`); and there is a creator for
`SeparableConv1D`, but the converter has no function for that class and exports no weights
of it, so that a model with such a layer is refused when it is loaded.

## Proofs

| Module | Theorems | Argument |
|---|---|---|
| ForwardPassProofs | `TypeCorrect`, `StackIsRecursion`, `CacheIsCorrect`, `ResultIsCorrect`, `PlaceholderIsNeverRead`, `ThrowsOnlyWithReason`, `EachNodeOnce`, `WalkIsDataflow` | `Shape == TypeOK /\ StackShape` is inductive: that a frame is where the recursion says it is needs the types of the caches below it, and the types of what a frame reads need its place. `Means`: every entry of every live cache is the solution of its node's equation, or the empty placeholder of a node on the stack, and so is every tensor a frame has gathered; along the stack the rank of nodes decreases, so a placeholder is never asked for. `Fired`: the history and the caches tell the same story: what has been applied is remembered by the cache of its call while the call lives, and by the application of the node that made the call afterwards; so a node that misses was never applied, and a path is entered once. What a frame has gathered has fired, which is Dataflow's guard |
| SlidingWindowsProofs | `TypeCorrect`, `NoReadOutside`, `NoEmptyWindow`, `OffsetCentres`, `LayersAreTensorFlows`, `ProbeIsTold`, `InputIsCovered` | lemmas about `Ceil`, padding and the last window; the invariant says each recorded read is where the formula puts it and every tap passed has been read; windows that overlap or touch leave no gap, so what is unread lies before the first or after the last |
| ParallelPredictionsProofs | `TypeCorrect`, `ThreadSafety`, `InputsAreConst`, `AnswersAreOwn`, `ThreadsAreJoined`, `CallsAreIndependent` | ownership without locks: a task writes only the buffer named after its call, entry and layer; what it holds came from its entry; batches hold only older buffers; a caller edits only results of its last answer, between calls. So the buffers a task holds are written by nobody, and hold the numbers the layers' equations give for what the call was made with (`Sound`); with it every step is one of Predictions or invisible to callers |
| FloatEncodingProofs | `TypeCorrect`, `NoByteLost`, `DecodeInvertsEncode` | joining the strings gives prefixes of the text whatever the length of a string; after g groups the first 3g bytes are back; one lemma per length of the last group |
| ModelExchangeProofs | `Types`, `LoadedModelIsConverted`, `LoadedModelAnswers`, `VerifiedModelIsRight`, `ConverterRaisesWithReason`, `LoaderThrowsWithReason` | one invariant for the converter, one for the file, one for the loader; see below |
| TensorLayoutProofs | `TensorIsKeras`, `NothingIsRefused`, `ClassIsKerasArgMax`, `BytesAreKerasRows`, `Types` | one lemma per layer, `Same(a, t) => Same(Keras's layer of a, the code's layer of t)`, cell by cell; see below |
| WeightLayoutProofs | `EveryLayerIsApplied`, `OutputsAreKeras` | `WeightInv`: what the file holds, what was made of it and what that yields are each what the step before made; then the output is compared with Keras's, kind by kind of layer; see below |
| ArrayProofs | (lemmas) | sequences without a common element set; digits of positions, and where the cells of arrays of rank 0 to 4 lie; induction over the natural numbers, from the well-foundedness of inclusion of finite sets (needed because the library's induction theorems take an operator as parameter) |

The invariant behind ModelExchangeProofs is `ExchangeInv`, the conjunction of three parts that
are inductive only together:

- `ConverterInv`: the calls of `get_all_weights` that run form a path through the nested models, so
  that a call's place names the layers it has yet to see; a layer before a place is settled,
  which is to say that its weights are in the map of the call, under its name, and nobody else's. Each call is one
  level further down in the rank of its model, which bounds the stack by `MaxNesting`.
- `FileInv`: the file holds nothing, a part, or a whole document, and a whole document is one of those
  given or the one `FromKeras` makes of some Keras model. A document loaded from it stays what it was,
  whatever is written to the path meanwhile.
- `LoaderInv`: the models under construction are a path through the nested models of the
  document; a layer that has been made has the class, weights, activation and offsets its
  part of the document names, and so have those of the finished nested models; the tests still to run are those of
  the document, and once none is left the model is right.

The theorems follow: `LoadedIsConverted` from the last with the document being `FromKeras` of its model, and
`RaisesWithReason` from the settled layers, because a name met twice belongs to two layers.

The invariant behind TensorLayoutProofs, `LayoutInv`, says that the array and the tensor at hand are the same
(`Same`), and so are those kept for later, which a layer of two inputs meets again. The work is in the layers:

- *Positions.* `(y * w + x) * c + z` and its counterparts are numbers with digits, so division and remainder give
  the digits back (`DigitsOfThree`). With the shapes of rank 1 to 3 read as images whose missing axes have size 1,
  `Pos` is the position of a cell (y, x, z) in Keras's array, whatever the rank (`CellOfPos`), and
  `CellsOfTensor` says where `AsTensor3` puts it. `SameCells` then reduces each layer to one cell.
- *Sums.* `FoldSet` takes elements out of a set in an order left open, and the two sides sum over
  different sets: triples of the code, indices of Keras. `SumWithout` shows by induction that the order makes no
  difference, `TotalOfRenamed` that an injection of the cells does not either; global average pooling and
  softmax rest on them.
- *Two tensors.* `FoldLeft` over a pair is evaluated by hand (`SumOfTwo`, `DepthOfTwo`, `ValuesOfTwo`); shapes that
  Keras accepts pass the code's assertions (`SameSizes`, `SameAreas`).

These theorems have a hypothesis, `JoinsChannels`: models concatenate along their channels. Without it
they are false, as the run `concatenate_axis` shows (disagreement 5). The bounds `MaxLayers` and
`MaxVolume` are constants of any value, and values are arbitrary integers.

The invariant behind WeightLayoutProofs is simple, because export, loading and application are functions of
what was there before; the work is in what these functions yield.

- *Windows.* Along one axis, the code plans with the dilated filter and TensorFlow with the kernel and its
  dilation: the number of windows is the same (`PlanOf`), and the first window lies where the backend has it
  (`First`) if the layer uses the offset exactly when the backend shifts its operation. The probe of six
  cells tells the shifted operations from the others, and the flag survives being written, read, and picked
  by padding and depth of the input.
- *Weights.* A number's place in the file is its kernel position with the axes exchanged (`SwapAxes`, digit by
  digit); the creators' divisions give back the depth and the sizes of the filters, so that the part of the text each
  filter gets is the numbers of its own channel. In a dilated filter only the multiples of the rate are not nought.
- *Sums.* A row of the matrix times a column is the sum over the window (`WindowSum`): a nought adds nothing, so
  the padded, dilated window of the code and Keras's taps, which skip the cells outside, have the same
  products. `ConvolutionIsKeras`, `DenseIsKeras` and `PoolingIsKeras` follow.
- *Separable convolutions* are two of these: the planes of the first are joined one after the other
  (`FoldSteps`, `PlanesJoined`), and products of sums are sums of products (`SeparableIsKeras`).

No product occurs twice in a sum, whatever the weights are called, since the cells of a window differ; so
equal sets of products are equal sums.

Properties of a run that a theorem proves for every value of the constants are marked in
`PROJECT.json` under `theorems`. The assumptions they rest on, each evaluated by TLC on its run:

- `GraphAssumption`, `ArgumentsAssumption`, `SizeTAssumption`: networks have the types the loader
  makes; no layer has as many nodes as `std::size_t` has values.
- `CallsAssumption`, `MeaningAssumption`: `Meaning` solves the network's equations. It exists for every
  network whose graph is acyclic; the model-checking module computes it by recursion.
- `RankAssumption`: no cycles. Keras builds a layer's node from tensors that exist.
- `GeometryAssumption`, `ToleranceAssumption`: sizes are positive, and strides below 1000, where
  the 0.001 in the code is less than the least fraction of a quotient.
- `SizesAssumption` and the `LayersAssumption` of ParallelPredictions: a layer's arguments are earlier positions; the buffers
  of the application are not those predictions make.
- `NestingAssumption`, `KerasAssumption`: a Keras model is made of layers that exist before it, so that models are
  nested at most `MaxNesting` deep and never in themselves; outputs have one to three axes besides the
  batch; only ELU and LeakyReLU have an alpha. `GivenAssumption`: a file of another origin, if it is
  a document, names only layers it has and tests with numbers, whatever else is in it.
- `WeightsAssumption`, `ChunkSizeAssumption`: floats are four bytes, strings are not empty.
- `IntervalAssumption`, `ParametersAssumption`: an input has one to three axes of positive size and a byte
  for each cell, bytes are scaled to an interval of whole steps, paddings and crops are not negative, and scales are positive.
- The `LayersAssumption` of WeightLayout: what Keras builds. Kernels are nowhere empty and have a weight at every position,
  the input has the kernel's channels, and windows fit into it unless it is padded; separable convolutions
  have a depth multiplier of 1, as `src/keras_export/convert_model.py:172` asserts; strides are below 1000, as above. Which
  operations the backend shifts is any set.

Only model-checked: liveness (`PredictionEnds`, `CallsAreAnswered`, `ExchangeEnds`), which is beyond
the prover. Every other property of a passing run is a theorem.

## Abstractions

- What a layer computes is uninterpreted in ForwardPass and ParallelPredictions. TensorLayout and
  WeightLayout compute with whole numbers: rounding, overflow to infinity and NaN are left out, and so
  is the division by the standard deviation in a batch normalisation.
- Tests in a file are right or wrong as a whole; the tolerance of 0.0001 is left out.
- `load_model` reads the file in one step (`ReadModel`), although `read_text_file` streams it. A read that
  overlaps a write gives the old text, the new one or a mixture. A mixture that is no JSON makes
  `load_model` throw, as the partly written file does that the model has; one that is a document again, as two
  conversions of one architecture with texts of equal length may give, is left out. What is
  shown of overwriting is that a document, once read, is not affected by it.
- Files that `convert_model.py` did not write are modelled only as five samples: without tests, without offset
  flags, with weights or flags mixed up, with two layers of one name. A base64 text damaged on the way is not modelled.
- The exponential in softmax is a symbol: that `exp` overflows for large inputs, because the code
  does not subtract the maximum first (`layers/softmax_layer.hpp`), is not covered.
- `std::size_t` wraps round in the node index of a nested model; elsewhere sizes stay below it.

## Not modelled

- The arithmetic of the activation functions: one real number in, one out. When they are applied
  is part of ForwardPass; which function with which parameter a loaded layer applies, and that it
  is applied once, of ModelLoading; softmax, which looks across cells, of TensorLayout.
- `conv_2d_transpose_layer`: no creator is registered and `convolve_transpose` throws.
- `STORE_FLOATS_HUMAN_READABLE`: a debugging form of the file, off by default.
- `generate_test_models.py`, `save_application_examples.py`, `visualize_layers.py`, the tests and the
  packaging: programs around the library without state of their own.
- Wording of error messages, progress output, timing.

## Plan

Done, in this order: ForwardPass with its proofs; SlidingWindows; ParallelPredictions;
ModelExchange; TensorLayout; WeightLayout; FloatEncoding.

Since then: padding, strides, pooling and offset flags in WeightLayout; activations, offsets
and announced shapes in ModelExchange; proofs of `ProbeTellsOffset`, `CoversInput`, `AppliedOnce`,
the refinement `ImplementsDataflow`, all safety properties of ModelExchange, the refinement `AnsweredAsIfAlone`,
and all properties of TensorLayout and of WeightLayout, so that every safety property
of every passing run is proved.

Next, by importance:

1. Model: input shapes and how they spread through the layers, to say which wrong inputs are answered,
   and crops larger than the image, where `std::size_t` wraps (`tensor3.hpp:262`); weights that are
   too few or too many for their layer; the human-readable form of floats.
2. Prove: that `Meaning` exists for every acyclic network, which the model-checking module shows for
   its networks; liveness, should the prover come to support it.
