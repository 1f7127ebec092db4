----------------------------- MODULE ForwardPass -----------------------------
(***************************************************************************)
(* One prediction of a frugally-deep model: the recursive, memoizing walk  *)
(* over the layer graph that model::predict starts.                        *)
(*                                                                         *)
(*   model_layer::apply_impl   seeds an output_cache with the inputs and   *)
(*                             asks for every output connection            *)
(*   layer::get_output         answers from the cache, or evaluates the    *)
(*                             node and stores its tensors                 *)
(*   node::get_output          asks for every inbound connection, then     *)
(*                             applies the layer                           *)
(*                                                                         *)
(* The three functions call each other recursively; a layer that is itself *)
(* a model opens a nested call with a cache of its own.  The call stack is *)
(* explicit here: a frame stands for one fplus::transform in progress,     *)
(* over the output connections of a model or the inbound connections of a  *)
(* node.  What a layer computes is left uninterpreted (Tensor, Activate);  *)
(* which layer is applied to which tensors, when, and how often, is not.   *)
(***************************************************************************)
EXTENDS Integers, Sequences, UntypedSeq

CONSTANTS
  Graph,      \* Graph[m]: the parsed body of model m, a record
              \*   layers   a function from layer names to layer records
              \*   inputs   a sequence of connections (input_connections_)
              \*   outputs  a sequence of connections (output_connections_)
  Roots,      \* the models predict is called on
  Arguments,  \* the tensors a caller passes, the longest call first to last
  SizeT,      \* number of values of std::size_t
  Rejecting,  \* <<m, key>> whose shape assertions fail in apply_impl
  Misshapen,  \* the roots whose outputs lack the shapes the file announces
  Tensor(_, _, _, _),  \* Tensor(m, l, args, i): what layer l of m computes
  Activate(_, _, _)    \* Activate(m, l, t): its activation_ applied to t

(***************************************************************************)
(* A layer record has the fields                                           *)
(*   kind   "single"  asserts one input tensor and returns one (Conv2D...) *)
(*          "merge"   needs one tensor at least and returns one (Add...)   *)
(*          "each"    returns one tensor per input (activation layers)     *)
(*          "model"   a nested model                                       *)
(*   body      the nested model's name (kind "model" only)                 *)
(*   activated whether activation_ is set                                  *)
(*   nodes     a sequence of nodes, each the sequence of its inbound       *)
(*             connections                                                 *)
(* and a connection is [layer, node, tensor] with indices from 0.          *)
(***************************************************************************)
Models == DOMAIN Graph
Kinds == {"single", "merge", "each", "model"}
LayerOf(m, k) == Graph[m].layers[k[1]]
IsModel(m, k) == LayerOf(m, k).kind = "model"
Body(m, k) == LayerOf(m, k).body

IsConnection(c) ==
  /\ c.layer \in STRING
  /\ c.node \in 0 .. SizeT - 1
  /\ c.tensor \in 0 .. SizeT - 1

ASSUME SizeTAssumption == SizeT \in Nat \ {0}

ASSUME ArgumentsAssumption == IsSeq(Arguments)

ASSUME GraphAssumption ==
  /\ Roots \subseteq Models
  /\ \A m \in Models :
       /\ IsSeq(Graph[m].inputs)
       /\ \A i \in 1 .. Len(Graph[m].inputs) : IsConnection(Graph[m].inputs[i])
       /\ IsSeq(Graph[m].outputs)
       /\ \A i \in 1 .. Len(Graph[m].outputs) : IsConnection(Graph[m].outputs[i])
       /\ \A l \in DOMAIN Graph[m].layers :
            LET lay == Graph[m].layers[l] IN
            /\ lay.kind \in Kinds
            /\ lay.kind = "model" => lay.body \in Models
            /\ lay.activated \in BOOLEAN
            /\ IsSeq(lay.nodes)
            /\ Len(lay.nodes) < SizeT
            /\ \A n \in 1 .. Len(lay.nodes) :
                 /\ IsSeq(lay.nodes[n])
                 /\ \A i \in 1 .. Len(lay.nodes[n]) : IsConnection(lay.nodes[n][i])

(***************************************************************************)
(* Keys of the output cache: node_connection::without_tensor_idx.  A node  *)
(* of a nested model is addressed from 1, so model_layer::get_output first *)
(* subtracts 1, in std::size_t arithmetic: node 0 wraps round.             *)
(***************************************************************************)
Known(m, c) == c.layer \in DOMAIN Graph[m].layers
WithoutTensorIdx(c) == <<c.layer, c.node>>
EffectiveNode(m, c) ==
  IF Graph[m].layers[c.layer].kind = "model" THEN (c.node - 1) % SizeT ELSE c.node
KeyOf(m, c) == <<c.layer, EffectiveNode(m, c)>>
NodeExists(m, k) == k[2] < Len(LayerOf(m, k).nodes)

InputKeys(m) == {WithoutTensorIdx(Graph[m].inputs[i]) : i \in 1 .. Len(Graph[m].inputs)}

\* The seeding loop assigns in order: of two input connections with one key
\* the last one stays.
LastInput(m, k) ==
  CHOOSE i \in 1 .. Len(Graph[m].inputs) :
    /\ WithoutTensorIdx(Graph[m].inputs[i]) = k
    /\ \A j \in i + 1 .. Len(Graph[m].inputs) : WithoutTensorIdx(Graph[m].inputs[j]) # k
Seed(m, args) == [k \in InputKeys(m) |-> << args[LastInput(m, k)] >>]

\* layer::apply: apply_impl, then the activation on every resulting tensor.
ArityOK(m, k, n) ==
  CASE LayerOf(m, k).kind = "single" -> n = 1
    [] LayerOf(m, k).kind = "merge"  -> n >= 1
    [] LayerOf(m, k).kind = "each"   -> TRUE
    [] OTHER                         -> n = Len(Graph[Body(m, k)].inputs)
Activated(m, k, ts) ==
  IF LayerOf(m, k).activated
  THEN [i \in 1 .. Len(ts) |-> Activate(m, k[1], ts[i])]
  ELSE ts
ApplyImpl(m, k, args) ==
  IF LayerOf(m, k).kind = "each"
  THEN [i \in 1 .. Len(args) |-> Tensor(m, k[1], << args[i] >>, 1)]
  ELSE << Tensor(m, k[1], args, 1) >>
Apply(m, k, args) == Activated(m, k, ApplyImpl(m, k, args))
-----------------------------------------------------------------------------
VARIABLES
  root,      \* the model whose predict runs
  inputs,    \* the tensors the caller passed
  eager,     \* output_cache[key] = value evaluates its left side first: the
             \* order is unspecified in C++14, so each build has its own
  status,    \* "idle", "running", "returned" or "threw"
  stack,     \* the frames, the innermost call last
  cache,     \* cache[p]: the output_cache of the live apply_impl call p
  result,    \* the tensors predict returned
  applied    \* history: the layer::apply calls this prediction completed

vars == <<root, inputs, eager, status, stack, cache, result, applied>>

(***************************************************************************)
(* A call of apply_impl is named by its path, the sequence of nested model *)
(* keys from the root.  A frame with key Outputs gathers the output        *)
(* connections of its model; any other one the inbound connections of node *)
(* key.  got holds the tensors gathered so far.                            *)
(***************************************************************************)
Outputs == <<"", SizeT>>     \* no node has this key
\* Mutation: the last node of the layer in place of the node asked for.
FrameOfLastNode(p, m, k) ==
  [path |-> p, model |-> m, got |-> << >>,
   key |-> IF k = Outputs THEN k ELSE <<k[1], Len(LayerOf(m, k).nodes) - 1>>]
Frame(p, m, k) == [path |-> p, model |-> m, key |-> k, got |-> << >>]

Inbound(m, k) == LayerOf(m, k).nodes[k[2] + 1]
Want(f) ==
  IF f.key = Outputs THEN Graph[f.model].outputs
  ELSE Inbound(f.model, f.key)

Top == stack[Len(stack)]
\* Mutation: fplus::transform stops one connection short.
CompleteOneShort(f) == Len(f.got) + 1 >= Len(Want(f))
Complete(f) == Len(f.got) = Len(Want(f))
Demand == Want(Top)[Len(Top.got) + 1]
DemandKey == KeyOf(Top.model, Demand)
TopCache == cache[Top.path]

Running == status = "running"
Demanding == Running /\ ~Complete(Top)
Applying == Running /\ Complete(Top) /\ Top.key # Outputs

\* The assertion of model_layer::get_output comes before the cache lookup,
\* the one of layer::get_output only after a miss.
\* Mutations: the bound is off by one; the assertion is hoisted before the
\* lookup of layer::get_output.
NodeIndexOffByOne ==
  \/ DemandKey[2] <= Len(LayerOf(Top.model, DemandKey).nodes)
  \/ ~IsModel(Top.model, DemandKey) /\ DemandKey \in DOMAIN TopCache
NodeIndexHoisted == NodeExists(Top.model, DemandKey)
NodeIndexOK ==
  \/ NodeExists(Top.model, DemandKey)
  \/ ~IsModel(Top.model, DemandKey) /\ DemandKey \in DOMAIN TopCache

Place(f, k, v) == [x \in DOMAIN f \cup {k} |-> IF x = k THEN v ELSE f[x]]
Drop(f, k) == [x \in DOMAIN f \ {k} |-> f[x]]

\* Mutations: the tensor index is ignored; the result is not stored; a nested
\* call starts from its caller's cache.
ReadFirst(k, t) == TopCache[k][1]
Read(k, t) == TopCache[k][t + 1]
NotStored(c, p, k, ts) == c
Store(c, p, k, ts) == [c EXCEPT ![p] = Place(@, k, ts)]
SharedCache(b, args) ==
  [k \in DOMAIN TopCache \cup InputKeys(b) |->
     IF k \in InputKeys(b) THEN Seed(b, args)[k] ELSE TopCache[k]]
FreshCache(b, args) == Seed(b, args)
NoCache == [p \in {} |-> << >>]

\* An exception leaves every frame; the caches are locals and die with them.
Throw == /\ status' = "threw"
         /\ stack' = << >>
         /\ cache' = NoCache
         /\ UNCHANGED <<root, inputs, eager, result, applied>>
-----------------------------------------------------------------------------
Init ==
  /\ root \in Roots
  /\ inputs = << >>
  /\ eager \in BOOLEAN
  /\ status = "idle"
  /\ stack = << >>
  /\ cache = NoCache
  /\ result = << >>
  /\ applied = << >>

\* model::predict with the first n tensors.  The root model_layer is applied
\* directly, outside any node.
Predict(n) ==
  /\ status # "running"
  /\ IF n = Len(Graph[root].inputs)
     THEN /\ status' = "running"
          /\ stack' = << Frame(<< >>, root, Outputs) >>
          /\ cache' = [p \in {<< >>} |-> Seed(root, SubSeq(Arguments, 1, n))]
     ELSE /\ status' = "threw"        \* invalid number of input tensors
          /\ stack' = << >>
          /\ cache' = NoCache
  /\ inputs' = SubSeq(Arguments, 1, n)
  /\ result' = << >>
  /\ applied' = << >>
  /\ UNCHANGED <<root, eager>>

\* get_layer finds no layer of that name.  Mutation: it is asked again.
DanglingLayerIgnored ==
  /\ Demanding
  /\ ~Known(Top.model, Demand)
  /\ UNCHANGED vars
DanglingLayer ==
  /\ Demanding
  /\ ~Known(Top.model, Demand)
  /\ Throw

InvalidNode ==
  /\ Demanding
  /\ Known(Top.model, Demand)
  /\ ~NodeIndexOK
  /\ Throw

\* get_output finds the key and hands the tensor to the caller's transform.
Deliver ==
  /\ Demanding
  /\ Known(Top.model, Demand)
  /\ NodeIndexOK
  /\ DemandKey \in DOMAIN TopCache
  /\ Demand.tensor < Len(TopCache[DemandKey])
  /\ stack' = [stack EXCEPT ![Len(stack)].got =
                 Append(@, Read(DemandKey, Demand.tensor))]
  /\ UNCHANGED <<root, inputs, eager, status, cache, result, applied>>

InvalidTensor ==
  /\ Demanding
  /\ Known(Top.model, Demand)
  /\ NodeIndexOK
  /\ DemandKey \in DOMAIN TopCache
  /\ Demand.tensor >= Len(TopCache[DemandKey])
  /\ Throw

\* get_output misses and descends into nodes_[node_idx].  A build that
\* evaluates output_cache[key] first leaves an empty entry there meanwhile.
Descend ==
  /\ Demanding
  /\ Known(Top.model, Demand)
  /\ NodeIndexOK
  /\ DemandKey \notin DOMAIN TopCache
  /\ stack' = Append(stack, Frame(Top.path, Top.model, DemandKey))
  /\ cache' = IF eager
              THEN Store(cache, Top.path, DemandKey, << >>)
              ELSE cache
  /\ UNCHANGED <<root, inputs, eager, status, result, applied>>

\* apply_layer throws: wrong number of tensors, or a shape assertion.
RejectInputs ==
  /\ Applying
  /\ \/ ~ArityOK(Top.model, Top.key, Len(Top.got))
     \/ ~IsModel(Top.model, Top.key) /\ <<Top.model, Top.key>> \in Rejecting
  /\ Throw

\* A layer that is no model: apply it, store its tensors, return to the frame
\* that asked, where the lookup finds them.
ApplyLayer ==
  /\ Applying
  /\ ~IsModel(Top.model, Top.key)
  /\ ArityOK(Top.model, Top.key, Len(Top.got))
  /\ <<Top.model, Top.key>> \notin Rejecting
  /\ cache' = Store(cache, Top.path, Top.key, Apply(Top.model, Top.key, Top.got))
  /\ applied' = Append(applied, <<Top.path, Top.key>>)
  /\ stack' = Pop(stack)
  /\ UNCHANGED <<root, inputs, eager, status, result>>

\* A nested model: apply_impl starts with a fresh cache of its own.
EnterModel ==
  /\ Applying
  /\ IsModel(Top.model, Top.key)
  /\ ArityOK(Top.model, Top.key, Len(Top.got))
  /\ LET p == Append(Top.path, Top.key)
         b == Body(Top.model, Top.key)
     IN /\ stack' = Append(stack, Frame(p, b, Outputs))
        /\ cache' = Place(cache, p, FreshCache(b, Top.got))
  /\ UNCHANGED <<root, inputs, eager, status, result, applied>>

\* The nested apply_impl returns, its cache dies, and the node that called it
\* stores the tensors in the cache of its own model.
LeaveModel ==
  /\ Running
  /\ Complete(Top)
  /\ Top.key = Outputs
  /\ Len(stack) > 1
  /\ LET caller == stack[Len(stack) - 1]
     IN /\ cache' = Store(Drop(cache, Top.path), caller.path, caller.key,
                          Activated(caller.model, caller.key, Top.got))
        /\ applied' = Append(applied, <<caller.path, caller.key>>)
        /\ stack' = Pop(Pop(stack))
  /\ UNCHANGED <<root, inputs, eager, status, result>>

\* predict compares the shapes of the outputs with output_shapes_.
InvalidOutputs ==
  /\ Running
  /\ Complete(Top)
  /\ Top.key = Outputs
  /\ Len(stack) = 1
  /\ root \in Misshapen
  /\ Throw

Return ==
  /\ Running
  /\ Complete(Top)
  /\ Top.key = Outputs
  /\ Len(stack) = 1
  /\ root \notin Misshapen
  /\ status' = "returned"
  /\ result' = Top.got
  /\ stack' = << >>
  /\ cache' = NoCache
  /\ UNCHANGED <<root, inputs, eager, applied>>

Step ==
  \/ DanglingLayer \/ InvalidNode \/ Deliver \/ InvalidTensor \/ Descend
  \/ RejectInputs \/ ApplyLayer \/ EnterModel \/ LeaveModel \/ InvalidOutputs
  \/ Return

Next == Step \/ \E n \in 0 .. Len(Arguments) : Predict(n)

Spec == Init /\ [][Next]_vars

\* A prediction runs on the caller's thread, which is scheduled again and
\* again until the call ends; nothing obliges a caller to call predict.
FairSpec == Spec /\ WF_vars(Step)
-----------------------------------------------------------------------------
(***************************************************************************)
(* Type correctness: frames address nodes that exist, caches map keys to   *)
(* sequences of tensors, and a frame never holds more tensors than the     *)
(* connections it gathers.                                                 *)
(***************************************************************************)
NodeKeys(m) ==
  UNION {{<<l, n - 1>> : n \in 1 .. Len(Graph[m].layers[l].nodes)} :
         l \in DOMAIN Graph[m].layers}

FrameOK(f) ==
  /\ f = [path |-> f.path, model |-> f.model, key |-> f.key, got |-> f.got]
  /\ f.model \in Models
  /\ IsSeq(f.path)
  /\ f.key \in NodeKeys(f.model) \cup {Outputs}
  /\ IsSeq(f.got)
  /\ Len(f.got) <= Len(Want(f))

CacheOK(c) ==
  /\ c = [k \in DOMAIN c |-> c[k]]
  /\ \A k \in DOMAIN c : IsSeq(c[k])

TypeOK ==
  /\ root \in Roots
  /\ eager \in BOOLEAN
  /\ IsSeq(inputs)
  /\ status \in {"idle", "running", "returned", "threw"}
  /\ IsSeq(stack)
  /\ \A i \in 1 .. Len(stack) : FrameOK(stack[i])
  /\ cache = [p \in DOMAIN cache |-> cache[p]]
  /\ \A p \in DOMAIN cache : CacheOK(cache[p])
  /\ IsSeq(result)
  /\ IsSeq(applied)

(***************************************************************************)
(* The call stack is the one the recursion builds: a node frame works for  *)
(* the connection its parent has come to, a nested call for the node frame *)
(* below it, and exactly the calls on the stack have a cache.  A return    *)
(* therefore never writes into a cache that is gone.                       *)
(***************************************************************************)
Asks(f, g) ==
  /\ g.path = f.path
  /\ g.model = f.model
  /\ Len(f.got) < Len(Want(f))
  /\ Known(f.model, Want(f)[Len(f.got) + 1])
  /\ g.key = KeyOf(f.model, Want(f)[Len(f.got) + 1])
Calls(f, g) ==
  /\ f.key # Outputs
  /\ Complete(f)
  /\ IsModel(f.model, f.key)
  /\ ArityOK(f.model, f.key, Len(f.got))
  /\ g.path = Append(f.path, f.key)
  /\ g.model = Body(f.model, f.key)

StackShape ==
  /\ status = "running" <=> Len(stack) > 0
  /\ DOMAIN cache = {stack[i].path : i \in 1 .. Len(stack)}
  /\ Len(stack) > 0 => /\ stack[1].path = << >>
                       /\ stack[1].model = root
                       /\ stack[1].key = Outputs
  /\ \A i \in 2 .. Len(stack) :
       IF stack[i].key = Outputs THEN Calls(stack[i - 1], stack[i])
       ELSE Asks(stack[i - 1], stack[i])
  /\ \A i, j \in 1 .. Len(stack) : i < j =>
       /\ Len(stack[i].path) <= Len(stack[j].path)
       /\ stack[j].key = Outputs => Len(stack[i].path) < Len(stack[j].path)
=============================================================================
