-------------------------- MODULE ForwardPassMeaning --------------------------
(***************************************************************************)
(* What the walk of ForwardPass must compute, stated without a walk: the   *)
(* tensors of every node as a solution of the network's equations, and the *)
(* properties that compare the walk with that solution.                    *)
(***************************************************************************)
EXTENDS ForwardPass

CONSTANTS
  ModelAt,           \* ModelAt[r][p]: the model that call p of root r runs
  Meaning,           \* Meaning[r][p][k]: the tensors of node k in call p
  Rank(_, _)         \* Rank(m, k): a topological order of the nodes of m

Evaluated(m) == NodeKeys(m) \ InputKeys(m)

\* How many tensors a node has.
Width(m, k) ==
  IF k \in InputKeys(m) THEN 1
  ELSE CASE LayerOf(m, k).kind = "each"  -> Len(Inbound(m, k))
         [] LayerOf(m, k).kind = "model" -> Len(Graph[Body(m, k)].outputs)
         [] OTHER -> 1

\* A connection that refers to a tensor the network has.
Resolves(m, c) ==
  /\ Known(m, c)
  /\ \/ NodeExists(m, KeyOf(m, c))
     \/ ~IsModel(m, KeyOf(m, c)) /\ KeyOf(m, c) \in InputKeys(m)
  /\ c.tensor < Width(m, KeyOf(m, c))

NodeOK(m, k) ==
  /\ \A i \in 1 .. Len(Inbound(m, k)) : Resolves(m, Inbound(m, k)[i])
  /\ ArityOK(m, k, Len(Inbound(m, k)))
  /\ IsModel(m, k) \/ <<m, k>> \notin Rejecting
OutputsOK(m) ==
  \A i \in 1 .. Len(Graph[m].outputs) : Resolves(m, Graph[m].outputs[i])
WellFormed(r) ==
  /\ r \notin Misshapen
  /\ \A p \in DOMAIN ModelAt[r] :
       /\ OutputsOK(ModelAt[r][p])
       /\ \A k \in Evaluated(ModelAt[r][p]) : NodeOK(ModelAt[r][p], k)

TensorOf(r, p, m, c) == Meaning[r][p][KeyOf(m, c)][c.tensor + 1]
Gathered(r, p, m, cs) == [i \in 1 .. Len(cs) |-> TensorOf(r, p, m, cs[i])]

(***************************************************************************)
(* The calls of a root, and the equations: inputs are what the caller      *)
(* passes, a plain node is its layer applied to its inbound tensors, a     *)
(* nested model's node is the outputs of the nested call.                  *)
(***************************************************************************)
ASSUME CallsAssumption ==
  \A r \in Roots :
    /\ << >> \in DOMAIN ModelAt[r]
    /\ ModelAt[r][<< >>] = r
    /\ \A p \in DOMAIN ModelAt[r] : \A k \in Evaluated(ModelAt[r][p]) :
         IsModel(ModelAt[r][p], k) =>
           /\ Append(p, k) \in DOMAIN ModelAt[r]
           /\ ModelAt[r][Append(p, k)] = Body(ModelAt[r][p], k)

ASSUME MeaningAssumption ==
  \A r \in Roots :
    /\ Len(Graph[r].inputs) <= Len(Arguments) =>
         \A k \in InputKeys(r) : Meaning[r][<< >>][k] =
           Seed(r, SubSeq(Arguments, 1, Len(Graph[r].inputs)))[k]
    /\ \A p \in DOMAIN ModelAt[r] :
         LET m == ModelAt[r][p] IN
         \A k \in Evaluated(m) : NodeOK(m, k) =>
           LET args == Gathered(r, p, m, Inbound(m, k)) IN
           IF IsModel(m, k)
           THEN LET b == Body(m, k)
                    q == Append(p, k)
                IN /\ \A j \in InputKeys(b) : Meaning[r][q][j] = Seed(b, args)[j]
                   /\ OutputsOK(b) =>
                        Meaning[r][p][k] =
                          Activated(m, k, Gathered(r, q, b, Graph[b].outputs))
           ELSE Meaning[r][p][k] = Apply(m, k, args)

\* Keras builds layers from tensors that exist already: no graph it exports
\* has a cycle.
ASSUME RankAssumption ==
  \A m \in Models : \A k \in Evaluated(m) :
    /\ Rank(m, k) \in Nat
    /\ \A i \in 1 .. Len(Inbound(m, k)) :
         LET c == Inbound(m, k)[i] IN
         Known(m, c) /\ KeyOf(m, c) \in Evaluated(m) => Rank(m, KeyOf(m, c)) < Rank(m, k)
-----------------------------------------------------------------------------
UnderEvaluation(p, k) ==
  \E i \in 1 .. Len(stack) : stack[i].path = p /\ stack[i].key = k

(***************************************************************************)
(* Every entry of every live output_cache holds the tensors of its node,   *)
(* but for the empty entry a build may create while the node is still      *)
(* being evaluated: no key collides with one of a nested model, a second   *)
(* node of a shared layer, or the shifted indices of nested models.        *)
(***************************************************************************)
CacheMeansNodes ==
  \A p \in DOMAIN cache : \A k \in DOMAIN cache[p] :
    \/ cache[p][k] = Meaning[root][p][k]
    \/ eager /\ cache[p][k] = << >> /\ UnderEvaluation(p, k)

(***************************************************************************)
(* predict returns the tensors of the output connections, in their order,  *)
(* for every build, model and number of nested calls.                      *)
(***************************************************************************)
ResultMeansOutputs ==
  status = "returned" => result = Gathered(root, << >>, root, Graph[root].outputs)

(***************************************************************************)
(* The walk never asks for a node it is in the middle of evaluating, so    *)
(* the empty entry of an eager build is never read as if it were a result. *)
(***************************************************************************)
NeverReadsPlaceholder ==
  Demanding /\ Known(Top.model, Demand) => ~UnderEvaluation(Top.path, DemandKey)

(***************************************************************************)
(* predict throws only for a reason: on a network whose references all     *)
(* resolve, only a wrong number of inputs does.                            *)
(***************************************************************************)
ThrowsWithReason ==
  status = "threw" => ~WellFormed(root) \/ Len(inputs) # Len(Graph[root].inputs)

(***************************************************************************)
(* What the assertion "invalid input size" of input_layer::apply_impl says: *)
(* predict does not answer a caller whose tensor an input layer rejects.   *)
(***************************************************************************)
InputsAreChecked ==
  status = "returned" => \A k \in InputKeys(root) : <<root, k>> \notin Rejecting

(***************************************************************************)
(* The cache makes the walk linear: one prediction applies a node at most  *)
(* once in each nested call, however many connections lead to it.          *)
(***************************************************************************)
AppliedOnce ==
  \A i, j \in 1 .. Len(applied) : applied[i] = applied[j] => i = j

(***************************************************************************)
(* A prediction ends: the recursion of get_output has a bottom.            *)
(***************************************************************************)
PredictionEnds == (status = "running") ~> (status # "running")

(***************************************************************************)
(* The refinement of Dataflow: nodes fire once each, after what they need. *)
(* A nested call's nodes also need everything the call was passed, because *)
(* node::get_output gathers all its tensors before it applies the layer.   *)
(***************************************************************************)
Done == {applied[i] : i \in 1 .. Len(applied)}
AllNodes(r) ==
  UNION {{<<p, k>> : k \in Evaluated(ModelAt[r][p])} : p \in DOMAIN ModelAt[r]}
Sources(m, p, cs) ==
  {<<p, KeyOf(m, cs[i])>> : i \in {j \in 1 .. Len(cs) :
     Known(m, cs[j]) /\ KeyOf(m, cs[j]) \notin InputKeys(m)}}
PassedTo(r, p) ==
  IF p = << >> THEN {}
  ELSE Sources(ModelAt[r][Pop(p)], Pop(p), Inbound(ModelAt[r][Pop(p)], p[Len(p)]))
NeedsOf(r, x) ==
  LET p == x[1]
      m == ModelAt[r][p]
      own == Sources(m, p, Inbound(m, x[2]))
      nested == IF IsModel(m, x[2])
                THEN Sources(Body(m, x[2]), Append(p, x[2]), Graph[Body(m, x[2])].outputs)
                ELSE {}
  IN own \cup nested \cup PassedTo(r, p)
WantedBy(r) == Sources(r, << >>, Graph[r].outputs)
ValueOf(r) == Gathered(r, << >>, r, Graph[r].outputs)
ArityOf(r) == Len(Graph[r].inputs)

Flow == INSTANCE Dataflow WITH
  Nodes <- AllNodes, Needs <- NeedsOf, Wanted <- WantedBy, Value <- ValueOf,
  Sound <- WellFormed, Arity <- ArityOf,
  given <- Len(inputs), done <- Done

ImplementsDataflow == Flow!Spec
=============================================================================
