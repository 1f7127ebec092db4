------------------------- MODULE ParallelPredictions -------------------------
(***************************************************************************)
(* Several threads predict on one model at the same time: each calls       *)
(* predict_multi, which runs the forward passes of its data entries one    *)
(* after the other on the caller's thread or each on a thread of its own.  *)
(* (A call of predict is a sequential call with one entry.)                *)
(*                                                                         *)
(* Nothing is locked.  Tensors are handles on shared, mutable buffers      *)
(* (tensor3::values_): copying a tensor, passing it on through a linear or *)
(* dropout layer and returning it to the caller all share its buffer.  So  *)
(* it matters who writes which buffer when.  The forward pass itself, a    *)
(* walk over the layer graph, is the subject of ForwardPass; here it is    *)
(* the sequence of applications that walk makes, and what counts is the    *)
(* buffers they read, write and share.                                     *)
(***************************************************************************)
EXTENDS Integers, Sequences, FiniteSets

CONSTANTS
  Callers,        \* the threads of the application
  Given,          \* buffers of tensors the application made, shared by them
  NInputs,        \* the number of inputs of the model
  Layers,         \* the layers in the order a forward pass applies them:
                  \*   shares  the result is the argument itself
                  \*   args    positions of its arguments, inputs first
  Outs,           \* the positions the outputs are read from
  Compute(_, _),  \* Compute(l, vs): the numbers layer l makes of numbers vs
  Refuses(_, _),  \* Refuses(l, vs): an assertion fails in layer l, or after
                  \*   the last one in the comparison of the output shapes
  Edited(_),      \* Edited(v): what the application makes of numbers v
  Batches(_, _),  \* Batches(c, bs): data caller c passes, holding buffers bs
  MaxCalls(_),    \* bound: the number of calls a caller makes
  MaxEntries,     \* bound: the number of data entries of a call
  MaxThreads      \* the number of threads the system can run for std::async

Tasks == Callers \X (1 .. MaxEntries)
Made == UNION {{<<c, n, i, l>> : n \in 1 .. MaxCalls(c), i \in 1 .. MaxEntries,
                                 l \in 1 .. Len(Layers)} : c \in Callers}
Buffers == Given \cup Made

Unwritten == << >>      \* the numbers of a buffer nobody has made yet
NoBuffer == << >>
NoError == << >>
Error(l, vs) == <<l, vs>>
NoThread == Error(0, << >>)

ASSUME SizesAssumption ==
  /\ NInputs \in Nat
  /\ MaxEntries \in Nat
  /\ MaxThreads \in Nat \ {0}
  /\ \A c \in Callers : MaxCalls(c) \in Nat
  /\ Given \cap Made = {}

ASSUME LayersAssumption ==
  /\ Layers \in Seq([shares : BOOLEAN, args : Seq(Nat)])
  /\ \A l \in 1 .. Len(Layers) :
       /\ Layers[l].shares => Len(Layers[l].args) = 1
       /\ \A j \in 1 .. Len(Layers[l].args) :
            Layers[l].args[j] \in 1 .. NInputs + l - 1
  /\ Outs \in Seq(1 .. NInputs + Len(Layers))
-----------------------------------------------------------------------------
VARIABLES
  heap,      \* heap[b]: the numbers in buffer b
  phase,     \* phase[c]: what caller c is doing
  parallel,  \* the flag of its call
  batch,     \* inputs_vec: for every data entry the buffers of its tensors
  asked,     \* history: the numbers of those buffers when the call was made
  calls,     \* the number of calls made so far
  started,   \* the number of entries whose prediction has been started
  results,   \* the buffers of the predictions collected so far
  failure,   \* the exception in flight
  pc,        \* pc[t]: what the prediction of a data entry is doing
  env,       \* env[t]: the buffers of its inputs and layers so far, the
             \*   output_cache of that prediction
  error,     \* error[t]: the exception it ended with
  editing    \* the buffer the caller is writing to between two calls

vars == <<heap, phase, parallel, batch, asked, calls, started, results,
          failure, pc, env, error, editing>>
callVars == <<phase, parallel, batch, asked, calls, started, results, failure>>
taskVars == <<pc, env, error>>

Running(c) == phase[c] = "running"
Ended(t) == pc[t] \in {"done", "threw"}
TasksOf(c) == {<<c, i>> : i \in 1 .. started[c]}

\* Mutation: the futures are dropped without waiting for them.
JoinedAtOnce(c) == TRUE
Joined(c) == \A t \in TasksOf(c) : Ended(t)
Live == {t \in Tasks : parallel[t[1]] /\ pc[t] \in {"ready", "applying"}}

Current(t) == Len(env[t]) - NInputs + 1          \* the layer to be applied
ArgBuffers(t, l) == [j \in 1 .. Len(Layers[l].args) |-> env[t][Layers[l].args[j]]]
ArgValues(t, l) == [j \in 1 .. Len(Layers[l].args) |-> heap[ArgBuffers(t, l)[j]]]
OutBuffers(t) == [o \in 1 .. Len(Outs) |-> env[t][Outs[o]]]
OutValues(t) == [o \in 1 .. Len(Outs) |-> heap[OutBuffers(t)[o]]]

\* The buffer a layer writes: its result is a new tensor3.
\* Mutations: an activation function is applied in place; a layer keeps one
\* buffer for its output.
TargetInPlace(t, l) == ArgBuffers(t, l)[1]
TargetOfLayer(t, l) == <<CHOOSE c \in Callers : TRUE, 1, 1, l>>
Target(t, l) == <<t[1], calls[t[1]], t[2], l>>

\* Mutations: the output is not put into the output_cache, or put there twice.
NotKept(t, b) == env
KeepTwice(t, b) == [env EXCEPT ![t] = Append(Append(@, b), b)]
Keep(t, b) == [env EXCEPT ![t] = Append(@, b)]
AllApplied(t) == Current(t) = Len(Layers) + 1

\* The buffers caller c has tensors of: those of the application, and what
\* its last call returned.
ResultBuffers(c) ==
  UNION {{results[c][i][o] : o \in 1 .. Len(results[c][i])} : i \in 1 .. Len(results[c])}
ArgumentBuffers(c) ==
  UNION {{batch[c][i][j] : j \in 1 .. Len(batch[c][i])} : i \in 1 .. Len(batch[c])}
Held(c) == Given \cup ResultBuffers(c)
-----------------------------------------------------------------------------
Init ==
  /\ heap = [b \in Buffers |-> IF b \in Given THEN <<b>> ELSE Unwritten]
  /\ phase = [c \in Callers |-> "idle"]
  /\ parallel = [c \in Callers |-> FALSE]
  /\ batch = [c \in Callers |-> << >>]
  /\ asked = [c \in Callers |-> << >>]
  /\ calls = [c \in Callers |-> 0]
  /\ started = [c \in Callers |-> 0]
  /\ results = [c \in Callers |-> << >>]
  /\ failure = [c \in Callers |-> NoError]
  /\ pc = [t \in Tasks |-> "none"]
  /\ env = [t \in Tasks |-> << >>]
  /\ error = [t \in Tasks |-> NoError]
  /\ editing = [c \in Callers |-> NoBuffer]

\* predict_multi(inputs_vec, parallelly): the caller passes tensors it has.
\* Bound: the length of inputs_vec.
Call(c, p, bs) ==
  /\ bs \in Seq([1 .. NInputs -> Held(c)])
  /\ Len(bs) <= MaxEntries
  /\ phase[c] = "idle"
  /\ editing[c] = NoBuffer
  /\ calls[c] < MaxCalls(c)
  /\ phase' = [phase EXCEPT ![c] = "running"]
  /\ parallel' = [parallel EXCEPT ![c] = p]
  /\ batch' = [batch EXCEPT ![c] = bs]
  /\ asked' = [asked EXCEPT ![c] =
                 [i \in 1 .. Len(bs) |-> [j \in 1 .. Len(bs[i]) |-> heap[bs[i][j]]]]]
  /\ calls' = [calls EXCEPT ![c] = @ + 1]
  /\ started' = [started EXCEPT ![c] = 0]
  /\ results' = [results EXCEPT ![c] = << >>]
  /\ UNCHANGED <<heap, failure, taskVars, editing>>

\* transform calls predict for the next entry; transform_parallelly hands
\* every entry to std::async before it waits for the first.
\* Mutation: the forward pass starts from the tensors of the first entry.
FirstEntry(c, i) == batch[c][1]
EntryOf(c, i) == batch[c][i]
Start(c) ==
  LET i == started[c] + 1 IN
  /\ Running(c)
  /\ i <= Len(batch[c])
  /\ IF parallel[c] THEN Cardinality(Live) < MaxThreads
                    ELSE Len(results[c]) = started[c]
  /\ started' = [started EXCEPT ![c] = i]
  /\ pc' = [pc EXCEPT ![<<c, i>>] = "ready"]
  /\ env' = [env EXCEPT ![<<c, i>>] = EntryOf(c, i)]
  /\ UNCHANGED <<heap, phase, parallel, batch, asked, calls, results, failure,
                 error, editing>>

\* std::async throws; the futures made so far are destroyed, and wait.
StartFails(c) ==
  /\ Running(c)
  /\ parallel[c]
  /\ started[c] < Len(batch[c])
  /\ Cardinality(Live) >= MaxThreads
  /\ phase' = [phase EXCEPT ![c] = "unwinding"]
  /\ failure' = [failure EXCEPT ![c] = NoThread]
  /\ UNCHANGED <<heap, parallel, batch, asked, calls, started, results,
                 taskVars, editing>>

\* linear_layer and dropout: the output is the input tensor.
Share(t) ==
  LET l == Current(t) IN
  /\ pc[t] = "ready"
  /\ l <= Len(Layers)
  /\ Layers[l].shares
  /\ env' = Keep(t, ArgBuffers(t, l)[1])
  /\ UNCHANGED <<heap, callVars, pc, error, editing>>

\* Any other layer reads its arguments and writes a buffer, cell by cell.
Apply(t) ==
  LET l == Current(t) IN
  /\ pc[t] = "ready"
  /\ l <= Len(Layers)
  /\ ~Layers[l].shares
  /\ ~Refuses(l, ArgValues(t, l))
  /\ pc' = [pc EXCEPT ![t] = "applying"]
  /\ UNCHANGED <<heap, callVars, env, error, editing>>

Applied(t) ==
  LET l == Current(t) IN
  /\ pc[t] = "applying"
  /\ heap' = [heap EXCEPT ![Target(t, l)] = Compute(l, ArgValues(t, l))]
  /\ pc' = [pc EXCEPT ![t] = "ready"]
  /\ env' = Keep(t, Target(t, l))
  /\ UNCHANGED <<callVars, error, editing>>

\* An assertion fails in a layer, or on the shapes of the outputs.
Refuse(t) ==
  LET l == Current(t)
      vs == IF l <= Len(Layers) THEN ArgValues(t, l) ELSE OutValues(t)
  IN /\ pc[t] = "ready"
     /\ l <= Len(Layers) => ~Layers[l].shares
     /\ Refuses(l, vs)
     /\ pc' = [pc EXCEPT ![t] = "threw"]
     /\ error' = [error EXCEPT ![t] = Error(l, vs)]
     /\ UNCHANGED <<heap, callVars, env, editing>>

Predicted(t) ==
  /\ pc[t] = "ready"
  /\ AllApplied(t)
  /\ ~Refuses(Current(t), OutValues(t))
  /\ pc' = [pc EXCEPT ![t] = "done"]
  /\ UNCHANGED <<heap, callVars, env, error, editing>>
-----------------------------------------------------------------------------
\* The next prediction to be collected: its value is waited for, in order.
\* Mutation: whichever has ended.
AnyEnded(c) == CHOOSE i \in 1 .. MaxEntries :
  \A j \in 1 .. MaxEntries : pc[<<c, i>>] = "done" \/ pc[<<c, j>>] # "done"
NextInOrder(c) == Len(results[c]) + 1
AllStarted(c) == parallel[c] => started[c] = Len(batch[c])

Collect(c) ==
  LET t == <<c, NextInOrder(c)>> IN
  /\ Running(c)
  /\ AllStarted(c)
  /\ Len(results[c]) < started[c]
  /\ pc[t] = "done"
  /\ results' = [results EXCEPT ![c] = Append(@, OutBuffers(t))]
  /\ UNCHANGED <<heap, phase, parallel, batch, asked, calls, started, failure,
                 taskVars, editing>>

CollectError(c) ==
  LET t == <<c, NextInOrder(c)>> IN
  /\ Running(c)
  /\ AllStarted(c)
  /\ Len(results[c]) < started[c]
  /\ pc[t] = "threw"
  /\ phase' = [phase EXCEPT ![c] = "unwinding"]
  /\ failure' = [failure EXCEPT ![c] = error[t]]
  /\ UNCHANGED <<heap, parallel, batch, asked, calls, started, results,
                 taskVars, editing>>

\* The exception leaves predict_multi once the destructors of the remaining
\* futures have waited for their threads.
Unwound(c) ==
  /\ phase[c] = "unwinding"
  /\ Joined(c)
  /\ phase' = [phase EXCEPT ![c] = "threw"]
  /\ results' = [results EXCEPT ![c] = << >>]
  /\ UNCHANGED <<heap, parallel, batch, asked, calls, started, failure,
                 taskVars, editing>>

Return(c) ==
  /\ Running(c)
  /\ Len(results[c]) = Len(batch[c])
  /\ phase' = [phase EXCEPT ![c] = "returned"]
  /\ UNCHANGED <<heap, parallel, batch, asked, calls, started, results, failure,
                 taskVars, editing>>

\* The caller goes on with the tensors of the answer; what was local to the
\* call is gone.
Take(c) ==
  /\ phase[c] \in {"returned", "threw"}
  /\ phase' = [phase EXCEPT ![c] = "idle"]
  /\ asked' = [asked EXCEPT ![c] = << >>]
  /\ failure' = [failure EXCEPT ![c] = NoError]
  /\ pc' = [t \in Tasks |-> IF t[1] = c THEN "none" ELSE pc[t]]
  /\ env' = [t \in Tasks |-> IF t[1] = c THEN << >> ELSE env[t]]
  /\ error' = [t \in Tasks |-> IF t[1] = c THEN NoError ELSE error[t]]
  /\ UNCHANGED <<heap, parallel, batch, calls, started, results, editing>>

\* tensor3::set on a result: the caller writes into what predict returned,
\* unless it is a tensor it had passed in.  Bound: one tensor between two calls.
Writable(c) == ResultBuffers(c) \ (Given \cup ArgumentBuffers(c))
BeginEdit(c, b) ==
  /\ phase[c] = "idle"
  /\ editing[c] = NoBuffer
  /\ calls[c] < MaxCalls(c)
  /\ b \in Writable(c)
  /\ \A d \in Writable(c) : heap[d] # Edited(heap[d])
  /\ editing' = [editing EXCEPT ![c] = b]
  /\ UNCHANGED <<heap, callVars, taskVars>>

EndEdit(c) ==
  /\ editing[c] # NoBuffer
  /\ heap' = [heap EXCEPT ![editing[c]] = Edited(@)]
  /\ editing' = [editing EXCEPT ![c] = NoBuffer]
  /\ UNCHANGED <<callVars, taskVars>>

TaskStep(t) == Share(t) \/ Apply(t) \/ Applied(t) \/ Refuse(t) \/ Predicted(t)
CallStep(c) ==
  \/ Start(c) \/ StartFails(c) \/ Collect(c) \/ CollectError(c)
  \/ Unwound(c) \/ Return(c)

Next ==
  \/ \E t \in Tasks : TaskStep(t)
  \/ \E c \in Callers :
       \/ \E p \in BOOLEAN, bs \in Batches(c, Held(c)) : Call(c, p, bs)
       \/ CallStep(c) \/ Take(c) \/ EndEdit(c)
       \/ \E b \in Writable(c) : BeginEdit(c, b)

Spec == Init /\ [][Next]_vars

\* Threads that can run are scheduled; the application need not call again.
FairSpec ==
  /\ Spec
  /\ \A t \in Tasks : WF_vars(TaskStep(t))
  /\ \A c \in Callers : WF_vars(CallStep(c))
-----------------------------------------------------------------------------
(***************************************************************************)
(* Type correctness.                                                       *)
(***************************************************************************)
TaskOK(t) ==
  /\ env[t] \in Seq(Buffers)
  /\ pc[t] \in {"none", "ready", "applying", "done", "threw"}
  /\ pc[t] # "none" => Len(env[t]) \in NInputs .. NInputs + Len(Layers)
  /\ pc[t] = "applying" => Current(t) <= Len(Layers)
  /\ pc[t] = "done" => AllApplied(t)

TypeOK ==
  /\ DOMAIN heap = Buffers
  /\ DOMAIN asked = Callers
  /\ phase \in [Callers -> {"idle", "running", "unwinding", "returned", "threw"}]
  /\ parallel \in [Callers -> BOOLEAN]
  /\ started \in [Callers -> 0 .. MaxEntries]
  /\ batch \in [Callers -> Seq([1 .. NInputs -> Buffers])]
  /\ results \in [Callers -> Seq([1 .. Len(Outs) -> Buffers])]
  /\ editing \in [Callers -> Buffers \cup {NoBuffer}]
  /\ calls \in [Callers -> Nat]
  /\ \A c \in Callers :
       /\ calls[c] <= MaxCalls(c)
       /\ Len(batch[c]) <= MaxEntries
       /\ started[c] <= Len(batch[c])
       /\ Len(results[c]) <= started[c]
  /\ DOMAIN env = Tasks
  /\ DOMAIN pc = Tasks
  /\ \A t \in Tasks : TaskOK(t)

(***************************************************************************)
(* Thread safety: while a thread writes a buffer no other thread reads or  *)
(* writes it, although tensors are shared between entries, calls and       *)
(* callers and nothing is locked.                                          *)
(***************************************************************************)
Threads == Tasks \cup Callers
Writes(h) ==
  IF h \in Tasks
  THEN IF pc[h] = "applying" THEN {Target(h, Current(h))} ELSE {}
  ELSE {editing[h]} \ {NoBuffer}
Reads(h) ==
  IF h \in Tasks /\ pc[h] = "applying"
  THEN LET bs == ArgBuffers(h, Current(h)) IN {bs[j] : j \in 1 .. Len(bs)}
  ELSE {}
NoDataRace ==
  \A g, h \in Threads :
    g # h => Writes(g) \cap (Writes(h) \cup Reads(h)) = {}

(***************************************************************************)
(* predict takes its inputs by const reference: until a call is answered,  *)
(* every tensor it was given holds the numbers it held when the call was   *)
(* made.                                                                   *)
(***************************************************************************)
ArgumentsUntouched ==
  \A c \in Callers :
    phase[c] # "idle" =>
      \A i \in 1 .. Len(batch[c]) : \A j \in 1 .. Len(batch[c][i]) :
        heap[batch[c][i][j]] = asked[c][i][j]

(***************************************************************************)
(* What predict returns for an entry are tensors that this prediction made *)
(* or the caller passed for this entry: no two predictions answer with     *)
(* buffers of each other, so callers may write to their results.           *)
(***************************************************************************)
ResultsOwned ==
  \A c \in Callers :
    phase[c] = "returned" =>
      \A i \in 1 .. Len(results[c]) : \A o \in 1 .. Len(results[c][i]) :
        LET b == results[c][i][o] IN
        \/ \E j \in 1 .. Len(batch[c][i]) : b = batch[c][i][j]
        \/ \E l \in 1 .. Len(Layers) : b = <<c, calls[c], i, l>>

(***************************************************************************)
(* The tasks of predict_multi refer to its parameters: none is left when   *)
(* it returns or throws.                                                   *)
(***************************************************************************)
NoTaskOutlivesCall ==
  \A c \in Callers :
    phase[c] \in {"idle", "returned", "threw"} =>
      \A i \in 1 .. MaxEntries : pc[<<c, i>>] \notin {"ready", "applying"}

(***************************************************************************)
(* Every call is answered, with tensors or an exception.                   *)
(***************************************************************************)
CallsAreAnswered ==
  \A c \in Callers : Running(c) ~> phase[c] \in {"returned", "threw"}

(***************************************************************************)
(* Whatever the interleaving, a call is answered as if it ran alone:       *)
(* the predictions of the entries in order, or the exception of the first  *)
(* entry that throws, as the sequential variant does it.                   *)
(***************************************************************************)
Numbers(ins) ==
  LET f[k \in 1 .. NInputs + Len(Layers)] ==
        IF k <= NInputs THEN ins[k]
        ELSE LET l == k - NInputs
                 vs == [j \in 1 .. Len(Layers[l].args) |-> f[Layers[l].args[j]]]
             IN IF Layers[l].shares THEN vs[1] ELSE Compute(l, vs)
  IN f
ArgNumbers(ins, l) ==
  LET ps == IF l <= Len(Layers) THEN Layers[l].args ELSE Outs
  IN [j \in 1 .. Len(ps) |-> Numbers(ins)[ps[j]]]
Refusals(ins) ==
  {l \in 1 .. Len(Layers) + 1 :
     /\ l <= Len(Layers) => ~Layers[l].shares
     /\ Refuses(l, ArgNumbers(ins, l))}
Least(S) == CHOOSE x \in S : \A y \in S : x <= y
Answer(rs, e) == [results |-> rs, error |-> e]
NoAnswer == Answer(<< >>, NoError)
Outcome(r) ==
  LET refused == {i \in 1 .. Len(r) : Refusals(r[i]) # {}}
  IN IF refused = {}
     THEN Answer([i \in 1 .. Len(r) |-> ArgNumbers(r[i], Len(Layers) + 1)], NoError)
     ELSE LET i == Least(refused)
              l == Least(Refusals(r[i]))
          IN Answer(<< >>, Error(l, ArgNumbers(r[i], l)))

AnswerOf(c) ==
  CASE phase[c] = "returned" ->
         Answer([i \in 1 .. Len(results[c]) |->
                   [o \in 1 .. Len(results[c][i]) |-> heap[results[c][i][o]]]], NoError)
    [] phase[c] = "threw" -> Answer(<< >>, failure[c])
    [] OTHER -> NoAnswer

Promise == INSTANCE Predictions WITH
  state <- [c \in Callers |->
              IF phase[c] \in {"running", "unwinding"}
              THEN IF parallel[c] THEN "parallel" ELSE "sequential"
              ELSE IF phase[c] = "idle" THEN "idle" ELSE "answered"],
  answer <- [c \in Callers |-> AnswerOf(c)],
  NoAnswer <- NoAnswer,
  NoThread <- Answer(<< >>, NoThread)
AnsweredAsIfAlone == Promise!Spec
=============================================================================
