---------------------- MODULE ParallelPredictionsProofs ----------------------
(***************************************************************************)
(* Thread safety of predictions for every model, every number of callers,  *)
(* data entries and threads.                                               *)
(*                                                                         *)
(* The argument is one of ownership.  Every buffer a prediction reads is   *)
(* either one of the tensors of its data entry or one it has made itself;  *)
(* the former are given by the application or stem from an earlier call    *)
(* of the same caller.  So the buffer a layer is about to fill, which      *)
(* bears the number of the current call and of the entry, is in the hands  *)
(* of no other thread.                                                     *)
(*                                                                         *)
(* Therefore what a prediction reads is what it, or its caller before the  *)
(* call, has written, and a call is answered as if it ran alone, which is  *)
(* the specification Predictions.                                          *)
(***************************************************************************)
EXTENDS ParallelPredictions, ArrayProofs

FromEntry(t, b) ==
  \/ \E j \in 1 .. NInputs : b = batch[t[1]][t[2]][j]
  \/ \E l \in 1 .. Len(Layers) : b = <<t[1], calls[t[1]], t[2], l>>

Older(c, b) ==
  \/ b \in Given
  \/ \E n \in 1 .. calls[c] - 1, i \in 1 .. MaxEntries, l \in 1 .. Len(Layers) :
       b = <<c, n, i, l>>

EnvOwned ==
  \A t \in Tasks : pc[t] # "none" =>
    \A k \in 1 .. Len(env[t]) : FromEntry(t, env[t][k])

ResultsOfEntry ==
  \A c \in Callers : \A i \in 1 .. Len(results[c]) : \A o \in 1 .. Len(Outs) :
    FromEntry(<<c, i>>, results[c][i][o])

BatchOlder ==
  \A c \in Callers : \A i \in 1 .. Len(batch[c]) : \A j \in 1 .. NInputs :
    Older(c, batch[c][i][j])

\* Where the tasks are, given what their caller is doing.
Progress ==
  \A c \in Callers : \A i \in 1 .. MaxEntries :
    /\ pc[<<c, i>>] # "none" => i <= started[c]
    /\ i <= Len(results[c]) /\ Running(c) => pc[<<c, i>>] = "done"
    /\ phase[c] = "idle" => pc[<<c, i>>] = "none"
    /\ phase[c] \in {"returned", "threw"} => pc[<<c, i>>] \notin {"ready", "applying"}

\* A caller writes to a tensor of its last answer, between two calls.
EditsOwn ==
  \A c \in Callers : editing[c] # NoBuffer =>
    /\ phase[c] = "idle"
    /\ \E i \in 1 .. MaxEntries, l \in 1 .. Len(Layers) :
         editing[c] = <<c, calls[c], i, l>>

\* A call has its number, from 1.
CallsNumbered == \A c \in Callers :
  phase[c] # "idle" \/ results[c] # << >> \/ editing[c] # NoBuffer => calls[c] >= 1

IInv ==
  /\ TypeOK
  /\ EnvOwned
  /\ ResultsOfEntry
  /\ BatchOlder
  /\ Progress
  /\ EditsOwn
  /\ CallsNumbered
-----------------------------------------------------------------------------
LEMMA ArgsInEnv ==
  ASSUME TypeOK, NEW t \in Tasks, NEW l \in 1 .. Len(Layers), pc[t] # "none",
         l <= Current(t),
         NEW j \in 1 .. Len(Layers[l].args)
  PROVE  /\ Layers[l].args[j] \in 1 .. Len(env[t])
         /\ ArgBuffers(t, l)[j] = env[t][Layers[l].args[j]]
         /\ ArgBuffers(t, l)[j] \in Buffers
  <1>1. TaskOK(t)
    BY DEF TypeOK
  <1>2. /\ env[t] \in Seq(Buffers)
        /\ Len(env[t]) \in Nat
        /\ Current(t) = Len(env[t]) - NInputs + 1
    BY <1>1 DEF TaskOK, Current
  <1>3. Layers[l].args[j] \in 1 .. NInputs + l - 1
    BY LayersAssumption
  <1>4. Len(Layers) \in Nat /\ NInputs \in Nat
    BY LayersAssumption, SizesAssumption
  <1>5. Layers[l].args[j] \in 1 .. Len(env[t])
    BY <1>2, <1>3, <1>4, SMTT(30)
  <1> QED  BY <1>2, <1>5 DEF ArgBuffers

LEMMA TargetMade ==
  ASSUME TypeOK, Progress, CallsNumbered, NEW t \in Tasks, pc[t] # "none",
         NEW l \in 1 .. Len(Layers)
  PROVE  Target(t, l) \in Made /\ Target(t, l) \in Buffers
  <1>1. PICK c \in Callers, i \in 1 .. MaxEntries : t = <<c, i>>
    BY DEF Tasks
  <1>2. phase[c] # "idle"
    BY <1>1 DEF Progress
  <1>3. calls[c] \in 1 .. MaxCalls(c)
    BY <1>2, SizesAssumption DEF CallsNumbered, TypeOK
  <1>4. Target(t, l) = <<c, calls[c], i, l>>
    BY <1>1 DEF Target
  <1> QED  BY <1>3, <1>4 DEF Made, Buffers
-----------------------------------------------------------------------------
\* What most actions leave alone: the calls themselves.
LEMMA CallKept ==
  ASSUME IInv, UNCHANGED <<batch, calls>>
  PROVE  /\ BatchOlder'
         /\ \A t, b : FromEntry(t, b)' <=> FromEntry(t, b)
         /\ UNCHANGED results => ResultsOfEntry'
         /\ UNCHANGED <<pc, env>> => EnvOwned'
  <1>1. \A t, b : FromEntry(t, b)' <=> FromEntry(t, b)
    BY DEF FromEntry
  <1>2. \A c, b : Older(c, b)' <=> Older(c, b)
    BY DEF Older
  <1>3. BatchOlder'
    BY <1>2 DEF IInv, BatchOlder
  <1>4. UNCHANGED results => ResultsOfEntry'
    BY <1>1 DEF IInv, ResultsOfEntry
  <1>5. UNCHANGED <<pc, env>> => EnvOwned'
    BY <1>1 DEF IInv, EnvOwned
  <1> QED  BY <1>1, <1>3, <1>4, <1>5

LEMMA InitIInv == Init => IInv
  <1> SUFFICES ASSUME Init PROVE IInv
    OBVIOUS
  <1>1. \A t \in Tasks : TaskOK(t)
    BY DEF Init, TaskOK
  <1>2. /\ batch \in [Callers -> Seq([1 .. NInputs -> Buffers])]
        /\ results \in [Callers -> Seq([1 .. Len(Outs) -> Buffers])]
    BY DEF Init
  <1>3. /\ started \in [Callers -> 0 .. MaxEntries]
        /\ calls \in [Callers -> Nat]
        /\ \A c \in Callers : /\ calls[c] <= MaxCalls(c)
                              /\ Len(batch[c]) <= MaxEntries
                              /\ started[c] <= Len(batch[c])
                              /\ Len(results[c]) <= started[c]
    BY SizesAssumption DEF Init
  <1>4. TypeOK
    BY <1>1, <1>2, <1>3 DEF Init, TypeOK
  <1> QED
    BY <1>4, SizesAssumption DEF Init, IInv, EnvOwned, ResultsOfEntry, BatchOlder,
         Progress, EditsOwn, CallsNumbered, Running, Tasks

LEMMA Counters ==
  ASSUME TypeOK, NEW c \in Callers
  PROVE  /\ calls[c] \in Nat
         /\ started[c] \in 0 .. MaxEntries
         /\ Len(results[c]) \in Nat /\ Len(batch[c]) \in Nat
         /\ Len(results[c]) <= started[c]
         /\ started[c] <= Len(batch[c])
         /\ \A i \in 1 .. Len(results[c]) :
              i \in 1 .. MaxEntries /\ i \in 1 .. Len(batch[c])
  <1>1. /\ calls[c] \in Nat
        /\ started[c] \in 0 .. MaxEntries
        /\ Len(results[c]) \in Nat /\ Len(batch[c]) \in Nat
        /\ Len(results[c]) <= started[c]
        /\ started[c] <= Len(batch[c])
    BY DEF TypeOK
  <1> QED  BY <1>1, SizesAssumption

LEMMA FunctionIsSequence ==
  ASSUME NEW S, NEW n \in Nat, NEW f \in [1 .. n -> S]
  PROVE  f \in Seq(S) /\ Len(f) = n
  OBVIOUS

LEMMA HeldBuffers ==
  ASSUME IInv, NEW c \in Callers
  PROVE  Held(c) \subseteq Buffers
  <1>1. ASSUME NEW i \in 1 .. Len(results[c])
        PROVE  /\ Len(results[c][i]) = Len(Outs)
               /\ \A o \in 1 .. Len(Outs) : results[c][i][o] \in Buffers
    <2>1. results[c][i] \in [1 .. Len(Outs) -> Buffers]
      BY DEF IInv, TypeOK
    <2>2. Len(Outs) \in Nat
      BY LayersAssumption
    <2> QED  BY <2>1, <2>2, FunctionIsSequence
  <1> QED  BY <1>1 DEF Held, ResultBuffers, Buffers
-----------------------------------------------------------------------------
(***************************************************************************)
(* Every action preserves IInv.                                            *)
(***************************************************************************)
LEMMA CallPreserves ==
  ASSUME IInv, NEW c \in Callers, NEW p \in BOOLEAN, NEW bs \in Batches(c, Held(c)),
         Call(c, p, bs)
  PROVE  IInv'
  <1>1. /\ bs \in Seq([1 .. NInputs -> Buffers])
        /\ phase[c] = "idle" /\ editing[c] = NoBuffer /\ calls[c] < MaxCalls(c)
    BY HeldBuffers DEF Call
  <1>2. TypeOK'
    BY <1>1, SizesAssumption, SMTT(30) DEF IInv, TypeOK, Call, taskVars, TaskOK, Current, AllApplied
  <1>3. \A i \in 1 .. MaxEntries : pc[<<c, i>>] = "none"
    BY <1>1 DEF IInv, Progress
  <1>4. EnvOwned'
    <2> SUFFICES ASSUME NEW t \in Tasks, pc[t] # "none", NEW k \in 1 .. Len(env[t])
                 PROVE  FromEntry(t, env[t][k])'
      BY DEF EnvOwned, Call, taskVars
    <2>1. FromEntry(t, env[t][k]) /\ t[1] # c /\ t[1] \in Callers
      BY <1>3 DEF IInv, EnvOwned, Tasks
    <2> QED  BY <2>1 DEF FromEntry, Call, taskVars, IInv, TypeOK
  <1>5. ResultsOfEntry'
    <2> SUFFICES ASSUME NEW d \in Callers, NEW i \in 1 .. Len(results'[d]),
                        NEW o \in 1 .. Len(Outs)
                 PROVE  FromEntry(<<d, i>>, results[d][i][o])' /\ results'[d] = results[d]
      BY DEF ResultsOfEntry
    <2>1. d # c /\ results'[d] = results[d]
      BY DEF Call, IInv, TypeOK
    <2>2. FromEntry(<<d, i>>, results[d][i][o])
      BY <2>1 DEF IInv, ResultsOfEntry
    <2> QED  BY <2>1, <2>2 DEF FromEntry, Call, IInv, TypeOK
  <1>6. BatchOlder'
    <2> SUFFICES ASSUME NEW d \in Callers, NEW i \in 1 .. Len(batch'[d]), NEW j \in 1 .. NInputs
                 PROVE  Older(d, batch[d][i][j])'
      BY DEF BatchOlder
    <2>1. CASE d # c
      <3>1. batch'[d] = batch[d] /\ calls'[d] = calls[d]
        BY <2>1 DEF Call, IInv, TypeOK
      <3>2. Older(d, batch[d][i][j])
        BY <3>1 DEF IInv, BatchOlder
      <3> QED  BY <3>1, <3>2 DEF Older
    <2>2. CASE d = c
      <3>1. batch'[d] = bs /\ calls'[d] = calls[d] + 1
        BY <2>2 DEF Call, IInv, TypeOK
      <3>2. batch'[d][i][j] \in Held(c)
        <4>1. bs \in Seq([1 .. NInputs -> Held(c)]) /\ i \in 1 .. Len(bs)
          BY <3>1 DEF Call
        <4>2. bs[i] \in [1 .. NInputs -> Held(c)]
          BY <4>1
        <4> QED  BY <4>2, <3>1
      <3>3. ASSUME batch'[d][i][j] \in ResultBuffers(c) PROVE Older(d, batch[d][i][j])'
        <4>1. PICK x \in 1 .. Len(results[c]) :
                \E o \in 1 .. Len(results[c][x]) : batch'[d][i][j] = results[c][x][o]
          BY <3>3 DEF ResultBuffers
        <4>2. PICK o \in 1 .. Len(Outs) : batch'[d][i][j] = results[c][x][o]
          BY <4>1, LayersAssumption, FunctionIsSequence, SMTT(30) DEF IInv, TypeOK
        <4>3. FromEntry(<<c, x>>, batch'[d][i][j])
          BY <4>2 DEF IInv, ResultsOfEntry
        <4>4. x \in 1 .. MaxEntries /\ x \in 1 .. Len(batch[c])
          BY <4>1, Counters DEF IInv
        <4>5. CASE \E y \in 1 .. NInputs : batch'[d][i][j] = batch[c][x][y]
          <5>1. Older(c, batch'[d][i][j])
            BY <4>4, <4>5 DEF IInv, BatchOlder
          <5>2. calls[c] \in Nat
            BY Counters DEF IInv
          <5>3. 1 .. calls[c] - 1 \subseteq 1 .. calls'[d] - 1
            BY <5>2, <3>1, <2>2
          <5> QED  BY <5>1, <5>3, <2>2 DEF Older
        <4>6. CASE \E l \in 1 .. Len(Layers) : batch'[d][i][j] = <<c, calls[c], x, l>>
          <5>1. calls[c] \in Nat
            BY Counters DEF IInv
          <5>2. CASE calls[c] >= 1
            <6>1. PICK l \in 1 .. Len(Layers) : batch'[d][i][j] = <<d, calls[c], x, l>>
              BY <4>6, <2>2
            <6>2. calls[c] \in 1 .. calls'[d] - 1
              BY <2>2, <3>1, <5>1, <5>2
            <6>3. x \in 1 .. MaxEntries
              BY <4>4
            <6>4. \E n \in 1 .. calls'[d] - 1, y \in 1 .. MaxEntries, m \in 1 .. Len(Layers) :
                    batch'[d][i][j] = <<d, n, y, m>>
              <7> WITNESS calls[c] \in 1 .. calls'[d] - 1, x \in 1 .. MaxEntries,
                          l \in 1 .. Len(Layers)
              <7> QED  BY <6>1
            <6> QED  BY <6>4 DEF Older
          <5>3. CASE calls[c] = 0
            <6>1. batch'[d][i][j] \in Buffers
              BY <3>2, HeldBuffers
            <6>2. batch'[d][i][j] \notin Made
              BY <4>6, <5>3 DEF Made
            <6> QED  BY <6>1, <6>2 DEF Buffers, Older
          <5> QED  BY <5>1, <5>2, <5>3
        <4> QED  BY <4>3, <4>5, <4>6 DEF FromEntry
      <3> QED  BY <3>2, <3>3 DEF Held, Older
    <2> QED  BY <2>1, <2>2
  <1>7. Progress'
    <2> SUFFICES ASSUME NEW d \in Callers, NEW i \in 1 .. MaxEntries
                 PROVE  /\ pc[<<d, i>>] # "none" => i <= started'[d]
                        /\ i <= Len(results'[d]) /\ phase'[d] = "running" => pc[<<d, i>>] = "done"
                        /\ phase'[d] = "idle" => pc[<<d, i>>] = "none"
                        /\ phase'[d] \in {"returned", "threw"} =>
                             pc[<<d, i>>] \notin {"ready", "applying"}
      BY DEF Progress, Running, Call, taskVars
    <2>1. CASE d = c
      <3>1. /\ phase'[d] = "running" /\ results'[d] = << >>
            /\ pc[<<d, i>>] = "none"
        BY <2>1, <1>3 DEF Call, IInv, TypeOK
      <3> QED  BY <3>1
    <2>2. CASE d # c
      <3>1. /\ phase'[d] = phase[d] /\ results'[d] = results[d] /\ started'[d] = started[d]
        BY <2>2 DEF Call, IInv, TypeOK
      <3> QED  BY <3>1 DEF IInv, Progress, Running
    <2> QED  BY <2>1, <2>2
  <1>8. EditsOwn'
    BY <1>1 DEF EditsOwn, IInv, TypeOK, Call
  <1>9. CallsNumbered'
    BY DEF CallsNumbered, IInv, TypeOK, Call
  <1> QED  BY <1>2, <1>4, <1>5, <1>6, <1>7, <1>8, <1>9 DEF IInv

LEMMA StartPreserves ==
  ASSUME IInv, NEW c \in Callers, Start(c)
  PROVE  IInv'
  <1> DEFINE i == started[c] + 1
             t0 == <<c, i>>
  <1>1. /\ Running(c) /\ i \in 1 .. Len(batch[c]) /\ i \in 1 .. MaxEntries
        /\ t0 \in Tasks /\ started[c] \in Nat
    <2>1. batch[c] \in Seq([1 .. NInputs -> Buffers])
      BY DEF IInv, TypeOK
    <2>2. Len(batch[c]) <= MaxEntries
      BY DEF IInv, TypeOK
    <2> QED  BY <2>1, <2>2, Counters, SizesAssumption DEF Start, Tasks, IInv
  <1>2. /\ pc' = [pc EXCEPT ![t0] = "ready"]
        /\ env' = [env EXCEPT ![t0] = batch[c][i]]
        /\ started' = [started EXCEPT ![c] = i]
        /\ UNCHANGED <<heap, phase, parallel, batch, asked, calls, results, editing>>
    BY DEF Start, EntryOf
  <1>3. /\ batch[c][i] \in [1 .. NInputs -> Buffers]
        /\ batch[c][i] \in Seq(Buffers) /\ Len(batch[c][i]) = NInputs
    <2>1. batch[c][i] \in [1 .. NInputs -> Buffers]
      BY <1>1 DEF IInv, TypeOK
    <2> QED  BY <2>1, FunctionIsSequence, SizesAssumption
  <1>4. TypeOK'
    <2>1. ASSUME NEW t \in Tasks PROVE TaskOK(t)'
      <3>1. CASE t = t0
        <4>1. env'[t] = batch[c][i] /\ pc'[t] = "ready"
          BY <3>1, <1>2 DEF IInv, TypeOK
        <4>2. Len(env'[t]) \in NInputs .. NInputs + Len(Layers)
          BY <4>1, <1>3, LayersAssumption, SizesAssumption
        <4> QED  BY <4>1, <4>2, <1>3 DEF TaskOK
      <3>2. CASE t # t0
        <4>1. env'[t] = env[t] /\ pc'[t] = pc[t]
          BY <3>2, <1>2 DEF IInv, TypeOK
        <4> QED  BY <4>1 DEF IInv, TypeOK, TaskOK, Current, AllApplied
      <3> QED  BY <3>1, <3>2
    <2>2. started' \in [Callers -> 0 .. MaxEntries]
      BY <1>1, <1>2 DEF IInv, TypeOK
    <2>3. \A d \in Callers : started'[d] <= Len(batch[d]) /\ Len(results[d]) <= started'[d]
      <3> SUFFICES ASSUME NEW d \in Callers
                   PROVE  started'[d] <= Len(batch[d]) /\ Len(results[d]) <= started'[d]
        OBVIOUS
      <3>1. started'[d] = IF d = c THEN i ELSE started[d]
        BY <1>2 DEF IInv, TypeOK
      <3> QED  BY <3>1, <1>1, Counters DEF IInv
    <2> QED  BY <2>1, <2>2, <2>3, <1>2 DEF IInv, TypeOK
  <1>5. EnvOwned'
    <2> SUFFICES ASSUME NEW t \in Tasks, pc'[t] # "none", NEW k \in 1 .. Len(env'[t])
                 PROVE  FromEntry(t, env'[t][k])
      BY CallKept, <1>2 DEF EnvOwned, FromEntry
    <2>1. CASE t = t0
      BY <2>1, <1>1, <1>2, <1>3 DEF FromEntry, IInv, TypeOK
    <2>2. CASE t # t0
      BY <2>2, <1>2 DEF IInv, TypeOK, EnvOwned
    <2> QED  BY <2>1, <2>2
  <1>6. Progress'
    <2> SUFFICES ASSUME NEW d \in Callers, NEW j \in 1 .. MaxEntries
                 PROVE  /\ pc'[<<d, j>>] # "none" => j <= started'[d]
                        /\ j <= Len(results[d]) /\ phase[d] = "running" =>
                             pc'[<<d, j>>] = "done"
                        /\ phase[d] = "idle" => pc'[<<d, j>>] = "none"
                        /\ phase[d] \in {"returned", "threw"} =>
                             pc'[<<d, j>>] \notin {"ready", "applying"}
      BY <1>2 DEF Progress, Running
    <2>1. started'[d] = IF d = c THEN i ELSE started[d]
      BY <1>2 DEF IInv, TypeOK
    <2>2. CASE <<d, j>> = t0
      <3>1. d = c /\ j = i /\ pc'[<<d, j>>] = "ready"
        BY <2>2, <1>1, <1>2 DEF IInv, TypeOK
      <3>2. ~(j <= Len(results[d]))
        BY <3>1, <1>1, Counters DEF IInv
      <3> QED  BY <3>1, <3>2, <2>1, <1>1 DEF Running
    <2>3. CASE <<d, j>> # t0
      <3>1. pc'[<<d, j>>] = pc[<<d, j>>]
        BY <2>3, <1>2 DEF IInv, TypeOK
      <3>2. started[d] <= started'[d] /\ started[d] \in Nat /\ started'[d] \in Nat
        BY <2>1, <1>1, Counters DEF IInv
      <3>3. pc[<<d, j>>] # "none" => j <= started[d]
        BY DEF IInv, Progress
      <3>4. pc[<<d, j>>] # "none" => j <= started'[d]
        BY <3>2, <3>3
      <3> QED  BY <3>1, <3>4 DEF IInv, Progress, Running
    <2> QED  BY <2>2, <2>3
  <1>7. BatchOlder' /\ ResultsOfEntry'
    BY CallKept, <1>2
  <1>8. EditsOwn' /\ CallsNumbered'
    BY <1>2 DEF IInv, EditsOwn, CallsNumbered
  <1> QED  BY <1>4, <1>5, <1>6, <1>7, <1>8 DEF IInv

\* A step of the caller that changes its phase.
LEMMA PhasePreserves ==
  ASSUME IInv, NEW c \in Callers, phase[c] \in {"running", "unwinding"},
         NEW q \in {"unwinding", "threw", "returned"},
         phase' = [phase EXCEPT ![c] = q],
         q # "unwinding" =>
           \A i \in 1 .. MaxEntries : pc[<<c, i>>] \notin {"ready", "applying"},
         UNCHANGED <<heap, parallel, batch, asked, calls, started, pc, env, editing>>,
         \/ UNCHANGED results
         \/ results' = [results EXCEPT ![c] = << >>]
  PROVE  IInv'
  <1>1. \A d \in Callers : results'[d] \in {results[d], << >>}
    BY DEF IInv, TypeOK
  <1>2. TypeOK'
    <2>1. results' \in [Callers -> Seq([1 .. Len(Outs) -> Buffers])]
      <3>1. results \in [Callers -> Seq([1 .. Len(Outs) -> Buffers])]
        BY DEF IInv, TypeOK
      <3>2. << >> \in Seq([1 .. Len(Outs) -> Buffers])
        OBVIOUS
      <3> QED  BY <3>1, <3>2
    <2>2. phase' \in [Callers -> {"idle", "running", "unwinding", "returned", "threw"}]
      BY DEF IInv, TypeOK
    <2>3. \A d \in Callers : Len(results'[d]) <= started[d]
      BY <1>1, Counters DEF IInv
    <2>4. \A t \in Tasks : TaskOK(t)'
      BY DEF IInv, TypeOK, TaskOK, Current, AllApplied
    <2> QED  BY <2>1, <2>2, <2>3, <2>4 DEF IInv, TypeOK
  <1>3. EnvOwned' /\ BatchOlder'
    BY CallKept
  <1>4. ResultsOfEntry'
    <2> SUFFICES ASSUME NEW d \in Callers, NEW i \in 1 .. Len(results'[d]), NEW o \in 1 .. Len(Outs)
                 PROVE  FromEntry(<<d, i>>, results'[d][i][o])
      BY CallKept, SMTT(30) DEF ResultsOfEntry, FromEntry
    <2>1. results'[d] = results[d]
      BY <1>1
    <2> QED  BY <2>1 DEF IInv, ResultsOfEntry
  <1>5. Progress'
    <2> SUFFICES ASSUME NEW d \in Callers, NEW j \in 1 .. MaxEntries
                 PROVE  /\ pc[<<d, j>>] # "none" => j <= started[d]
                        /\ j <= Len(results'[d]) /\ phase'[d] = "running" =>
                             pc[<<d, j>>] = "done"
                        /\ phase'[d] = "idle" => pc[<<d, j>>] = "none"
                        /\ phase'[d] \in {"returned", "threw"} =>
                             pc[<<d, j>>] \notin {"ready", "applying"}
      BY DEF Progress, Running
    <2>1. phase'[d] = IF d = c THEN q ELSE phase[d]
      BY DEF IInv, TypeOK
    <2>2. CASE d = c
      BY <2>1, <2>2 DEF IInv, Progress
    <2>3. CASE d # c
      <3>1. results'[d] = results[d] /\ phase'[d] = phase[d]
        BY <2>1, <2>3 DEF IInv, TypeOK
      <3>2. /\ pc[<<d, j>>] # "none" => j <= started[d]
            /\ j <= Len(results[d]) /\ Running(d) => pc[<<d, j>>] = "done"
            /\ phase[d] = "idle" => pc[<<d, j>>] = "none"
            /\ phase[d] \in {"returned", "threw"} => pc[<<d, j>>] \notin {"ready", "applying"}
        BY DEF IInv, Progress
      <3> QED  BY <3>1, <3>2 DEF Running
    <2> QED  BY <2>2, <2>3
  <1>6. EditsOwn'
    <2> SUFFICES ASSUME NEW d \in Callers, editing[d] # NoBuffer
                 PROVE  /\ phase'[d] = "idle"
                        /\ \E i \in 1 .. MaxEntries, l \in 1 .. Len(Layers) :
                             editing[d] = <<d, calls[d], i, l>>
      BY DEF EditsOwn
    <2>1. /\ phase[d] = "idle"
          /\ \E i \in 1 .. MaxEntries, l \in 1 .. Len(Layers) :
               editing[d] = <<d, calls[d], i, l>>
      BY DEF IInv, EditsOwn
    <2>2. d # c
      BY <2>1
    <2>3. phase'[d] = phase[d]
      BY <2>2 DEF IInv, TypeOK
    <2> QED  BY <2>1, <2>3
  <1>7. CallsNumbered'
    <2> SUFFICES ASSUME NEW d \in Callers,
                        phase'[d] # "idle" \/ results'[d] # << >> \/ editing[d] # NoBuffer
                 PROVE  calls[d] >= 1
      BY DEF CallsNumbered
    <2>1. CASE d = c
      BY <2>1 DEF IInv, CallsNumbered
    <2>2. CASE d # c
      <3>1. phase'[d] = phase[d]
        BY <2>2 DEF IInv, TypeOK
      <3> QED  BY <3>1, <1>1 DEF IInv, CallsNumbered
    <2> QED  BY <2>1, <2>2
  <1> QED  BY <1>2, <1>3, <1>4, <1>5, <1>6, <1>7 DEF IInv

\* A task goes on without anything else changing.
LEMMA PcPreserves ==
  ASSUME IInv, NEW t \in Tasks, pc[t] = "ready",
         NEW q \in {"applying", "threw", "done"},
         pc' = [pc EXCEPT ![t] = q],
         q = "applying" => Current(t) <= Len(Layers),
         q = "done" => AllApplied(t),
         UNCHANGED <<heap, callVars, env, editing>>
  PROVE  IInv'
  <1>1. UNCHANGED <<phase, parallel, batch, asked, calls, started, results>>
    BY DEF callVars
  <1>2. \A s \in Tasks : pc'[s] = IF s = t THEN q ELSE pc[s]
    BY DEF IInv, TypeOK
  <1>3. TypeOK'
    <2>1. ASSUME NEW s \in Tasks PROVE TaskOK(s)'
      BY <1>2 DEF IInv, TypeOK, TaskOK, Current, AllApplied
    <2> QED  BY <1>1, <2>1 DEF IInv, TypeOK
  <1>4. EnvOwned'
    <2>1. \A s \in Tasks : pc'[s] # "none" => pc[s] # "none"
      BY <1>2
    <2> QED  BY <1>1, <2>1, CallKept DEF IInv, EnvOwned
  <1>5. Progress'
    <2> SUFFICES ASSUME NEW d \in Callers, NEW j \in 1 .. MaxEntries
                 PROVE  /\ pc'[<<d, j>>] # "none" => j <= started[d]
                        /\ j <= Len(results[d]) /\ phase[d] = "running" =>
                             pc'[<<d, j>>] = "done"
                        /\ phase[d] = "idle" => pc'[<<d, j>>] = "none"
                        /\ phase[d] \in {"returned", "threw"} =>
                             pc'[<<d, j>>] \notin {"ready", "applying"}
      BY <1>1 DEF Progress, Running
    <2>1. <<d, j>> \in Tasks
      BY DEF Tasks
    <2>2. pc'[<<d, j>>] = IF <<d, j>> = t THEN q ELSE pc[<<d, j>>]
      BY <1>2, <2>1
    <2> QED  BY <2>2 DEF IInv, Progress, Running
  <1>6. BatchOlder' /\ ResultsOfEntry'
    BY CallKept, <1>1
  <1>7. EditsOwn' /\ CallsNumbered'
    BY <1>1 DEF IInv, EditsOwn, CallsNumbered
  <1> QED  BY <1>3, <1>4, <1>5, <1>6, <1>7 DEF IInv

\* A layer has been applied: its output is in the output_cache.
LEMMA KeepPreserves ==
  ASSUME IInv, NEW t \in Tasks, pc[t] \in {"ready", "applying"},
         Current(t) <= Len(Layers), NEW b \in Buffers, FromEntry(t, b),
         env' = Keep(t, b),
         DOMAIN pc' = Tasks,
         \A s \in Tasks : pc'[s] = IF s = t THEN "ready" ELSE pc[s],
         DOMAIN heap' = DOMAIN heap,
         UNCHANGED <<callVars, editing>>
  PROVE  IInv'
  <1>1. UNCHANGED <<phase, parallel, batch, asked, calls, started, results>>
    BY DEF callVars
  <1>2. /\ env[t] \in Seq(Buffers)
        /\ Len(env[t]) \in NInputs .. NInputs + Len(Layers)
        /\ Len(env[t]) < NInputs + Len(Layers)
    <2>1. env[t] \in Seq(Buffers) /\ Len(env[t]) \in NInputs .. NInputs + Len(Layers)
      BY DEF IInv, TypeOK, TaskOK
    <2> QED  BY <2>1, LayersAssumption, SizesAssumption DEF Current
  <1>3. /\ DOMAIN env' = Tasks
        /\ env'[t] = Append(env[t], b)
        /\ \A s \in Tasks : s # t => env'[s] = env[s]
    BY DEF Keep, IInv, TypeOK
  <1>4. /\ env'[t] \in Seq(Buffers)
        /\ Len(env'[t]) = Len(env[t]) + 1
        /\ \A k \in 1 .. Len(env'[t]) :
             env'[t][k] = IF k = Len(env[t]) + 1 THEN b ELSE env[t][k]
    BY <1>2, <1>3
  <1>5. TypeOK'
    <2>1. ASSUME NEW s \in Tasks PROVE TaskOK(s)'
      <3>1. CASE s = t
        <4>1. Len(env'[t]) \in NInputs .. NInputs + Len(Layers)
          BY <1>2, <1>4, LayersAssumption, SizesAssumption
        <4> QED  BY <3>1, <1>4, <4>1 DEF TaskOK
      <3>2. CASE s # t
        BY <3>2, <1>3 DEF IInv, TypeOK, TaskOK, Current, AllApplied
      <3> QED  BY <3>1, <3>2
    <2> QED  BY <1>1, <1>3, <2>1 DEF IInv, TypeOK
  <1>6. EnvOwned'
    <2> SUFFICES ASSUME NEW s \in Tasks, pc'[s] # "none", NEW k \in 1 .. Len(env'[s])
                 PROVE  FromEntry(s, env'[s][k])
      BY CallKept, <1>1 DEF EnvOwned, FromEntry
    <2>1. CASE s = t
      <3>1. CASE k = Len(env[t]) + 1
        BY <2>1, <3>1, <1>4
      <3>2. CASE k # Len(env[t]) + 1
        <4>1. k \in 1 .. Len(env[t]) /\ env'[t][k] = env[t][k]
          BY <2>1, <3>2, <1>2, <1>4
        <4> QED  BY <2>1, <4>1 DEF IInv, EnvOwned
      <3> QED  BY <3>1, <3>2
    <2>2. CASE s # t
      BY <2>2, <1>3 DEF IInv, EnvOwned
    <2> QED  BY <2>1, <2>2
  <1>7. Progress'
    <2> SUFFICES ASSUME NEW d \in Callers, NEW j \in 1 .. MaxEntries
                 PROVE  /\ pc'[<<d, j>>] # "none" => j <= started[d]
                        /\ j <= Len(results[d]) /\ phase[d] = "running" =>
                             pc'[<<d, j>>] = "done"
                        /\ phase[d] = "idle" => pc'[<<d, j>>] = "none"
                        /\ phase[d] \in {"returned", "threw"} =>
                             pc'[<<d, j>>] \notin {"ready", "applying"}
      BY <1>1 DEF Progress, Running
    <2>1. <<d, j>> \in Tasks
      BY DEF Tasks
    <2>2. pc'[<<d, j>>] = IF <<d, j>> = t THEN "ready" ELSE pc[<<d, j>>]
      BY <2>1
    <2> QED  BY <2>2 DEF IInv, Progress, Running
  <1>8. BatchOlder' /\ ResultsOfEntry'
    BY CallKept, <1>1
  <1>9. EditsOwn' /\ CallsNumbered'
    BY <1>1 DEF IInv, EditsOwn, CallsNumbered
  <1> QED  BY <1>5, <1>6, <1>7, <1>8, <1>9 DEF IInv

LEMMA TaskStepPreserves ==
  ASSUME IInv, NEW t \in Tasks, TaskStep(t)
  PROVE  IInv'
  <1> DEFINE l == Current(t)
  <1>0. /\ pc[t] # "none" => l \in Nat /\ l >= 1
        /\ pc[t] = "applying" => l <= Len(Layers)
    BY LayersAssumption, SizesAssumption DEF IInv, TypeOK, TaskOK, Current
  <1>1. CASE Share(t)
    <2>1. /\ pc[t] = "ready" /\ l \in 1 .. Len(Layers) /\ Layers[l].shares
          /\ env' = Keep(t, ArgBuffers(t, l)[1])
          /\ UNCHANGED <<heap, callVars, pc, editing>>
      BY <1>0, <1>1, LayersAssumption DEF Share
    <2>2. 1 \in 1 .. Len(Layers[l].args)
      <3> HIDE DEF l
      <3>1. \A k \in 1 .. Len(Layers) : Layers[k].shares => Len(Layers[k].args) = 1
        BY LayersAssumption
      <3>2. Len(Layers[l].args) = 1
        BY <2>1, <3>1
      <3> QED  BY <3>2
    <2>3. /\ Layers[l].args[1] \in 1 .. Len(env[t])
          /\ ArgBuffers(t, l)[1] = env[t][Layers[l].args[1]]
          /\ ArgBuffers(t, l)[1] \in Buffers
      BY <2>1, <2>2, ArgsInEnv DEF IInv
    <2>4. FromEntry(t, ArgBuffers(t, l)[1])
      BY <2>1, <2>3 DEF IInv, EnvOwned
    <2>5. /\ DOMAIN pc' = Tasks
          /\ \A s \in Tasks : pc'[s] = IF s = t THEN "ready" ELSE pc[s]
      BY <2>1 DEF IInv, TypeOK
    <2>6. Current(t) <= Len(Layers)
      BY <2>1, LayersAssumption
    <2> QED  BY <2>1, <2>3, <2>4, <2>5, <2>6, KeepPreserves
  <1>2. CASE Apply(t)
    BY <1>2, PcPreserves DEF Apply
  <1>3. CASE Applied(t)
    <2>1. /\ pc[t] = "applying" /\ l \in 1 .. Len(Layers)
      BY <1>0, <1>3, LayersAssumption DEF Applied
    <2>2. Target(t, l) \in Buffers
      BY <2>1, TargetMade DEF IInv
    <2>3. FromEntry(t, Target(t, l))
      BY <2>1 DEF Target, FromEntry
    <2>4. /\ DOMAIN pc' = Tasks
          /\ \A s \in Tasks : pc'[s] = IF s = t THEN "ready" ELSE pc[s]
          /\ DOMAIN heap' = DOMAIN heap
      BY <1>3 DEF Applied, IInv, TypeOK
    <2> QED  BY <1>3, <2>1, <2>2, <2>3, <2>4, KeepPreserves DEF Applied
  <1>4. CASE Refuse(t)
    BY <1>4, PcPreserves DEF Refuse
  <1>5. CASE Predicted(t)
    BY <1>5, PcPreserves DEF Predicted
  <1> QED  BY <1>1, <1>2, <1>3, <1>4, <1>5 DEF TaskStep

LEMMA CollectPreserves ==
  ASSUME IInv, NEW c \in Callers, Collect(c)
  PROVE  IInv'
  <1> DEFINE n == Len(results[c]) + 1
             t == <<c, n>>
  <1>1. /\ Running(c) /\ n <= started[c] /\ pc[t] = "done"
        /\ results' = [results EXCEPT ![c] = Append(@, OutBuffers(t))]
        /\ UNCHANGED <<heap, phase, parallel, batch, asked, calls, started, pc, env, editing>>
    BY Counters DEF IInv, Collect, NextInOrder, taskVars
  <1>2. n \in 1 .. MaxEntries /\ t \in Tasks
    BY <1>1, Counters, SizesAssumption DEF IInv, Tasks
  <1>3. /\ OutBuffers(t) \in [1 .. Len(Outs) -> Buffers]
        /\ \A o \in 1 .. Len(Outs) : FromEntry(t, OutBuffers(t)[o])
    <2>1. /\ env[t] \in Seq(Buffers)
          /\ Len(env[t]) = NInputs + Len(Layers)
      BY <1>1, <1>2, LayersAssumption, SizesAssumption
      DEF IInv, TypeOK, TaskOK, AllApplied, Current
    <2>2. \A o \in 1 .. Len(Outs) : Outs[o] \in 1 .. Len(env[t])
      BY <2>1, LayersAssumption
    <2>3. \A o \in 1 .. Len(Outs) : FromEntry(t, env[t][Outs[o]])
      BY <1>1, <1>2, <2>2 DEF IInv, EnvOwned
    <2>4. ASSUME NEW o \in 1 .. Len(Outs)
          PROVE  /\ env[t][Outs[o]] \in Buffers /\ FromEntry(t, env[t][Outs[o]])
                 /\ OutBuffers(t)[o] = env[t][Outs[o]]
      <3>1. \A k \in 1 .. Len(env[t]) : env[t][k] \in Buffers
        <4> DEFINE S == Buffers
        <4> HIDE DEF S
        <4>1. env[t] \in Seq(S)
          BY <2>1 DEF S
        <4>2. \A k \in 1 .. Len(env[t]) : env[t][k] \in S
          BY <4>1
        <4> QED  BY <4>2 DEF S
      <3>2. OutBuffers(t)[o] = env[t][Outs[o]]
        BY DEF OutBuffers
      <3> QED  BY <2>2, <2>3, <3>1, <3>2
    <2>5. OutBuffers(t) = [o \in 1 .. Len(Outs) |-> env[t][Outs[o]]]
      BY DEF OutBuffers
    <2> HIDE DEF t
    <2> QED  BY <2>4, <2>5
  <1>4. /\ results'[c] \in Seq([1 .. Len(Outs) -> Buffers])
        /\ Len(results'[c]) = n
        /\ \A i \in 1 .. n : results'[c][i] = IF i = n THEN OutBuffers(t) ELSE results[c][i]
        /\ \A d \in Callers : d # c => results'[d] = results[d]
    <2>1. /\ results'[c] = Append(results[c], OutBuffers(t))
          /\ \A d \in Callers : d # c => results'[d] = results[d]
      BY <1>1 DEF IInv, TypeOK
    <2>2. results[c] \in Seq([1 .. Len(Outs) -> Buffers])
      BY DEF IInv, TypeOK
    <2> DEFINE S == [1 .. Len(Outs) -> Buffers]
               r == OutBuffers(t)
    <2>3. results[c] \in Seq(S) /\ r \in S
      BY <2>2, <1>3
    <2>4. ASSUME NEW T, NEW q \in Seq(T), NEW x \in T
          PROVE  /\ Append(q, x) \in Seq(T)
                 /\ Len(Append(q, x)) = Len(q) + 1
                 /\ \A i \in 1 .. Len(q) + 1 :
                      Append(q, x)[i] = IF i = Len(q) + 1 THEN x ELSE q[i]
      OBVIOUS
    <2> HIDE DEF S, r
    <2>5. /\ Append(results[c], r) \in Seq(S)
          /\ Len(Append(results[c], r)) = n
          /\ \A i \in 1 .. n :
               Append(results[c], r)[i] = IF i = n THEN r ELSE results[c][i]
      BY <2>3, <2>4
    <2> QED  BY <2>1, <2>5 DEF S, r
  <1>5. TypeOK'
    <2>1. results' \in [Callers -> Seq([1 .. Len(Outs) -> Buffers])]
      <3> DEFINE R == Seq([1 .. Len(Outs) -> Buffers])
      <3>1. results \in [Callers -> R] /\ results'[c] \in R
        BY <1>4 DEF IInv, TypeOK
      <3>2. results' = [results EXCEPT ![c] = results'[c]]
        BY <1>1, <3>1
      <3> HIDE DEF R
      <3>3. results' \in [Callers -> R]
        BY <3>1, <3>2
      <3> QED  BY <3>3 DEF R
    <2>2. \A d \in Callers : Len(results'[d]) <= started[d]
      BY <1>1, <1>4, Counters DEF IInv
    <2>3. \A s \in Tasks : TaskOK(s)'
      BY <1>1 DEF IInv, TypeOK, TaskOK, Current, AllApplied
    <2> QED  BY <1>1, <2>1, <2>2, <2>3 DEF IInv, TypeOK
  <1>6. ResultsOfEntry'
    <2> SUFFICES ASSUME NEW d \in Callers, NEW i \in 1 .. Len(results'[d]),
                        NEW o \in 1 .. Len(Outs)
                 PROVE  FromEntry(<<d, i>>, results'[d][i][o])
      <3>1. UNCHANGED <<batch, calls>>
        BY <1>1
      <3> HIDE DEF n, t
      <3> QED  BY <3>1 DEF ResultsOfEntry, FromEntry
    <2>1. CASE d = c
      <3>1. CASE i = n
        BY <2>1, <3>1, <1>3, <1>4
      <3>2. CASE i # n
        <4>1. i \in 1 .. Len(results[c]) /\ results'[d][i] = results[c][i]
          BY <2>1, <3>2, <1>4, Counters DEF IInv
        <4> QED  BY <2>1, <4>1 DEF IInv, ResultsOfEntry
      <3> QED  BY <3>1, <3>2
    <2>2. CASE d # c
      BY <2>2, <1>4 DEF IInv, ResultsOfEntry
    <2> QED  BY <2>1, <2>2
  <1>7. Progress'
    <2> SUFFICES ASSUME NEW d \in Callers, NEW j \in 1 .. MaxEntries
                 PROVE  j <= Len(results'[d]) /\ Running(d) => pc[<<d, j>>] = "done"
      BY <1>1 DEF IInv, Progress, Running
    <2>1. CASE d = c
      <3>1. CASE j = n
        BY <2>1, <3>1, <1>1
      <3>2. CASE j # n
        <4>1. j <= Len(results'[c]) => j <= Len(results[c])
          BY <3>2, <1>4, Counters DEF IInv
        <4> QED  BY <2>1, <4>1 DEF IInv, Progress
      <3> QED  BY <3>1, <3>2
    <2>2. CASE d # c
      BY <2>2, <1>4 DEF IInv, Progress
    <2> QED  BY <2>1, <2>2
  <1>8. EnvOwned' /\ BatchOlder'
    BY CallKept, <1>1
  <1>9. EditsOwn' /\ CallsNumbered'
    <2>1. phase[c] # "idle"
      BY <1>1 DEF Running
    <2>2. \A d \in Callers : d # c => results'[d] = results[d]
      BY <1>4
    <2>3. /\ UNCHANGED <<phase, calls, editing>>
      BY <1>1
    <2> HIDE DEF n, t
    <2> QED  BY <2>1, <2>2, <2>3 DEF IInv, EditsOwn, CallsNumbered
  <1> QED  BY <1>5, <1>6, <1>7, <1>8, <1>9 DEF IInv

LEMMA CallStepPreserves ==
  ASSUME IInv, NEW c \in Callers, CallStep(c)
  PROVE  IInv'
  <1>1. CASE Start(c)
    BY <1>1, StartPreserves
  <1>2. CASE StartFails(c)
    BY <1>2, PhasePreserves DEF StartFails, Running, taskVars
  <1>3. CASE Collect(c)
    BY <1>3, CollectPreserves
  <1>4. CASE CollectError(c)
    BY <1>4, PhasePreserves DEF CollectError, Running, taskVars
  <1>5. CASE Unwound(c)
    <2>1. ASSUME NEW i \in 1 .. MaxEntries PROVE pc[<<c, i>>] \notin {"ready", "applying"}
      <3>1. CASE i <= started[c]
        <4>1. <<c, i>> \in TasksOf(c)
          BY <3>1, Counters DEF TasksOf, IInv
        <4> QED  BY <4>1, <1>5 DEF Unwound, Joined, Ended
      <3>2. CASE ~(i <= started[c])
        BY <3>2 DEF IInv, Progress
      <3> QED  BY <3>1, <3>2
    <2> QED  BY <1>5, <2>1, PhasePreserves DEF Unwound, taskVars
  <1>6. CASE Return(c)
    <2>1. Running(c) /\ Len(results[c]) = started[c]
      BY <1>6, Counters DEF Return, IInv
    <2>2. ASSUME NEW i \in 1 .. MaxEntries PROVE pc[<<c, i>>] \notin {"ready", "applying"}
      BY <2>1 DEF IInv, Progress
    <2> QED  BY <1>6, <2>2, PhasePreserves DEF Return, Running, taskVars
  <1> QED  BY <1>1, <1>2, <1>3, <1>4, <1>5, <1>6 DEF CallStep

LEMMA TakePreserves ==
  ASSUME IInv, NEW c \in Callers, Take(c)
  PROVE  IInv'
  <1>1. /\ phase[c] \in {"returned", "threw"}
        /\ phase' = [phase EXCEPT ![c] = "idle"]
        /\ asked' = [asked EXCEPT ![c] = << >>]
        /\ pc' = [t \in Tasks |-> IF t[1] = c THEN "none" ELSE pc[t]]
        /\ env' = [t \in Tasks |-> IF t[1] = c THEN << >> ELSE env[t]]
        /\ UNCHANGED <<heap, parallel, batch, calls, started, results, editing>>
    BY DEF Take
  <1>2. TypeOK'
    <2>1. ASSUME NEW t \in Tasks PROVE TaskOK(t)'
      BY <1>1 DEF IInv, TypeOK, TaskOK, Current, AllApplied
    <2> QED  BY <1>1, <2>1 DEF IInv, TypeOK
  <1>3. EnvOwned'
    <2> SUFFICES ASSUME NEW t \in Tasks, pc'[t] # "none", NEW k \in 1 .. Len(env'[t])
                 PROVE  FromEntry(t, env'[t][k])
      BY CallKept, <1>1 DEF EnvOwned, FromEntry
    <2> QED  BY <1>1 DEF IInv, EnvOwned
  <1>4. Progress'
    <2> SUFFICES ASSUME NEW d \in Callers, NEW j \in 1 .. MaxEntries
                 PROVE  /\ pc'[<<d, j>>] # "none" => j <= started[d]
                        /\ j <= Len(results[d]) /\ phase'[d] = "running" =>
                             pc'[<<d, j>>] = "done"
                        /\ phase'[d] = "idle" => pc'[<<d, j>>] = "none"
                        /\ phase'[d] \in {"returned", "threw"} =>
                             pc'[<<d, j>>] \notin {"ready", "applying"}
      BY <1>1 DEF Progress, Running
    <2>1. <<d, j>> \in Tasks
      BY DEF Tasks
    <2>2. /\ pc'[<<d, j>>] = IF d = c THEN "none" ELSE pc[<<d, j>>]
          /\ phase'[d] = IF d = c THEN "idle" ELSE phase[d]
      BY <1>1, <2>1 DEF IInv, TypeOK
    <2> QED  BY <2>2 DEF IInv, Progress, Running
  <1>5. BatchOlder' /\ ResultsOfEntry'
    BY CallKept, <1>1
  <1>6. EditsOwn' /\ CallsNumbered'
    BY <1>1 DEF IInv, TypeOK, EditsOwn, CallsNumbered
  <1> QED  BY <1>2, <1>3, <1>4, <1>5, <1>6 DEF IInv

\* What a caller may write to are tensors its last call has made.
LEMMA WritableOwn ==
  ASSUME IInv, NEW c \in Callers, NEW b \in Writable(c)
  PROVE  \E i \in 1 .. MaxEntries, l \in 1 .. Len(Layers) : b = <<c, calls[c], i, l>>
  <1>1. PICK x \in 1 .. Len(results[c]) :
          \E o \in 1 .. Len(results[c][x]) : b = results[c][x][o]
    BY DEF Writable, ResultBuffers
  <1>2. PICK o \in 1 .. Len(Outs) : b = results[c][x][o]
    BY <1>1, LayersAssumption, FunctionIsSequence DEF IInv, TypeOK
  <1>3. FromEntry(<<c, x>>, b)
    BY <1>2 DEF IInv, ResultsOfEntry
  <1>4. x \in 1 .. MaxEntries /\ x \in 1 .. Len(batch[c])
    BY <1>1, Counters DEF IInv
  <1>5. ASSUME NEW j \in 1 .. NInputs PROVE b # batch[c][x][j]
    <2>1. batch[c][x] \in [1 .. NInputs -> Buffers]
      BY <1>4 DEF IInv, TypeOK
    <2>2. Len(batch[c][x]) = NInputs
      BY <2>1, SizesAssumption, FunctionIsSequence
    <2>3. batch[c][x][j] \in ArgumentBuffers(c)
      BY <1>4, <2>2 DEF ArgumentBuffers
    <2> QED  BY <2>3 DEF Writable
  <1> QED  BY <1>3, <1>4, <1>5 DEF FromEntry

LEMMA EditPreserves ==
  ASSUME IInv, NEW c \in Callers,
         EndEdit(c) \/ \E b \in Writable(c) : BeginEdit(c, b)
  PROVE  IInv'
  <1>1. UNCHANGED <<phase, parallel, batch, asked, calls, started, results, pc, env>>
    BY DEF EndEdit, BeginEdit, callVars, taskVars
  <1>2. DOMAIN heap' = DOMAIN heap
    BY DEF EndEdit, BeginEdit
  <1>3. /\ editing' \in [Callers -> Buffers \cup {NoBuffer}]
        /\ EditsOwn'
    <2>1. CASE EndEdit(c)
      BY <1>1, <2>1 DEF EndEdit, IInv, TypeOK, EditsOwn
    <2>2. CASE \E b \in Writable(c) : BeginEdit(c, b)
      <3>1. PICK b \in Writable(c) : BeginEdit(c, b)
        BY <2>2
      <3>2. b \in Buffers
        BY HeldBuffers DEF Writable, Held
      <3>3. phase[c] = "idle" /\ editing' = [editing EXCEPT ![c] = b]
        BY <3>1 DEF BeginEdit
      <3>4. \E i \in 1 .. MaxEntries, l \in 1 .. Len(Layers) : b = <<c, calls[c], i, l>>
        BY WritableOwn
      <3>5. editing' \in [Callers -> Buffers \cup {NoBuffer}]
        BY <3>2, <3>3 DEF IInv, TypeOK
      <3>6. ASSUME NEW d \in Callers, editing'[d] # NoBuffer
            PROVE  /\ phase[d] = "idle"
                   /\ \E i \in 1 .. MaxEntries, l \in 1 .. Len(Layers) :
                        editing'[d] = <<d, calls[d], i, l>>
        <4>1. CASE d = c
          BY <4>1, <3>3, <3>4 DEF IInv, TypeOK
        <4>2. CASE d # c
          BY <4>2, <3>3, <3>6 DEF IInv, TypeOK, EditsOwn
        <4> QED  BY <4>1, <4>2
      <3> QED  BY <1>1, <3>5, <3>6 DEF EditsOwn
    <2> QED  BY <2>1, <2>2
  <1>4. TypeOK'
    <2>1. \A t \in Tasks : TaskOK(t)'
      BY <1>1 DEF IInv, TypeOK, TaskOK, Current, AllApplied
    <2> QED  BY <1>1, <1>2, <1>3, <2>1 DEF IInv, TypeOK
  <1>5. BatchOlder' /\ ResultsOfEntry' /\ EnvOwned'
    BY CallKept, <1>1
  <1>6. Progress' /\ CallsNumbered'
    <2>1. ASSUME NEW d \in Callers, editing'[d] # NoBuffer PROVE calls[d] >= 1
      <3>1. CASE editing'[d] = editing[d]
        BY <2>1, <3>1 DEF IInv, CallsNumbered
      <3>2. CASE editing'[d] # editing[d]
        <4>1. d = c /\ Writable(c) # {}
          BY <2>1, <3>2 DEF EndEdit, BeginEdit, IInv, TypeOK
        <4>2. results[c] # << >>
          BY <4>1 DEF Writable, ResultBuffers
        <4> QED  BY <4>1, <4>2 DEF IInv, CallsNumbered
      <3> QED  BY <3>1, <3>2
    <2> QED  BY <1>1, <2>1 DEF IInv, Progress, CallsNumbered, Running
  <1> QED  BY <1>3, <1>4, <1>5, <1>6 DEF IInv

LEMMA NextPreserves == IInv /\ [Next]_vars => IInv'
  <1> SUFFICES ASSUME IInv, [Next]_vars PROVE IInv'
    OBVIOUS
  <1>1. CASE \E t \in Tasks : TaskStep(t)
    BY <1>1, TaskStepPreserves
  <1>2. CASE \E c \in Callers, p \in BOOLEAN : \E bs \in Batches(c, Held(c)) : Call(c, p, bs)
    BY <1>2, CallPreserves
  <1>3. CASE \E c \in Callers : CallStep(c)
    BY <1>3, CallStepPreserves
  <1>4. CASE \E c \in Callers : Take(c)
    BY <1>4, TakePreserves
  <1>5. CASE \E c \in Callers : EndEdit(c) \/ \E b \in Writable(c) : BeginEdit(c, b)
    BY <1>5, EditPreserves
  <1>6. CASE UNCHANGED vars
    <2>1. UNCHANGED <<heap, phase, parallel, batch, asked, calls, started, results, pc, env, editing>>
      BY <1>6 DEF vars
    <2>2. TypeOK'
      <3>1. \A t \in Tasks : TaskOK(t)'
        BY <2>1 DEF IInv, TypeOK, TaskOK, Current, AllApplied
      <3> QED  BY <2>1, <3>1 DEF IInv, TypeOK
    <2>3. BatchOlder' /\ ResultsOfEntry' /\ EnvOwned'
      BY CallKept, <2>1
    <2> QED  BY <2>1, <2>2, <2>3 DEF IInv, Progress, Running, EditsOwn, CallsNumbered
  <1> QED  BY <1>1, <1>2, <1>3, <1>4, <1>5, <1>6 DEF Next
-----------------------------------------------------------------------------
(***************************************************************************)
(* What IInv says about the buffers threads use.                           *)
(***************************************************************************)
\* The buffer a layer fills belongs to its task, and no call was made with it.
LEMMA TargetIsFresh ==
  ASSUME IInv, NEW t \in Tasks, pc[t] # "none", NEW l \in 1 .. Len(Layers)
  PROVE  /\ \A c \in Callers : \A b : Older(c, b) => b # Target(t, l)
         /\ \A s \in Tasks : \A b : s # t /\ pc[s] # "none" /\ FromEntry(s, b)
                                  => b # Target(t, l)
         /\ \A c \in Callers : editing[c] # Target(t, l)
  <1>1. /\ t[1] \in Callers /\ t[2] \in 1 .. MaxEntries /\ t = <<t[1], t[2]>>
        /\ Target(t, l) = <<t[1], calls[t[1]], t[2], l>>
        /\ Target(t, l) \in Made
    BY TargetMade DEF Tasks, Target, IInv
  <1>2. ASSUME NEW c \in Callers, NEW b, Older(c, b) PROVE b # Target(t, l)
    <2>1. Target(t, l) \notin Given
      BY <1>1, SizesAssumption
    <2>2. calls[c] \notin 1 .. calls[c] - 1
      BY Counters DEF IInv
    <2> QED  BY <1>1, <1>2, <2>1, <2>2 DEF Older
  <1>3. ASSUME NEW s \in Tasks, NEW b, s # t, pc[s] # "none", FromEntry(s, b)
        PROVE  b # Target(t, l)
    <2>1. s[1] \in Callers /\ s[2] \in 1 .. MaxEntries /\ s = <<s[1], s[2]>>
      BY DEF Tasks
    <2>2. CASE \E j \in 1 .. NInputs : b = batch[s[1]][s[2]][j]
      <3>1. pc[<<s[1], s[2]>>] # "none"
        BY <2>1, <1>3
      <3>2. s[2] <= started[s[1]]
        BY <2>1, <3>1 DEF IInv, Progress
      <3>3. s[2] \in 1 .. Len(batch[s[1]])
        BY <2>1, <3>2, Counters DEF IInv
      <3>4. Older(s[1], b)
        BY <2>1, <2>2, <3>3 DEF IInv, BatchOlder
      <3> QED  BY <1>2, <2>1, <3>4
    <2>3. CASE \E k \in 1 .. Len(Layers) : b = <<s[1], calls[s[1]], s[2], k>>
      BY <2>1, <2>3, <1>1, <1>3
    <2> QED  BY <1>3, <2>2, <2>3 DEF FromEntry
  <1>4. ASSUME NEW c \in Callers PROVE editing[c] # Target(t, l)
    <2>1. CASE editing[c] = NoBuffer
      BY <2>1, <1>1 DEF NoBuffer
    <2>2. CASE editing[c] # NoBuffer
      <3>1. phase[c] = "idle"
        BY <2>2 DEF IInv, EditsOwn
      <3>2. pc[<<t[1], t[2]>>] # "none"
        BY <1>1
      <3>3. t[1] # c
        BY <1>1, <3>1, <3>2 DEF IInv, Progress
      <3>4. PICK i \in 1 .. MaxEntries : \E k \in 1 .. Len(Layers) :
              editing[c] = <<c, calls[c], i, k>>
        BY <2>2 DEF IInv, EditsOwn
      <3> QED  BY <1>1, <3>3, <3>4
    <2> QED  BY <2>1, <2>2
  <1> QED  BY <1>2, <1>3, <1>4

\* The buffer a caller writes to is held by no prediction, and no call was
\* made with it.
LEMMA EditedIsFresh ==
  ASSUME IInv, NEW c \in Callers, editing[c] # NoBuffer
  PROVE  /\ \A d \in Callers : \A b : Older(d, b) => b # editing[c]
         /\ \A t \in Tasks : \A b : pc[t] # "none" /\ FromEntry(t, b) => b # editing[c]
         /\ \A d \in Callers : d # c => editing[d] # editing[c]
  <1>1. phase[c] = "idle"
    BY DEF IInv, EditsOwn
  <1>2. PICK i \in 1 .. MaxEntries : \E k \in 1 .. Len(Layers) :
          editing[c] = <<c, calls[c], i, k>>
    BY DEF IInv, EditsOwn
  <1>3. PICK k \in 1 .. Len(Layers) : editing[c] = <<c, calls[c], i, k>>
    BY <1>2
  <1>4. editing[c] \notin Given
    <2>1. editing[c] \in Buffers
      BY DEF IInv, TypeOK
    <2>2. calls[c] \in Nat /\ calls[c] <= MaxCalls(c) /\ MaxCalls(c) \in Nat
      BY SizesAssumption DEF IInv, TypeOK
    <2>3. CASE calls[c] >= 1
      <3>1. calls[c] \in 1 .. MaxCalls(c)
        BY <2>2, <2>3
      <3>2. editing[c] \in Made
        BY <1>3, <3>1 DEF Made
      <3> QED  BY <3>2, SizesAssumption
    <2>4. calls[c] >= 1
      BY DEF IInv, CallsNumbered
    <2> QED  BY <2>3, <2>4
  <1>5. ASSUME NEW d \in Callers, NEW b, Older(d, b) PROVE b # editing[c]
    <2>1. calls[d] \notin 1 .. calls[d] - 1
      BY Counters DEF IInv
    <2> QED  BY <1>3, <1>4, <1>5, <2>1 DEF Older
  <1>6. ASSUME NEW t \in Tasks, NEW b, pc[t] # "none", FromEntry(t, b)
        PROVE  b # editing[c]
    <2>1. t[1] \in Callers /\ t[2] \in 1 .. MaxEntries /\ t = <<t[1], t[2]>>
      BY DEF Tasks
    <2>2. pc[<<t[1], t[2]>>] # "none"
      BY <1>6, <2>1
    <2>3. t[1] # c /\ t[2] \in 1 .. Len(batch[t[1]])
      <3>1. t[1] # c /\ t[2] <= started[t[1]]
        BY <1>1, <2>1, <2>2 DEF IInv, Progress
      <3> QED  BY <2>1, <3>1, Counters DEF IInv
    <2>4. CASE \E j \in 1 .. NInputs : b = batch[t[1]][t[2]][j]
      BY <2>1, <2>3, <2>4, <1>5 DEF IInv, BatchOlder
    <2>5. CASE \E x \in 1 .. Len(Layers) : b = <<t[1], calls[t[1]], t[2], x>>
      BY <2>3, <2>5, <1>3
    <2> QED  BY <1>6, <2>4, <2>5 DEF FromEntry
  <1>7. ASSUME NEW d \in Callers, d # c PROVE editing[d] # editing[c]
    <2>1. CASE editing[d] = NoBuffer
      BY <2>1
    <2>2. CASE editing[d] # NoBuffer
      <3>1. PICK j \in 1 .. MaxEntries : \E x \in 1 .. Len(Layers) :
              editing[d] = <<d, calls[d], j, x>>
        BY <2>2 DEF IInv, EditsOwn
      <3> QED  BY <3>1, <1>3, <1>7
    <2> QED  BY <2>1, <2>2
  <1> QED  BY <1>5, <1>6, <1>7

LEMMA NoRace == IInv => NoDataRace
  <1> SUFFICES ASSUME IInv, NEW g \in Threads, NEW h \in Threads, g # h,
                      NEW b \in Writes(g)
               PROVE  b \notin Writes(h) /\ b \notin Reads(h)
    BY DEF NoDataRace
  <1>1. \A t \in Tasks : pc[t] = "applying" => Current(t) \in 1 .. Len(Layers)
    <2> SUFFICES ASSUME NEW t \in Tasks, pc[t] = "applying"
                 PROVE  Current(t) \in 1 .. Len(Layers)
      OBVIOUS
    <2> QED  BY LayersAssumption, SizesAssumption DEF IInv, TypeOK, TaskOK, Current
  <1>2. ASSUME h \in Tasks, pc[h] = "applying", NEW x \in Reads(h)
        PROVE  FromEntry(h, x)
    <2>1. PICK j \in 1 .. Len(ArgBuffers(h, Current(h))) : x = ArgBuffers(h, Current(h))[j]
      BY <1>2 DEF Reads
    <2> DEFINE l == Current(h)
    <2>2. l \in 1 .. Len(Layers)
      BY <1>1, <1>2
    <2>3. j \in 1 .. Len(Layers[l].args)
      <3> HIDE DEF l
      <3>1. Layers[l].args \in Seq(Nat)
        <4>1. ASSUME NEW S, NEW q \in Seq(S), NEW k \in 1 .. Len(q) PROVE q[k] \in S
          OBVIOUS
        <4> DEFINE R == [shares : BOOLEAN, args : Seq(Nat)]
        <4> HIDE DEF R
        <4>2. Layers \in Seq(R)
          BY LayersAssumption DEF R
        <4>3. Layers[l] \in R
          BY <2>2, <4>1, <4>2
        <4> QED  BY <4>3 DEF R
      <3>2. Len(ArgBuffers(h, l)) = Len(Layers[l].args)
        BY <3>1 DEF ArgBuffers
      <3> QED  BY <2>1, <3>2 DEF l
    <2>4. /\ Layers[l].args[j] \in 1 .. Len(env[h])
          /\ x = env[h][Layers[l].args[j]]
      BY <1>2, <2>1, <2>2, <2>3, ArgsInEnv DEF IInv
    <2> QED  BY <1>2, <2>4 DEF IInv, EnvOwned
  <1>3. CASE g \in Tasks
    <2>1. pc[g] = "applying" /\ b = Target(g, Current(g)) /\ Current(g) \in 1 .. Len(Layers)
      BY <1>1, <1>3 DEF Writes
    <2>2. b \notin Reads(h)
      <3>1. CASE h \in Tasks /\ pc[h] = "applying"
        <4>1. pc[g] # "none" /\ pc[h] # "none"
          BY <2>1, <3>1
        <4>2. \A x : FromEntry(h, x) => x # Target(g, Current(g))
          BY <1>3, <2>1, <3>1, <4>1, TargetIsFresh
        <4> QED  BY <1>2, <2>1, <3>1, <4>2
      <3>2. CASE ~(h \in Tasks /\ pc[h] = "applying")
        BY <3>2 DEF Reads
      <3> QED  BY <3>1, <3>2
    <2>3. CASE h \in Tasks
      <3>1. pc[h] = "applying" => FromEntry(h, Target(h, Current(h)))
        BY <1>1, <2>3 DEF FromEntry, Target
      <3> QED  BY <1>3, <2>1, <2>2, <2>3, <3>1, TargetIsFresh DEF Writes
    <2>4. CASE h \notin Tasks
      BY <1>3, <2>1, <2>2, <2>4, TargetIsFresh DEF Writes, Threads
    <2> QED  BY <2>3, <2>4
  <1>4. CASE g \notin Tasks
    <2>1. g \in Callers /\ editing[g] # NoBuffer /\ b = editing[g]
      BY <1>4 DEF Writes, Threads
    <2>2. b \notin Reads(h)
      BY <1>2, <2>1, EditedIsFresh DEF Reads
    <2>3. CASE h \in Tasks
      <3>1. pc[h] = "applying" => FromEntry(h, Target(h, Current(h)))
        BY <1>1, <2>3 DEF FromEntry, Target
      <3> QED  BY <2>1, <2>2, <2>3, <3>1, EditedIsFresh DEF Writes
    <2>4. CASE h \notin Tasks
      BY <2>1, <2>2, <2>4, EditedIsFresh DEF Writes, Threads
    <2> QED  BY <2>3, <2>4
  <1> QED  BY <1>3, <1>4

LEMMA Untouched == IInv /\ ArgumentsUntouched /\ [Next]_vars => ArgumentsUntouched'
  <1> SUFFICES ASSUME IInv, ArgumentsUntouched, [Next]_vars,
                      NEW c \in Callers, phase'[c] # "idle",
                      NEW i \in 1 .. Len(batch'[c]), NEW j \in 1 .. Len(batch'[c][i])
               PROVE  heap'[batch'[c][i][j]] = asked'[c][i][j]
    BY DEF ArgumentsUntouched
  <1>0. IInv'
    BY NextPreserves
  <1>1. j \in 1 .. NInputs /\ batch'[c][i] \in [1 .. NInputs -> Buffers]
    <2>1. batch'[c][i] \in [1 .. NInputs -> Buffers]
      BY <1>0 DEF IInv, TypeOK
    <2>2. Len(batch'[c][i]) = NInputs
      BY <2>1, SizesAssumption, FunctionIsSequence
    <2> QED  BY <2>1, <2>2
  <1>2. CASE \E d \in Callers, p \in BOOLEAN : \E bs \in Batches(d, Held(d)) : Call(d, p, bs)
    <2>1. PICK d \in Callers : \E p \in BOOLEAN : \E bs \in Batches(d, Held(d)) : Call(d, p, bs)
      BY <1>2
    <2>2. PICK p \in BOOLEAN : \E bs \in Batches(d, Held(d)) : Call(d, p, bs)
      BY <2>1
    <2>3. PICK bs \in Batches(d, Held(d)) : Call(d, p, bs)
      BY <2>2
    <2>4. CASE d = c
      <3>1. batch'[c] = bs /\ heap' = heap
        BY <2>3, <2>4 DEF Call, IInv, TypeOK
      <3>2. asked'[c] = [x \in 1 .. Len(bs) |-> [y \in 1 .. Len(bs[x]) |-> heap[bs[x][y]]]]
        BY <2>3, <2>4 DEF Call, IInv, TypeOK
      <3> QED  BY <3>1, <3>2
    <2>5. CASE d # c
      <3>1. /\ batch'[c] = batch[c] /\ heap' = heap /\ asked'[c] = asked[c]
            /\ phase'[c] = phase[c]
        BY <2>3, <2>5 DEF Call, IInv, TypeOK
      <3>2. /\ phase[c] # "idle" /\ i \in 1 .. Len(batch[c])
            /\ j \in 1 .. Len(batch[c][i])
        BY <3>1
      <3>3. heap[batch[c][i][j]] = asked[c][i][j]
        BY <3>2 DEF ArgumentsUntouched
      <3> QED  BY <3>1, <3>3
    <2> QED  BY <2>4, <2>5
  <1>3. CASE \E d \in Callers : Take(d)
    <2>1. PICK d \in Callers : Take(d)
      BY <1>3
    <2>2. d # c
      BY <2>1 DEF Take, IInv, TypeOK
    <2>3. /\ batch' = batch /\ heap' = heap /\ asked'[c] = asked[c]
          /\ phase'[c] = phase[c]
      BY <2>1, <2>2 DEF Take, IInv, TypeOK
    <2>4. phase[c] # "idle" /\ i \in 1 .. Len(batch[c]) /\ j \in 1 .. Len(batch[c][i])
      BY <2>3
    <2>5. heap[batch[c][i][j]] = asked[c][i][j]
      BY <2>4 DEF ArgumentsUntouched
    <2> QED  BY <2>3, <2>5
  <1>4. ASSUME UNCHANGED <<batch, asked>>, phase[c] # "idle",
               \A b : Older(c, b) => heap'[b] = heap[b]
        PROVE  heap'[batch'[c][i][j]] = asked'[c][i][j]
    <2>1. Older(c, batch[c][i][j])
      BY <1>1, <1>4 DEF IInv, BatchOlder
    <2> QED  BY <1>4, <2>1 DEF ArgumentsUntouched
  <1>5. CASE \E t \in Tasks : TaskStep(t)
    <2>1. PICK t \in Tasks : TaskStep(t)
      BY <1>5
    <2>2. UNCHANGED <<batch, asked, phase>>
      BY <2>1 DEF TaskStep, Share, Apply, Applied, Refuse, Predicted, callVars
    <2>3. CASE Applied(t)
      <3>1. pc[t] = "applying" /\ Current(t) \in 1 .. Len(Layers)
        BY <2>3, LayersAssumption, SizesAssumption DEF Applied, IInv, TypeOK, TaskOK, Current
      <3>2. \A b : Older(c, b) => b # Target(t, Current(t))
        BY <3>1, TargetIsFresh
      <3>3. \A b : b # Target(t, Current(t)) => heap'[b] = heap[b]
        BY <2>3 DEF Applied
      <3> QED  BY <2>2, <3>2, <3>3, <1>4
    <2>4. CASE ~Applied(t)
      <3>1. heap' = heap
        BY <2>1, <2>4 DEF TaskStep, Share, Apply, Refuse, Predicted
      <3> QED  BY <2>2, <3>1, <1>4
    <2> QED  BY <2>3, <2>4
  <1>6. CASE \E d \in Callers : CallStep(d)
    <2>1. PICK d \in Callers : CallStep(d)
      BY <1>6
    <2>2. UNCHANGED <<batch, asked, heap>>
      BY <2>1 DEF CallStep, Start, StartFails, Collect, CollectError, Unwound, Return
    <2>3. phase[c] # "idle"
      BY <2>1 DEF CallStep, Start, StartFails, Collect, CollectError, Unwound, Return,
                  Running, IInv, TypeOK
    <2> QED  BY <2>2, <2>3, <1>4
  <1>7. CASE \E d \in Callers : EndEdit(d)
    <2>1. PICK d \in Callers : EndEdit(d)
      BY <1>7
    <2>2. UNCHANGED <<batch, asked, phase>> /\ editing[d] # NoBuffer
      BY <2>1 DEF EndEdit, callVars
    <2>3. \A b : b # editing[d] => heap'[b] = heap[b]
      BY <2>1 DEF EndEdit
    <2> QED  BY <2>2, <2>3, <1>4, EditedIsFresh
  <1>8. CASE \E d \in Callers : \E b \in Writable(d) : BeginEdit(d, b)
    BY <1>8, <1>4 DEF BeginEdit, callVars
  <1>9. CASE UNCHANGED vars
    BY <1>9, <1>4 DEF vars
  <1> QED  BY <1>2, <1>3, <1>5, <1>6, <1>7, <1>8, <1>9 DEF Next
-----------------------------------------------------------------------------
LEMMA Inductive == Spec => []IInv
  <1>1. Init => IInv
    BY InitIInv
  <1>2. IInv /\ [Next]_vars => IInv'
    BY NextPreserves
  <1> QED  BY <1>1, <1>2, PTL DEF Spec

(***************************************************************************)
(* Type correctness: every buffer a call, a cache or an answer refers to   *)
(* exists, and every walk has as many results as it has applied layers.    *)
(***************************************************************************)
THEOREM TypeCorrect == Spec => []TypeOK
  <1>1. IInv => TypeOK
    BY DEF IInv
  <1> QED  BY <1>1, Inductive, PTL

(***************************************************************************)
(* Predictions of any number of callers, entries and threads on one model  *)
(* are free of data races, although no lock is taken (model.hpp, predict   *)
(* and predict_multi).                                                     *)
(***************************************************************************)
THEOREM ThreadSafety == Spec => []NoDataRace
  <1> QED  BY NoRace, Inductive, PTL

(***************************************************************************)
(* Predictions leave the tensors they are given as they were, although     *)
(* these are mutable, shared and not copied.                               *)
(***************************************************************************)
THEOREM InputsAreConst == Spec => []ArgumentsUntouched
  <1>1. Init => ArgumentsUntouched
    BY DEF Init, ArgumentsUntouched
  <1>2. IInv /\ ArgumentsUntouched /\ [Next]_vars => ArgumentsUntouched'
    BY Untouched
  <1> QED  BY <1>1, <1>2, Inductive, PTL DEF Spec

(***************************************************************************)
(* What an answer consists of was made by the prediction of its entry or   *)
(* passed for it: answers share no buffers with other calls but these.     *)
(***************************************************************************)
THEOREM AnswersAreOwn == Spec => []ResultsOwned
  <1>1. IInv => ResultsOwned
    <2> SUFFICES ASSUME IInv, NEW c \in Callers, NEW i \in 1 .. Len(results[c]),
                        NEW o \in 1 .. Len(results[c][i])
                 PROVE  \/ \E j \in 1 .. Len(batch[c][i]) : results[c][i][o] = batch[c][i][j]
                        \/ \E l \in 1 .. Len(Layers) :
                             results[c][i][o] = <<c, calls[c], i, l>>
      BY DEF ResultsOwned
    <2>1. i \in 1 .. Len(batch[c])
      BY Counters DEF IInv
    <2>2. Len(results[c][i]) = Len(Outs)
      BY LayersAssumption, FunctionIsSequence DEF IInv, TypeOK
    <2>3. Len(batch[c][i]) = NInputs
      BY <2>1, SizesAssumption, FunctionIsSequence DEF IInv, TypeOK
    <2>4. FromEntry(<<c, i>>, results[c][i][o])
      BY <2>2 DEF IInv, ResultsOfEntry
    <2> QED  BY <2>3, <2>4 DEF FromEntry
  <1> QED  BY <1>1, Inductive, PTL

(***************************************************************************)
(* No thread still refers to the parameters of a call that has returned or *)
(* thrown.                                                                 *)
(***************************************************************************)
THEOREM ThreadsAreJoined == Spec => []NoTaskOutlivesCall
  <1>1. IInv => NoTaskOutlivesCall
    BY DEF IInv, Progress, NoTaskOutlivesCall
  <1> QED  BY <1>1, Inductive, PTL
-----------------------------------------------------------------------------
(***************************************************************************)
(* Numbers is the solution of the equations of the layers.  There is one,  *)
(* because a layer's arguments come before it.                             *)
(***************************************************************************)
NumberAt(ins, f, k) ==
  IF k <= NInputs THEN ins[k]
  ELSE LET l == k - NInputs
           vs == [j \in 1 .. Len(Layers[l].args) |-> f[Layers[l].args[j]]]
       IN IF Layers[l].shares THEN vs[1] ELSE Compute(l, vs)

LEMMA ElementOf ==
  ASSUME NEW S, NEW q \in Seq(S), NEW k \in 1 .. Len(q)
  PROVE  q[k] \in S
  OBVIOUS

LEMMA ArgsBefore ==
  ASSUME NEW l \in 1 .. Len(Layers)
  PROVE  /\ Len(Layers[l].args) \in Nat
         /\ \A j \in 1 .. Len(Layers[l].args) : Layers[l].args[j] \in 1 .. NInputs + l - 1
         /\ Layers[l].shares \in BOOLEAN
         /\ Layers[l].shares => Len(Layers[l].args) = 1
  <1> DEFINE R == [shares : BOOLEAN, args : Seq(Nat)]
  <1>1. Layers \in Seq(R)
    BY LayersAssumption
  <1>2. Layers[l] \in R
    <2> HIDE DEF R
    <2> QED  BY <1>1, ElementOf
  <1> QED  BY <1>2, LayersAssumption

LEMMA NumberAtReadsEarlier ==
  ASSUME NEW ins, NEW k \in 1 .. NInputs + Len(Layers), NEW f, NEW g,
         \A i \in 1 .. k - 1 : f[i] = g[i]
  PROVE  NumberAt(ins, f, k) = NumberAt(ins, g, k)
  <1>1. CASE k <= NInputs
    BY <1>1 DEF NumberAt
  <1>2. CASE ~(k <= NInputs)
    <2> DEFINE l == k - NInputs
    <2>1. l \in 1 .. Len(Layers) /\ k = NInputs + l
      BY <1>2, SizesAssumption, LayersAssumption
    <2> HIDE DEF l
    <2>2. [j \in 1 .. Len(Layers[l].args) |-> f[Layers[l].args[j]]]
            = [j \in 1 .. Len(Layers[l].args) |-> g[Layers[l].args[j]]]
      <3>1. ASSUME NEW j \in 1 .. Len(Layers[l].args)
            PROVE  f[Layers[l].args[j]] = g[Layers[l].args[j]]
        <4>1. Layers[l].args[j] \in 1 .. NInputs + l - 1
          BY <2>1, ArgsBefore
        <4>2. NInputs + l - 1 = k - 1
          BY <2>1, SizesAssumption
        <4> QED  BY <4>1, <4>2
      <3> QED  BY <3>1
    <2> DEFINE V(h) == [j \in 1 .. Len(Layers[l].args) |-> h[Layers[l].args[j]]]
               W(vs) == IF Layers[l].shares THEN vs[1] ELSE Compute(l, vs)
    <2>3. V(f) = V(g)
      BY <2>2
    <2>4. \A h : NumberAt(ins, h, k) = W(V(h))
      BY <1>2 DEF NumberAt, l
    <2> HIDE DEF V, W
    <2> QED  BY <2>3, <2>4
  <1> QED  BY <1>1, <1>2

LEMMA NumbersExist ==
  ASSUME NEW ins
  PROVE  \E f : f = [k \in 1 .. NInputs + Len(Layers) |-> NumberAt(ins, f, k)]
  <1> DEFINE N == NInputs + Len(Layers)
             Solved == {n \in Nat : n <= N =>
                          \E f : f = [k \in 1 .. n |-> NumberAt(ins, f, k)]}
  <1>1. N \in Nat
    BY SizesAssumption, LayersAssumption
  <1>2. 0 \in Solved
    <2>1. << >> = [k \in 1 .. 0 |-> NumberAt(ins, << >>, k)]
      OBVIOUS
    <2> QED  BY <2>1
  <1>3. ASSUME NEW n \in Solved PROVE n + 1 \in Solved
    <2> SUFFICES ASSUME n + 1 <= N
                 PROVE  \E g : g = [k \in 1 .. n + 1 |-> NumberAt(ins, g, k)]
      OBVIOUS
    <2>1. PICK f : f = [k \in 1 .. n |-> NumberAt(ins, f, k)]
      BY <1>1
    <2> DEFINE g == [k \in 1 .. n + 1 |-> NumberAt(ins, f, k)]
    <2>2. ASSUME NEW k \in 1 .. n PROVE f[k] = g[k]
      <3>1. f[k] = NumberAt(ins, f, k)
        BY <2>1
      <3>2. k \in 1 .. n + 1
        OBVIOUS
      <3> QED  BY <3>1, <3>2
    <2>3. ASSUME NEW k \in 1 .. n + 1 PROVE g[k] = NumberAt(ins, g, k)
      <3>1. \A i \in 1 .. k - 1 : f[i] = g[i]
        <4>1. \A i \in 1 .. k - 1 : i \in 1 .. n
          OBVIOUS
        <4> HIDE DEF g
        <4> QED  BY <2>2, <4>1
      <3>2. k \in 1 .. N
        BY <1>1
      <3>3. g[k] = NumberAt(ins, f, k)
        OBVIOUS
      <3> HIDE DEF g
      <3> QED  BY <3>1, <3>2, <3>3, NumberAtReadsEarlier
    <2>4. DOMAIN g = 1 .. n + 1 /\ g = [k \in 1 .. n + 1 |-> g[k]]
      OBVIOUS
    <2> HIDE DEF g
    <2>5. g = [k \in 1 .. n + 1 |-> NumberAt(ins, g, k)]
      BY <2>3, <2>4
    <2> QED  BY <2>5
  <1>4. N \in Solved
    <2> HIDE DEF Solved
    <2> QED  BY <1>1, <1>2, <1>3, Induct
  <1> QED  BY <1>4

LEMMA NumbersSolve ==
  ASSUME NEW ins
  PROVE  \A k \in 1 .. NInputs + Len(Layers) :
           Numbers(ins)[k] = NumberAt(ins, Numbers(ins), k)
  <1> DEFINE IsSolution(f) == f = [k \in 1 .. NInputs + Len(Layers) |-> NumberAt(ins, f, k)]
  <1>1. Numbers(ins) = CHOOSE f : IsSolution(f)
    BY DEF Numbers, NumberAt
  <1>2. \E f : IsSolution(f)
    BY NumbersExist
  <1>3. IsSolution(Numbers(ins))
    <2> HIDE DEF IsSolution
    <2> QED  BY <1>1, <1>2
  <1> QED  BY <1>3
-----------------------------------------------------------------------------
(***************************************************************************)
(* What a prediction has computed is what the equations say of the         *)
(* numbers its call was made with; it was refused where they say, or has   *)
(* not got there yet.                                                      *)
(***************************************************************************)
Entry(t) == asked[t[1]][t[2]]
HasNumbers(t) ==
  \A k \in 1 .. Len(env[t]) : heap[env[t][k]] = Numbers(Entry(t))[k]
MadeBefore(t) ==
  \A k \in 1 .. Len(env[t]) : \A l \in 1 .. Len(Layers) :
    env[t][k] = Target(t, l) => l < Current(t)
FirstRefusal(ins, l) ==
  l \in Refusals(ins) /\ \A m \in Refusals(ins) : l <= m
TaskSound(t) ==
  pc[t] # "none" =>
    /\ HasNumbers(t)
    /\ MadeBefore(t)
    /\ pc[t] = "ready" => \A l \in Refusals(Entry(t)) : l >= Current(t)
    /\ pc[t] = "applying" => /\ ~Layers[Current(t)].shares
                             /\ \A l \in Refusals(Entry(t)) : l > Current(t)
    /\ pc[t] = "done" => Refusals(Entry(t)) = {}
    /\ pc[t] = "threw" =>
         \E l \in 1 .. Len(Layers) + 1 :
           FirstRefusal(Entry(t), l) /\ error[t] = Error(l, ArgNumbers(Entry(t), l))

\* What a call has collected are the predictions of its first entries, all
\* of which ended well; what it throws is what it deserves to.
CallSound(c) ==
  /\ phase[c] # "idle" => Len(asked[c]) = Len(batch[c])
  /\ phase[c] \in {"running", "returned"} =>
       \A i \in 1 .. Len(results[c]) :
         pc[<<c, i>>] = "done" /\ results[c][i] = OutBuffers(<<c, i>>)
  /\ phase[c] = "returned" => Len(results[c]) = Len(batch[c])
  /\ phase[c] \in {"unwinding", "threw"} =>
       \/ parallel[c] /\ failure[c] = NoThread
       \/ Answer(<< >>, failure[c]) = Outcome(asked[c])

Sound ==
  /\ IInv
  /\ ArgumentsUntouched
  /\ DOMAIN error = Tasks
  /\ DOMAIN failure = Callers
  /\ \A t \in Tasks : TaskSound(t)
  /\ \A c \in Callers : CallSound(c)
-----------------------------------------------------------------------------
LEMMA Walk ==
  ASSUME TypeOK, NEW t \in Tasks, pc[t] # "none"
  PROVE  /\ env[t] \in Seq(Buffers)
         /\ Len(env[t]) \in Nat
         /\ Len(env[t]) = NInputs + Current(t) - 1
         /\ Current(t) \in 1 .. Len(Layers) + 1
         /\ pc[t] = "applying" => Current(t) <= Len(Layers)
         /\ pc[t] = "done" => AllApplied(t)
         /\ NInputs \in Nat /\ Len(Layers) \in Nat
         /\ t = <<t[1], t[2]>> /\ t[1] \in Callers /\ t[2] \in 1 .. MaxEntries
  <1>1. TaskOK(t)
    BY DEF TypeOK
  <1>2. env[t] \in Seq(Buffers) /\ Len(env[t]) \in NInputs .. NInputs + Len(Layers)
    BY <1>1 DEF TaskOK
  <1>3. NInputs \in Nat /\ Len(Layers) \in Nat
    BY SizesAssumption, LayersAssumption
  <1> QED  BY <1>1, <1>2, <1>3 DEF TaskOK, Current, Tasks

LEMMA LayerNumbers ==
  ASSUME NEW ins, NEW l \in 1 .. Len(Layers)
  PROVE  Numbers(ins)[NInputs + l] =
           IF Layers[l].shares THEN ArgNumbers(ins, l)[1] ELSE Compute(l, ArgNumbers(ins, l))
  <1>1. /\ NInputs + l \in 1 .. NInputs + Len(Layers)
        /\ ~(NInputs + l <= NInputs) /\ (NInputs + l) - NInputs = l
        /\ l <= Len(Layers)
    BY SizesAssumption, LayersAssumption
  <1>2. Numbers(ins)[NInputs + l] = NumberAt(ins, Numbers(ins), NInputs + l)
    BY <1>1, NumbersSolve
  <1>3. ArgNumbers(ins, l)
          = [j \in 1 .. Len(Layers[l].args) |-> Numbers(ins)[Layers[l].args[j]]]
    BY <1>1 DEF ArgNumbers
  <1> QED  BY <1>1, <1>2, <1>3 DEF NumberAt

LEMMA InputNumbers ==
  ASSUME NEW ins, NEW j \in 1 .. NInputs
  PROVE  Numbers(ins)[j] = ins[j]
  <1>1. j \in 1 .. NInputs + Len(Layers) /\ j <= NInputs
    BY SizesAssumption, LayersAssumption
  <1> QED  BY <1>1, NumbersSolve DEF NumberAt

LEMMA ArgsComputed ==
  ASSUME IInv, NEW t \in Tasks, pc[t] # "none", HasNumbers(t),
         NEW l \in 1 .. Len(Layers), l <= Current(t)
  PROVE  ArgValues(t, l) = ArgNumbers(Entry(t), l)
  <1>1. ASSUME NEW j \in 1 .. Len(Layers[l].args)
        PROVE  heap[ArgBuffers(t, l)[j]] = Numbers(Entry(t))[Layers[l].args[j]]
    BY ArgsInEnv DEF IInv, HasNumbers
  <1>2. l <= Len(Layers)
    BY LayersAssumption
  <1> QED  BY <1>1, <1>2 DEF ArgValues, ArgNumbers

LEMMA OutsComputed ==
  ASSUME IInv, NEW t \in Tasks, pc[t] # "none", HasNumbers(t), AllApplied(t)
  PROVE  /\ OutValues(t) = ArgNumbers(Entry(t), Len(Layers) + 1)
         /\ \A o \in 1 .. Len(Outs) :
              heap[OutBuffers(t)[o]] = Numbers(Entry(t))[Outs[o]]
  <1>1. ASSUME NEW o \in 1 .. Len(Outs)
        PROVE  heap[OutBuffers(t)[o]] = Numbers(Entry(t))[Outs[o]]
    <2>1. Outs[o] \in 1 .. NInputs + Len(Layers)
      <3>1. Outs \in Seq(1 .. NInputs + Len(Layers))
        BY LayersAssumption
      <3> QED  BY <3>1, ElementOf
    <2>2. Len(env[t]) = NInputs + Len(Layers)
      BY Walk DEF IInv, AllApplied
    <2> QED  BY <2>1, <2>2 DEF OutBuffers, HasNumbers
  <1>2. ~(Len(Layers) + 1 <= Len(Layers))
    BY LayersAssumption
  <1> QED  BY <1>1, <1>2 DEF OutValues, ArgNumbers

\* A buffer in the hands of a prediction is written by nobody: it has been
\* filled by a layer before, or is not of this call.
LEMMA HeapKept ==
  ASSUME IInv, [Next]_vars, NEW t \in Tasks, pc[t] # "none", MadeBefore(t),
         NEW k \in 1 .. Len(env[t])
  PROVE  heap'[env[t][k]] = heap[env[t][k]]
  <1>1. FromEntry(t, env[t][k]) /\ env[t][k] \in Buffers
    BY Walk DEF IInv, EnvOwned
  <1>2. CASE \E s \in Tasks : Applied(s)
    <2>1. PICK s \in Tasks : Applied(s)
      BY <1>2
    <2> DEFINE l == Current(s)
    <2>2. pc[s] # "none" /\ l \in 1 .. Len(Layers)
      <3>1. pc[s] = "applying"
        BY <2>1 DEF Applied
      <3> QED  BY <3>1, Walk DEF IInv
    <2>3. env[t][k] # Target(s, l)
      <3>1. CASE s = t
        BY <3>1, <2>2 DEF MadeBefore
      <3>2. CASE s # t
        BY <3>2, <1>1, <2>2, TargetIsFresh
      <3> QED  BY <3>1, <3>2
    <2>4. heap' = [heap EXCEPT ![Target(s, l)] = Compute(l, ArgValues(s, l))]
      BY <2>1 DEF Applied
    <2> QED  BY <2>3, <2>4
  <1>3. CASE \E c \in Callers : EndEdit(c)
    <2>1. PICK c \in Callers : EndEdit(c)
      BY <1>3
    <2>2. editing[c] # NoBuffer /\ heap' = [heap EXCEPT ![editing[c]] = Edited(@)]
      BY <2>1 DEF EndEdit
    <2>3. env[t][k] # editing[c]
      BY <1>1, <2>2, EditedIsFresh
    <2> QED  BY <2>2, <2>3
  <1>4. CASE ~(\E s \in Tasks : Applied(s)) /\ ~(\E c \in Callers : EndEdit(c))
    <2>1. heap' = heap
      <3>1. ASSUME NEW s \in Tasks, TaskStep(s)
            PROVE  heap' = heap
        BY <1>4, <3>1 DEF TaskStep, Share, Apply, Refuse, Predicted
      <3>2. ASSUME NEW c \in Callers, CallStep(c)
            PROVE  heap' = heap
        BY <3>2 DEF CallStep, Start, StartFails, Collect, CollectError, Unwound, Return
      <3>3. ASSUME NEW c \in Callers, NEW p, NEW bs, Call(c, p, bs)
            PROVE  heap' = heap
        BY <3>3 DEF Call
      <3>4. ASSUME NEW c \in Callers, Take(c)
            PROVE  heap' = heap
        BY <3>4 DEF Take
      <3>5. ASSUME NEW c \in Callers, NEW b, BeginEdit(c, b)
            PROVE  heap' = heap
        BY <3>5 DEF BeginEdit
      <3>6. CASE UNCHANGED vars
        BY <3>6 DEF vars
      <3> QED  BY <1>4, <3>1, <3>2, <3>3, <3>4, <3>5, <3>6 DEF Next
    <2> QED  BY <2>1
  <1> QED  BY <1>2, <1>3, <1>4

LEMMA TaskKept ==
  ASSUME IInv, [Next]_vars, NEW t \in Tasks, TaskSound(t),
         pc'[t] = pc[t], env'[t] = env[t], error'[t] = error[t],
         pc[t] # "none" => asked'[t[1]] = asked[t[1]] /\ calls'[t[1]] = calls[t[1]]
  PROVE  TaskSound(t)'
  <1> SUFFICES ASSUME pc[t] # "none" PROVE TaskSound(t)'
    BY DEF TaskSound
  <1>1. Entry(t)' = Entry(t) /\ Current(t)' = Current(t)
    BY DEF Entry, Current
  <1>2. HasNumbers(t)'
    BY <1>1, HeapKept DEF TaskSound, HasNumbers
  <1>3. MadeBefore(t)'
    BY <1>1 DEF TaskSound, MadeBefore, Target
  <1> QED  BY <1>1, <1>2, <1>3 DEF TaskSound
-----------------------------------------------------------------------------
LEMMA LayerAppended ==
  ASSUME IInv, [Next]_vars, NEW t \in Tasks, pc[t] # "none", TaskSound(t),
         UNCHANGED <<asked, calls>>, pc'[t] = "ready",
         NEW l, l = Current(t), l \in 1 .. Len(Layers),
         NEW b, env'[t] = Append(env[t], b),
         heap'[b] = Numbers(Entry(t))[NInputs + l],
         \A m \in 1 .. Len(Layers) : b = Target(t, m) => m <= l,
         \A m \in Refusals(Entry(t)) : m > l
  PROVE  TaskSound(t)'
  <1>1. /\ Len(env[t]) \in Nat /\ Len(env[t]) = NInputs + l - 1
        /\ NInputs \in Nat /\ Len(Layers) \in Nat
        /\ env[t] \in Seq(Buffers)
    BY Walk DEF IInv
  <1>2. /\ Len(env'[t]) = Len(env[t]) + 1
        /\ \A k \in 1 .. Len(env[t]) : env'[t][k] = env[t][k]
        /\ env'[t][Len(env[t]) + 1] = b
    <2>1. env[t] \in Seq(Buffers \cup {b})
      <3> DEFINE S == Buffers
      <3> HIDE DEF S
      <3>1. env[t] \in Seq(S)
        BY <1>1 DEF S
      <3>2. env[t] \in Seq(S \cup {b})
        BY <3>1
      <3> QED  BY <3>2 DEF S
    <2> DEFINE S == Buffers \cup {b}
    <2>2. env[t] \in Seq(S) /\ b \in S
      BY <2>1
    <2> HIDE DEF S
    <2> QED  BY <2>2
  <1>3. Entry(t)' = Entry(t)
    BY DEF Entry
  <1>4. Current(t)' = l + 1
    BY <1>1, <1>2 DEF Current
  <1>5. ASSUME NEW k \in 1 .. Len(env'[t])
        PROVE  /\ heap'[env'[t][k]] = Numbers(Entry(t))[k]
               /\ \A m \in 1 .. Len(Layers) : env'[t][k] = Target(t, m) => m < l + 1
    <2>1. CASE k \in 1 .. Len(env[t])
      <3>1. heap'[env[t][k]] = Numbers(Entry(t))[k]
        BY <2>1, HeapKept DEF TaskSound, HasNumbers
      <3>2. \A m \in 1 .. Len(Layers) : env[t][k] = Target(t, m) => m < l
        BY <2>1 DEF TaskSound, MadeBefore
      <3>3. \A m \in 1 .. Len(Layers) : m < l => m < l + 1
        BY <1>1
      <3> QED  BY <3>1, <3>2, <3>3, <2>1, <1>2
    <2>2. CASE k = Len(env[t]) + 1
      <3>1. env'[t][k] = b /\ k = NInputs + l
        BY <2>2, <1>1, <1>2
      <3>2. \A m \in 1 .. Len(Layers) : m <= l => m < l + 1
        BY <1>1
      <3> QED  BY <3>1, <3>2
    <2>3. k \in 1 .. Len(env[t]) \/ k = Len(env[t]) + 1
      <3> DEFINE n == Len(env[t])
      <3>1. n \in Nat /\ k \in 1 .. n + 1
        BY <1>1, <1>2
      <3> HIDE DEF n
      <3>2. k \in 1 .. n \/ k = n + 1
        BY <3>1
      <3> QED  BY <3>2 DEF n
    <2> QED  BY ONLY <2>1, <2>2, <2>3
  <1>6. HasNumbers(t)'
    BY <1>3, <1>5 DEF HasNumbers
  <1>7. MadeBefore(t)'
    BY <1>4, <1>5 DEF MadeBefore, Target
  <1>8. \A m \in Refusals(Entry(t)) : m >= l + 1
    <2>1. Refusals(Entry(t)) \subseteq Nat /\ l \in Nat
      BY <1>1 DEF Refusals
    <2> QED  BY <2>1
  <1> QED  BY <1>3, <1>4, <1>6, <1>7, <1>8 DEF TaskSound

LEMMA ShareSound ==
  ASSUME IInv, [Next]_vars, NEW t \in Tasks, TaskSound(t), Share(t)
  PROVE  TaskSound(t)'
  <1> DEFINE l == Current(t)
             b == ArgBuffers(t, l)[1]
  <1>1. /\ pc[t] = "ready" /\ Layers[l].shares /\ l \in 1 .. Len(Layers)
        /\ env' = [env EXCEPT ![t] = Append(@, b)]
        /\ UNCHANGED <<heap, asked, calls, pc>>
    BY Walk DEF Share, Keep, callVars, IInv
  <1>2. env'[t] = Append(env[t], b)
    BY <1>1 DEF IInv, TypeOK
  <1>3. 1 \in 1 .. Len(Layers[l].args)
    <2>1. Len(Layers[l].args) = 1
      BY <1>1, ArgsBefore
    <2> QED  BY <2>1
  <1>4. Layers[l].args[1] \in 1 .. Len(env[t]) /\ b = env[t][Layers[l].args[1]]
    <2>1. TypeOK /\ pc[t] # "none"
      BY <1>1 DEF IInv
    <2>2. Current(t) \in 1 .. Len(Layers) + 1 /\ Len(Layers) \in Nat
      BY <2>1, Walk
    <2>3. l <= Current(t)
      BY <2>2
    <2> QED  BY <1>1, <1>3, <2>1, <2>3, ArgsInEnv
  <1>5. heap'[b] = Numbers(Entry(t))[NInputs + l]
    <2>1. Numbers(Entry(t))[NInputs + l] = ArgNumbers(Entry(t), l)[1]
      BY <1>1, LayerNumbers
    <2>2. ArgNumbers(Entry(t), l)[1] = heap[b]
      <3>1. ArgValues(t, l) = ArgNumbers(Entry(t), l)
        BY <1>1, ArgsComputed, Walk DEF TaskSound, IInv
      <3>2. ArgValues(t, l)[1] = heap[b]
        BY <1>3 DEF ArgValues
      <3> QED  BY <3>1, <3>2
    <2>3. heap'[b] = heap[b]
      BY <1>1
    <2> HIDE DEF l, b
    <2> QED  BY ONLY <2>1, <2>2, <2>3
  <1>6. \A m \in 1 .. Len(Layers) : b = Target(t, m) => m <= l
    <2>1. \A m \in 1 .. Len(Layers) : b = Target(t, m) => m < l
      BY <1>1, <1>4 DEF TaskSound, MadeBefore
    <2>2. l \in Nat /\ Len(Layers) \in Nat
      BY <1>1, LayersAssumption
    <2> QED  BY <2>1, <2>2
  <1>7. \A m \in Refusals(Entry(t)) : m > l
    <2>1. \A m \in Refusals(Entry(t)) : m >= l
      BY <1>1 DEF TaskSound
    <2>2. l \notin Refusals(Entry(t))
      BY <1>1 DEF Refusals
    <2>3. Refusals(Entry(t)) \subseteq Nat /\ l \in Nat
      BY <1>1, LayersAssumption DEF Refusals
    <2> QED  BY <2>1, <2>2, <2>3
  <1> HIDE DEF l, b
  <1> QED  BY <1>1, <1>2, <1>5, <1>6, <1>7, LayerAppended DEF l

LEMMA AppliedSound ==
  ASSUME IInv, [Next]_vars, NEW t \in Tasks, TaskSound(t), Applied(t)
  PROVE  TaskSound(t)'
  <1> DEFINE l == Current(t)
             b == Target(t, l)
  <1>1. /\ pc[t] = "applying" /\ l \in 1 .. Len(Layers) /\ ~Layers[l].shares
        /\ env' = [env EXCEPT ![t] = Append(@, b)]
        /\ heap' = [heap EXCEPT ![b] = Compute(l, ArgValues(t, l))]
        /\ pc' = [pc EXCEPT ![t] = "ready"]
        /\ UNCHANGED <<asked, calls>>
    BY Walk DEF Applied, Keep, callVars, IInv, TaskSound
  <1>2. env'[t] = Append(env[t], b) /\ pc'[t] = "ready"
    BY <1>1 DEF IInv, TypeOK
  <1>3. heap'[b] = Numbers(Entry(t))[NInputs + l]
    <2>1. b \in DOMAIN heap
      BY <1>1, TargetMade DEF IInv, TypeOK
    <2>2. heap'[b] = Compute(l, ArgValues(t, l))
      BY <1>1, <2>1
    <2>3. ArgValues(t, l) = ArgNumbers(Entry(t), l)
      BY <1>1, ArgsComputed, Walk DEF TaskSound, IInv
    <2> QED  BY <1>1, <2>2, <2>3, LayerNumbers
  <1>4. \A m \in 1 .. Len(Layers) : b = Target(t, m) => m <= l
    <2>1. \A m \in 1 .. Len(Layers) : b = Target(t, m) => m = l
      BY DEF Target
    <2> QED  BY <1>1, <2>1, LayersAssumption
  <1>5. \A m \in Refusals(Entry(t)) : m > l
    BY <1>1 DEF TaskSound
  <1> HIDE DEF l, b
  <1> QED  BY <1>1, <1>2, <1>3, <1>4, <1>5, LayerAppended DEF l

LEMMA RestSound ==
  ASSUME IInv, [Next]_vars, NEW t \in Tasks, TaskSound(t), DOMAIN error = Tasks,
         Apply(t) \/ Refuse(t) \/ Predicted(t)
  PROVE  TaskSound(t)'
  <1> DEFINE l == Current(t)
             R == Refusals(Entry(t))
  <1>1. pc[t] = "ready" /\ UNCHANGED <<asked, calls, env, heap>>
    BY DEF Apply, Refuse, Predicted, callVars
  <1>2. /\ Entry(t)' = Entry(t) /\ Current(t)' = l /\ HasNumbers(t)' /\ MadeBefore(t)'
        /\ HasNumbers(t)
    BY <1>1 DEF Entry, Current, TaskSound, HasNumbers, MadeBefore, Target
  <1>3. /\ l \in 1 .. Len(Layers) + 1 /\ Len(Layers) \in Nat
        /\ R \subseteq 1 .. Len(Layers) + 1
        /\ \A m \in R : m >= l
    BY <1>1, Walk DEF Refusals, TaskSound, IInv
  <1>4. l \in R <=> /\ l <= Len(Layers) => ~Layers[l].shares
                    /\ Refuses(l, ArgNumbers(Entry(t), l))
    BY <1>3 DEF Refusals
  <1>5. ArgNumbers(Entry(t), l) = IF l <= Len(Layers) THEN ArgValues(t, l) ELSE OutValues(t)
    <2>1. CASE l <= Len(Layers)
      BY <2>1, <1>1, <1>2, <1>3, ArgsComputed
    <2>2. CASE ~(l <= Len(Layers))
      BY <2>2, <1>1, <1>2, <1>3, OutsComputed DEF AllApplied
    <2> QED  BY <2>1, <2>2
  <1>6. CASE Apply(t)
    <2>1. pc'[t] = "applying" /\ l <= Len(Layers) /\ ~Layers[l].shares /\ l \notin R
      BY <1>6, <1>4, <1>5 DEF Apply, IInv, TypeOK
    <2>2. \A m \in R : m > l
      <3> HIDE DEF l, R
      <3> QED  BY <2>1, <1>3
    <2> QED  BY <2>1, <2>2, <1>2 DEF TaskSound
  <1>7. CASE Refuse(t)
    <2>1. pc'[t] = "threw" /\ l \in R
      BY <1>7, <1>4, <1>5 DEF Refuse, IInv, TypeOK
    <2>2. error'[t] = Error(l, ArgNumbers(Entry(t), l))
      BY <1>7, <1>5 DEF Refuse, IInv, TypeOK
    <2>3. FirstRefusal(Entry(t), l)
      BY <2>1, <1>3 DEF FirstRefusal
    <2> QED  BY <2>1, <2>2, <2>3, <1>2, <1>3 DEF TaskSound
  <1>8. CASE Predicted(t)
    <2>1. pc'[t] = "done" /\ l = Len(Layers) + 1 /\ l \notin R
      <3>1. l = Len(Layers) + 1
        BY <1>8 DEF Predicted, AllApplied
      <3> QED  BY <1>8, <1>3, <1>4, <1>5, <3>1 DEF Predicted, IInv, TypeOK
    <2>2. R = {}
      <3> HIDE DEF l, R
      <3> QED  BY <2>1, <1>3
    <2> QED  BY <2>1, <2>2, <1>2 DEF TaskSound
  <1> QED  BY <1>6, <1>7, <1>8

LEMMA StartSound ==
  ASSUME IInv, ArgumentsUntouched, NEW c \in Callers, Start(c), NEW t \in Tasks,
         t = <<c, started[c] + 1>>
  PROVE  TaskSound(t)'
  <1> DEFINE i == started[c] + 1
  <1>1. /\ phase[c] = "running" /\ i \in 1 .. Len(batch[c])
        /\ pc' = [pc EXCEPT ![t] = "ready"]
        /\ env' = [env EXCEPT ![t] = batch[c][i]]
        /\ UNCHANGED <<heap, batch, asked, calls>>
    <2>1. started[c] \in Nat /\ Len(batch[c]) \in Nat
      BY Counters DEF IInv
    <2> QED  BY <2>1 DEF Start, Running, EntryOf
  <1>2. pc'[t] = "ready" /\ env'[t] = batch[c][i]
    BY <1>1 DEF IInv, TypeOK
  <1>3. batch[c][i] \in [1 .. NInputs -> Buffers] /\ Len(batch[c][i]) = NInputs
    <2>1. batch[c] \in Seq([1 .. NInputs -> Buffers])
      BY DEF IInv, TypeOK
    <2>2. batch[c][i] \in [1 .. NInputs -> Buffers]
      BY <1>1, <2>1, ElementOf
    <2> QED  BY <2>2, FunctionIsSequence, SizesAssumption
  <1>4. Entry(t)' = asked[c][i] /\ t[1] = c /\ t[2] = i
    BY <1>1 DEF Entry
  <1>5. Current(t)' = 1
    BY <1>2, <1>3, SizesAssumption DEF Current
  <1>6. ASSUME NEW k \in 1 .. Len(env'[t])
        PROVE  /\ heap'[env'[t][k]] = Numbers(asked[c][i])[k]
               /\ \A l \in 1 .. Len(Layers) : env'[t][k] # Target(t, l)'
    <2>1. k \in 1 .. NInputs /\ k \in 1 .. Len(batch[c][i])
      BY <1>2, <1>3
    <2>2. heap[batch[c][i][k]] = asked[c][i][k]
      BY <1>1, <2>1 DEF ArgumentsUntouched
    <2>3. asked[c][i][k] = Numbers(asked[c][i])[k]
      BY <2>1, InputNumbers
    <2>4. Older(c, batch[c][i][k])
      BY <1>1, <2>1 DEF IInv, BatchOlder
    <2>5. ASSUME NEW l \in 1 .. Len(Layers) PROVE batch[c][i][k] # Target(t, l)'
      <3>1. Target(t, l)' = <<c, calls[c], i, l>>
        BY <1>1, <1>4 DEF Target
      <3>2. <<c, calls[c], i, l>> \in Made
        <4>1. calls[c] \in 1 .. MaxCalls(c)
          BY <1>1, SizesAssumption DEF IInv, CallsNumbered, TypeOK
        <4>2. i \in 1 .. MaxEntries
          BY <1>4 DEF Tasks
        <4> QED  BY <4>1, <4>2 DEF Made
      <3>3. calls[c] \notin 1 .. calls[c] - 1
        BY Counters DEF IInv
      <3>4. <<c, calls[c], i, l>> \notin Given
        BY <3>2, SizesAssumption
      <3>5. \A n, j, m : n \in 1 .. calls[c] - 1 => <<c, n, j, m>> # <<c, calls[c], i, l>>
        BY <3>3
      <3> QED  BY <2>4, <3>1, <3>4, <3>5 DEF Older
    <2>6. env'[t][k] = batch[c][i][k] /\ heap' = heap
      BY <1>1, <1>2
    <2> QED  BY <2>2, <2>3, <2>5, <2>6
  <1>7. HasNumbers(t)'
    BY <1>4, <1>6 DEF HasNumbers
  <1>8. MadeBefore(t)'
    BY <1>6 DEF MadeBefore
  <1>9. \A m \in Refusals(asked[c][i]) : m >= 1
    BY DEF Refusals
  <1> QED  BY <1>2, <1>4, <1>5, <1>7, <1>8, <1>9 DEF TaskSound

\* No task of c is under way when c calls, and none of another caller is
\* affected.
LEMMA TasksSound ==
  ASSUME Sound, [Next]_vars, NEW t \in Tasks
  PROVE  TaskSound(t)'
  <1>1. IInv /\ ArgumentsUntouched /\ TaskSound(t) /\ DOMAIN error = Tasks
    BY DEF Sound
  <1>2. DOMAIN pc = Tasks /\ DOMAIN env = Tasks /\ DOMAIN asked = Callers /\ calls \in [Callers -> Nat]
    BY <1>1 DEF IInv, TypeOK
  <1>3. CASE \E s \in Tasks : TaskStep(s)
    <2>1. PICK s \in Tasks : TaskStep(s)
      BY <1>3
    <2>2. CASE s = t
      BY <2>1, <2>2, <1>1, ShareSound, AppliedSound, RestSound DEF TaskStep
    <2>3. CASE s # t
      <3>1. pc'[t] = pc[t] /\ env'[t] = env[t] /\ error'[t] = error[t]
            /\ UNCHANGED <<asked, calls>>
        <4>1. CASE Share(s) \/ Applied(s)
          BY <1>2, <2>3, <4>1 DEF Share, Applied, Keep, callVars
        <4>2. CASE Apply(s) \/ Refuse(s) \/ Predicted(s)
          BY <1>1, <1>2, <2>3, <4>2 DEF Apply, Refuse, Predicted, callVars
        <4> QED  BY <2>1, <4>1, <4>2 DEF TaskStep
      <3> QED  BY <1>1, <3>1, TaskKept
    <2> QED  BY <2>2, <2>3
  <1>4. CASE \E c \in Callers, p \in BOOLEAN : \E bs \in Batches(c, Held(c)) : Call(c, p, bs)
    <2>1. PICK c \in Callers : \E p \in BOOLEAN : \E bs \in Batches(c, Held(c)) : Call(c, p, bs)
      BY <1>4
    <2>2. /\ phase[c] = "idle" /\ UNCHANGED <<pc, env, error>>
          /\ \A d \in Callers : d # c => asked'[d] = asked[d] /\ calls'[d] = calls[d]
      BY <2>1, <1>2 DEF Call, taskVars
    <2>3. pc[t] # "none" => t[1] # c /\ t[1] \in Callers
      BY <1>1, <2>2 DEF IInv, Progress, Tasks
    <2> QED  BY <1>1, <2>2, <2>3, TaskKept
  <1>5. CASE \E c \in Callers : CallStep(c)
    <2>1. PICK c \in Callers : CallStep(c)
      BY <1>5
    <2>2. UNCHANGED <<asked, calls>>
      BY <2>1 DEF CallStep, Start, StartFails, Collect, CollectError, Unwound, Return
    <2>3. CASE Start(c) /\ t = <<c, started[c] + 1>>
      BY <1>1, <2>3, StartSound
    <2>4. CASE Start(c) /\ t # <<c, started[c] + 1>>
      <3>1. pc'[t] = pc[t] /\ env'[t] = env[t] /\ error'[t] = error[t]
        BY <2>4 DEF Start
      <3> QED  BY <1>1, <2>2, <3>1, TaskKept
    <2>5. CASE ~Start(c)
      <3>1. UNCHANGED <<pc, env, error>>
        BY <2>1, <2>5 DEF CallStep, StartFails, Collect, CollectError, Unwound, Return, taskVars
      <3> QED  BY <1>1, <2>2, <3>1, TaskKept
    <2> QED  BY <2>3, <2>4, <2>5
  <1>6. CASE \E c \in Callers : Take(c)
    <2>1. PICK c \in Callers : Take(c)
      BY <1>6
    <2>2. CASE t[1] = c
      <3>1. pc'[t] = "none"
        BY <2>1, <2>2 DEF Take
      <3> QED  BY <3>1 DEF TaskSound
    <2>3. CASE t[1] # c
      <3>1. pc'[t] = pc[t] /\ env'[t] = env[t] /\ error'[t] = error[t]
            /\ asked'[t[1]] = asked[t[1]] /\ calls' = calls
        BY <2>1, <2>3 DEF Take
      <3> QED  BY <1>1, <3>1, TaskKept
    <2> QED  BY <2>2, <2>3
  <1>7. CASE \E c \in Callers : EndEdit(c) \/ \E b \in Writable(c) : BeginEdit(c, b)
    <2>1. UNCHANGED <<asked, calls, pc, env, error>>
      BY <1>7 DEF EndEdit, BeginEdit, callVars, taskVars
    <2> QED  BY <1>1, <2>1, TaskKept
  <1>8. CASE UNCHANGED vars
    BY <1>1, <1>8, TaskKept DEF vars
  <1> QED  BY <1>3, <1>4, <1>5, <1>6, <1>7, <1>8 DEF Next
-----------------------------------------------------------------------------
LEMMA CallSoundKept ==
  ASSUME NEW c \in Callers, CallSound(c),
         phase[c] # "idle" => asked'[c] = asked[c],
         batch'[c] = batch[c], phase'[c] = phase[c], results'[c] = results[c],
         failure'[c] = failure[c], parallel'[c] = parallel[c],
         \A i \in 1 .. Len(results[c]) :
           pc[<<c, i>>] = "done" =>
             pc'[<<c, i>>] = "done" /\ env'[<<c, i>>] = env[<<c, i>>]
  PROVE  CallSound(c)'
  <1>1. phase[c] # "idle" => Len(asked'[c]) = Len(batch'[c])
    BY DEF CallSound
  <1>2. ASSUME phase[c] \in {"running", "returned"}, NEW i \in 1 .. Len(results[c])
        PROVE  pc'[<<c, i>>] = "done" /\ results'[c][i] = OutBuffers(<<c, i>>)'
    <2>1. pc[<<c, i>>] = "done" /\ results[c][i] = OutBuffers(<<c, i>>)
      BY <1>2 DEF CallSound
    <2>2. OutBuffers(<<c, i>>)' = OutBuffers(<<c, i>>)
      BY <2>1 DEF OutBuffers
    <2> QED  BY <2>1, <2>2
  <1>3. phase[c] = "returned" => Len(results'[c]) = Len(batch'[c])
    BY DEF CallSound
  <1>4. phase[c] \in {"unwinding", "threw"} =>
          \/ parallel'[c] /\ failure'[c] = NoThread
          \/ Answer(<< >>, failure'[c]) = Outcome(asked'[c])
    BY DEF CallSound
  <1> QED  BY <1>1, <1>2, <1>3, <1>4 DEF CallSound

\* The entries whose predictions a call has collected are not refused.
LEMMA CollectedFine ==
  ASSUME Sound, NEW c \in Callers, phase[c] \in {"running", "returned"},
         NEW i \in 1 .. Len(results[c])
  PROVE  /\ <<c, i>> \in Tasks
         /\ pc[<<c, i>>] = "done"
         /\ Refusals(asked[c][i]) = {}
         /\ results[c][i] = OutBuffers(<<c, i>>)
         /\ i \in 1 .. Len(asked[c])
  <1>1. i \in 1 .. MaxEntries /\ i \in 1 .. Len(batch[c])
    BY Counters DEF Sound, IInv
  <1>2. pc[<<c, i>>] = "done" /\ results[c][i] = OutBuffers(<<c, i>>) /\ Len(asked[c]) = Len(batch[c])
    BY DEF Sound, CallSound
  <1>3. <<c, i>> \in Tasks
    BY <1>1 DEF Tasks
  <1>4. Refusals(Entry(<<c, i>>)) = {}
    BY <1>2, <1>3 DEF Sound, TaskSound
  <1> QED  BY <1>1, <1>2, <1>3, <1>4 DEF Entry

LEMMA LeastIs ==
  ASSUME NEW S \in SUBSET Nat, NEW x \in S, \A y \in S : x <= y
  PROVE  Least(S) = x
  <1>1. \A z \in S : (\A y \in S : z <= y) => z = x
    OBVIOUS
  <1> QED  BY <1>1 DEF Least

LEMMA FailureDeserved ==
  ASSUME Sound, NEW c \in Callers, CollectError(c)
  PROVE  Answer(<< >>, failure'[c]) = Outcome(asked[c])
  <1> DEFINE i == Len(results[c]) + 1
             t == <<c, i>>
             refused == {j \in 1 .. Len(asked[c]) : Refusals(asked[c][j]) # {}}
  <1>1. /\ phase[c] = "running" /\ Len(results[c]) < started[c] /\ pc[t] = "threw"
        /\ failure'[c] = error[t]
    BY DEF CollectError, NextInOrder, Running, Sound
  <1>2. i \in 1 .. Len(asked[c]) /\ t \in Tasks /\ i \in Nat /\ Len(results[c]) \in Nat
    <2>1. /\ Len(asked[c]) = Len(batch[c]) /\ Len(batch[c]) \in Nat
          /\ started[c] \in 0 .. MaxEntries /\ Len(results[c]) \in Nat
          /\ started[c] <= Len(batch[c])
      BY <1>1, Counters DEF Sound, CallSound, IInv
    <2>2. i \in 1 .. MaxEntries /\ i \in 1 .. Len(asked[c])
      BY <1>1, <2>1, SizesAssumption
    <2> QED  BY <2>1, <2>2 DEF Tasks
  <1>3. PICK l \in 1 .. Len(Layers) + 1 :
          FirstRefusal(asked[c][i], l) /\ error[t] = Error(l, ArgNumbers(asked[c][i], l))
    <2>1. Entry(t) = asked[c][i]
      BY DEF Entry
    <2> HIDE DEF t
    <2> QED  BY <1>1, <1>2, <2>1 DEF Sound, TaskSound
  <1>4. Least(Refusals(asked[c][i])) = l
    <2>1. Refusals(asked[c][i]) \subseteq Nat
      BY LayersAssumption DEF Refusals
    <2> QED  BY <1>3, <2>1, LeastIs DEF FirstRefusal
  <1>5. i \in refused /\ refused # {}
    BY <1>2, <1>3 DEF FirstRefusal
  <1>6. \A j \in refused : i <= j
    <2> SUFFICES ASSUME NEW j \in refused, ~(i <= j) PROVE FALSE
      OBVIOUS
    <2>1. j \in 1 .. Len(results[c])
      BY <1>2
    <2>2. Refusals(asked[c][j]) = {}
      BY <1>1, <2>1, CollectedFine
    <2> QED  BY <2>2
  <1>7. Least(refused) = i
    <2>1. refused \subseteq Nat
      OBVIOUS
    <2> HIDE DEF refused, i
    <2> QED  BY <2>1, <1>5, <1>6, LeastIs
  <1>8. Outcome(asked[c]) = Answer(<< >>, Error(Least(Refusals(asked[c][Least(refused)])),
                              ArgNumbers(asked[c][Least(refused)],
                                         Least(Refusals(asked[c][Least(refused)])))))
    BY <1>5 DEF Outcome
  <1> HIDE DEF refused, i
  <1> QED  BY <1>1, <1>3, <1>4, <1>7, <1>8

LEMMA CallStepSound ==
  ASSUME Sound, [Next]_vars, NEW c \in Callers, CallStep(c)
  PROVE  CallSound(c)'
  <1>1. /\ IInv /\ CallSound(c) /\ UNCHANGED <<asked, batch, parallel>>
        /\ phase \in [Callers -> {"idle", "running", "unwinding", "returned", "threw"}]
        /\ results \in [Callers -> Seq([1 .. Len(Outs) -> Buffers])]
        /\ DOMAIN failure = Callers
    BY DEF Sound, IInv, TypeOK, CallStep, Start, StartFails, Collect, CollectError, Unwound, Return
  <1>2. CASE Start(c)
    <2>1. UNCHANGED <<phase, results, failure>>
      BY <1>2 DEF Start
    <2>2. ASSUME NEW i \in 1 .. Len(results[c])
          PROVE  <<c, i>> # <<c, started[c] + 1>>
      BY <1>1, Counters DEF IInv
    <2>3. \A i \in 1 .. Len(results[c]) :
            pc'[<<c, i>>] = pc[<<c, i>>] /\ env'[<<c, i>>] = env[<<c, i>>]
      <3> SUFFICES ASSUME NEW i \in 1 .. Len(results[c])
                   PROVE  pc'[<<c, i>>] = pc[<<c, i>>] /\ env'[<<c, i>>] = env[<<c, i>>]
        OBVIOUS
      <3>1. i \in 1 .. MaxEntries
        BY <1>1, Counters DEF IInv
      <3>2. <<c, i>> \in Tasks
        BY <3>1 DEF Tasks
      <3> DEFINE t == <<c, i>>
                 s == <<c, started[c] + 1>>
      <3>3. t # s /\ t \in DOMAIN pc /\ t \in DOMAIN env
        BY <1>1, <2>2, <3>2 DEF IInv, TypeOK
      <3>4. pc' = [pc EXCEPT ![s] = "ready"] /\ \E b : env' = [env EXCEPT ![s] = b]
        BY <1>2 DEF Start
      <3> HIDE DEF s, t
      <3>5. pc'[t] = pc[t] /\ env'[t] = env[t]
        BY <3>3, <3>4
      <3> QED  BY <3>5 DEF t
    <2> QED  BY <1>1, <2>1, <2>3, CallSoundKept
  <1>3. CASE StartFails(c)
    <2>1. phase'[c] = "unwinding" /\ failure'[c] = NoThread /\ parallel[c] /\ phase[c] = "running"
      BY <1>1, <1>3 DEF StartFails, Running
    <2> QED  BY <1>1, <2>1 DEF CallSound
  <1>4. CASE Collect(c)
    <2> DEFINE n == Len(results[c])
               t == <<c, n + 1>>
    <2>1. /\ phase[c] = "running" /\ pc[t] = "done" /\ UNCHANGED <<phase, failure, pc, env>>
          /\ results' = [results EXCEPT ![c] = Append(@, OutBuffers(t))]
      BY <1>4 DEF Collect, NextInOrder, Running, taskVars
    <2>2. results'[c] = Append(results[c], OutBuffers(t)) /\ n \in Nat
      BY <1>1, <2>1
    <2>3. /\ Len(results'[c]) = n + 1
          /\ \A i \in 1 .. n : results'[c][i] = results[c][i]
          /\ results'[c][n + 1] = OutBuffers(t)
      <3> DEFINE S == [1 .. Len(Outs) -> Buffers] \cup {OutBuffers(t)}
                 q == results[c]
                 x == OutBuffers(t)
      <3>1. q \in Seq([1 .. Len(Outs) -> Buffers])
        BY <1>1
      <3>2. \A U, V, r : r \in Seq(U) => r \in Seq(U \cup V)
        OBVIOUS
      <3>3. q \in Seq(S) /\ x \in S
        BY <3>1, <3>2
      <3>4. results'[c] = Append(q, x)
        BY <2>2
      <3> HIDE DEF S, q, x
      <3>5. Len(Append(q, x)) = Len(q) + 1 /\ (\A i \in 1 .. Len(q) : Append(q, x)[i] = q[i])
            /\ Append(q, x)[Len(q) + 1] = x
        BY <3>3
      <3> QED  BY <3>4, <3>5 DEF q, x
    <2>4. ASSUME NEW i \in 1 .. Len(results'[c])
          PROVE  pc'[<<c, i>>] = "done" /\ results'[c][i] = OutBuffers(<<c, i>>)'
      <3>1. OutBuffers(<<c, i>>)' = OutBuffers(<<c, i>>)
        BY <2>1 DEF OutBuffers
      <3>2. CASE i \in 1 .. n
        BY <3>1, <3>2, <1>1, <2>1, <2>3 DEF CallSound
      <3>3. CASE i = n + 1
        BY <3>1, <3>3, <2>1, <2>3
      <3> QED  BY <3>2, <3>3, <2>2, <2>3
    <2> QED  BY <1>1, <2>1, <2>4 DEF CallSound
  <1>5. CASE CollectError(c)
    <2>1. phase'[c] = "unwinding" /\ phase[c] = "running"
      BY <1>1, <1>5 DEF CollectError, Running
    <2>2. Answer(<< >>, failure'[c]) = Outcome(asked[c])
      BY <1>5, FailureDeserved
    <2>3. Answer(<< >>, failure'[c]) = Outcome(asked'[c])
      BY <1>1, <2>2
    <2> QED  BY <1>1, <2>1, <2>3 DEF CallSound
  <1>6. CASE Unwound(c)
    <2>1. phase'[c] = "threw" /\ phase[c] = "unwinding" /\ UNCHANGED failure
      BY <1>1, <1>6 DEF Unwound
    <2> QED  BY <1>1, <2>1 DEF CallSound
  <1>7. CASE Return(c)
    <2>1. /\ phase'[c] = "returned" /\ phase[c] = "running"
          /\ Len(results[c]) = Len(batch[c])
          /\ UNCHANGED <<pc, env, results>>
      BY <1>1, <1>7 DEF Return, Running, taskVars
    <2> QED  BY <1>1, <2>1 DEF CallSound, OutBuffers
  <1> QED  BY <1>2, <1>3, <1>4, <1>5, <1>6, <1>7 DEF CallStep

LEMMA CallsSound ==
  ASSUME Sound, [Next]_vars, NEW c \in Callers
  PROVE  CallSound(c)'
  <1>1. IInv /\ CallSound(c) /\ DOMAIN failure = Callers /\ DOMAIN asked = Callers
        /\ phase \in [Callers -> {"idle", "running", "unwinding", "returned", "threw"}]
        /\ results \in [Callers -> Seq([1 .. Len(Outs) -> Buffers])]
        /\ batch \in [Callers -> Seq([1 .. NInputs -> Buffers])]
        /\ parallel \in [Callers -> BOOLEAN]
        /\ DOMAIN pc = Tasks /\ DOMAIN env = Tasks
    BY DEF Sound, IInv, TypeOK
  <1>2. \A i \in 1 .. Len(results[c]) : <<c, i>> \in Tasks
    BY <1>1, Counters DEF Tasks, IInv
  <1>3. CASE \E s \in Tasks : TaskStep(s)
    <2>1. PICK s \in Tasks : TaskStep(s)
      BY <1>3
    <2>2. UNCHANGED callVars /\ pc[s] \in {"ready", "applying"}
          /\ \A t \in Tasks : t # s => pc'[t] = pc[t] /\ env'[t] = env[t]
      <3>1. CASE Share(s) \/ Applied(s)
        BY <1>1, <3>1 DEF Share, Applied, Keep, callVars
      <3>2. CASE Apply(s) \/ Refuse(s) \/ Predicted(s)
        BY <1>1, <3>2 DEF Apply, Refuse, Predicted
      <3> QED  BY <2>1, <3>1, <3>2 DEF TaskStep
    <2>3. \A t \in Tasks : pc[t] = "done" => pc'[t] = "done" /\ env'[t] = env[t]
      BY <2>2
    <2> QED  BY <1>1, <1>2, <2>2, <2>3, CallSoundKept DEF callVars
  <1>4. CASE \E d \in Callers, p \in BOOLEAN : \E bs \in Batches(d, Held(d)) : Call(d, p, bs)
    <2>1. PICK d \in Callers, p \in BOOLEAN : \E bs \in Batches(d, Held(d)) : Call(d, p, bs)
      BY <1>4
    <2>2. PICK bs \in Batches(d, Held(d)) : Call(d, p, bs)
      BY <2>1
    <2>3. CASE d = c
      <3>1. /\ batch'[c] = bs /\ results'[c] = << >> /\ phase'[c] = "running"
            /\ Len(asked'[c]) = Len(bs)
        <4>1. asked'[c] = [i \in 1 .. Len(bs) |-> [j \in 1 .. Len(bs[i]) |-> heap[bs[i][j]]]]
          BY <1>1, <2>2, <2>3 DEF Call
        <4>2. Len(bs) \in Nat
          BY <2>2 DEF Call
        <4> QED  BY <1>1, <2>2, <2>3, <4>1, <4>2 DEF Call
      <3> QED  BY <3>1 DEF CallSound
    <2>4. CASE d # c
      <3>1. /\ asked'[c] = asked[c] /\ batch'[c] = batch[c] /\ phase'[c] = phase[c]
            /\ results'[c] = results[c] /\ failure'[c] = failure[c] /\ parallel'[c] = parallel[c]
            /\ UNCHANGED <<pc, env>>
        BY <1>1, <2>2, <2>4 DEF Call, taskVars
      <3> QED  BY <1>1, <3>1, CallSoundKept
    <2> QED  BY <2>3, <2>4
  <1>5. CASE \E d \in Callers : CallStep(d)
    <2>1. PICK d \in Callers : CallStep(d)
      BY <1>5
    <2>2. CASE d # c
      <3>1. /\ UNCHANGED <<asked, batch, parallel>>
            /\ phase'[c] = phase[c] /\ results'[c] = results[c] /\ failure'[c] = failure[c]
        BY <1>1, <2>1, <2>2 DEF CallStep, Start, StartFails, Collect, CollectError, Unwound, Return
      <3>2. \A i \in 1 .. Len(results[c]) :
              pc'[<<c, i>>] = pc[<<c, i>>] /\ env'[<<c, i>>] = env[<<c, i>>]
        <4>1. CASE Start(d)
          <5>1. \A i : <<c, i>> # <<d, started[d] + 1>>
            BY <2>2
          <5> QED  BY <1>1, <1>2, <4>1, <5>1 DEF Start
        <4>2. CASE ~Start(d)
          <5>1. UNCHANGED <<pc, env>>
            BY <2>1, <4>2 DEF CallStep, StartFails, Collect, CollectError, Unwound, Return, taskVars
          <5> QED  BY <5>1
        <4> QED  BY <4>1, <4>2
      <3> QED  BY <1>1, <3>1, <3>2, CallSoundKept
    <2> QED  BY <2>1, <2>2, CallStepSound
  <1>6. CASE \E d \in Callers : Take(d)
    <2>1. PICK d \in Callers : Take(d)
      BY <1>6
    <2>2. CASE d = c
      <3>1. phase'[c] = "idle"
        BY <1>1, <2>1, <2>2 DEF Take
      <3> QED  BY <3>1 DEF CallSound
    <2>3. CASE d # c
      <3>1. /\ asked'[c] = asked[c] /\ UNCHANGED <<batch, parallel, results>>
            /\ phase'[c] = phase[c] /\ failure'[c] = failure[c]
        BY <1>1, <2>1, <2>3 DEF Take
      <3>2. \A i \in 1 .. Len(results[c]) :
              pc'[<<c, i>>] = pc[<<c, i>>] /\ env'[<<c, i>>] = env[<<c, i>>]
        BY <1>2, <2>1, <2>3 DEF Take
      <3> QED  BY <1>1, <3>1, <3>2, CallSoundKept
    <2> QED  BY <2>2, <2>3
  <1>7. CASE \E d \in Callers : EndEdit(d) \/ \E b \in Writable(d) : BeginEdit(d, b)
    <2>1. UNCHANGED <<callVars, taskVars>>
      BY <1>7 DEF EndEdit, BeginEdit
    <2> QED  BY <1>1, <2>1, CallSoundKept DEF callVars, taskVars
  <1>8. CASE UNCHANGED vars
    BY <1>1, <1>8, CallSoundKept DEF vars
  <1> QED  BY <1>3, <1>4, <1>5, <1>6, <1>7, <1>8 DEF Next

LEMMA SoundPreserved == Sound /\ [Next]_vars => Sound'
  <1> SUFFICES ASSUME Sound, [Next]_vars PROVE Sound'
    OBVIOUS
  <1>1. IInv' /\ ArgumentsUntouched'
    BY NextPreserves, Untouched DEF Sound
  <1>2. DOMAIN error' = Tasks /\ DOMAIN failure' = Callers
    <2>1. DOMAIN error = Tasks /\ DOMAIN failure = Callers
      BY DEF Sound
    <2>2. ASSUME NEW t \in Tasks, TaskStep(t)
          PROVE  DOMAIN error' = DOMAIN error /\ DOMAIN failure' = DOMAIN failure
      BY <2>2 DEF TaskStep, Share, Apply, Applied, Refuse, Predicted, callVars
    <2>3. ASSUME NEW c \in Callers, CallStep(c)
          PROVE  DOMAIN error' = DOMAIN error /\ DOMAIN failure' = DOMAIN failure
      BY <2>3 DEF CallStep, Start, StartFails, Collect, CollectError, Unwound, Return, taskVars
    <2>4. ASSUME NEW c \in Callers, NEW p, NEW bs, Call(c, p, bs)
          PROVE  DOMAIN error' = DOMAIN error /\ DOMAIN failure' = DOMAIN failure
      BY <2>4 DEF Call, taskVars
    <2>5. ASSUME NEW c \in Callers, Take(c)
          PROVE  DOMAIN error' = Tasks /\ DOMAIN failure' = DOMAIN failure
      BY <2>5 DEF Take
    <2>6. ASSUME NEW c \in Callers, EndEdit(c) \/ \E b : BeginEdit(c, b)
          PROVE  DOMAIN error' = DOMAIN error /\ DOMAIN failure' = DOMAIN failure
      BY <2>6 DEF EndEdit, BeginEdit, callVars, taskVars
    <2>7. CASE UNCHANGED vars
      BY <2>1, <2>7 DEF vars
    <2> QED  BY <2>1, <2>2, <2>3, <2>4, <2>5, <2>6, <2>7 DEF Next
  <1>3. (\A t \in Tasks : TaskSound(t))' /\ (\A c \in Callers : CallSound(c))'
    BY TasksSound, CallsSound
  <1> QED  BY <1>1, <1>2, <1>3 DEF Sound

LEMMA InitSound == Init => Sound
  <1> SUFFICES ASSUME Init PROVE Sound
    OBVIOUS
  <1>1. IInv /\ ArgumentsUntouched
    BY InitIInv DEF Init, ArgumentsUntouched
  <1>2. \A t \in Tasks : TaskSound(t)
    BY DEF Init, TaskSound
  <1>3. \A c \in Callers : CallSound(c)
    BY DEF Init, CallSound
  <1> QED  BY <1>1, <1>2, <1>3 DEF Sound, Init

LEMMA SoundAlways == Spec => []Sound
  <1> QED  BY InitSound, SoundPreserved, PTL DEF Spec
-----------------------------------------------------------------------------
(***************************************************************************)
(* The refinement.  A call is asked when it is made, answered when it      *)
(* returns or its exception leaves it, and what was answered stays the     *)
(* answer until the caller goes on.                                        *)
(***************************************************************************)
StateOf(c) ==
  IF phase[c] \in {"running", "unwinding"}
  THEN IF parallel[c] THEN "parallel" ELSE "sequential"
  ELSE IF phase[c] = "idle" THEN "idle" ELSE "answered"
States == [c \in Callers |-> StateOf(c)]
Answers == [c \in Callers |-> AnswerOf(c)]

\* What was collected for an entry are the numbers of its outputs.
LEMMA CollectedNumbers ==
  ASSUME Sound, NEW c \in Callers, phase[c] \in {"running", "returned"},
         NEW i \in 1 .. Len(results[c])
  PROVE  /\ Len(results[c][i]) = Len(Outs)
         /\ \A o \in 1 .. Len(Outs) :
              heap[results[c][i][o]] = Numbers(asked[c][i])[Outs[o]]
  <1> DEFINE t == <<c, i>>
  <1>1. t \in Tasks /\ pc[t] = "done" /\ results[c][i] = OutBuffers(t)
    BY CollectedFine
  <1>2. Len(OutBuffers(t)) = Len(Outs)
    <2>1. Len(Outs) \in Nat
      BY LayersAssumption
    <2> QED  BY <2>1 DEF OutBuffers
  <1>3. \A o \in 1 .. Len(Outs) : heap[OutBuffers(t)[o]] = Numbers(Entry(t))[Outs[o]]
    <2> HIDE DEF t
    <2> QED  BY <1>1, OutsComputed, Walk DEF Sound, TaskSound, IInv
  <1>4. Entry(t) = asked[c][i]
    BY DEF Entry
  <1> QED  BY <1>1, <1>2, <1>3, <1>4

LEMMA AnswerKept ==
  ASSUME Sound, [Next]_vars, NEW c \in Callers, phase'[c] = phase[c],
         results'[c] = results[c], failure'[c] = failure[c]
  PROVE  AnswerOf(c)' = AnswerOf(c)
  <1>1. CASE phase[c] = "returned"
    <2>1. ASSUME NEW i \in 1 .. Len(results[c]), NEW o \in 1 .. Len(results[c][i])
          PROVE  heap'[results[c][i][o]] = heap[results[c][i][o]]
      <3> DEFINE t == <<c, i>>
      <3>1. t \in Tasks /\ pc[t] = "done" /\ results[c][i] = OutBuffers(t)
        BY <1>1, CollectedFine
      <3>2. o \in 1 .. Len(Outs)
        BY <1>1, CollectedNumbers
      <3>3. Outs[o] \in 1 .. NInputs + Len(Layers)
        <4>1. Outs \in Seq(1 .. NInputs + Len(Layers))
          BY LayersAssumption
        <4> QED  BY <3>2, <4>1, ElementOf
      <3>4. IInv /\ TaskSound(t)
        BY <3>1 DEF Sound
      <3> HIDE DEF t
      <3>5. Len(env[t]) = NInputs + Len(Layers)
        BY <3>1, <3>4, Walk DEF AllApplied, IInv
      <3>6. heap'[env[t][Outs[o]]] = heap[env[t][Outs[o]]]
        BY <3>1, <3>3, <3>4, <3>5, HeapKept DEF TaskSound
      <3> QED  BY <3>1, <3>2, <3>6 DEF OutBuffers
    <2> QED  BY <1>1, <2>1 DEF AnswerOf
  <1>2. CASE phase[c] # "returned"
    BY <1>2 DEF AnswerOf
  <1> QED  BY <1>1, <1>2

\* A call that returns has collected all its entries, and none was refused.
LEMMA ReturnAnswers ==
  ASSUME Sound, NEW c \in Callers, Return(c)
  PROVE  AnswerOf(c)' = Outcome(asked[c])
  <1> DEFINE r == asked[c]
  <1>1. /\ phase[c] = "running" /\ phase'[c] = "returned" /\ UNCHANGED <<results, heap>>
        /\ Len(results[c]) = Len(r)
    BY DEF Return, Running, Sound, CallSound, IInv, TypeOK
  <1>2. \A i \in 1 .. Len(r) : Refusals(r[i]) = {}
    BY <1>1, CollectedFine
  <1>3. Outcome(r) = Answer([i \in 1 .. Len(r) |-> ArgNumbers(r[i], Len(Layers) + 1)], NoError)
    BY <1>2 DEF Outcome
  <1>4. ASSUME NEW i \in 1 .. Len(r)
        PROVE  [o \in 1 .. Len(results[c][i]) |-> heap[results[c][i][o]]]
                 = ArgNumbers(r[i], Len(Layers) + 1)
    <2>1. ~(Len(Layers) + 1 <= Len(Layers))
      BY LayersAssumption
    <2>2. /\ Len(results[c][i]) = Len(Outs)
          /\ \A o \in 1 .. Len(Outs) : heap[results[c][i][o]] = Numbers(r[i])[Outs[o]]
      BY <1>1, CollectedNumbers
    <2> QED  BY <2>1, <2>2 DEF ArgNumbers
  <1>5. AnswerOf(c)' = Answer([i \in 1 .. Len(results[c]) |->
                         [o \in 1 .. Len(results[c][i]) |-> heap[results[c][i][o]]]], NoError)
    BY <1>1 DEF AnswerOf
  <1> HIDE DEF r
  <1>6. [i \in 1 .. Len(results[c]) |->
            [o \in 1 .. Len(results[c][i]) |-> heap[results[c][i][o]]]]
          = [i \in 1 .. Len(r) |-> ArgNumbers(r[i], Len(Layers) + 1)]
    BY <1>1, <1>4
  <1> QED  BY <1>3, <1>5, <1>6 DEF r

\* What a step of one caller looks like from outside.
LEMMA OthersKept ==
  ASSUME Sound, [Next]_vars, NEW c \in Callers,
         \A d \in Callers \ {c} :
           /\ phase'[d] = phase[d]
           /\ parallel'[d] = parallel[d]
           /\ results'[d] = results[d]
           /\ failure'[d] = failure[d]
  PROVE  /\ States' = [States EXCEPT ![c] = StateOf(c)']
         /\ Answers' = [Answers EXCEPT ![c] = AnswerOf(c)']
  <1>1. ASSUME NEW d \in Callers, d # c
        PROVE  StateOf(d)' = StateOf(d) /\ AnswerOf(d)' = AnswerOf(d)
    BY <1>1, AnswerKept DEF StateOf
  <1>2. /\ States' = [d \in Callers |-> StateOf(d)']
        /\ Answers' = [d \in Callers |-> AnswerOf(d)']
    BY DEF States, Answers
  <1>3. States' = [States EXCEPT ![c] = StateOf(c)']
    BY <1>1, <1>2 DEF States
  <1>4. Answers' = [Answers EXCEPT ![c] = AnswerOf(c)']
    BY <1>1, <1>2 DEF Answers
  <1> QED  BY <1>3, <1>4

LEMMA CallAsks ==
  ASSUME Sound, [Next]_vars, NEW c \in Callers, NEW p \in BOOLEAN, NEW bs, Call(c, p, bs)
  PROVE  Promise!Ask(c)
  <1>1. /\ phase[c] = "idle" /\ phase'[c] = "running" /\ parallel'[c] = p
        /\ \A d \in Callers \ {c} :
             /\ phase'[d] = phase[d]
             /\ parallel'[d] = parallel[d]
             /\ results'[d] = results[d]
             /\ failure'[d] = failure[d]
    BY DEF Call, Sound, IInv, TypeOK
  <1>2. /\ States' = [States EXCEPT ![c] = StateOf(c)']
        /\ Answers' = [Answers EXCEPT ![c] = AnswerOf(c)']
    BY <1>1, OthersKept
  <1>3. /\ States[c] = "idle" /\ StateOf(c)' \in {"sequential", "parallel"}
        /\ AnswerOf(c)' = AnswerOf(c)
    BY <1>1 DEF States, StateOf, AnswerOf
  <1>4. Answers' = Answers
    BY <1>2, <1>3 DEF Answers
  <1>5. asked' = [asked EXCEPT ![c] = asked'[c]]
    BY DEF Call, Sound, IInv, TypeOK
  <1> QED  BY <1>2, <1>3, <1>4, <1>5 DEF Promise!Ask, States, Answers, StateOf

LEMMA EndAnswers ==
  ASSUME Sound, [Next]_vars, NEW c \in Callers, Return(c) \/ Unwound(c)
  PROVE  Promise!Answer(c)
  <1>1. /\ phase[c] \in {"running", "unwinding"} /\ phase'[c] \in {"returned", "threw"}
        /\ UNCHANGED <<asked, parallel, failure>>
        /\ \A d \in Callers \ {c} : phase'[d] = phase[d] /\ results'[d] = results[d]
    BY DEF Return, Unwound, Running, Sound, IInv, TypeOK
  <1>2. /\ States' = [States EXCEPT ![c] = StateOf(c)']
        /\ Answers' = [Answers EXCEPT ![c] = AnswerOf(c)']
    BY <1>1, OthersKept
  <1>3. /\ States[c] = IF parallel[c] THEN "parallel" ELSE "sequential"
        /\ StateOf(c)' = "answered"
    BY <1>1 DEF States, StateOf
  <1>4. \/ AnswerOf(c)' = Outcome(asked[c])
        \/ parallel[c] /\ AnswerOf(c)' = Answer(<< >>, NoThread)
    <2>1. CASE Return(c)
      BY <2>1, ReturnAnswers
    <2>2. CASE Unwound(c)
      <3>1. phase'[c] = "threw" /\ phase[c] = "unwinding"
        BY <2>2 DEF Unwound, Sound, IInv, TypeOK
      <3>2. AnswerOf(c)' = Answer(<< >>, failure[c])
        BY <1>1, <3>1 DEF AnswerOf
      <3> QED  BY <3>1, <3>2 DEF Sound, CallSound
    <2> QED  BY <2>1, <2>2
  <1>5. States[c] \in {"sequential", "parallel"} /\ States' = [States EXCEPT ![c] = "answered"]
    BY <1>2, <1>3
  <1>6. \/ Answers' = [Answers EXCEPT ![c] = Outcome(asked[c])]
        \/ /\ States[c] = "parallel"
           /\ Answers' = [Answers EXCEPT ![c] = Answer(<< >>, NoThread)]
    BY <1>2, <1>3, <1>4
  <1>7. UNCHANGED asked
    BY <1>1
  <1> QED  BY ONLY <1>5, <1>6, <1>7 DEF Promise!Answer, States, Answers, StateOf

LEMMA TakeTakes ==
  ASSUME Sound, [Next]_vars, NEW c \in Callers, Take(c)
  PROVE  Promise!Take(c)
  <1>1. /\ phase[c] \in {"returned", "threw"} /\ phase'[c] = "idle"
        /\ asked' = [asked EXCEPT ![c] = << >>]
        /\ UNCHANGED <<parallel, results>>
        /\ \A d \in Callers \ {c} : phase'[d] = phase[d] /\ failure'[d] = failure[d]
    BY DEF Take, Sound, IInv, TypeOK
  <1>2. /\ States' = [States EXCEPT ![c] = StateOf(c)']
        /\ Answers' = [Answers EXCEPT ![c] = AnswerOf(c)']
    BY <1>1, OthersKept
  <1>3. States[c] = "answered" /\ StateOf(c)' = "idle" /\ AnswerOf(c)' = NoAnswer
    BY <1>1 DEF States, StateOf, AnswerOf
  <1> QED  BY <1>1, <1>2, <1>3 DEF Promise!Take, States, Answers, StateOf

\* Every other step is invisible to the callers.
LEMMA Invisible ==
  ASSUME Sound, [Next]_vars, UNCHANGED <<asked, parallel>>,
         \A d \in Callers :
           /\ StateOf(d)' = StateOf(d)
           /\ \/ phase'[d] = phase[d] /\ results'[d] = results[d] /\ failure'[d] = failure[d]
              \/ phase[d] \in {"running", "unwinding"} /\ phase'[d] \in {"running", "unwinding"}
  PROVE  UNCHANGED Promise!vars
  <1>1. ASSUME NEW d \in Callers PROVE AnswerOf(d)' = AnswerOf(d)
    <2>1. CASE phase'[d] = phase[d] /\ results'[d] = results[d] /\ failure'[d] = failure[d]
      BY <2>1, AnswerKept
    <2>2. CASE phase[d] \in {"running", "unwinding"} /\ phase'[d] \in {"running", "unwinding"}
      BY <2>2 DEF AnswerOf
    <2> QED  BY <2>1, <2>2
  <1>2. States' = States /\ Answers' = Answers
    BY <1>1 DEF States, Answers
  <1> QED  BY <1>2 DEF Promise!vars, States, Answers, StateOf

(***************************************************************************)
(* Whatever predictions run at the same time, in whatever order their      *)
(* steps come, a call of predict or predict_multi is answered with what    *)
(* its layers make of the numbers its tensors held when it was made: the   *)
(* predictions in the order of the data entries, or the exception of the   *)
(* first entry that has one, or, in parallel, of a system without threads. *)
(***************************************************************************)
THEOREM CallsAreIndependent == Spec => AnsweredAsIfAlone
  <1>1. Init => Promise!Init
    <2> SUFFICES ASSUME Init PROVE Promise!Init
      OBVIOUS
    <2>1. \A c \in Callers : phase[c] = "idle" /\ AnswerOf(c) = NoAnswer
      BY DEF Init, AnswerOf
    <2> QED  BY <2>1 DEF Promise!Init, Init
  <1>2. Sound /\ [Next]_vars => [Promise!Next]_Promise!vars
    <2> SUFFICES ASSUME Sound, [Next]_vars PROVE [Promise!Next]_Promise!vars
      OBVIOUS
    <2>0. phase \in [Callers -> {"idle", "running", "unwinding", "returned", "threw"}]
          /\ DOMAIN results = Callers /\ DOMAIN failure = Callers
      BY DEF Sound, IInv, TypeOK
    <2>1. CASE \E c \in Callers, p \in BOOLEAN : \E bs \in Batches(c, Held(c)) : Call(c, p, bs)
      BY <2>1, CallAsks DEF Promise!Next
    <2>2. CASE \E c \in Callers : Return(c) \/ Unwound(c)
      BY <2>2, EndAnswers DEF Promise!Next
    <2>3. CASE \E c \in Callers : Take(c)
      BY <2>3, TakeTakes DEF Promise!Next
    <2>4. CASE \E c \in Callers : Start(c) \/ StartFails(c) \/ Collect(c) \/ CollectError(c)
      <3>1. PICK c \in Callers : Start(c) \/ StartFails(c) \/ Collect(c) \/ CollectError(c)
        BY <2>4
      <3>2. /\ UNCHANGED <<asked, parallel>>
            /\ phase[c] = "running" /\ phase'[c] \in {"running", "unwinding"}
            /\ \A d \in Callers \ {c} :
                 phase'[d] = phase[d] /\ results'[d] = results[d] /\ failure'[d] = failure[d]
        <4>1. CASE Start(c) \/ Collect(c)
          BY <2>0, <4>1 DEF Start, Collect, Running
        <4>2. CASE StartFails(c) \/ CollectError(c)
          BY <2>0, <4>2 DEF StartFails, CollectError, Running
        <4> QED  BY <3>1, <4>1, <4>2
      <3>3. \A d \in Callers : StateOf(d)' = StateOf(d)
        BY <3>2 DEF StateOf
      <3> QED  BY <3>2, <3>3, Invisible
    <2>5. CASE \/ \E t \in Tasks : TaskStep(t)
               \/ \E c \in Callers : EndEdit(c) \/ \E b \in Writable(c) : BeginEdit(c, b)
               \/ UNCHANGED vars
      <3>1. UNCHANGED callVars
        BY <2>5 DEF TaskStep, Share, Apply, Applied, Refuse, Predicted, EndEdit, BeginEdit,
             callVars, vars
      <3>2. \A d \in Callers : StateOf(d)' = StateOf(d)
        BY <3>1 DEF StateOf, callVars
      <3> QED  BY <3>1, <3>2, Invisible DEF callVars
    <2> QED  BY <2>1, <2>2, <2>3, <2>4, <2>5 DEF Next, CallStep
  <1> QED  BY <1>1, <1>2, SoundAlways, PTL DEF Spec, AnsweredAsIfAlone, Promise!Spec
=============================================================================
