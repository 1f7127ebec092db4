--------------------------- MODULE ForwardPassProofs ---------------------------
(***************************************************************************)
(* The type of ForwardPass and the shape of its call stack, for every      *)
(* network, root and build; that predict computes what the network means,  *)
(* for every solution of the network's equations; and that it does so as   *)
(* Dataflow does, every node once and after what it needs.                 *)
(***************************************************************************)
EXTENDS ForwardPassMeaning, ArrayProofs

(***************************************************************************)
(* The network's static part.                                              *)
(***************************************************************************)
LEMMA NodeKeyParts ==
  ASSUME NEW m \in Models, NEW k \in NodeKeys(m)
  PROVE  /\ k = <<k[1], k[2]>>
         /\ k[1] \in DOMAIN Graph[m].layers
         /\ k[2] \in Nat
         /\ k[2] + 1 \in 1 .. Len(LayerOf(m, k).nodes)
         /\ k # Outputs
  <1>1. PICK l \in DOMAIN Graph[m].layers :
          \E n \in 1 .. Len(Graph[m].layers[l].nodes) : k = <<l, n - 1>>
    BY DEF NodeKeys
  <1>2. PICK n \in 1 .. Len(Graph[m].layers[l].nodes) : k = <<l, n - 1>>
    BY <1>1
  <1>3. Len(Graph[m].layers[l].nodes) \in Nat /\ Len(Graph[m].layers[l].nodes) < SizeT
    BY GraphAssumption DEF IsSeq
  <1>4. k[1] = l /\ k[2] = n - 1
    BY <1>2
  <1>5. n \in Nat /\ n - 1 < SizeT /\ n - 1 # SizeT
    BY <1>3, SizeTAssumption
  <1>6. k # Outputs
    BY <1>2, <1>5 DEF Outputs
  <1> QED  BY <1>1, <1>2, <1>3, <1>4, <1>6 DEF LayerOf

LEMMA InboundIsSeq ==
  ASSUME NEW m \in Models, NEW k \in NodeKeys(m)
  PROVE  /\ IsSeq(Inbound(m, k))
         /\ \A i \in 1 .. Len(Inbound(m, k)) : IsConnection(Inbound(m, k)[i])
  BY NodeKeyParts, GraphAssumption DEF Inbound, LayerOf

LEMMA WantIsSeq ==
  ASSUME NEW f, f.model \in Models, f.key \in NodeKeys(f.model) \cup {Outputs}
  PROVE  /\ IsSeq(Want(f))
         /\ \A i \in 1 .. Len(Want(f)) : IsConnection(Want(f)[i])
  <1>1. CASE f.key = Outputs
    BY <1>1, GraphAssumption DEF Want
  <1>2. CASE f.key # Outputs
    BY <1>2, InboundIsSeq DEF Want
  <1> QED  BY <1>1, <1>2

LEMMA EffectiveNodeInRange ==
  ASSUME NEW m \in Models, NEW c, IsConnection(c), Known(m, c)
  PROVE  EffectiveNode(m, c) \in 0 .. SizeT - 1
  <1>1. c.node - 1 \in Int
    BY SizeTAssumption DEF IsConnection
  <1>2. (c.node - 1) % SizeT \in 0 .. SizeT - 1
    BY <1>1, SizeTAssumption
  <1> QED  BY <1>2 DEF EffectiveNode, IsConnection

LEMMA KeyOfExistingNode ==
  ASSUME NEW m \in Models, NEW c, IsConnection(c), Known(m, c), NodeExists(m, KeyOf(m, c))
  PROVE  KeyOf(m, c) \in NodeKeys(m)
  <1> DEFINE n == EffectiveNode(m, c)
  <1>1. n \in Nat
    BY EffectiveNodeInRange, SizeTAssumption
  <1>2. KeyOf(m, c) = <<c.layer, n>> /\ c.layer \in DOMAIN Graph[m].layers
    BY DEF KeyOf, Known
  <1> HIDE DEF n
  <1>3. Len(Graph[m].layers[c.layer].nodes) \in Nat
    BY <1>2, GraphAssumption DEF IsSeq
  <1>4. n < Len(Graph[m].layers[c.layer].nodes)
    BY <1>2 DEF NodeExists, LayerOf
  <1>5. n + 1 \in 1 .. Len(Graph[m].layers[c.layer].nodes) /\ n = (n + 1) - 1
    BY <1>1, <1>3, <1>4
  <1> QED  BY <1>2, <1>5 DEF NodeKeys

LEMMA ActivatedIsSeq ==
  ASSUME NEW m, NEW k, NEW ts, IsSeq(ts)
  PROVE  IsSeq(Activated(m, k, ts)) /\ Len(Activated(m, k, ts)) = Len(ts)
  <1> DEFINE f == [i \in 1 .. Len(ts) |-> Activate(m, k[1], ts[i])]
  <1>1. Len(ts) \in Nat /\ f = [i \in 1 .. Len(ts) |-> f[i]]
    BY DEF IsSeq
  <1>2. IsSeq(f) /\ Len(f) = Len(ts)
    BY <1>1, FunctionIsSeq
  <1> QED  BY <1>2 DEF Activated

LEMMA ApplyIsSeq ==
  ASSUME NEW m \in Models, NEW k \in NodeKeys(m), NEW args, IsSeq(args)
  PROVE  IsSeq(Apply(m, k, args))
  <1>1. IsSeq(ApplyImpl(m, k, args))
    <2>1. CASE LayerOf(m, k).kind = "each"
      <3> DEFINE f == [i \in 1 .. Len(args) |-> Tensor(m, k[1], << args[i] >>, 1)]
      <3>1. Len(args) \in Nat /\ f = [i \in 1 .. Len(args) |-> f[i]]
        BY DEF IsSeq
      <3>2. IsSeq(f)
        BY <3>1, FunctionIsSeq
      <3> QED  BY <2>1, <3>2 DEF ApplyImpl
    <2>2. CASE LayerOf(m, k).kind # "each"
      BY <2>2, SingletonIsSeq DEF ApplyImpl
    <2> QED  BY <2>1, <2>2
  <1> QED  BY <1>1, ActivatedIsSeq DEF Apply
-----------------------------------------------------------------------------
(***************************************************************************)
(* The caches as functions.                                                *)
(***************************************************************************)
LEMMA PlaceOK ==
  ASSUME NEW c, CacheOK(c), NEW k, NEW ts, IsSeq(ts)
  PROVE  /\ CacheOK(Place(c, k, ts))
         /\ DOMAIN Place(c, k, ts) = DOMAIN c \cup {k}
         /\ \A x \in DOMAIN c \cup {k} : Place(c, k, ts)[x] = IF x = k THEN ts ELSE c[x]
  BY DEF Place, CacheOK

LEMMA StoreOK ==
  ASSUME NEW c, c = [p \in DOMAIN c |-> c[p]], \A p \in DOMAIN c : CacheOK(c[p]),
         NEW p \in DOMAIN c, NEW k, NEW ts, IsSeq(ts)
  PROVE  /\ Store(c, p, k, ts) = [x \in DOMAIN c |-> Store(c, p, k, ts)[x]]
         /\ DOMAIN Store(c, p, k, ts) = DOMAIN c
         /\ Store(c, p, k, ts)[p] = Place(c[p], k, ts)
         /\ \A x \in DOMAIN c : x # p => Store(c, p, k, ts)[x] = c[x]
         /\ \A x \in DOMAIN c : CacheOK(Store(c, p, k, ts)[x])
  <1>1. CacheOK(Place(c[p], k, ts))
    BY PlaceOK
  <1> QED  BY <1>1 DEF Store

LEMMA SeedOK ==
  ASSUME NEW m, NEW args
  PROVE  CacheOK(Seed(m, args)) /\ DOMAIN Seed(m, args) = InputKeys(m)
  BY SingletonIsSeq DEF Seed, CacheOK

LEMMA NoCacheOK ==
  /\ NoCache = [p \in DOMAIN NoCache |-> NoCache[p]]
  /\ DOMAIN NoCache = {}
  BY DEF NoCache
-----------------------------------------------------------------------------
(***************************************************************************)
(* TypeOK is inductive only together with StackShape: that the caller of a *)
(* nested model still has its cache when the call returns depends on the   *)
(* paths below it on the stack.                                            *)
(***************************************************************************)
Shape == TypeOK /\ StackShape

LEMMA TopOK ==
  ASSUME Shape, Running
  PROVE  /\ Len(stack) \in Nat /\ Len(stack) > 0
         /\ Len(stack) \in 1 .. Len(stack)
         /\ FrameOK(Top)
         /\ Top.path \in DOMAIN cache
         /\ CacheOK(TopCache)
         /\ IsSeq(Want(Top))
  <1>1. Len(stack) \in Nat /\ Len(stack) > 0
    BY DEF Shape, TypeOK, StackShape, Running, IsSeq
  <1>2. FrameOK(Top) /\ Top.path \in DOMAIN cache
    BY <1>1 DEF Shape, TypeOK, StackShape, Top
  <1> QED  BY <1>1, <1>2, WantIsSeq DEF Shape, TypeOK, TopCache, FrameOK

LEMMA DemandOK ==
  ASSUME Shape, Demanding
  PROVE  /\ Len(Top.got) \in Nat /\ Len(Top.got) < Len(Want(Top))
         /\ IsConnection(Demand)
         /\ Top.model \in Models
  <1>1. Running /\ ~Complete(Top)
    BY DEF Demanding
  <1>2. FrameOK(Top) /\ IsSeq(Want(Top))
    BY <1>1, TopOK
  <1>3. Len(Top.got) \in Nat /\ Len(Top.got) < Len(Want(Top)) /\ Len(Want(Top)) \in Nat
    BY <1>1, <1>2 DEF FrameOK, Complete, IsSeq
  <1>4. Len(Top.got) + 1 \in 1 .. Len(Want(Top))
    BY <1>3
  <1> QED  BY <1>2, <1>3, <1>4, WantIsSeq DEF Demand, FrameOK

LEMMA PredictShape ==
  ASSUME Shape, NEW n \in 0 .. Len(Arguments), Predict(n)
  PROVE  Shape'
  <1>1. IsSeq(inputs')
    BY ArgumentsAssumption, PrefixSeq DEF Predict
  <1>2. root' = root /\ eager' = eager /\ result' = << >> /\ applied' = << >>
    BY DEF Predict
  <1>3. CASE n = Len(Graph[root].inputs)
    <2> DEFINE f == Frame(<< >>, root, Outputs)
               s == Seed(root, SubSeq(Arguments, 1, n))
    <2>1. /\ status' = "running"
          /\ stack' = << f >>
          /\ cache' = [p \in {<< >>} |-> s]
      BY <1>3 DEF Predict
    <2>2. root \in Models
      BY GraphAssumption DEF Shape, TypeOK
    <2>3. /\ f = [path |-> f.path, model |-> f.model, key |-> f.key, got |-> f.got]
          /\ f.path = << >> /\ f.model = root /\ f.key = Outputs /\ f.got = << >>
      BY DEF Frame
    <2> HIDE DEF f
    <2>4. FrameOK(f)
      <3>1. IsSeq(Want(f)) /\ Len(f.got) = 0
        BY <2>2, <2>3, WantIsSeq
      <3> QED  BY <2>2, <2>3, <3>1, EmptyIsSeq DEF FrameOK, IsSeq
    <2>5. IsSeq(stack') /\ Len(stack') = 1 /\ stack'[1] = f
      BY <2>1, SingletonIsSeq
    <2>6. CacheOK(s)
      BY SeedOK
    <2> HIDE DEF s
    <2>7. TypeOK'
      BY <1>1, <1>2, <2>1, <2>4, <2>5, <2>6, EmptyIsSeq DEF Shape, TypeOK
    <2>8. StackShape'
      BY <1>2, <2>1, <2>3, <2>5 DEF StackShape
    <2> QED  BY <2>7, <2>8 DEF Shape
  <1>4. CASE n # Len(Graph[root].inputs)
    <2>1. status' = "threw" /\ stack' = << >> /\ cache' = NoCache
      BY <1>4 DEF Predict
    <2>2. Len(stack') = 0 /\ IsSeq(stack')
      BY <2>1, EmptyIsSeq
    <2>3. TypeOK'
      BY <1>1, <1>2, <2>1, <2>2, EmptyIsSeq, NoCacheOK DEF Shape, TypeOK
    <2>4. StackShape'
      BY <1>2, <2>1, <2>2, NoCacheOK DEF StackShape
    <2> QED  BY <2>3, <2>4 DEF Shape
  <1> QED  BY <1>3, <1>4

LEMMA ThrowShape ==
  ASSUME Shape, Throw
  PROVE  Shape'
  <1>1. Len(stack') = 0 /\ IsSeq(stack')
    BY EmptyIsSeq DEF Throw
  <1>2. TypeOK'
    BY <1>1, NoCacheOK DEF Shape, TypeOK, Throw
  <1>3. StackShape'
    BY <1>1, NoCacheOK DEF StackShape, Throw
  <1> QED  BY <1>2, <1>3 DEF Shape

LEMMA ReturnShape ==
  ASSUME Shape, Return
  PROVE  Shape'
  <1>1. Len(stack') = 0 /\ IsSeq(stack') /\ IsSeq(result')
    BY EmptyIsSeq, TopOK DEF Return, FrameOK
  <1>2. TypeOK'
    BY <1>1, NoCacheOK DEF Shape, TypeOK, Return
  <1>3. StackShape'
    BY <1>1, NoCacheOK DEF StackShape, Return
  <1> QED  BY <1>2, <1>3 DEF Shape

LEMMA DeliverStack ==
  ASSUME Shape, Deliver
  PROVE  LET n == Len(stack) IN
         /\ Demanding /\ n \in Nat /\ n > 0 /\ Top = stack[n]
         /\ IsSeq(stack') /\ Len(stack') = n /\ FrameOK(stack'[n])
         /\ stack'[n].got = Append(Top.got, Read(DemandKey, Demand.tensor))
         /\ \A i \in 1 .. n : i # n => stack'[i] = stack[i]
         /\ \A i \in 1 .. n : /\ stack'[i].path = stack[i].path
                            /\ stack'[i].model = stack[i].model
                            /\ stack'[i].key = stack[i].key
  <1> DEFINE n == Len(stack)
             v == Read(DemandKey, Demand.tensor)
             g == [Top EXCEPT !.got = Append(Top.got, v)]
  <1>0. n = Len(stack)
    OBVIOUS
  <1>1. Running /\ Demanding
    BY DEF Deliver, Demanding
  <1>2. n \in 1 .. n /\ n \in Nat /\ FrameOK(Top) /\ IsSeq(stack) /\ Top = stack[n] /\ n > 0
    BY <1>1, TopOK DEF Shape, TypeOK, Top
  <1>3. stack' = [stack EXCEPT ![n] = g]
    BY <1>2 DEF Deliver
  <1>4. /\ g = [path |-> g.path, model |-> g.model, key |-> g.key, got |-> g.got]
        /\ g.path = Top.path /\ g.model = Top.model /\ g.key = Top.key
        /\ g.got = Append(Top.got, v)
    <2>1. Top = [path |-> Top.path, model |-> Top.model, key |-> Top.key, got |-> Top.got]
      BY <1>2 DEF FrameOK
    <2> HIDE DEF v
    <2> QED  BY <2>1
  <1> HIDE DEF g, n
  <1>5. FrameOK(g)
    <2>1. IsSeq(g.got) /\ Len(g.got) = Len(Top.got) + 1
      BY <1>2, <1>4, AppendSeq DEF FrameOK
    <2>2. Want(g) = Want(Top)
      BY <1>4 DEF Want
    <2>3. Len(g.got) <= Len(Want(g))
      BY <1>1, <1>2, <2>1, <2>2, DemandOK, TopOK DEF IsSeq
    <2> QED  BY <1>2, <1>4, <2>1, <2>3 DEF FrameOK
  <1>6. /\ IsSeq(stack') /\ Len(stack') = n /\ stack'[n] = g
        /\ \A i \in 1 .. n : i # n => stack'[i] = stack[i]
    <2>1. n \in 1 .. Len(stack)
      BY <1>0, <1>2
    <2> DEFINE u == [stack EXCEPT ![n] = g]
    <2>2. /\ IsSeq(u) /\ Len(u) = Len(stack) /\ u[n] = g
          /\ \A i \in 1 .. Len(stack) : i # n => u[i] = stack[i]
      BY <1>2, <2>1, UpdateSeq
    <2>3. stack' = u
      BY <1>3
    <2> HIDE DEF u
    <2> QED  BY <1>0, <2>2, <2>3
  <1>7. \A i \in 1 .. n : /\ stack'[i].path = stack[i].path
                       /\ stack'[i].model = stack[i].model
                       /\ stack'[i].key = stack[i].key
    BY <1>2, <1>4, <1>6
  <1> QED  BY <1>0, <1>1, <1>2, <1>4, <1>5, <1>6, <1>7

LEMMA DeliverShape ==
  ASSUME Shape, Deliver
  PROVE  Shape'
  <1> DEFINE n == Len(stack)
  <1>0. n = Len(stack)
    OBVIOUS
  <1>1. /\ Demanding /\ n \in Nat /\ n > 0
        /\ IsSeq(stack') /\ Len(stack') = n /\ FrameOK(stack'[n])
        /\ \A i \in 1 .. n : i # n => stack'[i] = stack[i]
    BY DeliverStack
  <1>2. \A i \in 1 .. n : /\ stack'[i].path = stack[i].path
                       /\ stack'[i].model = stack[i].model
                       /\ stack'[i].key = stack[i].key
    BY DeliverStack
  <1> HIDE DEF n
  <1>3. UNCHANGED <<root, inputs, eager, status, cache, result, applied>>
    BY DEF Deliver
  <1>4. TypeOK'
    BY <1>0, <1>1, <1>3 DEF Shape, TypeOK
  <1>5. ASSUME NEW i \in 2 .. n
        PROVE  IF stack'[i].key = Outputs THEN Calls(stack'[i - 1], stack'[i])
               ELSE Asks(stack'[i - 1], stack'[i])
    <2>1. IF stack[i].key = Outputs THEN Calls(stack[i - 1], stack[i])
          ELSE Asks(stack[i - 1], stack[i])
      BY <1>0 DEF Shape, StackShape
    <2>2. i \in 1 .. n /\ stack'[i - 1] = stack[i - 1]
      BY <1>1
    <2> QED  BY <1>2, <2>1, <2>2 DEF Calls, Asks
  <1>6. /\ status' = "running" <=> Len(stack') > 0
        /\ DOMAIN cache' = {stack'[i].path : i \in 1 .. n}
        /\ stack'[1].path = << >> /\ stack'[1].model = root /\ stack'[1].key = Outputs
    <2>1. 1 \in 1 .. n
      BY <1>1
    <2>2. /\ DOMAIN cache = {stack[i].path : i \in 1 .. n}
          /\ stack[1].path = << >> /\ stack[1].model = root /\ stack[1].key = Outputs
          /\ status = "running"
      BY <1>0, <1>1 DEF Shape, StackShape
    <2>3. DOMAIN cache = {stack'[i].path : i \in 1 .. n}
      BY <1>2, <2>2
    <2> QED  BY <1>1, <1>2, <1>3, <2>1, <2>2, <2>3
  <1>7. ASSUME NEW i \in 1 .. n, NEW j \in 1 .. n, i < j
        PROVE  /\ Len(stack'[i].path) <= Len(stack'[j].path)
               /\ stack'[j].key = Outputs => Len(stack'[i].path) < Len(stack'[j].path)
    BY <1>0, <1>2, <1>7 DEF Shape, StackShape
  <1>8. StackShape'
    BY <1>1, <1>3, <1>5, <1>6, <1>7 DEF StackShape
  <1> QED  BY <1>4, <1>8 DEF Shape

(***************************************************************************)
(* Pushing frame g, for a node or for a nested call.                       *)
(***************************************************************************)
LEMMA PushShape ==
  ASSUME Shape, Running, NEW g, FrameOK(g), stack' = Append(stack, g),
         UNCHANGED <<root, status>>,
         DOMAIN cache' = DOMAIN cache \cup {g.path},
         IF g.key = Outputs THEN Calls(Top, g) ELSE Asks(Top, g)
  PROVE  /\ IsSeq(stack') /\ \A i \in 1 .. Len(stack') : FrameOK(stack'[i])
         /\ StackShape'
  <1> DEFINE n == Len(stack)
  <1>1. n \in Nat /\ n > 0 /\ IsSeq(stack) /\ FrameOK(Top) /\ Top = stack[n]
    BY TopOK DEF Shape, TypeOK, Top
  <1>2. /\ IsSeq(stack') /\ Len(stack') = n + 1 /\ stack'[n + 1] = g
        /\ \A i \in 1 .. n : stack'[i] = stack[i]
    BY <1>1, AppendSeq
  <1>3. \A i \in 1 .. n + 1 : FrameOK(stack'[i])
    BY <1>1, <1>2 DEF Shape, TypeOK
  <1>4. DOMAIN cache' = {stack'[i].path : i \in 1 .. n + 1}
    <2>1. DOMAIN cache = {stack[i].path : i \in 1 .. n}
      BY DEF Shape, StackShape
    <2> HIDE DEF n
    <2> QED  BY <1>1, <1>2, <2>1
  <1>5. ASSUME NEW i \in 2 .. n + 1
        PROVE  IF stack'[i].key = Outputs THEN Calls(stack'[i - 1], stack'[i])
               ELSE Asks(stack'[i - 1], stack'[i])
    <2>1. CASE i = n + 1
      <3>1. stack'[i] = g /\ stack'[i - 1] = Top
        BY <1>1, <1>2, <2>1
      <3> QED  BY <3>1
    <2>2. CASE i # n + 1
      <3>1. i \in 2 .. n /\ stack'[i] = stack[i] /\ stack'[i - 1] = stack[i - 1]
        BY <1>1, <1>2, <2>2
      <3> QED  BY <3>1 DEF Shape, StackShape
    <2> QED  BY <2>1, <2>2
  <1>6. /\ \A i \in 1 .. n : Len(stack[i].path) <= Len(Top.path) /\ Len(stack[i].path) \in Nat
        /\ Len(Top.path) <= Len(g.path) /\ Len(g.path) \in Nat
        /\ g.key = Outputs => Len(Top.path) < Len(g.path)
    <2>1. Len(Top.path) \in Nat /\ Len(g.path) \in Nat
      BY <1>1 DEF FrameOK, IsSeq
    <2>2. ASSUME NEW i \in 1 .. n
          PROVE  Len(stack[i].path) <= Len(Top.path) /\ Len(stack[i].path) \in Nat
      <3>1. FrameOK(stack[i])
        BY DEF Shape, TypeOK
      <3>2. CASE i = n
        BY <1>1, <2>1, <3>2
      <3>3. CASE i # n
        <4>1. i < n /\ n \in 1 .. n
          BY <1>1, <3>3
        <4> QED  BY <1>1, <3>1, <4>1 DEF Shape, StackShape, FrameOK, IsSeq
      <3> QED  BY <3>2, <3>3
    <2>3. CASE g.key = Outputs
      BY <2>1, <2>2, <2>3, <1>1, AppendSeq DEF Calls, FrameOK
    <2>4. CASE g.key # Outputs
      BY <2>1, <2>2, <2>4 DEF Asks
    <2> QED  BY <2>1, <2>2, <2>3, <2>4
  <1>7. ASSUME NEW i \in 1 .. n + 1, NEW j \in 1 .. n + 1, i < j
        PROVE  /\ Len(stack'[i].path) <= Len(stack'[j].path)
               /\ stack'[j].key = Outputs => Len(stack'[i].path) < Len(stack'[j].path)
    <2>1. i \in 1 .. n /\ stack'[i] = stack[i]
      BY <1>1, <1>2, <1>7
    <2>2. CASE j = n + 1
      BY <1>2, <1>6, <2>1, <2>2
    <2>3. CASE j # n + 1
      <3>1. j \in 1 .. n /\ stack'[j] = stack[j]
        BY <1>1, <1>2, <2>3
      <3> QED  BY <1>7, <2>1, <3>1 DEF Shape, StackShape
    <2> QED  BY <2>2, <2>3
  <1>8. stack'[1] = stack[1]
    BY <1>1, <1>2
  <1> QED  BY <1>1, <1>2, <1>3, <1>4, <1>5, <1>7, <1>8 DEF Shape, StackShape, Running

(***************************************************************************)
(* Popping down to the first m frames.                                     *)
(***************************************************************************)
LEMMA PrefixShape ==
  ASSUME Shape, Running, NEW m \in 1 .. Len(stack),
         IsSeq(stack'), Len(stack') = m, \A i \in 1 .. m : stack'[i] = stack[i],
         UNCHANGED <<root, status>>,
         DOMAIN cache' = {stack[i].path : i \in 1 .. m}
  PROVE  /\ \A i \in 1 .. Len(stack') : FrameOK(stack'[i])
         /\ StackShape'
  <1>1. m \in Nat /\ Len(stack) \in Nat
    BY TopOK
  <1>2. \A i \in 1 .. m : FrameOK(stack'[i])
    BY <1>1 DEF Shape, TypeOK
  <1>3. DOMAIN cache' = {stack'[i].path : i \in 1 .. m}
    OBVIOUS
  <1>4. ASSUME NEW i \in 2 .. m
        PROVE  IF stack'[i].key = Outputs THEN Calls(stack'[i - 1], stack'[i])
               ELSE Asks(stack'[i - 1], stack'[i])
    <2>1. stack'[i] = stack[i] /\ stack'[i - 1] = stack[i - 1] /\ i \in 2 .. Len(stack)
      BY <1>1
    <2> QED  BY <2>1 DEF Shape, StackShape
  <1>5. stack'[1] = stack[1]
    BY <1>1
  <1>6. ASSUME NEW i \in 1 .. m, NEW j \in 1 .. m, i < j
        PROVE  /\ Len(stack'[i].path) <= Len(stack'[j].path)
               /\ stack'[j].key = Outputs => Len(stack'[i].path) < Len(stack'[j].path)
    <2>1. i \in 1 .. Len(stack) /\ j \in 1 .. Len(stack)
      BY <1>1
    <2>2. stack'[i] = stack[i] /\ stack'[j] = stack[j]
      OBVIOUS
    <2>3. /\ Len(stack[i].path) <= Len(stack[j].path)
          /\ stack[j].key = Outputs => Len(stack[i].path) < Len(stack[j].path)
      BY <1>6, <2>1 DEF Shape, StackShape
    <2> QED  BY <2>2, <2>3
  <1>7. stack[1].path = << >> /\ stack[1].model = root /\ stack[1].key = Outputs
    BY <1>1 DEF Shape, StackShape
  <1>8. status' = "running" /\ m > 0
    BY <1>1 DEF Running
  <1>9. StackShape'
    BY <1>3, <1>4, <1>5, <1>6, <1>7, <1>8 DEF StackShape
  <1> QED  BY <1>2, <1>9

LEMMA DescendShape ==
  ASSUME Shape, Descend
  PROVE  Shape'
  <1> DEFINE g == Frame(Top.path, Top.model, DemandKey)
  <1>1. Running /\ Demanding
    BY DEF Descend, Demanding
  <1>2. DemandKey \in NodeKeys(Top.model)
    <2>1. NodeExists(Top.model, DemandKey)
      BY DEF Descend, NodeIndexOK
    <2> QED  BY <1>1, <2>1, DemandOK, KeyOfExistingNode DEF Descend, DemandKey
  <1>3. DemandKey # Outputs
    BY <1>1, <1>2, DemandOK, NodeKeyParts
  <1>4. /\ g = [path |-> g.path, model |-> g.model, key |-> g.key, got |-> g.got]
        /\ g.path = Top.path /\ g.model = Top.model /\ g.key = DemandKey /\ g.got = << >>
    BY DEF Frame
  <1>5. stack' = Append(stack, g)
    BY DEF Descend
  <1> HIDE DEF g
  <1>6. FrameOK(g)
    <2>1. IsSeq(Want(g)) /\ Len(g.got) = 0
      BY <1>1, <1>2, <1>4, DemandOK, WantIsSeq
    <2> QED  BY <1>1, <1>2, <1>4, <2>1, DemandOK, TopOK, EmptyIsSeq DEF FrameOK, IsSeq
  <1>7. Asks(Top, g)
    BY <1>1, <1>4, DemandOK DEF Asks, Descend, DemandKey, Demand
  <1>8. UNCHANGED <<root, inputs, eager, status, result, applied>>
    BY DEF Descend
  <1>9. /\ cache' = [p \in DOMAIN cache' |-> cache'[p]]
        /\ DOMAIN cache' = DOMAIN cache
        /\ \A p \in DOMAIN cache' : CacheOK(cache'[p])
    <2>1. Top.path \in DOMAIN cache
      BY <1>1, TopOK
    <2>2. CASE eager
      <3>1. cache' = Store(cache, Top.path, DemandKey, << >>)
        BY <2>2 DEF Descend
      <3> QED  BY <2>1, <3>1, StoreOK, EmptyIsSeq DEF Shape, TypeOK
    <2>3. CASE ~eager
      BY <2>3 DEF Descend, Shape, TypeOK
    <2> QED  BY <2>2, <2>3
  <1>10. DOMAIN cache' = DOMAIN cache \cup {g.path}
    BY <1>1, <1>4, <1>9, TopOK
  <1>11. /\ IsSeq(stack') /\ \A i \in 1 .. Len(stack') : FrameOK(stack'[i])
         /\ StackShape'
    BY <1>1, <1>3, <1>4, <1>5, <1>6, <1>7, <1>8, <1>10, PushShape
  <1> QED  BY <1>8, <1>9, <1>11 DEF Shape, TypeOK

LEMMA ApplyLayerShape ==
  ASSUME Shape, ApplyLayer
  PROVE  Shape'
  <1> DEFINE ts == Apply(Top.model, Top.key, Top.got)
  <1>1. Running /\ Top.key # Outputs
    BY DEF ApplyLayer, Applying
  <1>2. /\ FrameOK(Top) /\ Top.path \in DOMAIN cache
        /\ Len(stack) \in Nat /\ Len(stack) > 0 /\ IsSeq(stack)
    BY <1>1, TopOK DEF Shape, TypeOK
  <1>3. IsSeq(ts)
    BY <1>1, <1>2, ApplyIsSeq DEF FrameOK
  <1>4. cache' = Store(cache, Top.path, Top.key, ts)
    BY DEF ApplyLayer
  <1> HIDE DEF ts
  <1>5. /\ cache' = [p \in DOMAIN cache' |-> cache'[p]]
        /\ DOMAIN cache' = DOMAIN cache
        /\ \A p \in DOMAIN cache' : CacheOK(cache'[p])
    BY <1>2, <1>3, <1>4, StoreOK DEF Shape, TypeOK
  <1>6. Len(stack) > 1
    BY <1>1, <1>2 DEF Shape, StackShape, Top
  <1>7. stack[Len(stack) - 1].path = Top.path
    <2>1. Len(stack) \in 2 .. Len(stack)
      BY <1>2, <1>6
    <2>2. Asks(stack[Len(stack) - 1], Top)
      BY <1>1, <2>1 DEF Shape, StackShape, Top
    <2> QED  BY <2>2 DEF Asks
  <1>8. /\ IsSeq(stack') /\ Len(stack') = Len(stack) - 1
        /\ \A i \in 1 .. Len(stack) - 1 : stack'[i] = stack[i]
    BY <1>2, PopSeq DEF ApplyLayer
  <1>9. DOMAIN cache' = {stack[i].path : i \in 1 .. Len(stack) - 1}
    <2>1. DOMAIN cache = {stack[i].path : i \in 1 .. Len(stack)}
      BY DEF Shape, StackShape
    <2>2. \A i \in 1 .. Len(stack) : i \in 1 .. Len(stack) - 1 \/ i = Len(stack)
      BY <1>2
    <2>3. Len(stack) - 1 \in 1 .. Len(stack) - 1
      BY <1>2, <1>6
    <2>4. \A i \in 1 .. Len(stack) - 1 : i \in 1 .. Len(stack)
      BY <1>2
    <2> QED  BY <1>5, <1>7, <2>1, <2>2, <2>3, <2>4 DEF Top
  <1>10. UNCHANGED <<root, inputs, eager, status, result>> /\ IsSeq(applied')
    BY AppendSeq DEF ApplyLayer, Shape, TypeOK
  <1>11. /\ \A i \in 1 .. Len(stack') : FrameOK(stack'[i])
         /\ StackShape'
    <2>1. Len(stack) - 1 \in 1 .. Len(stack)
      BY <1>2, <1>6
    <2> QED  BY <1>1, <1>8, <1>9, <1>10, <2>1, PrefixShape
  <1> QED  BY <1>5, <1>8, <1>10, <1>11 DEF Shape, TypeOK

LEMMA EnterModelShape ==
  ASSUME Shape, EnterModel
  PROVE  Shape'
  <1> DEFINE p == Append(Top.path, Top.key)
             b == Body(Top.model, Top.key)
             g == Frame(p, b, Outputs)
             s == Seed(b, Top.got)
  <1>1. Running /\ Top.key # Outputs /\ Complete(Top)
    BY DEF EnterModel, Applying
  <1>2. FrameOK(Top) /\ Top.model \in Models /\ Top.key \in NodeKeys(Top.model)
    BY <1>1, TopOK DEF FrameOK
  <1>3. b \in Models
    BY <1>2, NodeKeyParts, GraphAssumption DEF EnterModel, IsModel, LayerOf, Body
  <1>4. stack' = Append(stack, g) /\ cache' = Place(cache, p, s)
    BY DEF EnterModel, FreshCache
  <1>5. /\ g = [path |-> g.path, model |-> g.model, key |-> g.key, got |-> g.got]
        /\ g.path = p /\ g.model = b /\ g.key = Outputs /\ g.got = << >>
    BY DEF Frame
  <1>6. IsSeq(p)
    BY <1>2, AppendSeq DEF FrameOK
  <1>7. CacheOK(s)
    BY SeedOK
  <1>8. Calls(Top, g)
    BY <1>1, <1>5 DEF EnterModel, Calls
  <1> HIDE DEF g, s, b, p
  <1>9. FrameOK(g)
    <2>1. IsSeq(Want(g)) /\ Len(g.got) = 0
      BY <1>3, <1>5, WantIsSeq
    <2> QED  BY <1>3, <1>5, <1>6, <2>1, EmptyIsSeq DEF FrameOK, IsSeq
  <1>10. /\ cache' = [q \in DOMAIN cache' |-> cache'[q]]
         /\ DOMAIN cache' = DOMAIN cache \cup {g.path}
         /\ \A q \in DOMAIN cache' : CacheOK(cache'[q])
    BY <1>4, <1>5, <1>7 DEF Place, Shape, TypeOK
  <1>11. UNCHANGED <<root, inputs, eager, status, result, applied>>
    BY DEF EnterModel
  <1>12. /\ IsSeq(stack') /\ \A i \in 1 .. Len(stack') : FrameOK(stack'[i])
         /\ StackShape'
    BY <1>1, <1>4, <1>5, <1>8, <1>9, <1>10, <1>11, PushShape
  <1> QED  BY <1>10, <1>11, <1>12 DEF Shape, TypeOK

(***************************************************************************)
(* When a nested call returns, the frame below it is the node that called  *)
(* it, that node has a frame below it in turn, and no frame that stays     *)
(* uses the cache that goes.                                               *)
(***************************************************************************)
LEMMA CallerOK ==
  ASSUME Shape, Running, Top.key = Outputs, Len(stack) > 1
  PROVE  LET n == Len(stack) IN
         /\ n > 2
         /\ Calls(stack[n - 1], Top)
         /\ FrameOK(stack[n - 1])
         /\ stack[n - 2].path = stack[n - 1].path
         /\ stack[n - 1].path # Top.path
         /\ stack[n - 1].path \in DOMAIN cache
         /\ DOMAIN cache \ {Top.path} = {stack[i].path : i \in 1 .. n - 2}
  <1> DEFINE n == Len(stack)
  <1>0. n = Len(stack) /\ n \in Nat /\ n > 1 /\ Top = stack[n]
    BY TopOK DEF Top
  <1> HIDE DEF n
  <1>1. n \in 2 .. n /\ n - 1 \in 1 .. n
    BY <1>0
  <1>2. Calls(stack[n - 1], Top)
    BY <1>0, <1>1 DEF Shape, StackShape
  <1>3. n > 2
    <2>1. n # 2
      BY <1>0, <1>2 DEF Shape, StackShape, Calls
    <2> QED  BY <1>0, <2>1
  <1>4. stack[n - 2].path = stack[n - 1].path
    <2>1. n - 1 \in 2 .. n /\ (n - 1) - 1 = n - 2
      BY <1>0, <1>3
    <2>2. stack[n - 1].key # Outputs
      BY <1>2 DEF Calls
    <2>3. Asks(stack[(n - 1) - 1], stack[n - 1])
      BY <1>0, <2>1, <2>2 DEF Shape, StackShape
    <2> QED  BY <2>1, <2>3 DEF Asks
  <1>5. \A i \in 1 .. n - 1 : stack[i].path # Top.path
    <2>1. ASSUME NEW i \in 1 .. n - 1, stack[i].path = Top.path
          PROVE  FALSE
      <3>1. i \in 1 .. n /\ i < n /\ n \in 1 .. n
        BY <1>0
      <3>2. Len(stack[i].path) < Len(stack[n].path)
        BY <1>0, <3>1 DEF Shape, StackShape
      <3>3. IsSeq(Top.path)
        BY TopOK DEF FrameOK
      <3> QED  BY <1>0, <2>1, <3>2, <3>3 DEF IsSeq
    <2> QED  BY <2>1
  <1>6. DOMAIN cache = {stack[i].path : i \in 1 .. n}
    BY <1>0 DEF Shape, StackShape
  <1>7. DOMAIN cache \ {Top.path} = {stack[i].path : i \in 1 .. n - 2}
    <2>1. \A i \in 1 .. n : i \in 1 .. n - 2 \/ i = n - 1 \/ i = n
      BY <1>0
    <2>2. n - 2 \in 1 .. n - 2 /\ \A i \in 1 .. n - 2 : i \in 1 .. n - 1 /\ i \in 1 .. n
      BY <1>0, <1>3
    <2> QED  BY <1>0, <1>4, <1>5, <1>6, <2>1, <2>2
  <1>8. FrameOK(stack[n - 1]) /\ stack[n - 1].path # Top.path
    BY <1>0, <1>1, <1>5 DEF Shape, TypeOK
  <1> QED  BY <1>0, <1>1, <1>2, <1>3, <1>4, <1>6, <1>7, <1>8

LEMMA LeaveModelShape ==
  ASSUME Shape, LeaveModel
  PROVE  Shape'
  <1> DEFINE n == Len(stack)
             caller == stack[n - 1]
             ts == Activated(caller.model, caller.key, Top.got)
             rest == Drop(cache, Top.path)
  <1>0. n = Len(stack)
    OBVIOUS
  <1>1. Running /\ Top.key = Outputs /\ n > 1
    BY DEF LeaveModel
  <1>2. n \in Nat /\ IsSeq(stack) /\ FrameOK(Top)
    BY <1>1, TopOK DEF Shape, TypeOK
  <1>3. /\ n > 2 /\ caller.path # Top.path /\ caller.path \in DOMAIN cache
        /\ DOMAIN cache \ {Top.path} = {stack[i].path : i \in 1 .. n - 2}
    BY <1>1, CallerOK
  <1>4. IsSeq(ts)
    BY <1>2, ActivatedIsSeq DEF FrameOK
  <1>5. cache' = Store(rest, caller.path, caller.key, ts)
    BY DEF LeaveModel
  <1>6. stack' = Pop(Pop(stack)) /\ UNCHANGED <<root, inputs, eager, status, result>>
    BY DEF LeaveModel
  <1>7. IsSeq(applied')
    BY AppendSeq DEF LeaveModel, Shape, TypeOK
  <1>8. /\ DOMAIN rest = DOMAIN cache \ {Top.path}
        /\ rest = [p \in DOMAIN rest |-> rest[p]]
        /\ \A p \in DOMAIN rest : CacheOK(rest[p])
    BY DEF Drop, Shape, TypeOK
  <1> HIDE DEF n, caller, ts, rest
  <1>9. /\ cache' = [p \in DOMAIN cache' |-> cache'[p]]
        /\ DOMAIN cache' = DOMAIN rest
        /\ \A p \in DOMAIN cache' : CacheOK(cache'[p])
    <2>1. caller.path \in DOMAIN rest
      BY <1>3, <1>8
    <2> QED  BY <1>4, <1>5, <1>8, <2>1, StoreOK
  <1>10. /\ IsSeq(stack') /\ Len(stack') = n - 2
         /\ \A i \in 1 .. n - 2 : stack'[i] = stack[i]
    <2>1. IsSeq(Pop(stack)) /\ Len(Pop(stack)) = n - 1
          /\ \A i \in 1 .. n - 1 : Pop(stack)[i] = stack[i]
      BY <1>0, <1>1, <1>2, PopSeq
    <2>2. Len(Pop(stack)) > 0 /\ Len(Pop(stack)) - 1 = n - 2
      BY <1>2, <1>3, <2>1
    <2>3. IsSeq(Pop(Pop(stack))) /\ Len(Pop(Pop(stack))) = n - 2
          /\ \A i \in 1 .. n - 2 : Pop(Pop(stack))[i] = Pop(stack)[i]
      BY <2>1, <2>2, PopSeq
    <2> QED  BY <1>2, <1>6, <2>1, <2>3
  <1>11. /\ \A i \in 1 .. Len(stack') : FrameOK(stack'[i])
         /\ StackShape'
    <2>1. n - 2 \in 1 .. Len(stack)
      BY <1>0, <1>2, <1>3
    <2>2. DOMAIN cache' = {stack[i].path : i \in 1 .. n - 2}
      BY <1>3, <1>8, <1>9
    <2> QED  BY <1>1, <1>6, <1>10, <2>1, <2>2, PrefixShape
  <1> QED  BY <1>6, <1>7, <1>9, <1>10, <1>11 DEF Shape, TypeOK

LEMMA ShapeInvariant == Spec => []Shape
  <1>1. Init => Shape
    <2> SUFFICES ASSUME Init PROVE Shape
      OBVIOUS
    <2>1. Len(stack) = 0 /\ IsSeq(stack)
      BY EmptyIsSeq DEF Init
    <2> QED  BY <2>1, EmptyIsSeq, NoCacheOK DEF Init, Shape, TypeOK, StackShape
  <1>2. Shape /\ [Next]_vars => Shape'
    <2> SUFFICES ASSUME Shape, [Next]_vars PROVE Shape'
      OBVIOUS
    <2>1. ASSUME NEW n \in 0 .. Len(Arguments), Predict(n) PROVE Shape'
      BY <2>1, PredictShape
    <2>2. CASE DanglingLayer \/ InvalidNode \/ InvalidTensor \/ RejectInputs \/ InvalidOutputs
      BY <2>2, ThrowShape DEF DanglingLayer, InvalidNode, InvalidTensor, RejectInputs, InvalidOutputs
    <2>3. CASE Deliver
      BY <2>3, DeliverShape
    <2>4. CASE Descend
      BY <2>4, DescendShape
    <2>5. CASE ApplyLayer
      BY <2>5, ApplyLayerShape
    <2>6. CASE EnterModel
      BY <2>6, EnterModelShape
    <2>7. CASE LeaveModel
      BY <2>7, LeaveModelShape
    <2>8. CASE Return
      BY <2>8, ReturnShape
    <2>9. CASE UNCHANGED vars
      BY <2>9 DEF vars, Shape, TypeOK, StackShape
    <2> QED  BY <2>1, <2>2, <2>3, <2>4, <2>5, <2>6, <2>7, <2>8, <2>9 DEF Next, Step
  <1> QED  BY <1>1, <1>2, PTL DEF Spec

(***************************************************************************)
(* Every state of every prediction is type correct, and the explicit stack *)
(* is the call stack of the recursion.                                     *)
(***************************************************************************)
THEOREM TypeCorrect == Spec => []TypeOK
  BY ShapeInvariant, PTL DEF Shape

THEOREM StackIsRecursion == Spec => []StackShape
  BY ShapeInvariant, PTL DEF Shape

(***************************************************************************)
(* The inductive invariant: the frames hold tensors of the connections     *)
(* they have come past, and the caches hold tensors of their keys.         *)
(***************************************************************************)
FrameMeans(r, f) ==
  /\ f.path \in DOMAIN ModelAt[r]
  /\ ModelAt[r][f.path] = f.model
  /\ f.key # Outputs => f.key \in Evaluated(f.model)
  /\ \A j \in 1 .. Len(f.got) :
       /\ Resolves(f.model, Want(f)[j])
       /\ f.got[j] = TensorOf(r, f.path, f.model, Want(f)[j])

EntryMeans(r, p, k, ts) ==
  /\ k \in NodeKeys(ModelAt[r][p]) \cup InputKeys(ModelAt[r][p])
  /\ ts = Meaning[r][p][k]
  /\ Len(ts) = Width(ModelAt[r][p], k)

CallMeans(p) ==
  /\ InputKeys(ModelAt[root][p]) \subseteq DOMAIN cache[p]
  /\ \A k \in DOMAIN cache[p] :
       \/ EntryMeans(root, p, k, cache[p][k])
       \/ eager /\ cache[p][k] = << >> /\ UnderEvaluation(p, k)

Means ==
  /\ \A i \in 1 .. Len(stack) : FrameMeans(root, stack[i])
  /\ \A p \in DOMAIN cache : CallMeans(p)
  /\ ResultMeansOutputs
-----------------------------------------------------------------------------
(***************************************************************************)
(* A frame that has come past all its connections holds what the equations *)
(* ask for.                                                                *)
(***************************************************************************)
LEMMA CompleteFrame ==
  ASSUME NEW r \in Roots, NEW f, FrameOK(f), FrameMeans(r, f), Complete(f)
  PROVE  f.got = Gathered(r, f.path, f.model, Want(f))
  <1>1. f.got = [j \in 1 .. Len(f.got) |-> f.got[j]] /\ Len(f.got) = Len(Want(f))
    BY DEF FrameOK, IsSeq, Complete
  <1>2. \A j \in 1 .. Len(f.got) : f.got[j] = TensorOf(r, f.path, f.model, Want(f)[j])
    BY DEF FrameMeans
  <1> QED  BY <1>1, <1>2 DEF Gathered

LEMMA CompleteNode ==
  ASSUME NEW r \in Roots, NEW f, FrameOK(f), FrameMeans(r, f), Complete(f),
         f.key # Outputs, ArityOK(f.model, f.key, Len(f.got)),
         IsModel(f.model, f.key) \/ <<f.model, f.key>> \notin Rejecting
  PROVE  /\ NodeOK(f.model, f.key)
         /\ f.key \in Evaluated(f.model)
         /\ f.got = Gathered(r, f.path, f.model, Inbound(f.model, f.key))
  <1>1. Want(f) = Inbound(f.model, f.key)
    BY DEF Want
  <1>2. Len(f.got) = Len(Inbound(f.model, f.key))
    BY <1>1 DEF Complete
  <1> QED  BY <1>1, <1>2, CompleteFrame DEF FrameMeans, NodeOK

LEMMA GatheredLen ==
  ASSUME NEW r, NEW p, NEW m, NEW cs, IsSeq(cs)
  PROVE  Len(Gathered(r, p, m, cs)) = Len(cs)
  <1> DEFINE f == [i \in 1 .. Len(cs) |-> TensorOf(r, p, m, cs[i])]
  <1>1. Len(cs) \in Nat /\ f = [i \in 1 .. Len(cs) |-> f[i]]
    BY DEF IsSeq
  <1> QED  BY <1>1, FunctionIsSeq DEF Gathered

LEMMA GatheredIsSeq ==
  ASSUME NEW r, NEW p, NEW m, NEW cs, IsSeq(cs)
  PROVE  IsSeq(Gathered(r, p, m, cs))
  <1> DEFINE f == [i \in 1 .. Len(cs) |-> TensorOf(r, p, m, cs[i])]
  <1>1. Len(cs) \in Nat /\ f = [i \in 1 .. Len(cs) |-> f[i]]
    BY DEF IsSeq
  <1> QED  BY <1>1, FunctionIsSeq DEF Gathered

LEMMA ApplyLen ==
  ASSUME NEW m \in Models, NEW k \in NodeKeys(m), ~IsModel(m, k),
         NEW args, IsSeq(args)
  PROVE  Len(Apply(m, k, args)) =
           IF LayerOf(m, k).kind = "each" THEN Len(args) ELSE 1
  <1>1. /\ IsSeq(ApplyImpl(m, k, args))
        /\ Len(ApplyImpl(m, k, args)) = IF LayerOf(m, k).kind = "each" THEN Len(args) ELSE 1
    <2>1. CASE LayerOf(m, k).kind = "each"
      <3> DEFINE f == [i \in 1 .. Len(args) |-> Tensor(m, k[1], << args[i] >>, 1)]
      <3>1. Len(args) \in Nat /\ f = [i \in 1 .. Len(args) |-> f[i]]
        BY DEF IsSeq
      <3>2. IsSeq(f) /\ Len(f) = Len(args)
        BY <3>1, FunctionIsSeq
      <3> QED  BY <2>1, <3>2 DEF ApplyImpl
    <2>2. CASE LayerOf(m, k).kind # "each"
      BY <2>2, SingletonIsSeq DEF ApplyImpl
    <2> QED  BY <2>1, <2>2
  <1> QED  BY <1>1, ActivatedIsSeq DEF Apply

LEMMA PlainMeaning ==
  ASSUME NEW r \in Roots, NEW p \in DOMAIN ModelAt[r], NEW m \in Models, m = ModelAt[r][p],
         NEW k \in Evaluated(m), NodeOK(m, k), ~IsModel(m, k)
  PROVE  LET ts == Apply(m, k, Gathered(r, p, m, Inbound(m, k))) IN
         ts = Meaning[r][p][k] /\ Len(ts) = Width(m, k)
  <1> DEFINE args == Gathered(r, p, m, Inbound(m, k))
  <1>1. Meaning[r][p][k] = Apply(m, k, args)
    BY MeaningAssumption
  <1>2. k \in NodeKeys(m) /\ k \notin InputKeys(m)
    BY DEF Evaluated
  <1>3. IsSeq(args) /\ Len(args) = Len(Inbound(m, k))
    BY <1>2, InboundIsSeq, GatheredLen, GatheredIsSeq
  <1> HIDE DEF args
  <1>4. Len(Apply(m, k, args)) = IF LayerOf(m, k).kind = "each" THEN Len(Inbound(m, k)) ELSE 1
    BY <1>2, <1>3, ApplyLen
  <1>5. Len(Apply(m, k, args)) = Width(m, k)
    BY <1>2, <1>4 DEF Width, IsModel
  <1> QED  BY <1>1, <1>5 DEF args

LEMMA ModelMeaning ==
  ASSUME NEW r \in Roots, NEW p \in DOMAIN ModelAt[r], NEW m \in Models, m = ModelAt[r][p],
         NEW k \in Evaluated(m), NodeOK(m, k), IsModel(m, k)
  PROVE  LET b == Body(m, k)
             q == Append(p, k)
         IN /\ b \in Models /\ q \in DOMAIN ModelAt[r] /\ ModelAt[r][q] = b
            /\ \A j \in InputKeys(b) :
                 Meaning[r][q][j] = Seed(b, Gathered(r, p, m, Inbound(m, k)))[j]
            /\ OutputsOK(b) =>
                 LET ts == Activated(m, k, Gathered(r, q, b, Graph[b].outputs)) IN
                 ts = Meaning[r][p][k] /\ Len(ts) = Width(m, k)
  <1> DEFINE b == Body(m, k)
             q == Append(p, k)
             outs == Gathered(r, q, b, Graph[b].outputs)
  <1>1. q \in DOMAIN ModelAt[r] /\ ModelAt[r][q] = b
    BY CallsAssumption
  <1>2. k \in NodeKeys(m) /\ k \notin InputKeys(m)
    BY DEF Evaluated
  <1>3. b \in Models
    BY <1>2, NodeKeyParts, GraphAssumption DEF IsModel, LayerOf, Body
  <1>4. /\ \A j \in InputKeys(b) :
             Meaning[r][q][j] = Seed(b, Gathered(r, p, m, Inbound(m, k)))[j]
        /\ OutputsOK(b) => Meaning[r][p][k] = Activated(m, k, outs)
    BY MeaningAssumption
  <1>5. Len(Activated(m, k, outs)) = Width(m, k)
    <2>1. IsSeq(outs) /\ Len(outs) = Len(Graph[b].outputs)
      BY <1>3, GraphAssumption, GatheredLen, GatheredIsSeq
    <2> HIDE DEF outs
    <2>2. Len(Activated(m, k, outs)) = Len(Graph[b].outputs)
      BY <2>1, ActivatedIsSeq
    <2> QED  BY <1>2, <2>2 DEF Width, IsModel
  <1> QED  BY <1>1, <1>3, <1>4, <1>5

LEMMA SeedMeans ==
  ASSUME NEW r, NEW p, NEW m, m = ModelAt[r][p], NEW args,
         \A j \in InputKeys(m) : Meaning[r][p][j] = Seed(m, args)[j],
         NEW k \in InputKeys(m)
  PROVE  EntryMeans(r, p, k, Seed(m, args)[k])
  <1>1. Len(Seed(m, args)[k]) = 1
    BY SingletonIsSeq DEF Seed
  <1> QED  BY <1>1 DEF EntryMeans, Width

(***************************************************************************)
(* What reading the cache gives: an entry that is there and long enough is *)
(* no placeholder.                                                         *)
(***************************************************************************)
LEMMA DeliveredMeans ==
  ASSUME Shape, Means, Deliver
  PROVE  /\ Resolves(Top.model, Demand)
         /\ Read(DemandKey, Demand.tensor) = TensorOf(root, Top.path, Top.model, Demand)
  <1>1. Running /\ Demanding /\ Known(Top.model, Demand) /\ NodeIndexOK
        /\ DemandKey \in DOMAIN TopCache /\ Demand.tensor < Len(TopCache[DemandKey])
    BY DEF Deliver, Demanding
  <1>2. /\ Top.path \in DOMAIN cache /\ IsConnection(Demand) /\ Top.model \in Models
        /\ Len(stack) \in 1 .. Len(stack)
    BY <1>1, TopOK, DemandOK
  <1>3. ModelAt[root][Top.path] = Top.model
    BY <1>2 DEF Means, FrameMeans, Top
  <1>4. TopCache[DemandKey] # << >>
    <2>1. Demand.tensor \in Nat
      BY <1>2, SizeTAssumption DEF IsConnection
    <2> QED  BY <1>1, <2>1
  <1>5. EntryMeans(root, Top.path, DemandKey, TopCache[DemandKey])
    BY <1>1, <1>2, <1>4 DEF Means, CallMeans, TopCache
  <1>6. \/ NodeExists(Top.model, DemandKey)
        \/ ~IsModel(Top.model, DemandKey) /\ DemandKey \in InputKeys(Top.model)
    <2>1. CASE NodeExists(Top.model, DemandKey)
      BY <2>1
    <2>2. CASE ~NodeExists(Top.model, DemandKey)
      <3>1. ~IsModel(Top.model, DemandKey)
        BY <1>1, <2>2 DEF NodeIndexOK
      <3>2. DemandKey \notin NodeKeys(Top.model)
        <4>1. ASSUME DemandKey \in NodeKeys(Top.model) PROVE FALSE
          <5>1. /\ DemandKey[2] \in Nat
                /\ DemandKey[2] + 1 \in 1 .. Len(LayerOf(Top.model, DemandKey).nodes)
            BY <1>2, <4>1, NodeKeyParts
          <5> QED  BY <2>2, <5>1 DEF NodeExists
        <4> QED  BY <4>1
      <3> QED  BY <1>3, <1>5, <3>1, <3>2 DEF EntryMeans
    <2> QED  BY <2>1, <2>2
  <1> QED  BY <1>1, <1>3, <1>5, <1>6 DEF Resolves, EntryMeans, TensorOf, Read, DemandKey

LEMMA DeliverMeans ==
  ASSUME Shape, Means, Deliver
  PROVE  Means'
  <1> DEFINE n == Len(stack)
  <1>1. UNCHANGED <<root, inputs, eager, status, cache, result, applied>>
    BY DEF Deliver
  <1>2. /\ n \in Nat /\ n > 0 /\ Top = stack[n]
        /\ Len(stack') = n /\ FrameOK(stack'[n])
        /\ stack'[n].got = Append(Top.got, Read(DemandKey, Demand.tensor))
        /\ \A i \in 1 .. n : i # n => stack'[i] = stack[i]
    BY DeliverStack
  <1>3. \A i \in 1 .. n : /\ stack'[i].path = stack[i].path
                       /\ stack'[i].model = stack[i].model
                       /\ stack'[i].key = stack[i].key
    BY DeliverStack
  <1>4. \A i \in 1 .. n : FrameMeans(root, stack[i])
    BY DEF Means
  <1>5. \A p, k : UnderEvaluation(p, k) => UnderEvaluation(p, k)'
    BY <1>2, <1>3 DEF UnderEvaluation
  <1> HIDE DEF n
  <1>6. FrameMeans(root, stack'[n])
    <2> DEFINE g == stack'[n]
    <2>1. g.path = Top.path /\ g.model = Top.model /\ g.key = Top.key
      BY <1>2, <1>3
    <2>2. FrameMeans(root, Top)
      BY <1>2, <1>4
    <2>3. IsSeq(Top.got) /\ Len(Top.got) \in Nat
      BY TopOK DEF Deliver, Demanding, FrameOK, IsSeq
    <2>4. /\ Len(g.got) = Len(Top.got) + 1
          /\ g.got[Len(Top.got) + 1] = Read(DemandKey, Demand.tensor)
          /\ \A j \in 1 .. Len(Top.got) : g.got[j] = Top.got[j]
      BY <1>2, <2>3, AppendSeq
    <2> HIDE DEF g
    <2>5. Want(g) = Want(Top)
      BY <2>1 DEF Want
    <2>6. ASSUME NEW j \in 1 .. Len(g.got)
          PROVE  /\ Resolves(g.model, Want(g)[j])
                 /\ g.got[j] = TensorOf(root, g.path, g.model, Want(g)[j])
      <3>1. CASE j = Len(Top.got) + 1
        BY <2>1, <2>4, <2>5, <3>1, DeliveredMeans DEF Demand
      <3>2. CASE j # Len(Top.got) + 1
        <4>1. j \in 1 .. Len(Top.got)
          BY <2>3, <2>4, <3>2
        <4> QED  BY <2>1, <2>2, <2>4, <2>5, <4>1 DEF FrameMeans
      <3> QED  BY <3>1, <3>2
    <2>7. FrameMeans(root, g)
      BY <2>1, <2>2, <2>6 DEF FrameMeans
    <2> QED  BY <2>7 DEF g
  <1>7. \A i \in 1 .. Len(stack') : FrameMeans(root', stack'[i])
    BY <1>1, <1>2, <1>4, <1>6
  <1>8. \A p \in DOMAIN cache' : CallMeans(p)'
    BY <1>1, <1>5 DEF Means, CallMeans
  <1> QED  BY <1>1, <1>7, <1>8 DEF Means, ResultMeansOutputs

LEMMA PredictMeans ==
  ASSUME Shape, Means, NEW n \in 0 .. Len(Arguments), Predict(n)
  PROVE  Means'
  <1>1. root' = root /\ status' # "returned" /\ root \in Roots
    BY DEF Predict, Shape, TypeOK
  <1>2. CASE n = Len(Graph[root].inputs)
    <2> DEFINE f == Frame(<< >>, root, Outputs)
               args == SubSeq(Arguments, 1, n)
    <2>1. stack' = << f >> /\ cache' = [p \in {<< >>} |-> Seed(root, args)]
      BY <1>2 DEF Predict
    <2>2. << >> \in DOMAIN ModelAt[root] /\ ModelAt[root][<< >>] = root
      BY <1>1, CallsAssumption
    <2>3. FrameMeans(root, f)
      BY <2>2 DEF FrameMeans, Frame
    <2> HIDE DEF f
    <2>4. Len(stack') = 1 /\ stack'[1] = f
      BY <2>1, SingletonIsSeq
    <2>5. \A j \in InputKeys(root) : Meaning[root][<< >>][j] = Seed(root, args)[j]
      <3>1. Len(Graph[root].inputs) <= Len(Arguments)
        BY <1>2, ArgumentsAssumption DEF IsSeq
      <3> QED  BY <1>1, <1>2, <3>1, MeaningAssumption
    <2> HIDE DEF args
    <2>6. \A k \in InputKeys(root) : EntryMeans(root, << >>, k, Seed(root, args)[k])
      BY <2>2, <2>5, SeedMeans
    <2>7. CallMeans(<< >>)'
      BY <1>1, <2>1, <2>2, <2>6, SeedOK DEF CallMeans
    <2> QED  BY <1>1, <2>1, <2>3, <2>4, <2>7 DEF Means, ResultMeansOutputs
  <1>3. CASE n # Len(Graph[root].inputs)
    <2>1. Len(stack') = 0 /\ DOMAIN cache' = {}
      BY <1>3, NoCacheOK DEF Predict
    <2> QED  BY <1>1, <2>1 DEF Means, ResultMeansOutputs
  <1> QED  BY <1>2, <1>3

LEMMA ThrowMeans ==
  ASSUME Shape, Means, Throw
  PROVE  Means'
  <1>1. Len(stack') = 0 /\ DOMAIN cache' = {}
    BY NoCacheOK DEF Throw
  <1> QED  BY <1>1 DEF Means, ResultMeansOutputs, Throw

LEMMA ReturnMeans ==
  ASSUME Shape, Means, Return
  PROVE  Means'
  <1>1. Len(stack') = 0 /\ DOMAIN cache' = {}
    BY NoCacheOK DEF Return
  <1>2. Top.got = Gathered(root, << >>, root, Graph[root].outputs)
    <2>1. Running /\ Complete(Top) /\ Top = stack[1] /\ Len(stack) = 1
      BY DEF Return, Top
    <2>2. FrameOK(Top) /\ FrameMeans(root, Top) /\ root \in Roots
      BY <2>1, TopOK DEF Means, Shape, TypeOK
    <2>3. Top.path = << >> /\ Top.model = root /\ Top.key = Outputs
      BY <2>1 DEF Shape, StackShape
    <2> QED  BY <2>1, <2>2, <2>3, CompleteFrame DEF Want
  <1>3. root' = root /\ result' = Top.got
    BY DEF Return
  <1>4. ResultMeansOutputs'
    BY <1>2, <1>3 DEF ResultMeansOutputs
  <1> QED  BY <1>1, <1>4 DEF Means

LEMMA DescendMeans ==
  ASSUME Shape, Means, Descend
  PROVE  Means'
  <1> DEFINE n == Len(stack)
             g == Frame(Top.path, Top.model, DemandKey)
  <1>1. Running /\ Demanding /\ DemandKey \notin DOMAIN TopCache
    BY DEF Descend, Demanding
  <1>2. UNCHANGED <<root, inputs, eager, status, result, applied>> /\ stack' = Append(stack, g)
    BY DEF Descend
  <1>3. /\ n \in Nat /\ n > 0 /\ IsSeq(stack) /\ Top = stack[n] /\ Top.path \in DOMAIN cache
        /\ FrameMeans(root, Top)
    BY <1>1, TopOK DEF Shape, TypeOK, Means, Top
  <1>4. DemandKey \in Evaluated(Top.model)
    <2>1. NodeExists(Top.model, DemandKey)
      BY DEF Descend, NodeIndexOK
    <2>2. DemandKey \in NodeKeys(Top.model)
      BY <1>1, <2>1, DemandOK, KeyOfExistingNode DEF Descend, DemandKey
    <2>3. InputKeys(Top.model) \subseteq DOMAIN TopCache
      BY <1>3 DEF Means, CallMeans, FrameMeans, TopCache
    <2> QED  BY <1>1, <2>2, <2>3 DEF Evaluated
  <1>5. FrameMeans(root, g)
    BY <1>3, <1>4 DEF FrameMeans, Frame
  <1>6. g.path = Top.path /\ g.key = DemandKey
    BY DEF Frame
  <1> HIDE DEF g
  <1>7. Len(stack') = n + 1 /\ stack'[n + 1] = g /\ \A i \in 1 .. n : stack'[i] = stack[i]
    BY <1>2, <1>3, AppendSeq
  <1>8. \A i \in 1 .. Len(stack') : FrameMeans(root', stack'[i])
    BY <1>2, <1>3, <1>5, <1>7 DEF Means
  <1>9. ASSUME NEW p, NEW k, UnderEvaluation(p, k)
        PROVE  UnderEvaluation(p, k)'
    <2>1. \A i \in 1 .. n : i \in 1 .. n + 1
      BY <1>3
    <2> QED  BY <1>7, <1>9, <2>1 DEF UnderEvaluation
  <1>11. ASSUME NEW p, NEW k, p = Top.path, k = DemandKey
         PROVE  UnderEvaluation(p, k)'
    <2>1. n + 1 \in 1 .. n + 1
      BY <1>3
    <2> QED  BY <1>6, <1>7, <1>11, <2>1 DEF UnderEvaluation
  <1>10. ASSUME NEW p \in DOMAIN cache' PROVE CallMeans(p)'
    <2>1. CASE ~eager
      <3>1. cache' = cache
        BY <2>1 DEF Descend
      <3> QED  BY <1>2, <1>9, <3>1 DEF Means, CallMeans
    <2>2. CASE eager
      <3>1. cache' = Store(cache, Top.path, DemandKey, << >>)
        BY <2>2 DEF Descend
      <3>2. /\ DOMAIN cache' = DOMAIN cache
            /\ cache'[Top.path] = Place(cache[Top.path], DemandKey, << >>)
            /\ \A x \in DOMAIN cache : x # Top.path => cache'[x] = cache[x]
        BY <1>3, <3>1, StoreOK, EmptyIsSeq DEF Shape, TypeOK
      <3>3. CASE p # Top.path
        BY <1>2, <1>9, <3>2, <3>3 DEF Means, CallMeans
      <3>4. CASE p = Top.path
        <4>1. /\ DOMAIN cache'[p] = DOMAIN cache[p] \cup {DemandKey}
              /\ cache'[p][DemandKey] = << >>
              /\ \A k \in DOMAIN cache[p] : k # DemandKey => cache'[p][k] = cache[p][k]
          BY <3>2, <3>4 DEF Place
        <4>2. CallMeans(p)
          BY <3>2 DEF Means
        <4>3. InputKeys(ModelAt[root][p]) \subseteq DOMAIN cache'[p]
          BY <4>1, <4>2 DEF CallMeans
        <4>4. ASSUME NEW k \in DOMAIN cache'[p]
              PROVE  \/ EntryMeans(root, p, k, cache'[p][k])
                     \/ eager /\ cache'[p][k] = << >> /\ UnderEvaluation(p, k)'
          <5>1. CASE k = DemandKey
            BY <1>11, <2>2, <3>4, <4>1, <5>1
          <5>2. CASE k # DemandKey
            BY <1>9, <4>1, <4>2, <5>2 DEF CallMeans
          <5> QED  BY <5>1, <5>2
        <4> QED  BY <1>2, <4>3, <4>4 DEF CallMeans
      <3> QED  BY <3>3, <3>4
    <2> QED  BY <2>1, <2>2
  <1> QED  BY <1>2, <1>8, <1>10 DEF Means, ResultMeansOutputs

LEMMA ApplyLayerMeans ==
  ASSUME Shape, Means, ApplyLayer
  PROVE  Means'
  <1> DEFINE n == Len(stack)
             ts == Apply(Top.model, Top.key, Top.got)
  <1>1. /\ Running /\ Complete(Top) /\ Top.key # Outputs /\ ~IsModel(Top.model, Top.key)
        /\ ArityOK(Top.model, Top.key, Len(Top.got))
        /\ <<Top.model, Top.key>> \notin Rejecting
    BY DEF ApplyLayer, Applying
  <1>2. UNCHANGED <<root, inputs, eager, status, result>> /\ stack' = Pop(stack)
    BY DEF ApplyLayer
  <1>3. /\ n \in Nat /\ n > 0 /\ IsSeq(stack) /\ Top = stack[n] /\ Top.path \in DOMAIN cache
        /\ FrameMeans(root, Top) /\ FrameOK(Top) /\ root \in Roots
    BY <1>1, TopOK DEF Shape, TypeOK, Means, Top
  <1>4. IsSeq(ts) /\ EntryMeans(root, Top.path, Top.key, ts)
    <2>1. /\ NodeOK(Top.model, Top.key) /\ Top.key \in Evaluated(Top.model)
          /\ Top.got = Gathered(root, Top.path, Top.model, Inbound(Top.model, Top.key))
      BY <1>1, <1>3, CompleteNode
    <2>2. /\ Top.model \in Models /\ Top.path \in DOMAIN ModelAt[root]
          /\ ModelAt[root][Top.path] = Top.model
      BY <1>3 DEF FrameMeans, FrameOK
    <2>3. ts = Meaning[root][Top.path][Top.key] /\ Len(ts) = Width(Top.model, Top.key)
      <3> DEFINE args == Gathered(root, Top.path, Top.model, Inbound(Top.model, Top.key))
      <3>1. Apply(Top.model, Top.key, args) = Meaning[root][Top.path][Top.key]
            /\ Len(Apply(Top.model, Top.key, args)) = Width(Top.model, Top.key)
        BY <1>1, <1>3, <2>1, <2>2, PlainMeaning
      <3>2. Top.got = args
        BY <2>1
      <3> QED  BY <3>1, <3>2
    <2>4. Top.key \in NodeKeys(Top.model)
      BY <2>1 DEF Evaluated
    <2>5. IsSeq(ts)
      BY <1>3, <2>2, <2>4, ApplyIsSeq DEF FrameOK
    <2> QED  BY <2>2, <2>3, <2>4, <2>5 DEF EntryMeans
  <1>5. cache' = Store(cache, Top.path, Top.key, ts)
    BY DEF ApplyLayer
  <1> HIDE DEF ts
  <1>6. Len(stack') = n - 1 /\ \A i \in 1 .. n - 1 : stack'[i] = stack[i]
    BY <1>2, <1>3, PopSeq
  <1>7. \A i \in 1 .. Len(stack') : FrameMeans(root', stack'[i])
    BY <1>2, <1>3, <1>6 DEF Means
  <1>8. ASSUME NEW p, NEW k, UnderEvaluation(p, k), p # Top.path \/ k # Top.key
        PROVE  UnderEvaluation(p, k)'
    <2>1. PICK i \in 1 .. n : stack[i].path = p /\ stack[i].key = k
      BY <1>8 DEF UnderEvaluation
    <2>2. i \in 1 .. n - 1
      BY <1>3, <1>8, <2>1
    <2> QED  BY <1>6, <2>1, <2>2 DEF UnderEvaluation
  <1>9. /\ DOMAIN cache' = DOMAIN cache
        /\ cache'[Top.path] = Place(cache[Top.path], Top.key, ts)
        /\ \A x \in DOMAIN cache : x # Top.path => cache'[x] = cache[x]
    BY <1>3, <1>4, <1>5, StoreOK DEF Shape, TypeOK
  <1>10. ASSUME NEW p \in DOMAIN cache' PROVE CallMeans(p)'
    <2>1. CallMeans(p)
      BY <1>9 DEF Means
    <2>2. CASE p # Top.path
      BY <1>2, <1>8, <1>9, <2>1, <2>2 DEF CallMeans
    <2>3. CASE p = Top.path
      <3>1. /\ DOMAIN cache'[p] = DOMAIN cache[p] \cup {Top.key}
            /\ cache'[p][Top.key] = ts
            /\ \A k \in DOMAIN cache[p] : k # Top.key => cache'[p][k] = cache[p][k]
        BY <1>9, <2>3 DEF Place
      <3> QED  BY <1>2, <1>4, <1>8, <2>1, <2>3, <3>1 DEF CallMeans
    <2> QED  BY <2>2, <2>3
  <1> QED  BY <1>2, <1>7, <1>10 DEF Means, ResultMeansOutputs

LEMMA EnterModelMeans ==
  ASSUME Shape, Means, EnterModel
  PROVE  Means'
  <1> DEFINE n == Len(stack)
             p == Append(Top.path, Top.key)
             b == Body(Top.model, Top.key)
             g == Frame(p, b, Outputs)
  <1>1. /\ Running /\ Complete(Top) /\ Top.key # Outputs /\ IsModel(Top.model, Top.key)
        /\ ArityOK(Top.model, Top.key, Len(Top.got))
    BY DEF EnterModel, Applying
  <1>2. /\ UNCHANGED <<root, inputs, eager, status, result, applied>>
        /\ stack' = Append(stack, g)
        /\ cache' = Place(cache, p, Seed(b, Top.got))
    BY DEF EnterModel, FreshCache
  <1>3. /\ n \in Nat /\ n > 0 /\ IsSeq(stack) /\ Top = stack[n]
        /\ FrameMeans(root, Top) /\ FrameOK(Top) /\ root \in Roots
    BY <1>1, TopOK DEF Shape, TypeOK, Means, Top
  <1>4. /\ NodeOK(Top.model, Top.key) /\ Top.key \in Evaluated(Top.model)
        /\ Top.got = Gathered(root, Top.path, Top.model, Inbound(Top.model, Top.key))
    BY <1>1, <1>3, CompleteNode
  <1>5. /\ p \in DOMAIN ModelAt[root] /\ ModelAt[root][p] = b
        /\ \A j \in InputKeys(b) : Meaning[root][p][j] = Seed(b, Top.got)[j]
    <2>1. /\ Top.model \in Models /\ Top.path \in DOMAIN ModelAt[root]
          /\ ModelAt[root][Top.path] = Top.model
      BY <1>3 DEF FrameMeans, FrameOK
    <2> QED  BY <1>1, <1>3, <1>4, <2>1, ModelMeaning
  <1>6. FrameMeans(root, g)
    BY <1>5 DEF FrameMeans, Frame
  <1> HIDE DEF g, p, b
  <1>7. Len(stack') = n + 1 /\ stack'[n + 1] = g /\ \A i \in 1 .. n : stack'[i] = stack[i]
    BY <1>2, <1>3, AppendSeq
  <1>8. \A i \in 1 .. Len(stack') : FrameMeans(root', stack'[i])
    BY <1>2, <1>3, <1>6, <1>7 DEF Means
  <1>9. \A q, k : UnderEvaluation(q, k) => UnderEvaluation(q, k)'
    <2>1. \A i \in 1 .. n : i \in 1 .. n + 1
      BY <1>3
    <2> QED  BY <1>7, <2>1 DEF UnderEvaluation
  <1>10. ASSUME NEW q \in DOMAIN cache' PROVE CallMeans(q)'
    <2>1. CASE q = p
      <3>1. cache'[q] = Seed(b, Top.got)
        BY <1>2, <2>1 DEF Place
      <3>2. \A k \in InputKeys(b) : EntryMeans(root, p, k, Seed(b, Top.got)[k])
        BY <1>5, SeedMeans
      <3> QED  BY <1>2, <1>5, <2>1, <3>1, <3>2, SeedOK DEF CallMeans
    <2>2. CASE q # p
      <3>1. q \in DOMAIN cache /\ cache'[q] = cache[q]
        BY <1>2, <2>2 DEF Place
      <3> QED  BY <1>2, <1>9, <3>1 DEF Means, CallMeans
    <2> QED  BY <2>1, <2>2
  <1> QED  BY <1>2, <1>8, <1>10 DEF Means, ResultMeansOutputs

LEMMA LeaveModelMeans ==
  ASSUME Shape, Means, LeaveModel
  PROVE  Means'
  <1> DEFINE n == Len(stack)
             caller == stack[n - 1]
             ts == Activated(caller.model, caller.key, Top.got)
             rest == Drop(cache, Top.path)
  <1>1. Running /\ Complete(Top) /\ Top.key = Outputs /\ n > 1
    BY DEF LeaveModel
  <1>2. /\ n \in Nat /\ IsSeq(stack) /\ Top = stack[n] /\ FrameOK(Top)
        /\ FrameMeans(root, Top) /\ root \in Roots
    BY <1>1, TopOK DEF Shape, TypeOK, Means, Top
  <1>3. /\ n > 2 /\ Calls(caller, Top) /\ FrameOK(caller)
        /\ caller.path # Top.path /\ caller.path \in DOMAIN cache
        /\ DOMAIN cache \ {Top.path} = {stack[i].path : i \in 1 .. n - 2}
    BY <1>1, CallerOK
  <1>4. FrameMeans(root, caller)
    <2>1. n - 1 \in 1 .. n
      BY <1>2, <1>3
    <2> QED  BY <2>1 DEF Means
  <1>5. stack' = Pop(Pop(stack)) /\ UNCHANGED <<root, inputs, eager, status, result>>
    BY DEF LeaveModel
  <1>6. cache' = Store(rest, caller.path, caller.key, ts)
    BY DEF LeaveModel
  <1>7. /\ DOMAIN rest = DOMAIN cache \ {Top.path}
        /\ rest = [p \in DOMAIN rest |-> rest[p]]
        /\ \A p \in DOMAIN rest : CacheOK(rest[p]) /\ rest[p] = cache[p]
    BY DEF Drop, Shape, TypeOK
  <1>8. IsSeq(ts)
    BY <1>2, ActivatedIsSeq DEF FrameOK
  <1> HIDE DEF caller, rest
  <1>9. EntryMeans(root, caller.path, caller.key, ts)
    <2>1. /\ caller.key # Outputs /\ Complete(caller) /\ IsModel(caller.model, caller.key)
          /\ ArityOK(caller.model, caller.key, Len(caller.got))
          /\ Top.path = Append(caller.path, caller.key)
          /\ Top.model = Body(caller.model, caller.key)
      BY <1>3 DEF Calls
    <2>2. NodeOK(caller.model, caller.key) /\ caller.key \in Evaluated(caller.model)
      BY <1>2, <1>3, <1>4, <2>1, CompleteNode
    <2>3. /\ caller.model \in Models /\ caller.path \in DOMAIN ModelAt[root]
          /\ ModelAt[root][caller.path] = caller.model
      BY <1>3, <1>4 DEF FrameMeans, FrameOK
    <2>4. Top.got = Gathered(root, Top.path, Top.model, Graph[Top.model].outputs)
      BY <1>1, <1>2, CompleteFrame DEF Want
    <2>5. OutputsOK(Top.model)
      BY <1>1, <1>2 DEF OutputsOK, FrameMeans, Complete, Want
    <2>6. ts = Meaning[root][caller.path][caller.key] /\ Len(ts) = Width(caller.model, caller.key)
      BY <1>2, <2>1, <2>2, <2>3, <2>4, <2>5, ModelMeaning
    <2> QED  BY <2>2, <2>3, <2>6 DEF EntryMeans, Evaluated
  <1> HIDE DEF ts, n
  <1>10. Len(stack') = n - 2 /\ \A i \in 1 .. n - 2 : stack'[i] = stack[i]
    <2>1. IsSeq(Pop(stack)) /\ Len(Pop(stack)) = n - 1
          /\ \A i \in 1 .. n - 1 : Pop(stack)[i] = stack[i]
      BY <1>1, <1>2, PopSeq DEF n
    <2>2. Len(Pop(stack)) > 0 /\ Len(Pop(stack)) - 1 = n - 2
      BY <1>2, <1>3, <2>1
    <2>3. Len(Pop(Pop(stack))) = n - 2
          /\ \A i \in 1 .. n - 2 : Pop(Pop(stack))[i] = Pop(stack)[i]
      BY <2>1, <2>2, PopSeq
    <2> QED  BY <1>2, <1>5, <2>1, <2>3
  <1>11. \A i \in 1 .. Len(stack') : FrameMeans(root', stack'[i])
    <2>1. \A i \in 1 .. n - 2 : i \in 1 .. n
      BY <1>2
    <2> QED  BY <1>5, <1>10, <2>1 DEF Means, n
  <1>12. ASSUME NEW p, NEW k, UnderEvaluation(p, k), p # Top.path,
                p # caller.path \/ k # caller.key
         PROVE  UnderEvaluation(p, k)'
    <2>1. PICK i \in 1 .. n : stack[i].path = p /\ stack[i].key = k
      BY <1>12 DEF UnderEvaluation, n
    <2>2. i # n /\ i # n - 1
      BY <1>2, <1>12, <2>1 DEF caller
    <2>3. i \in 1 .. n - 2
      BY <1>2, <2>2
    <2> QED  BY <1>10, <2>1, <2>3 DEF UnderEvaluation
  <1>13. /\ DOMAIN cache' = DOMAIN cache \ {Top.path}
         /\ cache'[caller.path] = Place(cache[caller.path], caller.key, ts)
         /\ \A x \in DOMAIN cache \ {Top.path} : x # caller.path => cache'[x] = cache[x]
    <2>1. caller.path \in DOMAIN rest
      BY <1>3, <1>7
    <2>2. /\ DOMAIN Store(rest, caller.path, caller.key, ts) = DOMAIN rest
          /\ Store(rest, caller.path, caller.key, ts)[caller.path]
               = Place(rest[caller.path], caller.key, ts)
          /\ \A x \in DOMAIN rest : x # caller.path =>
               Store(rest, caller.path, caller.key, ts)[x] = rest[x]
      BY <1>7, <1>8, <2>1, StoreOK
    <2> QED  BY <1>6, <1>7, <2>1, <2>2
  <1>14. ASSUME NEW p \in DOMAIN cache' PROVE CallMeans(p)'
    <2>1. CallMeans(p) /\ p # Top.path
      BY <1>13 DEF Means
    <2>2. CASE p # caller.path
      BY <1>5, <1>12, <1>13, <2>1, <2>2 DEF CallMeans
    <2>3. CASE p = caller.path
      <3>1. /\ DOMAIN cache'[p] = DOMAIN cache[p] \cup {caller.key}
            /\ cache'[p][caller.key] = ts
            /\ \A k \in DOMAIN cache[p] : k # caller.key => cache'[p][k] = cache[p][k]
        BY <1>13, <2>3 DEF Place
      <3> QED  BY <1>5, <1>9, <1>12, <2>1, <2>3, <3>1 DEF CallMeans
    <2> QED  BY <2>2, <2>3
  <1> QED  BY <1>5, <1>11, <1>14 DEF Means, ResultMeansOutputs

LEMMA MeansInvariant == Spec => [](Shape /\ Means)
  <1>1. Init => Means
    <2> SUFFICES ASSUME Init PROVE Means
      OBVIOUS
    <2>1. Len(stack) = 0 /\ DOMAIN cache = {} /\ status # "returned"
      BY NoCacheOK DEF Init
    <2> QED  BY <2>1 DEF Means, ResultMeansOutputs
  <1>2. Shape /\ Means /\ [Next]_vars => Means'
    <2> SUFFICES ASSUME Shape, Means, [Next]_vars PROVE Means'
      OBVIOUS
    <2>1. ASSUME NEW n \in 0 .. Len(Arguments), Predict(n) PROVE Means'
      BY <2>1, PredictMeans
    <2>2. CASE DanglingLayer \/ InvalidNode \/ InvalidTensor \/ RejectInputs \/ InvalidOutputs
      BY <2>2, ThrowMeans DEF DanglingLayer, InvalidNode, InvalidTensor, RejectInputs, InvalidOutputs
    <2>3. CASE Deliver
      BY <2>3, DeliverMeans
    <2>4. CASE Descend
      BY <2>4, DescendMeans
    <2>5. CASE ApplyLayer
      BY <2>5, ApplyLayerMeans
    <2>6. CASE EnterModel
      BY <2>6, EnterModelMeans
    <2>7. CASE LeaveModel
      BY <2>7, LeaveModelMeans
    <2>8. CASE Return
      BY <2>8, ReturnMeans
    <2>9. CASE UNCHANGED vars
      BY <2>9 DEF vars, Means, CallMeans, UnderEvaluation, ResultMeansOutputs
    <2> QED  BY <2>1, <2>2, <2>3, <2>4, <2>5, <2>6, <2>7, <2>8, <2>9 DEF Next, Step
  <1> QED  BY <1>1, <1>2, ShapeInvariant, PTL DEF Spec

(***************************************************************************)
(* Every entry of every live output_cache holds the tensors of its node,   *)
(* whatever the network, the depth of nesting and the build's order of     *)
(* evaluation.                                                             *)
(***************************************************************************)
THEOREM CacheIsCorrect == Spec => []CacheMeansNodes
  <1>1. Means => CacheMeansNodes
    BY DEF Means, CallMeans, EntryMeans, CacheMeansNodes
  <1> QED  BY <1>1, MeansInvariant, PTL

(***************************************************************************)
(* predict returns the tensors of the output connections, in their order.  *)
(***************************************************************************)
THEOREM ResultIsCorrect == Spec => []ResultMeansOutputs
  <1>1. Means => ResultMeansOutputs
    BY DEF Means
  <1> QED  BY <1>1, MeansInvariant, PTL
-----------------------------------------------------------------------------
(***************************************************************************)
(* No node is asked for while it is being evaluated: within one call, the  *)
(* rank of the nodes under evaluation falls from frame to frame.           *)
(***************************************************************************)
Descending ==
  \A i, j \in 1 .. Len(stack) :
    /\ i < j
    /\ stack[i].path = stack[j].path
    /\ stack[i].key # Outputs
    /\ stack[j].key # Outputs
    => Rank(stack[j].model, stack[j].key) < Rank(stack[i].model, stack[i].key)

LEMMA DemandBelow ==
  ASSUME Shape, Means, Descending, Demanding, Known(Top.model, Demand),
         DemandKey \in Evaluated(Top.model),
         NEW i \in 1 .. Len(stack), stack[i].path = Top.path, stack[i].key # Outputs
  PROVE  Rank(Top.model, DemandKey) < Rank(stack[i].model, stack[i].key)
  <1> DEFINE n == Len(stack)
  <1>1. Running /\ n \in Nat /\ n \in 1 .. n /\ Top = stack[n] /\ FrameOK(Top)
        /\ FrameMeans(root, Top) /\ Top.model \in Models
        /\ Len(Top.got) + 1 \in 1 .. Len(Want(Top))
    <2>1. Running
      BY DEF Demanding
    <2>2. Len(Top.got) \in Nat /\ Len(Top.got) < Len(Want(Top)) /\ IsSeq(Want(Top))
      BY <2>1, DemandOK, TopOK
    <2>3. Len(Top.got) + 1 \in 1 .. Len(Want(Top))
      BY <2>2 DEF IsSeq
    <2> QED  BY <2>1, <2>3, TopOK, DemandOK DEF Means, Top
  <1>2. Top.key # Outputs
    <2>1. ASSUME Top.key = Outputs PROVE FALSE
      <3>1. i < n
        BY <1>1, <2>1
      <3>2. Len(stack[i].path) < Len(stack[n].path)
        BY <1>1, <2>1, <3>1 DEF Shape, StackShape
      <3> QED  BY <1>1, <3>2 DEF FrameOK, IsSeq
    <2> QED  BY <2>1
  <1>3. Top.key \in Evaluated(Top.model) /\ stack[i].key \in Evaluated(stack[i].model)
        /\ stack[i].model \in Models
    BY <1>1, <1>2 DEF Means, FrameMeans, Shape, TypeOK, FrameOK
  <1>4. Rank(Top.model, DemandKey) < Rank(Top.model, Top.key)
    <2>1. Want(Top) = Inbound(Top.model, Top.key)
      BY <1>2 DEF Want
    <2> QED  BY <1>1, <1>3, <2>1, RankAssumption DEF Demand, DemandKey
  <1>5. CASE i = n
    BY <1>1, <1>4, <1>5
  <1>6. CASE i # n
    <2>1. Rank(Top.model, Top.key) < Rank(stack[i].model, stack[i].key)
      BY <1>1, <1>2, <1>6 DEF Descending
    <2>2. /\ Rank(Top.model, DemandKey) \in Nat
          /\ Rank(Top.model, Top.key) \in Nat
          /\ Rank(stack[i].model, stack[i].key) \in Nat
      BY <1>1, <1>3, RankAssumption
    <2> QED  BY <1>4, <2>1, <2>2
  <1> QED  BY <1>5, <1>6

LEMMA NoPlaceholderRead ==
  ASSUME Shape, Means, Descending
  PROVE  NeverReadsPlaceholder
  <1> SUFFICES ASSUME Demanding, Known(Top.model, Demand),
                      NEW i \in 1 .. Len(stack),
                      stack[i].path = Top.path, stack[i].key = DemandKey
               PROVE  FALSE
    BY DEF NeverReadsPlaceholder, UnderEvaluation
  <1>1. Top.model \in Models /\ IsConnection(Demand)
    BY DemandOK
  <1>2. DemandKey # Outputs
    <2>1. EffectiveNode(Top.model, Demand) \in 0 .. SizeT - 1
      BY <1>1, EffectiveNodeInRange
    <2>2. EffectiveNode(Top.model, Demand) # SizeT
      BY <2>1, SizeTAssumption
    <2> QED  BY <2>2 DEF DemandKey, KeyOf, Outputs
  <1>3. /\ stack[i].model = Top.model
        /\ DemandKey \in Evaluated(Top.model)
    <2>1. FrameMeans(root, stack[i]) /\ FrameMeans(root, Top)
      BY TopOK DEF Means, Demanding, Top
    <2> QED  BY <1>2, <2>1 DEF FrameMeans
  <1>4. Rank(Top.model, DemandKey) < Rank(Top.model, DemandKey)
    BY <1>2, <1>3, DemandBelow
  <1>5. Rank(Top.model, DemandKey) \in Nat
    BY <1>1, <1>3, RankAssumption
  <1> QED  BY <1>4, <1>5

LEMMA DescendingStep ==
  ASSUME Shape, Means, Descending, [Next]_vars
  PROVE  Descending'
  <1> DEFINE n == Len(stack)
  <1>0. n \in Nat /\ IsSeq(stack)
    BY DEF Shape, TypeOK, IsSeq
  <1>1. ASSUME NEW m \in 0 .. n, Len(stack') = m, \A i \in 1 .. m : stack'[i] = stack[i]
        PROVE  Descending'
    <2>1. \A i \in 1 .. m : i \in 1 .. n
      BY <1>0
    <2> QED  BY <1>1, <2>1 DEF Descending
  <1>2. CASE Len(stack') \in 0 .. 1
    <2>1. ASSUME NEW i \in 1 .. Len(stack'), NEW j \in 1 .. Len(stack'), i < j
          PROVE  FALSE
      <3>1. \A k \in 0 .. 1 : \A x, y \in 1 .. k : ~(x < y)
        OBVIOUS
      <3> HIDE DEF n
      <3> QED  BY <1>2, <2>1, <3>1
    <2> QED  BY <2>1 DEF Descending
  <1>3. ASSUME NEW i \in 0 .. Len(Arguments), Predict(i) PROVE Descending'
    <2>1. Len(stack') \in 0 .. 1
      BY <1>3, SingletonIsSeq DEF Predict
    <2> QED  BY <1>2, <2>1
  <1>4. CASE DanglingLayer \/ InvalidNode \/ InvalidTensor \/ RejectInputs \/ InvalidOutputs \/ Return
    <2>1. Len(stack') = 0
      BY <1>4 DEF DanglingLayer, InvalidNode, InvalidTensor, RejectInputs, InvalidOutputs, Return, Throw
    <2> QED  BY <1>2, <2>1
  <1>5. CASE Deliver
    <2>1. /\ Len(stack') = n
          /\ \A i \in 1 .. n : /\ stack'[i].path = stack[i].path
                             /\ stack'[i].model = stack[i].model
                             /\ stack'[i].key = stack[i].key
      BY <1>5, DeliverStack
    <2> QED  BY <2>1 DEF Descending
  <1>6. CASE Descend
    <2> DEFINE g == Frame(Top.path, Top.model, DemandKey)
    <2>1. Demanding /\ Running /\ Known(Top.model, Demand) /\ stack' = Append(stack, g)
      BY <1>6 DEF Descend, Demanding
    <2>2. g.path = Top.path /\ g.key = DemandKey /\ g.model = Top.model
      BY DEF Frame
    <2> HIDE DEF g
    <2>3. Len(stack') = n + 1 /\ stack'[n + 1] = g /\ \A i \in 1 .. n : stack'[i] = stack[i]
      BY <1>0, <2>1, AppendSeq
    <2>4. DemandKey \in Evaluated(Top.model)
      <3>1. NodeExists(Top.model, DemandKey)
        BY <1>6 DEF Descend, NodeIndexOK
      <3>2. DemandKey \in NodeKeys(Top.model)
        BY <2>1, <3>1, DemandOK, KeyOfExistingNode DEF DemandKey
      <3>3. InputKeys(Top.model) \subseteq DOMAIN TopCache
        BY <2>1, TopOK DEF Means, CallMeans, FrameMeans, TopCache, Top
      <3> QED  BY <1>6, <3>2, <3>3 DEF Evaluated, Descend
    <2>5. ASSUME NEW i \in 1 .. n + 1, NEW j \in 1 .. n + 1, i < j,
                 stack'[i].path = stack'[j].path, stack'[i].key # Outputs, stack'[j].key # Outputs
          PROVE  Rank(stack'[j].model, stack'[j].key) < Rank(stack'[i].model, stack'[i].key)
      <3>1. i \in 1 .. n /\ stack'[i] = stack[i]
        BY <1>0, <2>3, <2>5
      <3>2. CASE j = n + 1
        <4>1. stack[i].path = Top.path /\ stack[i].key # Outputs
          BY <2>2, <2>3, <2>5, <3>1, <3>2
        <4>2. Rank(Top.model, DemandKey) < Rank(stack[i].model, stack[i].key)
          BY <2>1, <2>4, <3>1, <4>1, DemandBelow
        <4> QED  BY <2>2, <2>3, <3>1, <3>2, <4>2
      <3>3. CASE j # n + 1
        <4>1. j \in 1 .. n /\ stack'[j] = stack[j]
          BY <1>0, <2>3, <3>3
        <4> QED  BY <2>5, <3>1, <4>1 DEF Descending
      <3> QED  BY <3>2, <3>3
    <2> QED  BY <2>3, <2>5 DEF Descending
  <1>7. CASE ApplyLayer
    <2>1. Len(stack) > 0 /\ stack' = Pop(stack)
      BY <1>7, TopOK DEF ApplyLayer, Applying
    <2>2. Len(stack') = n - 1 /\ \A i \in 1 .. n - 1 : stack'[i] = stack[i]
      BY <1>0, <2>1, PopSeq
    <2>3. n - 1 \in 0 .. n
      BY <1>0, <2>1
    <2> QED  BY <1>1, <2>2, <2>3
  <1>8. CASE EnterModel
    <2> DEFINE g == Frame(Append(Top.path, Top.key), Body(Top.model, Top.key), Outputs)
    <2>1. stack' = Append(stack, g)
      BY <1>8 DEF EnterModel
    <2>2. g.key = Outputs
      BY DEF Frame
    <2> HIDE DEF g
    <2>3. Len(stack') = n + 1 /\ stack'[n + 1] = g /\ \A i \in 1 .. n : stack'[i] = stack[i]
      BY <1>0, <2>1, AppendSeq
    <2>4. \A i \in 1 .. n + 1 : i \in 1 .. n \/ i = n + 1
      BY <1>0
    <2> QED  BY <2>2, <2>3, <2>4 DEF Descending
  <1>9. CASE LeaveModel
    <2>1. Len(stack) > 1 /\ stack' = Pop(Pop(stack))
      BY <1>9 DEF LeaveModel
    <2>2. IsSeq(Pop(stack)) /\ Len(Pop(stack)) = n - 1
          /\ \A i \in 1 .. n - 1 : Pop(stack)[i] = stack[i]
      BY <1>0, <2>1, PopSeq
    <2>3. Len(Pop(stack)) > 0 /\ (n - 1) - 1 = n - 2
      BY <1>0, <2>1, <2>2
    <2>4. Len(Pop(Pop(stack))) = n - 2
          /\ \A i \in 1 .. n - 2 : Pop(Pop(stack))[i] = Pop(stack)[i]
      BY <2>2, <2>3, PopSeq
    <2>5. n - 2 \in 0 .. n /\ \A i \in 1 .. n - 2 : i \in 1 .. n - 1
      BY <1>0, <2>1
    <2> QED  BY <1>1, <2>1, <2>2, <2>4, <2>5
  <1>10. CASE UNCHANGED vars
    BY <1>10 DEF vars, Descending
  <1> QED  BY <1>3, <1>4, <1>5, <1>6, <1>7, <1>8, <1>9, <1>10 DEF Next, Step

(***************************************************************************)
(* On a network whose references all resolve, none of the throwing actions *)
(* is ever enabled.                                                        *)
(***************************************************************************)
LEMMA DemandResolves ==
  ASSUME Shape, Means, Demanding, WellFormed(root)
  PROVE  Resolves(Top.model, Demand)
  <1>1. Running /\ FrameOK(Top) /\ FrameMeans(root, Top)
    BY TopOK DEF Demanding, Means, Top
  <1>2. Len(Top.got) + 1 \in 1 .. Len(Want(Top))
    <2>1. Len(Top.got) \in Nat /\ Len(Top.got) < Len(Want(Top)) /\ IsSeq(Want(Top))
      BY <1>1, DemandOK, TopOK
    <2> QED  BY <2>1 DEF IsSeq
  <1>3. /\ OutputsOK(Top.model)
        /\ \A k \in Evaluated(Top.model) : NodeOK(Top.model, k)
    BY <1>1 DEF FrameMeans, WellFormed
  <1>4. CASE Top.key = Outputs
    BY <1>2, <1>3, <1>4 DEF OutputsOK, Want, Demand
  <1>5. CASE Top.key # Outputs
    <2>1. NodeOK(Top.model, Top.key)
      BY <1>1, <1>3, <1>5 DEF FrameMeans
    <2> QED  BY <1>2, <1>5, <2>1 DEF NodeOK, Want, Demand
  <1> QED  BY <1>4, <1>5

LEMMA WellFormedDoesNotThrow ==
  ASSUME Shape, Means, Descending, WellFormed(root)
  PROVE  ~(DanglingLayer \/ InvalidNode \/ InvalidTensor \/ RejectInputs \/ InvalidOutputs)
  <1>1. ASSUME DanglingLayer PROVE FALSE
    BY <1>1, DemandResolves DEF DanglingLayer, Resolves
  <1>2. ASSUME InvalidNode PROVE FALSE
    <2>1. Resolves(Top.model, Demand) /\ Running
      BY <1>2, DemandResolves DEF InvalidNode, Demanding
    <2>2. InputKeys(Top.model) \subseteq DOMAIN TopCache
      BY <2>1, TopOK DEF Means, CallMeans, FrameMeans, TopCache, Top
    <2> QED  BY <1>2, <2>1, <2>2 DEF InvalidNode, Resolves, NodeIndexOK, DemandKey
  <1>3. ASSUME InvalidTensor PROVE FALSE
    <2>1. /\ Running /\ Demanding /\ Known(Top.model, Demand) /\ Resolves(Top.model, Demand)
          /\ DemandKey \in DOMAIN TopCache /\ ~(Demand.tensor < Len(TopCache[DemandKey]))
      <3>1. Demanding /\ Known(Top.model, Demand) /\ Running
            /\ DemandKey \in DOMAIN TopCache /\ Demand.tensor >= Len(TopCache[DemandKey])
        BY <1>3 DEF InvalidTensor, Demanding
      <3>2. IsSeq(TopCache[DemandKey]) /\ Demand.tensor \in Int
        BY <3>1, TopOK, DemandOK, SizeTAssumption DEF CacheOK, IsConnection
      <3>3. ~(Demand.tensor < Len(TopCache[DemandKey]))
        BY <3>1, <3>2 DEF IsSeq
      <3> QED  BY <3>1, <3>3, DemandResolves
    <2>2. ~UnderEvaluation(Top.path, DemandKey)
      BY <2>1, NoPlaceholderRead DEF NeverReadsPlaceholder
    <2>3. EntryMeans(root, Top.path, DemandKey, TopCache[DemandKey])
          /\ ModelAt[root][Top.path] = Top.model
      BY <2>1, <2>2, TopOK DEF Means, CallMeans, FrameMeans, TopCache, Top
    <2> QED  BY <2>1, <2>3 DEF EntryMeans, Resolves, DemandKey
  <1>4. ASSUME RejectInputs PROVE FALSE
    <2>1. Running /\ Complete(Top) /\ Top.key # Outputs
      BY <1>4 DEF RejectInputs, Applying
    <2>2. FrameMeans(root, Top)
      BY <2>1, TopOK DEF Means, Top
    <2>3. NodeOK(Top.model, Top.key)
      BY <2>1, <2>2 DEF FrameMeans, WellFormed
    <2>4. Len(Top.got) = Len(Inbound(Top.model, Top.key))
      BY <2>1 DEF Complete, Want
    <2> QED  BY <1>4, <2>3, <2>4 DEF RejectInputs, NodeOK
  <1>5. ASSUME InvalidOutputs PROVE FALSE
    BY <1>5 DEF InvalidOutputs, WellFormed
  <1> QED  BY <1>1, <1>2, <1>3, <1>4, <1>5

LEMMA ThrowsStep ==
  ASSUME Shape, Means, Descending, ThrowsWithReason, [Next]_vars
  PROVE  ThrowsWithReason'
  <1>1. UNCHANGED root
    BY DEF Next, Step, Predict, DanglingLayer, InvalidNode, Deliver, InvalidTensor, Descend,
           RejectInputs, InvalidOutputs, ApplyLayer, EnterModel, LeaveModel, Return, Throw, vars
  <1>2. ASSUME NEW n \in 0 .. Len(Arguments), Predict(n) PROVE ThrowsWithReason'
    <2>1. Len(inputs') = n
      BY <1>2, ArgumentsAssumption, PrefixSeq DEF Predict
    <2> QED  BY <1>1, <1>2, <2>1 DEF Predict, ThrowsWithReason
  <1>3. CASE DanglingLayer \/ InvalidNode \/ InvalidTensor \/ RejectInputs \/ InvalidOutputs
    BY <1>1, <1>3, WellFormedDoesNotThrow DEF ThrowsWithReason
  <1>4. CASE Deliver \/ Descend \/ ApplyLayer \/ EnterModel \/ LeaveModel
    BY <1>4 DEF Deliver, Descend, ApplyLayer, EnterModel, LeaveModel, ThrowsWithReason
  <1>5. CASE Return
    BY <1>5 DEF Return, ThrowsWithReason
  <1>6. CASE UNCHANGED vars
    BY <1>6 DEF vars, ThrowsWithReason
  <1> QED  BY <1>2, <1>3, <1>4, <1>5, <1>6 DEF Next, Step

LEMMA ThrowsInvariant == Spec => [](NeverReadsPlaceholder /\ ThrowsWithReason)
  <1>1. Init => Descending /\ ThrowsWithReason
    BY DEF Init, Descending, ThrowsWithReason
  <1>2. Shape /\ Means /\ Descending /\ ThrowsWithReason /\ [Next]_vars
          => Descending' /\ ThrowsWithReason'
    BY DescendingStep, ThrowsStep
  <1>3. Shape /\ Means /\ Descending => NeverReadsPlaceholder
    BY NoPlaceholderRead
  <1> QED  BY <1>1, <1>2, <1>3, MeansInvariant, PTL DEF Spec

(***************************************************************************)
(* An eager build's empty entry is never read as a result.                 *)
(***************************************************************************)
THEOREM PlaceholderIsNeverRead == Spec => []NeverReadsPlaceholder
  BY ThrowsInvariant, PTL

(***************************************************************************)
(* predict throws only on a network with a reference that does not resolve *)
(* or on a wrong number of inputs.                                         *)
(***************************************************************************)
THEOREM ThrowsOnlyWithReason == Spec => []ThrowsWithReason
  BY ThrowsInvariant, PTL
-----------------------------------------------------------------------------
(***************************************************************************)
(* The walk implements Dataflow: it applies every node at most once, and   *)
(* only after all that the node needs.                                     *)
(*                                                                         *)
(* The inductive invariant relates the history to the caches and frames.   *)
(* An application is remembered by the cache of its call as long as the    *)
(* call lives, and by the application of the node that made the call       *)
(* afterwards; what a cache holds, a frame has gathered and a call was     *)
(* passed has been applied, or is an input.                                *)
(***************************************************************************)
Remembered(x) ==
  /\ x = <<x[1], x[2]>>
  /\ IsSeq(x[1])
  /\ x[1] \in DOMAIN cache =>
       x[2] \in DOMAIN cache[x[1]] /\ ~UnderEvaluation(x[1], x[2])
  /\ Running /\ Len(x[1]) > 0 =>
       \/ x[1] \in DOMAIN cache
       \/ <<Pop(x[1]), x[1][Len(x[1])]>> \in Done

FrameFired(f, done) ==
  \A j \in 1 .. Len(f.got) :
    \/ KeyOf(f.model, Want(f)[j]) \in InputKeys(f.model)
    \/ <<f.path, KeyOf(f.model, Want(f)[j])>> \in done

CallFired(p) ==
  /\ \A k \in DOMAIN cache[p] :
       \/ k \in InputKeys(ModelAt[root][p])
       \/ <<p, k>> \in Done
       \/ UnderEvaluation(p, k)
  /\ PassedTo(root, p) \subseteq Done

History ==
  /\ AppliedOnce
  /\ \A x \in Done : Remembered(x)
Fired ==
  /\ \A i \in 1 .. Len(stack) : FrameFired(stack[i], Done)
  /\ \A p \in DOMAIN cache : CallFired(p)
-----------------------------------------------------------------------------
(***************************************************************************)
(* No two frames evaluate the same node of the same call.                  *)
(***************************************************************************)
LEMMA FramesDiffer ==
  ASSUME Shape, Means, Descending,
         NEW i \in 1 .. Len(stack), NEW j \in 1 .. Len(stack), i < j
  PROVE  stack[i].path # stack[j].path \/ stack[i].key # stack[j].key
  <1> SUFFICES ASSUME stack[i].path = stack[j].path, stack[i].key = stack[j].key
               PROVE  FALSE
    OBVIOUS
  <1>1. FrameOK(stack[i]) /\ FrameMeans(root, stack[i]) /\ FrameMeans(root, stack[j])
    BY DEF Shape, TypeOK, Means
  <1>2. Len(stack[i].path) \in Nat
    BY <1>1 DEF FrameOK, IsSeq
  <1>3. stack[j].key # Outputs
    BY <1>2 DEF Shape, StackShape
  <1>4. /\ stack[i].model = stack[j].model /\ stack[i].model \in Models
        /\ stack[i].key \in Evaluated(stack[i].model)
    BY <1>1, <1>3 DEF FrameMeans, FrameOK
  <1>5. Rank(stack[i].model, stack[i].key) < Rank(stack[i].model, stack[i].key)
    BY <1>3, <1>4 DEF Descending
  <1> QED  BY <1>4, <1>5, RankAssumption

LEMMA DoneGrows ==
  ASSUME IsSeq(applied), NEW x, applied' = Append(applied, x)
  PROVE  /\ Done' = Done \cup {x}
         /\ AppliedOnce /\ x \notin Done => AppliedOnce'
  <1> DEFINE n == Len(applied)
  <1>1. /\ Len(applied') = n + 1 /\ applied'[n + 1] = x /\ n \in Nat
        /\ \A i \in 1 .. n : applied'[i] = applied[i]
    BY AppendSeq DEF IsSeq
  <1>2. \A i \in 1 .. n + 1 : i \in 1 .. n \/ i = n + 1
    BY <1>1
  <1>3. n + 1 \in 1 .. n + 1 /\ \A i \in 1 .. n : i \in 1 .. n + 1
    BY <1>1
  <1> HIDE DEF n
  <1>4. Done = {applied[i] : i \in 1 .. n}
    BY DEF Done, n
  <1>5. Done' = {applied'[i] : i \in 1 .. n + 1}
    BY <1>1 DEF Done
  <1>6. Done' = Done \cup {x}
    BY <1>1, <1>2, <1>3, <1>4, <1>5
  <1>7. ASSUME AppliedOnce, x \notin Done,
               NEW i \in 1 .. n + 1, NEW j \in 1 .. n + 1, applied'[i] = applied'[j]
        PROVE  i = j
    BY <1>1, <1>2, <1>4, <1>7 DEF AppliedOnce, n
  <1> QED  BY <1>1, <1>6, <1>7 DEF AppliedOnce

(***************************************************************************)
(* ApplyLayer and LeaveModel alike: the node of frame f is applied, f and  *)
(* the frames above it go, and with them the cache of the call f made.     *)
(***************************************************************************)
LEMMA Application ==
  ASSUME Shape, Means, Descending, History, Fired, Running,
         NEW m \in Nat, m + 1 \in 1 .. Len(stack),
         NEW f, f = stack[m + 1], f.path \in DOMAIN cache',
         Len(stack') = m, \A i \in 1 .. m : stack'[i] = stack[i],
         \A i \in 1 .. Len(stack) :
           i > m + 1 => stack[i].path \notin DOMAIN cache',
         \A p \in DOMAIN cache' : p \in DOMAIN cache,
         \A p \in DOMAIN cache : p \in DOMAIN cache' \/ p = Append(f.path, f.key),
         DOMAIN cache'[f.path] = DOMAIN cache[f.path] \cup {f.key},
         \A p \in DOMAIN cache' : p # f.path => DOMAIN cache'[p] = DOMAIN cache[p],
         applied' = Append(applied, <<f.path, f.key>>),
         root' = root
  PROVE  /\ <<f.path, f.key>> \notin Done
         /\ Done' = Done \cup {<<f.path, f.key>>}
         /\ History'
         /\ Fired'
  <1> DEFINE x == <<f.path, f.key>>
  <1>1. FrameOK(f) /\ IsSeq(f.path) /\ f.path \in DOMAIN cache
    BY DEF Shape, TypeOK, FrameOK
  <1>2. UnderEvaluation(f.path, f.key)
    BY DEF UnderEvaluation
  <1>3. x \notin Done
    <2>1. x[1] = f.path /\ x[2] = f.key
      OBVIOUS
    <2> HIDE DEF x
    <2> QED  BY <1>1, <1>2, <2>1 DEF History, Remembered
  <1>4. Done' = Done \cup {x} /\ AppliedOnce'
    BY <1>3, DoneGrows DEF History, Shape, TypeOK
  <1>5. \A i \in 1 .. m : i \in 1 .. Len(stack) /\ i < m + 1
    BY DEF Shape, TypeOK, IsSeq
  <1>6. ASSUME NEW p, NEW k, UnderEvaluation(p, k)'
        PROVE  UnderEvaluation(p, k)
    BY <1>5, <1>6 DEF UnderEvaluation
  <1>7. ASSUME NEW p \in DOMAIN cache', NEW k, UnderEvaluation(p, k)
        PROVE  \/ UnderEvaluation(p, k)'
               \/ p = f.path /\ k = f.key
    <2>1. PICK i \in 1 .. Len(stack) : stack[i].path = p /\ stack[i].key = k
      BY <1>7 DEF UnderEvaluation
    <2>2. i \in 1 .. m \/ i = m + 1
      BY <2>1
    <2> QED  BY <2>1, <2>2 DEF UnderEvaluation
  <1>8. ~UnderEvaluation(f.path, f.key)'
    BY <1>5, FramesDiffer DEF UnderEvaluation
  <1>9. Remembered(x)'
    <2>1. x[1] = f.path /\ x[2] = f.key
      OBVIOUS
    <2>2. x = <<x[1], x[2]>>
      OBVIOUS
    <2> HIDE DEF x
    <2> QED  BY <1>1, <1>8, <2>1, <2>2 DEF Remembered
  <1>10. ASSUME NEW y \in Done PROVE Remembered(y)'
    <2>1. Remembered(y)
      BY DEF History
    <2>2. y[1] \in DOMAIN cache' =>
            y[2] \in DOMAIN cache'[y[1]] /\ ~UnderEvaluation(y[1], y[2])'
      BY <1>6, <2>1 DEF Remembered
    <2>3. ASSUME Len(y[1]) > 0
          PROVE  \/ y[1] \in DOMAIN cache'
                 \/ <<Pop(y[1]), y[1][Len(y[1])]>> \in Done'
      <3>1. CASE y[1] = Append(f.path, f.key)
        BY <1>1, <1>4, <3>1, PopAppend
      <3>2. CASE y[1] # Append(f.path, f.key)
        BY <1>4, <2>1, <2>3, <3>2 DEF Remembered
      <3> QED  BY <3>1, <3>2
    <2> QED  BY <2>1, <2>2, <2>3 DEF Remembered
  <1>11. ASSUME NEW i \in 1 .. Len(stack') PROVE FrameFired(stack'[i], Done')
    <2>1. i \in 1 .. Len(stack) /\ stack'[i] = stack[i]
      BY <1>5
    <2>2. FrameFired(stack[i], Done)
      BY <2>1 DEF Fired
    <2> QED  BY <1>4, <2>1, <2>2 DEF FrameFired
  <1>12. ASSUME NEW p \in DOMAIN cache' PROVE CallFired(p)'
    <2>1. CallFired(p)
      BY DEF Fired
    <2>2. PassedTo(root, p) \subseteq Done'
      BY <1>4, <2>1 DEF CallFired
    <2>3. ASSUME NEW k \in DOMAIN cache'[p]
          PROVE  \/ k \in InputKeys(ModelAt[root][p])
                 \/ <<p, k>> \in Done'
                 \/ UnderEvaluation(p, k)'
      <3>1. CASE p = f.path /\ k = f.key
        BY <1>4, <3>1
      <3>2. CASE ~(p = f.path /\ k = f.key)
        <4>1. k \in DOMAIN cache[p]
          BY <3>2
        <4> QED  BY <1>4, <1>7, <2>1, <3>2, <4>1 DEF CallFired
      <3> QED  BY <3>1, <3>2
    <2> QED  BY <2>2, <2>3 DEF CallFired
  <1> QED  BY <1>3, <1>4, <1>9, <1>10, <1>11, <1>12 DEF History, Fired

LEMMA ApplyLayerFired ==
  ASSUME Shape, Means, Descending, History, Fired, ApplyLayer
  PROVE  /\ <<Top.path, Top.key>> \notin Done
         /\ Done' = Done \cup {<<Top.path, Top.key>>}
         /\ History'
         /\ Fired'
  <1> DEFINE n == Len(stack)
             ts == Apply(Top.model, Top.key, Top.got)
  <1>1. Running /\ Top.key # Outputs
    BY DEF ApplyLayer, Applying
  <1>2. /\ n \in Nat /\ n > 0 /\ IsSeq(stack) /\ Top = stack[n] /\ FrameOK(Top)
        /\ Top.path \in DOMAIN cache
    BY <1>1, TopOK DEF Shape, TypeOK, Top
  <1>3. IsSeq(ts)
    BY <1>1, <1>2, ApplyIsSeq DEF FrameOK
  <1>4. /\ cache' = Store(cache, Top.path, Top.key, ts)
        /\ applied' = Append(applied, <<Top.path, Top.key>>)
        /\ stack' = Pop(stack) /\ root' = root
    BY DEF ApplyLayer
  <1> HIDE DEF ts
  <1>5. /\ DOMAIN cache' = DOMAIN cache
        /\ cache'[Top.path] = Place(cache[Top.path], Top.key, ts)
        /\ \A p \in DOMAIN cache : p # Top.path => cache'[p] = cache[p]
    BY <1>2, <1>3, <1>4, StoreOK DEF Shape, TypeOK
  <1>6. DOMAIN cache'[Top.path] = DOMAIN cache[Top.path] \cup {Top.key}
    BY <1>5 DEF Place
  <1>7. Len(stack') = n - 1 /\ \A i \in 1 .. n - 1 : stack'[i] = stack[i]
    BY <1>2, <1>4, PopSeq
  <1> DEFINE m == n - 1
             f == Top
  <1>8. /\ m \in Nat /\ m + 1 \in 1 .. Len(stack) /\ f = stack[m + 1]
        /\ \A i \in 1 .. Len(stack) : ~(i > m + 1)
    BY <1>2
  <1>9. /\ Len(stack') = m /\ \A i \in 1 .. m : stack'[i] = stack[i]
        /\ f.path \in DOMAIN cache' /\ DOMAIN cache' = DOMAIN cache
        /\ DOMAIN cache'[f.path] = DOMAIN cache[f.path] \cup {f.key}
        /\ \A p \in DOMAIN cache' : p # f.path => DOMAIN cache'[p] = DOMAIN cache[p]
        /\ applied' = Append(applied, <<f.path, f.key>>)
    BY <1>2, <1>4, <1>5, <1>6, <1>7
  <1> HIDE DEF m, f
  <1>10. /\ <<f.path, f.key>> \notin Done
         /\ Done' = Done \cup {<<f.path, f.key>>}
         /\ History' /\ Fired'
    BY <1>1, <1>4, <1>8, <1>9, Application, SMTT(60)
  <1> QED  BY <1>10 DEF f

LEMMA LeaveModelFired ==
  ASSUME Shape, Means, Descending, History, Fired, LeaveModel
  PROVE  LET caller == stack[Len(stack) - 1] IN
         /\ <<caller.path, caller.key>> \notin Done
         /\ Done' = Done \cup {<<caller.path, caller.key>>}
         /\ History'
         /\ Fired'
  <1> DEFINE n == Len(stack)
             f == stack[n - 1]
             ts == Activated(f.model, f.key, Top.got)
             rest == Drop(cache, Top.path)
             m == n - 2
  <1>1. Running /\ Complete(Top) /\ Top.key = Outputs /\ n > 1
    BY DEF LeaveModel
  <1>2. n \in Nat /\ IsSeq(stack) /\ Top = stack[n] /\ FrameOK(Top)
    BY <1>1, TopOK DEF Shape, TypeOK, Top
  <1>3. /\ n > 2 /\ Calls(f, Top) /\ f.path # Top.path /\ f.path \in DOMAIN cache
    BY <1>1, CallerOK
  <1>4. /\ cache' = Store(rest, f.path, f.key, ts)
        /\ stack' = Pop(Pop(stack))
    BY DEF LeaveModel
  <1>5. applied' = Append(applied, <<f.path, f.key>>) /\ root' = root
    BY DEF LeaveModel
  <1>6. /\ DOMAIN rest = DOMAIN cache \ {Top.path}
        /\ rest = [p \in DOMAIN rest |-> rest[p]]
        /\ \A p \in DOMAIN rest : CacheOK(rest[p]) /\ rest[p] = cache[p]
    BY DEF Drop, Shape, TypeOK
  <1>7. IsSeq(ts)
    BY <1>2, ActivatedIsSeq DEF FrameOK
  <1>8. m \in Nat /\ m + 1 = n - 1 /\ m + 1 \in 1 .. Len(stack)
    BY <1>2, <1>3
  <1>9. f = stack[m + 1]
    BY <1>8
  <1> HIDE DEF f, rest, ts, m
  <1>10. /\ DOMAIN cache' = DOMAIN cache \ {Top.path}
        /\ cache'[f.path] = Place(cache[f.path], f.key, ts)
        /\ \A p \in DOMAIN cache' : p # f.path => cache'[p] = cache[p]
    <2>1. f.path \in DOMAIN rest
      BY <1>3, <1>6
    <2>2. /\ DOMAIN cache' = DOMAIN rest
          /\ cache'[f.path] = Place(rest[f.path], f.key, ts)
          /\ \A p \in DOMAIN rest : p # f.path => cache'[p] = rest[p]
      BY <1>4, <1>6, <1>7, <2>1, StoreOK
    <2> QED  BY <1>6, <2>1, <2>2
  <1>11. DOMAIN cache'[f.path] = DOMAIN cache[f.path] \cup {f.key}
    BY <1>10 DEF Place
  <1>12. Top.path = Append(f.path, f.key)
    BY <1>3 DEF Calls
  <1>13. Len(stack') = m /\ \A i \in 1 .. m : stack'[i] = stack[i]
    <2>1. IsSeq(Pop(stack)) /\ Len(Pop(stack)) = n - 1
          /\ \A i \in 1 .. n - 1 : Pop(stack)[i] = stack[i]
      BY <1>1, <1>2, PopSeq
    <2>2. Len(Pop(stack)) > 0 /\ Len(Pop(stack)) - 1 = n - 2
      BY <1>2, <1>3, <2>1
    <2>3. Len(Pop(Pop(stack))) = n - 2
          /\ \A i \in 1 .. n - 2 : Pop(Pop(stack))[i] = Pop(stack)[i]
      BY <2>1, <2>2, PopSeq
    <2> QED  BY <1>2, <1>4, <2>1, <2>3 DEF m
  <1>14. \A i \in 1 .. Len(stack) : i > m + 1 => stack[i].path \notin DOMAIN cache'
    <2>1. \A i \in 1 .. Len(stack) : i > m + 1 => i = n
      BY <1>2, <1>8
    <2> QED  BY <1>2, <1>10, <2>1
  <1>15. f.path \in DOMAIN cache'
    BY <1>3, <1>10
  <1>16. \A p \in DOMAIN cache : p \in DOMAIN cache' \/ p = Append(f.path, f.key)
    BY <1>10, <1>12
  <1>17. /\ \A p \in DOMAIN cache' : p \in DOMAIN cache
         /\ \A p \in DOMAIN cache' : p # f.path => DOMAIN cache'[p] = DOMAIN cache[p]
    BY <1>10
  <1> HIDE DEF n
  <1>18. /\ <<f.path, f.key>> \notin Done
         /\ Done' = Done \cup {<<f.path, f.key>>}
         /\ History' /\ Fired'
    BY <1>1, <1>8, <1>9, <1>11, <1>13, <1>14, <1>15, <1>16, <1>17, <1>5, Application, SMTT(30)
  <1> QED  BY <1>18 DEF f, n
-----------------------------------------------------------------------------
(***************************************************************************)
(* The other steps apply nothing.                                          *)
(***************************************************************************)
LEMMA NothingLives ==
  ASSUME History, Len(stack') = 0, DOMAIN cache' = {}, ~Running', UNCHANGED applied
  PROVE  History' /\ Fired'
  <1>1. Done' = Done /\ AppliedOnce'
    BY DEF Done, History, AppliedOnce
  <1>2. ASSUME NEW x \in Done PROVE Remembered(x)'
    BY <1>1, <1>2 DEF History, Remembered
  <1> QED  BY <1>1, <1>2 DEF History, Fired

LEMMA PredictFired ==
  ASSUME Shape, NEW n \in 0 .. Len(Arguments), Predict(n)
  PROVE  History' /\ Fired'
  <1>1. root' = root /\ applied' = << >> /\ root \in Roots
    BY DEF Predict, Shape, TypeOK
  <1>2. Done' = {} /\ AppliedOnce'
    BY <1>1 DEF Done, AppliedOnce
  <1>3. History'
    BY <1>2 DEF History
  <1>4. CASE n = Len(Graph[root].inputs)
    <2> DEFINE f == Frame(<< >>, root, Outputs)
               s == Seed(root, SubSeq(Arguments, 1, n))
    <2>1. stack' = << f >> /\ cache' = [p \in {<< >>} |-> s]
      BY <1>4 DEF Predict
    <2>2. Len(f.got) = 0
      BY DEF Frame
    <2>3. DOMAIN s = InputKeys(root)
      BY SeedOK
    <2> HIDE DEF f, s
    <2>4. Len(stack') = 1 /\ stack'[1] = f
      BY <2>1, SingletonIsSeq
    <2>5. \A i \in 1 .. Len(stack') : FrameFired(stack'[i], Done')
      BY <2>2, <2>4 DEF FrameFired
    <2>6. ModelAt[root][<< >>] = root /\ PassedTo(root, << >>) = {}
      BY <1>1, CallsAssumption DEF PassedTo
    <2>7. CallFired(<< >>)'
      BY <1>1, <2>1, <2>3, <2>6 DEF CallFired
    <2> QED  BY <1>3, <2>1, <2>5, <2>7 DEF Fired
  <1>5. CASE n # Len(Graph[root].inputs)
    <2>1. Len(stack') = 0 /\ DOMAIN cache' = {}
      BY <1>5, NoCacheOK DEF Predict
    <2> QED  BY <1>3, <2>1 DEF Fired
  <1> QED  BY <1>4, <1>5

LEMMA DeliverFired ==
  ASSUME Shape, Means, Descending, History, Fired, Deliver
  PROVE  Done' = Done /\ History' /\ Fired'
  <1> DEFINE n == Len(stack)
  <1>1. UNCHANGED <<root, inputs, eager, status, cache, result, applied>>
    BY DEF Deliver
  <1>2. /\ n \in Nat /\ n > 0 /\ Top = stack[n]
        /\ Len(stack') = n
        /\ stack'[n].got = Append(Top.got, Read(DemandKey, Demand.tensor))
        /\ \A i \in 1 .. n : i # n => stack'[i] = stack[i]
    BY DeliverStack
  <1>3. \A i \in 1 .. n : /\ stack'[i].path = stack[i].path
                       /\ stack'[i].model = stack[i].model
                       /\ stack'[i].key = stack[i].key
    BY DeliverStack
  <1>4. \A p, k : UnderEvaluation(p, k)' <=> UnderEvaluation(p, k)
    BY <1>2, <1>3 DEF UnderEvaluation
  <1>5. Done' = Done /\ AppliedOnce'
    BY <1>1 DEF Done, AppliedOnce, History
  <1>6. \A x \in Done : Remembered(x)'
    BY <1>1, <1>4, <1>5 DEF History, Remembered, Running
  <1>7. /\ Running /\ Demanding /\ Known(Top.model, Demand) /\ DemandKey \in DOMAIN TopCache
        /\ Top.path \in DOMAIN cache /\ FrameMeans(root, Top) /\ IsSeq(Top.got)
        /\ FrameFired(Top, Done) /\ CallFired(Top.path)
    <2>1. Running /\ Demanding /\ Known(Top.model, Demand) /\ DemandKey \in DOMAIN TopCache
      BY DEF Deliver, Demanding
    <2>2. Top.path \in DOMAIN cache /\ n \in 1 .. n /\ FrameOK(Top)
      BY <2>1, TopOK
    <2> QED  BY <1>2, <2>1, <2>2 DEF Means, Fired, FrameOK
  <1>8. \/ KeyOf(Top.model, Demand) \in InputKeys(Top.model)
        \/ <<Top.path, KeyOf(Top.model, Demand)>> \in Done
    <2>1. ~UnderEvaluation(Top.path, DemandKey)
      BY <1>7, NoPlaceholderRead DEF NeverReadsPlaceholder
    <2> QED  BY <1>7, <2>1 DEF CallFired, FrameMeans, DemandKey, TopCache
  <1> HIDE DEF n
  <1>9. ASSUME NEW g, g.got = stack'[n].got, g.path = Top.path,
               g.model = Top.model, g.key = Top.key
        PROVE  FrameFired(g, Done')
    <2>1. Len(g.got) = Len(Top.got) + 1 /\ Len(Top.got) \in Nat
      BY <1>2, <1>7, <1>9, AppendSeq DEF IsSeq
    <2>2. Want(g) = Want(Top)
      BY <1>9 DEF Want
    <2>3. ASSUME NEW j \in 1 .. Len(g.got)
          PROVE  \/ KeyOf(g.model, Want(g)[j]) \in InputKeys(g.model)
                 \/ <<g.path, KeyOf(g.model, Want(g)[j])>> \in Done
      <3>1. CASE j = Len(Top.got) + 1
        BY <1>8, <1>9, <2>2, <3>1 DEF Demand
      <3>2. CASE j # Len(Top.got) + 1
        <4>1. j \in 1 .. Len(Top.got)
          BY <2>1, <3>2
        <4> QED  BY <1>7, <1>9, <2>2, <4>1 DEF FrameFired
      <3> QED  BY <3>1, <3>2
    <2> QED  BY <1>5, <2>3 DEF FrameFired
  <1>10. ASSUME NEW i \in 1 .. n PROVE FrameFired(stack'[i], Done')
    <2>1. CASE i = n
      BY <1>2, <1>3, <1>9, <2>1
    <2>2. CASE i # n
      <3>1. FrameFired(stack[i], Done) /\ stack'[i] = stack[i]
        BY <1>2, <2>2 DEF Fired, n
      <3> QED  BY <1>5, <3>1 DEF FrameFired
    <2> QED  BY <2>1, <2>2
  <1>11. \A p \in DOMAIN cache' : CallFired(p)'
    BY <1>1, <1>4, <1>5 DEF Fired, CallFired
  <1> QED  BY <1>2, <1>5, <1>6, <1>10, <1>11 DEF History, Fired

LEMMA DescendFired ==
  ASSUME Shape, Means, Descending, History, Fired, Descend
  PROVE  Done' = Done /\ History' /\ Fired'
  <1> DEFINE n == Len(stack)
             g == Frame(Top.path, Top.model, DemandKey)
  <1>1. /\ Running /\ DemandKey \notin DOMAIN TopCache
        /\ stack' = Append(stack, g)
        /\ UNCHANGED <<root, inputs, eager, status, result, applied>>
    BY DEF Descend, Demanding
  <1>2. g.path = Top.path /\ g.key = DemandKey /\ Len(g.got) = 0
    BY DEF Frame
  <1> HIDE DEF g
  <1>3. n \in Nat /\ IsSeq(stack) /\ Top.path \in DOMAIN cache
    BY <1>1, TopOK DEF Shape, TypeOK
  <1>4. Len(stack') = n + 1 /\ stack'[n + 1] = g /\ \A i \in 1 .. n : stack'[i] = stack[i]
    BY <1>1, <1>3, AppendSeq
  <1>5. Done' = Done /\ AppliedOnce'
    BY <1>1 DEF Done, AppliedOnce, History
  <1>6. /\ DOMAIN cache' = DOMAIN cache
        /\ \A p \in DOMAIN cache :
             \A k \in DOMAIN cache'[p] :
               k \in DOMAIN cache[p] \/ (p = Top.path /\ k = DemandKey)
        /\ \A p \in DOMAIN cache : DOMAIN cache[p] \subseteq DOMAIN cache'[p]
    <2>1. CASE ~eager
      <3>1. cache' = cache
        BY <2>1 DEF Descend
      <3> QED  BY <3>1
    <2>2. CASE eager
      <3>1. cache' = Store(cache, Top.path, DemandKey, << >>)
        BY <2>2 DEF Descend
      <3>2. /\ DOMAIN cache' = DOMAIN cache
            /\ cache'[Top.path] = Place(cache[Top.path], DemandKey, << >>)
            /\ \A p \in DOMAIN cache : p # Top.path => cache'[p] = cache[p]
        BY <1>3, <3>1, StoreOK, EmptyIsSeq DEF Shape, TypeOK
      <3>3. DOMAIN cache'[Top.path] = DOMAIN cache[Top.path] \cup {DemandKey}
        BY <3>2 DEF Place
      <3> QED  BY <3>2, <3>3
    <2> QED  BY <2>1, <2>2
  <1>7. ASSUME NEW p, NEW k
        PROVE  UnderEvaluation(p, k)' <=>
                 UnderEvaluation(p, k) \/ (p = Top.path /\ k = DemandKey)
    <2>1. \A i \in 1 .. n + 1 : i \in 1 .. n \/ i = n + 1
      BY <1>3
    <2>2. n + 1 \in 1 .. n + 1 /\ \A i \in 1 .. n : i \in 1 .. n + 1
      BY <1>3
    <2>3. UnderEvaluation(p, k) <=> \E i \in 1 .. n : stack[i].path = p /\ stack[i].key = k
      BY DEF UnderEvaluation
    <2>4. UnderEvaluation(p, k)' <=>
            \E i \in 1 .. n + 1 : stack'[i].path = p /\ stack'[i].key = k
      BY <1>4 DEF UnderEvaluation
    <2> HIDE DEF n
    <2> QED  BY <1>2, <1>4, <2>1, <2>2, <2>3, <2>4
  <1>8. ASSUME NEW x \in Done PROVE Remembered(x)'
    <2>1. Remembered(x)
      BY DEF History
    <2>2. ~(x[1] = Top.path /\ x[2] = DemandKey)
      BY <1>1, <1>3, <2>1 DEF Remembered, TopCache
    <2>3. x[1] \in DOMAIN cache' =>
            x[2] \in DOMAIN cache'[x[1]] /\ ~UnderEvaluation(x[1], x[2])'
      BY <1>6, <1>7, <2>1, <2>2 DEF Remembered
    <2> QED  BY <1>1, <1>5, <1>6, <2>1, <2>3 DEF Remembered, Running
  <1>9. ASSUME NEW i \in 1 .. n + 1 PROVE FrameFired(stack'[i], Done')
    <2>1. CASE i = n + 1
      BY <1>2, <1>4, <2>1 DEF FrameFired
    <2>2. CASE i # n + 1
      <3>1. i \in 1 .. n
        BY <1>3, <2>2
      <3> QED  BY <1>4, <1>5, <3>1 DEF Fired
    <2> QED  BY <2>1, <2>2
  <1>10. ASSUME NEW p \in DOMAIN cache' PROVE CallFired(p)'
    <2>1. CallFired(p)
      BY <1>6 DEF Fired
    <2>2. ASSUME NEW k \in DOMAIN cache'[p]
          PROVE  \/ k \in InputKeys(ModelAt[root][p])
                 \/ <<p, k>> \in Done
                 \/ UnderEvaluation(p, k)'
      <3>1. CASE k \in DOMAIN cache[p]
        BY <1>7, <2>1, <3>1 DEF CallFired
      <3>2. CASE p = Top.path /\ k = DemandKey
        BY <1>7, <3>2
      <3> QED  BY <1>6, <3>1, <3>2
    <2> QED  BY <1>1, <1>5, <2>1, <2>2 DEF CallFired
  <1> QED  BY <1>4, <1>5, <1>8, <1>9, <1>10 DEF History, Fired

(***************************************************************************)
(* A frame past all its connections has had what they lead to applied.     *)
(***************************************************************************)
LEMMA SourcesFired ==
  ASSUME NEW f, IsSeq(f.got), Complete(f), NEW done, FrameFired(f, done)
  PROVE  Sources(f.model, f.path, Want(f)) \subseteq done
  <1>1. Len(f.got) = Len(Want(f))
    BY DEF Complete
  <1> QED  BY <1>1 DEF Sources, FrameFired

LEMMA EnterModelFired ==
  ASSUME Shape, Means, Descending, History, Fired, EnterModel
  PROVE  Done' = Done /\ History' /\ Fired'
  <1> DEFINE n == Len(stack)
             p == Append(Top.path, Top.key)
             b == Body(Top.model, Top.key)
             g == Frame(p, b, Outputs)
             s == Seed(b, Top.got)
  <1>1. /\ Running /\ Complete(Top) /\ Top.key # Outputs /\ IsModel(Top.model, Top.key)
        /\ ArityOK(Top.model, Top.key, Len(Top.got))
    BY DEF EnterModel, Applying
  <1>2. /\ UNCHANGED <<root, inputs, eager, status, result, applied>>
        /\ stack' = Append(stack, g)
        /\ cache' = Place(cache, p, s)
    BY DEF EnterModel, FreshCache
  <1>3. /\ n \in Nat /\ n \in 1 .. n /\ IsSeq(stack) /\ Top = stack[n] /\ FrameOK(Top)
        /\ FrameMeans(root, Top) /\ FrameFired(Top, Done)
        /\ root \in Roots /\ Top.path \in DOMAIN cache
    BY <1>1, TopOK DEF Shape, TypeOK, Means, Fired, Top
  <1>4. IsSeq(p) /\ Len(p) = Len(Top.path) + 1 /\ Pop(p) = Top.path /\ p[Len(p)] = Top.key
        /\ Len(Top.path) \in Nat
    BY <1>3, AppendSeq, PopAppend DEF FrameOK, IsSeq
  <1>5. /\ ModelAt[root][p] = b /\ ModelAt[root][Top.path] = Top.model
    <2>1. Top.key \in Evaluated(Top.model)
      BY <1>1, <1>3, CompleteNode
    <2>2. Top.model \in Models /\ Top.path \in DOMAIN ModelAt[root]
          /\ ModelAt[root][Top.path] = Top.model
      BY <1>3 DEF FrameMeans, FrameOK
    <2> QED  BY <1>1, <1>3, <2>1, <2>2, CallsAssumption
  <1>6. g.path = p /\ g.key = Outputs /\ Len(g.got) = 0
    BY DEF Frame
  <1>7. DOMAIN s = InputKeys(b)
    BY SeedOK
  <1> HIDE DEF g, p, b, s
  <1>8. Len(stack') = n + 1 /\ stack'[n + 1] = g /\ \A i \in 1 .. n : stack'[i] = stack[i]
    BY <1>2, <1>3, AppendSeq
  <1>9. Done' = Done /\ AppliedOnce'
    BY <1>2 DEF Done, AppliedOnce, History
  <1>10. p \notin DOMAIN cache
    <2>1. \A i \in 1 .. n : Len(stack[i].path) <= Len(Top.path) /\ Len(stack[i].path) \in Nat
      <3>1. ASSUME NEW i \in 1 .. n
            PROVE  Len(stack[i].path) <= Len(Top.path) /\ Len(stack[i].path) \in Nat
        <4>1. Len(stack[i].path) \in Nat
          BY DEF Shape, TypeOK, FrameOK, IsSeq
        <4>2. i < n => Len(stack[i].path) <= Len(Top.path)
          BY <1>3 DEF Shape, StackShape
        <4> QED  BY <1>3, <4>1, <4>2
      <3> QED  BY <3>1
    <2>2. \A i \in 1 .. n : stack[i].path # p
      BY <1>4, <2>1
    <2> QED  BY <2>2 DEF Shape, StackShape
  <1>11. <<Top.path, Top.key>> \notin Done
    <2>1. UnderEvaluation(Top.path, Top.key)
      BY <1>3 DEF UnderEvaluation
    <2> DEFINE x == <<Top.path, Top.key>>
    <2>2. x[1] = Top.path /\ x[2] = Top.key
      OBVIOUS
    <2> HIDE DEF x
    <2>3. x \notin Done
      BY <1>3, <2>1, <2>2 DEF History, Remembered
    <2> QED  BY <2>3 DEF x
  <1>12. /\ DOMAIN cache' = DOMAIN cache \cup {p}
         /\ cache'[p] = s
         /\ \A q \in DOMAIN cache : cache'[q] = cache[q]
    BY <1>2, <1>10 DEF Place
  <1>13. ASSUME NEW q, NEW k
         PROVE  UnderEvaluation(q, k)' <=> UnderEvaluation(q, k) \/ (q = p /\ k = Outputs)
    <2>1. \A i \in 1 .. n + 1 : i \in 1 .. n \/ i = n + 1
      BY <1>3
    <2>2. n + 1 \in 1 .. n + 1 /\ \A i \in 1 .. n : i \in 1 .. n + 1
      BY <1>3
    <2>3. UnderEvaluation(q, k) <=> \E i \in 1 .. n : stack[i].path = q /\ stack[i].key = k
      BY DEF UnderEvaluation
    <2>4. UnderEvaluation(q, k)' <=>
            \E i \in 1 .. n + 1 : stack'[i].path = q /\ stack'[i].key = k
      BY <1>8 DEF UnderEvaluation
    <2> HIDE DEF n
    <2> QED  BY <1>6, <1>8, <2>1, <2>2, <2>3, <2>4
  <1>14. ASSUME NEW x \in Done PROVE Remembered(x)'
    <2>1. Remembered(x)
      BY DEF History
    <2>2. x[1] # p
      <3>1. ASSUME x[1] = p PROVE FALSE
        <4>1. Len(x[1]) > 0
          BY <1>4, <3>1
        <4>2. <<Pop(p), p[Len(p)]>> \in Done
          BY <1>1, <1>10, <2>1, <3>1, <4>1 DEF Remembered
        <4> QED  BY <1>4, <1>11, <4>2
      <3> QED  BY <3>1
    <2>3. x[1] \in DOMAIN cache' =>
            x[2] \in DOMAIN cache'[x[1]] /\ ~UnderEvaluation(x[1], x[2])'
      BY <1>12, <1>13, <2>1, <2>2 DEF Remembered
    <2> QED  BY <1>2, <1>9, <1>12, <2>1, <2>3 DEF Remembered, Running
  <1>15. ASSUME NEW i \in 1 .. n + 1 PROVE FrameFired(stack'[i], Done')
    <2>1. CASE i = n + 1
      BY <1>6, <1>8, <2>1 DEF FrameFired
    <2>2. CASE i # n + 1
      <3>1. i \in 1 .. n
        BY <1>3, <2>2
      <3> QED  BY <1>8, <1>9, <3>1 DEF Fired
    <2> QED  BY <2>1, <2>2
  <1>16. PassedTo(root, p) \subseteq Done
    <2>1. Sources(Top.model, Top.path, Want(Top)) \subseteq Done
      BY <1>1, <1>3, SourcesFired DEF FrameOK
    <2>2. Want(Top) = Inbound(Top.model, Top.key)
      BY <1>1 DEF Want
    <2> QED  BY <1>4, <1>5, <2>1, <2>2 DEF PassedTo
  <1>17. ASSUME NEW q \in DOMAIN cache' PROVE CallFired(q)'
    <2>1. CASE q = p
      BY <1>2, <1>5, <1>7, <1>9, <1>12, <1>16, <2>1 DEF CallFired
    <2>2. CASE q # p
      <3>1. q \in DOMAIN cache /\ cache'[q] = cache[q] /\ CallFired(q)
        BY <1>12, <2>2 DEF Fired
      <3> QED  BY <1>2, <1>9, <1>13, <3>1 DEF CallFired
    <2> QED  BY <2>1, <2>2
  <1> QED  BY <1>8, <1>9, <1>14, <1>15, <1>17 DEF History, Fired
-----------------------------------------------------------------------------
LEMMA HistoryInvariant == Spec => [](Shape /\ Means /\ Descending /\ History /\ Fired)
  <1>1. Init => Descending /\ History /\ Fired
    <2> SUFFICES ASSUME Init PROVE Descending /\ History /\ Fired
      OBVIOUS
    <2>1. Len(stack) = 0 /\ DOMAIN cache = {} /\ Len(applied) = 0
      BY NoCacheOK DEF Init
    <2>2. Done = {}
      BY <2>1 DEF Done
    <2> QED  BY <2>1, <2>2 DEF Descending, History, Fired, AppliedOnce
  <1>2. Shape /\ Means /\ Descending /\ History /\ Fired /\ [Next]_vars
          => Descending' /\ History' /\ Fired'
    <2> SUFFICES ASSUME Shape, Means, Descending, History, Fired, [Next]_vars
                 PROVE  Descending' /\ History' /\ Fired'
      OBVIOUS
    <2>1. Descending'
      BY DescendingStep
    <2>2. ASSUME NEW n \in 0 .. Len(Arguments), Predict(n) PROVE History' /\ Fired'
      BY <2>2, PredictFired
    <2>3. CASE \/ DanglingLayer \/ InvalidNode \/ InvalidTensor \/ RejectInputs
               \/ InvalidOutputs \/ Return
      <3>1. /\ Len(stack') = 0 /\ DOMAIN cache' = {} /\ ~Running' /\ UNCHANGED applied
        BY <2>3, NoCacheOK DEF DanglingLayer, InvalidNode, InvalidTensor, RejectInputs,
             InvalidOutputs, Return, Throw, Running
      <3> QED  BY <2>1, <3>1, NothingLives
    <2>4. CASE Deliver
      BY <2>1, <2>4, DeliverFired
    <2>5. CASE Descend
      BY <2>1, <2>5, DescendFired
    <2>6. CASE ApplyLayer
      BY <2>1, <2>6, ApplyLayerFired
    <2>7. CASE EnterModel
      BY <2>1, <2>7, EnterModelFired
    <2>8. CASE LeaveModel
      BY <2>1, <2>8, LeaveModelFired
    <2>9. CASE UNCHANGED vars
      <3>1. UNCHANGED <<root, inputs, eager, status, stack, cache, result, applied>>
        BY <2>9 DEF vars
      <3>2. Done' = Done /\ AppliedOnce'
        BY <3>1 DEF Done, AppliedOnce, History
      <3>3. \A p, k : UnderEvaluation(p, k)' <=> UnderEvaluation(p, k)
        BY <3>1 DEF UnderEvaluation
      <3>4. \A x \in Done : Remembered(x)'
        BY <3>1, <3>2, <3>3 DEF History, Remembered, Running
      <3>5. \A p \in DOMAIN cache' : CallFired(p)'
        BY <3>1, <3>2, <3>3 DEF Fired, CallFired
      <3> QED  BY <2>1, <3>1, <3>2, <3>4, <3>5 DEF History, Fired
    <2> QED  BY <2>1, <2>2, <2>3, <2>4, <2>5, <2>6, <2>7, <2>8, <2>9 DEF Next, Step
  <1> QED  BY <1>1, <1>2, MeansInvariant, PTL DEF Spec

(***************************************************************************)
(* One prediction applies a node at most once in each nested call, however *)
(* many connections lead to it.                                            *)
(***************************************************************************)
THEOREM EachNodeOnce == Spec => []AppliedOnce
  <1>1. History => AppliedOnce
    BY DEF History
  <1> QED  BY <1>1, HistoryInvariant, PTL
-----------------------------------------------------------------------------
(***************************************************************************)
(* An application is Dataflow's Fire: all that the node needs has fired.   *)
(***************************************************************************)
LEMMA OwnAndPassed ==
  ASSUME Shape, Means, Fired, NEW i \in 1 .. Len(stack), NEW f, f = stack[i],
         f.key # Outputs, Complete(f)
  PROVE  /\ <<f.path, f.key>> \in AllNodes(root)
         /\ ModelAt[root][f.path] = f.model
         /\ Sources(f.model, f.path, Inbound(f.model, f.key)) \subseteq Done
         /\ PassedTo(root, f.path) \subseteq Done
  <1>1. FrameOK(f) /\ FrameMeans(root, f) /\ FrameFired(f, Done) /\ f.path \in DOMAIN cache
    BY DEF Shape, TypeOK, StackShape, Means, Fired
  <1>2. Want(f) = Inbound(f.model, f.key)
    BY DEF Want
  <1>3. Sources(f.model, f.path, Want(f)) \subseteq Done
    BY <1>1, SourcesFired DEF FrameOK
  <1>4. PassedTo(root, f.path) \subseteq Done
    BY <1>1 DEF Fired, CallFired
  <1>5. f.path \in DOMAIN ModelAt[root] /\ ModelAt[root][f.path] = f.model
        /\ f.key \in Evaluated(f.model)
    BY <1>1 DEF FrameMeans
  <1>6. <<f.path, f.key>> \in {<<f.path, k>> : k \in Evaluated(ModelAt[root][f.path])}
    BY <1>5
  <1>7. <<f.path, f.key>> \in AllNodes(root)
    BY <1>5, <1>6 DEF AllNodes
  <1> QED  BY <1>2, <1>3, <1>4, <1>5, <1>7

LEMMA ApplyLayerFires ==
  ASSUME Shape, Means, Descending, History, Fired, ApplyLayer
  PROVE  \E x \in AllNodes(root) : Flow!Fire(x)
  <1> DEFINE x == <<Top.path, Top.key>>
  <1>1. Running /\ Top.key # Outputs /\ Complete(Top) /\ ~IsModel(Top.model, Top.key)
        /\ UNCHANGED <<root, inputs, status, result>>
    BY DEF ApplyLayer, Applying
  <1>2. Len(stack) \in 1 .. Len(stack) /\ Top = stack[Len(stack)]
    BY <1>1, TopOK DEF Top
  <1>3. /\ x \in AllNodes(root) /\ ModelAt[root][Top.path] = Top.model
        /\ Sources(Top.model, Top.path, Inbound(Top.model, Top.key)) \subseteq Done
        /\ PassedTo(root, Top.path) \subseteq Done
    BY <1>1, <1>2, OwnAndPassed
  <1>4. x \notin Done /\ Done' = Done \cup {x}
    BY ApplyLayerFired
  <1>5. x[1] = Top.path /\ x[2] = Top.key
    OBVIOUS
  <1> HIDE DEF x
  <1>6. NeedsOf(root, x) \subseteq Done
    BY <1>1, <1>3, <1>5 DEF NeedsOf
  <1>7. Flow!Fire(x)
    BY <1>1, <1>4, <1>6 DEF Flow!Fire, Running
  <1> QED  BY <1>3, <1>7

LEMMA LeaveModelFires ==
  ASSUME Shape, Means, Descending, History, Fired, LeaveModel
  PROVE  \E x \in AllNodes(root) : Flow!Fire(x)
  <1> DEFINE n == Len(stack)
             f == stack[n - 1]
             x == <<f.path, f.key>>
  <1>1. /\ Running /\ Top.key = Outputs /\ Complete(Top) /\ n > 1
        /\ UNCHANGED <<root, inputs, status, result>>
    BY DEF LeaveModel
  <1>2. /\ n \in Nat /\ n \in 1 .. n /\ n - 1 \in 1 .. n /\ Top = stack[n]
        /\ FrameOK(Top) /\ FrameFired(Top, Done)
    BY <1>1, TopOK DEF Top, Fired
  <1>3. /\ f.key # Outputs /\ Complete(f) /\ IsModel(f.model, f.key)
        /\ Top.path = Append(f.path, f.key) /\ Top.model = Body(f.model, f.key)
    BY <1>1, CallerOK DEF Calls
  <1>4. x \notin Done /\ Done' = Done \cup {x}
    BY LeaveModelFired
  <1>5. f = stack[n - 1]
    OBVIOUS
  <1> HIDE DEF f
  <1>6. /\ x \in AllNodes(root) /\ ModelAt[root][f.path] = f.model
        /\ Sources(f.model, f.path, Inbound(f.model, f.key)) \subseteq Done
        /\ PassedTo(root, f.path) \subseteq Done
    BY <1>2, <1>3, <1>5, OwnAndPassed
  <1>7. Sources(Body(f.model, f.key), Append(f.path, f.key),
                Graph[Body(f.model, f.key)].outputs) \subseteq Done
    <2>1. Want(Top) = Graph[Top.model].outputs
      BY <1>1 DEF Want
    <2>2. Sources(Top.model, Top.path, Want(Top)) \subseteq Done
      BY <1>1, <1>2, SourcesFired DEF FrameOK
    <2> QED  BY <1>3, <2>1, <2>2
  <1>8. x[1] = f.path /\ x[2] = f.key
    OBVIOUS
  <1> HIDE DEF x
  <1>9. NeedsOf(root, x) \subseteq Done
    BY <1>3, <1>6, <1>7, <1>8 DEF NeedsOf
  <1>10. Flow!Fire(x)
    BY <1>1, <1>4, <1>9 DEF Flow!Fire, Running
  <1> QED  BY <1>6, <1>10

LEMMA ReturnFinishes ==
  ASSUME Shape, Means, Fired, Return
  PROVE  Flow!Finish
  <1>1. /\ Running /\ Complete(Top) /\ Len(stack) = 1 /\ Top = stack[1]
        /\ status' = "returned" /\ UNCHANGED <<root, inputs, applied>>
    BY DEF Return, Top
  <1>2. Top.path = << >> /\ Top.model = root /\ Top.key = Outputs
    BY <1>1 DEF Shape, StackShape
  <1>3. FrameOK(Top) /\ FrameFired(Top, Done)
    BY <1>1, TopOK DEF Fired
  <1>4. Sources(root, << >>, Graph[root].outputs) \subseteq Done
    <2>1. Sources(Top.model, Top.path, Want(Top)) \subseteq Done
      BY <1>1, <1>3, SourcesFired DEF FrameOK
    <2> QED  BY <1>2, <2>1 DEF Want
  <1>5. result' = ValueOf(root)
    <2>1. ResultMeansOutputs'
      BY ReturnMeans DEF Means
    <2> QED  BY <1>1, <2>1 DEF ResultMeansOutputs, ValueOf
  <1>6. Done' = Done
    BY <1>1 DEF Done
  <1> QED  BY <1>1, <1>4, <1>5, <1>6 DEF Flow!Finish, WantedBy, Running

LEMMA PredictBegins ==
  ASSUME Shape, NEW n \in 0 .. Len(Arguments), Predict(n)
  PROVE  Flow!Begin
  <1>1. Len(inputs') = n /\ n \in Nat
    BY ArgumentsAssumption, PrefixSeq DEF Predict
  <1>2. Done' = {}
    BY DEF Predict, Done
  <1>3. status' = IF n = ArityOf(root) THEN "running" ELSE "threw"
    BY DEF Predict, ArityOf
  <1> QED  BY <1>1, <1>2, <1>3 DEF Flow!Begin, Predict

(***************************************************************************)
(* The walk, with its call stack and caches, implements Dataflow: nodes    *)
(* fire once each and after what they need, the result is ready when the   *)
(* outputs' nodes have fired, and only an unsound network fails.           *)
(***************************************************************************)
THEOREM WalkIsDataflow == Spec => ImplementsDataflow
  <1>1. Init => Flow!Init
    <2> SUFFICES ASSUME Init PROVE Flow!Init
      OBVIOUS
    <2>1. Len(applied) = 0 /\ Len(inputs) = 0
      BY DEF Init
    <2>2. Done = {}
      BY <2>1 DEF Done
    <2> QED  BY <2>1, <2>2 DEF Init, Flow!Init
  <1>2. Shape /\ Means /\ Descending /\ History /\ Fired /\ [Next]_vars
          => [Flow!Next]_Flow!vars
    <2> SUFFICES ASSUME Shape, Means, Descending, History, Fired, [Next]_vars
                 PROVE  [Flow!Next]_Flow!vars
      OBVIOUS
    <2>1. ASSUME NEW n \in 0 .. Len(Arguments), Predict(n) PROVE Flow!Next
      BY <2>1, PredictBegins DEF Flow!Next
    <2>2. CASE DanglingLayer \/ InvalidNode \/ InvalidTensor \/ RejectInputs \/ InvalidOutputs
      <3>1. Throw /\ Running /\ ~WellFormed(root)
        BY <2>2, WellFormedDoesNotThrow DEF DanglingLayer, InvalidNode, InvalidTensor,
             RejectInputs, InvalidOutputs, Demanding, Applying
      <3>2. Done' = Done
        BY <3>1 DEF Throw, Done
      <3>3. Flow!Fail
        BY <3>1, <3>2 DEF Flow!Fail, Throw, Running
      <3> QED  BY <3>3 DEF Flow!Next
    <2>3. CASE ApplyLayer
      BY <2>3, ApplyLayerFires DEF Flow!Next
    <2>4. CASE LeaveModel
      BY <2>4, LeaveModelFires DEF Flow!Next
    <2>5. CASE Return
      BY <2>5, ReturnFinishes DEF Flow!Next
    <2>6. CASE Deliver \/ Descend \/ EnterModel \/ UNCHANGED vars
      <3>1. UNCHANGED <<root, inputs, status, result, applied>>
        BY <2>6 DEF Deliver, Descend, EnterModel, vars
      <3>2. Done' = Done
        BY <3>1 DEF Done
      <3> QED  BY <3>1, <3>2 DEF Flow!vars
    <2> QED  BY <2>1, <2>2, <2>3, <2>4, <2>5, <2>6 DEF Next, Step
  <1> QED  BY <1>1, <1>2, HistoryInvariant, PTL DEF Spec, ImplementsDataflow, Flow!Spec
=============================================================================
