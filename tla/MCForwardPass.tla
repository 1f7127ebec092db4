---------------------------- MODULE MCForwardPass ----------------------------
(***************************************************************************)
(* Networks small enough for TLC that hold what the walk can meet: shared  *)
(* layers, several outputs, nested models two deep with colliding layer    *)
(* names, one input listed twice, and one network per reference or layer   *)
(* that the code rejects.                                                  *)
(***************************************************************************)
EXTENDS ForwardPassMeaning

C(l, n, t) == [layer |-> l, node |-> n, tensor |-> t]
T(l) == C(l, 0, 0)
Lay(kind, act, nodes) ==
  [kind |-> kind, activated |-> act, body |-> "", nodes |-> nodes]
Nested(body, act, nodes) ==
  [kind |-> "model", activated |-> act, body |-> body, nodes |-> nodes]
Source == Lay("single", FALSE, << >>)
Net(ins, layers, outs) == [inputs |-> ins, layers |-> layers, outputs |-> outs]

\* inner has the layer names of the models that call it, with other meanings.
Inner ==
  Net(<< T("x"), T("y") >>,
      [l \in {"x", "y", "d", "e"} |->
         CASE l = "d" -> Lay("single", TRUE, << << T("y") >> >>)
           [] l = "e" -> Lay("merge", FALSE, << << T("x"), T("d") >> >>)
           [] OTHER  -> Source],
      << T("e"), T("d"), T("x") >>)

\* The shared layer s has two nodes and is asked for along several ways.
Diamond ==
  Net(<< T("x") >>,
      [l \in {"x", "s", "a", "o"} |->
         CASE l = "s" -> Lay("single", TRUE, << << T("x") >>, << T("a") >> >>)
           [] l = "a" -> Lay("merge", FALSE, << << T("s"), T("x"), T("s") >> >>)
           [] l = "o" -> Lay("merge", FALSE, << << C("s", 1, 0), T("s"), T("a") >> >>)
           [] OTHER  -> Source],
      << T("o"), T("s"), T("x"), T("o") >>)

\* A nested model used twice, its second call fed by the first.
Twice ==
  Net(<< T("x"), T("y") >>,
      [l \in {"x", "y", "d", "f"} |->
         CASE l = "f" -> Nested("inner", FALSE, << << T("x"), T("y") >>, << T("d"), T("y") >> >>)
           [] l = "d" -> Lay("merge", TRUE, << << C("f", 1, 1), C("f", 1, 0) >> >>)
           [] OTHER  -> Source],
      << C("f", 2, 0), T("d"), C("f", 1, 2) >>)

\* A nested model inside a nested model; an activation over two tensors.
Deep ==
  Net(<< T("y") >>,
      [l \in {"y", "g", "a"} |->
         CASE l = "g" -> Nested("twice", TRUE, << << T("y"), T("a") >> >>)
           [] l = "a" -> Lay("each", FALSE, << << T("y"), T("y") >> >>)
           [] OTHER  -> Source],
      << C("g", 1, 2), C("a", 0, 1), C("g", 1, 0) >>)

\* One input connection listed twice: the second tensor wins.
Doubled ==
  Net(<< T("x"), T("x") >>,
      [l \in {"x", "a"} |->
         IF l = "a" THEN Lay("merge", FALSE, << << T("x"), T("x") >> >>) ELSE Source],
      << T("a") >>)

\* One fault each: the connection c where the diamond has its first.
Faulty(c) ==
  Net(<< T("x"), T("y") >>,
      [l \in {"x", "y", "z", "f", "s", "m", "a", "b"} |->
         CASE l = "s" -> Lay("single", FALSE, << << T("x") >>, << T("x"), T("y") >> >>)
           [] l = "f" -> Nested("inner", FALSE, << << T("x"), T("s") >>, << T("x") >> >>)
           [] l = "m" -> Lay("merge", FALSE, << << >> >>)
           [] l = "b" -> Lay("single", FALSE, << << T("x") >> >>)
           [] l = "a" -> Lay("merge", FALSE, << << T("s"), T("x"), c >> >>)
           [] OTHER  -> Source],
      << T("a"), T("y") >>)

\* The caller's tensor has another shape than the input layer x announces, and
\* the layer that gets it does not mind.
WrongInput ==
  Net(<< T("x") >>,
      [l \in {"x", "a"} |->
         IF l = "a" THEN Lay("single", FALSE, << << T("x") >> >>) ELSE Source],
      << T("a") >>)

Networks ==
  [inner   |-> Inner,
   diamond |-> Diamond,
   twice   |-> Twice,
   deep    |-> Deep,
   doubled |-> Doubled,
   dangling    |-> Faulty(T("q")),          \* no layer of that name
   noSource    |-> Faulty(T("z")),          \* an input layer nobody seeds
   noNode      |-> Faulty(C("s", 2, 0)),    \* no such node
   noTensor    |-> Faulty(C("s", 0, 1)),    \* no such tensor
   modelNode   |-> Faulty(C("f", 0, 0)),    \* nested nodes count from 1
   modelTensor |-> Faulty(C("f", 1, 3)),
   modelArity  |-> Faulty(C("f", 2, 0)),    \* one tensor for two inputs
   twoForOne   |-> Faulty(C("s", 1, 0)),    \* two tensors for one
   noneToMerge |-> Faulty(T("m")),
   badShape    |-> Faulty(T("b")),
   wrongInput  |-> WrongInput,
   badOutput   |-> Faulty(T("y"))]           \* not the announced shape

\* TLC evaluates the definition of a constant at every use of it, but keeps the
\* value of an ordinary definition: costly constants are a name for one.
MCGraph == Networks
MCRoots == DOMAIN Networks
MCMisshapen == {"badOutput"}
MCRejecting == {<<"badShape", <<"b", 0>>>>, <<"wrongInput", <<"x", 0>>>>}
MCTerm(op, args, i) == [op |-> op, args |-> args, out |-> i]
MCTensor(m, l, args, i) == MCTerm(<<m, l>>, args, i)
MCActivate(m, l, t) == MCTerm(<<m, l, "act">>, << t >>, 1)
MCArguments == [i \in 1 .. 3 |-> MCTerm(<<"caller">>, << >>, i)]

\* The calls below a root, by paths no longer than the nesting allows.
MaxNesting == 2
ModelPaths == UNION {{<<m, k>> : k \in {j \in NodeKeys(m) : IsModel(m, j)}} : m \in MCRoots}
RECURSIVE PathsFrom(_, _, _)
PathsFrom(p, m, d) ==
  {<<p, m>>} \cup
  IF d = 0 THEN {}
  ELSE UNION {PathsFrom(Append(p, mk[2]), Body(m, mk[2]), d - 1) :
                mk \in {x \in ModelPaths : x[1] = m}}
MCModelAt ==
  [r \in MCRoots |->
     LET ps == PathsFrom(<< >>, r, MaxNesting)
     IN [p \in {x[1] : x \in ps} |-> (CHOOSE x \in ps : x[1] = p)[2]]]

\* The solution of the equations, by recursion along the graph.  A node that
\* is not OK has no meaning: any sequence will do.
Junk == [i \in 1 .. 4 |-> MCTerm(<<"junk">>, << >>, i)]
RECURSIVE MeaningOf(_, _, _)
MCGathered(r, p, m, cs) ==
  [i \in 1 .. Len(cs) |-> MeaningOf(r, p, KeyOf(m, cs[i]))[cs[i].tensor + 1]]
MeaningOf(r, p, k) ==
  LET m == MCModelAt[r][p] IN
  IF k \in InputKeys(m)
  THEN IF p = << >> THEN << MCArguments[LastInput(m, k)] >>
       ELSE LET q == SubSeq(p, 1, Len(p) - 1)
                up == MCModelAt[r][q]
            IN IF NodeOK(up, p[Len(p)])
               THEN << MCGathered(r, q, up, Inbound(up, p[Len(p)]))[LastInput(m, k)] >>
               ELSE Junk
  ELSE IF ~NodeOK(m, k) THEN Junk
  ELSE IF IsModel(m, k)
  THEN IF OutputsOK(Body(m, k))
       THEN Activated(m, k, MCGathered(r, Append(p, k), Body(m, k), Graph[Body(m, k)].outputs))
       ELSE Junk
  ELSE Apply(m, k, MCGathered(r, p, m, Inbound(m, k)))

Solutions ==
  [r \in MCRoots |-> [p \in DOMAIN MCModelAt[r] |->
     [k \in NodeKeys(MCModelAt[r][p]) \cup InputKeys(MCModelAt[r][p]) |->
        MeaningOf(r, p, k)]]]
MCMeaning == Solutions

RECURSIVE MCRank(_, _)
MCRank(m, k) ==
  LET below == {MCRank(m, j) : j \in
        Evaluated(m) \cap {KeyOf(m, Inbound(m, k)[i]) :
          i \in {n \in 1 .. Len(Inbound(m, k)) : Known(m, Inbound(m, k)[n])}}}
  IN IF below = {} THEN 0 ELSE 1 + CHOOSE x \in below : \A y \in below : y <= x
=============================================================================
