-------------------------- MODULE TensorLayoutProofs --------------------------
(***************************************************************************)
(* Whatever layers are applied in whatever order to an array of any shape, *)
(* the tensor3 of frugally-deep is Keras's array with its channels first.  *)
(*                                                                         *)
(* Each layer has a lemma of the form Same(a, t) => Same(Keras's layer of  *)
(* a, the code's layer of t).  It compares the two cell by cell (y, x, z), *)
(* through the positions of the cell on both sides.  The invariant says    *)
(* that the arrays and tensors at hand are the same.                       *)
(***************************************************************************)
EXTENDS TensorLayout, ArrayProofs

(***************************************************************************)
(* Sums over finite sets: FoldSet takes the elements in an order of its    *)
(* own, which makes no difference to a sum.                                *)
(***************************************************************************)
Some(s) == CHOOSE x \in s : TRUE
Partial(f, g) ==
  g = [s \in SUBSET DOMAIN f |-> IF s = {} THEN 0 ELSE g[s \ {Some(s)}] + f[Some(s)]]
TotalOf(f) == (CHOOSE g : Partial(f, g))[DOMAIN f]

\* A set without one of its elements.
LEMMA Smaller ==
  ASSUME NEW S, IsFiniteSet(S), NEW s \in SUBSET S, NEW x \in s
  PROVE  /\ IsFiniteSet(s)
         /\ s \ {x} \in SUBSET S
         /\ Cardinality(s) \in Nat \ {0}
         /\ Cardinality(s \ {x}) = Cardinality(s) - 1
  <1>1. IsFiniteSet(s)
    BY FS_Subset
  <1>2. Cardinality(s \ {x}) = Cardinality(s) - 1 /\ Cardinality(s) \in Nat
    BY <1>1, FS_RemoveElement, FS_CardinalityType
  <1>3. Cardinality(s) # 0
    BY <1>1, FS_EmptySet
  <1> QED  BY <1>1, <1>2, <1>3

LEMMA NoElements ==
  ASSUME NEW S, IsFiniteSet(S), NEW s \in SUBSET S, Cardinality(s) <= 0
  PROVE  s = {}
  <1>1. ASSUME NEW x \in s PROVE FALSE
    <2>1. Cardinality(s) \in Nat \ {0}
      BY Smaller
    <2> QED  BY <2>1
  <1> QED  BY <1>1

LEMMA SomeOf ==
  ASSUME NEW s, s # {}
  PROVE  Some(s) \in s
  BY DEF Some

\* The recursion that FoldSet and TotalOf choose a function from has a solution.
LEMMA PartialSumsExist ==
  ASSUME NEW S, IsFiniteSet(S), NEW f \in [S -> Int]
  PROVE  \E g \in [SUBSET S -> Int] : Partial(f, g)
  <1> DEFINE Solves(g, n) ==
               \A s \in SUBSET S : Cardinality(s) <= n =>
                 g[s] = IF s = {} THEN 0 ELSE g[s \ {Some(s)}] + f[Some(s)]
             T == {n \in Nat : \E g \in [SUBSET S -> Int] : Solves(g, n)}
  <1>1. 0 \in T
    <2> DEFINE g == [s \in SUBSET S |-> 0]
    <2>1. g \in [SUBSET S -> Int]
      OBVIOUS
    <2>2. Solves(g, 0)
      <3> SUFFICES ASSUME NEW s \in SUBSET S, Cardinality(s) <= 0
                   PROVE  s = {} /\ g[s] = 0
        OBVIOUS
      <3>1. s = {}
        BY NoElements
      <3> QED  BY <3>1
    <2> QED  BY <2>1, <2>2
  <1>2. \A n \in Nat : n \in T => n + 1 \in T
    <2> SUFFICES ASSUME NEW n \in Nat, n \in T PROVE n + 1 \in T
      OBVIOUS
    <2>1. PICK g \in [SUBSET S -> Int] : Solves(g, n)
      OBVIOUS
    <2> DEFINE h == [s \in SUBSET S |-> IF s = {} THEN 0
                                        ELSE g[s \ {Some(s)}] + f[Some(s)]]
    <2>2. ASSUME NEW s \in SUBSET S, s # {}
          PROVE  Some(s) \in s /\ Some(s) \in S /\ s \ {Some(s)} \in SUBSET S
      BY <2>2, SomeOf
    <2>3. h \in [SUBSET S -> Int]
      BY <2>2
    <2>4. ASSUME NEW s \in SUBSET S, Cardinality(s) <= n PROVE h[s] = g[s]
      BY <2>1, <2>4
    <2>5. Solves(h, n + 1)
      <3> SUFFICES ASSUME NEW s \in SUBSET S, Cardinality(s) <= n + 1, s # {}
                   PROVE  h[s] = h[s \ {Some(s)}] + f[Some(s)]
        OBVIOUS
      <3>1. Cardinality(s \ {Some(s)}) <= n /\ s \ {Some(s)} \in SUBSET S
        BY <2>2, Smaller
      <3>2. h[s \ {Some(s)}] = g[s \ {Some(s)}]
        BY <2>4, <3>1
      <3> HIDE DEF Solves
      <3> QED  BY <3>2
    <2> HIDE DEF Solves, h
    <2> QED  BY <2>3, <2>5
  <1> HIDE DEF T
  <1>3. Cardinality(S) \in T
    BY <1>1, <1>2, Induct, FS_CardinalityType
  <1>4. PICK g \in [SUBSET S -> Int] : Solves(g, Cardinality(S))
    BY <1>3 DEF T
  <1>5. \A s \in SUBSET S : Cardinality(s) <= Cardinality(S)
    BY FS_Subset
  <1>6. g = [s \in SUBSET S |-> g[s]]
    OBVIOUS
  <1>7. Partial(f, g)
    BY <1>4, <1>5, <1>6 DEF Partial
  <1> QED  BY <1>7

Takes(f, g, S) == \A s \in SUBSET S : \A x \in s : g[s] = g[s \ {x}] + f[x]

\* Whichever element is taken out last, the sum is the same.
LEMMA SumWithout ==
  ASSUME NEW S, IsFiniteSet(S), NEW f \in [S -> Int], NEW g \in [SUBSET S -> Int], Partial(f, g)
  PROVE  Takes(f, g, S)
  <1> USE DEF Takes
  <1> DEFINE T == {n \in Nat : \A s \in SUBSET S : \A x \in s :
                                 Cardinality(s) <= n => g[s] = g[s \ {x}] + f[x]}
  <1>1. 0 \in T
    <2> SUFFICES ASSUME NEW s \in SUBSET S, NEW x \in s, Cardinality(s) <= 0 PROVE FALSE
      OBVIOUS
    <2>1. s = {}
      BY NoElements
    <2> QED  BY <2>1
  <1>2. \A n \in Nat : n \in T => n + 1 \in T
    <2> TAKE n \in Nat
    <2>0. SUFFICES ASSUME \A s \in SUBSET S : \A x \in s :
                            Cardinality(s) <= n => g[s] = g[s \ {x}] + f[x],
                          NEW s \in SUBSET S, NEW x \in s, Cardinality(s) <= n + 1
                   PROVE  g[s] = g[s \ {x}] + f[x]
      OBVIOUS
    <2> HIDE DEF T
    <2> DEFINE y == Some(s)
    <2>1. y \in s /\ y \in S /\ x \in S
      BY SomeOf
    <2>2. g[s] = g[s \ {y}] + f[y]
      BY DEF Partial
    <2> HIDE DEF y
    <2>3. CASE y = x
      BY <2>2, <2>3
    <2>4. CASE y # x
      <3> DEFINE r == (s \ {x}) \ {y}
      <3>1. /\ s \ {x} \in SUBSET S /\ s \ {y} \in SUBSET S /\ r \in SUBSET S
            /\ r = (s \ {y}) \ {x} /\ y \in s \ {x} /\ x \in s \ {y}
        BY <2>1, <2>4
      <3>2. Cardinality(s \ {x}) <= n /\ Cardinality(s \ {y}) <= n
        BY <2>0, <2>1, Smaller
      <3>3. g[s \ {x}] = g[r] + f[y] /\ g[s \ {y}] = g[r] + f[x]
        BY <2>0, <3>1, <3>2
      <3>4. g[r] \in Int /\ f[x] \in Int /\ f[y] \in Int
        BY <2>1, <3>1
      <3> HIDE DEF r
      <3> QED  BY <2>2, <3>3, <3>4
    <2> QED  BY <2>3, <2>4
  <1>3. Nat \subseteq T
    <2> HIDE DEF T
    <2> QED  BY <1>1, <1>2, Induct
  <1> TAKE s \in SUBSET S
  <1> TAKE x \in s
  <1>4. Cardinality(s) \in Nat
    BY Smaller
  <1> QED  BY <1>3, <1>4

LEMMA SumOfNone ==
  ASSUME NEW S, NEW f \in [S -> Int], NEW g, Partial(f, g)
  PROVE  g[{}] = 0
  BY DEF Partial

Sums(f, g, S) ==
  /\ IsFiniteSet(S)
  /\ f \in [S -> Int]
  /\ g \in [SUBSET S -> Int]
  /\ Partial(f, g)

Renames(b, I, S, v, f) ==
  /\ b \in [I -> S]
  /\ S = {b[i] : i \in I}
  /\ \A i, j \in I : b[i] = b[j] => i = j
  /\ \A i \in I : f[b[i]] = v[i]

\* A sum over the images under an injection is one over what they are images of.
LEMMA SumsAgree ==
  ASSUME NEW I, NEW v, NEW w, Sums(v, w, I), NEW S, NEW f, NEW g, Sums(f, g, S),
         NEW b, Renames(b, I, S, v, f)
  PROVE  g[S] = w[I]
  <1> USE DEF Renames, Sums
  <1> DEFINE Image(s) == {b[i] : i \in s}
             T == {n \in Nat : \A s \in SUBSET I : Cardinality(s) <= n => g[Image(s)] = w[s]}
  <1>0. Image({}) = {} /\ g[{}] = 0 /\ w[{}] = 0
    BY SumOfNone
  <1>a. Takes(v, w, I) /\ Takes(f, g, S)
    BY SumWithout
  <1>1. 0 \in T
    <2> SUFFICES ASSUME NEW s \in SUBSET I, Cardinality(s) <= 0 PROVE g[Image(s)] = w[s]
      OBVIOUS
    <2>1. s = {}
      BY NoElements
    <2> QED  BY <1>0, <2>1
  <1>2. \A n \in Nat : n \in T => n + 1 \in T
    <2> TAKE n \in Nat
    <2>0. SUFFICES ASSUME \A s \in SUBSET I : Cardinality(s) <= n => g[Image(s)] = w[s],
                          NEW s \in SUBSET I, Cardinality(s) <= n + 1
                   PROVE  g[Image(s)] = w[s]
      OBVIOUS
    <2> HIDE DEF T
    <2>1. CASE s = {}
      BY <1>0, <2>1
    <2>2. CASE s # {}
      <3>1. PICK i \in s : TRUE
        BY <2>2
      <3>2. Image(s \ {i}) = Image(s) \ {b[i]} /\ b[i] \in Image(s) /\ Image(s) \in SUBSET S
        OBVIOUS
      <3>3. Cardinality(s \ {i}) <= n /\ s \ {i} \in SUBSET I
        BY <2>0, Smaller
      <3>4. g[Image(s \ {i})] = w[s \ {i}]
        BY <2>0, <3>3
      <3>5. w[s] = w[s \ {i}] + v[i]
        BY <1>a DEF Takes
      <3> HIDE DEF Image
      <3>6. g[Image(s)] = g[Image(s) \ {b[i]}] + f[b[i]]
        BY <1>a, <3>2 DEF Takes
      <3> QED  BY <3>2, <3>4, <3>5, <3>6
    <2> QED  BY <2>1, <2>2
  <1>3. Nat \subseteq T
    <2> HIDE DEF T
    <2> QED  BY <1>1, <1>2, Induct
  <1>4. Cardinality(I) \in Nat
    BY FS_CardinalityType
  <1> QED  BY <1>3, <1>4

LEMMA PartialType ==
  ASSUME NEW S, IsFiniteSet(S), NEW f \in [S -> Int], NEW g, Partial(f, g)
  PROVE  g \in [SUBSET S -> Int]
  <1> DEFINE T == {n \in Nat : \A s \in SUBSET S : Cardinality(s) <= n => g[s] \in Int}
  <1>0. \A s \in SUBSET S : g[s] = IF s = {} THEN 0 ELSE g[s \ {Some(s)}] + f[Some(s)]
    BY DEF Partial
  <1>1. 0 \in T
    <2> SUFFICES ASSUME NEW s \in SUBSET S, Cardinality(s) <= 0 PROVE g[s] \in Int
      OBVIOUS
    <2>1. s = {} /\ g[{}] = 0
      BY <1>0, NoElements
    <2> QED  BY <2>1
  <1>2. \A n \in Nat : n \in T => n + 1 \in T
    <2> TAKE n \in Nat
    <2>0. SUFFICES ASSUME \A s \in SUBSET S : Cardinality(s) <= n => g[s] \in Int,
                          NEW s \in SUBSET S, Cardinality(s) <= n + 1
                   PROVE  g[s] \in Int
      OBVIOUS
    <2> HIDE DEF T
    <2>1. CASE s = {}
      <3>1. g[s] = 0
        BY <1>0, <2>1
      <3> QED  BY <3>1
    <2>2. CASE s # {}
      <3>1. Some(s) \in s
        BY <2>2, SomeOf
      <3>2. Cardinality(s \ {Some(s)}) <= n /\ s \ {Some(s)} \in SUBSET S
        BY <2>0, <3>1, Smaller
      <3>3. g[s \ {Some(s)}] \in Int /\ f[Some(s)] \in Int
        BY <2>0, <3>1, <3>2
      <3>4. g[s] = g[s \ {Some(s)}] + f[Some(s)]
        BY <1>0, <2>2
      <3> QED  BY <3>3, <3>4
    <2> QED  BY <2>1, <2>2
  <1>3. Nat \subseteq T
    <2> HIDE DEF T
    <2> QED  BY <1>1, <1>2, Induct
  <1>4. \A s \in SUBSET S : g[s] \in Int
    <2> TAKE s \in SUBSET S
    <2>1. Cardinality(s) \in Nat
      BY FS_Subset, FS_CardinalityType
    <2> QED  BY <1>3, <2>1
  <1>5. g = [s \in SUBSET S |-> g[s]]
    BY DEF Partial
  <1> QED  BY <1>4, <1>5

LEMMA TotalIsPartial ==
  ASSUME NEW S, IsFiniteSet(S), NEW f \in [S -> Int]
  PROVE  \E g \in [SUBSET S -> Int] : Partial(f, g) /\ TotalOf(f) = g[S]
  <1> DEFINE g == CHOOSE g : Partial(f, g)
  <1>1. Partial(f, g)
    <2> HIDE DEF Partial
    <2> QED  BY PartialSumsExist
  <1>2. TotalOf(f) = g[S]
    BY DEF TotalOf
  <1> HIDE DEF g
  <1>3. g \in [SUBSET S -> Int]
    BY <1>1, PartialType
  <1> QED  BY <1>1, <1>2, <1>3

LEMMA RenamedIsFinite ==
  ASSUME NEW I, IsFiniteSet(I), NEW v, NEW S, NEW f, NEW b, Renames(b, I, S, v, f)
  PROVE  IsFiniteSet(S)
  <1>1. b \in Surjection(I, S)
    BY DEF Renames, Surjection
  <1> QED  BY <1>1, FS_Surjection

\* Any recursion of that kind gives the total of what the cells are renamed from.
LEMMA TotalOfRenamed ==
  ASSUME NEW I, IsFiniteSet(I), NEW v \in [I -> Int],
         NEW S, NEW f \in [S -> Int], NEW g, Partial(f, g),
         NEW b, Renames(b, I, S, v, f)
  PROVE  g[S] = TotalOf(v)
  <1>1. IsFiniteSet(S)
    BY RenamedIsFinite
  <1>2. PICK w \in [SUBSET I -> Int] : Partial(v, w) /\ TotalOf(v) = w[I]
    BY TotalIsPartial
  <1>3. g \in [SUBSET S -> Int]
    BY <1>1, PartialType
  <1>4. Sums(v, w, I) /\ Sums(f, g, S)
    BY <1>1, <1>2, <1>3 DEF Sums
  <1>5. g[S] = w[I]
    BY <1>4, SumsAgree
  <1> QED  BY <1>2, <1>5

LEMMA TotalIsPositive ==
  ASSUME NEW I, IsFiniteSet(I), I # {}, NEW v \in [I -> Positive]
  PROVE  TotalOf(v) \in Positive
  <1>0. v \in [I -> Int]
    BY DEF Positive
  <1>1. PICK w \in [SUBSET I -> Int] : Partial(v, w) /\ TotalOf(v) = w[I]
    BY <1>0, TotalIsPartial
  <1>a. w[{}] = 0 /\ Takes(v, w, I)
    BY <1>0, <1>1, SumOfNone, SumWithout
  <1> DEFINE T == {n \in Nat : \A s \in SUBSET I : Cardinality(s) <= n => w[s] \in Nat}
  <1>2. 0 \in T
    <2> SUFFICES ASSUME NEW s \in SUBSET I, Cardinality(s) <= 0 PROVE w[s] \in Nat
      OBVIOUS
    <2>1. s = {}
      BY NoElements
    <2> QED  BY <1>a, <2>1
  <1>3. ASSUME NEW s \in SUBSET I, NEW x \in s, w[s \ {x}] \in Nat PROVE w[s] \in Positive
    <2>1. w[s] = w[s \ {x}] + v[x]
      BY <1>a DEF Takes
    <2>2. v[x] \in Positive
      OBVIOUS
    <2> QED  BY <1>3, <2>1, <2>2 DEF Positive
  <1>4. \A n \in Nat : n \in T => n + 1 \in T
    <2> TAKE n \in Nat
    <2>0. SUFFICES ASSUME \A s \in SUBSET I : Cardinality(s) <= n => w[s] \in Nat,
                          NEW s \in SUBSET I, Cardinality(s) <= n + 1
                   PROVE  w[s] \in Nat
      OBVIOUS
    <2> HIDE DEF T
    <2>1. CASE s = {}
      BY <1>a, <2>1
    <2>2. CASE s # {}
      <3>1. PICK x \in s : TRUE
        BY <2>2
      <3>2. Cardinality(s \ {x}) <= n /\ s \ {x} \in SUBSET I
        BY <2>0, Smaller
      <3> QED  BY <1>3, <2>0, <3>2 DEF Positive
    <2> QED  BY <2>1, <2>2
  <1>5. Nat \subseteq T
    <2> HIDE DEF T
    <2> QED  BY <1>2, <1>4, Induct
  <1>6. PICK x \in I : TRUE
    OBVIOUS
  <1>7. I \ {x} \in SUBSET I /\ Cardinality(I \ {x}) \in Nat
    BY FS_Subset, FS_CardinalityType
  <1>8. w[I \ {x}] \in Nat
    BY <1>5, <1>7
  <1> QED  BY <1>1, <1>3, <1>8

\* The sums of Tensor3 and of KerasArrays over renamed cells are TotalOf.
LEMMA SumOverIsTotal ==
  ASSUME NEW t, NEW I, IsFiniteSet(I), NEW v \in [I -> Int],
         NEW S, NEW f \in [S -> Int], \A c \in S : f[c] = ValueAt(t, c),
         NEW b, Renames(b, I, S, v, f)
  PROVE  SumOver(t, S) = TotalOf(v)
  <1> DEFINE P(g) == g = [s \in SUBSET S |-> IF s = {} THEN 0
                                             ELSE g[s \ {Some(s)}] + ValueAt(t, Some(s))]
             h == CHOOSE g : P(g)
  <1>1. IsFiniteSet(S) /\ DOMAIN f = S
    BY RenamedIsFinite
  <1>2. ASSUME NEW g PROVE P(g) <=> Partial(f, g)
    <2>1. ASSUME NEW s \in SUBSET S
          PROVE  (IF s = {} THEN 0 ELSE g[s \ {Some(s)}] + ValueAt(t, Some(s)))
                   = (IF s = {} THEN 0 ELSE g[s \ {Some(s)}] + f[Some(s)])
      <3>1. s # {} => Some(s) \in S
        BY SomeOf
      <3> QED  BY <3>1
    <2> QED  BY <1>1, <2>1 DEF Partial
  <1>3. SumOver(t, S) = h[S]
    BY DEF SumOver, FoldSet, MapThenFoldSet, Some
  <1>4. P(h)
    <2>1. \E g : P(g)
      <3> HIDE DEF P
      <3> QED  BY <1>1, <1>2, PartialSumsExist
    <2> HIDE DEF P
    <2> QED  BY <2>1
  <1>5. Partial(f, h)
    <2> HIDE DEF P, h
    <2> QED  BY <1>2, <1>4
  <1> HIDE DEF h, P
  <1>6. h[S] = TotalOf(v)
    BY <1>5, TotalOfRenamed
  <1> QED  BY <1>3, <1>6

LEMMA KerasTotal ==
  ASSUME NEW a, NEW I, IsFiniteSet(I), NEW v \in [I -> Int],
         NEW S, NEW f \in [S -> Int], \A i \in S : f[i] = Keras!At(a, i),
         NEW b, Renames(b, I, S, v, f)
  PROVE  Keras!Total(a, S) = TotalOf(v)
  <1> DEFINE P(g) == g = [s \in SUBSET S |-> IF s = {} THEN 0
                                             ELSE g[s \ {Some(s)}] + Keras!At(a, Some(s))]
             h == CHOOSE g : P(g)
  <1>1. IsFiniteSet(S) /\ DOMAIN f = S
    BY RenamedIsFinite
  <1>2. ASSUME NEW g PROVE P(g) <=> Partial(f, g)
    <2>1. ASSUME NEW s \in SUBSET S
          PROVE  (IF s = {} THEN 0 ELSE g[s \ {Some(s)}] + Keras!At(a, Some(s)))
                   = (IF s = {} THEN 0 ELSE g[s \ {Some(s)}] + f[Some(s)])
      <3>1. s # {} => Some(s) \in S
        BY SomeOf
      <3> QED  BY <3>1
    <2> QED  BY <1>1, <2>1 DEF Partial
  <1>3. Keras!Total(a, S) = h[S]
    BY DEF Keras!Total, Keras!FoldSet, Keras!MapThenFoldSet, Some
  <1>4. P(h)
    <2>1. \E g : P(g)
      <3> HIDE DEF P
      <3> QED  BY <1>1, <1>2, PartialSumsExist
    <2> HIDE DEF P
    <2> QED  BY <2>1
  <1>5. Partial(f, h)
    <2> HIDE DEF P, h
    <2> QED  BY <1>2, <1>4
  <1> HIDE DEF h, P
  <1>6. h[S] = TotalOf(v)
    BY <1>5, TotalOfRenamed
  <1> QED  BY <1>3, <1>6

ExpSum(a, cells) == FoldSet(LAMBDA i, sum : sum + Exp(Keras!At(a, i)), 0, cells)

LEMMA SumOfExp ==
  ASSUME NEW a, NEW I, IsFiniteSet(I), NEW v \in [I -> Int],
         NEW S, NEW f \in [S -> Int], \A i \in S : f[i] = Exp(Keras!At(a, i)),
         NEW b, Renames(b, I, S, v, f)
  PROVE  ExpSum(a, S) = TotalOf(v)
  <1> DEFINE P(g) == g = [s \in SUBSET S |-> IF s = {} THEN 0
                                             ELSE g[s \ {Some(s)}] + Exp(Keras!At(a, Some(s)))]
             h == CHOOSE g : P(g)
  <1>1. IsFiniteSet(S) /\ DOMAIN f = S
    BY RenamedIsFinite
  <1>2. ASSUME NEW g PROVE P(g) <=> Partial(f, g)
    <2>1. ASSUME NEW s \in SUBSET S
          PROVE  (IF s = {} THEN 0 ELSE g[s \ {Some(s)}] + Exp(Keras!At(a, Some(s))))
                   = (IF s = {} THEN 0 ELSE g[s \ {Some(s)}] + f[Some(s)])
      <3>1. s # {} => Some(s) \in S
        BY SomeOf
      <3> QED  BY <3>1
    <2> QED  BY <1>1, <2>1 DEF Partial
  <1>3. ExpSum(a, S) = h[S]
    BY DEF ExpSum, FoldSet, MapThenFoldSet, Some
  <1>4. P(h)
    <2>1. \E g : P(g)
      <3> HIDE DEF P
      <3> QED  BY <1>1, <1>2, PartialSumsExist
    <2> HIDE DEF P
    <2> QED  BY <2>1
  <1>5. Partial(f, h)
    <2> HIDE DEF P, h
    <2> QED  BY <1>2, <1>4
  <1> HIDE DEF h, P
  <1>6. h[S] = TotalOf(v)
    BY <1>5, TotalOfRenamed
  <1> QED  BY <1>3, <1>6

IsKeras(a) ==
  /\ a = [shape |-> a.shape, values |-> a.values]
  /\ a.shape \in Shapes
  /\ a.values \in Seq(Int)
  /\ Len(a.values) = Volume(a.shape)
Same(a, t) == IsKeras(a) /\ t = AsTensor3(a)

\* A record of a shape and as many values.
IsFilled(a, n) == a = [shape |-> a.shape, values |-> [p \in 1 .. n |-> a.values[p]]]

\* Keras's side is an instance of the same operators on arrays.
LEMMA KerasOperators ==
  ASSUME NEW a, NEW i, NEW p, NEW s
  PROVE  /\ Keras!Volume(s) = Volume(s)
         /\ Keras!IndexOf(s, p) = IndexOf(s, p)
         /\ Keras!PosOf(s, i) = PosOf(s, i)
         /\ Keras!At(a, i) = a.values[PosOf(a.shape, i) + 1]
         /\ Keras!Rank(a) = Len(a.shape)
         /\ Keras!Channels(a) = Chans(a.shape)
         /\ Keras!SpatialAxes(a) = 1 .. Len(a.shape) - 1
         /\ Keras!Axes(a) = 1 .. Len(a.shape)
  <1>1. Keras!Volume(s) = Volume(s)
    BY DEF Keras!Volume, Volume
  <1>2. Keras!PosOf(s, i) = PosOf(s, i)
    BY DEF Keras!PosOf, PosOf
  <1>3. Keras!PosOf(a.shape, i) = PosOf(a.shape, i)
    BY DEF Keras!PosOf, PosOf
  <1>4. ASSUME NEW k PROVE Keras!Stride(s, k) = Stride(s, k)
    BY DEF Keras!Stride, Stride, Keras!Volume, Volume
  <1>5. Keras!IndexOf(s, p) = IndexOf(s, p)
    BY <1>4 DEF Keras!IndexOf, IndexOf
  <1>6. Keras!At(a, i) = a.values[PosOf(a.shape, i) + 1]
    BY <1>3 DEF Keras!At
  <1>7. Keras!Rank(a) = Len(a.shape)
    BY DEF Keras!Rank
  <1>8. Keras!Channels(a) = Chans(a.shape) /\ Keras!Axes(a) = 1 .. Len(a.shape)
    BY <1>7 DEF Keras!Channels, Keras!Axes, Chans
  <1>9. Keras!SpatialAxes(a) = 1 .. Len(a.shape) - 1
    BY <1>7 DEF Keras!SpatialAxes
  <1> QED  BY <1>1, <1>2, <1>5, <1>6, <1>7, <1>8, <1>9

LEMMA KerasAt ==
  ASSUME NEW a, a.shape \in Shapes,
         NEW y \in 0 .. Rows(a.shape) - 1, NEW x \in 0 .. Cols(a.shape) - 1,
         NEW z \in 0 .. Chans(a.shape) - 1
  PROVE  Keras!At(a, Cell(Len(a.shape), y, x, z)) = Val(a, y, x, z)
  <1>1. PosOf(a.shape, Cell(Len(a.shape), y, x, z)) = Pos(a.shape, y, x, z)
    BY CellOfPos
  <1> QED  BY <1>1, KerasOperators DEF Val

\* The cells of AsTensor3(a) are those of a.
LEMMA CellsOfTensor ==
  ASSUME NEW a, IsKeras(a), NEW t, t = AsTensor3(a)
  PROVE  LET s == a.shape IN
         /\ t.shape = <<Chans(s), Rows(s), Cols(s)>>
         /\ Depth(t) = Chans(s) /\ Height(t) = Rows(s) /\ Width(t) = Cols(s)
         /\ IsFilled(t, Chans(s) * Rows(s) * Cols(s))
         /\ DOMAIN t.values = 1 .. Chans(s) * Rows(s) * Cols(s)
         /\ \A z \in 0 .. Chans(s) - 1, y \in 0 .. Rows(s) - 1, x \in 0 .. Cols(s) - 1 :
              Get(t, z, y, x) = Val(a, y, x, z) /\ Val(a, y, x, z) \in Int
  <1> DEFINE s == a.shape
             c == Chans(s)
             h == Rows(s)
             w == Cols(s)
             n == h * w
             f == [p \in 1 .. n * c |-> a.values[((p - 1) % n) * c + ((p - 1) \div n) + 1]]
  <1>1. s \in Shapes /\ a.values \in Seq(Int) /\ Len(a.values) = Volume(s)
    BY DEF IsKeras
  <1>2. /\ h \in Positive /\ w \in Positive /\ c \in Positive
        /\ ThreeAxes(s) = <<h, w, c>> /\ Volume(s) \in Positive
    BY <1>1, ThreeAxesOf
  <1>3. t = [shape |-> <<c, h, w>>, values |-> f]
    BY <1>2 DEF AsTensor3, ChannelsFirst, Reshape
  <1>4. n * c = c * h * w
    <2> HIDE DEF h, w, c
    <2> QED  BY <1>2 DEF Positive
  <1>5. t.shape = <<c, h, w>> /\ t.values = f
    BY <1>3
  <1>6. Depth(t) = c /\ Height(t) = h /\ Width(t) = w
    BY <1>5 DEF Depth, Height, Width
  <1>7. ASSUME NEW z \in 0 .. c - 1, NEW y \in 0 .. h - 1, NEW x \in 0 .. w - 1
        PROVE  Get(t, z, y, x) = Val(a, y, x, z) /\ Val(a, y, x, z) \in Int
    <2> DEFINE p == (z * h + y) * w + x + 1
    <2>1. p \in 1 .. c * h * w /\ (p - 1) % n = y * w + x /\ (p - 1) \div n = z
      BY <1>2, TensorPosition
    <2>2. Get(t, z, y, x) = f[p]
      BY <1>5, <1>6 DEF Get
    <2>3. f[p] = a.values[((p - 1) % n) * c + ((p - 1) \div n) + 1]
      BY <1>4, <2>1
    <2>4. f[p] = Val(a, y, x, z)
      BY <2>1, <2>3 DEF Val, Pos
    <2>5. Pos(s, y, x, z) + 1 \in 1 .. Volume(s)
      BY <1>1, PosIsPosition
    <2>6. Val(a, y, x, z) \in Int
      BY <1>1, <2>5 DEF Val
    <2> QED  BY <2>2, <2>4, <2>6
  <1>8. DOMAIN t.values = 1 .. c * h * w
    BY <1>4, <1>5
  <1>9. IsFilled(t, c * h * w)
    <2>1. f = [p \in 1 .. c * h * w |-> f[p]]
      BY <1>4
    <2> HIDE DEF f
    <2> QED  BY <1>3, <1>5, <2>1 DEF IsFilled
  <1> HIDE DEF f, n, c, h, w
  <1> QED  BY <1>5, <1>6, <1>7, <1>8, <1>9 DEF c, h, w

LEMMA FilledIsKeras ==
  ASSUME NEW a, a.shape \in Shapes, IsFilled(a, Volume(a.shape)),
         \A y \in 0 .. Rows(a.shape) - 1, x \in 0 .. Cols(a.shape) - 1,
            z \in 0 .. Chans(a.shape) - 1 :
           Val(a, y, x, z) \in Int
  PROVE  IsKeras(a)
  <1> DEFINE s == a.shape
             n == Volume(s)
             v == [p \in 1 .. n |-> a.values[p]]
  <1>1. a = [shape |-> s, values |-> v]
    BY DEF IsFilled
  <1>2. a.values = v
    BY <1>1
  <1>3. ASSUME NEW p \in 1 .. n PROVE a.values[p] \in Int
    <2>1. n \in Nat
      BY ThreeAxesOf DEF Positive
    <2>2. p - 1 \in 0 .. n - 1
      BY <2>1
    <2>3. PICK y \in 0 .. Rows(s) - 1, x \in 0 .. Cols(s) - 1, z \in 0 .. Chans(s) - 1 :
            p - 1 = Pos(s, y, x, z)
      BY <2>2, PositionIsPos
    <2>4. p = Pos(s, y, x, z) + 1
      BY <2>1, <2>3
    <2> QED  BY <2>4 DEF Val
  <1>4. n \in Nat
    BY ThreeAxesOf DEF Positive
  <1>5. v \in [1 .. n -> Int]
    BY <1>3
  <1> HIDE DEF v
  <1>6. v \in Seq(Int) /\ Len(v) = n
    BY <1>4, <1>5
  <1> QED  BY <1>1, <1>2, <1>6 DEF IsKeras

(***************************************************************************)
(* To show that a layer of both sides gives the same, it is enough to look *)
(* at every cell.                                                          *)
(***************************************************************************)
LEMMA SameCells ==
  ASSUME NEW a, NEW t, NEW s \in Shapes, a.shape = s, IsFilled(a, Volume(s)),
         t.shape = <<Chans(s), Rows(s), Cols(s)>>, IsFilled(t, Chans(s) * Rows(s) * Cols(s)),
         \A z \in 0 .. Chans(s) - 1, y \in 0 .. Rows(s) - 1, x \in 0 .. Cols(s) - 1 :
           Get(t, z, y, x) = Val(a, y, x, z) /\ Val(a, y, x, z) \in Int
  PROVE  Same(a, t)
  <1> DEFINE u == AsTensor3(a)
             c == Chans(s)
             h == Rows(s)
             w == Cols(s)
             n == c * h * w
  <1>1. IsKeras(a)
    BY FilledIsKeras
  <1>2. /\ u.shape = <<c, h, w>>
        /\ Height(u) = h /\ Width(u) = w
        /\ IsFilled(u, n)
        /\ \A z \in 0 .. c - 1, y \in 0 .. h - 1, x \in 0 .. w - 1 :
             Get(u, z, y, x) = Val(a, y, x, z)
    BY <1>1, CellsOfTensor
  <1>3. h \in Positive /\ w \in Positive /\ c \in Positive
    BY ThreeAxesOf
  <1>4. Height(t) = h /\ Width(t) = w
    BY DEF Height, Width
  <1>5. ASSUME NEW p \in 1 .. n PROVE t.values[p] = u.values[p]
    <2>1. PICK z \in 0 .. c - 1, y \in 0 .. h - 1, x \in 0 .. w - 1 : p = (z * h + y) * w + x + 1
      BY <1>3, PositionInTensor
    <2>2. Get(t, z, y, x) = t.values[p] /\ Get(u, z, y, x) = u.values[p]
      BY <1>2, <1>4, <2>1 DEF Get
    <2> QED  BY <1>2, <2>2
  <1>6. t = [shape |-> <<c, h, w>>, values |-> [p \in 1 .. n |-> t.values[p]]]
    BY DEF IsFilled
  <1>7. u = [shape |-> <<c, h, w>>, values |-> [p \in 1 .. n |-> u.values[p]]]
    BY <1>2 DEF IsFilled
  <1>8. [p \in 1 .. n |-> t.values[p]] = [p \in 1 .. n |-> u.values[p]]
    BY <1>5
  <1> HIDE DEF u
  <1>9. t = u
    BY <1>6, <1>7, <1>8
  <1> QED  BY <1>1, <1>9 DEF Same, u

\* What is known of an array and its tensor.
LEMMA SameFacts ==
  ASSUME NEW a, NEW t, Same(a, t)
  PROVE  LET s == a.shape IN
         /\ IsKeras(a) /\ s \in Shapes
         /\ Rows(s) \in Positive /\ Cols(s) \in Positive /\ Chans(s) \in Positive
         /\ t.shape = <<Chans(s), Rows(s), Cols(s)>>
         /\ Depth(t) = Chans(s) /\ Height(t) = Rows(s) /\ Width(t) = Cols(s)
         /\ IsFilled(t, Chans(s) * Rows(s) * Cols(s))
         /\ DOMAIN t.values = 1 .. Chans(s) * Rows(s) * Cols(s)
         /\ \A z \in 0 .. Chans(s) - 1, y \in 0 .. Rows(s) - 1, x \in 0 .. Cols(s) - 1 :
              Get(t, z, y, x) = Val(a, y, x, z) /\ Val(a, y, x, z) \in Int
  BY ThreeAxesOf, CellsOfTensor DEF Same, IsKeras

\* Flattening takes the cells in the order of y, x, z, which is the order Keras stores
\* them in.
LEMMA Flattens ==
  ASSUME NEW a, NEW t, Same(a, t)
  PROVE  Same(Keras!Flattened(a), FlattenTensor3(t))
  <1> DEFINE s == a.shape
             n == Volume(s)
             b == Keras!Flattened(a)
             u == FlattenTensor3(t)
             c == Chans(s)
             h == Rows(s)
             w == Cols(s)
  <1>1. /\ s \in Shapes /\ h \in Positive /\ w \in Positive /\ c \in Positive
        /\ t.shape = <<c, h, w>> /\ Depth(t) = c /\ Width(t) = w /\ Height(t) = h
        /\ \A z \in 0 .. c - 1, y \in 0 .. h - 1, x \in 0 .. w - 1 :
              Get(t, z, y, x) = Val(a, y, x, z) /\ Val(a, y, x, z) \in Int
        /\ a.values \in Seq(Int) /\ Len(a.values) = n
    BY SameFacts DEF IsKeras
  <1>2. n = h * w * c /\ n \in Positive
    BY <1>1, ThreeAxesOf
  <1>3. Volume(t.shape) = n
    <2>1. Volume(<<c, h, w>>) = c * h * w
      BY <1>1, Volume3 DEF Positive
    <2>2. c * h * w = h * w * c
      <3> HIDE DEF c, h, w
      <3> QED  BY <1>1 DEF Positive
    <2> QED  BY <1>1, <1>2, <2>1, <2>2
  <1>4. b = [shape |-> <<n>>, values |-> a.values]
    BY KerasOperators DEF Keras!Flattened, Keras!Reshape
  <1>5. b.shape = <<n>> /\ b.values = a.values
    BY <1>4
  <1>6. /\ <<n>> \in Shapes /\ Chans(<<n>>) = n /\ Rows(<<n>>) = 1 /\ Cols(<<n>>) = 1
        /\ Volume(<<n>>) = n
    BY <1>2, IsShape, Volume1 DEF Positive
  <1>7. IsFilled(b, Volume(<<n>>))
    <2>1. a.values = [p \in 1 .. n |-> a.values[p]]
      BY <1>1
    <2> QED  BY <1>4, <1>5, <1>6, <2>1 DEF IsFilled
  <1>8. u.shape = <<n, 1, 1>>
    BY <1>3 DEF FlattenTensor3, Tensor
  <1>9. n * 1 * 1 = n /\ 1 * 1 = 1
    BY <1>2 DEF Positive
  <1>10. IsFilled(u, n * 1 * 1)
    BY <1>3 DEF FlattenTensor3, Tensor, IsFilled
  <1>11. ASSUME NEW z \in 0 .. n - 1
         PROVE  Get(u, z, 0, 0) = Val(b, 0, 0, z) /\ Val(b, 0, 0, z) \in Int
    <2>1. z \in Nat /\ z + 1 \in 1 .. n
      BY <1>2 DEF Positive
    <2>2. Val(b, 0, 0, z) = a.values[z + 1]
      <3>1. Pos(<<n>>, 0, 0, z) = (0 * 1 + 0) * n + z
        BY <1>6 DEF Pos
      <3>2. (0 * 1 + 0) * n + z = z
        <4> HIDE DEF n
        <4> QED  BY <1>2, <2>1 DEF Positive
      <3> QED  BY <1>5, <3>1, <3>2 DEF Val
    <2>3. Get(u, z, 0, 0) = u.values[z + 1]
      BY <1>8, <2>1 DEF Get, Height, Width
    <2>4. PICK y \in 0 .. h - 1, x \in 0 .. w - 1, q \in 0 .. c - 1 : z = Pos(s, y, x, q)
      BY <1>1, PositionIsPos
    <2>5. z \div (w * c) = y /\ (z \div c) % w = x /\ z % c = q
      BY <1>1, <2>4, PosIsPosition
    <2>6. u.values[z + 1] = Get(t, ((z + 1 - 1) \div (1 * 1)) % c,
                                ((z + 1 - 1) \div (1 * 1)) \div (c * w),
                                (((z + 1 - 1) \div (1 * 1)) \div c) % w)
      BY <1>1, <1>3, <1>9, <2>1 DEF FlattenTensor3, Tensor
    <2>7. (z + 1 - 1) \div (1 * 1) = z
      <3>1. z = z * 1 + 0 /\ 1 \in Positive /\ 0 \in 0 .. 1 - 1
        BY <2>1 DEF Positive
      <3> QED  BY <1>9, <2>1, <3>1, DivisionWithRemainder
    <2>8. c * w = w * c
      <3> HIDE DEF c, w
      <3> QED  BY <1>1 DEF Positive
    <2>9. u.values[z + 1] = Get(t, q, y, x)
      BY <2>5, <2>6, <2>7, <2>8
    <2>10. Get(t, q, y, x) = Val(a, y, x, q) /\ Val(a, y, x, q) \in Int
      BY <1>1
    <2>11. Val(a, y, x, q) = a.values[z + 1]
      BY <2>4 DEF Val
    <2> QED  BY <2>2, <2>3, <2>9, <2>10, <2>11
  <1>12. ASSUME NEW z \in 0 .. Chans(<<n>>) - 1, NEW y \in 0 .. Rows(<<n>>) - 1,
                NEW x \in 0 .. Cols(<<n>>) - 1
         PROVE  Get(u, z, y, x) = Val(b, y, x, z) /\ Val(b, y, x, z) \in Int
    <2>1. y = 0 /\ x = 0 /\ z \in 0 .. n - 1
      BY <1>6
    <2> QED  BY <1>11, <2>1
  <1> HIDE DEF b, u, n
  <1> QED  BY <1>5, <1>6, <1>7, <1>8, <1>10, <1>12, SameCells DEF b, u

LEMMA AxesOf ==
  ASSUME NEW s \in Shapes
  PROVE  /\ Len(s) \in 1 .. 3 /\ s \in Seq(Positive)
         /\ Len(s) = 2 => s[1] = Cols(s) /\ s[2] = Chans(s) /\ Rows(s) = 1
         /\ Len(s) = 3 => s[1] = Rows(s) /\ s[2] = Cols(s) /\ s[3] = Chans(s)
  BY DEF Shapes, Rows, Cols, Chans

LEMMA FunctionIsShape ==
  ASSUME NEW n \in 1 .. 3, NEW s \in [1 .. n -> Positive]
  PROVE  s \in Shapes /\ Len(s) = n
  <1>1. s \in Seq(Positive) /\ Len(s) = n
    OBVIOUS
  <1> QED  BY <1>1 DEF Shapes

LEMMA CellIs ==
  ASSUME NEW y, NEW x, NEW z
  PROVE  /\ Cell(2, y, x, z) = [k \in 1 .. 2 |-> IF k = 1 THEN x ELSE z]
         /\ Cell(3, y, x, z) = [k \in 1 .. 3 |-> IF k = 1 THEN y ELSE IF k = 2 THEN x ELSE z]
  <1>1. Cell(2, y, x, z) = <<x, z>>
    BY DEF Cell
  <1>2. Cell(3, y, x, z) = <<y, x, z>>
    BY DEF Cell
  <1> QED  BY <1>1, <1>2

LEMMA CellIndex ==
  ASSUME NEW s \in Shapes,
         NEW y \in 0 .. Rows(s) - 1, NEW x \in 0 .. Cols(s) - 1, NEW z \in 0 .. Chans(s) - 1
  PROVE  /\ Pos(s, y, x, z) + 1 \in 1 .. Keras!Volume(s)
         /\ Keras!IndexOf(s, (Pos(s, y, x, z) + 1) - 1) = Cell(Len(s), y, x, z)
  <1>1. Pos(s, y, x, z) + 1 \in 1 .. Volume(s) /\ Pos(s, y, x, z) \in Nat
    BY PosIsPosition
  <1>2. (Pos(s, y, x, z) + 1) - 1 = Pos(s, y, x, z)
    BY <1>1
  <1>3. IndexOf(s, Pos(s, y, x, z)) = Cell(Len(s), y, x, z)
    BY CellOfPos
  <1> QED  BY <1>1, <1>2, <1>3, KerasOperators

(***************************************************************************)
(* Parameters of the layers that work on the space of an image or sequence.*)
(***************************************************************************)
LEMMA Concatenation ==
  ASSUME NEW S, NEW x \in Seq(S), NEW y \in Seq(S)
  PROVE  /\ x \o y \in Seq(S)
         /\ Len(x \o y) = Len(x) + Len(y)
         /\ \A i \in 1 .. Len(x) + Len(y) :
              (x \o y)[i] = IF i <= Len(x) THEN x[i] ELSE y[i - Len(x)]
  OBVIOUS

LEMMA TwoPairs ==
  ASSUME NEW x \in Seq(Nat), NEW y \in Seq(Nat), Len(x) = 2, Len(y) = 2
  PROVE  /\ (x \o y)[1] = x[1] /\ (x \o y)[2] = x[2]
         /\ (x \o y)[3] = y[1] /\ (x \o y)[4] = y[2]
  <1> DEFINE c == x \o y
  <1>1. \A i \in 1 .. Len(x) + Len(y) : c[i] = IF i <= Len(x) THEN x[i] ELSE y[i - Len(x)]
    BY Concatenation
  <1> HIDE DEF c
  <1>2. c[1] = x[1] /\ c[2] = x[2] /\ c[3] = y[1] /\ c[4] = y[2]
    BY <1>1
  <1> QED  BY <1>2 DEF c

LEMMA PaddingOf ==
  ASSUME NEW n \in 2 .. 3, NEW pads \in [1 .. n - 1 -> Nat \X Nat]
  PROVE  LET p == TopLeft(pads) IN
         /\ p[1] \in Nat /\ p[2] \in Nat /\ p[3] \in Nat /\ p[4] \in Nat
         /\ n = 2 => p[1] = 0 /\ p[2] = 0 /\ p[3] = pads[1][1] /\ p[4] = pads[1][2]
         /\ n = 3 => /\ p[1] = pads[1][1] /\ p[2] = pads[1][2]
                     /\ p[3] = pads[2][1] /\ p[4] = pads[2][2]
  <1>1. pads \in Seq(Nat \X Nat) /\ Len(pads) = n - 1
    OBVIOUS
  <1>2. ASSUME NEW x \in Nat \X Nat, NEW y \in Nat \X Nat
        PROVE  /\ (x \o y)[1] = x[1] /\ (x \o y)[2] = x[2]
               /\ (x \o y)[3] = y[1] /\ (x \o y)[4] = y[2]
    <2>1. ASSUME NEW v \in Nat \X Nat PROVE v \in Seq(Nat) /\ Len(v) = 2
      <3>1. PICK i \in Nat, j \in Nat : v = <<i, j>>
        OBVIOUS
      <3> QED  BY <3>1
    <2>2. x \in Seq(Nat) /\ Len(x) = 2 /\ y \in Seq(Nat) /\ Len(y) = 2
      BY <2>1
    <2> QED  BY <2>2, TwoPairs
  <1>3. CASE n = 2
    <2>1. TopLeft(pads) = <<0, 0>> \o pads[1]
      BY <1>1, <1>3 DEF TopLeft
    <2>2. pads[1] \in Nat \X Nat /\ pads[1][1] \in Nat /\ pads[1][2] \in Nat
      BY <1>3
    <2>3. <<0, 0>> \in Nat \X Nat /\ <<0, 0>>[1] = 0 /\ <<0, 0>>[2] = 0
      OBVIOUS
    <2> DEFINE o == <<0, 0>>
    <2> HIDE DEF o
    <2>4. TopLeft(pads) = o \o pads[1] /\ o \in Nat \X Nat /\ o[1] = 0 /\ o[2] = 0
      BY <2>1, <2>3 DEF o
    <2>5. (o \o pads[1])[1] = 0 /\ (o \o pads[1])[2] = 0
          /\ (o \o pads[1])[3] = pads[1][1] /\ (o \o pads[1])[4] = pads[1][2]
      BY <1>2, <2>2, <2>4
    <2> QED  BY <1>3, <2>2, <2>4, <2>5
  <1>4. CASE n = 3
    <2>1. TopLeft(pads) = pads[1] \o pads[2]
      BY <1>1, <1>4 DEF TopLeft
    <2>2. pads[1] \in Nat \X Nat /\ pads[2] \in Nat \X Nat
      BY <1>4
    <2>3. /\ pads[1][1] \in Nat /\ pads[1][2] \in Nat
          /\ pads[2][1] \in Nat /\ pads[2][2] \in Nat
      BY <2>2
    <2> DEFINE o == TopLeft(pads)
    <2>4. o[1] = pads[1][1] /\ o[2] = pads[1][2] /\ o[3] = pads[2][1] /\ o[4] = pads[2][2]
      <3> DEFINE v == pads[1]
                 w == pads[2]
      <3> HIDE DEF v, w
      <3>1. v \in Nat \X Nat /\ w \in Nat \X Nat
        BY <2>2 DEF v, w
      <3>2. /\ (v \o w)[1] = v[1] /\ (v \o w)[2] = v[2]
            /\ (v \o w)[3] = w[1] /\ (v \o w)[4] = w[2]
        BY <1>2, <3>1
      <3> QED  BY <2>1, <3>2 DEF v, w
    <2> HIDE DEF o
    <2>5. o[1] \in Nat /\ o[2] \in Nat /\ o[3] \in Nat /\ o[4] \in Nat
      BY <2>3, <2>4
    <2> QED  BY <1>4, <2>4, <2>5 DEF o
  <1> QED  BY <1>3, <1>4

\* The space of an array changed, and the place of a cell in it.
LEMMA ShapeOfSpace ==
  ASSUME NEW s \in Shapes, NEW n \in 2 .. 3, n = Len(s), NEW f \in [1 .. n - 1 -> Positive]
  PROVE  LET r == [k \in 1 .. n |-> IF k \in 1 .. n - 1 THEN f[k] ELSE s[k]] IN
         /\ r \in Shapes /\ Len(r) = n
         /\ Rows(r) = (IF n = 3 THEN f[1] ELSE 1) /\ Cols(r) = f[n - 1] /\ Chans(r) = Chans(s)
  <1> DEFINE r == [k \in 1 .. n |-> IF k \in 1 .. n - 1 THEN f[k] ELSE s[k]]
  <1>1. n \in 1 .. 3 /\ \A k \in 1 .. n : s[k] \in Positive
    BY AxesOf
  <1>2. r \in [1 .. n -> Positive]
    BY <1>1
  <1>3. /\ \A k \in 1 .. n - 1 : r[k] = f[k]
        /\ r[n] = s[n]
    BY <1>1
  <1> HIDE DEF r
  <1>4. r \in Shapes /\ Len(r) = n
    BY <1>1, <1>2, FunctionIsShape
  <1>5. Rows(r) = (IF n = 3 THEN f[1] ELSE 1) /\ Cols(r) = f[n - 1] /\ Chans(r) = Chans(s)
    BY <1>1, <1>3, <1>4 DEF Rows, Cols, Chans
  <1> QED  BY <1>4, <1>5 DEF r

\* Padding: the cell (y, x) comes from (y - top, x - left), or is 0 outside.
LEMMA Pads ==
  ASSUME NEW a, NEW t, Same(a, t), Len(a.shape) > 1,
         NEW pads \in [1 .. Len(a.shape) - 1 -> Nat \X Nat]
  PROVE  LET p == TopLeft(pads) IN
         Same(Keras!ZeroPadded(a, pads), PadTensor3(0, p[1], p[2], p[3], p[4], t))
  <1> DEFINE s == a.shape
             n == Len(s)
             p == TopLeft(pads)
             f == [k \in 1 .. n - 1 |-> pads[k][1] + s[k] + pads[k][2]]
             r == [k \in 1 .. n |-> IF k \in 1 .. n - 1 THEN f[k] ELSE s[k]]
             b == Keras!ZeroPadded(a, pads)
             u == PadTensor3(0, p[1], p[2], p[3], p[4], t)
             From(i) == [k \in 1 .. n |-> IF k \in 1 .. n - 1 THEN i[k] - pads[k][1] ELSE i[k]]
  <1>1. /\ s \in Shapes /\ Rows(s) \in Positive /\ Cols(s) \in Positive /\ Chans(s) \in Positive
        /\ Depth(t) = Chans(s) /\ Width(t) = Cols(s) /\ Height(t) = Rows(s)
        /\ \A z \in 0 .. Chans(s) - 1, y \in 0 .. Rows(s) - 1, x \in 0 .. Cols(s) - 1 :
              Get(t, z, y, x) = Val(a, y, x, z) /\ Val(a, y, x, z) \in Int
    BY SameFacts
  <1>2. n \in 2 .. 3 /\ \A k \in 1 .. n : s[k] \in Positive
    BY <1>1, AxesOf
  <1>3. /\ p[1] \in Nat /\ p[2] \in Nat /\ p[3] \in Nat /\ p[4] \in Nat
        /\ n = 2 => p[1] = 0 /\ p[2] = 0 /\ p[3] = pads[1][1] /\ p[4] = pads[1][2]
        /\ n = 3 => /\ p[1] = pads[1][1] /\ p[2] = pads[1][2]
                    /\ p[3] = pads[2][1] /\ p[4] = pads[2][2]
    BY <1>2, PaddingOf
  <1>4. \A k \in 1 .. n - 1 : pads[k][1] \in Nat /\ pads[k][2] \in Nat
    OBVIOUS
  <1>5. f \in [1 .. n - 1 -> Positive]
    <2>1. ASSUME NEW k \in 1 .. n - 1 PROVE pads[k][1] + s[k] + pads[k][2] \in Positive
      <3> DEFINE m == s[k]
                 v == pads[k][1]
                 w == pads[k][2]
      <3>1. m \in Nat \ {0} /\ v \in Nat /\ w \in Nat
        BY <1>2, <1>4 DEF Positive
      <3> HIDE DEF m, v, w
      <3>2. v + m + w \in Positive
        BY <3>1 DEF Positive
      <3> QED  BY <3>2 DEF m, v, w
    <2> QED  BY <2>1
  <1>6. /\ r \in Shapes /\ Len(r) = n
        /\ Rows(r) = (IF n = 3 THEN f[1] ELSE 1) /\ Cols(r) = f[n - 1] /\ Chans(r) = Chans(s)
    <2> HIDE DEF f
    <2> QED  BY <1>1, <1>2, <1>5, ShapeOfSpace
  <1>7. Rows(r) = Rows(s) + p[1] + p[2] /\ Cols(r) = Cols(s) + p[3] + p[4]
    <2>1. CASE n = 2
      <3>1. f[1] = pads[1][1] + s[1] + pads[1][2]
        BY <2>1
      <3>2. Rows(s) = 1 /\ s[1] = Cols(s)
        BY <1>1, <2>1, AxesOf
      <3> HIDE DEF f, r, p
      <3> QED  BY <1>1, <1>3, <1>4, <1>6, <2>1, <3>1, <3>2 DEF Positive
    <2>2. CASE n = 3
      <3>1. f[1] = pads[1][1] + s[1] + pads[1][2] /\ f[2] = pads[2][1] + s[2] + pads[2][2]
        BY <2>2
      <3>2. s[1] = Rows(s) /\ s[2] = Cols(s)
        BY <1>1, <2>2, AxesOf
      <3> HIDE DEF f, r, p
      <3> QED  BY <1>1, <1>3, <1>4, <1>6, <2>2, <3>1, <3>2 DEF Positive
    <2> QED  BY <1>2, <2>1, <2>2
  <1>8. b = [shape |-> r,
             values |-> [q \in 1 .. Keras!Volume(r) |->
                           IF \A k \in 1 .. n : From(Keras!IndexOf(r, q - 1))[k] \in 0 .. s[k] - 1
                           THEN Keras!At(a, From(Keras!IndexOf(r, q - 1))) ELSE 0]]
    <2>1. [k \in 1 .. n |-> IF k \in 1 .. n - 1 THEN pads[k][1] + s[k] + pads[k][2] ELSE s[k]] = r
      OBVIOUS
    <2>2. Keras!Axes(a) = 1 .. n /\ Keras!SpatialAxes(a) = 1 .. n - 1
      BY KerasOperators
    <2> HIDE DEF r
    <2> QED  BY <2>1, <2>2
             DEF Keras!ZeroPadded, Keras!Array, Keras!Resized, Keras!Source
  <1>9. b.shape = r /\ IsFilled(b, Volume(r))
    <2> HIDE DEF b, r, From
    <2>1. b.shape = r
      BY <1>8
    <2>2. Keras!Volume(r) = Volume(r)
      BY KerasOperators
    <2> QED  BY <1>8, <2>1, <2>2 DEF IsFilled
  <1> HIDE DEF f, r
  <1>10. u.shape = <<Chans(r), Rows(r), Cols(r)>> /\ IsFilled(u, Chans(r) * Rows(r) * Cols(r))
    BY <1>1, <1>6, <1>7 DEF PadTensor3, Tensor, IsFilled
  <1>11. Rows(r) \in Positive /\ Cols(r) \in Positive /\ Chans(r) \in Positive
    BY <1>6, ThreeAxesOf
  <1>12. ASSUME NEW z \in 0 .. Chans(r) - 1, NEW y \in 0 .. Rows(r) - 1, NEW x \in 0 .. Cols(r) - 1
         PROVE  Get(u, z, y, x) = Val(b, y, x, z) /\ Val(b, y, x, z) \in Int
    <2> DEFINE i == Cell(n, y, x, z)
               j == Cell(n, y - p[1], x - p[3], z)
               inside == y - p[1] \in 0 .. Rows(s) - 1 /\ x - p[3] \in 0 .. Cols(s) - 1
               q == (z * Rows(r) + y) * Cols(r) + x + 1
    <2>1. Get(u, z, y, x) = IF inside THEN Get(t, z, y - p[1], x - p[3]) ELSE 0
      <3>1. /\ q \in 1 .. Chans(r) * Rows(r) * Cols(r)
            /\ (q - 1) \div (Rows(r) * Cols(r)) = z /\ ((q - 1) \div Cols(r)) % Rows(r) = y
            /\ (q - 1) % Cols(r) = x
        BY <1>11, TensorPosition
      <3>2. Get(u, z, y, x) = u.values[q]
        BY <1>10 DEF Get, Height, Width
      <3> HIDE DEF q
      <3>3. u.values[q] = IF <<y - p[1], x - p[3]>> \in Spatial(t)
                          THEN Get(t, z, y - p[1], x - p[3]) ELSE 0
        BY <1>1, <1>6, <1>7, <3>1 DEF PadTensor3, Tensor
      <3> QED  BY <1>1, <3>2, <3>3 DEF Spatial
    <2>2. From(i) = j
      <3>1. CASE n = 2
        BY <1>3, <3>1, CellIs
      <3>2. CASE n = 3
        BY <1>3, <3>2, CellIs
      <3>3. n = 2 \/ n = 3
        BY <1>2
      <3> HIDE DEF From, i, j
      <3> QED  BY <3>1, <3>2, <3>3
    <2>3. (\A k \in 1 .. n : j[k] \in 0 .. s[k] - 1) <=> inside
      <3>1. CASE n = 2
        <4>1. j[1] = x - p[3] /\ j[2] = z
          BY <3>1, CellIs
        <4>2. s[1] = Cols(s) /\ s[2] = Chans(s) /\ Rows(s) = 1 /\ p[1] = 0 /\ p[2] = 0
          BY <1>1, <1>3, <3>1, AxesOf
        <4>3. z \in 0 .. Chans(s) - 1 /\ y - p[1] \in 0 .. Rows(s) - 1
          <5>1. Rows(r) = 1
            BY <1>7, <4>2
          <5>2. y = 0
            BY <5>1
          <5> QED  BY <1>6, <4>2, <5>2
        <4> HIDE DEF j
        <4> QED  BY <3>1, <4>1, <4>2, <4>3
      <3>2. CASE n = 3
        <4>1. j[1] = y - p[1] /\ j[2] = x - p[3] /\ j[3] = z
          BY <3>2, CellIs
        <4>2. s[1] = Rows(s) /\ s[2] = Cols(s) /\ s[3] = Chans(s)
          BY <1>1, <3>2, AxesOf
        <4>3. z \in 0 .. Chans(s) - 1
          BY <1>6
        <4> HIDE DEF j
        <4> QED  BY <3>2, <4>1, <4>2, <4>3
      <3> QED  BY <1>2, <3>1, <3>2
    <2>4. /\ Pos(r, y, x, z) + 1 \in 1 .. Keras!Volume(r)
          /\ Keras!IndexOf(r, (Pos(r, y, x, z) + 1) - 1) = i
      BY <1>6, CellIndex
    <2>5. Val(b, y, x, z) = b.values[Pos(r, y, x, z) + 1]
      BY <1>9 DEF Val
    <2>6. Val(b, y, x, z) = IF \A k \in 1 .. n : j[k] \in 0 .. s[k] - 1
                            THEN Keras!At(a, j) ELSE 0
      <3> HIDE DEF i, j, From, b
      <3> QED  BY <1>8, <2>2, <2>4, <2>5
    <2>7. inside => Keras!At(a, j) = Val(a, y - p[1], x - p[3], z)
      BY <1>1, <1>6, KerasAt
    <2>8. inside => /\ Get(t, z, y - p[1], x - p[3]) = Val(a, y - p[1], x - p[3], z)
                    /\ Val(a, y - p[1], x - p[3], z) \in Int
      BY <1>1, <1>6
    <2> HIDE DEF inside, j, b, u
    <2> QED  BY <2>1, <2>3, <2>6, <2>7, <2>8
  <1> HIDE DEF b, u
  <1>13. Same(b, u)
    BY <1>6, <1>9, <1>10, <1>12, SameCells
  <1> QED  BY <1>13 DEF b, u

\* Cropping.
LEMMA Crops ==
  ASSUME NEW a, NEW t, Same(a, t), Len(a.shape) > 1,
         NEW crops \in [1 .. Len(a.shape) - 1 -> Nat \X Nat],
         \A k \in DOMAIN crops : crops[k][1] + crops[k][2] < a.shape[k]
  PROVE  LET p == TopLeft(crops) IN
         Same(Keras!Cropped(a, crops), CropTensor3(p[1], p[2], p[3], p[4], t))
  <1> DEFINE s == a.shape
             n == Len(s)
             p == TopLeft(crops)
             f == [k \in 1 .. n - 1 |-> s[k] - crops[k][1] - crops[k][2]]
             r == [k \in 1 .. n |-> IF k \in 1 .. n - 1 THEN f[k] ELSE s[k]]
             b == Keras!Cropped(a, crops)
             u == CropTensor3(p[1], p[2], p[3], p[4], t)
             From(i) == [k \in 1 .. n |-> IF k \in 1 .. n - 1 THEN i[k] + crops[k][1] ELSE i[k]]
  <1>1. /\ s \in Shapes /\ Rows(s) \in Positive /\ Cols(s) \in Positive /\ Chans(s) \in Positive
        /\ Depth(t) = Chans(s) /\ Width(t) = Cols(s) /\ Height(t) = Rows(s)
        /\ \A z \in 0 .. Chans(s) - 1, y \in 0 .. Rows(s) - 1, x \in 0 .. Cols(s) - 1 :
              Get(t, z, y, x) = Val(a, y, x, z) /\ Val(a, y, x, z) \in Int
    BY SameFacts
  <1>2. n \in 2 .. 3 /\ \A k \in 1 .. n : s[k] \in Positive
    BY <1>1, AxesOf
  <1>3. /\ p[1] \in Nat /\ p[2] \in Nat /\ p[3] \in Nat /\ p[4] \in Nat
        /\ n = 2 => p[1] = 0 /\ p[2] = 0 /\ p[3] = crops[1][1] /\ p[4] = crops[1][2]
        /\ n = 3 => /\ p[1] = crops[1][1] /\ p[2] = crops[1][2]
                    /\ p[3] = crops[2][1] /\ p[4] = crops[2][2]
    BY <1>2, PaddingOf
  <1>4. \A k \in 1 .. n - 1 : /\ crops[k][1] \in Nat /\ crops[k][2] \in Nat
                              /\ crops[k][1] + crops[k][2] < s[k]
    OBVIOUS
  <1>5. f \in [1 .. n - 1 -> Positive]
    <2>1. ASSUME NEW k \in 1 .. n - 1 PROVE s[k] - crops[k][1] - crops[k][2] \in Positive
      <3> DEFINE m == s[k]
                 v == crops[k][1]
                 w == crops[k][2]
      <3>1. m \in Nat \ {0} /\ v \in Nat /\ w \in Nat /\ v + w < m
        BY <1>2, <1>4 DEF Positive
      <3> HIDE DEF m, v, w
      <3>2. m - v - w \in Positive
        BY <3>1 DEF Positive
      <3> QED  BY <3>2 DEF m, v, w
    <2> QED  BY <2>1
  <1>6. /\ r \in Shapes /\ Len(r) = n
        /\ Rows(r) = (IF n = 3 THEN f[1] ELSE 1) /\ Cols(r) = f[n - 1] /\ Chans(r) = Chans(s)
    <2> HIDE DEF f
    <2> QED  BY <1>1, <1>2, <1>5, ShapeOfSpace
  <1>7. Rows(r) = Rows(s) - (p[1] + p[2]) /\ Cols(r) = Cols(s) - (p[3] + p[4])
    <2>1. CASE n = 2
      <3>1. f[1] = s[1] - crops[1][1] - crops[1][2]
        BY <2>1
      <3>2. Rows(s) = 1 /\ s[1] = Cols(s)
        BY <1>1, <2>1, AxesOf
      <3> HIDE DEF f, r, p
      <3> QED  BY <1>1, <1>3, <1>4, <1>6, <2>1, <3>1, <3>2 DEF Positive
    <2>2. CASE n = 3
      <3>1. f[1] = s[1] - crops[1][1] - crops[1][2] /\ f[2] = s[2] - crops[2][1] - crops[2][2]
        BY <2>2
      <3>2. s[1] = Rows(s) /\ s[2] = Cols(s)
        BY <1>1, <2>2, AxesOf
      <3> HIDE DEF f, r, p
      <3> QED  BY <1>1, <1>3, <1>4, <1>6, <2>2, <3>1, <3>2 DEF Positive
    <2> QED  BY <1>2, <2>1, <2>2
  <1>8. b = [shape |-> r,
             values |-> [q \in 1 .. Keras!Volume(r) |->
                           Keras!At(a, From(Keras!IndexOf(r, q - 1)))]]
    <2>1. [k \in 1 .. n |-> IF k \in 1 .. n - 1 THEN s[k] - crops[k][1] - crops[k][2] ELSE s[k]]
            = r
      OBVIOUS
    <2>2. Keras!Axes(a) = 1 .. n /\ Keras!SpatialAxes(a) = 1 .. n - 1
      BY KerasOperators
    <2> HIDE DEF r
    <2> QED  BY <2>1, <2>2
             DEF Keras!Cropped, Keras!Array, Keras!Resized, Keras!Source
  <1>9. b.shape = r /\ IsFilled(b, Volume(r))
    <2> HIDE DEF b, r, From
    <2>1. b.shape = r
      BY <1>8
    <2>2. Keras!Volume(r) = Volume(r)
      BY KerasOperators
    <2> QED  BY <1>8, <2>1, <2>2 DEF IsFilled
  <1> HIDE DEF f, r
  <1>10. u.shape = <<Chans(r), Rows(r), Cols(r)>> /\ IsFilled(u, Chans(r) * Rows(r) * Cols(r))
    BY <1>1, <1>6, <1>7 DEF CropTensor3, Tensor, IsFilled
  <1>11. Rows(r) \in Positive /\ Cols(r) \in Positive /\ Chans(r) \in Positive
    BY <1>6, ThreeAxesOf
  <1>12. ASSUME NEW z \in 0 .. Chans(r) - 1, NEW y \in 0 .. Rows(r) - 1, NEW x \in 0 .. Cols(r) - 1
         PROVE  Get(u, z, y, x) = Val(b, y, x, z) /\ Val(b, y, x, z) \in Int
    <2> DEFINE i == Cell(n, y, x, z)
               j == Cell(n, y + p[1], x + p[3], z)
               q == (z * Rows(r) + y) * Cols(r) + x + 1
    <2>1. Get(u, z, y, x) = Get(t, z, y + p[1], x + p[3])
      <3>1. /\ q \in 1 .. Chans(r) * Rows(r) * Cols(r)
            /\ (q - 1) \div (Rows(r) * Cols(r)) = z /\ ((q - 1) \div Cols(r)) % Rows(r) = y
            /\ (q - 1) % Cols(r) = x
        BY <1>11, TensorPosition
      <3>2. Get(u, z, y, x) = u.values[q]
        BY <1>10 DEF Get, Height, Width
      <3> HIDE DEF q
      <3> QED  BY <1>1, <1>6, <1>7, <3>1, <3>2 DEF CropTensor3, Tensor
    <2>2. From(i) = j
      <3>1. CASE n = 2
        BY <1>3, <3>1, CellIs
      <3>2. CASE n = 3
        BY <1>3, <3>2, CellIs
      <3>3. n = 2 \/ n = 3
        BY <1>2
      <3> HIDE DEF From, i, j
      <3> QED  BY <3>1, <3>2, <3>3
    <2>3. y + p[1] \in 0 .. Rows(s) - 1 /\ x + p[3] \in 0 .. Cols(s) - 1 /\ z \in 0 .. Chans(s) - 1
      <3> HIDE DEF p
      <3>1. Rows(s) \in Int /\ Cols(s) \in Int
        BY <1>1 DEF Positive
      <3>a. ASSUME NEW m \in Int, NEW c \in Nat, NEW d \in Nat, NEW v \in 0 .. m - (c + d) - 1
            PROVE  v + c \in 0 .. m - 1
        OBVIOUS
      <3>2. y + p[1] \in 0 .. Rows(s) - 1
        BY <1>3, <1>7, <3>1, <3>a
      <3>3. x + p[3] \in 0 .. Cols(s) - 1
        BY <1>3, <1>7, <3>1, <3>a
      <3> QED  BY <1>6, <3>2, <3>3
    <2>4. /\ Pos(r, y, x, z) + 1 \in 1 .. Keras!Volume(r)
          /\ Keras!IndexOf(r, (Pos(r, y, x, z) + 1) - 1) = i
      BY <1>6, CellIndex
    <2>5. Val(b, y, x, z) = b.values[Pos(r, y, x, z) + 1]
      BY <1>9 DEF Val
    <2>6. Val(b, y, x, z) = Keras!At(a, j)
      <3> HIDE DEF i, j, From, b
      <3> QED  BY <1>8, <2>2, <2>4, <2>5
    <2>7. Keras!At(a, j) = Val(a, y + p[1], x + p[3], z)
      BY <1>1, <2>3, KerasAt
    <2> HIDE DEF j, b, u
    <2> QED  BY <1>1, <2>1, <2>3, <2>6, <2>7
  <1> HIDE DEF b, u
  <1>13. Same(b, u)
    BY <1>6, <1>9, <1>10, <1>12, SameCells
  <1> QED  BY <1>13 DEF b, u

LEMMA ScaleOf ==
  ASSUME NEW n \in 2 .. 3, NEW size \in [1 .. n - 1 -> Positive]
  PROVE  LET p == CreateShape2(size) IN
         /\ p[1] \in Positive /\ p[2] \in Positive
         /\ n = 2 => p[1] = 1 /\ p[2] = size[1]
         /\ n = 3 => p[1] = size[1] /\ p[2] = size[2]
  <1>1. size \in Seq(Positive) /\ Len(size) = n - 1
    OBVIOUS
  <1>2. CASE n = 2
    <2>1. size[1] \in Positive /\ 1 \in Positive
      BY <1>2 DEF Positive
    <2>2. CreateShape2(size) = <<1, size[1]>>
      BY <1>1, <1>2 DEF CreateShape2
    <2> QED  BY <1>2, <2>1, <2>2
  <1>3. CASE n = 3
    <2>1. size[1] \in Positive /\ size[2] \in Positive
      BY <1>3
    <2>2. CreateShape2(size) = size
      BY <1>1, <1>3 DEF CreateShape2
    <2> QED  BY <1>3, <2>1, <2>2
  <1> QED  BY <1>2, <1>3

\* Upsampling: a cell is repeated, in both directions or along the time.
LEMMA UpSamples ==
  ASSUME NEW a, NEW t, Same(a, t), Len(a.shape) > 1,
         NEW size \in [1 .. Len(a.shape) - 1 -> Positive]
  PROVE  LET p == CreateShape2(size) IN
         Same(Keras!UpSampled(a, size), UpSampling2D(p[1], p[2], t))
  <1> DEFINE s == a.shape
             n == Len(s)
             p == CreateShape2(size)
             f == [k \in 1 .. n - 1 |-> s[k] * size[k]]
             r == [k \in 1 .. n |-> IF k \in 1 .. n - 1 THEN f[k] ELSE s[k]]
             b == Keras!UpSampled(a, size)
             u == UpSampling2D(p[1], p[2], t)
             From(i) == [k \in 1 .. n |-> IF k \in 1 .. n - 1 THEN i[k] \div size[k] ELSE i[k]]
  <1>1. /\ s \in Shapes /\ Rows(s) \in Positive /\ Cols(s) \in Positive /\ Chans(s) \in Positive
        /\ Depth(t) = Chans(s) /\ Width(t) = Cols(s) /\ Height(t) = Rows(s)
        /\ \A z \in 0 .. Chans(s) - 1, y \in 0 .. Rows(s) - 1, x \in 0 .. Cols(s) - 1 :
              Get(t, z, y, x) = Val(a, y, x, z) /\ Val(a, y, x, z) \in Int
    BY SameFacts
  <1>2. n \in 2 .. 3 /\ \A k \in 1 .. n : s[k] \in Positive
    BY <1>1, AxesOf
  <1>3. /\ p[1] \in Positive /\ p[2] \in Positive
        /\ n = 2 => p[1] = 1 /\ p[2] = size[1]
        /\ n = 3 => p[1] = size[1] /\ p[2] = size[2]
    BY <1>2, ScaleOf
  <1>5. f \in [1 .. n - 1 -> Positive]
    <2>1. ASSUME NEW k \in 1 .. n - 1 PROVE s[k] * size[k] \in Positive
      <3>1. s[k] \in Positive /\ size[k] \in Positive
        BY <1>2
      <3> QED  BY <3>1 DEF Positive
    <2> QED  BY <2>1
  <1>6. /\ r \in Shapes /\ Len(r) = n
        /\ Rows(r) = (IF n = 3 THEN f[1] ELSE 1) /\ Cols(r) = f[n - 1] /\ Chans(r) = Chans(s)
    <2> HIDE DEF f
    <2> QED  BY <1>1, <1>2, <1>5, ShapeOfSpace
  <1>7. Rows(r) = Rows(s) * p[1] /\ Cols(r) = Cols(s) * p[2]
    <2>1. CASE n = 2
      <3>1. f[1] = s[1] * size[1]
        BY <2>1
      <3>2. Rows(s) = 1 /\ s[1] = Cols(s)
        BY <1>1, <2>1, AxesOf
      <3> HIDE DEF f, r, p
      <3> QED  BY <1>1, <1>3, <1>6, <2>1, <3>1, <3>2 DEF Positive
    <2>2. CASE n = 3
      <3>1. f[1] = s[1] * size[1] /\ f[2] = s[2] * size[2]
        BY <2>2
      <3>2. s[1] = Rows(s) /\ s[2] = Cols(s)
        BY <1>1, <2>2, AxesOf
      <3> HIDE DEF f, r, p
      <3> QED  BY <1>1, <1>3, <1>6, <2>2, <3>1, <3>2 DEF Positive
    <2> HIDE DEF f, r, p
    <2> QED  BY <1>2, <2>1, <2>2
  <1>8. b = [shape |-> r,
             values |-> [q \in 1 .. Keras!Volume(r) |->
                           Keras!At(a, From(Keras!IndexOf(r, q - 1)))]]
    <2>1. [k \in 1 .. n |-> IF k \in 1 .. n - 1 THEN s[k] * size[k] ELSE s[k]] = r
      OBVIOUS
    <2>2. Keras!Axes(a) = 1 .. n /\ Keras!SpatialAxes(a) = 1 .. n - 1
      BY KerasOperators
    <2> HIDE DEF r
    <2> QED  BY <2>1, <2>2
             DEF Keras!UpSampled, Keras!Array, Keras!Resized, Keras!Source
  <1>9. b.shape = r /\ IsFilled(b, Volume(r))
    <2> HIDE DEF b, r, From
    <2>1. b.shape = r
      BY <1>8
    <2>2. Keras!Volume(r) = Volume(r)
      BY KerasOperators
    <2> QED  BY <1>8, <2>1, <2>2 DEF IsFilled
  <1> HIDE DEF f, r
  <1>10. u.shape = <<Chans(r), Rows(r), Cols(r)>> /\ IsFilled(u, Chans(r) * Rows(r) * Cols(r))
    BY <1>1, <1>6, <1>7 DEF UpSampling2D, Tensor, IsFilled
  <1>11. Rows(r) \in Positive /\ Cols(r) \in Positive /\ Chans(r) \in Positive
    BY <1>6, ThreeAxesOf
  <1>12. ASSUME NEW z \in 0 .. Chans(r) - 1, NEW y \in 0 .. Rows(r) - 1, NEW x \in 0 .. Cols(r) - 1
         PROVE  Get(u, z, y, x) = Val(b, y, x, z) /\ Val(b, y, x, z) \in Int
    <2> DEFINE i == Cell(n, y, x, z)
               j == Cell(n, y \div p[1], x \div p[2], z)
               q == (z * Rows(r) + y) * Cols(r) + x + 1
    <2>1. Get(u, z, y, x) = Get(t, z, y \div p[1], x \div p[2])
      <3>1. /\ q \in 1 .. Chans(r) * Rows(r) * Cols(r)
            /\ (q - 1) \div (Rows(r) * Cols(r)) = z /\ ((q - 1) \div Cols(r)) % Rows(r) = y
            /\ (q - 1) % Cols(r) = x
        BY <1>11, TensorPosition
      <3>2. Get(u, z, y, x) = u.values[q]
        BY <1>10 DEF Get, Height, Width
      <3> HIDE DEF q
      <3> QED  BY <1>1, <1>6, <1>7, <3>1, <3>2 DEF UpSampling2D, Tensor
    <2>3. /\ y \div p[1] \in 0 .. Rows(s) - 1 /\ x \div p[2] \in 0 .. Cols(s) - 1
          /\ z \in 0 .. Chans(s) - 1
      <3> HIDE DEF p
      <3>1. y \in 0 .. Rows(s) * p[1] - 1 /\ x \in 0 .. Cols(s) * p[2] - 1
        BY <1>7
      <3> QED  BY <1>1, <1>3, <1>6, <3>1, DigitsOfTwo
    <2>2. From(i) = j
      <3>1. CASE n = 2
        <4>1. y = 0
          <5>1. Rows(r) = 1
            BY <1>6, <3>1
          <5> QED  BY <5>1
        <4> QED  BY <1>3, <3>1, <4>1, CellIs
      <3>2. CASE n = 3
        BY <1>3, <3>2, CellIs
      <3>3. n = 2 \/ n = 3
        BY <1>2
      <3> HIDE DEF From, i, j
      <3> QED  BY <3>1, <3>2, <3>3
    <2>4. /\ Pos(r, y, x, z) + 1 \in 1 .. Keras!Volume(r)
          /\ Keras!IndexOf(r, (Pos(r, y, x, z) + 1) - 1) = i
      BY <1>6, CellIndex
    <2>5. Val(b, y, x, z) = b.values[Pos(r, y, x, z) + 1]
      BY <1>9 DEF Val
    <2>6. Val(b, y, x, z) = Keras!At(a, j)
      <3> HIDE DEF i, j, From, b
      <3> QED  BY <1>8, <2>2, <2>4, <2>5
    <2>7. Keras!At(a, j) = Val(a, y \div p[1], x \div p[2], z)
      BY <1>1, <2>3, KerasAt
    <2> HIDE DEF j, b, u
    <2> QED  BY <1>1, <2>1, <2>3, <2>6, <2>7
  <1> HIDE DEF b, u
  <1>13. Same(b, u)
    BY <1>6, <1>9, <1>10, <1>12, SameCells
  <1> QED  BY <1>13 DEF b, u

LEMMA ChannelOf ==
  ASSUME NEW s \in Shapes, NEW y, NEW x, NEW z
  PROVE  Cell(Len(s), y, x, z)[Len(s)] = z
  <1>1. Len(s) \in 1 .. 3
    BY AxesOf
  <1>2. Cell(1, y, x, z) = << z >> /\ Cell(2, y, x, z) = <<x, z>> /\ Cell(3, y, x, z) = <<y, x, z>>
    BY DEF Cell
  <1>3. CASE Len(s) = 1
    BY <1>2, <1>3
  <1>4. CASE Len(s) = 2
    BY <1>2, <1>4
  <1>5. CASE Len(s) = 3
    BY <1>2, <1>5
  <1> QED  BY <1>1, <1>3, <1>4, <1>5

\* Batch normalisation: the parameters of a cell are those of its channel.
LEMMA Normalises ==
  ASSUME NEW a, NEW t, Same(a, t)
  PROVE  LET all == 1 .. Chans(a.shape) IN
         Same(Keras!ForChannel(a, LAMBDA v, c : Normalised(v, Mean(c), Gamma(c), Beta(c))),
              BatchNormalized([c \in all |-> Mean(c)], [c \in all |-> Gamma(c)],
                              [c \in all |-> Beta(c)], t))
  <1> DEFINE s == a.shape
             all == 1 .. Chans(s)
             mean == [c \in all |-> Mean(c)]
             gamma == [c \in all |-> Gamma(c)]
             beta == [c \in all |-> Beta(c)]
             Of(v, z) == Normalised(v, Mean(z + 1), Gamma(z + 1), Beta(z + 1))
             b == Keras!ForChannel(a, LAMBDA v, c : Normalised(v, Mean(c), Gamma(c), Beta(c)))
             u == BatchNormalized(mean, gamma, beta, t)
  <1>1. /\ s \in Shapes /\ Rows(s) \in Positive /\ Cols(s) \in Positive /\ Chans(s) \in Positive
        /\ Depth(t) = Chans(s) /\ Width(t) = Cols(s) /\ Height(t) = Rows(s)
        /\ \A z \in 0 .. Chans(s) - 1, y \in 0 .. Rows(s) - 1, x \in 0 .. Cols(s) - 1 :
              Get(t, z, y, x) = Val(a, y, x, z) /\ Val(a, y, x, z) \in Int
    BY SameFacts
  <1>2. b = [shape |-> s,
             values |-> [q \in 1 .. Keras!Volume(s) |->
                           Of(Keras!At(a, Keras!IndexOf(s, q - 1)),
                              Keras!IndexOf(s, q - 1)[Len(s)])]]
    BY KerasOperators DEF Keras!ForChannel, Keras!Array
  <1> HIDE DEF Of, b
  <1>3. b.shape = s /\ IsFilled(b, Volume(s))
    <2>1. b.shape = s
      BY <1>2
    <2>2. Keras!Volume(s) = Volume(s)
      BY KerasOperators
    <2> QED  BY <1>2, <2>1, <2>2 DEF IsFilled
  <1>4. u.shape = <<Chans(s), Rows(s), Cols(s)>> /\ IsFilled(u, Chans(s) * Rows(s) * Cols(s))
    <2> HIDE DEF mean, gamma, beta
    <2> QED  BY <1>1 DEF BatchNormalized, Tensor, IsFilled
  <1>5. ASSUME NEW z \in 0 .. Chans(s) - 1, NEW y \in 0 .. Rows(s) - 1, NEW x \in 0 .. Cols(s) - 1
        PROVE  Get(u, z, y, x) = Val(b, y, x, z) /\ Val(b, y, x, z) \in Int
    <2> DEFINE q == (z * Rows(s) + y) * Cols(s) + x + 1
               i == Cell(Len(s), y, x, z)
    <2>1. z + 1 \in all /\ z \in Nat
      BY <1>1 DEF Positive
    <2>2. mean[z + 1] = Mean(z + 1) /\ gamma[z + 1] = Gamma(z + 1) /\ beta[z + 1] = Beta(z + 1)
      BY <2>1
    <2> HIDE DEF mean, gamma, beta
    <2>3. Get(u, z, y, x) = Of(Get(t, z, y, x), z)
      <3>1. /\ q \in 1 .. Chans(s) * Rows(s) * Cols(s)
            /\ (q - 1) \div (Rows(s) * Cols(s)) = z /\ ((q - 1) \div Cols(s)) % Rows(s) = y
            /\ (q - 1) % Cols(s) = x
        BY <1>1, TensorPosition
      <3>2. Get(u, z, y, x) = u.values[q]
        BY <1>4 DEF Get, Height, Width
      <3> HIDE DEF q
      <3> QED  BY <1>1, <2>2, <3>1, <3>2 DEF BatchNormalized, Tensor, Of
    <2>4. /\ Pos(s, y, x, z) + 1 \in 1 .. Keras!Volume(s)
          /\ Keras!IndexOf(s, (Pos(s, y, x, z) + 1) - 1) = i
      BY <1>1, CellIndex
    <2>5. Val(b, y, x, z) = b.values[Pos(s, y, x, z) + 1]
      BY <1>3 DEF Val
    <2>6. i[Len(s)] = z
      BY <1>1, ChannelOf
    <2>7. Keras!At(a, i) = Val(a, y, x, z)
      BY <1>1, KerasAt
    <2> HIDE DEF i, u
    <2>8. Val(b, y, x, z) = Of(Val(a, y, x, z), z)
      BY <1>2, <2>4, <2>5, <2>6, <2>7
    <2>9. Val(a, y, x, z) \in Int /\ Get(t, z, y, x) = Val(a, y, x, z)
      BY <1>1
    <2>10. Of(Val(a, y, x, z), z) \in Int
      BY <2>1, <2>9 DEF Of, Normalised, Mean, Gamma, Beta
    <2> QED  BY <2>3, <2>8, <2>9, <2>10
  <1> HIDE DEF u
  <1>6. Same(b, u)
    BY <1>1, <1>3, <1>4, <1>5, SameCells
  <1> QED  BY <1>6 DEF b, u

(***************************************************************************)
(* Two tensors of the same size.                                           *)
(***************************************************************************)
LEMMA Pairs ==
  ASSUME NEW v, NEW w
  PROVE  /\ DOMAIN <<v, w>> = {1, 2} /\ Len(<<v, w>>) = 2
         /\ <<v, w>>[1] = v /\ <<v, w>>[2] = w
  OBVIOUS

LEMMA SameSizes ==
  ASSUME NEW a, NEW t, Same(a, t), NEW b, NEW u, Same(b, u), a.shape = b.shape
  PROVE  AllTheSameSize(<<t, u>>)
  <1>1. t.shape = u.shape
    BY SameFacts
  <1> QED  BY <1>1, Pairs DEF AllTheSameSize

LEMMA MaximumOfTwo ==
  ASSUME NEW v \in Int, NEW w \in Int
  PROVE  /\ Max({v, w}) \in {v, w} /\ Max({v, w}) >= v /\ Max({v, w}) >= w
  <1>1. \E m \in {v, w} : \A n \in {v, w} : m >= n
    <2>1. CASE v >= w
      BY <2>1
    <2>2. CASE w >= v
      BY <2>2
    <2> QED  BY <2>1, <2>2
  <1>2. \E m \in {v, w} : \A n \in {v, w} : n <= m
    BY <1>1
  <1> QED  BY <1>1, <1>2 DEF Max

\* Maximum of two tensors, which have passed the assertion on sizes.
LEMMA TakesMaximum ==
  ASSUME NEW a, NEW t, Same(a, t), NEW c, NEW e, Same(c, e), a.shape = c.shape
  PROVE  Same(Keras!CellByCell(a, c, LAMBDA v, w : Max({v, w})), MaxTensor3s(<<t, e>>))
  <1> DEFINE s == a.shape
             both == <<t, e>>
             b == Keras!CellByCell(a, c, LAMBDA v, w : Max({v, w}))
             u == MaxTensor3s(both)
  <1>1. /\ s \in Shapes /\ Rows(s) \in Positive /\ Cols(s) \in Positive /\ Chans(s) \in Positive
        /\ t.shape = <<Chans(s), Rows(s), Cols(s)>> /\ e.shape = <<Chans(s), Rows(s), Cols(s)>>
        /\ Width(t) = Cols(s) /\ Height(t) = Rows(s) /\ Width(e) = Cols(s) /\ Height(e) = Rows(s)
        /\ DOMAIN t.values = 1 .. Chans(s) * Rows(s) * Cols(s)
        /\ IsFilled(t, Chans(s) * Rows(s) * Cols(s))
        /\ \A z \in 0 .. Chans(s) - 1, y \in 0 .. Rows(s) - 1, x \in 0 .. Cols(s) - 1 :
              /\ Get(t, z, y, x) = Val(a, y, x, z) /\ Val(a, y, x, z) \in Int
              /\ Get(e, z, y, x) = Val(c, y, x, z) /\ Val(c, y, x, z) \in Int
    BY SameFacts
  <1>2. b = [shape |-> s,
             values |-> [q \in 1 .. Keras!Volume(s) |->
                           Max({Keras!At(a, Keras!IndexOf(s, q - 1)),
                                Keras!At(c, Keras!IndexOf(s, q - 1))})]]
    BY KerasOperators DEF Keras!CellByCell, Keras!Array
  <1> HIDE DEF b
  <1>3. b.shape = s /\ IsFilled(b, Volume(s))
    <2>1. b.shape = s
      BY <1>2
    <2>2. Keras!Volume(s) = Volume(s)
      BY KerasOperators
    <2> QED  BY <1>2, <2>1, <2>2 DEF IsFilled
  <1>4. ASSUME NEW p PROVE {both[i].values[p] : i \in DOMAIN both} = {t.values[p], e.values[p]}
    BY Pairs
  <1>5. u = [shape |-> <<Chans(s), Rows(s), Cols(s)>>,
             values |->
               [p \in 1 .. Chans(s) * Rows(s) * Cols(s) |-> Max({t.values[p], e.values[p]})]]
    <2>1. both[1] = t
      BY Pairs
    <2>2. ASSUME NEW r PROVE [t EXCEPT !.values = r] = [shape |-> t.shape, values |-> r]
      BY <1>1 DEF IsFilled
    <2> HIDE DEF both
    <2> DEFINE r == [p \in DOMAIN t.values |-> Max({both[i].values[p] : i \in DOMAIN both})]
    <2>3. u = [t EXCEPT !.values = r]
      BY <2>1 DEF MaxTensor3s
    <2>4. r = [p \in 1 .. Chans(s) * Rows(s) * Cols(s) |-> Max({t.values[p], e.values[p]})]
      BY <1>1, <1>4
    <2> HIDE DEF r, u
    <2> QED  BY <1>1, <2>2, <2>3, <2>4
  <1> HIDE DEF u
  <1>6. u.shape = <<Chans(s), Rows(s), Cols(s)>> /\ IsFilled(u, Chans(s) * Rows(s) * Cols(s))
    BY <1>5 DEF IsFilled
  <1>7. ASSUME NEW z \in 0 .. Chans(s) - 1, NEW y \in 0 .. Rows(s) - 1, NEW x \in 0 .. Cols(s) - 1
        PROVE  Get(u, z, y, x) = Val(b, y, x, z) /\ Val(b, y, x, z) \in Int
    <2> DEFINE q == (z * Rows(s) + y) * Cols(s) + x + 1
               i == Cell(Len(s), y, x, z)
    <2>1. q \in 1 .. Chans(s) * Rows(s) * Cols(s)
      BY <1>1, TensorPosition
    <2>2. /\ Get(u, z, y, x) = u.values[q]
          /\ Get(t, z, y, x) = t.values[q]
          /\ Get(e, z, y, x) = e.values[q]
      BY <1>1, <1>6 DEF Get, Height, Width
    <2> HIDE DEF q
    <2>3. Get(u, z, y, x) = Max({Val(a, y, x, z), Val(c, y, x, z)})
      BY <1>1, <1>5, <2>1, <2>2
    <2>4. /\ Pos(s, y, x, z) + 1 \in 1 .. Keras!Volume(s)
          /\ Keras!IndexOf(s, (Pos(s, y, x, z) + 1) - 1) = i
      BY <1>1, CellIndex
    <2>5. Val(b, y, x, z) = b.values[Pos(s, y, x, z) + 1]
      BY <1>3 DEF Val
    <2>6. Keras!At(a, i) = Val(a, y, x, z) /\ Keras!At(c, i) = Val(c, y, x, z)
      BY <1>1, KerasAt
    <2> HIDE DEF i
    <2>7. Val(b, y, x, z) = Max({Val(a, y, x, z), Val(c, y, x, z)})
      BY <1>2, <2>4, <2>5, <2>6
    <2>8. Val(a, y, x, z) \in Int /\ Val(c, y, x, z) \in Int
      BY <1>1
    <2>9. Max({Val(a, y, x, z), Val(c, y, x, z)}) \in Int
      BY <2>8, MaximumOfTwo
    <2> QED  BY <2>3, <2>7, <2>9
  <1>8. Same(b, u)
    BY <1>1, <1>3, <1>6, <1>7, SameCells
  <1> QED  BY <1>8 DEF b, u

LEMMA SubsetsOfTwo ==
  /\ \A S \in SUBSET {1, 2} : S \in {{}, {1}, {2}, {1, 2}}
  /\ {1} # {} /\ {1} \ {Max({1})} = {} /\ Max({1}) = 1
  /\ {2} # {} /\ {2} \ {Max({2})} = {} /\ Max({2}) = 2
  /\ {1, 2} # {} /\ {1, 2} \ {Max({1, 2})} = {1} /\ Max({1, 2}) = 2
  <1>1. ASSUME NEW S \in SUBSET {1, 2} PROVE S \in {{}, {1}, {2}, {1, 2}}
    OBVIOUS
  <1>2. {1} \ {1} = {} /\ {2} \ {2} = {} /\ {1, 2} \ {2} = {1}
    OBVIOUS
  <1>3. ASSUME NEW i \in {1, 2} PROVE Max({i}) = i
    <2>1. {i} = {i, i}
      OBVIOUS
    <2> QED  BY <2>1, MaximumOfTwo
  <1>4. Max({1, 2}) = 2
    BY MaximumOfTwo
  <1> QED  BY <1>1, <1>2, <1>3, <1>4

LEMMA SubsetFunction ==
  ASSUME NEW u, NEW v, NEW w, NEW x
  PROVE  LET m == [S \in SUBSET {1, 2} |->
                     IF S = {} THEN u ELSE IF S = {1} THEN v ELSE IF S = {2} THEN w ELSE x]
         IN  m[{}] = u /\ m[{1}] = v /\ m[{2}] = w /\ m[{1, 2}] = x
  <1>1. {1} # {2} /\ {1, 2} # {1} /\ {1, 2} # {2} /\ {1} # {} /\ {2} # {} /\ {1, 2} # {}
    <2>1. 1 \in {1, 2} /\ 2 \in {1, 2} /\ 1 \notin {2} /\ 2 \notin {1} /\ 1 \in {1} /\ 2 \in {2}
      OBVIOUS
    <2> QED  BY <2>1
  <1> QED  BY <1>1

\* The three folds over a pair of tensors.
LEMMA SumOfTwo ==
  ASSUME NEW t, NEW e, NEW p, t.values[p] \in Int, e.values[p] \in Int
  PROVE  FoldLeft(LAMBDA sum, v : sum + v.values[p], 0, <<t, e>>) = t.values[p] + e.values[p]
  <1> DEFINE ts == <<t, e>>
             P(g) == g = [S \in SUBSET {1, 2} |->
                            IF S = {} THEN 0 ELSE g[S \ {Max(S)}] + ts[Max(S)].values[p]]
             h == CHOOSE g : P(g)
             m == [S \in SUBSET {1, 2} |->
                     IF S = {} THEN 0
                     ELSE IF S = {1} THEN t.values[p]
                     ELSE IF S = {2} THEN e.values[p]
                     ELSE t.values[p] + e.values[p]]
  <1>1. DOMAIN ts = {1, 2} /\ ts[1] = t /\ ts[2] = e
    BY Pairs
  <1> HIDE DEF ts
  <1>2. 0 + t.values[p] = t.values[p] /\ 0 + e.values[p] = e.values[p]
    OBVIOUS
  <1>3. /\ m[{}] = 0 /\ m[{1}] = t.values[p] /\ m[{2}] = e.values[p]
        /\ m[{1, 2}] = t.values[p] + e.values[p]
    BY SubsetFunction
  <1>4. m = [S \in SUBSET {1, 2} |-> m[S]]
    OBVIOUS
  <1> HIDE DEF m
  <1>5. FoldLeft(LAMBDA sum, v : sum + v.values[p], 0, ts) = h[{1, 2}]
    BY <1>1 DEF FoldLeft, MapThenFoldSet
  <1>6. P(m)
    <2>1. ASSUME NEW S \in SUBSET {1, 2}
          PROVE  m[S] = IF S = {} THEN 0 ELSE m[S \ {Max(S)}] + ts[Max(S)].values[p]
      <3>1. CASE S = {}
        BY <1>3, <3>1
      <3>2. CASE S = {1}
        <4>1. S # {} /\ S \ {Max(S)} = {} /\ ts[Max(S)] = t
          BY <1>1, <3>2, SubsetsOfTwo
        <4> QED  BY <1>2, <1>3, <3>2, <4>1
      <3>3. CASE S = {2}
        <4>1. S # {} /\ S \ {Max(S)} = {} /\ ts[Max(S)] = e
          BY <1>1, <3>3, SubsetsOfTwo
        <4> QED  BY <1>2, <1>3, <3>3, <4>1
      <3>4. CASE S = {1, 2}
        <4>1. S # {} /\ S \ {Max(S)} = {1} /\ ts[Max(S)] = e
          BY <1>1, <3>4, SubsetsOfTwo
        <4> QED  BY <1>3, <3>4, <4>1
      <3> QED  BY <3>1, <3>2, <3>3, <3>4, SubsetsOfTwo
    <2> QED  BY <1>4, <2>1
  <1>7. P(h)
    <2> HIDE DEF P
    <2> QED  BY <1>6
  <1> HIDE DEF h
  <1>8. ASSUME NEW S \in SUBSET {1, 2}
        PROVE  h[S] = IF S = {} THEN 0 ELSE h[S \ {Max(S)}] + ts[Max(S)].values[p]
    BY <1>7
  <1> HIDE DEF P
  <1>9. h[{}] = 0
    BY <1>8
  <1>10. h[{1}] = t.values[p]
    <2>1. {1} # {} /\ {1} \ {Max({1})} = {} /\ ts[Max({1})] = t
      BY <1>1, SubsetsOfTwo
    <2> QED  BY <1>2, <1>8, <1>9, <2>1
  <1>11. h[{1, 2}] = t.values[p] + e.values[p]
    <2>1. {1, 2} # {} /\ {1, 2} \ {Max({1, 2})} = {1} /\ ts[Max({1, 2})] = e
      BY <1>1, SubsetsOfTwo
    <2> QED  BY <1>8, <1>10, <2>1
  <1> QED  BY <1>5, <1>11 DEF ts

LEMMA DepthOfTwo ==
  ASSUME NEW t, NEW e, Depth(t) \in Int, Depth(e) \in Int
  PROVE  FoldLeft(LAMBDA n, v : n + Depth(v), 0, <<t, e>>) = Depth(t) + Depth(e)
  <1> DEFINE ts == <<t, e>>
             P(g) == g = [S \in SUBSET {1, 2} |->
                            IF S = {} THEN 0 ELSE g[S \ {Max(S)}] + Depth(ts[Max(S)])]
             h == CHOOSE g : P(g)
             m == [S \in SUBSET {1, 2} |->
                     IF S = {} THEN 0
                     ELSE IF S = {1} THEN Depth(t)
                     ELSE IF S = {2} THEN Depth(e)
                     ELSE Depth(t) + Depth(e)]
  <1>1. DOMAIN ts = {1, 2} /\ ts[1] = t /\ ts[2] = e
    BY Pairs
  <1> HIDE DEF ts
  <1>2. 0 + Depth(t) = Depth(t) /\ 0 + Depth(e) = Depth(e)
    OBVIOUS
  <1>3. m[{}] = 0 /\ m[{1}] = Depth(t) /\ m[{2}] = Depth(e) /\ m[{1, 2}] = Depth(t) + Depth(e)
    BY SubsetFunction
  <1>4. m = [S \in SUBSET {1, 2} |-> m[S]]
    OBVIOUS
  <1> HIDE DEF m
  <1>5. FoldLeft(LAMBDA n, v : n + Depth(v), 0, ts) = h[{1, 2}]
    BY <1>1 DEF FoldLeft, MapThenFoldSet
  <1>6. P(m)
    <2>1. ASSUME NEW S \in SUBSET {1, 2}
          PROVE  m[S] = IF S = {} THEN 0 ELSE m[S \ {Max(S)}] + Depth(ts[Max(S)])
      <3>1. CASE S = {}
        BY <1>3, <3>1
      <3>2. CASE S = {1}
        <4>1. S # {} /\ S \ {Max(S)} = {} /\ ts[Max(S)] = t
          BY <1>1, <3>2, SubsetsOfTwo
        <4> QED  BY <1>2, <1>3, <3>2, <4>1
      <3>3. CASE S = {2}
        <4>1. S # {} /\ S \ {Max(S)} = {} /\ ts[Max(S)] = e
          BY <1>1, <3>3, SubsetsOfTwo
        <4> QED  BY <1>2, <1>3, <3>3, <4>1
      <3>4. CASE S = {1, 2}
        <4>1. S # {} /\ S \ {Max(S)} = {1} /\ ts[Max(S)] = e
          BY <1>1, <3>4, SubsetsOfTwo
        <4> QED  BY <1>3, <3>4, <4>1
      <3> QED  BY <3>1, <3>2, <3>3, <3>4, SubsetsOfTwo
    <2> QED  BY <1>4, <2>1
  <1>7. P(h)
    <2> HIDE DEF P
    <2> QED  BY <1>6
  <1> HIDE DEF h
  <1>8. ASSUME NEW S \in SUBSET {1, 2}
        PROVE  h[S] = IF S = {} THEN 0 ELSE h[S \ {Max(S)}] + Depth(ts[Max(S)])
    BY <1>7
  <1> HIDE DEF P
  <1>9. h[{}] = 0
    BY <1>8
  <1>10. h[{1}] = Depth(t)
    <2>1. {1} # {} /\ {1} \ {Max({1})} = {} /\ ts[Max({1})] = t
      BY <1>1, SubsetsOfTwo
    <2> QED  BY <1>2, <1>8, <1>9, <2>1
  <1>11. h[{1, 2}] = Depth(t) + Depth(e)
    <2>1. {1, 2} # {} /\ {1, 2} \ {Max({1, 2})} = {1} /\ ts[Max({1, 2})] = e
      BY <1>1, SubsetsOfTwo
    <2> QED  BY <1>8, <1>10, <2>1
  <1> QED  BY <1>5, <1>11 DEF ts

LEMMA ValuesOfTwo ==
  ASSUME NEW t, NEW e, t.values \in Seq(Int), e.values \in Seq(Int)
  PROVE  FoldLeft(LAMBDA vs, v : vs \o v.values, << >>, <<t, e>>) = t.values \o e.values
  <1> DEFINE ts == <<t, e>>
             P(g) == g = [S \in SUBSET {1, 2} |->
                            IF S = {} THEN << >> ELSE g[S \ {Max(S)}] \o ts[Max(S)].values]
             h == CHOOSE g : P(g)
             m == [S \in SUBSET {1, 2} |->
                     IF S = {} THEN << >>
                     ELSE IF S = {1} THEN t.values
                     ELSE IF S = {2} THEN e.values
                     ELSE t.values \o e.values]
  <1>1. DOMAIN ts = {1, 2} /\ ts[1] = t /\ ts[2] = e
    BY Pairs
  <1> HIDE DEF ts
  <1>2. << >> \o t.values = t.values /\ << >> \o e.values = e.values
    OBVIOUS
  <1>3. m[{}] = << >> /\ m[{1}] = t.values /\ m[{2}] = e.values /\ m[{1, 2}] = t.values \o e.values
    BY SubsetFunction
  <1>4. m = [S \in SUBSET {1, 2} |-> m[S]]
    OBVIOUS
  <1> HIDE DEF m
  <1>5. FoldLeft(LAMBDA vs, v : vs \o v.values, << >>, ts) = h[{1, 2}]
    BY <1>1 DEF FoldLeft, MapThenFoldSet
  <1>6. P(m)
    <2>1. ASSUME NEW S \in SUBSET {1, 2}
          PROVE  m[S] = IF S = {} THEN << >> ELSE m[S \ {Max(S)}] \o ts[Max(S)].values
      <3>1. CASE S = {}
        BY <1>3, <3>1
      <3>2. CASE S = {1}
        <4>1. S # {} /\ S \ {Max(S)} = {} /\ ts[Max(S)] = t
          BY <1>1, <3>2, SubsetsOfTwo
        <4> QED  BY <1>2, <1>3, <3>2, <4>1
      <3>3. CASE S = {2}
        <4>1. S # {} /\ S \ {Max(S)} = {} /\ ts[Max(S)] = e
          BY <1>1, <3>3, SubsetsOfTwo
        <4> QED  BY <1>2, <1>3, <3>3, <4>1
      <3>4. CASE S = {1, 2}
        <4>1. S # {} /\ S \ {Max(S)} = {1} /\ ts[Max(S)] = e
          BY <1>1, <3>4, SubsetsOfTwo
        <4> QED  BY <1>3, <3>4, <4>1
      <3> QED  BY <3>1, <3>2, <3>3, <3>4, SubsetsOfTwo
    <2> QED  BY <1>4, <2>1
  <1>7. P(h)
    <2> HIDE DEF P
    <2> QED  BY <1>6
  <1> HIDE DEF h
  <1>8. ASSUME NEW S \in SUBSET {1, 2}
        PROVE  h[S] = IF S = {} THEN << >> ELSE h[S \ {Max(S)}] \o ts[Max(S)].values
    BY <1>7
  <1> HIDE DEF P
  <1>9. h[{}] = << >>
    BY <1>8
  <1>10. h[{1}] = t.values
    <2>1. {1} # {} /\ {1} \ {Max({1})} = {} /\ ts[Max({1})] = t
      BY <1>1, SubsetsOfTwo
    <2> QED  BY <1>2, <1>8, <1>9, <2>1
  <1>11. h[{1, 2}] = t.values \o e.values
    <2>1. {1, 2} # {} /\ {1, 2} \ {Max({1, 2})} = {1} /\ ts[Max({1, 2})] = e
      BY <1>1, SubsetsOfTwo
    <2> QED  BY <1>8, <1>10, <2>1
  <1> QED  BY <1>5, <1>11 DEF ts

\* The sum of two tensors.
LEMMA Adds ==
  ASSUME NEW a, NEW t, Same(a, t), NEW c, NEW e, Same(c, e), a.shape = c.shape
  PROVE  Same(Keras!CellByCell(a, c, LAMBDA v, w : v + w), SumTensor3s(<<t, e>>))
  <1> DEFINE s == a.shape
             both == <<t, e>>
             b == Keras!CellByCell(a, c, LAMBDA v, w : v + w)
             u == SumTensor3s(both)
             Sum(p) == FoldLeft(LAMBDA sum, v : sum + v.values[p], 0, both)
  <1>1. /\ s \in Shapes /\ Rows(s) \in Positive /\ Cols(s) \in Positive /\ Chans(s) \in Positive
        /\ t.shape = <<Chans(s), Rows(s), Cols(s)>> /\ e.shape = <<Chans(s), Rows(s), Cols(s)>>
        /\ Width(t) = Cols(s) /\ Height(t) = Rows(s) /\ Width(e) = Cols(s) /\ Height(e) = Rows(s)
        /\ DOMAIN t.values = 1 .. Chans(s) * Rows(s) * Cols(s)
        /\ IsFilled(t, Chans(s) * Rows(s) * Cols(s))
        /\ \A z \in 0 .. Chans(s) - 1, y \in 0 .. Rows(s) - 1, x \in 0 .. Cols(s) - 1 :
              /\ Get(t, z, y, x) = Val(a, y, x, z) /\ Val(a, y, x, z) \in Int
              /\ Get(e, z, y, x) = Val(c, y, x, z) /\ Val(c, y, x, z) \in Int
    BY SameFacts
  <1>2. b = [shape |-> s,
             values |-> [q \in 1 .. Keras!Volume(s) |->
                           Keras!At(a, Keras!IndexOf(s, q - 1))
                             + Keras!At(c, Keras!IndexOf(s, q - 1))]]
    BY KerasOperators DEF Keras!CellByCell, Keras!Array
  <1> HIDE DEF b
  <1>3. b.shape = s /\ IsFilled(b, Volume(s))
    <2>1. b.shape = s
      BY <1>2
    <2>2. Keras!Volume(s) = Volume(s)
      BY KerasOperators
    <2> QED  BY <1>2, <2>1, <2>2 DEF IsFilled
  <1>4. ASSUME NEW p, t.values[p] \in Int, e.values[p] \in Int
        PROVE  Sum(p) = t.values[p] + e.values[p]
    BY <1>4, SumOfTwo
  <1>5. u = [shape |-> <<Chans(s), Rows(s), Cols(s)>>,
             values |-> [p \in 1 .. Chans(s) * Rows(s) * Cols(s) |-> Sum(p)]]
    <2>1. both[1] = t
      BY Pairs
    <2>2. ASSUME NEW r PROVE [t EXCEPT !.values = r] = [shape |-> t.shape, values |-> r]
      BY <1>1 DEF IsFilled
    <2> HIDE DEF both
    <2> DEFINE r == [p \in DOMAIN t.values |-> Sum(p)]
    <2>3. u = [t EXCEPT !.values = r]
      BY <2>1 DEF SumTensor3s
    <2>4. r = [p \in 1 .. Chans(s) * Rows(s) * Cols(s) |-> Sum(p)]
      BY <1>1
    <2> HIDE DEF r, u, Sum
    <2> QED  BY <1>1, <2>2, <2>3, <2>4
  <1> HIDE DEF u, Sum
  <1>6. u.shape = <<Chans(s), Rows(s), Cols(s)>> /\ IsFilled(u, Chans(s) * Rows(s) * Cols(s))
    BY <1>5 DEF IsFilled
  <1>7. ASSUME NEW z \in 0 .. Chans(s) - 1, NEW y \in 0 .. Rows(s) - 1, NEW x \in 0 .. Cols(s) - 1
        PROVE  Get(u, z, y, x) = Val(b, y, x, z) /\ Val(b, y, x, z) \in Int
    <2> DEFINE q == (z * Rows(s) + y) * Cols(s) + x + 1
               i == Cell(Len(s), y, x, z)
    <2>1. q \in 1 .. Chans(s) * Rows(s) * Cols(s)
      BY <1>1, TensorPosition
    <2>2. /\ Get(u, z, y, x) = u.values[q]
          /\ Get(t, z, y, x) = t.values[q]
          /\ Get(e, z, y, x) = e.values[q]
      BY <1>1, <1>6 DEF Get, Height, Width
    <2> HIDE DEF q
    <2>3. Val(a, y, x, z) \in Int /\ Val(c, y, x, z) \in Int
      BY <1>1
    <2>8. Get(u, z, y, x) = Val(a, y, x, z) + Val(c, y, x, z)
      <3>1. Get(u, z, y, x) = Sum(q)
        BY <1>5, <2>1, <2>2
      <3>2. t.values[q] = Val(a, y, x, z) /\ e.values[q] = Val(c, y, x, z)
        BY <1>1, <2>2
      <3> QED  BY <1>4, <2>3, <3>1, <3>2
    <2>4. /\ Pos(s, y, x, z) + 1 \in 1 .. Keras!Volume(s)
          /\ Keras!IndexOf(s, (Pos(s, y, x, z) + 1) - 1) = i
      BY <1>1, CellIndex
    <2>5. Val(b, y, x, z) = b.values[Pos(s, y, x, z) + 1]
      BY <1>3 DEF Val
    <2>6. Keras!At(a, i) = Val(a, y, x, z) /\ Keras!At(c, i) = Val(c, y, x, z)
      BY <1>1, KerasAt
    <2> HIDE DEF i
    <2>7. Val(b, y, x, z) = Val(a, y, x, z) + Val(c, y, x, z)
      BY <1>2, <2>4, <2>5, <2>6
    <2> QED  BY <2>3, <2>7, <2>8
  <1>8. Same(b, u)
    BY <1>1, <1>3, <1>6, <1>7, SameCells
  <1> QED  BY <1>8 DEF b, u

LEMMA ValuesOfTensor ==
  ASSUME NEW a, NEW t, Same(a, t)
  PROVE  LET n == Chans(a.shape) * Rows(a.shape) * Cols(a.shape) IN
         n \in Nat /\ t.values \in Seq(Int) /\ Len(t.values) = n
  <1> DEFINE s == a.shape
             n == Chans(s) * Rows(s) * Cols(s)
             v == t.values
  <1>1. /\ Rows(s) \in Positive /\ Cols(s) \in Positive /\ Chans(s) \in Positive
        /\ Width(t) = Cols(s) /\ Height(t) = Rows(s)
        /\ IsFilled(t, n)
        /\ \A z \in 0 .. Chans(s) - 1, y \in 0 .. Rows(s) - 1, x \in 0 .. Cols(s) - 1 :
              Get(t, z, y, x) = Val(a, y, x, z) /\ Val(a, y, x, z) \in Int
    BY SameFacts
  <1>2. n \in Nat
    <2> DEFINE m == Chans(s) * Rows(s)
    <2>1. m \in Nat /\ Cols(s) \in Nat
      BY <1>1 DEF Positive
    <2> HIDE DEF m
    <2>2. m * Cols(s) \in Nat
      BY <2>1
    <2> QED  BY <2>2 DEF m
  <1>3. v = [p \in 1 .. n |-> v[p]]
    BY <1>1 DEF IsFilled
  <1>4. ASSUME NEW p \in 1 .. n PROVE v[p] \in Int
    <2>1. PICK z \in 0 .. Chans(s) - 1, y \in 0 .. Rows(s) - 1, x \in 0 .. Cols(s) - 1 :
            p = (z * Rows(s) + y) * Cols(s) + x + 1
      BY <1>1, PositionInTensor
    <2>2. Get(t, z, y, x) = v[p]
      BY <1>1, <2>1 DEF Get
    <2> QED  BY <1>1, <2>2
  <1> HIDE DEF v, n
  <1>5. v \in [1 .. n -> Int]
    BY <1>3, <1>4
  <1>6. v \in Seq(Int) /\ Len(v) = n
    BY <1>2, <1>5
  <1> QED  BY <1>2, <1>6 DEF v, n

LEMMA OneAndTwo ==
  ASSUME NEW i, NEW j, NEW k
  PROVE  << i >> \o <<j, k>> = <<i, j, k>>
  <1> DEFINE S == {i, j, k}
             x == << i >>
             y == <<j, k>>
             c == x \o y
  <1>1. /\ x \in Seq(S) /\ Len(x) = 1 /\ x[1] = i
        /\ y \in Seq(S) /\ Len(y) = 2 /\ y[1] = j /\ y[2] = k
    OBVIOUS
  <1> HIDE DEF S, x, y
  <1>2. c \in Seq(S) /\ Len(c) = 3 /\ c[1] = i /\ c[2] = j /\ c[3] = k
    BY <1>1, Concatenation
  <1> HIDE DEF c
  <1>3. c = [n \in 1 .. 3 |-> c[n]]
    BY <1>2
  <1>4. c = <<c[1], c[2], c[3]>>
    BY <1>3, Triple
  <1> QED  BY <1>2, <1>4 DEF c, x, y

LEMMA LastAxis ==
  ASSUME NEW s \in Shapes, NEW m \in Positive
  PROVE  LET r == [s EXCEPT ![Len(s)] = m] IN
         r \in Shapes /\ Len(r) = Len(s) /\ Rows(r) = Rows(s) /\ Cols(r) = Cols(s) /\ Chans(r) = m
  <1> DEFINE n == Len(s)
             r == [s EXCEPT ![n] = m]
  <1>1. n \in 1 .. 3 /\ s \in [1 .. n -> Positive]
    BY AxesOf
  <1> HIDE DEF n
  <1>2. r \in [1 .. n -> Positive] /\ r[n] = m /\ \A k \in 1 .. n - 1 : r[k] = s[k]
    BY <1>1
  <1> HIDE DEF r
  <1>3. r \in Shapes /\ Len(r) = n
    BY <1>1, <1>2, FunctionIsShape
  <1>4. Rows(r) = Rows(s) /\ Cols(r) = Cols(s) /\ Chans(r) = m
    <2>1. Len(s) = n
      BY DEF n
    <2>2. CASE n = 1
      BY <1>2, <1>3, <2>1, <2>2 DEF Rows, Cols, Chans
    <2>3. CASE n = 2
      BY <1>2, <1>3, <2>1, <2>3 DEF Rows, Cols, Chans
    <2>4. CASE n = 3
      BY <1>2, <1>3, <2>1, <2>4 DEF Rows, Cols, Chans
    <2> QED  BY <1>1, <2>2, <2>3, <2>4
  <1> QED  BY <1>3, <1>4 DEF n, r

LEMMA OtherChannel ==
  ASSUME NEW n \in 1 .. 3, NEW y, NEW x, NEW z, NEW c
  PROVE  [Cell(n, y, x, z) EXCEPT ![n] = c] = Cell(n, y, x, c)
  <1>1. Cell(1, y, x, z) = << z >> /\ Cell(1, y, x, c) = << c >>
    BY DEF Cell
  <1>2. CASE n = 1
    BY <1>1, <1>2
  <1>3. CASE n = 2
    BY <1>3, CellIs
  <1>4. CASE n = 3
    BY <1>4, CellIs
  <1> QED  BY <1>2, <1>3, <1>4

\* What Keras can concatenate along the channels passes the assertion on areas.
LEMMA SameAreas ==
  ASSUME NEW a, NEW t, Same(a, t), NEW c, NEW e, Same(c, e),
         Keras!Concatenable(a, c, Keras!Rank(a))
  PROVE  /\ AllTheSameArea(<<t, e>>)
         /\ Len(c.shape) = Len(a.shape)
         /\ Rows(c.shape) = Rows(a.shape) /\ Cols(c.shape) = Cols(a.shape)
  <1> DEFINE s == a.shape
             o == c.shape
             n == Len(s)
  <1>1. /\ s \in Shapes /\ o \in Shapes
        /\ t.shape = <<Chans(s), Rows(s), Cols(s)>> /\ e.shape = <<Chans(o), Rows(o), Cols(o)>>
    BY SameFacts
  <1>2. Len(o) = n /\ \A k \in (1 .. n) \ {n} : s[k] = o[k]
    BY KerasOperators DEF Keras!Concatenable
  <1>3. n \in 1 .. 3
    BY <1>1, AxesOf
  <1>4. Rows(o) = Rows(s) /\ Cols(o) = Cols(s)
    <2>1. CASE n = 1
      BY <1>2, <2>1 DEF Rows, Cols
    <2>2. CASE n = 2
      BY <1>2, <2>2 DEF Rows, Cols
    <2>3. CASE n = 3
      BY <1>2, <2>3 DEF Rows, Cols
    <2> QED  BY <1>3, <2>1, <2>2, <2>3
  <1>5. ASSUME NEW v PROVE Tail(<<v, Rows(s), Cols(s)>>) = <<Rows(s), Cols(s)>>
    OBVIOUS
  <1>6. Tail(t.shape) = <<Rows(s), Cols(s)>> /\ Tail(e.shape) = <<Rows(s), Cols(s)>>
    BY <1>1, <1>4, <1>5
  <1>7. AllTheSameArea(<<t, e>>)
    <2> DEFINE ts == <<t, e>>
    <2>1. DOMAIN ts = {1, 2} /\ ts[1] = t /\ ts[2] = e
      BY Pairs
    <2> HIDE DEF ts
    <2>2. ASSUME NEW i \in DOMAIN ts PROVE Tail(ts[i].shape) = <<Rows(s), Cols(s)>>
      BY <1>6, <2>1
    <2>3. AllTheSameArea(ts)
      BY <2>2 DEF AllTheSameArea
    <2> QED  BY <2>3 DEF ts
  <1> QED  BY <1>2, <1>4, <1>7

\* Concatenation along the channels puts the values one after the other.
LEMMA Joins ==
  ASSUME NEW a, NEW t, Same(a, t), NEW c, NEW e, Same(c, e),
         Keras!Concatenable(a, c, Keras!Rank(a))
  PROVE  Same(Keras!Concatenated(a, c, Keras!Rank(a)), ConcatenateTensor3s(<<t, e>>))
  <1> DEFINE s == a.shape
             o == c.shape
             n == Len(s)
             m == Chans(s) + Chans(o)
             r == [s EXCEPT ![n] = m]
             b == Keras!Concatenated(a, c, n)
             u == ConcatenateTensor3s(<<t, e>>)
             l == Chans(s) * Rows(s) * Cols(s)
             k == Chans(o) * Rows(s) * Cols(s)
  <1>1. /\ s \in Shapes /\ Rows(s) \in Positive /\ Cols(s) \in Positive /\ Chans(s) \in Positive
        /\ o \in Shapes /\ Chans(o) \in Positive
        /\ t.shape = <<Chans(s), Rows(s), Cols(s)>> /\ Depth(t) = Chans(s) /\ Depth(e) = Chans(o)
        /\ Width(t) = Cols(s) /\ Height(t) = Rows(s) /\ Width(e) = Cols(o) /\ Height(e) = Rows(o)
        /\ \A z \in 0 .. Chans(s) - 1, y \in 0 .. Rows(s) - 1, x \in 0 .. Cols(s) - 1 :
              Get(t, z, y, x) = Val(a, y, x, z) /\ Val(a, y, x, z) \in Int
        /\ \A z \in 0 .. Chans(o) - 1, y \in 0 .. Rows(o) - 1, x \in 0 .. Cols(o) - 1 :
              Get(e, z, y, x) = Val(c, y, x, z) /\ Val(c, y, x, z) \in Int
    BY SameFacts
  <1>2. Len(o) = n /\ Rows(o) = Rows(s) /\ Cols(o) = Cols(s)
    BY SameAreas
  <1>3. /\ l \in Nat /\ t.values \in Seq(Int) /\ Len(t.values) = l
        /\ k \in Nat /\ e.values \in Seq(Int) /\ Len(e.values) = k
    BY <1>2, ValuesOfTensor
  <1>4. m \in Positive
    BY <1>1 DEF Positive
  <1>5. r \in Shapes /\ Len(r) = n /\ Rows(r) = Rows(s) /\ Cols(r) = Cols(s) /\ Chans(r) = m
    <2> HIDE DEF m
    <2> QED  BY <1>1, <1>4, LastAxis
  <1>6. n \in 1 .. 3 /\ s[n] = Chans(s) /\ o[n] = Chans(o)
    BY <1>1, <1>2, AxesOf DEF Chans
  <1>7. b = [shape |-> r,
             values |-> [q \in 1 .. Keras!Volume(r) |->
                           IF Keras!IndexOf(r, q - 1)[n] < Chans(s)
                           THEN Keras!At(a, Keras!IndexOf(r, q - 1))
                           ELSE Keras!At(c, [Keras!IndexOf(r, q - 1) EXCEPT ![n] = @ - Chans(s)])]]
    <2>1. s[n] + o[n] = m
      BY <1>6
    <2> HIDE DEF m
    <2> QED  BY <1>6, <2>1 DEF Keras!Concatenated, Keras!Array
  <1> HIDE DEF b, r
  <1>8. b.shape = r /\ IsFilled(b, Volume(r))
    <2>1. b.shape = r
      BY <1>7
    <2>2. Keras!Volume(r) = Volume(r)
      BY KerasOperators
    <2> QED  BY <1>7, <2>1, <2>2 DEF IsFilled
  <1>9. u = [shape |-> <<m, Rows(s), Cols(s)>>, values |-> t.values \o e.values]
    <2>1. FoldLeft(LAMBDA i, v : i + Depth(v), 0, <<t, e>>) = m
      <3>1. Depth(t) \in Int /\ Depth(e) \in Int
        BY <1>1 DEF Positive
      <3> HIDE DEF m
      <3>2. FoldLeft(LAMBDA i, v : i + Depth(v), 0, <<t, e>>) = Depth(t) + Depth(e)
        BY <3>1, DepthOfTwo
      <3> QED  BY <1>1, <3>2 DEF m
    <2>2. FoldLeft(LAMBDA vs, v : vs \o v.values, << >>, <<t, e>>) = t.values \o e.values
      BY <1>3, ValuesOfTwo
    <2>3. << m >> \o Tail(t.shape) = <<m, Rows(s), Cols(s)>>
      <3>1. Tail(t.shape) = <<Rows(s), Cols(s)>>
        BY <1>1
      <3> HIDE DEF m
      <3> QED  BY <3>1, OneAndTwo
    <2>4. <<t, e>>[1] = t
      BY Pairs
    <2> QED  BY <2>1, <2>2, <2>3, <2>4 DEF ConcatenateTensor3s
  <1> HIDE DEF u
  <1>10. l + k = m * Rows(s) * Cols(s)
    <2>1. /\ (Chans(s) + Chans(o)) * Rows(s) = Chans(s) * Rows(s) + Chans(o) * Rows(s)
          /\ Chans(s) * Rows(s) \in Int /\ Chans(o) * Rows(s) \in Int
      BY <1>1 DEF Positive
    <2>2. (Chans(s) * Rows(s) + Chans(o) * Rows(s)) * Cols(s) = l + k
      BY <1>1, <2>1 DEF Positive
    <2> QED  BY <2>1, <2>2
  <1> DEFINE v == t.values \o e.values
  <1>11. /\ v \in Seq(Int) /\ Len(v) = l + k
         /\ \A i \in 1 .. l + k : v[i] = IF i <= l THEN t.values[i] ELSE e.values[i - l]
    <2> HIDE DEF l, k
    <2> QED  BY <1>3, Concatenation
  <1> HIDE DEF v
  <1>12. u.shape = <<m, Rows(s), Cols(s)>> /\ IsFilled(u, m * Rows(s) * Cols(s)) /\ u.values = v
    <2>1. v = [i \in 1 .. l + k |-> v[i]]
      BY <1>11
    <2>2. u = [shape |-> <<m, Rows(s), Cols(s)>>, values |-> v]
      BY <1>9 DEF v
    <2> HIDE DEF l, k, m
    <2> QED  BY <1>10, <2>1, <2>2 DEF IsFilled
  <1>13. ASSUME NEW z \in 0 .. m - 1, NEW y \in 0 .. Rows(s) - 1, NEW x \in 0 .. Cols(s) - 1
         PROVE  Get(u, z, y, x) = Val(b, y, x, z) /\ Val(b, y, x, z) \in Int
    <2> DEFINE q == (z * Rows(s) + y) * Cols(s) + x + 1
               i == Cell(n, y, x, z)
               d == z - Chans(s)
               p == (d * Rows(s) + y) * Cols(s) + x + 1
    <2>1. q \in 1 .. m * Rows(s) * Cols(s) /\ z \in Nat /\ y \in Nat /\ x \in Nat
      <3> HIDE DEF m
      <3>1. q \in 1 .. m * Rows(s) * Cols(s)
        BY <1>1, <1>4, TensorPosition
      <3> QED  BY <1>1, <1>4, <3>1 DEF Positive
    <2>2. Get(u, z, y, x) = v[q]
      BY <1>12 DEF Get, Height, Width
    <2>3. Val(b, y, x, z) = IF z < Chans(s) THEN Keras!At(a, i) ELSE Keras!At(c, Cell(n, y, x, d))
      <3>1. /\ Pos(r, y, x, z) + 1 \in 1 .. Keras!Volume(r)
            /\ Keras!IndexOf(r, (Pos(r, y, x, z) + 1) - 1) = i
        BY <1>5, CellIndex
      <3>2. Val(b, y, x, z) = b.values[Pos(r, y, x, z) + 1]
        BY <1>8 DEF Val
      <3>3. i[n] = z
        BY <1>1, ChannelOf
      <3>4. [i EXCEPT ![n] = z - Chans(s)] = Cell(n, y, x, d)
        <4> HIDE DEF n
        <4> QED  BY <1>6, OtherChannel
      <3> HIDE DEF i, d
      <3> QED  BY <1>7, <3>1, <3>2, <3>3, <3>4
    <2>4. CASE z < Chans(s)
      <3>1. z \in 0 .. Chans(s) - 1
        BY <1>1, <2>1, <2>4 DEF Positive
      <3>2. q \in 1 .. l
        BY <1>1, <3>1, TensorPosition
      <3>3. q \in 1 .. l + k /\ q <= l
        <4> HIDE DEF q, l, k
        <4> QED  BY <1>3, <3>2
      <3>4. Get(t, z, y, x) = t.values[q]
        BY <1>1 DEF Get
      <3>5. v[q] = t.values[q]
        <4> HIDE DEF q, l, k
        <4> QED  BY <1>11, <3>3
      <3>6. Keras!At(a, i) = Val(a, y, x, z)
        BY <1>1, <3>1, KerasAt
      <3> HIDE DEF q, i, l, k
      <3> QED  BY <1>1, <2>2, <2>3, <2>4, <3>1, <3>4, <3>5, <3>6
    <2>5. CASE ~(z < Chans(s))
      <3>1. d \in 0 .. Chans(o) - 1
        BY <1>1, <2>1, <2>5 DEF Positive
      <3>2. p \in 1 .. k
        BY <1>1, <3>1, TensorPosition
      <3>3. q = l + p
        <4>1. z = Chans(s) + d
          BY <1>1, <2>1 DEF Positive
        <4> HIDE DEF d
        <4>2. /\ z * Rows(s) = Chans(s) * Rows(s) + d * Rows(s) /\ Chans(s) * Rows(s) \in Int
              /\ d * Rows(s) \in Int
          BY <1>1, <3>1, <4>1 DEF Positive
        <4>3. (Chans(s) * Rows(s) + d * Rows(s) + y) * Cols(s)
                = (Chans(s) * Rows(s)) * Cols(s) + (d * Rows(s) + y) * Cols(s)
          BY <1>1, <2>1, <4>2 DEF Positive
        <4>4. (d * Rows(s) + y) * Cols(s) \in Int /\ l \in Int
          <5> DEFINE f == d * Rows(s) + y
          <5>1. f \in Int
            BY <2>1, <4>2
          <5> HIDE DEF f, l
          <5>2. f * Cols(s) \in Int /\ l \in Int
            BY <1>1, <1>3, <5>1 DEF Positive
          <5> QED  BY <5>2 DEF f
        <4> QED  BY <2>1, <4>2, <4>3, <4>4
      <3>4. q \in 1 .. l + k /\ ~(q <= l) /\ q - l = p
        <4> HIDE DEF q, l, k, p
        <4> QED  BY <1>3, <3>2, <3>3
      <3>5. Get(e, d, y, x) = e.values[p]
        BY <1>1, <1>2 DEF Get
      <3>6. v[q] = e.values[p]
        <4> HIDE DEF q, l, k, p
        <4> QED  BY <1>11, <3>4
      <3>7. Keras!At(c, Cell(n, y, x, d)) = Val(c, y, x, d)
        BY <1>1, <1>2, <3>1, KerasAt
      <3>8. Get(e, d, y, x) = Val(c, y, x, d) /\ Val(c, y, x, d) \in Int
        BY <1>1, <1>2, <3>1
      <3> HIDE DEF q, i, l, k, d, p
      <3> QED  BY <2>2, <2>3, <2>5, <3>5, <3>6, <3>7, <3>8
    <2> QED  BY <2>4, <2>5
  <1> HIDE DEF m
  <1>14. Same(b, u)
    BY <1>5, <1>8, <1>12, <1>13, SameCells
  <1> QED  BY <1>14, KerasOperators DEF b, u

LEMMA GreatestValue ==
  ASSUME NEW I, IsFiniteSet(I), I # {}, NEW v \in [I -> Int]
  PROVE  \E i \in I : \A j \in I : v[j] <= v[i]
  <1> DEFINE Greatest(s) == \E i \in s : \A j \in s : v[j] <= v[i]
             T == {n \in Nat : \A s \in SUBSET I : Cardinality(s) <= n => s = {} \/ Greatest(s)}
  <1>1. 0 \in T
    <2> HIDE DEF Greatest
    <2> QED  BY NoElements
  <1>2. \A n \in Nat : n \in T => n + 1 \in T
    <2> TAKE n \in Nat
    <2>0. SUFFICES ASSUME \A s \in SUBSET I : Cardinality(s) <= n => s = {} \/ Greatest(s),
                          NEW s \in SUBSET I, Cardinality(s) <= n + 1, s # {}
                   PROVE  Greatest(s)
      OBVIOUS
    <2>1. PICK x \in s : TRUE
      BY <2>0
    <2> DEFINE r == s \ {x}
    <2>2. r \in SUBSET I /\ Cardinality(r) <= n
      BY <2>0, <2>1, Smaller
    <2>3. CASE r = {}
      <3>1. \A j \in s : j = x
        BY <2>3
      <3>2. v[x] \in Int
        OBVIOUS
      <3> QED  BY <2>1, <3>1, <3>2
    <2>4. CASE r # {}
      <3>1. PICK i \in r : \A j \in r : v[j] <= v[i]
        BY <2>0, <2>2, <2>4
      <3>2. v[x] \in Int /\ v[i] \in Int /\ \A j \in s : v[j] \in Int
        OBVIOUS
      <3>3. CASE v[x] <= v[i]
        <4>1. i \in s /\ \A j \in s : v[j] <= v[i]
          BY <3>1, <3>3
        <4> QED  BY <4>1
      <3>4. CASE v[i] <= v[x]
        <4>1. ASSUME NEW j \in s PROVE v[j] <= v[x]
          <5>1. CASE j = x
            BY <3>2, <5>1
          <5>2. CASE j \in r
            <6>1. v[j] <= v[i]
              BY <3>1, <5>2
            <6> QED  BY <3>2, <3>4, <6>1
          <5> QED  BY <5>1, <5>2
        <4> QED  BY <2>1, <4>1
      <3> QED  BY <3>2, <3>3, <3>4
    <2> QED  BY <2>3, <2>4
  <1> HIDE DEF Greatest
  <1>3. Nat \subseteq T
    BY <1>1, <1>2, Induct
  <1>4. Cardinality(I) \in Nat
    BY FS_CardinalityType
  <1>5. Greatest(I)
    BY <1>3, <1>4
  <1> QED  BY <1>5 DEF Greatest

LEMMA MaximumIsInt ==
  ASSUME NEW I, IsFiniteSet(I), I # {}, NEW v \in [I -> Int]
  PROVE  Max({v[i] : i \in I}) \in Int
  <1> DEFINE S == {v[i] : i \in I}
  <1>1. PICK i \in I : \A j \in I : v[j] <= v[i]
    BY GreatestValue
  <1>2. v[i] \in S /\ \A y \in S : v[i] >= y /\ y <= v[i]
    BY <1>1
  <1>3. \A x \in S : x \in Int
    OBVIOUS
  <1> HIDE DEF S
  <1>4. (CHOOSE x \in S : \A y \in S : x >= y) \in S
    BY <1>2
  <1>5. (CHOOSE x \in S : \A y \in S : y <= x) \in S
    BY <1>2
  <1> QED  BY <1>3, <1>4, <1>5 DEF Max, S

(***************************************************************************)
(* The cells of a channel.                                                 *)
(***************************************************************************)
Space(s) == (0 .. Rows(s) - 1) \X (0 .. Cols(s) - 1)

LEMMA SpaceIsFinite ==
  ASSUME NEW s \in Shapes
  PROVE  IsFiniteSet(Space(s)) /\ Space(s) # {}
  <1>1. Rows(s) \in Positive /\ Cols(s) \in Positive
    BY ThreeAxesOf
  <1>2. /\ Rows(s) - 1 \in Int /\ Cols(s) - 1 \in Int /\ 0 \in 0 .. Rows(s) - 1
        /\ 0 \in 0 .. Cols(s) - 1
    BY <1>1 DEF Positive
  <1>3. IsFiniteSet(0 .. Rows(s) - 1) /\ IsFiniteSet(0 .. Cols(s) - 1)
    BY <1>2, FS_Interval
  <1>4. IsFiniteSet(Space(s))
    BY <1>3, FS_Product DEF Space
  <1>5. <<0, 0>> \in Space(s)
    BY <1>2 DEF Space
  <1> QED  BY <1>4, <1>5

LEMMA IndicesAreCells ==
  ASSUME NEW a, IsKeras(a)
  PROVE  LET s == a.shape IN
         Keras!Indices(a) = {Cell(Len(s), k[1], k[2], z) : k \in Space(s), z \in 0 .. Chans(s) - 1}
  <1> DEFINE s == a.shape
             cells == {Cell(Len(s), k[1], k[2], z) : k \in Space(s), z \in 0 .. Chans(s) - 1}
  <1>1. s \in Shapes /\ DOMAIN a.values = 1 .. Volume(s) /\ Volume(s) \in Nat
    BY ThreeAxesOf DEF IsKeras, Positive
  <1>2. Keras!Indices(a) = {IndexOf(s, p - 1) : p \in 1 .. Volume(s)}
    BY <1>1, KerasOperators DEF Keras!Indices
  <1>3. ASSUME NEW p \in 1 .. Volume(s) PROVE IndexOf(s, p - 1) \in cells
    <2>1. p - 1 \in 0 .. Volume(s) - 1
      BY <1>1
    <2>2. PICK y \in 0 .. Rows(s) - 1, x \in 0 .. Cols(s) - 1, z \in 0 .. Chans(s) - 1 :
            p - 1 = Pos(s, y, x, z)
      BY <1>1, <2>1, PositionIsPos
    <2>3. IndexOf(s, p - 1) = Cell(Len(s), y, x, z)
      BY <1>1, <2>2, CellOfPos
    <2>4. <<y, x>> \in Space(s) /\ <<y, x>>[1] = y /\ <<y, x>>[2] = x
      BY DEF Space
    <2> QED  BY <2>3, <2>4
  <1>4. ASSUME NEW k \in Space(s), NEW z \in 0 .. Chans(s) - 1
        PROVE  Cell(Len(s), k[1], k[2], z) \in {IndexOf(s, p - 1) : p \in 1 .. Volume(s)}
    <2>1. k[1] \in 0 .. Rows(s) - 1 /\ k[2] \in 0 .. Cols(s) - 1
      BY DEF Space
    <2> DEFINE p == Pos(s, k[1], k[2], z) + 1
    <2>2. p \in 1 .. Volume(s) /\ Pos(s, k[1], k[2], z) \in Nat
      BY <1>1, <2>1, PosIsPosition
    <2>3. p - 1 = Pos(s, k[1], k[2], z)
      BY <2>2
    <2>4. IndexOf(s, p - 1) = Cell(Len(s), k[1], k[2], z)
      BY <1>1, <2>1, <2>3, CellOfPos
    <2> HIDE DEF p
    <2> QED  BY <2>2, <2>4
  <1> QED  BY <1>2, <1>3, <1>4

LEMMA CellsOfChannel ==
  ASSUME NEW a, IsKeras(a), NEW z \in 0 .. Chans(a.shape) - 1
  PROVE  Keras!OfChannel(a, z)
           = {Cell(Len(a.shape), k[1], k[2], z) : k \in Space(a.shape)}
  <1> DEFINE s == a.shape
  <1>1. s \in Shapes
    BY DEF IsKeras
  <1>2. Keras!OfChannel(a, z) = {i \in Keras!Indices(a) : i[Len(s)] = z}
    BY KerasOperators DEF Keras!OfChannel
  <1>3. ASSUME NEW i \in Keras!Indices(a), i[Len(s)] = z
        PROVE  \E k \in Space(s) : i = Cell(Len(s), k[1], k[2], z)
    <2>1. PICK k \in Space(s), c \in 0 .. Chans(s) - 1 : i = Cell(Len(s), k[1], k[2], c)
      BY IndicesAreCells
    <2>2. i[Len(s)] = c
      BY <1>1, <2>1, ChannelOf
    <2> QED  BY <1>3, <2>1, <2>2
  <1>4. ASSUME NEW k \in Space(s)
        PROVE  /\ Cell(Len(s), k[1], k[2], z) \in Keras!Indices(a)
               /\ Cell(Len(s), k[1], k[2], z)[Len(s)] = z
    BY <1>1, ChannelOf, IndicesAreCells
  <1> QED  BY <1>2, <1>3, <1>4

\* The values of one channel, by their places.
ChannelValues(a, z) == [k \in Space(a.shape) |-> Val(a, k[1], k[2], z)]

LEMMA ValuesOfChannel ==
  ASSUME NEW a, NEW t, Same(a, t), NEW z \in 0 .. Chans(a.shape) - 1
  PROVE  LET s == a.shape
             v == ChannelValues(a, z)
         IN  /\ v \in [Space(s) -> Int]
             /\ Spatial(t) = Space(s)
             /\ \A k \in Space(s) :
                  /\ ValueAt(t, <<z, k[1], k[2]>>) = v[k]
                  /\ Keras!At(a, Cell(Len(s), k[1], k[2], z)) = v[k]
  <1> DEFINE s == a.shape
             v == ChannelValues(a, z)
  <1>1. /\ s \in Shapes /\ Height(t) = Rows(s) /\ Width(t) = Cols(s)
        /\ \A c \in 0 .. Chans(s) - 1, y \in 0 .. Rows(s) - 1, x \in 0 .. Cols(s) - 1 :
              Get(t, c, y, x) = Val(a, y, x, c) /\ Val(a, y, x, c) \in Int
    BY SameFacts
  <1>2. Spatial(t) = Space(s)
    BY <1>1 DEF Spatial, Space
  <1>3. ASSUME NEW k \in Space(s)
        PROVE  /\ k[1] \in 0 .. Rows(s) - 1 /\ k[2] \in 0 .. Cols(s) - 1
               /\ v[k] = Val(a, k[1], k[2], z) /\ v[k] \in Int
    <2>1. k[1] \in 0 .. Rows(s) - 1 /\ k[2] \in 0 .. Cols(s) - 1
      BY DEF Space
    <2>2. v[k] = Val(a, k[1], k[2], z)
      BY DEF ChannelValues
    <2> QED  BY <1>1, <2>1, <2>2
  <1>4. v \in [Space(s) -> Int]
    BY <1>3 DEF ChannelValues
  <1>5. ASSUME NEW k \in Space(s)
        PROVE  /\ ValueAt(t, <<z, k[1], k[2]>>) = v[k]
               /\ Keras!At(a, Cell(Len(s), k[1], k[2], z)) = v[k]
    <2>1. ValueAt(t, <<z, k[1], k[2]>>) = Get(t, z, k[1], k[2])
      BY DEF ValueAt
    <2>2. Keras!At(a, Cell(Len(s), k[1], k[2], z)) = Val(a, k[1], k[2], z)
      BY <1>1, <1>3, KerasAt
    <2> QED  BY <1>1, <1>3, <2>1, <2>2
  <1> QED  BY <1>2, <1>4, <1>5

\* What both sides make of a channel goes to the cell of the channel.
LEMMA OneCellPerChannel ==
  ASSUME NEW c \in Positive
  PROVE  /\ << c >> \in Shapes /\ Chans(<< c >>) = c /\ Rows(<< c >>) = 1 /\ Cols(<< c >>) = 1
         /\ Volume(<< c >>) = c /\ c * 1 * 1 = c /\ 1 * 1 = 1
         /\ \A z \in 0 .. c - 1 :
              /\ z \in Nat /\ z + 1 \in 1 .. c
              /\ (z + 1 - 1) \div (1 * 1) = z
              /\ Pos(<< c >>, 0, 0, z) = z
              /\ Keras!IndexOf(<< c >>, (z + 1) - 1) = << z >>
              /\ << z >>[1] = z
              /\ (z * 1 + 0) * 1 + 0 + 1 = z + 1
  <1>1. << c >> \in Shapes /\ Chans(<< c >>) = c /\ Rows(<< c >>) = 1 /\ Cols(<< c >>) = 1
    BY IsShape
  <1>2. Volume(<< c >>) = c /\ c * 1 * 1 = c
    BY Volume1 DEF Positive
  <1>3. ASSUME NEW z \in 0 .. c - 1
        PROVE  /\ z \in Nat /\ z + 1 \in 1 .. c
               /\ (z + 1 - 1) \div (1 * 1) = z
               /\ Pos(<< c >>, 0, 0, z) = z
               /\ Keras!IndexOf(<< c >>, (z + 1) - 1) = << z >>
               /\ << z >>[1] = z
               /\ (z * 1 + 0) * 1 + 0 + 1 = z + 1
    <2>1. z \in Nat /\ z + 1 \in 1 .. c /\ z + 1 - 1 = z
      BY DEF Positive
    <2>2. z \div 1 = z
      <3>1. z \in Int /\ z = z * 1 + 0 /\ 1 \in Positive /\ 0 \in 0 .. 1 - 1
        BY <2>1 DEF Positive
      <3> QED  BY <3>1, DivisionWithRemainder
    <2>3. Pos(<< c >>, 0, 0, z) = (0 * 1 + 0) * c + z
      BY <1>1 DEF Pos
    <2>4. (0 * 1 + 0) * c + z = z
      BY <2>1 DEF Positive
    <2>5. IndexOf(<< c >>, z) = << z >>
      BY CellOf1
    <2>6. Keras!IndexOf(<< c >>, (z + 1) - 1) = << z >>
      BY <2>1, <2>5, KerasOperators
    <2> QED  BY <2>1, <2>2, <2>3, <2>4, <2>6
  <1> QED  BY <1>1, <1>2, <1>3

\* Global max pooling.
LEMMA TakesGlobalMaximum ==
  ASSUME NEW a, NEW t, Same(a, t)
  PROVE  Same(Keras!GlobalMaxPooled(a), GlobalMax(t))
  <1> DEFINE s == a.shape
             c == Chans(s)
             b == Keras!GlobalMaxPooled(a)
             u == GlobalMax(t)
             Greatest(z) == Max({ChannelValues(a, z)[k] : k \in Space(s)})
  <1>1. /\ IsKeras(a) /\ s \in Shapes /\ c \in Positive /\ Depth(t) = c
    BY SameFacts
  <1> HIDE DEF c
  <1>a. Chans(s) = c
    BY DEF c
  <1>2. ASSUME NEW z \in 0 .. c - 1
        PROVE  /\ Max({ValueAt(t, k) : k \in Channel(t, z)}) = Greatest(z)
               /\ Keras!Max({Keras!At(a, i) : i \in Keras!OfChannel(a, z)}) = Greatest(z)
               /\ Greatest(z) \in Int
    <2> DEFINE v == ChannelValues(a, z)
    <2>1. /\ v \in [Space(s) -> Int] /\ Spatial(t) = Space(s)
          /\ \A k \in Space(s) :
               /\ ValueAt(t, <<z, k[1], k[2]>>) = v[k]
               /\ Keras!At(a, Cell(Len(s), k[1], k[2], z)) = v[k]
      BY <1>a, ValuesOfChannel
    <2>2. Keras!OfChannel(a, z) = {Cell(Len(s), k[1], k[2], z) : k \in Space(s)}
      BY <1>1, <1>a, CellsOfChannel
    <2> HIDE DEF v
    <2>3. {ValueAt(t, k) : k \in Channel(t, z)} = {v[k] : k \in Space(s)}
      BY <2>1 DEF Channel
    <2>4. {Keras!At(a, i) : i \in Keras!OfChannel(a, z)} = {v[k] : k \in Space(s)}
      <3> DEFINE cells == Keras!OfChannel(a, z)
      <3>1. ASSUME NEW i \in cells PROVE \E k \in Space(s) : Keras!At(a, i) = v[k]
        <4>1. PICK k \in Space(s) : i = Cell(Len(s), k[1], k[2], z)
          BY <2>2
        <4> QED  BY <2>1, <4>1
      <3>2. ASSUME NEW k \in Space(s) PROVE \E i \in cells : Keras!At(a, i) = v[k]
        <4>1. Cell(Len(s), k[1], k[2], z) \in cells
          BY <2>2
        <4> QED  BY <2>1, <4>1
      <3> QED  BY <3>1, <3>2
    <2>5. Max({v[k] : k \in Space(s)}) \in Int
      BY <1>1, <2>1, SpaceIsFinite, MaximumIsInt
    <2>6. ASSUME NEW S PROVE Keras!Max(S) = Max(S)
      BY DEF Keras!Max, Max
    <2> QED  BY <2>3, <2>4, <2>5, <2>6 DEF v
  <1>3. b = [shape |-> << c >>,
             values |-> [q \in 1 .. Keras!Volume(<< c >>) |->
                           Keras!Max({Keras!At(a, i) :
                             i \in Keras!OfChannel(a, Keras!IndexOf(<< c >>, q - 1)[1])})]]
    BY <1>a, KerasOperators DEF Keras!GlobalMaxPooled, Keras!Array
  <1>4. u = [shape |-> <<c, 1, 1>>,
             values |-> [q \in 1 .. c * 1 * 1 |->
                           Max({ValueAt(t, k) : k \in Channel(t, (q - 1) \div (1 * 1))})]]
    BY <1>1 DEF GlobalMax, Tensor
  <1> HIDE DEF b, u, Greatest
  <1>5. b.shape = << c >> /\ IsFilled(b, Volume(<< c >>))
    <2>1. b.shape = << c >>
      BY <1>3
    <2>2. Keras!Volume(<< c >>) = Volume(<< c >>)
      BY KerasOperators
    <2> QED  BY <1>3, <2>1, <2>2 DEF IsFilled
  <1>6. u.shape = <<c, 1, 1>> /\ IsFilled(u, c * 1 * 1)
    BY <1>4 DEF IsFilled
  <1>7. ASSUME NEW z \in 0 .. c - 1
        PROVE  Get(u, z, 0, 0) = Greatest(z) /\ Val(b, 0, 0, z) = Greatest(z) /\ Greatest(z) \in Int
    <2>1. /\ z + 1 \in 1 .. c /\ (z + 1 - 1) \div (1 * 1) = z /\ Pos(<< c >>, 0, 0, z) = z
          /\ Keras!IndexOf(<< c >>, (z + 1) - 1) = << z >> /\ << z >>[1] = z
          /\ (z * 1 + 0) * 1 + 0 + 1 = z + 1 /\ Volume(<< c >>) = c /\ c * 1 * 1 = c
      BY <1>1, OneCellPerChannel
    <2>2. Get(u, z, 0, 0) = u.values[z + 1]
      BY <1>6, <2>1 DEF Get, Height, Width
    <2>3. u.values[z + 1] = Max({ValueAt(t, k) : k \in Channel(t, z)})
      BY <1>4, <2>1
    <2>4. Val(b, 0, 0, z) = b.values[z + 1]
      BY <1>5, <2>1 DEF Val
    <2>5. Keras!Volume(<< c >>) = c
      BY <2>1, KerasOperators
    <2>6. b.values[z + 1] = Keras!Max({Keras!At(a, i) : i \in Keras!OfChannel(a, z)})
      BY <1>3, <2>1, <2>5
    <2> QED  BY <1>2, <2>2, <2>3, <2>4, <2>6
  <1>8. << c >> \in Shapes /\ Chans(<< c >>) = c /\ Rows(<< c >>) = 1 /\ Cols(<< c >>) = 1
    BY <1>1, OneCellPerChannel
  <1>9. ASSUME NEW z \in 0 .. c - 1, NEW y \in 0 .. 1 - 1, NEW x \in 0 .. 1 - 1
        PROVE  Get(u, z, y, x) = Val(b, y, x, z) /\ Val(b, y, x, z) \in Int
    <2>1. y = 0 /\ x = 0
      OBVIOUS
    <2> QED  BY <1>7, <2>1
  <1>10. Same(b, u)
    BY <1>5, <1>6, <1>8, <1>9, SameCells
  <1> QED  BY <1>10 DEF b, u

\* Cells of one channel differ in their places.
LEMMA DifferentCells ==
  ASSUME NEW s \in Shapes, NEW j \in Space(s), NEW k \in Space(s), NEW z,
         Cell(Len(s), j[1], j[2], z) = Cell(Len(s), k[1], k[2], z)
  PROVE  j = k
  <1>1. /\ j[1] \in 0 .. Rows(s) - 1 /\ j[2] \in 0 .. Cols(s) - 1 /\ j = <<j[1], j[2]>>
        /\ k[1] \in 0 .. Rows(s) - 1 /\ k[2] \in 0 .. Cols(s) - 1 /\ k = <<k[1], k[2]>>
    BY DEF Space
  <1>2. Len(s) \in 1 .. 3 /\ (Len(s) # 3 => Rows(s) = 1) /\ (Len(s) = 1 => Cols(s) = 1)
    BY AxesOf DEF Rows, Cols
  <1>3. CASE Len(s) = 1
    BY <1>1, <1>2, <1>3
  <1>4. CASE Len(s) = 2
    <2>1. j[2] = k[2]
      BY <1>4, CellIs
    <2> QED  BY <1>1, <1>2, <1>4, <2>1
  <1>5. CASE Len(s) = 3
    <2>1. j[1] = k[1] /\ j[2] = k[2]
      BY <1>5, CellIs
    <2> QED  BY <1>1, <2>1
  <1> QED  BY <1>2, <1>3, <1>4, <1>5

LEMMA TotalOfChannel ==
  ASSUME NEW a, NEW t, Same(a, t), NEW z \in 0 .. Chans(a.shape) - 1
  PROVE  LET all == TotalOf(ChannelValues(a, z)) IN
         /\ SumOver(t, Channel(t, z)) = all
         /\ Keras!Total(a, Keras!OfChannel(a, z)) = all
         /\ all \in Int
  <1> DEFINE s == a.shape
             I == Space(s)
             v == ChannelValues(a, z)
             n == Len(s)
  <1>1. IsKeras(a) /\ s \in Shapes
    BY SameFacts
  <1>2. IsFiniteSet(I)
    BY <1>1, SpaceIsFinite
  <1>3. /\ v \in [I -> Int] /\ Spatial(t) = I
        /\ \A k \in I : /\ ValueAt(t, <<z, k[1], k[2]>>) = v[k]
                        /\ Keras!At(a, Cell(n, k[1], k[2], z)) = v[k]
    BY ValuesOfChannel
  <1> HIDE DEF v
  <1>4. SumOver(t, Channel(t, z)) = TotalOf(v)
    <2> DEFINE S == Channel(t, z)
               f == [q \in S |-> ValueAt(t, q)]
               b == [k \in I |-> <<z, k[1], k[2]>>]
    <2>1. S = {b[k] : k \in I} /\ b \in [I -> S]
      BY <1>3 DEF Channel
    <2>2. \A k \in I : f[b[k]] = v[k]
      BY <1>3, <2>1
    <2>3. f \in [S -> Int]
      BY <1>3, <2>1
    <2>4. ASSUME NEW j \in I, NEW k \in I, b[j] = b[k] PROVE j = k
      <3>1. j = <<j[1], j[2]>> /\ k = <<k[1], k[2]>>
        BY DEF Space
      <3>2. b[j] = <<z, j[1], j[2]>> /\ b[k] = <<z, k[1], k[2]>>
        OBVIOUS
      <3>3. j[1] = k[1] /\ j[2] = k[2]
        BY <2>4, <3>2
      <3> QED  BY <3>1, <3>3
    <2>5. Renames(b, I, S, v, f)
      <3> HIDE DEF S, f, b
      <3> QED  BY <2>1, <2>2, <2>4 DEF Renames
    <2>6. \A q \in S : f[q] = ValueAt(t, q)
      OBVIOUS
    <2> HIDE DEF S, f, b, I
    <2>7. SumOver(t, S) = TotalOf(v)
      BY <1>2, <1>3, <2>3, <2>5, <2>6, SumOverIsTotal
    <2> QED  BY <2>7 DEF S
  <1>5. Keras!Total(a, Keras!OfChannel(a, z)) = TotalOf(v)
    <2> DEFINE S == Keras!OfChannel(a, z)
               f == [q \in S |-> Keras!At(a, q)]
               b == [k \in I |-> Cell(n, k[1], k[2], z)]
    <2>1. S = {b[k] : k \in I} /\ b \in [I -> S]
      BY <1>1, CellsOfChannel
    <2>2. \A k \in I : f[b[k]] = v[k]
      BY <1>3, <2>1
    <2>3. f \in [S -> Int]
      BY <1>3, <2>1
    <2>4. ASSUME NEW j \in I, NEW k \in I, b[j] = b[k] PROVE j = k
      BY <1>1, <2>4, DifferentCells
    <2>5. Renames(b, I, S, v, f)
      <3> HIDE DEF S, f, b
      <3> QED  BY <2>1, <2>2, <2>4 DEF Renames
    <2>6. \A q \in S : f[q] = Keras!At(a, q)
      OBVIOUS
    <2> HIDE DEF S, f, b, I
    <2>7. Keras!Total(a, S) = TotalOf(v)
      BY <1>2, <1>3, <2>3, <2>5, <2>6, KerasTotal
    <2> QED  BY <2>7 DEF S
  <1>6. TotalOf(v) \in Int
    <2> HIDE DEF v, I
    <2>1. PICK g \in [SUBSET I -> Int] : TotalOf(v) = g[I]
      BY <1>2, <1>3, TotalIsPartial
    <2> QED  BY <2>1
  <1> QED  BY <1>4, <1>5, <1>6 DEF v

\* Global average pooling: both sides sum the same values, in some order.
LEMMA TakesGlobalAverage ==
  ASSUME NEW a, NEW t, Same(a, t)
  PROVE  Same(Keras!GlobalAveragePooled(a), GlobalAverage(t))
  <1> DEFINE s == a.shape
             c == Chans(s)
             n == Rows(s) * Cols(s)
             b == Keras!GlobalAveragePooled(a)
             u == GlobalAverage(t)
             Average(z) == TotalOf(ChannelValues(a, z)) \div n
  <1>1. /\ IsKeras(a) /\ s \in Shapes /\ c \in Positive /\ Rows(s) \in Positive
        /\ Cols(s) \in Positive
        /\ Depth(t) = c /\ Height(t) * Width(t) = n
    BY SameFacts
  <1> HIDE DEF c
  <1>a. Chans(s) = c
    BY DEF c
  <1>b. n \in Positive /\ Volume(s) \div c = n
    <2>1. n \in Positive
      BY <1>1 DEF Positive
    <2>2. Volume(s) = n * c
      BY <1>1, <1>a, ThreeAxesOf
    <2> HIDE DEF n
    <2>3. n * c = n * c + 0 /\ n * c \in Int /\ 0 \in 0 .. c - 1
      BY <1>1, <2>1 DEF Positive
    <2>4. (n * c) \div c = n
      BY <1>1, <2>1, <2>3, DivisionWithRemainder DEF Positive
    <2> QED  BY <2>1, <2>2, <2>4
  <1>2. ASSUME NEW z \in 0 .. c - 1
        PROVE  /\ SumOver(t, Channel(t, z)) \div n = Average(z)
               /\ Keras!Total(a, Keras!OfChannel(a, z)) \div n = Average(z)
               /\ Average(z) \in Int
    <2>1. LET all == TotalOf(ChannelValues(a, z)) IN
          /\ SumOver(t, Channel(t, z)) = all
          /\ Keras!Total(a, Keras!OfChannel(a, z)) = all
          /\ all \in Int
      BY <1>a, TotalOfChannel
    <2> HIDE DEF n
    <2> QED  BY <1>b, <2>1 DEF Positive
  <1>3. b = [shape |-> << c >>,
             values |-> [q \in 1 .. Keras!Volume(<< c >>) |->
                           Keras!Total(a, Keras!OfChannel(a, Keras!IndexOf(<< c >>, q - 1)[1]))
                             \div n]]
    <2>1. Keras!Volume(a.shape) \div Keras!Channels(a) = n /\ Keras!Channels(a) = c
      BY <1>a, <1>b, KerasOperators
    <2> HIDE DEF n
    <2> QED  BY <2>1 DEF Keras!GlobalAveragePooled, Keras!Array
  <1>4. u = [shape |-> <<c, 1, 1>>,
             values |-> [q \in 1 .. c * 1 * 1 |->
                           SumOver(t, Channel(t, (q - 1) \div (1 * 1))) \div n]]
    BY <1>1 DEF GlobalAverage, Tensor
  <1> HIDE DEF b, u, Average, n
  <1>5. b.shape = << c >> /\ IsFilled(b, Volume(<< c >>))
    <2>1. b.shape = << c >>
      BY <1>3
    <2>2. Keras!Volume(<< c >>) = Volume(<< c >>)
      BY KerasOperators
    <2> QED  BY <1>3, <2>1, <2>2 DEF IsFilled
  <1>6. u.shape = <<c, 1, 1>> /\ IsFilled(u, c * 1 * 1)
    BY <1>4 DEF IsFilled
  <1>7. ASSUME NEW z \in 0 .. c - 1
        PROVE  Get(u, z, 0, 0) = Average(z) /\ Val(b, 0, 0, z) = Average(z) /\ Average(z) \in Int
    <2>1. /\ z + 1 \in 1 .. c /\ (z + 1 - 1) \div (1 * 1) = z /\ Pos(<< c >>, 0, 0, z) = z
          /\ Keras!IndexOf(<< c >>, (z + 1) - 1) = << z >> /\ << z >>[1] = z
          /\ (z * 1 + 0) * 1 + 0 + 1 = z + 1 /\ Volume(<< c >>) = c /\ c * 1 * 1 = c
      BY <1>1, OneCellPerChannel
    <2>2. Get(u, z, 0, 0) = u.values[z + 1]
      BY <1>6, <2>1 DEF Get, Height, Width
    <2>3. u.values[z + 1] = SumOver(t, Channel(t, z)) \div n
      BY <1>4, <2>1
    <2>4. Val(b, 0, 0, z) = b.values[z + 1]
      BY <1>5, <2>1 DEF Val
    <2>5. Keras!Volume(<< c >>) = c
      BY <2>1, KerasOperators
    <2>6. b.values[z + 1] = Keras!Total(a, Keras!OfChannel(a, z)) \div n
      BY <1>3, <2>1, <2>5
    <2> QED  BY <1>2, <2>2, <2>3, <2>4, <2>6
  <1>8. << c >> \in Shapes /\ Chans(<< c >>) = c /\ Rows(<< c >>) = 1 /\ Cols(<< c >>) = 1
    BY <1>1, OneCellPerChannel
  <1>9. ASSUME NEW z \in 0 .. c - 1, NEW y \in 0 .. 1 - 1, NEW x \in 0 .. 1 - 1
        PROVE  Get(u, z, y, x) = Val(b, y, x, z) /\ Val(b, y, x, z) \in Int
    <2>1. y = 0 /\ x = 0
      OBVIOUS
    <2> QED  BY <1>7, <2>1
  <1>10. Same(b, u)
    BY <1>5, <1>6, <1>8, <1>9, SameCells
  <1> QED  BY <1>10 DEF b, u

\* The tensor of exponentials, as softmax computes it.
Exps(t) == [t EXCEPT !.values = [p \in DOMAIN @ |-> Exp(@[p])]]
\* The exponentials of one pixel.
PixelExps(a, y, x) == [c \in 0 .. Chans(a.shape) - 1 |-> Exp(Val(a, y, x, c))]
\* The cells of the pixel of a cell.
PixelCells(a, i) == {[i EXCEPT ![Len(a.shape)] = c] : c \in 0 .. Chans(a.shape) - 1}

LEMMA ExpsOfPixel ==
  ASSUME NEW a, NEW t, Same(a, t),
         NEW y \in 0 .. Rows(a.shape) - 1, NEW x \in 0 .. Cols(a.shape) - 1
  PROVE  LET s == a.shape
             v == PixelExps(a, y, x)
             e == Exps(t)
         IN  /\ v \in [0 .. Chans(s) - 1 -> Positive]
             /\ Depth(e) = Chans(s)
             /\ \A z \in 0 .. Chans(s) - 1 :
                  /\ Get(e, z, y, x) = v[z]
                  /\ ValueAt(e, <<z, y, x>>) = v[z]
                  /\ Exp(Keras!At(a, Cell(Len(s), y, x, z))) = v[z]
  <1> DEFINE s == a.shape
             v == PixelExps(a, y, x)
             e == Exps(t)
  <1>1. /\ s \in Shapes /\ Rows(s) \in Positive /\ Cols(s) \in Positive /\ Chans(s) \in Positive
        /\ t.shape = <<Chans(s), Rows(s), Cols(s)>> /\ Depth(t) = Chans(s)
        /\ Height(t) = Rows(s) /\ Width(t) = Cols(s)
        /\ DOMAIN t.values = 1 .. Chans(s) * Rows(s) * Cols(s)
        /\ IsFilled(t, Chans(s) * Rows(s) * Cols(s))
        /\ \A k \in 0 .. Chans(s) - 1, j \in 0 .. Rows(s) - 1, i \in 0 .. Cols(s) - 1 :
              Get(t, k, j, i) = Val(a, j, i, k) /\ Val(a, j, i, k) \in Int
    BY SameFacts
  <1>2. ASSUME NEW n \in Int PROVE Exp(n) \in Positive
    <2>1. n * n \in Nat
      <3>1. CASE n >= 0
        BY <3>1
      <3>2. CASE n < 0
        <4>1. n * n = (-n) * (-n) /\ -n \in Nat
          BY <3>2
        <4> QED  BY <4>1
      <3> QED  BY <3>1, <3>2
    <2> QED  BY <2>1 DEF Exp, Positive
  <1>3. ASSUME NEW z \in 0 .. Chans(s) - 1 PROVE v[z] = Exp(Val(a, y, x, z)) /\ v[z] \in Positive
    <2>1. v[z] = Exp(Val(a, y, x, z))
      BY DEF PixelExps
    <2> QED  BY <1>1, <1>2, <2>1
  <1>4. v \in [0 .. Chans(s) - 1 -> Positive]
    BY <1>3 DEF PixelExps
  <1>5. e = [shape |-> t.shape, values |-> [p \in DOMAIN t.values |-> Exp(t.values[p])]]
    <2>1. ASSUME NEW r PROVE [t EXCEPT !.values = r] = [shape |-> t.shape, values |-> r]
      BY <1>1 DEF IsFilled
    <2> QED  BY <2>1 DEF Exps
  <1> HIDE DEF e
  <1>6. Depth(e) = Chans(s) /\ Height(e) = Rows(s) /\ Width(e) = Cols(s)
    BY <1>1, <1>5 DEF Depth, Height, Width
  <1>7. ASSUME NEW z \in 0 .. Chans(s) - 1
        PROVE  /\ Get(e, z, y, x) = v[z]
               /\ ValueAt(e, <<z, y, x>>) = v[z]
               /\ Exp(Keras!At(a, Cell(Len(s), y, x, z))) = v[z]
    <2> DEFINE q == (z * Rows(s) + y) * Cols(s) + x + 1
    <2>1. q \in 1 .. Chans(s) * Rows(s) * Cols(s)
      BY <1>1, TensorPosition
    <2>2. Get(e, z, y, x) = e.values[q] /\ Get(t, z, y, x) = t.values[q]
      BY <1>1, <1>6 DEF Get
    <2> HIDE DEF q
    <2>3. e.values[q] = Exp(t.values[q])
      BY <1>1, <1>5, <2>1
    <2>4. Get(e, z, y, x) = v[z]
      BY <1>1, <1>3, <2>2, <2>3
    <2>5. ValueAt(e, <<z, y, x>>) = Get(e, z, y, x)
      BY DEF ValueAt
    <2>6. Keras!At(a, Cell(Len(s), y, x, z)) = Val(a, y, x, z)
      BY <1>1, KerasAt
    <2> QED  BY <1>3, <2>4, <2>5, <2>6
  <1> QED  BY <1>4, <1>6, <1>7 DEF e

LEMMA TotalOfPixel ==
  ASSUME NEW a, NEW t, Same(a, t),
         NEW y \in 0 .. Rows(a.shape) - 1, NEW x \in 0 .. Cols(a.shape) - 1, NEW z
  PROVE  LET s == a.shape
             e == Exps(t)
             all == TotalOf(PixelExps(a, y, x))
         IN  /\ SumOver(e, {<<c, y, x>> : c \in 0 .. Depth(e) - 1}) = all
             /\ ExpSum(a, PixelCells(a, Cell(Len(s), y, x, z))) = all
             /\ all \in Positive
  <1> DEFINE s == a.shape
             n == Len(s)
             I == 0 .. Chans(s) - 1
             v == PixelExps(a, y, x)
             e == Exps(t)
  <1>1. s \in Shapes /\ Chans(s) \in Positive /\ n \in 1 .. 3
    BY SameFacts, AxesOf
  <1>2. IsFiniteSet(I) /\ I # {}
    <2>1. Chans(s) - 1 \in Int /\ 0 \in I
      BY <1>1 DEF Positive
    <2> QED  BY <2>1, FS_Interval
  <1>3. /\ v \in [I -> Positive] /\ Depth(e) = Chans(s)
        /\ \A c \in I : /\ ValueAt(e, <<c, y, x>>) = v[c]
                        /\ Exp(Keras!At(a, Cell(n, y, x, c))) = v[c]
    BY ExpsOfPixel
  <1> HIDE DEF v, e
  <1>4. v \in [I -> Int]
    BY <1>3 DEF Positive
  <1>5. SumOver(e, {<<c, y, x>> : c \in 0 .. Depth(e) - 1}) = TotalOf(v)
    <2> DEFINE S == {<<c, y, x>> : c \in I}
               f == [q \in S |-> ValueAt(e, q)]
               b == [c \in I |-> <<c, y, x>>]
    <2>1. S = {b[c] : c \in I} /\ b \in [I -> S]
      OBVIOUS
    <2>2. \A c \in I : f[b[c]] = v[c]
      BY <1>3, <2>1
    <2>3. f \in [S -> Int]
      BY <1>3, <1>4
    <2>4. ASSUME NEW j \in I, NEW k \in I, b[j] = b[k] PROVE j = k
      <3>1. b[j] = <<j, y, x>> /\ b[k] = <<k, y, x>>
        OBVIOUS
      <3> QED  BY <2>4, <3>1
    <2>5. Renames(b, I, S, v, f)
      <3> HIDE DEF S, f, b
      <3> QED  BY <2>1, <2>2, <2>4 DEF Renames
    <2>6. \A q \in S : f[q] = ValueAt(e, q)
      OBVIOUS
    <2> HIDE DEF S, f, b, I
    <2>7. SumOver(e, S) = TotalOf(v)
      BY <1>2, <1>4, <2>3, <2>5, <2>6, SumOverIsTotal
    <2> QED  BY <1>3, <2>7 DEF S, I
  <1>6. ExpSum(a, PixelCells(a, Cell(n, y, x, z))) = TotalOf(v)
    <2> DEFINE S == PixelCells(a, Cell(n, y, x, z))
               f == [q \in S |-> Exp(Keras!At(a, q))]
               b == [c \in I |-> Cell(n, y, x, c)]
    <2>1. S = {Cell(n, y, x, c) : c \in I}
      <3> HIDE DEF n
      <3>1. ASSUME NEW c \in I PROVE [Cell(n, y, x, z) EXCEPT ![n] = c] = Cell(n, y, x, c)
        BY <1>1, OtherChannel
      <3> QED  BY <3>1 DEF PixelCells, n
    <2>2. S = {b[c] : c \in I} /\ b \in [I -> S]
      BY <2>1
    <2>3. \A c \in I : f[b[c]] = v[c]
      BY <1>3, <2>1
    <2>4. f \in [S -> Int]
      BY <1>3, <1>4, <2>1
    <2>5. ASSUME NEW j \in I, NEW k \in I, b[j] = b[k] PROVE j = k
      <3>1. b[j] = Cell(n, y, x, j) /\ b[k] = Cell(n, y, x, k)
        OBVIOUS
      <3>2. Cell(n, y, x, j)[n] = j /\ Cell(n, y, x, k)[n] = k
        BY <1>1, ChannelOf
      <3> HIDE DEF b
      <3> QED  BY <2>5, <3>1, <3>2
    <2>6. Renames(b, I, S, v, f)
      <3> HIDE DEF S, f, b
      <3> QED  BY <2>2, <2>3, <2>5 DEF Renames
    <2>7. \A q \in S : f[q] = Exp(Keras!At(a, q))
      OBVIOUS
    <2> HIDE DEF S, f, b, I
    <2>8. ExpSum(a, S) = TotalOf(v)
      BY <1>2, <1>4, <2>4, <2>6, <2>7, SumOfExp
    <2> QED  BY <2>8 DEF S
  <1>7. TotalOf(v) \in Positive
    <2> HIDE DEF I
    <2> QED  BY <1>2, <1>3, TotalIsPositive
  <1> QED  BY <1>5, <1>6, <1>7 DEF v, e

SharesOf(a) ==
  Keras!OverChannels(a,
    LAMBDA v, cells :
      Share(Exp(v), FoldSet(LAMBDA i, sum : sum + Exp(Keras!At(a, i)), 0, cells)))

\* Softmax: each cell in proportion to the channels of its pixel.
LEMMA Shares ==
  ASSUME NEW a, NEW t, Same(a, t)
  PROVE  Same(SharesOf(a), Softmax(t))
  <1> DEFINE s == a.shape
             n == Len(s)
             e == Exps(t)
             b == SharesOf(a)
             u == Softmax(t)
  <1>1. /\ s \in Shapes /\ Rows(s) \in Positive /\ Cols(s) \in Positive /\ Chans(s) \in Positive
        /\ Depth(t) = Chans(s) /\ Width(t) = Cols(s) /\ Height(t) = Rows(s)
    BY SameFacts
  <1>2. b = [shape |-> s,
             values |-> [q \in 1 .. Keras!Volume(s) |->
                           Share(Exp(Keras!At(a, Keras!IndexOf(s, q - 1))),
                                 ExpSum(a, PixelCells(a, Keras!IndexOf(s, q - 1))))]]
    BY DEF SharesOf, Keras!OverChannels, Keras!Array, Keras!Rank, Keras!Channels, PixelCells, Chans,
           ExpSum
  <1>3. u = [shape |-> <<Chans(s), Rows(s), Cols(s)>>,
             values |-> [q \in 1 .. Chans(s) * Rows(s) * Cols(s) |->
                           Share(Get(e, (q - 1) \div (Rows(s) * Cols(s)),
                                     ((q - 1) \div Cols(s)) % Rows(s),
                                     (q - 1) % Cols(s)),
                                 SumOver(e,
                                         {<<c, ((q - 1) \div Cols(s)) % Rows(s),
                                            (q - 1) % Cols(s)>> : c \in 0 .. Depth(e) - 1}))]]
    BY <1>1 DEF Softmax, Tensor, Exps
  <1> HIDE DEF b, u, e
  <1>4. b.shape = s /\ IsFilled(b, Volume(s))
    <2>1. b.shape = s
      BY <1>2
    <2>2. Keras!Volume(s) = Volume(s)
      BY KerasOperators
    <2> QED  BY <1>2, <2>1, <2>2 DEF IsFilled
  <1>5. u.shape = <<Chans(s), Rows(s), Cols(s)>> /\ IsFilled(u, Chans(s) * Rows(s) * Cols(s))
    BY <1>3 DEF IsFilled
  <1>6. ASSUME NEW z \in 0 .. Chans(s) - 1, NEW y \in 0 .. Rows(s) - 1, NEW x \in 0 .. Cols(s) - 1
        PROVE  Get(u, z, y, x) = Val(b, y, x, z) /\ Val(b, y, x, z) \in Int
    <2> DEFINE q == (z * Rows(s) + y) * Cols(s) + x + 1
               i == Cell(n, y, x, z)
               v == PixelExps(a, y, x)
               all == TotalOf(v)
    <2>1. /\ v \in [0 .. Chans(s) - 1 -> Positive]
          /\ Get(e, z, y, x) = v[z] /\ Exp(Keras!At(a, i)) = v[z]
      BY ExpsOfPixel DEF e
    <2>2. /\ SumOver(e, {<<c, y, x>> : c \in 0 .. Depth(e) - 1}) = all
          /\ ExpSum(a, PixelCells(a, i)) = all
          /\ all \in Positive
      BY TotalOfPixel DEF e
    <2> HIDE DEF v, all
    <2>3. /\ q \in 1 .. Chans(s) * Rows(s) * Cols(s)
          /\ (q - 1) \div (Rows(s) * Cols(s)) = z /\ ((q - 1) \div Cols(s)) % Rows(s) = y
          /\ (q - 1) % Cols(s) = x
      BY <1>1, TensorPosition
    <2>4. Get(u, z, y, x) = u.values[q]
      BY <1>5 DEF Get, Height, Width
    <2> HIDE DEF q
    <2>5. u.values[q] = Share(v[z], all)
      BY <1>3, <2>1, <2>2, <2>3
    <2>6. /\ Pos(s, y, x, z) + 1 \in 1 .. Keras!Volume(s)
          /\ Keras!IndexOf(s, (Pos(s, y, x, z) + 1) - 1) = i
      BY <1>1, CellIndex
    <2>7. Val(b, y, x, z) = b.values[Pos(s, y, x, z) + 1]
      BY <1>4 DEF Val
    <2> HIDE DEF i
    <2>8. Val(b, y, x, z) = Share(v[z], all)
      BY <1>2, <2>1, <2>2, <2>6, <2>7
    <2>9. Share(v[z], all) \in Int
      BY <2>1, <2>2 DEF Share, Positive
    <2> QED  BY <2>4, <2>5, <2>8, <2>9
  <1>7. Same(b, u)
    BY <1>1, <1>4, <1>5, <1>6, SameCells
  <1> QED  BY <1>7 DEF b, u

\* tensor3_from_bytes gives the tensor of Keras's array.
LEMMA Reads ==
  ASSUME NEW s \in Shapes, NEW v \in [1 .. Volume(s) -> Int]
  PROVE  Same([shape |-> s, values |-> v],
              DepthLastToDepthFirst([shape |-> ThreeAxes(s), values |-> v]))
  <1> DEFINE b == [shape |-> s, values |-> v]
             d == [shape |-> ThreeAxes(s), values |-> v]
             u == DepthLastToDepthFirst(d)
  <1>1. /\ Rows(s) \in Positive /\ Cols(s) \in Positive /\ Chans(s) \in Positive
        /\ ThreeAxes(s) = <<Rows(s), Cols(s), Chans(s)>>
    BY ThreeAxesOf
  <1>2. b.shape = s /\ b.values = v /\ IsFilled(b, Volume(s))
    BY DEF IsFilled
  <1>3. d.shape = <<Rows(s), Cols(s), Chans(s)>> /\ d.values = v
    BY <1>1
  <1>4. Depth(d) = Rows(s) /\ Height(d) = Cols(s) /\ Width(d) = Chans(s)
    BY <1>3 DEF Depth, Height, Width
  <1> HIDE DEF b, d
  <1>5. u = [shape |-> <<Chans(s), Rows(s), Cols(s)>>,
             values |-> [q \in 1 .. Chans(s) * Rows(s) * Cols(s) |->
                           Get(d, ((q - 1) \div Cols(s)) % Rows(s), (q - 1) % Cols(s),
                               (q - 1) \div (Rows(s) * Cols(s)))]]
    BY <1>4 DEF DepthLastToDepthFirst, Tensor
  <1> HIDE DEF u
  <1>6. u.shape = <<Chans(s), Rows(s), Cols(s)>> /\ IsFilled(u, Chans(s) * Rows(s) * Cols(s))
    BY <1>5 DEF IsFilled
  <1>7. ASSUME NEW z \in 0 .. Chans(s) - 1, NEW y \in 0 .. Rows(s) - 1, NEW x \in 0 .. Cols(s) - 1
        PROVE  Get(u, z, y, x) = Val(b, y, x, z) /\ Val(b, y, x, z) \in Int
    <2> DEFINE q == (z * Rows(s) + y) * Cols(s) + x + 1
    <2>1. /\ q \in 1 .. Chans(s) * Rows(s) * Cols(s)
          /\ (q - 1) \div (Rows(s) * Cols(s)) = z /\ ((q - 1) \div Cols(s)) % Rows(s) = y
          /\ (q - 1) % Cols(s) = x
      BY <1>1, TensorPosition
    <2>2. Get(u, z, y, x) = u.values[q]
      BY <1>6 DEF Get, Height, Width
    <2> HIDE DEF q
    <2>3. Get(u, z, y, x) = Get(d, y, x, z)
      BY <1>5, <2>1, <2>2
    <2>4. Get(d, y, x, z) = v[Pos(s, y, x, z) + 1]
      BY <1>3, <1>4 DEF Get, Pos
    <2>5. Val(b, y, x, z) = v[Pos(s, y, x, z) + 1]
      BY <1>2 DEF Val
    <2>6. Pos(s, y, x, z) + 1 \in 1 .. Volume(s)
      BY PosIsPosition
    <2>7. v[Pos(s, y, x, z) + 1] \in Int
      BY <2>6
    <2> QED  BY <2>3, <2>4, <2>5, <2>7
  <1>8. Same(b, u)
    BY <1>2, <1>6, <1>7, SameCells
  <1> QED  BY <1>8 DEF b, u, d

\* tensor3_into_bytes goes back.
LEMMA Writes ==
  ASSUME NEW a, NEW t, Same(a, t)
  PROVE  DepthFirstToDepthLast(t).values = a.values
  <1> DEFINE s == a.shape
             u == DepthFirstToDepthLast(t)
  <1>1. /\ s \in Shapes /\ Rows(s) \in Positive /\ Cols(s) \in Positive /\ Chans(s) \in Positive
        /\ Depth(t) = Chans(s) /\ Height(t) = Rows(s) /\ Width(t) = Cols(s)
        /\ a.values \in Seq(Int) /\ Len(a.values) = Volume(s)
        /\ \A z \in 0 .. Chans(s) - 1, y \in 0 .. Rows(s) - 1, x \in 0 .. Cols(s) - 1 :
              Get(t, z, y, x) = Val(a, y, x, z)
    BY SameFacts DEF IsKeras
  <1>2. Volume(s) = Rows(s) * Cols(s) * Chans(s) /\ Volume(s) \in Nat
    BY <1>1, ThreeAxesOf DEF Positive
  <1>3. u.values = [p \in 1 .. Volume(s) |->
                      Get(t, (p - 1) % Chans(s), (p - 1) \div (Cols(s) * Chans(s)),
                          ((p - 1) \div Chans(s)) % Cols(s))]
    BY <1>1, <1>2 DEF DepthFirstToDepthLast, Tensor
  <1>4. ASSUME NEW p \in 1 .. Volume(s)
        PROVE  Get(t, (p - 1) % Chans(s), (p - 1) \div (Cols(s) * Chans(s)),
                   ((p - 1) \div Chans(s)) % Cols(s))
                 = a.values[p]
    <2>1. p - 1 \in 0 .. Volume(s) - 1
      BY <1>2
    <2>2. PICK y \in 0 .. Rows(s) - 1, x \in 0 .. Cols(s) - 1, z \in 0 .. Chans(s) - 1 :
            p - 1 = Pos(s, y, x, z)
      BY <1>1, <2>1, PositionIsPos
    <2>3. /\ (p - 1) % Chans(s) = z /\ (p - 1) \div (Cols(s) * Chans(s)) = y
          /\ ((p - 1) \div Chans(s)) % Cols(s) = x
      BY <1>1, <2>2, PosIsPosition
    <2>4. p = Pos(s, y, x, z) + 1
      BY <1>2, <2>2
    <2>5. Val(a, y, x, z) = a.values[p]
      BY <2>4 DEF Val
    <2> QED  BY <1>1, <2>3, <2>5
  <1>5. a.values = [p \in 1 .. Volume(s) |-> a.values[p]]
    BY <1>1
  <1> HIDE DEF u
  <1>6. u.values = [p \in 1 .. Volume(s) |-> a.values[p]]
    BY <1>3, <1>4
  <1> QED  BY <1>5, <1>6 DEF u

(***************************************************************************)
(* The first of the greatest.                                              *)
(***************************************************************************)
LEMMA LeastIsMin ==
  ASSUME NEW S \in SUBSET Nat, S # {}
  PROVE  Min(S) \in S /\ \A n \in S : Min(S) <= n
  <1>1. \E m \in S : \A n \in S : m <= n
    BY LeastNatural
  <1> QED  BY <1>1 DEF Min

LEMMA MinIs ==
  ASSUME NEW S \in SUBSET Nat, NEW m \in S, \A n \in S : m <= n
  PROVE  Min(S) = m
  <1>1. Min(S) \in S /\ \A n \in S : Min(S) <= n
    BY LeastIsMin
  <1>2. Min(S) <= m /\ m <= Min(S) /\ m \in Nat /\ Min(S) \in Nat
    BY <1>1
  <1> HIDE DEF Min
  <1> QED  BY <1>2

Greatest(v, n) == {p \in 1 .. n : \A q \in 1 .. n : v[q] <= v[p]}

LEMMA GreatestExist ==
  ASSUME NEW n \in Positive, NEW v \in [1 .. n -> Int]
  PROVE  /\ Greatest(v, n) \in SUBSET Nat /\ Greatest(v, n) # {}
         /\ Min(Greatest(v, n)) \in 1 .. n
  <1>1. IsFiniteSet(1 .. n) /\ 1 .. n # {} /\ n \in Nat
    <2>1. n \in Nat /\ 1 \in 1 .. n
      BY DEF Positive
    <2>2. IsFiniteSet(1 .. n)
      BY <2>1, FS_Interval
    <2> QED  BY <2>1, <2>2
  <1>2. \E i \in 1 .. n : \A j \in 1 .. n : v[j] <= v[i]
    BY <1>1, GreatestValue
  <1>3. Greatest(v, n) \in SUBSET Nat /\ Greatest(v, n) # {}
    BY <1>1, <1>2 DEF Greatest
  <1>4. Min(Greatest(v, n)) \in Greatest(v, n)
    BY <1>3, LeastIsMin
  <1> QED  BY <1>3, <1>4 DEF Greatest

\* tensor3_max_pos is the first greatest cell.
LEMMA MaxPosIs ==
  ASSUME NEW a, NEW t, Same(a, t)
  PROVE  LET n == Chans(a.shape) * Rows(a.shape) * Cols(a.shape) IN
         /\ MaxPos(t) = Min(Greatest(t.values, n)) - 1
         /\ MaxPos(t) \in Nat
  <1> DEFINE n == Chans(a.shape) * Rows(a.shape) * Cols(a.shape)
             v == t.values
  <1>1. n \in Nat /\ v \in Seq(Int) /\ Len(v) = n
    BY ValuesOfTensor
  <1>2. n \in Positive
    <2>1. /\ a.shape \in Shapes /\ Rows(a.shape) \in Positive /\ Cols(a.shape) \in Positive
          /\ Chans(a.shape) \in Positive
      BY SameFacts
    <2> DEFINE m == Chans(a.shape) * Rows(a.shape)
    <2>2. m \in Positive
      BY <2>1 DEF Positive
    <2> HIDE DEF m
    <2>3. m * Cols(a.shape) \in Positive
      BY <2>1, <2>2 DEF Positive
    <2> QED  BY <2>3 DEF m
  <1> HIDE DEF n
  <1>3. v \in [1 .. n -> Int] /\ DOMAIN v = 1 .. n
    BY <1>1
  <1>4. MaxPos(t) = Min(Greatest(v, n)) - 1
    BY <1>3 DEF MaxPos, Greatest
  <1> HIDE DEF v
  <1>5. Min(Greatest(v, n)) \in 1 .. n
    BY <1>2, <1>3, GreatestExist
  <1>6. MaxPos(t) \in Nat
    BY <1>1, <1>4, <1>5
  <1> QED  BY <1>4, <1>6 DEF n, v

\* For a vector it is Keras's argmax.
LEMMA MaxPosIsArgMax ==
  ASSUME NEW a, NEW t, Same(a, t), Len(a.shape) = 1
  PROVE  MaxPos(t) = Keras!ArgMax(a)
  <1> DEFINE s == a.shape
             c == Chans(s)
             v == a.values
             G == Greatest(v, c)
  <1>1. /\ IsKeras(a) /\ s \in Shapes /\ c \in Positive /\ Rows(s) = 1 /\ Cols(s) = 1
        /\ t.shape = <<c, 1, 1>> /\ Height(t) = 1 /\ Width(t) = 1
        /\ DOMAIN t.values = 1 .. c * 1 * 1
        /\ \A z \in 0 .. c - 1, y \in 0 .. 1 - 1, x \in 0 .. 1 - 1 :
              Get(t, z, y, x) = Val(a, y, x, z)
    <2>1. s \in Shapes
      BY SameFacts
    <2>2. Rows(s) = 1 /\ Cols(s) = 1
      BY DEF Rows, Cols
    <2> QED  BY <2>1, <2>2, SameFacts
  <1> HIDE DEF c
  <1>2. s = << c >>
    <2>1. s \in Seq(Positive) /\ s[1] = c
      BY <1>1, AxesOf DEF Chans, c
    <2> QED  BY <2>1
  <1>3. Volume(s) = c /\ c \in Nat /\ c * 1 * 1 = c
    BY <1>1, <1>2, OneCellPerChannel DEF Positive
  <1>4. v \in Seq(Int) /\ Len(v) = c
    BY <1>1, <1>3 DEF IsKeras
  <1>5. v \in [1 .. c -> Int] /\ v = [p \in 1 .. c |-> v[p]]
    BY <1>3, <1>4
  <1>6. ASSUME NEW z \in 0 .. c - 1
        PROVE  /\ z \in Nat /\ z + 1 \in 1 .. c
               /\ t.values[z + 1] = v[z + 1]
               /\ Keras!At(a, << z >>) = v[z + 1]
    <2>1. /\ z \in Nat /\ z + 1 \in 1 .. c /\ Pos(<< c >>, 0, 0, z) = z
          /\ (z * 1 + 0) * 1 + 0 + 1 = z + 1
      BY <1>1, OneCellPerChannel
    <2>2. Get(t, z, 0, 0) = t.values[z + 1]
      BY <1>1, <2>1 DEF Get
    <2>3. Get(t, z, 0, 0) = Val(a, 0, 0, z)
      BY <1>1
    <2>4. Val(a, 0, 0, z) = v[z + 1]
      BY <1>2, <2>1 DEF Val
    <2>5. PosOf(s, << z >>) = z
      BY <1>1, <1>2, CellOf1
    <2>6. Keras!At(a, << z >>) = v[z + 1]
      BY <2>5, KerasOperators
    <2> QED  BY <2>1, <2>2, <2>3, <2>4, <2>6
  <1>7. t.values = v
    <2>1. t.values = [p \in 1 .. c |-> t.values[p]]
      BY <1>1, <1>3, SameFacts DEF IsFilled
    <2>2. ASSUME NEW p \in 1 .. c PROVE t.values[p] = v[p]
      <3>1. p - 1 \in 0 .. c - 1 /\ (p - 1) + 1 = p
        BY <1>3
      <3> QED  BY <1>6, <3>1
    <2> QED  BY <1>5, <2>1, <2>2
  <1>8. MaxPos(t) = Min(G) - 1
    BY <1>1, <1>3, <1>7, MaxPosIs DEF c
  <1> DEFINE A == {i \in 0 .. c - 1 :
                     \A idx \in Keras!Indices(a) : Keras!At(a, idx) <= Keras!At(a, << i >>)}
  <1>9. Keras!ArgMax(a) = Min(A)
    <2>1. Keras!Volume(a.shape) = c
      BY <1>3, KerasOperators
    <2> QED  BY <2>1 DEF Keras!ArgMax, Keras!Min, Min
  <1>10. Keras!Indices(a) = {<< z >> : z \in 0 .. c - 1}
    <2>1. Keras!Indices(a) = {IndexOf(s, p - 1) : p \in 1 .. c}
      <3>1. DOMAIN a.values = 1 .. c
        BY <1>3, <1>5
      <3>2. Keras!Indices(a) = {Keras!IndexOf(s, p - 1) : p \in 1 .. c}
        BY <3>1 DEF Keras!Indices
      <3>3. \A p \in 1 .. c : Keras!IndexOf(s, p - 1) = IndexOf(s, p - 1)
        BY KerasOperators
      <3> QED  BY <3>2, <3>3
    <2>2. ASSUME NEW z \in 0 .. c - 1 PROVE IndexOf(s, z) = << z >>
      BY <1>1, <1>2, CellOf1
    <2>3. ASSUME NEW p \in 1 .. c PROVE p - 1 \in 0 .. c - 1 /\ IndexOf(s, p - 1) = << p - 1 >>
      <3>1. p - 1 \in 0 .. c - 1
        BY <1>3
      <3> QED  BY <2>2, <3>1
    <2>4. ASSUME NEW z \in 0 .. c - 1 PROVE \E p \in 1 .. c : p - 1 = z
      <3>1. z + 1 \in 1 .. c /\ (z + 1) - 1 = z
        BY <1>3
      <3> QED  BY <3>1
    <2> QED  BY <2>1, <2>3, <2>4
  <1>11. ASSUME NEW i \in 0 .. c - 1 PROVE i \in A <=> i + 1 \in G
    <2>1. i \in A <=> \A z \in 0 .. c - 1 : v[z + 1] <= v[i + 1]
      BY <1>6, <1>10
    <2>2. (\A z \in 0 .. c - 1 : v[z + 1] <= v[i + 1]) <=> (\A q \in 1 .. c : v[q] <= v[i + 1])
      <3>1. ASSUME NEW q \in 1 .. c PROVE q - 1 \in 0 .. c - 1 /\ (q - 1) + 1 = q
        BY <1>3
      <3>2. ASSUME NEW z \in 0 .. c - 1 PROVE z + 1 \in 1 .. c
        BY <1>3
      <3> QED  BY <3>1, <3>2
    <2>3. i + 1 \in 1 .. c
      BY <1>6
    <2> QED  BY <2>1, <2>2, <2>3 DEF Greatest
  <1> DEFINE m == Min(G)
  <1>12. G \in SUBSET Nat /\ G # {} /\ m \in 1 .. c /\ m \in G /\ \A n \in G : m <= n
    <2>1. G \in SUBSET Nat /\ G # {} /\ m \in 1 .. c
      BY <1>1, <1>5, GreatestExist
    <2> QED  BY <2>1, LeastIsMin
  <1>13. A \in SUBSET Nat
    BY <1>6
  <1> HIDE DEF A, G, m
  <1>14. m - 1 \in A /\ \A i \in A : m - 1 <= i
    <2>1. m - 1 \in 0 .. c - 1 /\ (m - 1) + 1 = m
      BY <1>3, <1>12
    <2>2. m - 1 \in A
      BY <1>11, <1>12, <2>1
    <2>3. ASSUME NEW i \in A PROVE m - 1 <= i
      <3>1. i \in 0 .. c - 1 /\ i \in Nat
        BY <1>13 DEF A
      <3>2. i + 1 \in G
        BY <1>11, <3>1
      <3>3. m <= i + 1
        BY <1>12, <3>2
      <3> QED  BY <1>12, <3>1, <3>3
    <2> QED  BY <2>2, <2>3
  <1>15. Min(A) = m - 1
    BY <1>13, <1>14, MinIs
  <1> QED  BY <1>8, <1>9, <1>15 DEF m

-----------------------------------------------------------------------------
(***************************************************************************)
(* The theorems are about models that join tensors along their channels:   *)
(* the code reads no other axis.                                           *)
(***************************************************************************)
JoinsChannels == \A r \in 1 .. 3 : ConcatAxes(r) = {r}

(***************************************************************************)
(* The inductive invariant.  The tensor kept for later has to be the same  *)
(* as Keras's too, or a layer that takes two tensors would not be.         *)
(***************************************************************************)
Kept == \/ keptKeras = NoArray /\ kept = NoArray
        \/ Same(keptKeras, kept)

LayoutInv ==
  /\ Same(keras, tensor)
  /\ Kept
  /\ layers \in 0 .. MaxLayers
  /\ class \in Nat \cup {None}
  /\ raised = FALSE
  /\ ClassIsArgMax
  /\ BytesAreRows

\* The invariant holds at first, under every layer, and so always.
LEMMA InitInv == Init => LayoutInv
  <1> SUFFICES ASSUME Init PROVE LayoutInv
    OBVIOUS
  <1>1. PICK i \in Inputs :
          /\ keras = [shape |-> i.shape, values |-> [p \in DOMAIN i.bytes |-> Scaled(i.bytes[p])]]
          /\ tensor = FromBytes(ThreeAxes(i.shape), i.bytes)
    BY DEF Init
  <1> DEFINE v == [p \in DOMAIN i.bytes |-> Scaled(i.bytes[p])]
             s == i.shape
  <1>2. s \in Shapes /\ i.bytes \in [1 .. Volume(s) -> 0 .. 255]
    BY ParametersAssumption DEF ParametersAssumption, Shapes, Positive
  <1>3. v \in [1 .. Volume(s) -> Int]
    <2>1. ASSUME NEW p \in 1 .. Volume(s) PROVE Scaled(i.bytes[p]) \in Int
      <3>1. i.bytes[p] \in 0 .. 255
        BY <1>2
      <3>2. High - Low \in Int
        BY ParametersAssumption DEF ParametersAssumption
      <3>3. \A d \in Int : d \div 255 \in Int
        OBVIOUS
      <3>4. (High - Low) \div 255 \in Int
        BY <3>2, <3>3
      <3>5. Scale \in Int
        BY <3>4 DEF Scale
      <3>6. \A b \in 0 .. 255, d \in Int : b * d \in Int
        OBVIOUS
      <3>7. i.bytes[p] * Scale \in Int
        BY <3>1, <3>5, <3>6
      <3> QED  BY <3>7, ParametersAssumption DEF ParametersAssumption, Scaled
    <2> QED  BY <1>2, <2>1
  <1>4. keras = [shape |-> s, values |-> v]
        /\ tensor = DepthLastToDepthFirst([shape |-> ThreeAxes(s), values |-> v])
    BY <1>1 DEF FromBytes
  <1> HIDE DEF v, s
  <1>5. Same(keras, tensor)
    BY <1>2, <1>3, <1>4, Reads
  <1>6. Kept
    BY DEF Init, Kept
  <1>7. layers \in 0 .. MaxLayers
    BY ParametersAssumption DEF ParametersAssumption, Init
  <1>8. class = None /\ bytes = NoBytes /\ raised = FALSE
    BY DEF Init
  <1> QED  BY <1>5, <1>6, <1>7, <1>8 DEF LayoutInv, ClassIsArgMax, BytesAreRows

\* A layer that is right on both sides keeps the invariant.
LEMMA ApplyInv ==
  ASSUME LayoutInv, Busy, NEW a, NEW t, Same(a, t), Apply(a, t)
  PROVE  LayoutInv'
  <1>1. keras' = a /\ tensor' = t /\ Same(keras', tensor')
    <2>1. keras' = a /\ tensor' = t
      BY DEF Apply
    <2>2. \A c, e : c = a /\ e = t => Same(c, e)
      OBVIOUS
    <2> QED  BY <2>1, <2>2
  <1>2. Kept'
    BY DEF Apply, LayoutInv, Kept, Same
  <1>3. layers' \in 0 .. MaxLayers
    BY ParametersAssumption DEF ParametersAssumption, Apply, LayoutInv, Busy
  <1>4. class' = None /\ bytes' = NoBytes /\ raised' = FALSE
    BY DEF Apply, LayoutInv
  <1> QED  BY <1>1, <1>2, <1>3, <1>4 DEF LayoutInv, ClassIsArgMax, BytesAreRows

LEMMA SpaceOfKeras ==
  ASSUME LayoutInv, HasSpace
  PROVE  /\ Same(keras, tensor) /\ Len(keras.shape) > 1
         /\ Keras!SpatialAxes(keras) = 1 .. Len(keras.shape) - 1
  BY KerasOperators DEF LayoutInv, HasSpace

LEMMA NextInv == JoinsChannels /\ LayoutInv /\ [Next]_vars => LayoutInv'
  <1> SUFFICES ASSUME JoinsChannels, LayoutInv, [Next]_vars PROVE LayoutInv'
    OBVIOUS
  <1>0. Same(keras, tensor) /\ keras.shape \in Shapes
    BY SameFacts DEF LayoutInv
  <1>1. CASE Flatten
    BY <1>0, <1>1, Flattens, ApplyInv DEF Flatten
  <1>2. CASE ZeroPadding
    <2>1. PICK pads \in PerSpatialAxis(Paddings) :
            LET p == TopLeft(pads) IN
            Apply(Keras!ZeroPadded(keras, pads), PadTensor3(0, p[1], p[2], p[3], p[4], tensor))
      BY <1>2 DEF ZeroPadding
    <2>2. Len(keras.shape) > 1 /\ pads \in [1 .. Len(keras.shape) - 1 -> Nat \X Nat]
      BY <1>2, SpaceOfKeras, ParametersAssumption
      DEF ParametersAssumption, ZeroPadding, PerSpatialAxis
    <2> QED  BY <1>0, <1>2, <2>1, <2>2, Pads, ApplyInv DEF ZeroPadding
  <1>3. CASE Cropping
    <2>1. PICK crops \in PerSpatialAxis(Paddings) :
            LET p == TopLeft(crops) IN
            /\ \A k \in DOMAIN crops : crops[k][1] + crops[k][2] < keras.shape[k]
            /\ Apply(Keras!Cropped(keras, crops), CropTensor3(p[1], p[2], p[3], p[4], tensor))
      BY <1>3 DEF Cropping
    <2>2. Len(keras.shape) > 1 /\ crops \in [1 .. Len(keras.shape) - 1 -> Nat \X Nat]
      BY <1>3, SpaceOfKeras, ParametersAssumption
      DEF ParametersAssumption, Cropping, PerSpatialAxis
    <2> QED  BY <1>0, <1>3, <2>1, <2>2, Crops, ApplyInv DEF Cropping
  <1>4. CASE UpSampling
    <2>1. PICK sizes \in PerSpatialAxis(Scales) :
            LET s == CreateShape2(sizes) IN
            Apply(Keras!UpSampled(keras, sizes), UpSampling2D(s[1], s[2], tensor))
      BY <1>4 DEF UpSampling
    <2>2. Len(keras.shape) > 1 /\ sizes \in [1 .. Len(keras.shape) - 1 -> Positive]
      BY <1>4, SpaceOfKeras, ParametersAssumption
      DEF ParametersAssumption, UpSampling, PerSpatialAxis, Positive
    <2> QED  BY <1>0, <1>4, <2>1, <2>2, UpSamples, ApplyInv DEF UpSampling
  <1>5. CASE GlobalMaxPooling
    BY <1>0, <1>5, TakesGlobalMaximum, ApplyInv DEF GlobalMaxPooling
  <1>6. CASE GlobalAveragePooling
    BY <1>0, <1>6, TakesGlobalAverage, ApplyInv DEF GlobalAveragePooling
  <1>7. CASE BatchNormalization
    <2> DEFINE all == 1 .. Chans(keras.shape)
    <2>1. Apply(Keras!ForChannel(keras, LAMBDA v, c : Normalised(v, Mean(c), Gamma(c), Beta(c))),
                BatchNormalized([c \in all |-> Mean(c)], [c \in all |-> Gamma(c)],
                                [c \in all |-> Beta(c)], tensor))
      BY <1>7, KerasOperators DEF BatchNormalization, PerChannel
    <2>2. Busy
      BY <1>7 DEF BatchNormalization
    <2> QED  BY <1>0, <2>1, <2>2, Normalises, ApplyInv
  <1>8. CASE SoftmaxLayer
    <2>1. Busy /\ Apply(SharesOf(keras), Softmax(tensor))
      BY <1>8 DEF SoftmaxLayer, SharesOf
    <2> QED  BY <1>0, <2>1, Shares, ApplyInv
  <1>9. CASE Keep
    BY <1>9 DEF Keep, LayoutInv, Kept, ClassIsArgMax, BytesAreRows, Same
  <1>10. CASE Add
    <2>1. Busy /\ Same(keptKeras, kept) /\ keptKeras.shape = keras.shape
      BY <1>10 DEF Add, HasBoth, SameShape, LayoutInv, Kept
    <2>2. AllTheSameSize(Both)
      BY <1>0, <2>1, SameSizes DEF Both
    <2>3. Apply(Keras!CellByCell(keptKeras, keras, LAMBDA v, w : v + w), SumTensor3s(Both))
      BY <1>10, <2>2 DEF Add
    <2> QED  BY <1>0, <2>1, <2>3, Adds, ApplyInv DEF Both
  <1>11. CASE Maximum
    <2>1. Busy /\ Same(keptKeras, kept) /\ keptKeras.shape = keras.shape
      BY <1>11 DEF Maximum, HasBoth, SameShape, LayoutInv, Kept
    <2>2. AllTheSameSize(Both)
      BY <1>0, <2>1, SameSizes DEF Both
    <2>3. Apply(Keras!CellByCell(keptKeras, keras, LAMBDA v, w : Max({v, w})), MaxTensor3s(Both))
      BY <1>11, <2>2 DEF Maximum
    <2> QED  BY <1>0, <2>1, <2>3, TakesMaximum, ApplyInv DEF Both
  <1>12. CASE Concatenate
    <2>1. Busy /\ Same(keptKeras, kept)
      BY <1>12 DEF Concatenate, HasBoth, LayoutInv, Kept
    <2>2. PICK axis \in ConcatAxes(Keras!Rank(keras)) :
            /\ Keras!Concatenable(keptKeras, keras, axis)
            /\ IF AllTheSameArea(Both)
               THEN Apply(Keras!Concatenated(keptKeras, keras, axis), ConcatenateTensor3s(Both))
               ELSE Raise
      BY <1>12 DEF Concatenate
    <2>3. Keras!Rank(keras) \in 1 .. 3
      BY <1>0, AxesOf, KerasOperators
    <2>4. Keras!Rank(keptKeras) = Keras!Rank(keras)
      BY <2>2 DEF Keras!Concatenable
    <2>5. axis = Keras!Rank(keptKeras)
      BY <2>2, <2>3, <2>4 DEF JoinsChannels
    <2>6. AllTheSameArea(Both)
      BY <1>0, <2>1, <2>2, <2>5, SameAreas DEF Both
    <2> QED  BY <1>0, <2>1, <2>2, <2>5, <2>6, Joins, ApplyInv DEF Both
  <1>13. CASE PredictClass
    <2>1. /\ Height(tensor) * Width(tensor) = 1
          /\ class' = MaxPos(tensor) \div (Height(tensor) * Width(tensor))
          /\ UNCHANGED <<keras, tensor, keptKeras, kept, layers, bytes, raised>>
      BY <1>13 DEF PredictClass
    <2>2. MaxPos(tensor) \in Nat
      BY <1>0, MaxPosIs
    <2>3. class' = MaxPos(tensor)
      BY <2>1, <2>2
    <2>4. Keras!Rank(keras) = 1 => class' = Keras!ArgMax(keras)
      BY <1>0, <2>3, MaxPosIsArgMax, KerasOperators
    <2>5. ClassIsArgMax'
      BY <2>1, <2>4 DEF ClassIsArgMax
    <2> QED  BY <2>1, <2>2, <2>3, <2>5 DEF LayoutInv, Kept, BytesAreRows, Same
  <1>14. CASE ToBytes
    <2>1. /\ bytes' = IntoBytes(tensor)
          /\ UNCHANGED <<keras, tensor, keptKeras, kept, layers, class, raised>>
      BY <1>14 DEF ToBytes
    <2>2. IntoBytes(tensor) = [p \in DOMAIN keras.values |-> Unscaled(keras.values[p])]
      BY <1>0, Writes DEF IntoBytes
    <2>3. BytesAreRows'
      BY <2>1, <2>2 DEF BytesAreRows
    <2> QED  BY <2>1, <2>3 DEF LayoutInv, Kept, ClassIsArgMax, Same
  <1>15. CASE UNCHANGED vars
    BY <1>15 DEF vars, LayoutInv, Kept, ClassIsArgMax, BytesAreRows, Same
  <1> QED  BY <1>1, <1>2, <1>3, <1>4, <1>5, <1>6, <1>7, <1>8, <1>9, <1>10, <1>11, <1>12, <1>13,
              <1>14, <1>15 DEF Next

\* Arrays and tensors have as many values as their shapes say.
LEMMA VolumeOfKeras ==
  ASSUME NEW a, IsKeras(a)
  PROVE  IsArray(a)
  BY ThreeAxesOf DEF IsKeras, IsArray

LEMMA VolumeOfTensor ==
  ASSUME NEW a, NEW t, Same(a, t)
  PROVE  /\ IsArray(t) /\ Len(t.shape) = 3
         /\ \A k \in 1 .. 3 : t.shape[k] > 0
  <1> DEFINE h == Rows(a.shape)
             w == Cols(a.shape)
             c == Chans(a.shape)
  <1>1. h \in Positive /\ w \in Positive /\ c \in Positive /\ t.shape = <<c, h, w>>
    BY SameFacts
  <1>2. Len(t.values) = c * h * w
    BY ValuesOfTensor
  <1> HIDE DEF h, w, c
  <1>3. Volume(t.shape) = c * h * w
    BY <1>1, Volume3 DEF Positive
  <1>4. /\ Len(t.shape) = 3
        /\ \A k \in 1 .. 3 : t.shape[k] > 0
    BY <1>1 DEF Positive
  <1> QED  BY <1>2, <1>3, <1>4 DEF IsArray

LEMMA NoArrayIsArray == IsArray(NoArray)
  <1>1. Volume(<<0>>) = 0
    BY Volume1
  <1> QED  BY <1>1 DEF IsArray, NoArray

LEMMA InvTypeOK == LayoutInv => TypeOK
  <1> SUFFICES ASSUME LayoutInv PROVE TypeOK
    OBVIOUS
  <1>1. IsArray(keras) /\ IsArray(tensor) /\ Len(tensor.shape) = 3
        /\ \A k \in 1 .. 3 : tensor.shape[k] > 0
    BY VolumeOfKeras, VolumeOfTensor DEF LayoutInv, Same
  <1>2. IsArray(keptKeras) /\ IsArray(kept)
    BY NoArrayIsArray, VolumeOfKeras, VolumeOfTensor DEF LayoutInv, Kept, Same
  <1>3. Keras!Rank(keras) \in 1 .. 3
    <2>1. keras.shape \in Shapes
      BY SameFacts DEF LayoutInv
    <2> QED  BY <2>1, AxesOf, KerasOperators
  <1> QED  BY <1>1, <1>2, <1>3 DEF LayoutInv, TypeOK

LEMMA Invariant ==
  ASSUME JoinsChannels
  PROVE  Spec => []LayoutInv
  <1>1. LayoutInv /\ [Next]_vars => LayoutInv'
    BY NextInv
  <1> QED  BY <1>1, InitInv, PTL DEF Spec

(***************************************************************************)
(* Type correctness: a tensor has three axes of positive size and as many  *)
(* values as its shape says, whatever layers made it.                      *)
(***************************************************************************)
THEOREM Types ==
  ASSUME JoinsChannels
  PROVE  Spec => []TypeOK
  BY Invariant, InvTypeOK, PTL

(***************************************************************************)
(* After any layers, in any order, on an array of any shape and rank, the  *)
(* tensor3 holds Keras's cells with the channels first (SameTensor): what  *)
(* the weights of a following layer and the tests of the file rely on.     *)
(***************************************************************************)
THEOREM TensorIsKeras ==
  ASSUME JoinsChannels
  PROVE  Spec => []SameTensor
  <1>1. LayoutInv => SameTensor
    BY DEF LayoutInv, SameTensor, Same
  <1> QED  BY <1>1, Invariant, PTL

(***************************************************************************)
(* The assertions on sizes of add_layer, maximum_layer and                 *)
(* concatenate_layer never refuse what Keras accepts (NothingRefused).     *)
(***************************************************************************)
THEOREM NothingIsRefused ==
  ASSUME JoinsChannels
  PROVE  Spec => []NothingRefused
  <1>1. LayoutInv => NothingRefused
    BY DEF LayoutInv, NothingRefused
  <1> QED  BY <1>1, Invariant, PTL

(***************************************************************************)
(* predict_class names the class of the first maximum of Keras's answer    *)
(* (ClassIsArgMax).                                                        *)
(***************************************************************************)
THEOREM ClassIsKerasArgMax ==
  ASSUME JoinsChannels
  PROVE  Spec => []ClassIsArgMax
  <1>1. LayoutInv => ClassIsArgMax
    BY DEF LayoutInv
  <1> QED  BY <1>1, Invariant, PTL

(***************************************************************************)
(* tensor3_to_bytes writes rows with their channels last, undoing what the *)
(* tensor went through (BytesAreRows).                                     *)
(***************************************************************************)
THEOREM BytesAreKerasRows ==
  ASSUME JoinsChannels
  PROVE  Spec => []BytesAreRows
  <1>1. LayoutInv => BytesAreRows
    BY DEF LayoutInv
  <1> QED  BY <1>1, Invariant, PTL
===============================================================================
