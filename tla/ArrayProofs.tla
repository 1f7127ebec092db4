----------------------------- MODULE ArrayProofs -----------------------------
(***************************************************************************)
(* The facts several proofs share: sequences of unknown element type,      *)
(* induction over the natural numbers, and the positions of cells in       *)
(* arrays.                                                                 *)
(***************************************************************************)
EXTENDS UntypedSeq, Arrays, FiniteSetTheorems, TLAPS

LEMMA SeqOfItsElements ==
  ASSUME NEW s, IsSeq(s), NEW S, \A i \in 1 .. Len(s) : s[i] \in S
  PROVE  s \in Seq(S)
  <1>1. [i \in 1 .. Len(s) |-> s[i]] \in [1 .. Len(s) -> S]
    OBVIOUS
  <1>2. s \in [1 .. Len(s) -> S]
    BY <1>1 DEF IsSeq
  <1> QED  BY <1>2 DEF IsSeq

LEMMA SeqIsSeq ==
  ASSUME NEW S, NEW s \in Seq(S)
  PROVE  IsSeq(s)
  BY DEF IsSeq

LEMMA EmptyIsSeq == IsSeq(<< >>)
  BY DEF IsSeq

LEMMA SingletonIsSeq ==
  ASSUME NEW v
  PROVE  IsSeq(<< v >>) /\ Len(<< v >>) = 1 /\ << v >>[1] = v
  <1>1. << v >> \in Seq({v})
    OBVIOUS
  <1> QED  BY <1>1, SeqIsSeq

LEMMA AppendSeq ==
  ASSUME NEW s, IsSeq(s), NEW v
  PROVE  /\ IsSeq(Append(s, v))
         /\ Len(Append(s, v)) = Len(s) + 1
         /\ Append(s, v)[Len(s) + 1] = v
         /\ \A i \in 1 .. Len(s) : Append(s, v)[i] = s[i]
  <1> DEFINE S == {s[i] : i \in 1 .. Len(s)} \cup {v}
  <1>1. s \in Seq(S) /\ v \in S
    BY SeqOfItsElements
  <1> HIDE DEF S
  <1>2. Append(s, v) \in Seq(S)
    BY <1>1
  <1>3. IsSeq(Append(s, v))
    BY <1>2, SeqIsSeq
  <1> QED  BY <1>1, <1>3

LEMMA PrefixSeq ==
  ASSUME NEW s, IsSeq(s), NEW n \in 0 .. Len(s)
  PROVE  /\ IsSeq(SubSeq(s, 1, n))
         /\ Len(SubSeq(s, 1, n)) = n
         /\ \A i \in 1 .. n : SubSeq(s, 1, n)[i] = s[i]
  <1> DEFINE S == {s[i] : i \in 1 .. Len(s)}
  <1>1. s \in Seq(S)
    BY SeqOfItsElements
  <1> HIDE DEF S
  <1>2. Len(s) \in Nat /\ n \in Nat
    BY DEF IsSeq
  <1>3. SubSeq(s, 1, n) \in Seq(S)
    BY <1>1, <1>2
  <1>4. IsSeq(SubSeq(s, 1, n))
    BY <1>3, SeqIsSeq
  <1>5. Len(SubSeq(s, 1, n)) = n
    BY <1>1, <1>2
  <1>6. ASSUME NEW i \in 1 .. n
        PROVE  SubSeq(s, 1, n)[i] = s[i]
    BY <1>1, <1>2
  <1> QED  BY <1>4, <1>5, <1>6

LEMMA PopSeq ==
  ASSUME NEW s, IsSeq(s), Len(s) > 0
  PROVE  /\ IsSeq(Pop(s))
         /\ Len(Pop(s)) = Len(s) - 1
         /\ \A i \in 1 .. Len(s) - 1 : Pop(s)[i] = s[i]
  <1>1. Len(s) - 1 \in 0 .. Len(s)
    BY DEF IsSeq
  <1> QED  BY <1>1, PrefixSeq DEF Pop

LEMMA PopAppend ==
  ASSUME NEW s, IsSeq(s), NEW v
  PROVE  Pop(Append(s, v)) = s /\ Append(s, v)[Len(Append(s, v))] = v
  <1> DEFINE a == Append(s, v)
             n == Len(s)
  <1>1. /\ IsSeq(a) /\ Len(a) = n + 1 /\ n \in Nat /\ a[n + 1] = v
        /\ \A i \in 1 .. n : a[i] = s[i]
    BY AppendSeq DEF IsSeq
  <1>2. s = [i \in 1 .. n |-> s[i]]
    BY DEF IsSeq
  <1> HIDE DEF a, n
  <1>3. Len(a) > 0 /\ Len(a) - 1 = n
    BY <1>1
  <1>4. IsSeq(Pop(a)) /\ Len(Pop(a)) = n /\ \A i \in 1 .. n : Pop(a)[i] = a[i]
    BY <1>1, <1>3, PopSeq
  <1> DEFINE q == Pop(a)
  <1>5. q = [i \in 1 .. n |-> q[i]] /\ \A i \in 1 .. n : q[i] = s[i]
    BY <1>1, <1>4 DEF IsSeq
  <1> HIDE DEF q
  <1>6. q = [i \in 1 .. n |-> s[i]]
    BY <1>5
  <1> QED  BY <1>1, <1>2, <1>6 DEF q, a

LEMMA FunctionIsSeq ==
  ASSUME NEW n \in Nat, NEW f, f = [i \in 1 .. n |-> f[i]]
  PROVE  IsSeq(f) /\ Len(f) = n
  <1> DEFINE S == {f[i] : i \in 1 .. n}
  <1>1. [i \in 1 .. n |-> f[i]] \in [1 .. n -> S]
    OBVIOUS
  <1>2. f \in [1 .. n -> S]
    BY <1>1
  <1> HIDE DEF S
  <1>3. f \in Seq(S) /\ Len(f) = n
    BY <1>2
  <1> QED  BY <1>3, SeqIsSeq

LEMMA UpdateSeq ==
  ASSUME NEW s, IsSeq(s), NEW n \in 1 .. Len(s), NEW v
  PROVE  /\ IsSeq([s EXCEPT ![n] = v])
         /\ Len([s EXCEPT ![n] = v]) = Len(s)
         /\ [s EXCEPT ![n] = v][n] = v
         /\ \A i \in 1 .. Len(s) : i # n => [s EXCEPT ![n] = v][i] = s[i]
  <1> DEFINE S == {s[i] : i \in 1 .. Len(s)} \cup {v}
  <1>1. s \in Seq(S) /\ v \in S
    BY SeqOfItsElements
  <1> HIDE DEF S
  <1>2. [s EXCEPT ![n] = v] \in Seq(S)
    BY <1>1
  <1>3. IsSeq([s EXCEPT ![n] = v])
    BY <1>2, SeqIsSeq
  <1>4. Len([s EXCEPT ![n] = v]) = Len(s)
    BY <1>1, <1>2
  <1> QED  BY <1>1, <1>3, <1>4
-----------------------------------------------------------------------------
(***************************************************************************)
(* Induction over the natural numbers, from the fact that inclusion of     *)
(* finite sets is well-founded: the least number of a set is the one whose *)
(* predecessors are contained in those of no smaller one.                  *)
(***************************************************************************)
LEMMA LeastNatural ==
  ASSUME NEW T \in SUBSET Nat, T # {}
  PROVE  \E n \in T : \A m \in T : n <= m
  <1> DEFINE U == {1 .. n : n \in T}
             F == FiniteSubsetsOf(Nat)
             R == StrictSubsetOrdering(Nat)
  <1>1. ASSUME NEW n \in Nat PROVE 1 .. n \in F
    <2>1. IsFiniteSet(1 .. n)
      BY FS_Interval
    <2> QED  BY <2>1 DEF FiniteSubsetsOf
  <1>2. U \subseteq F /\ U # {}
    BY <1>1
  <1>3. IsWellFoundedOn(R, F)
    BY FS_StrictSubsetOrderingWellFounded
  <1>4. PICK x \in U : \A y \in U : ~(<<y, x>> \in R)
    <2> HIDE DEF U, F, R
    <2> QED  BY <1>2, <1>3, WFMin
  <1>5. PICK n \in T : x = 1 .. n
    OBVIOUS
  <1>6. ASSUME NEW m \in T PROVE n <= m
    <2>1. CASE m < n
      <3>1. 1 .. m \subseteq 1 .. n /\ n \in 1 .. n /\ n \notin 1 .. m
        BY <2>1
      <3>2. <<1 .. m, 1 .. n>> \in R
        BY <3>1 DEF StrictSubsetOrdering
      <3> QED  BY <1>4, <1>5, <3>2
    <2> QED  BY <2>1
  <1> QED  BY <1>6

LEMMA Induct ==
  ASSUME NEW S, 0 \in S, \A n \in Nat : n \in S => n + 1 \in S
  PROVE  Nat \subseteq S
  <1> DEFINE T == Nat \ S
  <1>1. ASSUME T # {} PROVE FALSE
    <2>1. PICK n \in T : \A m \in T : n <= m
      BY <1>1, LeastNatural
    <2>2. n # 0
      OBVIOUS
    <2>3. n - 1 \in Nat /\ n - 1 \notin T
      BY <2>1, <2>2
    <2> QED  BY <2>3
  <1> QED  BY <1>1
-----------------------------------------------------------------------------
Positive == Nat \ {0}

(***************************************************************************)
(* Positions in arrays: division with remainder undoes y * w + x.          *)
(***************************************************************************)
LEMMA DivisionWithRemainder ==
  ASSUME NEW n \in Int, NEW b \in Positive, NEW q \in Int, NEW r \in 0 .. b - 1, n = q * b + r
  PROVE  n \div b = q /\ n % b = r
  <1> DEFINE d == n \div b
             m == n % b
  <1>1. d \in Int /\ m \in 0 .. b - 1 /\ n = b * d + m
    BY DEF Positive
  <1> HIDE DEF d, m
  <1>2. ASSUME d >= q + 1 PROVE FALSE
    <2>1. b * d >= b * (q + 1) /\ b * (q + 1) = q * b + b
      BY <1>1, <1>2 DEF Positive
    <2>2. b * d \in Int /\ q * b \in Int
      BY <1>1 DEF Positive
    <2> QED  BY <1>1, <2>1, <2>2 DEF Positive
  <1>3. ASSUME d <= q - 1 PROVE FALSE
    <2>1. b * d <= b * (q - 1) /\ b * (q - 1) = q * b - b
      BY <1>1, <1>3 DEF Positive
    <2>2. b * d \in Int /\ q * b \in Int
      BY <1>1 DEF Positive
    <2> QED  BY <1>1, <2>1, <2>2 DEF Positive
  <1>4. d = q
    BY <1>1, <1>2, <1>3
  <1>5. m = r
    <2>1. b * d = q * b /\ q * b \in Int
      BY <1>4 DEF Positive
    <2> QED  BY <1>1, <2>1
  <1> QED  BY <1>4, <1>5 DEF d, m

LEMMA TwoDigits ==
  ASSUME NEW a \in Positive, NEW b \in Positive, NEW q \in 0 .. a - 1, NEW r \in 0 .. b - 1
  PROVE  /\ q * b + r \in 0 .. a * b - 1
         /\ (q * b + r) \div b = q
         /\ (q * b + r) % b = r
  <1>1. q * b \in Int /\ q * b >= 0 /\ q * b <= (a - 1) * b /\ (a - 1) * b = a * b - b
    BY DEF Positive
  <1>2. a * b \in Int
    BY DEF Positive
  <1>3. q * b + r \in 0 .. a * b - 1
    BY <1>1, <1>2 DEF Positive
  <1> QED  BY <1>1, <1>3, DivisionWithRemainder DEF Positive

LEMMA DigitsOfTwo ==
  ASSUME NEW a \in Positive, NEW b \in Positive, NEW p \in 0 .. a * b - 1
  PROVE  /\ p \div b \in 0 .. a - 1
         /\ p % b \in 0 .. b - 1
         /\ p = (p \div b) * b + (p % b)
  <1> DEFINE d == p \div b
             m == p % b
  <1>0. a * b \in Int /\ p \in Int /\ p >= 0 /\ p < a * b
    BY DEF Positive
  <1>1. d \in Int /\ m \in 0 .. b - 1 /\ p = b * d + m
    BY <1>0 DEF Positive
  <1> HIDE DEF d, m
  <1>2. ASSUME d >= a PROVE FALSE
    <2>1. b * d >= b * a /\ b * a = a * b
      BY <1>1, <1>2 DEF Positive
    <2> QED  BY <1>0, <1>1, <2>1 DEF Positive
  <1>3. ASSUME d <= -1 PROVE FALSE
    <2>1. b * d <= b * (-1) /\ b * (-1) = -b
      BY <1>1, <1>3 DEF Positive
    <2>2. b * d \in Int
      BY <1>1 DEF Positive
    <2> QED  BY <1>0, <1>1, <2>1, <2>2 DEF Positive
  <1>4. d \in 0 .. a - 1
    BY <1>1, <1>2, <1>3 DEF Positive
  <1>5. p = d * b + m
    <2>1. b * d = d * b
      BY <1>1 DEF Positive
    <2> QED  BY <1>1, <2>1
  <1> QED  BY <1>1, <1>4, <1>5 DEF d, m

LEMMA ThreeDigits ==
  ASSUME NEW a \in Positive, NEW b \in Positive, NEW c \in Positive,
         NEW x \in 0 .. a - 1, NEW y \in 0 .. b - 1, NEW z \in 0 .. c - 1
  PROVE  /\ (x * b + y) * c + z \in 0 .. a * b * c - 1
         /\ ((x * b + y) * c + z) \div (b * c) = x
         /\ (((x * b + y) * c + z) \div c) % b = y
         /\ (((x * b + y) * c + z) \div c) \div b = x
         /\ ((x * b + y) * c + z) % c = z
  <1> DEFINE q == x * b + y
             n == q * c + z
             r == y * c + z
  <1>0. a * b \in Positive /\ b * c \in Positive
    BY DEF Positive
  <1>1. q \in 0 .. a * b - 1 /\ q \div b = x /\ q % b = y
    BY TwoDigits
  <1>2. q \in Int
    BY <1>0, <1>1 DEF Positive
  <1>3. n = x * (b * c) + r
    BY DEF Positive
  <1>4. r \in 0 .. b * c - 1
    BY TwoDigits
  <1> HIDE DEF q
  <1>5. n \in 0 .. a * b * c - 1 /\ n \div c = q /\ n % c = z
    BY <1>0, <1>1, TwoDigits
  <1> HIDE DEF r
  <1>6. n \in Int
    BY <1>2 DEF Positive
  <1> HIDE DEF n
  <1>7. n \div (b * c) = x
    BY <1>0, <1>3, <1>4, <1>6, DivisionWithRemainder
  <1> QED  BY <1>1, <1>5, <1>7 DEF n, q

LEMMA DigitsOfThree ==
  ASSUME NEW a \in Positive, NEW b \in Positive, NEW c \in Positive, NEW p \in 0 .. a * b * c - 1
  PROVE  /\ p \div (b * c) \in 0 .. a - 1
         /\ (p \div c) % b \in 0 .. b - 1
         /\ p % c \in 0 .. c - 1
         /\ p = ((p \div (b * c)) * b + ((p \div c) % b)) * c + (p % c)
  <1> DEFINE q == p \div c
             z == p % c
             x == q \div b
             y == q % b
  <1>0. a * b \in Positive
    BY DEF Positive
  <1>1. q \in 0 .. a * b - 1 /\ z \in 0 .. c - 1 /\ p = q * c + z
    BY <1>0, DigitsOfTwo
  <1> HIDE DEF q, z
  <1>2. x \in 0 .. a - 1 /\ y \in 0 .. b - 1 /\ q = x * b + y
    BY <1>1, DigitsOfTwo
  <1> HIDE DEF x, y
  <1>3. p = (x * b + y) * c + z
    BY <1>1, <1>2
  <1>4. p \div (b * c) = x
    BY <1>1, <1>2, <1>3, ThreeDigits
  <1> QED  BY <1>1, <1>2, <1>3, <1>4 DEF q, z, y

LEMMA FourDigits ==
  ASSUME NEW a \in Positive, NEW b \in Positive, NEW c \in Positive, NEW d \in Positive,
         NEW w \in 0 .. a - 1, NEW x \in 0 .. b - 1, NEW y \in 0 .. c - 1, NEW z \in 0 .. d - 1
  PROVE  LET n == ((w * b + x) * c + y) * d + z IN
         /\ n \in 0 .. a * b * c * d - 1
         /\ n \div (b * c * d) = w
         /\ (n \div (c * d)) % b = x
         /\ (n \div d) % c = y
         /\ n % d = z
  <1> DEFINE u == w * b + x
             q == u * c + y
             n == q * d + z
             r == y * d + z
             t == (x * c + y) * d + z
  <1>0. a * b \in Positive /\ c * d \in Positive /\ b * c \in Positive
    BY DEF Positive
  <1>1. (a * b) * c \in Positive /\ (b * c) * d \in Positive
    BY <1>0 DEF Positive
  <1>2. q \in 0 .. a * b * c - 1 /\ q % c = y
    BY ThreeDigits
  <1>3. u \in 0 .. a * b - 1 /\ u % b = x
    BY TwoDigits
  <1>4. r \in 0 .. c * d - 1
    BY TwoDigits
  <1>5. t \in 0 .. b * c * d - 1
    BY ThreeDigits
  <1>6. n = u * (c * d) + r
    <2>1. u \in Int
      BY <1>0, <1>3 DEF Positive
    <2> HIDE DEF u
    <2> QED  BY <2>1 DEF Positive
  <1>7. n = w * (b * c * d) + t
    BY DEF Positive
  <1>8. q \in Int /\ u \in Int
    BY <1>0, <1>1, <1>2, <1>3 DEF Positive
  <1> HIDE DEF q, u
  <1>9. n \in 0 .. a * b * c * d - 1 /\ n \div d = q /\ n % d = z
    BY <1>1, <1>2, TwoDigits
  <1>10. n \in Int
    BY <1>8 DEF Positive
  <1> HIDE DEF n, r, t
  <1>11. n \div (c * d) = u
    BY <1>0, <1>4, <1>6, <1>8, <1>10, DivisionWithRemainder
  <1>12. n \div (b * c * d) = w
    BY <1>1, <1>5, <1>7, <1>10, DivisionWithRemainder
  <1> QED  BY <1>2, <1>3, <1>9, <1>11, <1>12 DEF n, q, u

\* What Volume multiplies up, axis by axis.
LEMMA PartialVolumes ==
  ASSUME NEW s, Len(s) \in Nat, NEW g,
         g = [k \in 0 .. Len(s) |-> IF k = 0 THEN 1 ELSE g[k - 1] * s[k]]
  PROVE  \E f : /\ Volume(s) = f[Len(s)]
                /\ f[0] = 1
                /\ \A k \in 1 .. Len(s) : f[k] = f[k - 1] * s[k]
  <1> DEFINE P(f) == f = [k \in 0 .. Len(s) |-> IF k = 0 THEN 1 ELSE f[k - 1] * s[k]]
             f == CHOOSE f : P(f)
  <1>1. P(g)
    OBVIOUS
  <1>2. P(f)
    <2> HIDE DEF P
    <2> QED  BY <1>1
  <1>3. Volume(s) = f[Len(s)]
    BY DEF Volume
  <1> HIDE DEF f
  <1>4. f[0] = 1 /\ \A k \in 1 .. Len(s) : f[k] = f[k - 1] * s[k]
    BY <1>2
  <1> QED  BY <1>3, <1>4

LEMMA Volume4 ==
  ASSUME NEW a \in Nat, NEW b \in Nat, NEW c \in Nat, NEW d \in Nat
  PROVE  Volume(<<a, b, c, d>>) = a * b * c * d
  <1> DEFINE s == <<a, b, c, d>>
             g == [k \in 0 .. 4 |-> IF k = 0 THEN 1 ELSE IF k = 1 THEN a
                                    ELSE IF k = 2 THEN a * b
                                    ELSE IF k = 3 THEN a * b * c ELSE a * b * c * d]
  <1>1. Len(s) = 4 /\ s[1] = a /\ s[2] = b /\ s[3] = c /\ s[4] = d
    OBVIOUS
  <1>2. g = [k \in 0 .. 4 |-> IF k = 0 THEN 1 ELSE g[k - 1] * s[k]]
    BY <1>1
  <1> HIDE DEF s, g
  <1>3. PICK f : /\ Volume(s) = f[4] /\ f[0] = 1
                 /\ \A k \in 1 .. 4 : f[k] = f[k - 1] * s[k]
    <2>1. Len(s) \in Nat /\ g = [k \in 0 .. Len(s) |-> IF k = 0 THEN 1 ELSE g[k - 1] * s[k]]
      BY <1>1, <1>2
    <2>2. \E f : /\ Volume(s) = f[Len(s)] /\ f[0] = 1
                 /\ \A k \in 1 .. Len(s) : f[k] = f[k - 1] * s[k]
      BY <2>1, PartialVolumes
    <2> QED  BY <1>1, <2>2
  <1>4. f[1] = f[0] * a /\ f[2] = f[1] * b /\ f[3] = f[2] * c /\ f[4] = f[3] * d
    BY <1>1, <1>3
  <1> QED  BY <1>3, <1>4 DEF s

LEMMA Volume3 ==
  ASSUME NEW a \in Nat, NEW b \in Nat, NEW c \in Nat
  PROVE  Volume(<<a, b, c>>) = a * b * c
  <1> DEFINE s == <<a, b, c>>
             g == [k \in 0 .. 3 |-> IF k = 0 THEN 1
                                    ELSE IF k = 1 THEN a
                                    ELSE IF k = 2 THEN a * b ELSE a * b * c]
  <1>1. Len(s) = 3 /\ s[1] = a /\ s[2] = b /\ s[3] = c
    OBVIOUS
  <1>2. g = [k \in 0 .. 3 |-> IF k = 0 THEN 1 ELSE g[k - 1] * s[k]]
    BY <1>1
  <1> HIDE DEF s, g
  <1>3. PICK f : /\ Volume(s) = f[3] /\ f[0] = 1
                 /\ \A k \in 1 .. 3 : f[k] = f[k - 1] * s[k]
    BY <1>1, <1>2, PartialVolumes
  <1>4. f[1] = f[0] * a /\ f[2] = f[1] * b /\ f[3] = f[2] * c
    BY <1>1, <1>3
  <1> QED  BY <1>3, <1>4 DEF s

LEMMA Volume2 ==
  ASSUME NEW a \in Nat, NEW b \in Nat
  PROVE  Volume(<<a, b>>) = a * b
  <1> DEFINE s == <<a, b>>
             g == [k \in 0 .. 2 |-> IF k = 0 THEN 1 ELSE IF k = 1 THEN a ELSE a * b]
  <1>1. Len(s) = 2 /\ s[1] = a /\ s[2] = b
    OBVIOUS
  <1>2. g = [k \in 0 .. 2 |-> IF k = 0 THEN 1 ELSE g[k - 1] * s[k]]
    BY <1>1
  <1> HIDE DEF s, g
  <1>3. PICK f : /\ Volume(s) = f[2] /\ f[0] = 1
                 /\ \A k \in 1 .. 2 : f[k] = f[k - 1] * s[k]
    BY <1>1, <1>2, PartialVolumes
  <1>4. f[1] = f[0] * a /\ f[2] = f[1] * b
    BY <1>1, <1>3
  <1> QED  BY <1>3, <1>4 DEF s

LEMMA Volume1 ==
  ASSUME NEW a \in Nat
  PROVE  Volume(<<a>>) = a
  <1> DEFINE s == <<a>>
             g == [k \in 0 .. 1 |-> IF k = 0 THEN 1 ELSE a]
  <1>1. Len(s) = 1 /\ s[1] = a
    OBVIOUS
  <1>2. g = [k \in 0 .. 1 |-> IF k = 0 THEN 1 ELSE g[k - 1] * s[k]]
    BY <1>1
  <1> HIDE DEF s, g
  <1>3. PICK f : /\ Volume(s) = f[1] /\ f[0] = 1
                 /\ \A k \in 1 .. 1 : f[k] = f[k - 1] * s[k]
    BY <1>1, <1>2, PartialVolumes
  <1>4. f[1] = f[0] * a
    BY <1>1, <1>3
  <1> QED  BY <1>3, <1>4 DEF s


LEMMA Volume0 == Volume(<< >>) = 1
  <1> DEFINE s == << >>
             g == [k \in 0 .. 0 |-> 1]
  <1>1. Len(s) = 0
    OBVIOUS
  <1>2. g = [k \in 0 .. 0 |-> IF k = 0 THEN 1 ELSE g[k - 1] * s[k]]
    OBVIOUS
  <1> HIDE DEF s, g
  <1>3. PICK f : Volume(s) = f[0] /\ f[0] = 1
    BY <1>1, <1>2, PartialVolumes
  <1> QED  BY <1>3 DEF s

(***************************************************************************)
(* The shapes of Keras's arrays, and their three axes.                     *)
(***************************************************************************)
Shapes == {s \in Seq(Positive) : Len(s) \in 1 .. 3}
Chans(s) == s[Len(s)]
Cols(s) == IF Len(s) = 1 THEN 1 ELSE s[Len(s) - 1]
Rows(s) == IF Len(s) = 3 THEN s[1] ELSE 1

LEMMA ShapeCases ==
  ASSUME NEW s \in Shapes
  PROVE  \/ \E c \in Positive : s = <<c>>
         \/ \E w, c \in Positive : s = <<w, c>>
         \/ \E h, w, c \in Positive : s = <<h, w, c>>
  <1>1. s \in Seq(Positive) /\ Len(s) \in 1 .. 3
    BY DEF Shapes
  <1>2. CASE Len(s) = 1
    <2>1. 1 \in 1 .. Len(s) /\ s = <<s[1]>>
      BY <1>1, <1>2
    <2>2. s[1] \in Positive
      BY <1>1, <2>1
    <2> QED  BY <2>1, <2>2
  <1>3. CASE Len(s) = 2
    <2>1. 1 \in 1 .. Len(s) /\ 2 \in 1 .. Len(s) /\ s = <<s[1], s[2]>>
      BY <1>1, <1>3
    <2>2. s[1] \in Positive /\ s[2] \in Positive
      BY <1>1, <2>1
    <2> QED  BY <2>1, <2>2
  <1>4. CASE Len(s) = 3
    <2>1. 1 \in 1 .. Len(s) /\ 2 \in 1 .. Len(s) /\ 3 \in 1 .. Len(s)
      BY <1>4
    <2>2. s[1] \in Positive /\ s[2] \in Positive /\ s[3] \in Positive
      BY <1>1, <2>1
    <2>3. s = <<s[1], s[2], s[3]>>
      BY <1>1, <1>4
    <2> QED  BY <2>2, <2>3
  <1> QED  BY <1>1, <1>2, <1>3, <1>4

LEMMA IsShape ==
  ASSUME NEW h \in Positive, NEW w \in Positive, NEW c \in Positive
  PROVE  /\ <<c>> \in Shapes /\ Rows(<<c>>) = 1 /\ Cols(<<c>>) = 1 /\ Chans(<<c>>) = c
         /\ <<w, c>> \in Shapes /\ Rows(<<w, c>>) = 1 /\ Cols(<<w, c>>) = w /\ Chans(<<w, c>>) = c
         /\ <<h, w, c>> \in Shapes
         /\ Rows(<<h, w, c>>) = h /\ Cols(<<h, w, c>>) = w /\ Chans(<<h, w, c>>) = c
  BY DEF Shapes, Rows, Cols, Chans

LEMMA AxisOfThree ==
  ASSUME NEW s \in Shapes
  PROVE  ThreeAxes(s) = [k \in 1 .. 3 |-> IF k <= 3 - Len(s) THEN 1 ELSE s[k - (3 - Len(s))]]
  <1> DEFINE ones == <<1, 1, 1>>
             n == 3 - Len(s)
             o == SubSeq(ones, 1, n)
             x == o \o s
  <1>1. s \in Seq(Nat) /\ Len(s) \in 1 .. 3
    BY DEF Shapes, Positive
  <1>2. ones \in Seq(Nat) /\ Len(ones) = 3 /\ \A k \in 1 .. 3 : ones[k] = 1
    OBVIOUS
  <1> HIDE DEF ones
  <1>b. IsSeq(ones)
    BY <1>2, SeqIsSeq
  <1>c. n \in 0 .. 2
    <2>1. \A l \in 1 .. 3 : 3 - l \in 0 .. 2
      OBVIOUS
    <2> QED  BY <1>1, <2>1
  <1> HIDE DEF n
  <1>3. n \in 0 .. Len(ones) /\ n \in 0 .. 2
    BY <1>2, <1>c
  <1>a. IsSeq(o) /\ Len(o) = n /\ \A k \in 1 .. n : o[k] = ones[k]
    BY <1>3, <1>b, PrefixSeq
  <1>4. IsSeq(o) /\ Len(o) = n /\ \A k \in 1 .. n : o[k] = 1
    BY <1>2, <1>3, <1>a
  <1> HIDE DEF o
  <1>5. o \in Seq(Nat)
    BY <1>4, SeqOfItsElements
  <1>6. x \in Seq(Nat) /\ Len(x) = 3
    BY <1>1, <1>4, <1>5 DEF n
  <1>7. \A k \in 1 .. 3 : x[k] = IF k <= 3 - Len(s) THEN 1 ELSE s[k - (3 - Len(s))]
    BY <1>1, <1>4, <1>5 DEF n
  <1> HIDE DEF x
  <1>8. x = [k \in 1 .. 3 |-> x[k]]
    BY <1>6
  <1>9. x = [k \in 1 .. 3 |-> IF k <= 3 - Len(s) THEN 1 ELSE s[k - (3 - Len(s))]]
    BY <1>7, <1>8
  <1> QED  BY <1>9 DEF x, o, n, ones, ThreeAxes

LEMMA Triple ==
  ASSUME NEW x
  PROVE  [k \in 1 .. 3 |-> x[k]] = <<x[1], x[2], x[3]>>
  OBVIOUS

\* Every shape is that of an image whose missing axes are of size 1.
LEMMA ThreeAxesOf ==
  ASSUME NEW s \in Shapes
  PROVE  /\ Rows(s) \in Positive /\ Cols(s) \in Positive /\ Chans(s) \in Positive
         /\ ThreeAxes(s) = <<Rows(s), Cols(s), Chans(s)>>
         /\ Volume(s) = Rows(s) * Cols(s) * Chans(s)
         /\ Volume(s) \in Positive
  <1>0. s \in Seq(Positive) /\ Len(s) \in 1 .. 3
    BY DEF Shapes
  <1>t. ThreeAxes(s) = <<Rows(s), Cols(s), Chans(s)>>
    <2> DEFINE x == ThreeAxes(s)
    <2>1. /\ x = [k \in 1 .. 3 |-> x[k]]
          /\ \A k \in 1 .. 3 : x[k] = IF k <= 3 - Len(s) THEN 1 ELSE s[k - (3 - Len(s))]
      BY AxisOfThree
    <2> HIDE DEF x
    <2>2. x = <<x[1], x[2], x[3]>>
      BY <2>1, Triple
    <2>3. x[1] = Rows(s) /\ x[2] = Cols(s) /\ x[3] = Chans(s)
      <3>1. CASE Len(s) = 1
        BY <2>1, <3>1 DEF Rows, Cols, Chans
      <3>2. CASE Len(s) = 2
        BY <2>1, <3>2 DEF Rows, Cols, Chans
      <3>3. CASE Len(s) = 3
        BY <2>1, <3>3 DEF Rows, Cols, Chans
      <3> QED  BY <1>0, <3>1, <3>2, <3>3
    <2> QED  BY <2>2, <2>3 DEF x
  <1>1. ASSUME NEW c \in Positive, s = <<c>>
        PROVE  Rows(s) = 1 /\ Cols(s) = 1 /\ Chans(s) = c /\ Volume(s) = c
    <2>1. c \in Nat
      BY DEF Positive
    <2>2. Volume(s) = c
      BY <1>1, <2>1, Volume1
    <2>3. Len(s) = 1 /\ s[1] = c
      BY <1>1
    <2> QED  BY <2>2, <2>3 DEF Rows, Cols, Chans
  <1>2. ASSUME NEW w \in Positive, NEW c \in Positive, s = <<w, c>>
        PROVE  Rows(s) = 1 /\ Cols(s) = w /\ Chans(s) = c /\ Volume(s) = w * c
    <2>1. c \in Nat /\ w \in Nat
      BY DEF Positive
    <2>2. Volume(s) = w * c
      BY <1>2, <2>1, Volume2
    <2>3. Len(s) = 2 /\ s[1] = w /\ s[2] = c
      BY <1>2
    <2> QED  BY <2>2, <2>3 DEF Rows, Cols, Chans
  <1>3. ASSUME NEW h \in Positive, NEW w \in Positive, NEW c \in Positive, s = <<h, w, c>>
        PROVE  Rows(s) = h /\ Cols(s) = w /\ Chans(s) = c /\ Volume(s) = h * w * c
    <2>1. c \in Nat /\ w \in Nat /\ h \in Nat
      BY DEF Positive
    <2>2. Volume(s) = h * w * c
      BY <1>3, <2>1, Volume3
    <2>3. Len(s) = 3 /\ s[1] = h /\ s[2] = w /\ s[3] = c
      BY <1>3
    <2> QED  BY <2>2, <2>3 DEF Rows, Cols, Chans
  <1>4. 1 \in Positive
    BY DEF Positive
  <1>5. /\ Rows(s) \in Positive /\ Cols(s) \in Positive /\ Chans(s) \in Positive
        /\ Volume(s) = Rows(s) * Cols(s) * Chans(s)
    <2>1. CASE \E c \in Positive : s = <<c>>
      <3>1. PICK c \in Positive : s = <<c>>
        BY <2>1
      <3>2. c = 1 * 1 * c
        BY DEF Positive
      <3> QED  BY <1>1, <1>4, <3>1, <3>2
    <2>2. CASE \E w, c \in Positive : s = <<w, c>>
      <3>1. PICK w \in Positive, c \in Positive : s = <<w, c>>
        BY <2>2
      <3>2. w * c = 1 * w * c
        BY DEF Positive
      <3> QED  BY <1>2, <1>4, <3>1, <3>2
    <2>3. CASE \E h, w, c \in Positive : s = <<h, w, c>>
      BY <1>3, <2>3
    <2> QED  BY <2>1, <2>2, <2>3, ShapeCases
  <1>6. Rows(s) * Cols(s) * Chans(s) \in Positive
    <2> DEFINE a == Rows(s) * Cols(s)
    <2>1. a \in Positive
      BY <1>5 DEF Positive
    <2> HIDE DEF a
    <2>2. a * Chans(s) \in Positive
      BY <1>5, <2>1 DEF Positive
    <2> QED  BY <2>2 DEF a
  <1> QED  BY <1>t, <1>5, <1>6

\* The index of the cell (y, x, z) in an array of n axes, and its position.
Cell(n, y, x, z) == CASE n = 1 -> << z >> [] n = 2 -> <<x, z>> [] n = 3 -> <<y, x, z>>
Cells(s) == (0 .. Rows(s) - 1) \X (0 .. Cols(s) - 1) \X (0 .. Chans(s) - 1)
Pos(s, y, x, z) == (y * Cols(s) + x) * Chans(s) + z

\* Positions of cells and cells of positions.
LEMMA PosIsPosition ==
  ASSUME NEW s \in Shapes,
         NEW y \in 0 .. Rows(s) - 1, NEW x \in 0 .. Cols(s) - 1, NEW z \in 0 .. Chans(s) - 1
  PROVE  /\ Pos(s, y, x, z) \in 0 .. Volume(s) - 1
         /\ Pos(s, y, x, z) \in Nat
         /\ Pos(s, y, x, z) + 1 \in 1 .. Volume(s)
         /\ Pos(s, y, x, z) \div (Cols(s) * Chans(s)) = y
         /\ (Pos(s, y, x, z) \div Chans(s)) % Cols(s) = x
         /\ Pos(s, y, x, z) % Chans(s) = z
  <1>1. /\ Rows(s) \in Positive /\ Cols(s) \in Positive /\ Chans(s) \in Positive
        /\ Volume(s) = Rows(s) * Cols(s) * Chans(s) /\ Volume(s) \in Nat
    BY ThreeAxesOf DEF Positive
  <1>2. /\ Pos(s, y, x, z) \in 0 .. Volume(s) - 1
        /\ Pos(s, y, x, z) \div (Cols(s) * Chans(s)) = y
        /\ (Pos(s, y, x, z) \div Chans(s)) % Cols(s) = x
        /\ Pos(s, y, x, z) % Chans(s) = z
    BY <1>1, ThreeDigits DEF Pos
  <1>3. Pos(s, y, x, z) \in Nat /\ Pos(s, y, x, z) + 1 \in 1 .. Volume(s)
    BY <1>1, <1>2
  <1> QED  BY <1>2, <1>3

LEMMA PositionIsPos ==
  ASSUME NEW s \in Shapes, NEW p \in 0 .. Volume(s) - 1
  PROVE  \E y \in 0 .. Rows(s) - 1, x \in 0 .. Cols(s) - 1, z \in 0 .. Chans(s) - 1 :
           p = Pos(s, y, x, z)
  <1>1. /\ Rows(s) \in Positive /\ Cols(s) \in Positive /\ Chans(s) \in Positive
        /\ Volume(s) = Rows(s) * Cols(s) * Chans(s)
    BY ThreeAxesOf
  <1> DEFINE y == p \div (Cols(s) * Chans(s))
             x == (p \div Chans(s)) % Cols(s)
             z == p % Chans(s)
  <1>2. /\ y \in 0 .. Rows(s) - 1 /\ x \in 0 .. Cols(s) - 1 /\ z \in 0 .. Chans(s) - 1
        /\ p = (y * Cols(s) + x) * Chans(s) + z
    BY <1>1, DigitsOfThree
  <1> HIDE DEF y, x, z
  <1> QED  BY <1>2 DEF Pos

LEMMA Rest ==
  ASSUME NEW s \in Seq(Positive), NEW m \in 1 .. Len(s) + 1
  PROVE  SubSeq(s, m, Len(s)) = [i \in 1 .. Len(s) - m + 1 |-> s[i + m - 1]]
  OBVIOUS

\* Strides are the volumes of what is left of a shape.
LEMMA StrideOf ==
  ASSUME NEW s \in Seq(Positive), NEW k \in 1 .. Len(s),
         NEW r \in Seq(Positive), Len(r) = Len(s) - k, \A i \in 1 .. Len(r) : r[i] = s[i + k]
  PROVE  Stride(s, k) = Volume(r)
  <1>1. SubSeq(s, k + 1, Len(s)) = [i \in 1 .. Len(s) - (k + 1) + 1 |-> s[i + (k + 1) - 1]]
    BY Rest
  <1>2. Len(s) - (k + 1) + 1 = Len(r) /\ \A i \in 1 .. Len(r) : s[i + (k + 1) - 1] = r[i]
    OBVIOUS
  <1>3. SubSeq(s, k + 1, Len(s)) = [i \in 1 .. Len(r) |-> r[i]]
    BY <1>1, <1>2
  <1>4. r = [i \in 1 .. Len(r) |-> r[i]]
    OBVIOUS
  <1> QED  BY <1>3, <1>4 DEF Stride

LEMMA EmptyTail ==
  ASSUME NEW s \in Seq(Positive), NEW k \in 1 .. Len(s), k = Len(s)
  PROVE  Stride(s, k) = 1
  <1> DEFINE r == << >>
  <1>1. r \in Seq(Positive) /\ Len(r) = Len(s) - k /\ \A i \in 1 .. Len(r) : r[i] = s[i + k]
    OBVIOUS
  <1>2. Volume(r) = 1
    BY Volume0
  <1> HIDE DEF r
  <1> QED  BY <1>1, <1>2, StrideOf

LEMMA Strides1 ==
  ASSUME NEW c \in Positive, NEW s, s = <<c>>
  PROVE  Stride(s, 1) = 1
  <1>1. s \in Seq(Positive) /\ Len(s) = 1 /\ 1 \in 1 .. Len(s)
    OBVIOUS
  <1> QED  BY <1>1, EmptyTail

LEMMA Strides2 ==
  ASSUME NEW w \in Positive, NEW c \in Positive, NEW s, s = <<w, c>>
  PROVE  Stride(s, 1) = c /\ Stride(s, 2) = 1
  <1> DEFINE r == <<c>>
  <1>1. s \in Seq(Positive) /\ Len(s) = 2 /\ 1 \in 1 .. Len(s) /\ 2 \in 1 .. Len(s)
    OBVIOUS
  <1>2. r \in Seq(Positive) /\ Len(r) = Len(s) - 1 /\ \A i \in 1 .. Len(r) : r[i] = s[i + 1]
    OBVIOUS
  <1>3. Volume(r) = c
    BY Volume1 DEF Positive
  <1> HIDE DEF r
  <1>4. Stride(s, 1) = c
    BY <1>1, <1>2, <1>3, StrideOf
  <1>5. Stride(s, 2) = 1
    BY <1>1, EmptyTail
  <1> QED  BY <1>1, <1>4, <1>5

LEMMA Strides3 ==
  ASSUME NEW h \in Positive, NEW w \in Positive, NEW c \in Positive, NEW s, s = <<h, w, c>>
  PROVE  Stride(s, 1) = w * c /\ Stride(s, 2) = c /\ Stride(s, 3) = 1
  <1> DEFINE q == <<w, c>>
             r == <<c>>
  <1>1. /\ s \in Seq(Positive) /\ Len(s) = 3 /\ 1 \in 1 .. Len(s)
        /\ 2 \in 1 .. Len(s) /\ 3 \in 1 .. Len(s)
    OBVIOUS
  <1>2. q \in Seq(Positive) /\ Len(q) = Len(s) - 1 /\ \A i \in 1 .. Len(q) : q[i] = s[i + 1]
    OBVIOUS
  <1>3. r \in Seq(Positive) /\ Len(r) = Len(s) - 2 /\ \A i \in 1 .. Len(r) : r[i] = s[i + 2]
    OBVIOUS
  <1>4. w \in Nat /\ c \in Nat
    BY DEF Positive
  <1>5. Volume(q) = w * c /\ Volume(r) = c
    BY <1>4, Volume1, Volume2
  <1> HIDE DEF q, r
  <1>6. Stride(s, 1) = w * c
    <2>1. Stride(s, 1) = Volume(q)
      BY <1>1, <1>2, StrideOf
    <2> QED  BY <1>5, <2>1
  <1>7. Stride(s, 2) = c
    <2>1. Stride(s, 2) = Volume(r)
      BY <1>1, <1>3, StrideOf
    <2> QED  BY <1>5, <2>1
  <1>8. Stride(s, 3) = 1
    BY <1>1, EmptyTail
  <1> QED  BY <1>1, <1>6, <1>7, <1>8

LEMMA Strides4 ==
  ASSUME NEW n \in Positive, NEW h \in Positive, NEW w \in Positive, NEW c \in Positive,
         NEW s, s = <<n, h, w, c>>
  PROVE  /\ Stride(s, 1) = h * w * c /\ Stride(s, 2) = w * c
         /\ Stride(s, 3) = c /\ Stride(s, 4) = 1
  <1> DEFINE o == <<h, w, c>>
             q == <<w, c>>
             r == <<c>>
  <1>1. /\ s \in Seq(Positive) /\ Len(s) = 4 /\ 1 \in 1 .. Len(s)
        /\ 2 \in 1 .. Len(s) /\ 3 \in 1 .. Len(s) /\ 4 \in 1 .. Len(s)
    OBVIOUS
  <1>2. o \in Seq(Positive) /\ Len(o) = Len(s) - 1 /\ \A i \in 1 .. Len(o) : o[i] = s[i + 1]
    OBVIOUS
  <1>3. q \in Seq(Positive) /\ Len(q) = Len(s) - 2 /\ \A i \in 1 .. Len(q) : q[i] = s[i + 2]
    OBVIOUS
  <1>4. r \in Seq(Positive) /\ Len(r) = Len(s) - 3 /\ \A i \in 1 .. Len(r) : r[i] = s[i + 3]
    OBVIOUS
  <1>5. h \in Nat /\ w \in Nat /\ c \in Nat
    BY DEF Positive
  <1>6. Volume(o) = h * w * c /\ Volume(q) = w * c /\ Volume(r) = c
    BY <1>5, Volume1, Volume2, Volume3
  <1> HIDE DEF o, q, r
  <1>7. Stride(s, 1) = Volume(o)
    BY <1>1, <1>2, StrideOf
  <1>8. Stride(s, 2) = Volume(q)
    BY <1>1, <1>3, StrideOf
  <1>9. Stride(s, 3) = Volume(r)
    BY <1>1, <1>4, StrideOf
  <1>10. Stride(s, 4) = 1
    BY <1>1, EmptyTail
  <1> QED  BY <1>6, <1>7, <1>8, <1>9, <1>10

\* What PosOf adds up, axis by axis.
LEMMA PartialPositions ==
  ASSUME NEW s, Len(s) \in Nat, NEW i, NEW g,
         g = [k \in 0 .. Len(s) |-> IF k = 0 THEN 0 ELSE g[k - 1] * s[k] + i[k]]
  PROVE  \E f : /\ PosOf(s, i) = f[Len(s)]
                /\ f[0] = 0
                /\ \A k \in 1 .. Len(s) : f[k] = f[k - 1] * s[k] + i[k]
  <1> DEFINE P(f) == f = [k \in 0 .. Len(s) |-> IF k = 0 THEN 0 ELSE f[k - 1] * s[k] + i[k]]
             f == CHOOSE f : P(f)
  <1>1. P(g)
    OBVIOUS
  <1>2. P(f)
    <2> HIDE DEF P
    <2> QED  BY <1>1
  <1>3. PosOf(s, i) = f[Len(s)]
    BY DEF PosOf
  <1> HIDE DEF f
  <1>4. f[0] = 0 /\ \A k \in 1 .. Len(s) : f[k] = f[k - 1] * s[k] + i[k]
    BY <1>2
  <1> QED  BY <1>3, <1>4

LEMMA CellOf1 ==
  ASSUME NEW c \in Positive, NEW s, s = <<c>>, NEW z \in 0 .. c - 1
  PROVE  PosOf(s, << z >>) = z /\ IndexOf(s, z) = << z >>
  <1> DEFINE i == << z >>
             g == [k \in 0 .. 1 |-> IF k = 0 THEN 0 ELSE z]
  <1>1. Len(s) = 1 /\ s[1] = c /\ i[1] = z
    OBVIOUS
  <1>2. z \in Nat /\ z \div 1 = z /\ z % c = z
    <2>1. z \in Int /\ z = z * 1 + 0 /\ z = 0 * c + z /\ 1 \in Positive /\ 0 \in 0 .. 1 - 1
      BY DEF Positive
    <2> QED  BY <2>1, DivisionWithRemainder DEF Positive
  <1>3. g = [k \in 0 .. 1 |-> IF k = 0 THEN 0 ELSE g[k - 1] * s[k] + i[k]]
    BY <1>1, <1>2 DEF Positive
  <1> HIDE DEF g, i
  <1>4. PICK f : PosOf(s, i) = f[1] /\ f[0] = 0 /\ \A k \in 1 .. 1 : f[k] = f[k - 1] * s[k] + i[k]
    BY <1>1, <1>3, PartialPositions
  <1>5. f[1] = f[0] * c + z
    BY <1>1, <1>4
  <1>6. PosOf(s, i) = z
    BY <1>2, <1>4, <1>5 DEF Positive
  <1>7. IndexOf(s, z) = [k \in 1 .. 1 |-> (z \div Stride(s, k)) % s[k]]
    BY <1>1 DEF IndexOf
  <1>8. IndexOf(s, z) = << z >>
    <2>1. Stride(s, 1) = 1
      BY Strides1
    <2>2. \A k \in 1 .. 1 : (z \div Stride(s, k)) % s[k] = z
      BY <1>1, <1>2, <2>1
    <2>3. IndexOf(s, z) = [k \in 1 .. 1 |-> z]
      BY <1>7, <2>2
    <2> QED  BY <2>3
  <1> QED  BY <1>6, <1>8 DEF i

LEMMA CellOf2 ==
  ASSUME NEW w \in Positive, NEW c \in Positive, NEW s, s = <<w, c>>,
         NEW x \in 0 .. w - 1, NEW z \in 0 .. c - 1
  PROVE  PosOf(s, <<x, z>>) = x * c + z /\ IndexOf(s, x * c + z) = <<x, z>>
  <1> DEFINE i == <<x, z>>
             p == x * c + z
             g == [k \in 0 .. 2 |-> IF k = 0 THEN 0 ELSE IF k = 1 THEN x ELSE p]
  <1>1. Len(s) = 2 /\ s[1] = w /\ s[2] = c /\ i[1] = x /\ i[2] = z
    OBVIOUS
  <1>2. x \in Nat /\ x % w = x /\ p \in Int /\ p \div c = x /\ p % c = z /\ p \div 1 = p
    <2>1. x \in Int /\ x = 0 * w + x /\ 1 \in Positive /\ 0 \in 0 .. 1 - 1
      BY DEF Positive
    <2>2. p \in Int /\ p = p * 1 + 0
      BY <2>1 DEF Positive
    <2>3. p \div c = x /\ p % c = z
      BY TwoDigits
    <2>4. p \div 1 = p
      <3> HIDE DEF p
      <3> QED  BY <2>1, <2>2, DivisionWithRemainder
    <2>5. x % w = x
      BY <2>1, DivisionWithRemainder
    <2> QED  BY <2>1, <2>2, <2>3, <2>4, <2>5
  <1>3. g = [k \in 0 .. 2 |-> IF k = 0 THEN 0 ELSE g[k - 1] * s[k] + i[k]]
    BY <1>1, <1>2 DEF Positive
  <1> HIDE DEF g, i
  <1>4. PICK f : PosOf(s, i) = f[2] /\ f[0] = 0 /\ \A k \in 1 .. 2 : f[k] = f[k - 1] * s[k] + i[k]
    BY <1>1, <1>3, PartialPositions
  <1>5. f[1] = f[0] * w + x /\ f[2] = f[1] * c + z
    BY <1>1, <1>4
  <1>6. PosOf(s, i) = p
    BY <1>2, <1>4, <1>5 DEF Positive
  <1> HIDE DEF p
  <1>7. IndexOf(s, p) = [k \in 1 .. 2 |-> (p \div Stride(s, k)) % s[k]]
    BY <1>1 DEF IndexOf
  <1>8. IndexOf(s, p) = <<x, z>>
    <2>1. Stride(s, 1) = c /\ Stride(s, 2) = 1
      BY Strides2
    <2>2. \A k \in 1 .. 2 : (p \div Stride(s, k)) % s[k] = IF k = 1 THEN x ELSE z
      BY <1>1, <1>2, <2>1
    <2>3. IndexOf(s, p) = [k \in 1 .. 2 |-> IF k = 1 THEN x ELSE z]
      BY <1>7, <2>2
    <2> QED  BY <2>3
  <1> QED  BY <1>6, <1>8 DEF i, p

LEMMA CellOf3 ==
  ASSUME NEW h \in Positive, NEW w \in Positive, NEW c \in Positive, NEW s, s = <<h, w, c>>,
         NEW y \in 0 .. h - 1, NEW x \in 0 .. w - 1, NEW z \in 0 .. c - 1
  PROVE  /\ PosOf(s, <<y, x, z>>) = (y * w + x) * c + z
         /\ IndexOf(s, (y * w + x) * c + z) = <<y, x, z>>
  <1> DEFINE i == <<y, x, z>>
             p == (y * w + x) * c + z
             g == [k \in 0 .. 3 |-> IF k = 0 THEN 0 ELSE IF k = 1 THEN y
                                    ELSE IF k = 2 THEN y * w + x ELSE p]
  <1>1. /\ Len(s) = 3 /\ s[1] = h /\ s[2] = w /\ s[3] = c
        /\ i[1] = y /\ i[2] = x /\ i[3] = z
    OBVIOUS
  <1>2. /\ y \in Nat /\ y % h = y /\ p \in Int
        /\ p \div (w * c) = y /\ (p \div c) % w = x /\ p % c = z /\ p \div 1 = p
    <2>1. y \in Int /\ y = 0 * h + y /\ 1 \in Positive /\ 0 \in 0 .. 1 - 1
      BY DEF Positive
    <2>2. p \in Int
      BY DEF Positive
    <2>3. p \div (w * c) = y /\ (p \div c) % w = x /\ p % c = z
      BY ThreeDigits
    <2>4. p \div 1 = p
      <3> HIDE DEF p
      <3>1. p = p * 1 + 0
        BY <2>2
      <3> QED  BY <2>1, <2>2, <3>1, DivisionWithRemainder
    <2>5. y % h = y
      BY <2>1, DivisionWithRemainder
    <2>6. y \in Nat
      BY DEF Positive
    <2> QED  BY <2>2, <2>3, <2>4, <2>5, <2>6
  <1>3. g = [k \in 0 .. 3 |-> IF k = 0 THEN 0 ELSE g[k - 1] * s[k] + i[k]]
    BY <1>1, <1>2 DEF Positive
  <1> HIDE DEF g, i
  <1>4. PICK f : PosOf(s, i) = f[3] /\ f[0] = 0 /\ \A k \in 1 .. 3 : f[k] = f[k - 1] * s[k] + i[k]
    BY <1>1, <1>3, PartialPositions
  <1>5. f[1] = f[0] * h + y /\ f[2] = f[1] * w + x /\ f[3] = f[2] * c + z
    BY <1>1, <1>4
  <1>6. PosOf(s, i) = p
    <2>1. f[1] = y
      BY <1>2, <1>4, <1>5 DEF Positive
    <2> QED  BY <1>4, <1>5, <2>1
  <1> HIDE DEF p
  <1>7. IndexOf(s, p) = [k \in 1 .. 3 |-> (p \div Stride(s, k)) % s[k]]
    BY <1>1 DEF IndexOf
  <1>8. IndexOf(s, p) = <<y, x, z>>
    <2>1. Stride(s, 1) = w * c /\ Stride(s, 2) = c /\ Stride(s, 3) = 1
      BY Strides3
    <2>2. \A k \in 1 .. 3 :
            (p \div Stride(s, k)) % s[k] = IF k = 1 THEN y ELSE IF k = 2 THEN x ELSE z
      BY <1>1, <1>2, <2>1
    <2>3. IndexOf(s, p) = [k \in 1 .. 3 |-> IF k = 1 THEN y ELSE IF k = 2 THEN x ELSE z]
      BY <1>7, <2>2
    <2> QED  BY <2>3
  <1> QED  BY <1>6, <1>8 DEF i, p

LEMMA CellOf4 ==
  ASSUME NEW n \in Positive, NEW h \in Positive, NEW w \in Positive, NEW c \in Positive,
         NEW s, s = <<n, h, w, c>>,
         NEW m \in 0 .. n - 1, NEW y \in 0 .. h - 1, NEW x \in 0 .. w - 1, NEW z \in 0 .. c - 1
  PROVE  /\ PosOf(s, <<m, y, x, z>>) = ((m * h + y) * w + x) * c + z
         /\ IndexOf(s, ((m * h + y) * w + x) * c + z) = <<m, y, x, z>>
  <1> DEFINE i == <<m, y, x, z>>
             t == (m * h + y) * w + x
             p == t * c + z
             g == [k \in 0 .. 4 |-> IF k = 0 THEN 0 ELSE IF k = 1 THEN m
                                    ELSE IF k = 2 THEN m * h + y
                                    ELSE IF k = 3 THEN t ELSE p]
  <1>1. /\ Len(s) = 4 /\ s[1] = n /\ s[2] = h /\ s[3] = w /\ s[4] = c
        /\ i[1] = m /\ i[2] = y /\ i[3] = x /\ i[4] = z
    OBVIOUS
  <1>2. /\ m \in Nat /\ m % n = m /\ p \in Int /\ t \in Int
        /\ p \div (h * w * c) = m /\ (p \div (w * c)) % h = y
        /\ (p \div c) % w = x /\ p % c = z /\ p \div 1 = p
    <2>1. m \in Int /\ m = 0 * n + m /\ 1 \in Positive /\ 0 \in 0 .. 1 - 1
      BY DEF Positive
    <2>2. t \in Int
      BY DEF Positive
    <2>3. /\ p \div (h * w * c) = m /\ (p \div (w * c)) % h = y
          /\ (p \div c) % w = x /\ p % c = z
      BY FourDigits
    <2> HIDE DEF t
    <2>4. p \in Int
      BY <2>2 DEF Positive
    <2>5. p \div 1 = p
      <3> HIDE DEF p
      <3>1. p = p * 1 + 0
        BY <2>4
      <3> QED  BY <2>1, <2>4, <3>1, DivisionWithRemainder
    <2>6. m % n = m
      BY <2>1, DivisionWithRemainder
    <2>7. m \in Nat
      BY DEF Positive
    <2> QED  BY <2>2, <2>3, <2>4, <2>5, <2>6, <2>7
  <1>3. g = [k \in 0 .. 4 |-> IF k = 0 THEN 0 ELSE g[k - 1] * s[k] + i[k]]
    <2>1. 0 * n + m = m
      BY <1>2 DEF Positive
    <2> QED  BY <1>1, <2>1
  <1> HIDE DEF g, i
  <1>4. PICK f : PosOf(s, i) = f[4] /\ f[0] = 0 /\ \A k \in 1 .. 4 : f[k] = f[k - 1] * s[k] + i[k]
    <2> HIDE DEF p, t
    <2>1. /\ Len(s) \in Nat
          /\ g = [k \in 0 .. Len(s) |-> IF k = 0 THEN 0 ELSE g[k - 1] * s[k] + i[k]]
      BY <1>1, <1>3
    <2>2. \E f : /\ PosOf(s, i) = f[Len(s)] /\ f[0] = 0
                 /\ \A k \in 1 .. Len(s) : f[k] = f[k - 1] * s[k] + i[k]
      BY ONLY <2>1, PartialPositions
    <2> QED  BY <1>1, <2>2
  <1>5. /\ f[1] = f[0] * n + m /\ f[2] = f[1] * h + y
        /\ f[3] = f[2] * w + x /\ f[4] = f[3] * c + z
    BY <1>1, <1>4
  <1>6. PosOf(s, i) = p
    <2>1. f[1] = m
      BY <1>2, <1>4, <1>5 DEF Positive
    <2> QED  BY <1>4, <1>5, <2>1
  <1> HIDE DEF p, t
  <1>7. IndexOf(s, p) = [k \in 1 .. 4 |-> (p \div Stride(s, k)) % s[k]]
    BY <1>1 DEF IndexOf
  <1>8. IndexOf(s, p) = <<m, y, x, z>>
    <2>1. /\ Stride(s, 1) = h * w * c /\ Stride(s, 2) = w * c
          /\ Stride(s, 3) = c /\ Stride(s, 4) = 1
      BY Strides4
    <2>2. \A k \in 1 .. 4 :
            (p \div Stride(s, k)) % s[k]
              = IF k = 1 THEN m ELSE IF k = 2 THEN y ELSE IF k = 3 THEN x ELSE z
      BY <1>1, <1>2, <2>1
    <2>3. IndexOf(s, p)
            = [k \in 1 .. 4 |-> IF k = 1 THEN m ELSE IF k = 2 THEN y ELSE IF k = 3 THEN x ELSE z]
      BY <1>7, <2>2
    <2> QED  BY <2>3
  <1> QED  BY <1>6, <1>8 DEF i, p, t

\* The index of a cell and its position, whatever the rank.
LEMMA CellOfPos ==
  ASSUME NEW s \in Shapes,
         NEW y \in 0 .. Rows(s) - 1, NEW x \in 0 .. Cols(s) - 1, NEW z \in 0 .. Chans(s) - 1
  PROVE  /\ PosOf(s, Cell(Len(s), y, x, z)) = Pos(s, y, x, z)
         /\ IndexOf(s, Pos(s, y, x, z)) = Cell(Len(s), y, x, z)
  <1>1. CASE \E c \in Positive : s = <<c>>
    <2>1. PICK c \in Positive : s = <<c>>
      BY <1>1
    <2>2. Rows(s) = 1 /\ Cols(s) = 1 /\ Chans(s) = c /\ Len(s) = 1
      <3>1. Len(s) = 1 /\ s[1] = c
        BY <2>1
      <3> QED  BY <3>1 DEF Rows, Cols, Chans
    <2>3. y = 0 /\ x = 0 /\ z \in 0 .. c - 1
      BY <2>2
    <2>4. Pos(s, y, x, z) = z
      BY <2>2, <2>3 DEF Pos, Positive
    <2>5. Cell(1, y, x, z) = << z >>
      BY DEF Cell
    <2> QED  BY <2>1, <2>2, <2>3, <2>4, <2>5, CellOf1
  <1>2. CASE \E w, c \in Positive : s = <<w, c>>
    <2>1. PICK w \in Positive, c \in Positive : s = <<w, c>>
      BY <1>2
    <2>2. Rows(s) = 1 /\ Cols(s) = w /\ Chans(s) = c /\ Len(s) = 2
      <3>1. Len(s) = 2 /\ s[1] = w /\ s[2] = c
        BY <2>1
      <3> QED  BY <3>1 DEF Rows, Cols, Chans
    <2>3. y = 0 /\ x \in 0 .. w - 1 /\ z \in 0 .. c - 1
      BY <2>2
    <2>4. Pos(s, y, x, z) = x * c + z
      BY <2>2, <2>3 DEF Pos, Positive
    <2>5. Cell(2, y, x, z) = <<x, z>>
      BY DEF Cell
    <2> QED  BY <2>1, <2>2, <2>3, <2>4, <2>5, CellOf2
  <1>3. CASE \E h, w, c \in Positive : s = <<h, w, c>>
    <2>1. PICK h \in Positive, w \in Positive, c \in Positive : s = <<h, w, c>>
      BY <1>3
    <2>2. Rows(s) = h /\ Cols(s) = w /\ Chans(s) = c /\ Len(s) = 3
      BY <2>1 DEF Rows, Cols, Chans
    <2>3. y \in 0 .. h - 1 /\ x \in 0 .. w - 1 /\ z \in 0 .. c - 1
      BY <2>2
    <2>4. Pos(s, y, x, z) = (y * w + x) * c + z
      BY <2>2 DEF Pos
    <2>5. Cell(3, y, x, z) = <<y, x, z>>
      BY DEF Cell
    <2> QED  BY <2>1, <2>2, <2>3, <2>4, <2>5, CellOf3
  <1> QED  BY <1>1, <1>2, <1>3, ShapeCases

Val(a, y, x, z) == a.values[Pos(a.shape, y, x, z) + 1]

\* The position in a tensor of d channels, and the channels' positions in it.
LEMMA TensorPosition ==
  ASSUME NEW d \in Positive, NEW h \in Positive, NEW w \in Positive,
         NEW z \in 0 .. d - 1, NEW y \in 0 .. h - 1, NEW x \in 0 .. w - 1
  PROVE  LET p == (z * h + y) * w + x + 1 IN
         /\ p \in 1 .. d * h * w
         /\ (p - 1) \div (h * w) = z
         /\ ((p - 1) \div w) % h = y
         /\ (p - 1) % w = x
         /\ (p - 1) % (h * w) = y * w + x
  <1> DEFINE q == (z * h + y) * w + x
             r == y * w + x
             n == h * w
  <1>1. /\ q \in 0 .. d * h * w - 1 /\ q \div n = z /\ (q \div w) % h = y /\ q % w = x
    BY ThreeDigits
  <1>2. q = z * n + r
    BY DEF Positive
  <1>3. r \in 0 .. n - 1
    BY TwoDigits
  <1>4. n \in Positive /\ d * h * w \in Nat /\ z \in Int
    BY DEF Positive
  <1> HIDE DEF q, r, n
  <1>5. q \in Int /\ (q + 1) - 1 = q /\ q + 1 \in 1 .. d * h * w
    BY <1>1, <1>4
  <1>6. q % n = r
    BY <1>2, <1>3, <1>4, <1>5, DivisionWithRemainder
  <1> QED  BY <1>1, <1>5, <1>6 DEF q, r, n

LEMMA PositionInTensor ==
  ASSUME NEW d \in Positive, NEW h \in Positive, NEW w \in Positive, NEW p \in 1 .. d * h * w
  PROVE  \E z \in 0 .. d - 1, y \in 0 .. h - 1, x \in 0 .. w - 1 : p = (z * h + y) * w + x + 1
  <1> DEFINE q == p - 1
             z == q \div (h * w)
             y == (q \div w) % h
             x == q % w
  <1>1. d * h * w \in Nat
    BY DEF Positive
  <1>2. q \in 0 .. d * h * w - 1
    BY <1>1
  <1> HIDE DEF q
  <1>3. z \in 0 .. d - 1 /\ y \in 0 .. h - 1 /\ x \in 0 .. w - 1 /\ q = (z * h + y) * w + x
    BY <1>2, DigitsOfThree
  <1> HIDE DEF z, y, x
  <1>4. p = q + 1
    BY <1>1 DEF q
  <1> QED  BY <1>3, <1>4
=============================================================================
