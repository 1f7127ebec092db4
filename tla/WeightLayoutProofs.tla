-------------------------- MODULE WeightLayoutProofs --------------------------
(***************************************************************************)
(* Every layer Keras can build, trained on whatever input it takes, is     *)
(* exported, loaded and applied without a count that is checked on the way *)
(* being wrong, and yields what TensorFlow defines.                        *)
(*                                                                         *)
(* The invariant says that everything is what the step before made of what *)
(* was there.  From it the output is compared with Keras's, kind by kind   *)
(* of layer: along each axis the code's windows are where the backend has  *)
(* them, every weight comes to stand where the loader takes it from, and a *)
(* row of weights times a column of cells is the sum over the window.      *)
(***************************************************************************)
EXTENDS WeightLayout, ArrayProofs

(***************************************************************************)
(* The geometry along one axis, as the code computes it from the dilated   *)
(* window and as TensorFlow defines it.                                    *)
(***************************************************************************)
\* A window of the given size fits, unless there is padding.
IsAxis(axis) ==
  /\ axis.size \in Positive /\ axis.window \in Positive /\ axis.spread \in Positive
  /\ axis.step \in Positive /\ axis.step < 1000
  /\ axis.padding \in Paddings
  /\ axis.padding = "valid" => (axis.window - 1) * axis.spread + 1 <= axis.size

\* How many cells a window of so many taps reaches over, so far apart.
Reach(window, spread) == (window - 1) * spread + 1
Extent(axis) == Reach(axis.window, axis.spread)

LEMMA ExtentIs ==
  ASSUME NEW axis, IsAxis(axis)
  PROVE  Extent(axis) \in Positive /\ Along(axis, FALSE)!Filter = Extent(axis)
  <1> DEFINE k == axis.window
             d == axis.spread
  <1>1. k \in Positive /\ d \in Positive
    BY DEF IsAxis
  <1>2. Along(axis, FALSE)!Filter = k + (k - 1) * (d - 1)
    BY DEF Along!Filter
  <1>3. Extent(axis) = (k - 1) * d + 1
    BY DEF Extent, Reach
  <1> HIDE DEF k, d
  <1>4. k + (k - 1) * (d - 1) = (k - 1) * d + 1
    BY <1>1 DEF Positive
  <1>5. (k - 1) * d + 1 \in Positive
    <2>1. (k - 1) * d \in Nat
      BY <1>1 DEF Positive
    <2> QED  BY <2>1 DEF Positive
  <1> QED  BY <1>2, <1>3, <1>4, <1>5

\* fplus::ceil(n / s - 0.001) is the ceiling.
LEMMA CeilIs ==
  ASSUME NEW n \in Int, NEW s \in Positive, s < 1000
  PROVE  -((s - 1000 * n) \div (1000 * s)) = (n + s - 1) \div s
  <1> DEFINE q == (n + s - 1) \div s
             r == (n + s - 1) % s
             a == s - 1000 * n
             d == 1000 * s
             t == 1001 * s - 1000 - 1000 * r
  <1>1. q \in Int /\ r \in 0 .. s - 1 /\ n + s - 1 = s * q + r
    BY DEF Positive
  <1> HIDE DEF q, r
  <1>2. t \in 0 .. d - 1 /\ d \in Positive
    BY <1>1 DEF Positive
  <1>3. a = (-q) * d + t
    <2>1. s * q \in Int /\ (-q) * (1000 * s) = -1000 * (s * q)
      BY <1>1 DEF Positive
    <2> QED  BY <1>1, <2>1 DEF Positive
  <1>4. a \in Int /\ -q \in Int
    BY <1>1 DEF Positive
  <1> HIDE DEF a, d, t
  <1>5. a \div d = -q
    BY <1>2, <1>3, <1>4, DivisionWithRemainder
  <1>6. -(a \div d) = q
    BY <1>1, <1>5
  <1> QED  BY <1>6 DEF a, d, q

\* Division by a stride, without division.
LEMMA QuotientOf ==
  ASSUME NEW n \in Nat, NEW s \in Positive
  PROVE  /\ n \div s \in Nat /\ n % s \in 0 .. s - 1
         /\ n = (n \div s) * s + (n % s)
         /\ (n + s - 1) \div s = IF n % s = 0 THEN n \div s ELSE n \div s + 1
         /\ (n + s) \div s = n \div s + 1
  <1> DEFINE q == n \div s
             r == n % s
  <1>1. q \in Int /\ r \in 0 .. s - 1 /\ n = q * s + r
    BY DEF Positive
  <1>2. q \in Nat
    BY DEF Positive
  <1> HIDE DEF q, r
  <1>3. q * s \in Int /\ (q + 1) * s = q * s + s /\ s \in Int
    BY <1>1 DEF Positive
  <1>4. (n + s) \div s = q + 1
    <2>1. n + s = (q + 1) * s + r /\ n + s \in Int /\ q + 1 \in Int
      BY <1>1, <1>3
    <2> QED  BY <1>1, <2>1, DivisionWithRemainder
  <1>5. CASE r = 0
    <2>1. n + s - 1 = q * s + (s - 1) /\ n + s - 1 \in Int /\ s - 1 \in 0 .. s - 1
      BY <1>1, <1>3, <1>5 DEF Positive
    <2>2. (n + s - 1) \div s = q
      BY <1>1, <2>1, DivisionWithRemainder
    <2> QED  BY <1>1, <1>2, <1>4, <1>5, <2>2 DEF q, r
  <1>6. CASE r # 0
    <2>1. n + s - 1 = (q + 1) * s + (r - 1) /\ n + s - 1 \in Int /\ r - 1 \in 0 .. s - 1
          /\ q + 1 \in Int
      BY <1>1, <1>3, <1>6 DEF Positive
    <2>2. (n + s - 1) \div s = q + 1
      BY <1>1, <2>1, DivisionWithRemainder
    <2> QED  BY <1>1, <1>2, <1>4, <1>6, <2>2 DEF q, r
  <1> QED  BY <1>5, <1>6

Out(axis) == Along(axis, FALSE)!TFOut
Pad(axis) == Along(axis, FALSE)!TFPadding
\* What the windows leave out of the padded input.
Left(axis) == axis.size + Pad(axis) - ((Out(axis) - 1) * axis.step + Extent(axis))

LEMMA OutAndPad ==
  ASSUME NEW axis, IsAxis(axis)
  PROVE  /\ axis.padding = "valid" =>
              Out(axis) = (axis.size - Extent(axis)) \div axis.step + 1 /\ Pad(axis) = 0
         /\ axis.padding = "same" =>
              /\ Out(axis) = (axis.size + axis.step - 1) \div axis.step
              /\ Pad(axis) = LET p == (Out(axis) - 1) * axis.step + Extent(axis) - axis.size IN
                             IF p >= 0 THEN p ELSE 0
  <1>1. Along(axis, FALSE)!Filter = Extent(axis) /\ Extent(axis) \in Positive
    BY ExtentIs
  <1>2. axis.padding = "valid" => ~(axis.size < Extent(axis))
    BY <1>1 DEF IsAxis, Extent, Reach, Positive
  <1>3. CASE axis.padding = "valid"
    BY <1>1, <1>2, <1>3 DEF Out, Pad, Along!TFOut, Along!TFPadding
  <1>4. CASE axis.padding = "same"
    <2>1. Out(axis) = (axis.size + axis.step - 1) \div axis.step
      BY <1>4 DEF Out, Along!TFOut
    <2>2. Pad(axis) = Along(axis, FALSE)!Larger((Out(axis) - 1) * axis.step
                                                  + Extent(axis) - axis.size, 0)
      BY <1>1, <1>4 DEF Out, Pad, Along!TFPadding
    <2>3. Pad(axis) = LET p == (Out(axis) - 1) * axis.step + Extent(axis) - axis.size IN
                      IF p >= 0 THEN p ELSE 0
      BY <2>2 DEF Along!Larger
    <2> QED  BY <1>4, <2>1, <2>3
  <1> QED  BY <1>3, <1>4 DEF IsAxis, Paddings

LEMMA WhatIsLeft ==
  ASSUME NEW axis, IsAxis(axis)
  PROVE  /\ Out(axis) \in Positive /\ Pad(axis) \in Nat
         /\ Left(axis) \in 0 .. axis.step - 1
  <1> DEFINE n == axis.size
             s == axis.step
             e == Extent(axis)
             o == Out(axis)
             p == Pad(axis)
             m == (o - 1) * s
  <1>1. n \in Positive /\ s \in Positive /\ e \in Positive
    BY ExtentIs DEF IsAxis
  <1>2. Left(axis) = n + p - (m + e)
    BY DEF Left
  <1>3. CASE axis.padding = "valid"
    <2>1. o = (n - e) \div s + 1 /\ p = 0 /\ e <= n
      BY <1>3, OutAndPad DEF IsAxis, Extent, Reach
    <2> HIDE DEF n, s, e, o, p
    <2>2. n - e \in Nat
      BY <1>1, <2>1 DEF Positive
    <2>3. /\ (n - e) \div s \in Nat /\ (n - e) % s \in 0 .. s - 1
          /\ n - e = ((n - e) \div s) * s + ((n - e) % s)
      BY <1>1, <2>2, QuotientOf
    <2>4. o \in Positive /\ o - 1 = (n - e) \div s
      BY <2>1, <2>3 DEF Positive
    <2>5. n - e = m + ((n - e) % s) /\ m \in Int
      BY <1>1, <2>3, <2>4 DEF Positive
    <2> HIDE DEF m
    <2>6. n + p - (m + e) \in 0 .. s - 1
      BY <1>1, <2>1, <2>3, <2>5 DEF Positive
    <2> QED  BY <1>2, <2>1, <2>4, <2>6 DEF n, s, e, o, p
  <1>4. CASE axis.padding = "same"
    <2>1. o = (n + s - 1) \div s /\ p = IF m + e - n >= 0 THEN m + e - n ELSE 0
      BY <1>4, OutAndPad
    <2> DEFINE q == n \div s
               r == n % s
    <2> HIDE DEF n, s, e, o, p
    <2>2. /\ q \in Nat /\ r \in 0 .. s - 1 /\ n = q * s + r
          /\ o = IF r = 0 THEN q ELSE q + 1
      BY <1>1, <2>1, QuotientOf DEF Positive
    <2> HIDE DEF q, r
    <2>3. o \in Positive
      BY <1>1, <2>2 DEF Positive
    <2>4. m \in Nat /\ n - m \in 1 .. s
      <3>1. CASE r = 0
        <4>1. m = q * s - s
          BY <1>1, <2>2, <3>1 DEF Positive
        <4>2. q >= 1
          BY <2>2, <2>3, <3>1 DEF Positive
        <4>3. q * s >= 1 * s /\ q * s \in Int
          BY <1>1, <2>2, <4>2 DEF Positive
        <4> QED  BY <1>1, <2>2, <3>1, <4>1, <4>3 DEF Positive
      <3>2. CASE r # 0
        <4>1. m = q * s /\ q * s \in Nat
          BY <1>1, <2>2, <3>2 DEF Positive
        <4> QED  BY <1>1, <2>2, <3>2, <4>1 DEF Positive
      <3> QED  BY <3>1, <3>2
    <2> HIDE DEF m
    <2>5. p \in Nat /\ n + p - (m + e) \in 0 .. s - 1
      BY <1>1, <2>1, <2>4 DEF Positive
    <2> QED  BY <1>2, <2>3, <2>5 DEF n, s, e, o, p
  <1> QED  BY <1>3, <1>4 DEF IsAxis, Paddings

\* The axis the code computes with: its window is dilated already.
Dilated(axis) == Axis(axis.size, Extent(axis), 1, axis.step, axis.padding)

LEMMA DilatedIs ==
  ASSUME NEW axis, IsAxis(axis), NEW u
  PROVE  LET c == Dilated(axis) IN
         /\ c.size = axis.size /\ c.step = axis.step /\ c.padding = axis.padding
         /\ Along(c, u)!Filter = Extent(axis)
  <1>1. Extent(axis) \in Positive
    BY ExtentIs
  <1> DEFINE c == Dilated(axis)
             e == Extent(axis)
  <1> HIDE DEF e
  <1>2. c.window = e /\ c.spread = 1
    BY DEF Dilated, Axis, e
  <1>3. Along(c, u)!Filter = c.window + (c.window - 1) * (c.spread - 1)
    BY DEF Along!Filter
  <1>4. (e - 1) * (1 - 1) = 0
    BY <1>1 DEF e, Positive
  <1>5. Along(c, u)!Filter = e
    BY <1>1, <1>2, <1>3, <1>4 DEF e, Positive
  <1>6. c.size = axis.size /\ c.step = axis.step /\ c.padding = axis.padding
    BY DEF Dilated, Axis
  <1> QED  BY <1>5, <1>6 DEF e

LEMMA SizeIs ==
  ASSUME NEW axis, IsAxis(axis), NEW u
  PROVE  Along(Dilated(axis), u)!OutSize = Out(axis)
  <1> DEFINE c == Dilated(axis)
             e == Extent(axis)
             n == axis.size
             s == axis.step
  <1>1. /\ c.size = n /\ c.step = s /\ c.padding = axis.padding
        /\ Along(c, u)!Filter = e
    BY DilatedIs
  <1>2. n \in Positive /\ s \in Positive /\ s < 1000 /\ e \in Positive
    BY ExtentIs DEF IsAxis
  <1>o. Along(c, u)!OutSize = IF axis.padding = "same" THEN Along(c, u)!Ceil(n, s)
                              ELSE Along(c, u)!Ceil(n - e + 1, s)
    BY <1>1 DEF Along!OutSize
  <1> HIDE DEF c
  <1>3. CASE axis.padding = "valid"
    <2>1. Out(axis) = (n - e) \div s + 1 /\ e <= n
      BY <1>3, OutAndPad DEF IsAxis, Extent, Reach
    <2>2. Along(c, u)!OutSize = -((s - 1000 * (n - e + 1)) \div (1000 * s))
      BY <1>o, <1>3 DEF Along!Ceil
    <2> HIDE DEF e, n, s
    <2>3. n - e + 1 \in Int /\ n - e \in Nat
      BY <1>2, <2>1 DEF Positive
    <2>4. Along(c, u)!OutSize = (n - e + 1 + s - 1) \div s
      BY <1>2, <2>2, <2>3, CeilIs
    <2>5. n - e + 1 + s - 1 = (n - e) + s
      BY <1>2 DEF Positive
    <2>6. ((n - e) + s) \div s = (n - e) \div s + 1
      BY <1>2, <2>3, QuotientOf
    <2> QED  BY <2>1, <2>4, <2>5, <2>6 DEF c
  <1>4. CASE axis.padding = "same"
    <2>1. Out(axis) = (n + s - 1) \div s
      BY <1>4, OutAndPad
    <2>2. Along(c, u)!OutSize = -((s - 1000 * n) \div (1000 * s))
      BY <1>o, <1>4 DEF Along!Ceil
    <2> HIDE DEF e, n, s
    <2>3. Along(c, u)!OutSize = (n + s - 1) \div s
      BY <1>2, <2>2, CeilIs DEF Positive
    <2> QED  BY <2>1, <2>3 DEF c
  <1> QED  BY <1>3, <1>4 DEF IsAxis, Paddings

LEMMA PaddingIs ==
  ASSUME NEW axis, IsAxis(axis), NEW u
  PROVE  Along(Dilated(axis), u)!PadAlong = Pad(axis)
  <1> DEFINE c == Dilated(axis)
             e == Extent(axis)
             n == axis.size
             s == axis.step
             o == Out(axis)
             q == n \div s
             r == n % s
  <1>1. /\ c.size = n /\ c.step = s /\ c.padding = axis.padding
        /\ Along(c, u)!Filter = e
    BY DilatedIs
  <1>2. n \in Positive /\ s \in Positive /\ e \in Positive
    BY ExtentIs DEF IsAxis
  <1>o. Along(c, u)!PadAlong = IF axis.padding = "valid" THEN 0
                               ELSE IF n % s = 0 THEN Along(c, u)!Larger(e - s, 0)
                               ELSE Along(c, u)!Larger(e - (n % s), 0)
    BY <1>1 DEF Along!PadAlong
  <1> HIDE DEF c
  <1>3. CASE axis.padding = "valid"
    BY <1>o, <1>3, OutAndPad DEF c
  <1>4. CASE axis.padding = "same"
    <2>1. /\ o = (n + s - 1) \div s
          /\ Pad(axis) = LET p == (o - 1) * s + e - n IN IF p >= 0 THEN p ELSE 0
      BY <1>4, OutAndPad
    <2>2. Along(c, u)!PadAlong = IF r = 0 THEN IF e - s >= 0 THEN e - s ELSE 0
                                 ELSE IF e - r >= 0 THEN e - r ELSE 0
      BY <1>o, <1>4 DEF Along!Larger
    <2> HIDE DEF e, n, s, o, q, r
    <2>3. q \in Nat /\ r \in 0 .. s - 1 /\ n = q * s + r /\ o = IF r = 0 THEN q ELSE q + 1
      BY <1>2, <2>1, QuotientOf DEF q, r, Positive
    <2>4. (q - 1) * s = q * s - s /\ (q + 1 - 1) * s = q * s /\ q * s \in Int
      BY <1>2, <2>3 DEF Positive
    <2>5. (o - 1) * s + e - n = IF r = 0 THEN e - s ELSE e - r
      BY <1>2, <2>3, <2>4 DEF Positive
    <2> QED  BY <2>1, <2>2, <2>5 DEF c
  <1> QED  BY <1>3, <1>4 DEF IsAxis, Paddings

\* The code plans the windows of TensorFlow, and centres them like the backend.
LEMMA PlanIs ==
  ASSUME NEW axis, IsAxis(axis), NEW u
  PROVE  LET p == Along(Dilated(axis), u)!Plan IN
         /\ p.out = Out(axis)
         /\ p.top = Pad(axis) \div 2
         /\ p.bottom = Pad(axis) - Pad(axis) \div 2
         /\ p.offset = IF u THEN Left(axis) \div 2 ELSE 0
  <1> DEFINE c == Dilated(axis)
             n == axis.size
             s == axis.step
             e == Extent(axis)
             o == Out(axis)
             g == Pad(axis)
             f == n + g - e
  <1>1. Along(c, u)!PadAlong = g
    BY PaddingIs
  <1>2. Along(c, u)!OutSize = o
    BY SizeIs
  <1>3. /\ c.size = n /\ c.step = s /\ Along(c, u)!Filter = e
    BY DilatedIs
  <1>4. Along(c, u)!Offset = IF u THEN Along(c, u)!CDiv(Along(c, u)!CMod(f, s), 2) ELSE 0
    BY <1>1, <1>3 DEF Along!Offset
  <1>5. /\ Along(c, u)!PadTop = g \div 2
        /\ Along(c, u)!PadBottom = g - g \div 2
    BY <1>1 DEF Along!PadTop, Along!PadBottom
  <1>6. Along(c, u)!Plan = [top |-> g \div 2, bottom |-> g - g \div 2,
                            offset |-> Along(c, u)!Offset, out |-> o]
    BY <1>2, <1>5 DEF Along!Plan
  <1>7. /\ n \in Positive /\ s \in Positive /\ e \in Positive /\ o \in Positive /\ g \in Nat
        /\ Left(axis) \in 0 .. s - 1 /\ Left(axis) = n + g - ((o - 1) * s + e)
    <2>1. n \in Positive /\ s \in Positive
      BY DEF IsAxis
    <2>2. e \in Positive
      BY ExtentIs
    <2>3. o \in Positive /\ g \in Nat /\ Left(axis) \in 0 .. s - 1
      BY WhatIsLeft
    <2>4. Left(axis) = n + g - ((o - 1) * s + e)
      BY DEF Left
    <2> QED  BY <2>1, <2>2, <2>3, <2>4
  <1>8. Along(c, u)!CDiv(Along(c, u)!CMod(f, s), 2) = Left(axis) \div 2
    <2>0. /\ Along(c, u)!CMod(f, s) = f - s * Along(c, u)!CDiv(f, s)
          /\ Along(c, u)!CDiv(f, s) = IF f >= 0 THEN f \div s ELSE -((-f) \div s)
          /\ \A a : Along(c, u)!CDiv(a, 2) = IF a >= 0 THEN a \div 2 ELSE -((-a) \div 2)
      BY DEF Along!CMod, Along!CDiv
    <2> DEFINE l == Left(axis)
               m == o - 1
    <2> HIDE DEF c, n, s, e, o, g, l
    <2>1. f = m * s + l /\ m \in Nat /\ l \in 0 .. s - 1 /\ m * s \in Nat /\ f \in Nat
      <3>1. m \in Nat /\ l \in 0 .. s - 1
        BY <1>7 DEF l, Positive
      <3>2. m * s \in Nat
        BY <1>7, <3>1 DEF Positive
      <3> DEFINE k == m * s
      <3> HIDE DEF k
      <3>3. l = n + g - (k + e) /\ k \in Nat
        BY <1>7, <3>2 DEF l, k
      <3>4. f = k + l /\ f \in Nat
        BY <1>7, <3>1, <3>3 DEF Positive
      <3> QED  BY <3>1, <3>2, <3>4 DEF k
    <2> HIDE DEF f, m
    <2>2. f \div s = m
      BY <1>7, <2>1, DivisionWithRemainder
    <2>3. f - s * m = l
      BY <1>7, <2>1 DEF Positive
    <2>4. Along(c, u)!CMod(f, s) = l
      BY <2>0, <2>1, <2>2, <2>3
    <2>5. Along(c, u)!CDiv(l, 2) = l \div 2
      BY <2>0, <2>1, <1>7 DEF Positive
    <2> QED  BY <2>4, <2>5 DEF c, n, s, e, o, g, l, f
  <1> HIDE DEF c, n, s, e, o, g, f
  <1>9. Along(c, u)!Offset = IF u THEN Left(axis) \div 2 ELSE 0
    BY <1>4, <1>8
  <1> QED  BY <1>6, <1>9 DEF c, n, s, e, o, g

\* No window leaves the padded input.
LEMMA WindowInside ==
  ASSUME NEW axis, IsAxis(axis), NEW f \in 0 .. Left(axis) \div 2,
         NEW w \in 0 .. Out(axis) - 1, NEW t \in 0 .. Extent(axis) - 1
  PROVE  /\ f + axis.step * w + t \in 0 .. axis.size + Pad(axis) - 1
         /\ f + axis.step * w + t \in Int
  <1> DEFINE n == axis.size
             s == axis.step
             e == Extent(axis)
             o == Out(axis)
             g == Pad(axis)
             l == Left(axis)
             m == s * (o - 1)
  <1>1. /\ n \in Positive /\ s \in Positive /\ e \in Positive /\ o \in Positive /\ g \in Nat
        /\ l \in 0 .. s - 1 /\ l = n + g - ((o - 1) * s + e)
    <2>1. n \in Positive /\ s \in Positive
      BY DEF IsAxis
    <2>2. e \in Positive
      BY ExtentIs
    <2>3. o \in Positive /\ g \in Nat /\ Left(axis) \in 0 .. s - 1
      BY WhatIsLeft
    <2>4. Left(axis) = n + g - ((o - 1) * s + e)
      BY DEF Left
    <2> QED  BY <2>1, <2>2, <2>3, <2>4
  <1>2. f \in 0 .. l \div 2 /\ w \in 0 .. o - 1 /\ t \in 0 .. e - 1
    OBVIOUS
  <1> HIDE DEF n, s, e, o, g, l
  <1>3. f \in Nat /\ f <= l
    BY <1>1, <1>2 DEF Positive
  <1>4. s * w \in Nat /\ s * w <= m /\ m \in Nat /\ m = (o - 1) * s
    <2>1. w \in Nat /\ o - 1 \in Nat /\ w <= o - 1
      BY <1>1, <1>2 DEF Positive
    <2> QED  BY <1>1, <2>1 DEF Positive
  <1> DEFINE k == s * w
  <1> HIDE DEF m, k
  <1>5. k \in Nat /\ k <= m /\ m \in Nat /\ l = n + g - (m + e)
    BY <1>1, <1>4 DEF k
  <1>6. f + k + t \in 0 .. n + g - 1 /\ f + k + t \in Int
    BY <1>1, <1>2, <1>3, <1>5 DEF Positive
  <1> QED  BY <1>6 DEF k, n, g, s

(***************************************************************************)
(* Weights on their way through swapaxes and flatten.                      *)
(***************************************************************************)
LEMMA DigitsOfFour ==
  ASSUME NEW a \in Positive, NEW b \in Positive, NEW c \in Positive, NEW d \in Positive,
         NEW p \in 0 .. a * b * c * d - 1
  PROVE  \E w \in 0 .. a - 1, x \in 0 .. b - 1, y \in 0 .. c - 1, z \in 0 .. d - 1 :
           p = ((w * b + x) * c + y) * d + z
  <1> DEFINE q == p \div d
             z == p % d
             v == a * b * c
  <1>1. v \in Positive
    <2>1. a * b \in Positive
      BY DEF Positive
    <2> QED  BY <2>1 DEF Positive
  <1>2. q \in 0 .. v - 1 /\ z \in 0 .. d - 1 /\ p = q * d + z
    <2> HIDE DEF v
    <2>1. p \in 0 .. v * d - 1
      BY DEF v
    <2> QED  BY <1>1, <2>1, DigitsOfTwo
  <1> HIDE DEF q, z
  <1> DEFINE w == q \div (b * c)
             x == (q \div c) % b
             y == q % c
  <1>3. w \in 0 .. a - 1 /\ x \in 0 .. b - 1 /\ y \in 0 .. c - 1 /\ q = (w * b + x) * c + y
    BY <1>2, DigitsOfThree
  <1> HIDE DEF w, x, y
  <1> QED  BY <1>2, <1>3

LEMMA SwapIs ==
  ASSUME NEW a, NEW i, NEW j
  PROVE  LET s == Swapped(a.shape, i, j) IN
         /\ SwapAxes(a, i, j).shape = s
         /\ SwapAxes(a, i, j).values
              = [p \in 1 .. Volume(s) |-> At(a, Swapped(IndexOf(s, p - 1), i, j))]
  BY DEF SwapAxes, Array

LEMMA SwapShape ==
  ASSUME NEW a, NEW i, NEW j
  PROVE  SwapAxes(a, i, j).shape = Swapped(a.shape, i, j)
  <1> DEFINE s == Swapped(a.shape, i, j)
             vs == [p \in 1 .. Volume(s) |-> At(a, Swapped(IndexOf(s, p - 1), i, j))]
  <1>1. SwapAxes(a, i, j) = [shape |-> s, values |-> vs]
    BY DEF SwapAxes, Array
  <1> HIDE DEF s, vs
  <1>2. SwapAxes(a, i, j).shape = s
    BY <1>1
  <1> QED  BY <1>2 DEF s

LEMMA SwapFour ==
  ASSUME NEW a, NEW i, NEW j, NEW k \in Positive, NEW l \in Positive, NEW m \in Positive,
         NEW n \in Positive, Swapped(a.shape, i, j) = <<k, l, m, n>>,
         NEW w \in 0 .. k - 1, NEW x \in 0 .. l - 1, NEW y \in 0 .. m - 1, NEW z \in 0 .. n - 1
  PROVE  At(SwapAxes(a, i, j), <<w, x, y, z>>) = At(a, Swapped(<<w, x, y, z>>, i, j))
  <1> DEFINE s == <<k, l, m, n>>
             b == SwapAxes(a, i, j)
             p == ((w * l + x) * m + y) * n + z
             I == <<w, x, y, z>>
  <1>1. PosOf(s, I) = p /\ IndexOf(s, p) = I
    BY CellOf4
  <1>2. p \in 0 .. k * l * m * n - 1
    BY FourDigits
  <1>3. Volume(s) = k * l * m * n /\ Volume(s) \in Nat
    <2>1. Volume(s) = k * l * m * n
      BY Volume4 DEF Positive
    <2>2. k * l \in Nat
      BY DEF Positive
    <2>3. (k * l) * m \in Nat
      BY <2>2 DEF Positive
    <2>4. (k * l * m) * n \in Nat
      BY <2>3 DEF Positive
    <2> QED  BY <2>1, <2>4
  <1>4. /\ b.shape = s
        /\ b.values = [q \in 1 .. Volume(s) |-> At(a, Swapped(IndexOf(s, q - 1), i, j))]
    BY SwapIs
  <1> HIDE DEF s, b, p, I
  <1>5. p + 1 \in 1 .. Volume(s) /\ (p + 1) - 1 = p
    BY <1>2, <1>3
  <1>6. b.values[p + 1] = At(a, Swapped(I, i, j))
    BY <1>1, <1>4, <1>5
  <1>7. At(b, I) = b.values[p + 1]
    BY <1>1, <1>4 DEF At
  <1> QED  BY <1>6, <1>7 DEF b, I

LEMMA SwapThree ==
  ASSUME NEW a, NEW i, NEW j, NEW l \in Positive, NEW m \in Positive,
         NEW n \in Positive, Swapped(a.shape, i, j) = <<l, m, n>>,
         NEW x \in 0 .. l - 1, NEW y \in 0 .. m - 1, NEW z \in 0 .. n - 1
  PROVE  At(SwapAxes(a, i, j), <<x, y, z>>) = At(a, Swapped(<<x, y, z>>, i, j))
  <1> DEFINE s == <<l, m, n>>
             b == SwapAxes(a, i, j)
             p == (x * m + y) * n + z
             I == <<x, y, z>>
  <1>1. PosOf(s, I) = p /\ IndexOf(s, p) = I
    BY CellOf3
  <1>2. p \in 0 .. l * m * n - 1
    BY ThreeDigits
  <1>3. Volume(s) = l * m * n /\ Volume(s) \in Nat
    <2>1. Volume(s) = l * m * n
      BY Volume3 DEF Positive
    <2>2. l * m \in Nat
      BY DEF Positive
    <2>3. (l * m) * n \in Nat
      BY <2>2 DEF Positive
    <2> QED  BY <2>1, <2>3
  <1>4. /\ b.shape = s
        /\ b.values = [q \in 1 .. Volume(s) |-> At(a, Swapped(IndexOf(s, q - 1), i, j))]
    BY SwapIs
  <1> HIDE DEF s, b, p, I
  <1>5. p + 1 \in 1 .. Volume(s) /\ (p + 1) - 1 = p
    BY <1>2, <1>3
  <1>6. b.values[p + 1] = At(a, Swapped(I, i, j))
    BY <1>1, <1>4, <1>5
  <1>7. At(b, I) = b.values[p + 1]
    BY <1>1, <1>4 DEF At
  <1> QED  BY <1>6, <1>7 DEF b, I

LEMMA SwappedFour ==
  ASSUME NEW w, NEW x, NEW y, NEW z
  PROVE  /\ Swapped(<<w, x, y, z>>, 1, 3) = <<y, x, w, z>>
         /\ Swapped(<<w, x, y, z>>, 2, 4) = <<w, z, y, x>>
         /\ Swapped(<<w, x, y, z>>, 1, 2) = <<x, w, y, z>>
  BY DEF Swapped

LEMMA SwappedThree ==
  ASSUME NEW x, NEW y, NEW z
  PROVE  Swapped(<<x, y, z>>, 1, 3) = <<z, y, x>>
  BY DEF Swapped

\* As many numbers.
Counted(v, n) == v \in Seq(Nat) /\ Len(v) = n

\* The weights of a Conv2D: filter by filter, channel by channel.
LEMMA WeightsOfConv2D ==
  ASSUME NEW t, NEW h \in Positive, NEW k \in Positive, NEW c \in Positive, NEW n \in Positive,
         t.shape = <<h, k, c, n>>
  PROVE  LET v == PrepareFilterWeightsConv2D(t) IN
         /\ v = [p \in 1 .. n * c * h * k |-> v[p]]
         /\ \A f \in 0 .. n - 1, z \in 0 .. c - 1, a \in 0 .. h - 1, b \in 0 .. k - 1 :
              v[((f * c + z) * h + a) * k + b + 1] = At(t, <<a, b, z, f>>)
  <1> DEFINE q == SwapAxes(t, 1, 3)
             r == SwapAxes(q, 2, 4)
             u == SwapAxes(r, 1, 2)
             v == u.values
  <1>1. Swapped(t.shape, 1, 3) = <<c, k, h, n>> /\ q.shape = <<c, k, h, n>>
    BY SwappedFour, SwapShape
  <1> HIDE DEF q
  <1>2. Swapped(q.shape, 2, 4) = <<c, n, h, k>> /\ r.shape = <<c, n, h, k>>
    BY <1>1, SwappedFour, SwapShape
  <1> HIDE DEF r
  <1>3. Swapped(r.shape, 1, 2) = <<n, c, h, k>> /\ u.shape = <<n, c, h, k>>
    BY <1>2, SwappedFour, SwapShape
  <1>4. v = [p \in 1 .. n * c * h * k |-> v[p]]
    <2>1. Volume(<<n, c, h, k>>) = n * c * h * k
      BY Volume4 DEF Positive
    <2>2. v = [p \in 1 .. Volume(<<n, c, h, k>>) |->
                 At(r, Swapped(IndexOf(<<n, c, h, k>>, p - 1), 1, 2))]
      BY <1>3, SwapIs
    <2> HIDE DEF v
    <2> QED  BY <2>1, <2>2
  <1> HIDE DEF u
  <1>5. ASSUME NEW f \in 0 .. n - 1, NEW z \in 0 .. c - 1,
               NEW a \in 0 .. h - 1, NEW b \in 0 .. k - 1
        PROVE  v[((f * c + z) * h + a) * k + b + 1] = At(t, <<a, b, z, f>>)
    <2>1. At(u, <<f, z, a, b>>) = At(r, <<z, f, a, b>>)
      <3>1. At(u, <<f, z, a, b>>) = At(r, Swapped(<<f, z, a, b>>, 1, 2))
        BY <1>3, SwapFour DEF u
      <3> QED  BY <3>1, SwappedFour
    <2>2. At(r, <<z, f, a, b>>) = At(q, <<z, b, a, f>>)
      <3>1. At(r, <<z, f, a, b>>) = At(q, Swapped(<<z, f, a, b>>, 2, 4))
        BY <1>2, SwapFour DEF r
      <3> QED  BY <3>1, SwappedFour
    <2>3. At(q, <<z, b, a, f>>) = At(t, <<a, b, z, f>>)
      <3>1. At(q, <<z, b, a, f>>) = At(t, Swapped(<<z, b, a, f>>, 1, 3))
        BY <1>1, SwapFour DEF q
      <3> QED  BY <3>1, SwappedFour
    <2>4. PosOf(<<n, c, h, k>>, <<f, z, a, b>>) = ((f * c + z) * h + a) * k + b
      BY CellOf4
    <2>5. At(u, <<f, z, a, b>>) = v[((f * c + z) * h + a) * k + b + 1]
      BY <1>3, <2>4 DEF At
    <2> QED  BY <2>1, <2>2, <2>3, <2>5
  <1>6. PrepareFilterWeightsConv2D(t) = v
    BY DEF PrepareFilterWeightsConv2D, u, r, q
  <1> HIDE DEF v
  <1> QED  BY <1>4, <1>5, <1>6

LEMMA WeightsOfConv1D ==
  ASSUME NEW t, NEW k \in Positive, NEW c \in Positive, NEW n \in Positive,
         t.shape = <<k, c, n>>
  PROVE  LET v == PrepareFilterWeightsConv1D(t) IN
         /\ v = [p \in 1 .. n * c * k |-> v[p]]
         /\ \A f \in 0 .. n - 1, z \in 0 .. c - 1, b \in 0 .. k - 1 :
              v[(f * c + z) * k + b + 1] = At(t, <<b, z, f>>)
  <1> DEFINE u == SwapAxes(t, 1, 3)
             v == u.values
  <1>3. Swapped(t.shape, 1, 3) = <<n, c, k>> /\ u.shape = <<n, c, k>>
    BY SwappedThree, SwapShape
  <1>4. v = [p \in 1 .. n * c * k |-> v[p]]
    <2>1. Volume(<<n, c, k>>) = n * c * k
      BY Volume3 DEF Positive
    <2>2. v = [p \in 1 .. Volume(<<n, c, k>>) |->
                 At(t, Swapped(IndexOf(<<n, c, k>>, p - 1), 1, 3))]
      BY <1>3, SwapIs
    <2> HIDE DEF v
    <2> QED  BY <2>1, <2>2
  <1> HIDE DEF u
  <1>5. ASSUME NEW f \in 0 .. n - 1, NEW z \in 0 .. c - 1, NEW b \in 0 .. k - 1
        PROVE  v[(f * c + z) * k + b + 1] = At(t, <<b, z, f>>)
    <2>1. At(u, <<f, z, b>>) = At(t, <<b, z, f>>)
      <3>1. At(u, <<f, z, b>>) = At(t, Swapped(<<f, z, b>>, 1, 3))
        BY <1>3, SwapThree DEF u
      <3> QED  BY <3>1, SwappedThree
    <2>4. PosOf(<<n, c, k>>, <<f, z, b>>) = (f * c + z) * k + b
      BY CellOf3
    <2>5. At(u, <<f, z, b>>) = v[(f * c + z) * k + b + 1]
      BY <1>3, <2>4 DEF At
    <2> QED  BY <2>1, <2>5
  <1>6. PrepareFilterWeightsConv1D(t) = v
    BY DEF PrepareFilterWeightsConv1D, u
  <1> HIDE DEF v
  <1> QED  BY <1>4, <1>5, <1>6

\* The weights at the positions of a kernel are natural numbers.
LEMMA KernelAt4 ==
  ASSUME NEW t, NEW h \in Positive, NEW k \in Positive, NEW c \in Positive, NEW n \in Positive,
         t.shape = <<h, k, c, n>>, t.values \in [1 .. Volume(t.shape) -> Nat],
         NEW a \in 0 .. h - 1, NEW b \in 0 .. k - 1, NEW z \in 0 .. c - 1, NEW f \in 0 .. n - 1
  PROVE  At(t, <<a, b, z, f>>) \in Nat
  <1> DEFINE p == ((a * k + b) * c + z) * n + f
  <1>1. PosOf(t.shape, <<a, b, z, f>>) = p
    BY CellOf4
  <1>2. p \in 0 .. h * k * c * n - 1
    BY FourDigits
  <1>n. h \in Nat /\ k \in Nat /\ c \in Nat /\ n \in Nat
    BY DEF Positive
  <1>3. Volume(t.shape) = h * k * c * n
    BY <1>n, Volume4
  <1>4. h * k * c * n \in Nat
    <2>1. h * k \in Nat
      BY DEF Positive
    <2>2. h * k * c \in Nat
      BY <2>1 DEF Positive
    <2> QED  BY <2>2 DEF Positive
  <1> HIDE DEF p
  <1>5. p + 1 \in 1 .. Volume(t.shape)
    BY <1>2, <1>3, <1>4
  <1> QED  BY <1>1, <1>5 DEF At

LEMMA KernelAt3 ==
  ASSUME NEW t, NEW k \in Positive, NEW c \in Positive, NEW n \in Positive,
         t.shape = <<k, c, n>>, t.values \in [1 .. Volume(t.shape) -> Nat],
         NEW b \in 0 .. k - 1, NEW z \in 0 .. c - 1, NEW f \in 0 .. n - 1
  PROVE  At(t, <<b, z, f>>) \in Nat
  <1> DEFINE p == (b * c + z) * n + f
  <1>1. PosOf(t.shape, <<b, z, f>>) = p
    BY CellOf3
  <1>2. p \in 0 .. k * c * n - 1
    BY ThreeDigits
  <1>3. Volume(t.shape) = k * c * n
    BY Volume3 DEF Positive
  <1>4. k * c * n \in Nat
    <2>1. k * c \in Nat
      BY DEF Positive
    <2> QED  BY <2>1 DEF Positive
  <1> HIDE DEF p
  <1>5. p + 1 \in 1 .. Volume(t.shape)
    BY <1>2, <1>3, <1>4
  <1> QED  BY <1>1, <1>5 DEF At

LEMMA CountedConv2D ==
  ASSUME NEW t, NEW h \in Positive, NEW k \in Positive, NEW c \in Positive, NEW n \in Positive,
         t.shape = <<h, k, c, n>>, t.values \in [1 .. Volume(t.shape) -> Nat]
  PROVE  Counted(PrepareFilterWeightsConv2D(t), n * c * h * k)
  <1> DEFINE v == PrepareFilterWeightsConv2D(t)
             m == n * c * h * k
  <1>1. /\ v = [p \in 1 .. m |-> v[p]]
        /\ \A f \in 0 .. n - 1, z \in 0 .. c - 1, a \in 0 .. h - 1, b \in 0 .. k - 1 :
             v[((f * c + z) * h + a) * k + b + 1] = At(t, <<a, b, z, f>>)
    BY WeightsOfConv2D
  <1> HIDE DEF v
  <1>2. m \in Nat
    <2>1. n * c \in Nat
      BY DEF Positive
    <2>2. n * c * h \in Nat
      BY <2>1 DEF Positive
    <2> QED  BY <2>2 DEF Positive
  <1>3. ASSUME NEW p \in 1 .. m PROVE v[p] \in Nat
    <2>1. p - 1 \in 0 .. n * c * h * k - 1 /\ p \in Int
      BY <1>2
    <2>2. PICK f \in 0 .. n - 1, z \in 0 .. c - 1, a \in 0 .. h - 1, b \in 0 .. k - 1 :
            p - 1 = ((f * c + z) * h + a) * k + b
      BY <2>1, DigitsOfFour
    <2>3. p = ((f * c + z) * h + a) * k + b + 1
      <3> DEFINE e == ((f * c + z) * h + a) * k + b
      <3>1. p - 1 = e
        BY <2>2
      <3> HIDE DEF e
      <3>2. p = e + 1
        BY <2>1, <3>1
      <3> QED  BY <3>2 DEF e
    <2>4. v[p] = At(t, <<a, b, z, f>>)
      BY <1>1, <2>3
    <2>5. At(t, <<a, b, z, f>>) \in Nat
      <3> HIDE DEF m
      <3> QED  BY KernelAt4
    <2> QED  BY <2>4, <2>5
  <1> HIDE DEF m
  <1>4. v \in [1 .. m -> Nat]
    BY <1>1, <1>3
  <1>5. v \in Seq(Nat) /\ Len(v) = m
    BY <1>2, <1>4
  <1> QED  BY <1>5 DEF Counted, v, m

LEMMA CountedConv1D ==
  ASSUME NEW t, NEW k \in Positive, NEW c \in Positive, NEW n \in Positive,
         t.shape = <<k, c, n>>, t.values \in [1 .. Volume(t.shape) -> Nat]
  PROVE  Counted(PrepareFilterWeightsConv1D(t), n * c * k)
  <1> DEFINE v == PrepareFilterWeightsConv1D(t)
             m == n * c * k
  <1>1. /\ v = [p \in 1 .. m |-> v[p]]
        /\ \A f \in 0 .. n - 1, z \in 0 .. c - 1, b \in 0 .. k - 1 :
             v[(f * c + z) * k + b + 1] = At(t, <<b, z, f>>)
    BY WeightsOfConv1D
  <1> HIDE DEF v
  <1>2. m \in Nat
    <2>1. n * c \in Nat
      BY DEF Positive
    <2> QED  BY <2>1 DEF Positive
  <1>3. ASSUME NEW p \in 1 .. m PROVE v[p] \in Nat
    <2>1. p - 1 \in 0 .. n * c * k - 1 /\ p \in Int
      BY <1>2
    <2> DEFINE f == (p - 1) \div (c * k)
               z == ((p - 1) \div k) % c
               b == (p - 1) % k
    <2>2. /\ f \in 0 .. n - 1 /\ z \in 0 .. c - 1 /\ b \in 0 .. k - 1
          /\ p - 1 = (f * c + z) * k + b
      BY <2>1, DigitsOfThree
    <2> HIDE DEF f, z, b
    <2>3. p = (f * c + z) * k + b + 1
      <3> DEFINE e == (f * c + z) * k + b
      <3>1. p - 1 = e
        BY <2>2
      <3> HIDE DEF e
      <3>2. p = e + 1
        BY <2>1, <3>1
      <3> QED  BY <3>2 DEF e
    <2>4. v[p] = At(t, <<b, z, f>>)
      BY <1>1, <2>2, <2>3
    <2> QED  BY <2>2, <2>4, KernelAt3
  <1> HIDE DEF m
  <1>4. v \in [1 .. m -> Nat]
    BY <1>1, <1>3
  <1>5. v \in Seq(Nat) /\ Len(v) = m
    BY <1>2, <1>4
  <1> QED  BY <1>5 DEF Counted, v, m

(***************************************************************************)
(* The kernels of the layers.                                              *)
(***************************************************************************)
LEMMA SeqOfLength ==
  ASSUME NEW S, NEW n \in Nat, NEW s \in [1 .. n -> S]
  PROVE  s \in Seq(S) /\ Len(s) = n
  OBVIOUS

LEMMA OneSize ==
  ASSUME NEW s \in SizesOf(1)
  PROVE  s = << s[1] >> /\ s[1] \in Positive /\ Len(s) = 1
  <1>1. s \in Seq(Positive) /\ Len(s) = 1
    BY SeqOfLength DEF SizesOf, Positive
  <1>2. s[1] \in Positive
    BY <1>1
  <1>3. s = [i \in 1 .. 1 |-> s[1]]
    BY <1>1
  <1> QED  BY <1>1, <1>2, <1>3

LEMMA TwoSizes ==
  ASSUME NEW s \in SizesOf(2)
  PROVE  s = <<s[1], s[2]>> /\ s[1] \in Positive /\ s[2] \in Positive /\ Len(s) = 2
  <1>1. s \in Seq(Positive) /\ Len(s) = 2
    BY SeqOfLength DEF SizesOf, Positive
  <1> QED  BY <1>1

LEMMA ThreeSizes ==
  ASSUME NEW s \in SizesOf(3)
  PROVE  /\ s = <<s[1], s[2], s[3]>> /\ Len(s) = 3
         /\ s[1] \in Positive /\ s[2] \in Positive /\ s[3] \in Positive
  <1>0. s \in [1 .. 3 -> Positive]
    BY DEF SizesOf, Positive
  <1>1. s \in Seq(Positive) /\ Len(s) = 3
    <2>1. 3 \in Nat
      OBVIOUS
    <2> QED  BY <1>0, <2>1, SeqOfLength
  <1>2. \A i \in 1 .. 3 : s[i] \in Positive
    BY <1>0
  <1>3. s = <<s[1], s[2], s[3]>>
    BY <1>1
  <1> QED  BY <1>1, <1>2, <1>3

LEMMA FourSizes ==
  ASSUME NEW s \in SizesOf(4)
  PROVE  /\ s = <<s[1], s[2], s[3], s[4]>> /\ Len(s) = 4
         /\ s[1] \in Positive /\ s[2] \in Positive /\ s[3] \in Positive /\ s[4] \in Positive
  <1>0. s \in [1 .. 4 -> Positive]
    BY DEF SizesOf, Positive
  <1>1. s \in Seq(Positive) /\ Len(s) = 4
    <2>1. 4 \in Nat
      OBVIOUS
    <2> QED  BY <1>0, <2>1, SeqOfLength
  <1>2. \A i \in 1 .. 4 : s[i] \in Positive
    BY <1>0
  <1>3. s = <<s[1], s[2], s[3], s[4]>>
    BY <1>1
  <1> QED  BY <1>1, <1>2, <1>3

LEMMA ShortSeq ==
  ASSUME NEW s, IsSeq(s)
  PROVE  /\ Len(s) = 1 => s = << s[1] >>
         /\ Len(s) = 2 => s = <<s[1], s[2]>>
         /\ Len(s) = 3 => s = <<s[1], s[2], s[3]>>
  <1> DEFINE S == {s[i] : i \in 1 .. Len(s)}
  <1>1. s \in Seq(S)
    BY SeqOfItsElements
  <1> HIDE DEF S
  <1>2. ASSUME Len(s) = 1 PROVE s = << s[1] >>
    <2>1. s[1] \in S
      BY <1>1, <1>2
    <2>2. << s[1] >> \in Seq(S) /\ Len(<< s[1] >>) = 1 /\ << s[1] >>[1] = s[1]
      BY <2>1
    <2> QED  BY <1>1, <1>2, <2>2
  <1>3. ASSUME Len(s) = 2 PROVE s = <<s[1], s[2]>>
    BY <1>1, <1>3
  <1>4. ASSUME Len(s) = 3 PROVE s = <<s[1], s[2], s[3]>>
    BY <1>1, <1>4
  <1> QED  BY <1>2, <1>3, <1>4

LEMMA PrefixOf ==
  ASSUME NEW s, IsSeq(s), Len(s) > 2
  PROVE  /\ SubSeq(s, 1, 1) = << s[1] >>
         /\ SubSeq(s, 1, 2) = <<s[1], s[2]>>
  <1> DEFINE p == SubSeq(s, 1, 1)
             q == SubSeq(s, 1, 2)
  <1>1. 1 \in 0 .. Len(s) /\ 2 \in 0 .. Len(s)
    BY DEF IsSeq
  <1>2. /\ IsSeq(p) /\ Len(p) = 1 /\ \A i \in 1 .. 1 : p[i] = s[i]
        /\ IsSeq(q) /\ Len(q) = 2 /\ \A i \in 1 .. 2 : q[i] = s[i]
    BY <1>1, PrefixSeq
  <1>3. p = << p[1] >> /\ q = <<q[1], q[2]>>
    BY <1>2, ShortSeq
  <1> QED  BY <1>2, <1>3

\* A layer Keras builds, and the parts of the assumption about it.
LEMMA LayerIs ==
  ASSUME NEW l \in KerasLayers, NEW rank, rank = SpatialRank(l)
  PROVE  /\ l.class \in Convolutions \cup {"SeparableConv2D", "Dense"} \cup Poolings
         /\ l.padding \in Paddings
         /\ Input(l) \in SizesOf(rank + 1)
         /\ l.strides \in SizesOf(rank) /\ \A a \in 1 .. rank : l.strides[a] < 1000
         /\ l.dilation \in SizesOf(rank)
         /\ KernelFits(l, Input(l)[rank + 1], rank)
         /\ l.class \notin Poolings => l.bias = None \/ l.bias \in [1 .. Units(l) -> Nat]
         /\ l.padding = "valid" =>
              \A a \in 1 .. rank : (WindowOf(l, a) - 1) * l.dilation[a] + 1 <= Input(l)[a]
  <1> HIDE DEF KernelFits, WindowOf, SizesOf, Units
  <1> QED  BY LayersAssumption

\* The classes exclude each other, so that every CASE over them has one branch.
LEMMA Classes ==
  ASSUME NEW l
  PROVE  /\ l.class = "Conv1D" => l.class \in Convolutions
         /\ l.class = "Conv2D" => l.class \in Convolutions
         /\ l.class \in Convolutions =>
              /\ l.class \notin Poolings /\ l.class # "SeparableConv2D" /\ l.class # "Dense"
         /\ l.class = "SeparableConv2D" => l.class \notin Poolings /\ l.class # "Dense"
         /\ l.class = "Dense" => l.class \notin Poolings
  BY DEF Convolutions, Poolings, MaxPoolings, AveragePoolings

LEMMA FitsIs ==
  ASSUME NEW l, NEW in, NEW rank, KernelFits(l, in, rank)
  PROVE  /\ l.class \in Convolutions =>
              IsKernel(l.kernel, rank + 2) /\ l.kernel.shape[rank + 1] = in
         /\ l.class = "SeparableConv2D" =>
              /\ IsKernel(l.depthwise, 4) /\ l.depthwise.shape[3] = in /\ l.depthwise.shape[4] = 1
              /\ IsKernel(l.kernel, 4) /\ SubSeq(l.kernel.shape, 1, 3) = <<1, 1, in>>
         /\ l.class = "Dense" => IsKernel(l.kernel, 2) /\ l.kernel.shape[1] = in
         /\ l.class \in Poolings =>
              l.pool \in SizesOf(rank) /\ \A a \in 1 .. rank : l.dilation[a] = 1
  <1>1. CASE l.class \in Convolutions
    BY <1>1, Classes DEF KernelFits
  <1>2. CASE l.class = "SeparableConv2D"
    BY <1>2, Classes DEF KernelFits
  <1>3. CASE l.class = "Dense"
    BY <1>3, Classes DEF KernelFits
  <1>4. CASE l.class \in Poolings
    BY <1>4, Classes DEF KernelFits
  <1> QED  BY <1>1, <1>2, <1>3, <1>4

LEMMA ExportedIs ==
  ASSUME NEW l
  PROVE  /\ l.class = "Conv1D" =>
              Exported(l) = [weights |-> PrepareFilterWeightsConv1D(l.kernel), bias |-> l.bias]
         /\ l.class = "Conv2D" =>
              Exported(l) = [weights |-> PrepareFilterWeightsConv2D(l.kernel), bias |-> l.bias]
         /\ l.class = "SeparableConv2D" =>
              Exported(l) = [slices |-> PrepareFilterWeightsConv2D(l.depthwise),
                             weights |-> PrepareFilterWeightsConv2D(l.kernel), bias |-> l.bias]
         /\ l.class = "Dense" => Exported(l) = [weights |-> l.kernel.values, bias |-> l.bias]
  <1> DEFINE a == PrepareFilterWeightsConv1D(l.kernel)
             b == PrepareFilterWeightsConv2D(l.kernel)
             c == PrepareFilterWeightsConv2D(l.depthwise)
             d == l.kernel.values
             e == l.bias
             k == l.class
  <1>1. Exported(l) =
          CASE k = "Conv1D" -> [weights |-> a, bias |-> e]
            [] k = "Conv2D" -> [weights |-> b, bias |-> e]
            [] k = "SeparableConv2D" -> [slices |-> c, weights |-> b, bias |-> e]
            [] k = "Dense" -> [weights |-> d, bias |-> e]
            [] k \in Poolings -> [weights |-> None, bias |-> None]
    BY DEF Exported
  <1>2. k \in Poolings => /\ k # "Conv1D" /\ k # "Conv2D"
                          /\ k # "SeparableConv2D" /\ k # "Dense"
    BY Classes DEF Convolutions
  <1> HIDE DEF a, b, c, d, e, k
  <1>3. /\ k = "Conv1D" => Exported(l) = [weights |-> a, bias |-> e]
        /\ k = "Conv2D" => Exported(l) = [weights |-> b, bias |-> e]
        /\ k = "SeparableConv2D" => Exported(l) = [slices |-> c, weights |-> b, bias |-> e]
        /\ k = "Dense" => Exported(l) = [weights |-> d, bias |-> e]
    BY <1>1, <1>2
  <1> QED  BY <1>3 DEF a, b, c, d, e, k

\* Height and width of a kernel, its channels and filters, and its weights.
KH(l) == IF SpatialRank(l) = 1 THEN 1 ELSE l.kernel.shape[1]
KW(l) == l.kernel.shape[SpatialRank(l)]
KC(l) == l.kernel.shape[SpatialRank(l) + 1]
KernelCell(l, f, z, a, b) ==
  IF SpatialRank(l) = 1 THEN At(l.kernel, <<b, z, f>>) ELSE At(l.kernel, <<a, b, z, f>>)

LEMMA ConvolutionRank ==
  ASSUME NEW l, l.class \in Convolutions
  PROVE  /\ l.class = "Conv1D" => SpatialRank(l) = 1
         /\ l.class = "Conv2D" => SpatialRank(l) = 2
         /\ l.class = "Conv1D" \/ l.class = "Conv2D"
         /\ l.class # "SeparableConv2D" /\ l.class # "Dense" /\ l.class \notin Poolings
  BY DEF Convolutions, SpatialRank, Poolings, MaxPoolings, AveragePoolings

LEMMA KernelOfConvolution ==
  ASSUME NEW l \in KerasLayers, l.class \in Convolutions
  PROVE  LET w == Exported(l).weights IN
         /\ KH(l) \in Positive /\ KW(l) \in Positive /\ KC(l) \in Positive
         /\ Units(l) \in Positive
         /\ CreateShape2(KernelSize(l)) = <<KH(l), KW(l)>>
         /\ KC(l) = Input(l)[SpatialRank(l) + 1]
         /\ Counted(w, Units(l) * KC(l) * KH(l) * KW(l))
         /\ \A f \in 0 .. Units(l) - 1, z \in 0 .. KC(l) - 1,
               a \in 0 .. KH(l) - 1, b \in 0 .. KW(l) - 1 :
              w[((f * KC(l) + z) * KH(l) + a) * KW(l) + b + 1] = KernelCell(l, f, z, a, b)
  <1> DEFINE rank == SpatialRank(l)
             t == l.kernel
             in == Input(l)[rank + 1]
  <1>1. KernelFits(l, in, rank)
    BY LayerIs
  <1>2. IsKernel(t, rank + 2) /\ t.shape[rank + 1] = in
    BY <1>1, FitsIs
  <1>3. CASE l.class = "Conv1D"
    <2>1. rank = 1
      BY <1>3, ConvolutionRank
    <2> DEFINE s == t.shape
    <2>2. s \in SizesOf(3) /\ t.values \in [1 .. Volume(s) -> Nat]
      BY <1>2, <2>1 DEF IsKernel
    <2> HIDE DEF in
    <2>3. /\ s = <<s[1], s[2], s[3]>> /\ Len(s) = 3
          /\ s[1] \in Positive /\ s[2] \in Positive /\ s[3] \in Positive
      BY <2>2, ThreeSizes
    <2>4. KH(l) = 1 /\ KW(l) = s[1] /\ KC(l) = s[2] /\ Units(l) = s[3]
      BY <2>1, <2>3 DEF KH, KW, KC, Units
    <2>5. CreateShape2(KernelSize(l)) = <<1, s[1]>>
      <3>1. KernelSize(l) = << s[1] >>
        <4>1. IsSeq(s)
          BY <2>2, SeqOfLength, SeqIsSeq DEF SizesOf
        <4>2. KernelSize(l) = SubSeq(s, 1, 3 - 2)
          BY <2>3 DEF KernelSize
        <4>3. Len(s) > 2
          BY <2>3
        <4> HIDE DEF s
        <4>4. SubSeq(s, 1, 1) = << s[1] >>
          BY <4>1, <4>3, PrefixOf
        <4> QED  BY <4>2, <4>4
      <3> QED  BY <3>1 DEF CreateShape2
    <2>6. Exported(l).weights = PrepareFilterWeightsConv1D(t)
      BY <1>3, ExportedIs
    <2>7. Counted(PrepareFilterWeightsConv1D(t), s[3] * s[2] * s[1])
      BY <2>2, <2>3, CountedConv1D
    <2>8. s[3] * s[2] * 1 * s[1] = s[3] * s[2] * s[1] /\ 1 \in Positive
      BY <2>3 DEF Positive
    <2>9. ASSUME NEW f \in 0 .. s[3] - 1, NEW z \in 0 .. s[2] - 1,
                 NEW a \in 0 .. 1 - 1, NEW b \in 0 .. s[1] - 1
          PROVE  PrepareFilterWeightsConv1D(t)[((f * s[2] + z) * 1 + a) * s[1] + b + 1]
                   = KernelCell(l, f, z, a, b)
      <3>1. PrepareFilterWeightsConv1D(t)[(f * s[2] + z) * s[1] + b + 1] = At(t, <<b, z, f>>)
        BY <2>3, WeightsOfConv1D
      <3>2. (f * s[2] + z) * 1 + a = f * s[2] + z
        BY <2>3 DEF Positive
      <3>3. KernelCell(l, f, z, a, b) = At(t, <<b, z, f>>)
        BY <2>1 DEF KernelCell
      <3> QED  BY <3>1, <3>2, <3>3
    <2> HIDE DEF s, t, rank
    <2>10. KC(l) = in
      BY <1>2, <2>1, <2>4 DEF s
    <2> QED  BY <2>3, <2>4, <2>5, <2>6, <2>7, <2>8, <2>9, <2>10 DEF in, rank
  <1>4. CASE l.class = "Conv2D"
    <2>1. rank = 2
      BY <1>4, ConvolutionRank
    <2> DEFINE s == t.shape
    <2>2. s \in SizesOf(4) /\ t.values \in [1 .. Volume(s) -> Nat]
      BY <1>2, <2>1 DEF IsKernel
    <2> HIDE DEF in
    <2>3. /\ s = <<s[1], s[2], s[3], s[4]>> /\ Len(s) = 4
          /\ s[1] \in Positive /\ s[2] \in Positive /\ s[3] \in Positive /\ s[4] \in Positive
      BY <2>2, FourSizes
    <2>4. KH(l) = s[1] /\ KW(l) = s[2] /\ KC(l) = s[3] /\ Units(l) = s[4]
      BY <2>1, <2>3 DEF KH, KW, KC, Units
    <2>5. CreateShape2(KernelSize(l)) = <<s[1], s[2]>>
      <3>1. KernelSize(l) = <<s[1], s[2]>>
        <4>1. IsSeq(s)
          BY <2>2, SeqOfLength, SeqIsSeq DEF SizesOf
        <4>2. KernelSize(l) = SubSeq(s, 1, 4 - 2)
          BY <2>3 DEF KernelSize
        <4>3. Len(s) > 2
          BY <2>3
        <4> HIDE DEF s
        <4>4. SubSeq(s, 1, 2) = <<s[1], s[2]>>
          BY <4>1, <4>3, PrefixOf
        <4> QED  BY <4>2, <4>4
      <3> QED  BY <3>1 DEF CreateShape2
    <2>6. Exported(l).weights = PrepareFilterWeightsConv2D(t)
      BY <1>4, ExportedIs
    <2>7. Counted(PrepareFilterWeightsConv2D(t), s[4] * s[3] * s[1] * s[2])
      BY <2>2, <2>3, CountedConv2D
    <2>9. ASSUME NEW f \in 0 .. s[4] - 1, NEW z \in 0 .. s[3] - 1,
                 NEW a \in 0 .. s[1] - 1, NEW b \in 0 .. s[2] - 1
          PROVE  PrepareFilterWeightsConv2D(t)[((f * s[3] + z) * s[1] + a) * s[2] + b + 1]
                   = KernelCell(l, f, z, a, b)
      <3>1. PrepareFilterWeightsConv2D(t)[((f * s[3] + z) * s[1] + a) * s[2] + b + 1]
              = At(t, <<a, b, z, f>>)
        BY <2>3, WeightsOfConv2D
      <3>3. KernelCell(l, f, z, a, b) = At(t, <<a, b, z, f>>)
        BY <2>1 DEF KernelCell
      <3> QED  BY <3>1, <3>3
    <2> HIDE DEF s, t, rank
    <2>10. KC(l) = in
      BY <1>2, <2>1, <2>4 DEF s
    <2> QED  BY <2>3, <2>4, <2>5, <2>6, <2>7, <2>9, <2>10 DEF in, rank
  <1> QED  BY <1>3, <1>4 DEF Convolutions

LEMMA SeparableRank ==
  ASSUME NEW l, l.class = "SeparableConv2D"
  PROVE  SpatialRank(l) = 2
  BY DEF SpatialRank

LEMMA DenseRank ==
  ASSUME NEW l, l.class = "Dense"
  PROVE  SpatialRank(l) = 0
  BY DEF SpatialRank

\* Height and width of the filters of a SeparableConv2D.
DH(l) == l.depthwise.shape[1]
DW(l) == l.depthwise.shape[2]

LEMMA KernelsOfSeparable ==
  ASSUME NEW l \in KerasLayers, l.class = "SeparableConv2D"
  PROVE  LET w == Exported(l).weights
             s == Exported(l).slices
             c == Input(l)[3]
             n == Units(l) IN
         /\ DH(l) \in Positive /\ DW(l) \in Positive /\ c \in Positive /\ n \in Positive
         /\ l.depthwise.shape = <<DH(l), DW(l), c, 1>>
         /\ l.kernel.shape = <<1, 1, c, n>>
         /\ CreateShape2(SubSeq(l.depthwise.shape, 1, 2)) = <<DH(l), DW(l)>>
         /\ Counted(s, 1 * c * DH(l) * DW(l)) /\ Counted(w, n * c * 1 * 1)
         /\ \A z \in 0 .. c - 1, a \in 0 .. DH(l) - 1, b \in 0 .. DW(l) - 1 :
              s[((0 * c + z) * DH(l) + a) * DW(l) + b + 1] = At(l.depthwise, <<a, b, z, 0>>)
         /\ \A f \in 0 .. n - 1, z \in 0 .. c - 1 :
              w[((f * c + z) * 1 + 0) * 1 + 0 + 1] = At(l.kernel, <<0, 0, z, f>>)
  <1> DEFINE in == Input(l)[3]
             t == l.depthwise
             u == l.kernel
             s == t.shape
             q == u.shape
  <1>0. SpatialRank(l) = 2
    BY SeparableRank
  <1>1. KernelFits(l, in, 2)
    <2>1. KernelFits(l, Input(l)[2 + 1], 2)
      BY <1>0, LayerIs
    <2> QED  BY <2>1
  <1>2. IsKernel(t, 4) /\ s[3] = in /\ s[4] = 1 /\ IsKernel(u, 4) /\ SubSeq(q, 1, 3) = <<1, 1, in>>
    BY <1>1, FitsIs
  <1>3. s \in SizesOf(4) /\ t.values \in [1 .. Volume(s) -> Nat]
        /\ q \in SizesOf(4) /\ u.values \in [1 .. Volume(q) -> Nat]
    BY <1>2 DEF IsKernel
  <1>4. /\ s = <<s[1], s[2], s[3], s[4]>> /\ Len(s) = 4
        /\ s[1] \in Positive /\ s[2] \in Positive /\ s[3] \in Positive
    BY <1>3, FourSizes
  <1>5. /\ q = <<q[1], q[2], q[3], q[4]>> /\ Len(q) = 4 /\ q[4] \in Positive
    BY <1>3, FourSizes
  <1>6. IsSeq(s) /\ IsSeq(q)
    <2> HIDE DEF s, q
    <2>1. s \in Seq(Nat \ {0}) /\ q \in Seq(Nat \ {0})
      BY <1>3, SeqOfLength DEF SizesOf
    <2> QED  BY <2>1, SeqIsSeq
  <1>7. Units(l) = q[4]
    BY <1>5 DEF Units
  <1>8. DH(l) = s[1] /\ DW(l) = s[2]
    BY DEF DH, DW
  <1>9. Exported(l) = [slices |-> PrepareFilterWeightsConv2D(t),
                       weights |-> PrepareFilterWeightsConv2D(u), bias |-> l.bias]
    BY ExportedIs
  <1> HIDE DEF t, u, in
  <1>10. q[1] = 1 /\ q[2] = 1 /\ q[3] = in
    <2> HIDE DEF q
    <2>1. 3 \in 0 .. Len(q) /\ 1 \in 1 .. 3 /\ 2 \in 1 .. 3 /\ 3 \in 1 .. 3
      BY <1>5
    <2>2. \A i \in 1 .. 3 : SubSeq(q, 1, 3)[i] = q[i]
      BY <1>6, <2>1, PrefixSeq
    <2>3. \A i \in 1 .. 3 : <<1, 1, in>>[i] = q[i]
      BY <1>2, <2>2
    <2> QED  BY <2>1, <2>3
  <1>11. CreateShape2(SubSeq(s, 1, 2)) = <<s[1], s[2]>>
    <2>0. Len(s) > 2
      BY <1>4
    <2> HIDE DEF s
    <2>1. SubSeq(s, 1, 2) = <<s[1], s[2]>>
      BY <1>6, <2>0, PrefixOf
    <2> QED  BY <2>1 DEF CreateShape2
  <1>12. s = <<DH(l), DW(l), in, 1>> /\ q = <<1, 1, in, Units(l)>>
    BY <1>2, <1>4, <1>5, <1>7, <1>8, <1>10
  <1> DEFINE h == DH(l)
             k == DW(l)
             n == Units(l)
  <1>13. /\ h \in Positive /\ k \in Positive /\ in \in Positive /\ n \in Positive
         /\ 1 \in Positive
    BY <1>2, <1>4, <1>5, <1>7, <1>8 DEF Positive
  <1> HIDE DEF h, k, n
  <1>14. Counted(PrepareFilterWeightsConv2D(t), 1 * in * h * k)
         /\ Counted(PrepareFilterWeightsConv2D(u), n * in * 1 * 1)
    <2>1. t.shape = <<h, k, in, 1>> /\ t.values \in [1 .. Volume(t.shape) -> Nat]
          /\ u.shape = <<1, 1, in, n>> /\ u.values \in [1 .. Volume(u.shape) -> Nat]
      BY <1>3, <1>12 DEF h, k, n
    <2> QED  BY <1>13, <2>1, CountedConv2D
  <1>15. /\ \A z \in 0 .. in - 1, a \in 0 .. h - 1, b \in 0 .. k - 1 :
              PrepareFilterWeightsConv2D(t)[((0 * in + z) * h + a) * k + b + 1]
                = At(t, <<a, b, z, 0>>)
         /\ \A f \in 0 .. n - 1, z \in 0 .. in - 1 :
              PrepareFilterWeightsConv2D(u)[((f * in + z) * 1 + 0) * 1 + 0 + 1]
                = At(u, <<0, 0, z, f>>)
    <2>1. t.shape = <<h, k, in, 1>> /\ u.shape = <<1, 1, in, n>> /\ 0 \in 0 .. 1 - 1
      BY <1>12 DEF h, k, n
    <2> HIDE DEF s, q
    <2>2. ASSUME NEW z \in 0 .. in - 1, NEW a \in 0 .. h - 1, NEW b \in 0 .. k - 1
          PROVE  PrepareFilterWeightsConv2D(t)[((0 * in + z) * h + a) * k + b + 1]
                   = At(t, <<a, b, z, 0>>)
      BY <1>13, <2>1, WeightsOfConv2D
    <2>3. ASSUME NEW f \in 0 .. n - 1, NEW z \in 0 .. in - 1
          PROVE  PrepareFilterWeightsConv2D(u)[((f * in + z) * 1 + 0) * 1 + 0 + 1]
                   = At(u, <<0, 0, z, f>>)
      BY <1>13, <2>1, WeightsOfConv2D
    <2> QED  BY <2>2, <2>3
  <1> QED  BY <1>8, <1>9, <1>11, <1>12, <1>13, <1>14, <1>15 DEF h, k, n, in, t, u, s, q

LEMMA KernelOfDense ==
  ASSUME NEW l \in KerasLayers, l.class = "Dense"
  PROVE  LET w == Exported(l).weights
             c == Input(l)[1]
             n == Units(l) IN
         /\ c \in Positive /\ n \in Positive
         /\ l.kernel.shape = <<c, n>>
         /\ Counted(w, c * n)
         /\ \A i \in 0 .. c - 1, f \in 0 .. n - 1 : w[i * n + f + 1] = At(l.kernel, <<i, f>>)
  <1> DEFINE in == Input(l)[1]
             u == l.kernel
             q == u.shape
  <1>1. KernelFits(l, in, 0)
    <2>1. KernelFits(l, Input(l)[0 + 1], 0)
      BY DenseRank, LayerIs
    <2> QED  BY <2>1
  <1>2. IsKernel(u, 2) /\ q[1] = in
    BY <1>1, FitsIs
  <1>3. q \in SizesOf(2) /\ u.values \in [1 .. Volume(q) -> Nat]
    BY <1>2 DEF IsKernel
  <1>4. q = <<q[1], q[2]>> /\ Len(q) = 2 /\ q[1] \in Positive /\ q[2] \in Positive
    BY <1>3, TwoSizes
  <1>5. Units(l) = q[2]
    BY <1>4 DEF Units
  <1>6. Exported(l).weights = u.values
    BY ExportedIs
  <1> DEFINE n == Units(l)
  <1>7. in \in Positive /\ n \in Positive /\ u.shape = <<in, n>>
    BY <1>2, <1>4, <1>5
  <1> HIDE DEF u, in, n
  <1>8. Volume(u.shape) = in * n /\ in * n \in Nat
    <2>1. in \in Nat /\ n \in Nat
      BY <1>7 DEF Positive
    <2> QED  BY <1>7, <2>1, Volume2
  <1>9. Counted(u.values, in * n)
    BY <1>3, <1>8, SeqOfLength DEF Counted
  <1>10. ASSUME NEW i \in 0 .. in - 1, NEW f \in 0 .. n - 1
         PROVE  u.values[i * n + f + 1] = At(u, <<i, f>>)
    <2>1. PosOf(u.shape, <<i, f>>) = i * n + f
      BY <1>7, CellOf2
    <2> QED  BY <2>1 DEF At
  <1> QED  BY <1>6, <1>7, <1>9, <1>10 DEF in, u, n

\* The shape of the input of a layer, and of its tensor3.
LEMMA InputShape ==
  ASSUME NEW l \in KerasLayers
  PROVE  /\ SpatialRank(l) \in 0 .. 2
         /\ Input(l) \in Shapes /\ Len(Input(l)) = SpatialRank(l) + 1
         /\ \A a \in 1 .. SpatialRank(l) + 1 : Input(l)[a] \in Positive
         /\ Chans(Input(l)) = Input(l)[SpatialRank(l) + 1]
  <1> DEFINE r == SpatialRank(l)
             s == Input(l)
  <1>1. /\ s \in SizesOf(r + 1)
        /\ l.class \in Convolutions \cup {"SeparableConv2D", "Dense"} \cup Poolings
    BY LayerIs
  <1>2. r \in 0 .. 2
    BY <1>1 DEF SpatialRank, Convolutions, Poolings, MaxPoolings, AveragePoolings
  <1> HIDE DEF r, s
  <1>3. r + 1 \in Nat /\ s \in [1 .. r + 1 -> Positive]
    BY <1>1, <1>2 DEF SizesOf, Positive
  <1>4. s \in Seq(Positive) /\ Len(s) = r + 1
    BY <1>3, SeqOfLength
  <1>5. s \in Shapes
    BY <1>2, <1>4 DEF Shapes
  <1> QED  BY <1>2, <1>3, <1>4, <1>5 DEF r, s, Chans

\* The biases there are, or as many noughts.
LEMMA BiasIs ==
  ASSUME layer \in KerasLayers, layer.class \notin Poolings, Units(layer) \in Positive,
         Trained.bias = layer.bias
  PROVE  /\ Bias \in [1 .. Units(layer) -> Nat] /\ Len(Bias) = Units(layer)
         /\ Bias \in Seq(Nat)
         /\ \A f \in 0 .. Units(layer) - 1 : BiasTerm(f) = Times(Bias[f + 1], One)
  <1> DEFINE n == Units(layer)
             b == layer.bias
  <1>1. b = None \/ b \in [1 .. n -> Nat]
    BY LayerIs
  <1>2. Bias = IF b = None THEN [f \in 1 .. n |-> 0] ELSE b
    BY DEF Bias
  <1> HIDE DEF n, b
  <1>3. Bias \in [1 .. n -> Nat]
    BY <1>1, <1>2
  <1>4. Bias \in Seq(Nat) /\ Len(Bias) = n
    BY <1>3, SeqOfLength DEF Positive, n
  <1>5. ASSUME NEW f \in 0 .. n - 1 PROVE BiasTerm(f) = Times(Bias[f + 1], One)
    <2>1. CASE b = None
      <3>1. Bias[f + 1] = 0
        BY <1>2, <2>1 DEF n, Positive
      <3> QED  BY <2>1, <3>1 DEF BiasTerm, b, Times
    <2>2. CASE b # None
      BY <1>2, <2>2 DEF BiasTerm, b
    <2> QED  BY <2>1, <2>2
  <1> QED  BY <1>3, <1>4, <1>5 DEF n

\* An exact division.
LEMMA Quotient ==
  ASSUME NEW a \in Nat, NEW b \in Positive
  PROVE  (a * b) \div b = a /\ (a * b) % b = 0
  <1>1. a * b \in Int /\ a * b = a * b + 0 /\ 0 \in 0 .. b - 1
    BY DEF Positive
  <1> QED  BY <1>1, DivisionWithRemainder

LEMMA ProductOfPositives ==
  ASSUME NEW a \in Positive, NEW b \in Positive
  PROVE  a * b \in Positive
  BY DEF Positive

LEMMA FilterShapeIs ==
  ASSUME layer \in KerasLayers, layer.class \in Convolutions, Trained = Exported(layer)
  PROVE  /\ Size2 = <<KH(layer), KW(layer)>>
         /\ FilterShape = <<KC(layer), KH(layer), KW(layer)>>
         /\ Len(Trained.weights) = Units(layer) * (KC(layer) * KH(layer) * KW(layer))
         /\ Len(Trained.weights) % Area = 0
  <1> DEFINE n == Units(layer)
             c == KC(layer)
             h == KH(layer)
             k == KW(layer)
             m == Len(Trained.weights)
             e == h * k
  <1>1. /\ h \in Positive /\ k \in Positive /\ c \in Positive /\ n \in Positive
        /\ CreateShape2(KernelSize(layer)) = <<h, k>>
        /\ Counted(Exported(layer).weights, n * c * h * k)
    BY KernelOfConvolution
  <1>2. Size2 = <<h, k>>
    BY <1>1 DEF Size2
  <1>3. Area = e
    BY <1>2 DEF Area
  <1>4. m = n * c * h * k
    BY <1>1 DEF Counted
  <1> HIDE DEF n, c, h, k
  <1>5. /\ n * c \in Positive /\ e \in Positive /\ c * h \in Positive
    BY <1>1, ProductOfPositives
  <1>6. n * c * h * k = (n * c) * e
    BY <1>1 DEF Positive
  <1>7. n * c * h * k = c * (e * n)
    <2>1. c * (e * n) = (c * n) * e
      <3> HIDE DEF e
      <3> QED  BY <1>1, <1>5 DEF Positive
    <2>2. c * n = n * c
      BY <1>1 DEF Positive
    <2> QED  BY <1>6, <2>1, <2>2
  <1>8. n * c * h * k = n * (c * h * k)
    <2>1. n * (c * e) = (n * c) * e
      <3> HIDE DEF e
      <3> QED  BY <1>1, <1>5 DEF Positive
    <2>2. c * h * k = c * e
      BY <1>1 DEF Positive
    <2> QED  BY <1>6, <2>1, <2>2
  <1> HIDE DEF e, m
  <1>9. m % e = 0
    BY <1>4, <1>5, <1>6, Quotient DEF Positive
  <1>10. m \div (e * n) = c
    <2>1. e * n \in Positive /\ c \in Nat
      BY <1>1, <1>5, ProductOfPositives DEF Positive
    <2> QED  BY <1>4, <1>7, <2>1, Quotient
  <1>11. FilterShape = <<m \div (e * n), Size2[1], Size2[2]>>
    BY <1>3 DEF FilterShape, m, n
  <1> QED  BY <1>2, <1>3, <1>4, <1>8, <1>9, <1>10, <1>11 DEF n, c, h, k, m

LEMMA SlicesIs ==
  ASSUME layer \in KerasLayers, layer.class = "SeparableConv2D", Trained = Exported(layer)
  PROVE  LET c == Input(layer)[3]
             s == SliceSize[1] * SliceSize[2] IN
         /\ SliceSize = <<DH(layer), DW(layer)>>
         /\ InputDepth = c
         /\ Len(Trained.slices) = c * (1 * DH(layer) * DW(layer))
         /\ Len(Trained.slices) % s = 0
         /\ Len(Trained.weights) = Units(layer) * (c * 1 * 1)
         /\ Len(Trained.weights) % Units(layer) = 0
         /\ Len(Trained.weights) \div InputDepth = Units(layer)
  <1> DEFINE n == Units(layer)
             c == Input(layer)[3]
             h == DH(layer)
             k == DW(layer)
             e == h * k
             m == Len(Trained.slices)
             p == Len(Trained.weights)
  <1>1. /\ h \in Positive /\ k \in Positive /\ c \in Positive /\ n \in Positive
        /\ CreateShape2(SubSeq(layer.depthwise.shape, 1, 2)) = <<h, k>>
        /\ Counted(Exported(layer).slices, 1 * c * h * k)
        /\ Counted(Exported(layer).weights, n * c * 1 * 1)
    BY KernelsOfSeparable
  <1>2. SliceSize = <<h, k>>
    BY <1>1 DEF SliceSize
  <1>3. SliceSize[1] * SliceSize[2] = e
    BY <1>2
  <1>4. m = 1 * c * h * k /\ p = n * c * 1 * 1
    BY <1>1 DEF Counted
  <1>a. InputDepth = m \div e
    BY <1>3 DEF InputDepth
  <1> HIDE DEF n, c, h, k
  <1>5. e \in Positive
    BY <1>1, ProductOfPositives
  <1>6. 1 * c * h * k = c * e /\ c * (1 * h * k) = c * e
    BY <1>1 DEF Positive
  <1>7. n * c * 1 * 1 = n * c /\ n * (c * 1 * 1) = n * c /\ n * c = c * n
    BY <1>1 DEF Positive
  <1> HIDE DEF e, m, p
  <1>8. m = c * e /\ p = n * c /\ p = c * n
    BY <1>4, <1>6, <1>7
  <1>9. m \div e = c /\ m % e = 0 /\ p % n = 0 /\ p \div c = n
    <2>1. n \in Nat /\ c \in Nat
      BY <1>1 DEF Positive
    <2>2. m \div e = c /\ m % e = 0
      BY <1>5, <1>8, <2>1, Quotient
    <2>3. p % n = 0
      BY <1>1, <1>8, <2>1, Quotient
    <2>4. p \div c = n
      BY <1>1, <1>8, <2>1, Quotient
    <2> QED  BY <2>2, <2>3, <2>4
  <1> QED  BY <1>2, <1>3, <1>6, <1>7, <1>8, <1>9, <1>a DEF n, c, h, k, m, p

LEMMA ConcatSeq ==
  ASSUME NEW s, IsSeq(s), NEW t, IsSeq(t)
  PROVE  /\ IsSeq(s \o t) /\ Len(s \o t) = Len(s) + Len(t)
         /\ \A i \in 1 .. Len(s) : (s \o t)[i] = s[i]
         /\ \A i \in 1 .. Len(t) : (s \o t)[Len(s) + i] = t[i]
  <1> DEFINE S == {s[i] : i \in 1 .. Len(s)} \cup {t[i] : i \in 1 .. Len(t)}
  <1>1. s \in Seq(S) /\ t \in Seq(S)
    BY SeqOfItsElements
  <1> HIDE DEF S
  <1>2. s \o t \in Seq(S) /\ Len(s \o t) = Len(s) + Len(t)
    BY <1>1
  <1>3. IsSeq(s \o t)
    BY <1>2, SeqIsSeq
  <1>4. \A i \in 1 .. Len(s) : (s \o t)[i] = s[i]
    BY <1>1
  <1>5. ASSUME NEW i \in 1 .. Len(t) PROVE (s \o t)[Len(s) + i] = t[i]
    BY <1>1
  <1> QED  BY <1>2, <1>3, <1>4, <1>5

\* The matrix of a dense layer: the weights of a cell of the input in a row,
\* the biases in the last.
LEMMA DenseParamsIs ==
  ASSUME layer \in KerasLayers, layer.class = "Dense", Trained = Exported(layer)
  PROVE  LET c == Input(layer)[1]
             n == Units(layer) IN
         /\ DenseParams.shape = <<c + 1, n>>
         /\ Len(Trained.weights) % n = 0
         /\ IsArray(DenseParams)
         /\ \A f \in 0 .. n - 1 :
              /\ \A i \in 0 .. c - 1 : At(DenseParams, <<i, f>>) = At(layer.kernel, <<i, f>>)
              /\ At(DenseParams, <<c, f>>) = Bias[f + 1]
  <1> DEFINE n == Units(layer)
             c == Input(layer)[1]
             w == Trained.weights
             d == w \o Bias
  <1>1. /\ c \in Positive /\ n \in Positive /\ Counted(w, c * n)
        /\ \A i \in 0 .. c - 1, f \in 0 .. n - 1 : w[i * n + f + 1] = At(layer.kernel, <<i, f>>)
    BY KernelOfDense
  <1>2. Bias \in Seq(Nat) /\ Len(Bias) = n
    <2>1. Trained.bias = layer.bias
      BY ExportedIs
    <2> QED  BY <1>1, <2>1, BiasIs, Classes
  <1>3. DenseParams = [shape |-> <<(Len(w) \div n) + 1, n>>, values |-> d]
    BY <1>2 DEF DenseParams, EigenMatFromValues
  <1> HIDE DEF n, c, w
  <1>4. w \in Seq(Nat) /\ Len(w) = c * n /\ c \in Nat /\ n \in Nat /\ c * n \in Nat
    BY <1>1 DEF Counted, Positive
  <1>5. Len(w) \div n = c /\ Len(w) % n = 0
    BY <1>1, <1>4, Quotient
  <1>6. /\ Len(d) = c * n + n
        /\ \A i \in 1 .. c * n : d[i] = w[i]
        /\ \A i \in 1 .. n : d[c * n + i] = Bias[i]
    <2>1. IsSeq(w) /\ IsSeq(Bias)
      BY <1>2, <1>4, SeqIsSeq
    <2>2. /\ Len(d) = Len(w) + Len(Bias)
          /\ \A i \in 1 .. Len(w) : d[i] = w[i]
          /\ \A i \in 1 .. Len(Bias) : d[Len(w) + i] = Bias[i]
      BY <2>1, ConcatSeq
    <2> HIDE DEF d
    <2> QED  BY <1>2, <1>4, <2>2
  <1> HIDE DEF d
  <1>7. DenseParams.shape = <<c + 1, n>> /\ DenseParams.values = d
    BY <1>3, <1>5
  <1>8. IsArray(DenseParams)
    <2>1. Volume(<<c + 1, n>>) = (c + 1) * n
      BY <1>4, Volume2
    <2>2. (c + 1) * n = c * n + n
      BY <1>4
    <2> QED  BY <1>6, <1>7, <2>1, <2>2 DEF IsArray
  <1>9. ASSUME NEW i \in 0 .. c, NEW f \in 0 .. n - 1
        PROVE  At(DenseParams, <<i, f>>) = d[i * n + f + 1]
    <2>1. c + 1 \in Positive /\ i \in 0 .. (c + 1) - 1
      BY <1>4 DEF Positive
    <2>2. PosOf(<<c + 1, n>>, <<i, f>>) = i * n + f
      BY <1>1, <2>1, CellOf2
    <2> QED  BY <1>7, <2>2 DEF At
  <1>10. ASSUME NEW f \in 0 .. n - 1, NEW i \in 0 .. c - 1
         PROVE  At(DenseParams, <<i, f>>) = At(layer.kernel, <<i, f>>)
    <2>1. i * n + f \in 0 .. c * n - 1
      BY <1>1, TwoDigits
    <2>2. i * n + f + 1 \in 1 .. c * n /\ i \in 0 .. c
      BY <1>4, <2>1
    <2> QED  BY <1>1, <1>6, <1>9, <2>2
  <1>11. ASSUME NEW f \in 0 .. n - 1
         PROVE  At(DenseParams, <<c, f>>) = Bias[f + 1]
    <2>1. f + 1 \in 1 .. n /\ c \in 0 .. c /\ c * n + f + 1 = c * n + (f + 1)
      BY <1>4
    <2> QED  BY <1>6, <1>9, <2>1
  <1> QED  BY <1>5, <1>7, <1>8, <1>10, <1>11 DEF n, c, w

LEMMA OneAndTwo ==
  ASSUME NEW a, IsSeq(a), Len(a) = 1, NEW b, IsSeq(b), Len(b) = 2
  PROVE  a \o b = <<a[1], b[1], b[2]>>
  <1> DEFINE c == a \o b
  <1>1. /\ IsSeq(c) /\ Len(c) = Len(a) + Len(b)
        /\ \A i \in 1 .. Len(a) : c[i] = a[i]
    BY ConcatSeq
  <1>4. c[Len(a) + 1] = b[1] /\ c[Len(a) + 2] = b[2]
    <2>1. IsSeq(a) /\ IsSeq(b) /\ 1 \in 1 .. Len(b) /\ 2 \in 1 .. Len(b)
      OBVIOUS
    <2> QED  BY ONLY <2>1, ConcatSeq DEF c
  <1> HIDE DEF c
  <1>2. Len(c) = 3 /\ c[1] = a[1] /\ c[2] = b[1] /\ c[3] = b[2]
    BY <1>1, <1>4
  <1>3. c = <<c[1], c[2], c[3]>>
    BY <1>1, <1>2, ShortSeq
  <1> QED  BY <1>2, <1>3 DEF c

LEMMA OneBefore ==
  ASSUME NEW h, NEW k
  PROVE  << 1 >> \o <<h, k>> = <<1, h, k>>
  <1>1. <<h, k>> \in Seq({h, k}) /\ Len(<<h, k>>) = 2
    OBVIOUS
  <1>2. IsSeq(<< 1 >>) /\ Len(<< 1 >>) = 1 /\ << 1 >>[1] = 1 /\ IsSeq(<<h, k>>)
    BY <1>1, SingletonIsSeq, SeqIsSeq
  <1>3. << 1 >> \o <<h, k>> = << << 1 >>[1], <<h, k>>[1], <<h, k>>[2]>>
    BY <1>1, <1>2, OneAndTwo
  <1> QED  BY <1>3

LEMMA CountsFitLayer ==
  ASSUME layer \in KerasLayers, Trained = Exported(layer)
  PROVE  CountsFit
  <1>b. Trained.bias = layer.bias \/ layer.class \in Poolings
    BY LayerIs, ExportedIs DEF Convolutions
  <1>1. CASE layer.class \in Convolutions
    <2> DEFINE n == Units(layer)
               c == KC(layer)
               h == KH(layer)
               k == KW(layer)
    <2>1. c \in Positive /\ h \in Positive /\ k \in Positive /\ n \in Positive
      BY <1>1, KernelOfConvolution
    <2>2. /\ FilterShape = <<c, h, k>> /\ Len(Trained.weights) = n * (c * h * k)
          /\ Len(Trained.weights) % Area = 0
      BY <1>1, FilterShapeIs
    <2>3. Len(Bias) = n
      BY <1>1, <1>b, <2>1, BiasIs, Classes
    <2>4. Volume(<<c, h, k>>) = c * h * k
      BY <2>1, Volume3 DEF Positive
    <2> HIDE DEF n, c, h, k
    <2>5. EnoughFor(FilterShape, n, Trained.weights, Bias)
      BY <2>2, <2>3, <2>4 DEF EnoughFor
    <2>6. CountsFit <=> /\ layer.class \notin Poolings => Len(Bias) = n
                        /\ Len(Trained.weights) % Area = 0
                        /\ EnoughFor(FilterShape, n, Trained.weights, Bias)
      BY <1>1, Classes DEF CountsFit, n
    <2> QED  BY <2>2, <2>3, <2>5, <2>6
  <1>2. CASE layer.class = "SeparableConv2D"
    <2> DEFINE n == Units(layer)
               c == Input(layer)[3]
               h == DH(layer)
               k == DW(layer)
               s == SliceSize[1] * SliceSize[2]
    <2>1. c \in Positive /\ h \in Positive /\ k \in Positive /\ n \in Positive
      BY <1>2, KernelsOfSeparable
    <2>2. /\ SliceSize = <<h, k>> /\ InputDepth = c
          /\ Len(Trained.slices) = c * (1 * h * k) /\ Len(Trained.slices) % s = 0
          /\ Len(Trained.weights) = n * (c * 1 * 1) /\ Len(Trained.weights) % n = 0
          /\ Len(Trained.weights) \div InputDepth = n
      BY <1>2, SlicesIs
    <2>3. Len(Bias) = n
      BY <1>2, <1>b, <2>1, BiasIs, Classes
    <2> HIDE DEF n, c, h, k, s
    <2>4. Volume(<<1, h, k>>) = 1 * h * k /\ Volume(<<c, 1, 1>>) = c * 1 * 1
      BY <2>1, Volume3 DEF Positive
    <2>5. << 1 >> \o SliceSize = <<1, h, k>>
      BY <2>2, OneBefore
    <2>6. Len(Slices) = c
      BY <2>1, <2>2 DEF Slices, Positive
    <2>7. /\ EnoughFor(<< 1 >> \o SliceSize, InputDepth, Trained.slices, Slices)
          /\ EnoughFor(<<InputDepth, 1, 1>>, n, Trained.weights, Bias)
      BY <2>2, <2>3, <2>4, <2>5, <2>6 DEF EnoughFor
    <2>8. CountsFit <=>
            /\ layer.class \notin Poolings => Len(Bias) = n
            /\ Len(Trained.slices) % s = 0
            /\ Len(Trained.weights) % n = 0
            /\ Len(Trained.weights) \div InputDepth = n
            /\ EnoughFor(<< 1 >> \o SliceSize, InputDepth, Trained.slices, Slices)
            /\ EnoughFor(<<InputDepth, 1, 1>>, n, Trained.weights, Bias)
      BY <1>2, Classes DEF CountsFit, n, s
    <2> QED  BY <2>2, <2>3, <2>7, <2>8
  <1>3. CASE layer.class = "Dense"
    <2> DEFINE n == Units(layer)
    <2>1. n \in Positive
      BY <1>3, KernelOfDense
    <2>2. Len(Trained.weights) % n = 0 /\ IsArray(DenseParams)
      BY <1>3, DenseParamsIs
    <2>3. Len(Bias) = n
      BY <1>3, <1>b, <2>1, BiasIs, Classes
    <2>4. CountsFit <=> /\ layer.class \notin Poolings => Len(Bias) = n
                        /\ Len(Trained.weights) % Len(Bias) = 0
                        /\ Len(Trained.weights) % n = 0
                        /\ IsArray(DenseParams)
      BY <1>3, Classes DEF CountsFit, n
    <2> QED  BY <2>2, <2>3, <2>4
  <1>4. CASE layer.class \in Poolings
    BY <1>4, Classes DEF CountsFit
  <1> QED  BY <1>1, <1>2, <1>3, <1>4, LayerIs

\* The tensor3 of the input: the last axis are the channels.
LEMMA InputTensorShape ==
  ASSUME layer \in KerasLayers
  PROVE  LET s == Input(layer) IN
         /\ InputTensor.shape = <<Chans(s), Rows(s), Cols(s)>>
         /\ Depth(InputTensor) = Chans(s)
         /\ Height(InputTensor) = Rows(s)
         /\ Width(InputTensor) = Cols(s)
  <1> DEFINE s == Input(layer)
             r == Reshape(InputArray, ThreeAxes(s))
  <1>1. ThreeAxes(s) = <<Rows(s), Cols(s), Chans(s)>>
    BY InputShape, ThreeAxesOf
  <1>2. r.shape = <<Rows(s), Cols(s), Chans(s)>>
    <2> HIDE DEF s
    <2>1. r.shape = ThreeAxes(s)
      BY DEF Reshape
    <2> QED  BY <1>1, <2>1
  <1> HIDE DEF r
  <1>3. ChannelsFirst(r).shape = <<r.shape[3], r.shape[1], r.shape[2]>>
    BY DEF ChannelsFirst
  <1>4. InputTensor = ChannelsFirst(r)
    BY DEF InputTensor, r
  <1> HIDE DEF s
  <1>5. InputTensor.shape = <<Chans(s), Rows(s), Cols(s)>>
    BY <1>2, <1>3, <1>4
  <1> QED  BY <1>5 DEF Depth, Height, Width, s

\* The filters of a convolution.
FilterShaped(d, h, w, vs) == [shape |-> <<d, h, w>>, values |-> vs]

\* g holds n filters of d channels, h rows and w columns with the weights v,
\* one after the other, and the biases b.
AreFilters(g, rate, d, h, w, n, v, b) ==
  LET e == d * h * w IN
  /\ Len(g) = n
  /\ g = [f \in 1 .. n |-> g[f]]
  /\ \A f \in 1 .. n :
       g[f] = [m |-> DilateTensor3(rate,
                       FilterShaped(d, h, w, SubSeq(v, (f - 1) * e + 1, f * e))),
               bias |-> b[f]]

LEMMA FiltersAre ==
  ASSUME NEW rate, NEW d \in Positive, NEW h \in Positive, NEW w \in Positive, NEW n \in Positive,
         NEW v, NEW b
  PROVE  AreFilters(GenerateFilters(rate, <<d, h, w>>, n, v, b), rate, d, h, w, n, v, b)
  <1> DEFINE s == <<d, h, w>>
             F(f) == [m |-> DilateTensor3(rate, [shape |-> s,
                              values |-> SubSeq(v, (f - 1) * Volume(s) + 1, f * Volume(s))]),
                      bias |-> b[f]]
             g == GenerateFilters(rate, s, n, v, b)
  <1>1. g = [f \in 1 .. n |-> F(f)]
    BY DEF GenerateFilters
  <1>2. Volume(s) = d * h * w
    BY Volume3 DEF Positive
  <1> HIDE DEF g
  <1>3. Len(g) = n
    <2> HIDE DEF F
    <2>1. g = [f \in 1 .. n |-> g[f]] /\ n \in Nat
      BY <1>1 DEF Positive
    <2> QED  BY <2>1, FunctionIsSeq
  <1>4. g = [f \in 1 .. n |-> g[f]] /\ \A f \in 1 .. n : g[f] = F(f)
    <2> HIDE DEF F
    <2> QED  BY <1>1
  <1>5. \A f \in 1 .. n :
          F(f) = [m |-> DilateTensor3(rate,
                          FilterShaped(d, h, w, SubSeq(v, (f - 1) * (d * h * w) + 1,
                                                       f * (d * h * w)))),
                  bias |-> b[f]]
    BY <1>2 DEF FilterShaped
  <1> HIDE DEF F
  <1> QED  BY <1>3, <1>4, <1>5 DEF g, AreFilters

LEMMA AFilter ==
  ASSUME NEW g, NEW rate, NEW d, NEW h, NEW w, NEW n, NEW v, NEW b,
         AreFilters(g, rate, d, h, w, n, v, b), NEW f \in 1 .. n
  PROVE  LET e == d * h * w IN
         /\ g[f].m = DilateTensor3(rate,
                       FilterShaped(d, h, w, SubSeq(v, (f - 1) * e + 1, f * e)))
         /\ g[f].bias = b[f]
  <1> DEFINE m == DilateTensor3(rate, FilterShaped(d, h, w,
                    SubSeq(v, (f - 1) * (d * h * w) + 1, f * (d * h * w))))
  <1>1. g[f] = [m |-> m, bias |-> b[f]]
    BY DEF AreFilters
  <1> HIDE DEF m
  <1>2. g[f].m = m /\ g[f].bias = b[f]
    BY <1>1
  <1> QED  BY <1>2 DEF m

LEMMA DilatedFilterShape ==
  ASSUME NEW rate, NEW d, NEW h, NEW w, NEW vs
  PROVE  LET m == DilateTensor3(rate, FilterShaped(d, h, w, vs)) IN
         m.shape = <<d, (h - 1) * rate[1] + 1, (w - 1) * rate[2] + 1>>
  <1> DEFINE t == FilterShaped(d, h, w, vs)
  <1>1. Depth(t) = d /\ Height(t) = h /\ Width(t) = w
    BY DEF FilterShaped, Depth, Height, Width
  <1> HIDE DEF t
  <1> DEFINE p == (h - 1) * rate[1] + 1
             q == (w - 1) * rate[2] + 1
             V == [i \in 1 .. d * p * q |->
                     LET y == ((i - 1) \div q) % p
                         x == (i - 1) % q IN
                     IF y % rate[1] = 0 /\ x % rate[2] = 0
                     THEN Get(t, (i - 1) \div (p * q), y \div rate[1], x \div rate[2]) ELSE 0]
  <1>2. DilateTensor3(rate, t) = [shape |-> <<d, p, q>>, values |-> V]
    BY <1>1 DEF DilateTensor3, Tensor
  <1> HIDE DEF p, q, V
  <1>3. DilateTensor3(rate, t).shape = <<d, p, q>>
    BY <1>2
  <1> QED  BY <1>3 DEF t, p, q

(***************************************************************************)
(* Tensors: padding, dilated filters, and what a window sums up.           *)
(***************************************************************************)
\* The cell at row i and column j, nothing outside the image.
CellIn(t, z, i, j) == IF <<i, j>> \in Spatial(t) THEN Get(t, z, i, j) ELSE {}

LEMMA ShapedTensor ==
  ASSUME NEW t, NEW d, NEW h, NEW w, t.shape = <<d, h, w>>
  PROVE  Depth(t) = d /\ Height(t) = h /\ Width(t) = w
  BY DEF Depth, Height, Width

\* The cells of p are those of t, with noughts around them.
PaddedBy(p, t, top, bottom, left, right) ==
  \A z \in 0 .. Depth(t) - 1, y \in 0 .. Height(t) + top + bottom - 1,
     x \in 0 .. Width(t) + left + right - 1 :
    Get(p, z, y, x) = CellIn(t, z, y - top, x - left)

LEMMA PaddedCells ==
  ASSUME NEW t, Depth(t) \in Positive, Height(t) \in Positive, Width(t) \in Positive,
         NEW top \in Nat, NEW bottom \in Nat, NEW left \in Nat, NEW right \in Nat
  PROVE  PaddedBy(PadTensor3({}, top, bottom, left, right, t), t, top, bottom, left, right)
  <1> DEFINE d == Depth(t)
             h == Height(t)
             w == Width(t)
             r == h + top + bottom
             q == w + left + right
             p == PadTensor3({}, top, bottom, left, right, t)
             F(z, y, x) == CellIn(t, z, y - top, x - left)
             V == [i \in 1 .. d * r * q |->
                     F((i - 1) \div (r * q), ((i - 1) \div q) % r, (i - 1) % q)]
  <1>1. d \in Positive /\ h \in Positive /\ w \in Positive
    OBVIOUS
  <1>2. p = [shape |-> <<d, r, q>>, values |-> V]
    BY DEF PadTensor3, Tensor, CellIn
  <1> HIDE DEF d, h, w
  <1>3. r \in Positive /\ q \in Positive
    BY <1>1 DEF Positive
  <1> HIDE DEF r, q, F, p
  <1>4. p.shape = <<d, r, q>> /\ p.values = V
    <2> HIDE DEF V
    <2> QED  BY <1>2
  <1>5. Depth(p) = d /\ Height(p) = r /\ Width(p) = q
    BY <1>4, ShapedTensor
  <1>6. ASSUME NEW z \in 0 .. d - 1, NEW y \in 0 .. r - 1, NEW x \in 0 .. q - 1
        PROVE  Get(p, z, y, x) = F(z, y, x)
    <2> DEFINE i == (z * r + y) * q + x + 1
    <2>1. /\ i \in 1 .. d * r * q /\ (i - 1) \div (r * q) = z
          /\ ((i - 1) \div q) % r = y /\ (i - 1) % q = x
      BY <1>1, <1>3, TensorPosition
    <2>2. Get(p, z, y, x) = p.values[i]
      BY <1>5 DEF Get
    <2> HIDE DEF i
    <2>3. V[i] = F(z, y, x)
      BY <2>1
    <2> QED  BY <1>4, <2>2, <2>3
  <1> HIDE DEF V
  <1>7. \A z \in 0 .. d - 1, y \in 0 .. r - 1, x \in 0 .. q - 1 :
          Get(p, z, y, x) = CellIn(t, z, y - top, x - left)
    BY <1>6 DEF F
  <1>8. ASSUME NEW z \in 0 .. d - 1, NEW y \in 0 .. h + top + bottom - 1,
               NEW x \in 0 .. w + left + right - 1
        PROVE  Get(p, z, y, x) = CellIn(t, z, y - top, x - left)
    <2>1. y \in 0 .. r - 1 /\ x \in 0 .. q - 1
      BY <1>1 DEF r, q, Positive
    <2> QED  BY <1>7, <2>1
  <1> QED  BY <1>8 DEF p, d, h, w, PaddedBy

\* The multiples of r among the first p naturals are h, the last of them p - 1.
AreMultiples(r, h, p) ==
  /\ \A y \in 0 .. p - 1 : (y % r) = 0 => y \div r \in 0 .. h - 1 /\ y = r * (y \div r)
  /\ \A a \in 0 .. h - 1 :
       r * a \in 0 .. p - 1 /\ ((r * a) % r) = 0 /\ (r * a) \div r = a

LEMMA Multiples ==
  ASSUME NEW r \in Positive, NEW h \in Positive
  PROVE  Reach(h, r) \in Positive /\ AreMultiples(r, h, Reach(h, r))
  <1> DEFINE m == (h - 1) * r
  <1>1. m \in Nat /\ h - 1 \in Nat
    BY DEF Positive
  <1>2. ASSUME NEW y \in 0 .. m, y % r = 0
        PROVE  y \div r \in 0 .. h - 1 /\ y = r * (y \div r)
    <2> DEFINE q == y \div r
    <2>1. y \in Nat /\ q \in Nat /\ y = q * r + 0
      <3>1. y \in Nat
        BY <1>1
      <3> QED  BY <1>2, <3>1, QuotientOf
    <2> HIDE DEF q
    <2>2. q * r = r * q /\ q * r \in Int
      BY <2>1 DEF Positive
    <2>a. y = q * r
      BY <2>1, <2>2
    <2>3. q <= h - 1
      <3>1. ASSUME q >= h PROVE FALSE
        <4>1. q * r >= h * r /\ h * r = m + r
          BY <2>1, <3>1 DEF Positive
        <4>2. q * r <= m
          BY <2>a
        <4> HIDE DEF m
        <4>3. q * r \in Int
          BY <2>1 DEF Positive
        <4> QED  BY <1>1, <4>1, <4>2, <4>3 DEF Positive
      <3> QED  BY <2>1, <3>1 DEF Positive
    <2>4. y = r * q
      BY <2>2, <2>a
    <2> QED  BY <1>1, <2>1, <2>3, <2>4 DEF q
  <1>3. ASSUME NEW a \in 0 .. h - 1
        PROVE  r * a \in 0 .. m /\ (r * a) % r = 0 /\ (r * a) \div r = a
    <2>1. a \in Nat /\ a <= h - 1
      BY <1>1
    <2>2. a * r <= m /\ a * r \in Nat /\ r * a = a * r
      BY <1>1, <2>1 DEF Positive
    <2>3. (a * r) \div r = a /\ (a * r) % r = 0
      BY <2>1, Quotient
    <2> HIDE DEF m
    <2> QED  BY <1>1, <2>2, <2>3
  <1>4. (m + 1) - 1 = m /\ m + 1 \in Positive
    BY <1>1 DEF Positive
  <1> HIDE DEF m
  <1>5. 0 .. (m + 1) - 1 = 0 .. m
    BY <1>4
  <1>6. Reach(h, r) = m + 1
    BY DEF Reach, m
  <1>7. \A y \in 0 .. (m + 1) - 1 : (y % r) = 0 => y \div r \in 0 .. h - 1 /\ y = r * (y \div r)
    BY ONLY <1>2, <1>5
  <1>8. \A a \in 0 .. h - 1 :
          r * a \in 0 .. (m + 1) - 1 /\ ((r * a) % r) = 0 /\ (r * a) \div r = a
    BY ONLY <1>3, <1>5
  <1>9. AreMultiples(r, h, m + 1)
    BY ONLY <1>7, <1>8 DEF AreMultiples
  <1> QED  BY <1>4, <1>6, <1>9

\* A dilated filter has its weights at the multiples of the rates.
Spread(ws, vs, d, h, r, w, s) ==
  LET p == Reach(h, r)
      q == Reach(w, s) IN
  /\ ws = [i \in 1 .. d * p * q |-> ws[i]]
  /\ \A z \in 0 .. d - 1, y \in 0 .. p - 1, x \in 0 .. q - 1 :
       ws[(z * p + y) * q + x + 1] =
         IF (y % r) = 0 /\ (x % s) = 0
         THEN vs[(z * h + (y \div r)) * w + (x \div s) + 1] ELSE 0

LEMMA DilatedCells ==
  ASSUME NEW rate, NEW r \in Positive, NEW s \in Positive, rate = <<r, s>>,
         NEW d \in Positive, NEW h \in Positive, NEW w \in Positive, NEW vs
  PROVE  LET m == DilateTensor3(rate, FilterShaped(d, h, w, vs)) IN
         /\ m.shape = <<d, Reach(h, r), Reach(w, s)>>
         /\ Spread(m.values, vs, d, h, r, w, s)
  <1> DEFINE t == FilterShaped(d, h, w, vs)
             m == DilateTensor3(rate, t)
             p == Reach(h, r)
             q == Reach(w, s)
             F(z, y, x) == IF y % r = 0 /\ x % s = 0 THEN Get(t, z, y \div r, x \div s) ELSE 0
             V == [i \in 1 .. d * p * q |->
                     F((i - 1) \div (p * q), ((i - 1) \div q) % p, (i - 1) % q)]
  <1>1. Depth(t) = d /\ Height(t) = h /\ Width(t) = w /\ t.values = vs
    BY DEF FilterShaped, Depth, Height, Width
  <1>2. \A z, y, x : Get(t, z, y, x) = vs[(z * h + y) * w + x + 1]
    BY <1>1 DEF Get
  <1> HIDE DEF t
  <1>3. m = [shape |-> <<d, p, q>>, values |-> V]
    BY <1>1 DEF DilateTensor3, Tensor, Reach
  <1>4. p \in Positive /\ q \in Positive
    BY Multiples
  <1> HIDE DEF p, q, F, m
  <1>5. m.shape = <<d, p, q>> /\ m.values = V
    <2> HIDE DEF V
    <2> QED  BY <1>3
  <1>6. ASSUME NEW z \in 0 .. d - 1, NEW y \in 0 .. p - 1, NEW x \in 0 .. q - 1
        PROVE  V[(z * p + y) * q + x + 1] = F(z, y, x)
    <2> DEFINE i == (z * p + y) * q + x + 1
    <2>1. /\ i \in 1 .. d * p * q /\ (i - 1) \div (p * q) = z
          /\ ((i - 1) \div q) % p = y /\ (i - 1) % q = x
      BY <1>4, TensorPosition
    <2> HIDE DEF i
    <2>2. V[i] = F(z, y, x)
      BY <2>1
    <2> QED  BY <2>2 DEF i
  <1>7. V = [i \in 1 .. d * p * q |-> V[i]]
    OBVIOUS
  <1> HIDE DEF V
  <1>8. \A z, y, x : F(z, y, x) = IF (y % r) = 0 /\ (x % s) = 0
                                  THEN vs[(z * h + (y \div r)) * w + (x \div s) + 1] ELSE 0
    BY <1>2 DEF F
  <1> QED  BY <1>5, <1>6, <1>7, <1>8 DEF m, t, p, q, Spread

\* The sum of the products of two rows and of the bias.
LEMMA DotOf ==
  ASSUME NEW N \in Nat, NEW r, IsSeq(r), Len(r) = N, NEW c, IsSeq(c), Len(c) = N, NEW b, NEW v
  PROVE  v \in Dot(r \o << b >>, c \o << One >>)
           <=> (\E i \in 1 .. N : v \in Times(r[i], c[i])) \/ v \in Times(b, One)
  <1> DEFINE R == r \o << b >>
             C == c \o << One >>
             B == << b >>
             O == << One >>
  <1>1. /\ IsSeq(B) /\ Len(B) = 1 /\ B[1] = b
        /\ IsSeq(O) /\ Len(O) = 1 /\ O[1] = One
    BY SingletonIsSeq
  <1>2. IsSeq(R) /\ Len(R) = Len(r) + Len(B) /\ \A i \in 1 .. Len(r) : R[i] = r[i]
    <2> HIDE DEF B
    <2>1. IsSeq(r) /\ IsSeq(B)
      BY <1>1
    <2> QED  BY ONLY <2>1, ConcatSeq DEF R, B
  <1>3. IsSeq(C) /\ Len(C) = Len(c) + Len(O) /\ \A i \in 1 .. Len(c) : C[i] = c[i]
    <2> HIDE DEF O
    <2>1. IsSeq(c) /\ IsSeq(O)
      BY <1>1
    <2> QED  BY ONLY <2>1, ConcatSeq DEF C, O
  <1>4. R[Len(r) + 1] = B[1]
    <2> HIDE DEF B
    <2>1. IsSeq(r) /\ IsSeq(B) /\ 1 \in 1 .. Len(B)
      BY <1>1
    <2> QED  BY ONLY <2>1, ConcatSeq DEF R, B
  <1>5. C[Len(c) + 1] = O[1]
    <2> HIDE DEF O
    <2>1. IsSeq(c) /\ IsSeq(O) /\ 1 \in 1 .. Len(O)
      BY <1>1
    <2> QED  BY ONLY <2>1, ConcatSeq DEF C, O
  <1> HIDE DEF R, C, B, O
  <1>6. R = [i \in 1 .. N + 1 |-> R[i]]
    BY <1>1, <1>2 DEF IsSeq
  <1>7. DOMAIN R = 1 .. N + 1
    BY <1>6
  <1>8. Dot(R, C) = UNION {Times(R[i], C[i]) : i \in 1 .. N + 1}
    BY <1>7 DEF Dot
  <1>9. v \in Dot(R, C) <=> \E i \in 1 .. N + 1 : v \in Times(R[i], C[i])
    BY <1>8
  <1>10. /\ \A i \in 1 .. N : Times(R[i], C[i]) = Times(r[i], c[i])
         /\ Times(R[N + 1], C[N + 1]) = Times(b, One)
    BY <1>1, <1>2, <1>3, <1>4, <1>5
  <1>11. (\E i \in 1 .. N + 1 : v \in Times(R[i], C[i]))
            <=> (\E i \in 1 .. N : v \in Times(r[i], c[i])) \/ v \in Times(b, One)
    <2>1. 1 .. N + 1 = (1 .. N) \cup {N + 1}
      OBVIOUS
    <2> QED  BY <1>10, <2>1
  <1> QED  BY <1>9, <1>11 DEF R, C, B, O

\* The row of the first cell under the first window, counted from the first
\* row of the image.
First(axis, u) == (IF u THEN Left(axis) \div 2 ELSE 0) - Pad(axis) \div 2

\* The plan of the windows along one axis.
PlanOf(axis, u) == Along(Dilated(axis), u)!Plan

LEMMA PlanOfIs ==
  ASSUME NEW axis, IsAxis(axis), NEW u \in BOOLEAN
  PROVE  LET p == PlanOf(axis, u)
             o == IF u THEN Left(axis) \div 2 ELSE 0 IN
         /\ p.out = Out(axis) /\ p.out \in Positive
         /\ p.top \in Nat /\ p.bottom \in Nat /\ p.top + p.bottom = Pad(axis)
         /\ p.offset = o
         /\ o \in 0 .. Left(axis) \div 2
         /\ First(axis, u) = o - p.top /\ First(axis, u) \in Int
  <1> DEFINE p == PlanOf(axis, u)
             g == Pad(axis)
             l == Left(axis)
  <1>1. /\ p.out = Out(axis) /\ p.top = g \div 2 /\ p.bottom = g - g \div 2
        /\ p.offset = IF u THEN l \div 2 ELSE 0
    BY PlanIs DEF PlanOf
  <1>2. Out(axis) \in Positive /\ g \in Nat /\ l \in 0 .. axis.step - 1 /\ axis.step \in Positive
    BY WhatIsLeft DEF IsAxis
  <1>3. First(axis, u) = (IF u THEN l \div 2 ELSE 0) - g \div 2
    BY DEF First
  <1> DEFINE e == IF u THEN l \div 2 ELSE 0
  <1> HIDE DEF p, g, l
  <1>4. g \div 2 \in Nat /\ g - g \div 2 \in Nat /\ l \div 2 \in Nat
    BY <1>2 DEF Positive
  <1>5. e \in 0 .. l \div 2 /\ e \in Int /\ p.offset = e /\ First(axis, u) = e - g \div 2
    BY <1>1, <1>3, <1>4
  <1> HIDE DEF e
  <1>6. /\ p.out = Out(axis) /\ p.out \in Positive
        /\ p.top \in Nat /\ p.bottom \in Nat /\ p.top + p.bottom = g
        /\ First(axis, u) = e - p.top /\ First(axis, u) \in Int
    BY <1>1, <1>2, <1>4, <1>5
  <1> QED  BY <1>5, <1>6 DEF p, g, l, e

\* What convolve and the pooling loops plan for an image.
LEMMA PreprocessIs ==
  ASSUME NEW t, NEW ay, NEW ax, Height(t) = ay.size, Width(t) = ax.size,
         NEW u \in BOOLEAN, ay.padding = ax.padding
  PROVE  PreprocessConvolution(Extent(ay), Extent(ax), <<ay.step, ax.step>>, ay.padding, u, t)
           = [y |-> PlanOf(ay, u), x |-> PlanOf(ax, u)]
  <1> DEFINE h == Extent(ay)
             w == Extent(ax)
             s == <<ay.step, ax.step>>
  <1>1. PreprocessConvolution(h, w, s, ay.padding, u, t)
          = [y |-> Along(Axis(Height(t), h, 1, s[1], ay.padding), u)!Plan,
             x |-> Along(Axis(Width(t), w, 1, s[2], ay.padding), u)!Plan]
    BY DEF PreprocessConvolution
  <1>2. /\ Axis(Height(t), h, 1, s[1], ay.padding) = Dilated(ay)
        /\ Axis(Width(t), w, 1, s[2], ay.padding) = Dilated(ax)
    BY DEF Dilated
  <1>3. /\ PlanOf(ay, u) = Along(Dilated(ay), u)!Plan
        /\ PlanOf(ax, u) = Along(Dilated(ax), u)!Plan
    BY DEF PlanOf
  <1> QED  BY <1>1, <1>2, <1>3

\* The cells of a column, in the order of the dilated weights.
Gathered(c, d, t, ay, ax, u, y, x) ==
  LET p == Extent(ay)
      q == Extent(ax) IN
  /\ c = [i \in 1 .. d * p * q |-> c[i]]
  /\ \A z \in 0 .. d - 1, i \in 0 .. p - 1, j \in 0 .. q - 1 :
       c[(z * p + i) * q + j + 1]
         = CellIn(t, z, First(ay, u) + ay.step * y + i, First(ax, u) + ax.step * x + j)

\* The cells under a window, in the order of the filter's weights.
LEMMA ColumnCells ==
  ASSUME NEW t, NEW d \in Positive, NEW ay, IsAxis(ay), NEW ax, IsAxis(ax),
         t.shape = <<d, ay.size, ax.size>>, NEW u \in BOOLEAN,
         NEW filter, filter.m.shape = <<d, Extent(ay), Extent(ax)>>,
         NEW y \in 0 .. Out(ay) - 1, NEW x \in 0 .. Out(ax) - 1
  PROVE  LET cfg == [y |-> PlanOf(ay, u), x |-> PlanOf(ax, u)]
             padded == PadTensor3({}, cfg.y.top, cfg.y.bottom, cfg.x.top, cfg.x.bottom, t) IN
         \E c : /\ Column(filter, <<ay.step, ax.step>>, cfg, padded, y, x) = c \o << One >>
                /\ Gathered(c, d, t, ay, ax, u, y, x)
  <1> DEFINE p == Extent(ay)
             q == Extent(ax)
             s == <<ay.step, ax.step>>
             P == PlanOf(ay, u)
             Q == PlanOf(ax, u)
             cfg == [y |-> P, x |-> Q]
             padded == PadTensor3({}, cfg.y.top, cfg.y.bottom, cfg.x.top, cfg.x.bottom, t)
             F(z, i, j) == Get(padded, z, cfg.y.offset + s[1] * y + i, cfg.x.offset + s[2] * x + j)
             c == [i \in 1 .. d * p * q |->
                     F((i - 1) \div (p * q), ((i - 1) \div q) % p, (i - 1) % q)]
  <1>1. Depth(filter.m) = d /\ Height(filter.m) = p /\ Width(filter.m) = q
    BY ShapedTensor
  <1>2. Column(filter, s, cfg, padded, y, x) = c \o << One >>
    <2> HIDE DEF p, q, s, cfg, padded
    <2> DEFINE T == [shape |-> <<d, p, q>>, values |-> c]
    <2>1. Column(filter, s, cfg, padded, y, x) = T.values \o << One >>
      BY <1>1 DEF Column, Tensor
    <2>2. T.values = c
      <3> HIDE DEF c
      <3> QED  OBVIOUS
    <2> QED  BY <2>1, <2>2
  <1>3. p \in Positive /\ q \in Positive
    BY ExtentIs
  <1>4. /\ P.top \in Nat /\ P.bottom \in Nat /\ P.top + P.bottom = Pad(ay)
        /\ P.offset \in 0 .. Left(ay) \div 2 /\ First(ay, u) = P.offset - P.top
    BY PlanOfIs
  <1>5. /\ Q.top \in Nat /\ Q.bottom \in Nat /\ Q.top + Q.bottom = Pad(ax)
        /\ Q.offset \in 0 .. Left(ax) \div 2 /\ First(ax, u) = Q.offset - Q.top
    BY PlanOfIs
  <1>6. ASSUME NEW z \in 0 .. d - 1, NEW i \in 0 .. p - 1, NEW j \in 0 .. q - 1
        PROVE  F(z, i, j)
                 = CellIn(t, z, First(ay, u) + ay.step * y + i, First(ax, u) + ax.step * x + j)
    <2> DEFINE m == P.offset + ay.step * y + i
               n == Q.offset + ax.step * x + j
    <2>1. m \in 0 .. ay.size + Pad(ay) - 1 /\ m \in Int
      BY <1>4, WindowInside
    <2>2. n \in 0 .. ax.size + Pad(ax) - 1 /\ n \in Int
      BY <1>5, WindowInside
    <2>3. F(z, i, j) = Get(PadTensor3({}, P.top, P.bottom, Q.top, Q.bottom, t), z, m, n)
      OBVIOUS
    <2>4. ay.size \in Positive /\ ax.size \in Positive
      BY DEF IsAxis
    <2>s. ay.step * y \in Int /\ ax.step * x \in Int
      <3>1. ay.step \in Positive /\ ax.step \in Positive /\ Out(ay) \in Positive
            /\ Out(ax) \in Positive
        BY WhatIsLeft DEF IsAxis
      <3> QED  BY <3>1 DEF Positive
    <2>i. i \in Int /\ j \in Int /\ P.offset \in Int /\ Q.offset \in Int
      <3>1. Left(ay) \in Nat /\ Left(ax) \in Nat
        <4>1. /\ ay.step \in Positive /\ ax.step \in Positive
              /\ Left(ay) \in 0 .. ay.step - 1 /\ Left(ax) \in 0 .. ax.step - 1
          BY WhatIsLeft DEF IsAxis
        <4> QED  BY <4>1 DEF Positive
      <3> HIDE DEF p, q, P, Q
      <3> QED  BY <1>3, <1>4, <1>5, <3>1 DEF Positive
    <2>5. /\ m - P.top = First(ay, u) + ay.step * y + i
          /\ n - Q.top = First(ax, u) + ax.step * x + j
      <3> DEFINE a == ay.step * y
                 b == ax.step * x
      <3> HIDE DEF P, Q, a, b
      <3>1. a \in Int /\ b \in Int
        BY <2>s DEF a, b
      <3>2. (P.offset + a + i) - P.top = P.offset - P.top + a + i
            /\ (Q.offset + b + j) - Q.top = Q.offset - Q.top + b + j
        BY <1>4, <1>5, <2>i, <3>1
      <3> QED  BY <1>4, <1>5, <3>2 DEF a, b
    <2>6. m \in 0 .. ay.size + P.top + P.bottom - 1 /\ n \in 0 .. ax.size + Q.top + Q.bottom - 1
      <3> HIDE DEF m, n, P, Q
      <3> QED  BY <1>4, <1>5, <2>1, <2>2, <2>4 DEF Positive
    <2> HIDE DEF m, n, P, Q, F
    <2>7. Get(PadTensor3({}, P.top, P.bottom, Q.top, Q.bottom, t), z, m, n)
            = CellIn(t, z, m - P.top, n - Q.top)
      <3> DEFINE pt == P.top
                 pb == P.bottom
                 qt == Q.top
                 qb == Q.bottom
                 R == PadTensor3({}, pt, pb, qt, qb, t)
      <3>1. /\ Depth(t) = d /\ Height(t) = ay.size /\ Width(t) = ax.size
            /\ Depth(t) \in Positive /\ Height(t) \in Positive /\ Width(t) \in Positive
        BY <2>4, ShapedTensor
      <3>2. pt \in Nat /\ pb \in Nat /\ qt \in Nat /\ qb \in Nat
        BY <1>4, <1>5
      <3>3. /\ z \in 0 .. Depth(t) - 1
            /\ m \in 0 .. Height(t) + pt + pb - 1 /\ n \in 0 .. Width(t) + qt + qb - 1
        BY <2>6, <3>1
      <3> HIDE DEF pt, pb, qt, qb
      <3>5. Get(R, z, m, n) = CellIn(t, z, m - pt, n - qt)
        <4>1. \A z0 \in 0 .. Depth(t) - 1, y0 \in 0 .. Height(t) + pt + pb - 1,
                 x0 \in 0 .. Width(t) + qt + qb - 1 :
                Get(R, z0, y0, x0) = CellIn(t, z0, y0 - pt, x0 - qt)
          <5>1. PaddedBy(R, t, pt, pb, qt, qb)
            BY <3>1, <3>2, PaddedCells
          <5> HIDE DEF R
          <5> QED  BY <5>1 DEF PaddedBy
        <4> HIDE DEF R
        <4> QED  BY <3>3, <4>1
      <3> QED  BY <3>5 DEF R, pt, pb, qt, qb
    <2> QED  BY <2>3, <2>5, <2>7
  <1>7. ASSUME NEW z \in 0 .. d - 1, NEW i \in 0 .. p - 1, NEW j \in 0 .. q - 1
        PROVE  c[(z * p + i) * q + j + 1] = F(z, i, j)
    <2> HIDE DEF F, p, q
    <2> DEFINE k == (z * p + i) * q + j + 1
    <2>1. /\ k \in 1 .. d * p * q /\ (k - 1) \div (p * q) = z
          /\ ((k - 1) \div q) % p = i /\ (k - 1) % q = j
      BY <1>3, TensorPosition
    <2> HIDE DEF k
    <2>2. c[k] = F(z, i, j)
      BY <2>1
    <2> QED  BY <2>2 DEF k
  <1>8. c = [i \in 1 .. d * p * q |-> c[i]]
    OBVIOUS
  <1>9. \A z \in 0 .. d - 1, i \in 0 .. p - 1, j \in 0 .. q - 1 :
          c[(z * p + i) * q + j + 1]
            = CellIn(t, z, First(ay, u) + ay.step * y + i, First(ax, u) + ax.step * x + j)
    <2> HIDE DEF c, F, p, q
    <2> QED  BY <1>6, <1>7
  <1>10. Gathered(c, d, t, ay, ax, u, y, x)
    <2> HIDE DEF c, F
    <2> QED  BY <1>8, <1>9 DEF Gathered
  <1> HIDE DEF c, s, cfg, padded
  <1>11. \E e : Column(filter, s, cfg, padded, y, x) = e \o << One >>
                /\ Gathered(e, d, t, ay, ax, u, y, x)
    BY <1>2, <1>10
  <1> QED  BY <1>11 DEF s, cfg, padded, P, Q

(***************************************************************************)
(* A layer that is loaded, and why its input fits it.                      *)
(***************************************************************************)
LEMMA MadeIs ==
  ASSUME made = Made
  PROVE  /\ layer.class \in Convolutions =>
              /\ made.filters = GenerateFilters(CreateShape2(layer.dilation), FilterShape,
                                                Units(layer), Trained.weights, Bias)
              /\ made.flags = Flags("conv2d")
         /\ layer.class = "SeparableConv2D" =>
              /\ made.flags = Flags("separable_conv2d")
              /\ made.depthwise = GenerateFilters(layer.dilation, << 1 >> \o SliceSize, InputDepth,
                                                  Trained.slices, Slices)
              /\ made.pointwise = GenerateFilters(<<1, 1>>, <<InputDepth, 1, 1>>, Units(layer),
                                                  Trained.weights, Bias)
         /\ layer.class = "Dense" => made = DenseParams
         /\ layer.class \in MaxPoolings => made = PoolFlags("max_pooling_2d")
         /\ layer.class \in AveragePoolings => made = PoolFlags("average_pooling_2d")
  <1>1. ASSUME layer.class \in Convolutions
        PROVE  Made = [filters |-> GenerateFilters(CreateShape2(layer.dilation), FilterShape,
                                                   Units(layer), Trained.weights, Bias),
                       flags |-> Flags("conv2d")]
    BY <1>1 DEF Made, Convolutions, MaxPoolings, AveragePoolings
  <1>2. ASSUME layer.class = "SeparableConv2D"
        PROVE  Made = [flags |-> Flags("separable_conv2d"),
                       depthwise |-> GenerateFilters(layer.dilation, << 1 >> \o SliceSize,
                                                     InputDepth, Trained.slices, Slices),
                       pointwise |-> GenerateFilters(<<1, 1>>, <<InputDepth, 1, 1>>, Units(layer),
                                                     Trained.weights, Bias)]
    BY <1>2 DEF Made, Convolutions, MaxPoolings, AveragePoolings
  <1>3. layer.class = "Dense" => Made = DenseParams
    BY DEF Made, Convolutions, MaxPoolings, AveragePoolings
  <1>4. layer.class \in MaxPoolings => Made = PoolFlags("max_pooling_2d")
    BY DEF Made, Convolutions, MaxPoolings, AveragePoolings
  <1>5. layer.class \in AveragePoolings => Made = PoolFlags("average_pooling_2d")
    BY DEF Made, Convolutions, MaxPoolings, AveragePoolings
  <1> QED  BY <1>1, <1>2, <1>3, <1>4, <1>5

LEMMA FiltersOfConvolution ==
  ASSUME layer \in KerasLayers, Trained = Exported(layer), made = Made,
         layer.class \in Convolutions
  PROVE  AreFilters(made.filters, CreateShape2(layer.dilation), KC(layer), KH(layer), KW(layer),
                    Units(layer), Trained.weights, Bias)
  <1>1. made.filters = GenerateFilters(CreateShape2(layer.dilation), FilterShape,
                                       Units(layer), Trained.weights, Bias)
    BY MadeIs
  <1>2. FilterShape = <<KC(layer), KH(layer), KW(layer)>>
    BY FilterShapeIs
  <1>3. /\ KH(layer) \in Positive /\ KW(layer) \in Positive /\ KC(layer) \in Positive
        /\ Units(layer) \in Positive
    BY KernelOfConvolution
  <1> QED  BY <1>1, <1>2, <1>3, FiltersAre

LEMMA FiltersOfSeparable ==
  ASSUME layer \in KerasLayers, Trained = Exported(layer), made = Made,
         layer.class = "SeparableConv2D"
  PROVE  /\ AreFilters(made.depthwise, layer.dilation, 1, DH(layer), DW(layer),
                       Input(layer)[3], Trained.slices, Slices)
         /\ AreFilters(made.pointwise, <<1, 1>>, Input(layer)[3], 1, 1,
                       Units(layer), Trained.weights, Bias)
  <1>1. /\ made.depthwise = GenerateFilters(layer.dilation, << 1 >> \o SliceSize, InputDepth,
                                            Trained.slices, Slices)
        /\ made.pointwise = GenerateFilters(<<1, 1>>, <<InputDepth, 1, 1>>, Units(layer),
                                            Trained.weights, Bias)
    BY MadeIs
  <1>2. SliceSize = <<DH(layer), DW(layer)>> /\ InputDepth = Input(layer)[3]
    BY SlicesIs
  <1>3. << 1 >> \o SliceSize = <<1, DH(layer), DW(layer)>>
    BY <1>2, OneBefore
  <1>4. /\ DH(layer) \in Positive /\ DW(layer) \in Positive /\ Input(layer)[3] \in Positive
        /\ Units(layer) \in Positive /\ 1 \in Positive
    BY KernelsOfSeparable DEF Positive
  <1>5. /\ made.depthwise = GenerateFilters(layer.dilation, <<1, DH(layer), DW(layer)>>,
                                            Input(layer)[3], Trained.slices, Slices)
        /\ made.pointwise = GenerateFilters(<<1, 1>>, <<Input(layer)[3], 1, 1>>, Units(layer),
                                            Trained.weights, Bias)
    BY <1>1, <1>2, <1>3
  <1> QED  BY <1>4, <1>5, FiltersAre

\* What Keras has trained fits what the layer was trained on.
LEMMA InputFitsLayer ==
  ASSUME layer \in KerasLayers, Trained = Exported(layer), made = Made
  PROVE  InputFits(InputTensor)
  <1>1. /\ Depth(InputTensor) = Chans(Input(layer))
        /\ Height(InputTensor) = Rows(Input(layer)) /\ Width(InputTensor) = Cols(Input(layer))
    BY InputTensorShape
  <1>2. CASE layer.class \in Convolutions
    <2>1. /\ KC(layer) = Input(layer)[SpatialRank(layer) + 1]
      BY <1>2, KernelOfConvolution
    <2>2. Chans(Input(layer)) = Input(layer)[SpatialRank(layer) + 1]
      BY InputShape
    <2>3. 1 \in 1 .. Units(layer)
      BY <1>2, KernelOfConvolution DEF Positive
    <2>4. AreFilters(made.filters, CreateShape2(layer.dilation), KC(layer), KH(layer),
                     KW(layer), Units(layer), Trained.weights, Bias)
      BY <1>2, FiltersOfConvolution
    <2>5. Depth(made.filters[1].m) = KC(layer)
      BY <2>3, <2>4, AFilter, DilatedFilterShape DEF Depth
    <2> QED  BY <1>1, <1>2, <2>1, <2>2, <2>5, ConvolutionRank DEF InputFits
  <1>3. CASE layer.class = "SeparableConv2D"
    <2>1. Len(made.depthwise) = Input(layer)[3]
      <3>1. AreFilters(made.depthwise, layer.dilation, 1, DH(layer), DW(layer),
                       Input(layer)[3], Trained.slices, Slices)
        BY <1>3, FiltersOfSeparable
      <3> QED  BY <3>1 DEF AreFilters
    <2>2. Chans(Input(layer)) = Input(layer)[3]
      BY <1>3, InputShape, SeparableRank
    <2> QED  BY <1>1, <1>3, <2>1, <2>2 DEF InputFits, Convolutions
  <1>4. CASE layer.class = "Dense"
    <2>1. Len(Input(layer)) = 1
      <3>1. Len(Input(layer)) = SpatialRank(layer) + 1
        BY InputShape
      <3> QED  BY <1>4, <3>1, DenseRank
    <2>2. Rows(Input(layer)) = 1 /\ Cols(Input(layer)) = 1
      BY <2>1 DEF Rows, Cols
    <2> QED  BY <1>1, <1>4, <2>2 DEF InputFits, Convolutions
  <1>5. CASE layer.class \in Poolings
    BY <1>5 DEF InputFits, Convolutions, Poolings, MaxPoolings, AveragePoolings
  <1> QED  BY <1>2, <1>3, <1>4, <1>5, LayerIs

(***************************************************************************)
(* The inductive invariant: what the file holds is what was exported, what *)
(* was made of it what the file says, and the output what was made yields. *)
(***************************************************************************)
WeightInv ==
  /\ layer \in KerasLayers
  /\ phase \in {"trained", "exported", "loaded", "applied"}
  /\ phase # "trained" => params = [offsets |-> Offsets, trainable_params |-> Exported(layer)]
  /\ phase \in {"loaded", "applied"} => made = Made
  /\ phase = "applied" => output = Applied(InputTensor)

LEMMA OffsetsSame ==
  ASSUME UNCHANGED shifted
  PROVE  Offsets' = Offsets
  <1>1. \A o, a : BackendOffset(o, a)' = BackendOffset(o, a)
    BY DEF BackendOffset, Along!TFOut, Along!TFPadding, Along!Filter
  <1>2. \A o : CheckOperationOffset(o)' <=> CheckOperationOffset(o)
    BY DEF CheckOperationOffset, BackendOffset, Along!TFOut, Along!TFPadding, Along!Filter
  <1> QED  BY <1>2 DEF Offsets

LEMMA MadeSame ==
  ASSUME UNCHANGED <<layer, params>>
  PROVE  Made' = Made
  <1>1. Trained' = Trained
    BY DEF Trained
  <1>2. Bias' = Bias
    BY <1>1 DEF Bias
  <1>3. Size2' = Size2 /\ SliceSize' = SliceSize
    BY DEF Size2, SliceSize
  <1>4. Area' = Area
    BY <1>3 DEF Area
  <1>5. FilterShape' = FilterShape /\ InputDepth' = InputDepth
    BY <1>1, <1>3, <1>4 DEF FilterShape, InputDepth
  <1>6. Slices' = Slices
    BY <1>5 DEF Slices
  <1>7. DenseParams' = DenseParams
    BY <1>1, <1>2 DEF DenseParams
  <1>8. \A o : Flags(o)' = Flags(o) /\ PoolFlags(o)' = PoolFlags(o)
    BY DEF Flags, PoolFlags, Flag
  <1> QED  BY <1>1, <1>2, <1>3, <1>4, <1>5, <1>6, <1>7, <1>8 DEF Made

\* The cells of a pooling layer of each kind.
MaxPooled(size, strides, padding, u, t) == Pool2D(size, strides, padding, u, t, Greatest)
MeanPooled(size, strides, padding, u, t) == Pool2D(size, strides, padding, u, t, Mean)

LEMMA AppliedSame ==
  ASSUME UNCHANGED <<layer, made>>
  PROVE  Applied(InputTensor)' = Applied(InputTensor)
  <1>1. InputTensor' = InputTensor
    BY DEF InputTensor, InputArray, Array
  <1>2. \A d : UseOffset(d)' = UseOffset(d)
    BY DEF UseOffset
  <1>3. PoolUseOffset' = PoolUseOffset
    BY DEF PoolUseOffset
  <1>4. \A t : SeparablyConvolved(t)' = SeparablyConvolved(t)
    BY <1>2 DEF SeparablyConvolved
  <1>5. \A t : DenselyApplied(t)' = DenselyApplied(t)
    BY DEF DenselyApplied, Tensor
  <1> DEFINE strides == CreateShape2(layer.strides)
             size == CreateShape2(layer.pool)
             X(t) ==
               CASE layer.class \in Convolutions ->
                      Convolve(made.filters, strides, layer.padding, UseOffset(Depth(t)), t)
                 [] layer.class = "SeparableConv2D" -> SeparablyConvolved(t)
                 [] layer.class = "Dense" -> DenselyApplied(t)
                 [] layer.class \in MaxPoolings ->
                      MaxPooled(size, strides, layer.padding, PoolUseOffset, t)
                 [] layer.class \in AveragePoolings ->
                      MeanPooled(size, strides, layer.padding, PoolUseOffset, t)
  <1>6. \A t : Applied(t) = X(t)
    BY DEF Applied, MaxPooled, MeanPooled
  <1>7. \A t : Applied(t)' = X(t)'
    BY DEF Applied, MaxPooled, MeanPooled
  <1>8. \A t : X(t)' = X(t)
    BY <1>2, <1>3, <1>4, <1>5
  <1> QED  BY <1>1, <1>6, <1>7, <1>8

LEMMA WeightInvInit == Init => WeightInv
  BY DEF Init, WeightInv

LEMMA WeightInvStep == WeightInv /\ [Next]_vars => WeightInv'
  <1> SUFFICES ASSUME WeightInv, [Next]_vars PROVE WeightInv'
    OBVIOUS
  <1>1. ASSUME Export PROVE WeightInv'
    <2>1. layer' = layer /\ shifted' = shifted /\ phase' = "exported"
      BY <1>1 DEF Export
    <2>2. params' = [offsets |-> Offsets, trainable_params |-> Exported(layer)]
      BY <1>1 DEF Export
    <2>3. Offsets' = Offsets
      BY <2>1, OffsetsSame
    <2> QED  BY <2>1, <2>2, <2>3 DEF WeightInv
  <1>2. ASSUME Load PROVE WeightInv'
    <2>1. /\ layer' = layer /\ shifted' = shifted /\ params' = params
          /\ phase = "exported" /\ phase' = "loaded" /\ made' = Made
      BY <1>2 DEF Load
    <2>2. Made' = Made
      BY <2>1, MadeSame
    <2>3. Offsets' = Offsets
      BY <2>1, OffsetsSame
    <2> QED  BY <2>1, <2>2, <2>3 DEF WeightInv
  <1>3. ASSUME ApplyLayer PROVE WeightInv'
    <2>1. /\ layer' = layer /\ shifted' = shifted /\ params' = params /\ made' = made
          /\ phase = "loaded" /\ phase' = "applied" /\ output' = Applied(InputTensor)
      BY <1>3 DEF ApplyLayer
    <2>2. Made' = Made
      BY <2>1, MadeSame
    <2>3. Offsets' = Offsets
      BY <2>1, OffsetsSame
    <2>4. Applied(InputTensor)' = Applied(InputTensor)
      BY <2>1, AppliedSame
    <2> QED  BY <2>1, <2>2, <2>3, <2>4 DEF WeightInv
  <1>4. ASSUME UNCHANGED vars PROVE WeightInv'
    <2>1. /\ layer' = layer /\ shifted' = shifted /\ params' = params /\ made' = made
          /\ phase' = phase /\ output' = output
      BY <1>4 DEF vars
    <2>2. Made' = Made
      BY <2>1, MadeSame
    <2>3. Offsets' = Offsets
      BY <2>1, OffsetsSame
    <2>4. Applied(InputTensor)' = Applied(InputTensor)
      BY <2>1, AppliedSame
    <2> QED  BY <2>1, <2>2, <2>3, <2>4 DEF WeightInv
  <1> QED  BY <1>1, <1>2, <1>3, <1>4 DEF Next

(***************************************************************************)
(* The file holds what was exported, the layer what was made of it, the    *)
(* output what that layer yields: Export, Load and ApplyLayer hand on      *)
(* everything, and nothing else changes it (WeightInv).                    *)
(***************************************************************************)
LEMMA WeightsAreHandedOn == Spec => []WeightInv
  BY WeightInvInit, WeightInvStep, PTL DEF Spec

LEMMA WhatIsTrained ==
  ASSUME WeightInv, phase # "trained"
  PROVE  Trained = Exported(layer) /\ params.offsets = Offsets
  <1> DEFINE o == Offsets
             e == Exported(layer)
  <1>1. params = [offsets |-> o, trainable_params |-> e]
    BY DEF WeightInv
  <1> HIDE DEF o, e
  <1>2. params.trainable_params = e /\ params.offsets = o
    BY <1>1
  <1> QED  BY <1>2 DEF Trained, o, e

LEMMA WeightInvRefusesNothing == WeightInv => NothingRefused
  <1> SUFFICES ASSUME WeightInv PROVE NothingRefused
    OBVIOUS
  <1>1. layer \in KerasLayers
    BY DEF WeightInv
  <1>2. ASSUME phase = "exported" PROVE CountsFit
    BY <1>1, <1>2, WhatIsTrained, CountsFitLayer
  <1>3. ASSUME phase = "loaded" PROVE InputFits(InputTensor)
    <2>1. made = Made
      BY <1>3 DEF WeightInv
    <2> QED  BY <1>1, <1>3, <2>1, WhatIsTrained, InputFitsLayer
  <1> QED  BY <1>2, <1>3 DEF NothingRefused

(***************************************************************************)
(* No layer Keras can train is refused on its way: the counts of weights   *)
(* the creators, generate_filters and dense_layer check are those its      *)
(* export writes, and the input has the depth of the filters               *)
(* (NothingRefused).                                                       *)
(***************************************************************************)
THEOREM EveryLayerIsApplied == Spec => []NothingRefused
  BY WeightsAreHandedOn, WeightInvRefusesNothing, PTL

(***************************************************************************)
(* What one filter sums up under one window.                               *)
(***************************************************************************)
\* The cell of channel z that the weight at row a and column b of a filter
\* lies over, for the window at y, x.
Beneath(t, ay, ax, u, y, x, z, a, b) ==
  CellIn(t, z, First(ay, u) + ay.step * y + ay.spread * a,
               First(ax, u) + ax.step * x + ax.spread * b)

\* v is one of the products of the weights vs with the cells beneath them, or
\* of the bias.
Summand(v, vs, bias, d, t, ay, ax, u, y, x) ==
  \/ \E z \in 0 .. d - 1, a \in 0 .. ay.window - 1, b \in 0 .. ax.window - 1 :
       v \in Times(vs[(z * ay.window + a) * ax.window + b + 1],
                   Beneath(t, ay, ax, u, y, x, z, a, b))
  \/ v \in Times(bias, One)

IsImage(t, d, ay, ax) ==
  /\ d \in Positive /\ IsAxis(ay) /\ IsAxis(ax)
  /\ t.shape = <<d, ay.size, ax.size>>

\* The first part of a summand.
Weighed(v, vs, d, t, ay, ax, u, y, x) ==
  \E z \in 0 .. d - 1, a \in 0 .. ay.window - 1, b \in 0 .. ax.window - 1 :
    v \in Times(vs[(z * ay.window + a) * ax.window + b + 1],
                Beneath(t, ay, ax, u, y, x, z, a, b))

LEMMA WeightsOverCells ==
  ASSUME NEW t, NEW d, NEW ay, NEW ax, IsImage(t, d, ay, ax), NEW u, NEW y, NEW x,
         NEW vs, NEW r, NEW c, Spread(r, vs, d, ay.window, ay.spread, ax.window, ax.spread),
         Gathered(c, d, t, ay, ax, u, y, x), NEW v
  PROVE  (\E i \in 1 .. d * Extent(ay) * Extent(ax) : v \in Times(r[i], c[i]))
           <=> Weighed(v, vs, d, t, ay, ax, u, y, x)
  <1> DEFINE p == Extent(ay)
             q == Extent(ax)
             W(z, a, b) == vs[(z * ay.window + a) * ax.window + b + 1]
             I(z, i, j) == (z * p + i) * q + j + 1
             C(z, i, j) == CellIn(t, z, First(ay, u) + ay.step * y + i,
                                        First(ax, u) + ax.step * x + j)
  <1>1. /\ d \in Positive /\ ay.spread \in Positive /\ ax.spread \in Positive
        /\ ay.window \in Positive /\ ax.window \in Positive /\ IsAxis(ay) /\ IsAxis(ax)
    BY DEF IsAxis, IsImage
  <1>2. p \in Positive /\ q \in Positive
    BY <1>1, ExtentIs
  <1>3. AreMultiples(ay.spread, ay.window, p) /\ AreMultiples(ax.spread, ax.window, q)
    BY <1>1, Multiples DEF Extent
  <1>4. p = Reach(ay.window, ay.spread) /\ q = Reach(ax.window, ax.spread)
    BY DEF Extent
  <1>5. \A z \in 0 .. d - 1, i \in 0 .. p - 1, j \in 0 .. q - 1 :
          /\ r[I(z, i, j)] = IF (i % ay.spread) = 0 /\ (j % ax.spread) = 0
                             THEN W(z, i \div ay.spread, j \div ax.spread) ELSE 0
          /\ c[I(z, i, j)] = C(z, i, j)
    <2>1. \A z \in 0 .. d - 1, i \in 0 .. p - 1, j \in 0 .. q - 1 :
            r[(z * p + i) * q + j + 1]
              = IF (i % ay.spread) = 0 /\ (j % ax.spread) = 0
                THEN vs[(z * ay.window + (i \div ay.spread)) * ax.window + (j \div ax.spread) + 1]
                ELSE 0
      BY ONLY Spread(r, vs, d, ay.window, ay.spread, ax.window, ax.spread) DEF Spread, Extent
    <2>2. \A z \in 0 .. d - 1, i \in 0 .. p - 1, j \in 0 .. q - 1 : c[I(z, i, j)] = C(z, i, j)
      BY ONLY Gathered(c, d, t, ay, ax, u, y, x) DEF Gathered
    <2> QED  BY ONLY <2>1, <2>2
  <1>6. \A z, a, b : Beneath(t, ay, ax, u, y, x, z, a, b) = C(z, ay.spread * a, ax.spread * b)
    BY DEF Beneath
  <1>7. \A i \in 1 .. d * p * q :
          \E z \in 0 .. d - 1, y0 \in 0 .. p - 1, x0 \in 0 .. q - 1 : i = I(z, y0, x0)
    <2> HIDE DEF p, q
    <2> QED  BY <1>1, <1>2, PositionInTensor
  <1>8. \A z \in 0 .. d - 1, y0 \in 0 .. p - 1, x0 \in 0 .. q - 1 : I(z, y0, x0) \in 1 .. d * p * q
    <2> HIDE DEF p, q
    <2> QED  BY <1>1, <1>2, TensorPosition
  <1> HIDE DEF p, q, W, I, C
  <1>9. ASSUME NEW k \in 1 .. d * p * q, v \in Times(r[k], c[k])
        PROVE  \E z \in 0 .. d - 1, a \in 0 .. ay.window - 1, b \in 0 .. ax.window - 1 :
                 v \in Times(W(z, a, b), Beneath(t, ay, ax, u, y, x, z, a, b))
    <2>1. PICK z \in 0 .. d - 1, i \in 0 .. p - 1, j \in 0 .. q - 1 : k = I(z, i, j)
      BY <1>7
    <2>2. (i % ay.spread) = 0 /\ (j % ax.spread) = 0
      BY <1>5, <1>9, <2>1 DEF Times
    <2>3. r[k] = W(z, i \div ay.spread, j \div ax.spread) /\ c[k] = C(z, i, j)
      BY <1>5, <2>1, <2>2
    <2>4. /\ i \div ay.spread \in 0 .. ay.window - 1 /\ i = ay.spread * (i \div ay.spread)
          /\ j \div ax.spread \in 0 .. ax.window - 1 /\ j = ax.spread * (j \div ax.spread)
      BY <1>3, <2>2 DEF AreMultiples
    <2> DEFINE a == i \div ay.spread
               b == j \div ax.spread
    <2> HIDE DEF a, b
    <2>5. /\ v \in Times(W(z, a, b), Beneath(t, ay, ax, u, y, x, z, a, b))
          /\ a \in 0 .. ay.window - 1 /\ b \in 0 .. ax.window - 1
      BY <1>6, <1>9, <2>3, <2>4 DEF a, b
    <2> QED  BY <2>5
  <1>10. ASSUME NEW z \in 0 .. d - 1, NEW a \in 0 .. ay.window - 1, NEW b \in 0 .. ax.window - 1,
                v \in Times(W(z, a, b), Beneath(t, ay, ax, u, y, x, z, a, b))
         PROVE  \E k \in 1 .. d * p * q : v \in Times(r[k], c[k])
    <2> DEFINE i == ay.spread * a
               j == ax.spread * b
    <2>1. /\ i \in 0 .. p - 1 /\ (i % ay.spread) = 0 /\ i \div ay.spread = a
          /\ j \in 0 .. q - 1 /\ (j % ax.spread) = 0 /\ j \div ax.spread = b
      BY <1>3 DEF AreMultiples
    <2>2. Beneath(t, ay, ax, u, y, x, z, a, b) = C(z, i, j)
      BY <1>6
    <2> HIDE DEF i, j
    <2>3. r[I(z, i, j)] = W(z, a, b) /\ c[I(z, i, j)] = C(z, i, j)
      BY <1>5, <2>1
    <2>4. I(z, i, j) \in 1 .. d * p * q
      BY <1>8, <2>1
    <2> QED  BY <1>10, <2>2, <2>3, <2>4
  <1> QED  BY <1>9, <1>10 DEF p, q, W, Weighed

\* What the product of the matrices holds for one filter and one window.
LEMMA WindowSum ==
  ASSUME NEW t, NEW d, NEW ay, NEW ax, IsImage(t, d, ay, ax), NEW u \in BOOLEAN, NEW vs,
         NEW filter, filter.m = DilateTensor3(<<ay.spread, ax.spread>>,
                                              FilterShaped(d, ay.window, ax.window, vs)),
         NEW y \in 0 .. Out(ay) - 1, NEW x \in 0 .. Out(ax) - 1, NEW v
  PROVE  LET cfg == [y |-> PlanOf(ay, u), x |-> PlanOf(ax, u)]
             padded == PadTensor3({}, cfg.y.top, cfg.y.bottom, cfg.x.top, cfg.x.bottom, t) IN
         v \in Dot(Row(filter), Column(filter, <<ay.step, ax.step>>, cfg, padded, y, x))
           <=> Summand(v, vs, filter.bias, d, t, ay, ax, u, y, x)
  <1> DEFINE cfg == [y |-> PlanOf(ay, u), x |-> PlanOf(ax, u)]
             padded == PadTensor3({}, cfg.y.top, cfg.y.bottom, cfg.x.top, cfg.x.bottom, t)
             s == <<ay.step, ax.step>>
             N == d * Extent(ay) * Extent(ax)
             r == filter.m.values
  <1>1. /\ d \in Positive /\ IsAxis(ay) /\ IsAxis(ax) /\ t.shape = <<d, ay.size, ax.size>>
        /\ ay.spread \in Positive /\ ax.spread \in Positive
        /\ ay.window \in Positive /\ ax.window \in Positive
    BY DEF IsImage, IsAxis
  <1>2. /\ filter.m.shape = <<d, Extent(ay), Extent(ax)>>
        /\ Spread(r, vs, d, ay.window, ay.spread, ax.window, ax.spread)
    BY <1>1, DilatedCells DEF Extent
  <1>3. PICK c : Column(filter, s, cfg, padded, y, x) = c \o << One >>
                 /\ Gathered(c, d, t, ay, ax, u, y, x)
    BY <1>1, <1>2, ColumnCells
  <1>4. Row(filter) = r \o <<filter.bias>>
    BY DEF Row
  <1>5. Extent(ay) \in Positive /\ Extent(ax) \in Positive
    BY <1>1, ExtentIs
  <1>6. N \in Nat
    BY <1>1, <1>5, ProductOfPositives DEF Positive
  <1>7. r = [i \in 1 .. N |-> r[i]] /\ c = [i \in 1 .. N |-> c[i]]
    BY <1>2, <1>3 DEF Spread, Gathered, Extent
  <1> HIDE DEF cfg, padded, s, N, r
  <1>8. IsSeq(r) /\ Len(r) = N /\ IsSeq(c) /\ Len(c) = N
    BY <1>6, <1>7, FunctionIsSeq
  <1>9. v \in Dot(r \o <<filter.bias>>, c \o << One >>)
          <=> (\E i \in 1 .. N : v \in Times(r[i], c[i])) \/ v \in Times(filter.bias, One)
    BY <1>6, <1>8, DotOf
  <1>10. (\E i \in 1 .. N : v \in Times(r[i], c[i]))
           <=> \E z \in 0 .. d - 1, a \in 0 .. ay.window - 1, b \in 0 .. ax.window - 1 :
                 v \in Times(vs[(z * ay.window + a) * ax.window + b + 1],
                             Beneath(t, ay, ax, u, y, x, z, a, b))
    <2>1. /\ Spread(r, vs, d, ay.window, ay.spread, ax.window, ax.spread)
          /\ Gathered(c, d, t, ay, ax, u, y, x)
      BY <1>2, <1>3
    <2>2. (\E i \in 1 .. N : v \in Times(r[i], c[i])) <=> Weighed(v, vs, d, t, ay, ax, u, y, x)
      BY <2>1, WeightsOverCells DEF N
    <2> QED  BY <2>2 DEF Weighed
  <1>11. v \in Dot(Row(filter), Column(filter, s, cfg, padded, y, x))
           <=> Summand(v, vs, filter.bias, d, t, ay, ax, u, y, x)
    BY <1>3, <1>4, <1>9, <1>10 DEF Summand
  <1> QED  BY <1>11 DEF cfg, padded, s

\* The weights of filter f when each has e of them.
Part(V, f, e) == SubSeq(V, (f - 1) * e + 1, f * e)

\* o holds what n filters with the weights V and the biases B yield.
Convolved(o, n, V, B, d, t, ay, ax, u) ==
  LET e == d * ay.window * ax.window IN
  /\ o.shape = <<n, Out(ay), Out(ax)>>
  /\ IsSeq(o.values) /\ Len(o.values) = n * Out(ay) * Out(ax)
  /\ \A f \in 0 .. n - 1, y \in 0 .. Out(ay) - 1, x \in 0 .. Out(ax) - 1 : \A v :
       v \in Get(o, f, y, x) <=> Summand(v, Part(V, f + 1, e), B[f + 1], d, t, ay, ax, u, y, x)

LEMMA ConvolveIs ==
  ASSUME NEW t, NEW d, NEW ay, NEW ax, IsImage(t, d, ay, ax), ay.padding = ax.padding,
         NEW u \in BOOLEAN, NEW g, NEW n \in Positive, NEW V, NEW B,
         AreFilters(g, <<ay.spread, ax.spread>>, d, ay.window, ax.window, n, V, B)
  PROVE  Convolved(Convolve(g, <<ay.step, ax.step>>, ay.padding, u, t),
                   n, V, B, d, t, ay, ax, u)
  <1> DEFINE cfg == [y |-> PlanOf(ay, u), x |-> PlanOf(ax, u)]
             padded == PadTensor3({}, cfg.y.top, cfg.y.bottom, cfg.x.top, cfg.x.bottom, t)
             s == <<ay.step, ax.step>>
             e == d * ay.window * ax.window
             m == g[1].m
             F(f, y, x) == Dot(Row(g[f + 1]), Column(g[f + 1], s, cfg, padded, y, x))
             o == Convolve(g, s, ay.padding, u, t)
             p == Out(ay)
             q == Out(ax)
             W == [i \in 1 .. n * p * q |->
                     F((i - 1) \div (p * q), ((i - 1) \div q) % p, (i - 1) % q)]
  <1>1. /\ d \in Positive /\ IsAxis(ay) /\ IsAxis(ax) /\ t.shape = <<d, ay.size, ax.size>>
        /\ ay.spread \in Positive /\ ax.spread \in Positive
        /\ ay.window \in Positive /\ ax.window \in Positive
    BY DEF IsImage, IsAxis
  <1>2. Len(g) = n
    BY DEF AreFilters
  <1>3. ASSUME NEW f \in 1 .. n
        PROVE  /\ g[f].m = DilateTensor3(<<ay.spread, ax.spread>>,
                             FilterShaped(d, ay.window, ax.window, Part(V, f, e)))
               /\ g[f].bias = B[f]
    BY AFilter DEF Part
  <1>4. Height(m) = Extent(ay) /\ Width(m) = Extent(ax)
    <2>1. m = DilateTensor3(<<ay.spread, ax.spread>>,
                FilterShaped(d, ay.window, ax.window, Part(V, 1, e)))
      <3>1. 1 \in 1 .. n
        BY DEF Positive
      <3> QED  BY <1>3, <3>1
    <2>2. m.shape = <<d, Reach(ay.window, ay.spread), Reach(ax.window, ax.spread)>>
      BY <1>1, <2>1, DilatedCells
    <2>3. m.shape = <<d, Extent(ay), Extent(ax)>>
      BY <2>2 DEF Extent
    <2> QED  BY <2>3, ShapedTensor
  <1>5. PreprocessConvolution(Height(m), Width(m), s, ay.padding, u, t) = cfg
    <2>1. Height(t) = ay.size /\ Width(t) = ax.size
      BY <1>1, ShapedTensor
    <2> QED  BY <1>4, <2>1, PreprocessIs
  <1>6. cfg.y.out = p /\ cfg.x.out = q /\ p \in Positive /\ q \in Positive
    BY <1>1, PlanOfIs
  <1>7. o = [shape |-> <<n, p, q>>, values |-> W]
    <2> HIDE DEF p, q, cfg, m, s
    <2> QED  BY <1>2, <1>5, <1>6 DEF Convolve, Tensor, m
  <1> HIDE DEF F, o, p, q
  <1>8. o.shape = <<n, p, q>> /\ o.values = W
    <2> HIDE DEF W
    <2> QED  BY <1>7
  <1>9. Height(o) = p /\ Width(o) = q
    BY <1>8, ShapedTensor
  <1>10. ASSUME NEW f \in 0 .. n - 1, NEW y \in 0 .. p - 1, NEW x \in 0 .. q - 1
         PROVE  Get(o, f, y, x) = F(f, y, x)
    <2> DEFINE i == (f * p + y) * q + x + 1
    <2>1. /\ i \in 1 .. n * p * q /\ (i - 1) \div (p * q) = f
          /\ ((i - 1) \div q) % p = y /\ (i - 1) % q = x
      BY <1>6, TensorPosition
    <2>2. Get(o, f, y, x) = W[i]
      BY <1>8, <1>9 DEF Get
    <2> HIDE DEF i
    <2>3. W[i] = F(f, y, x)
      BY <2>1
    <2> QED  BY <2>2, <2>3
  <1>11. ASSUME NEW f \in 0 .. n - 1, NEW y \in 0 .. p - 1, NEW x \in 0 .. q - 1, NEW v
         PROVE  v \in Get(o, f, y, x)
                  <=> Summand(v, Part(V, f + 1, e), B[f + 1], d, t, ay, ax, u, y, x)
    <2>1. f + 1 \in 1 .. n
      BY DEF Positive
    <2>2. /\ g[f + 1].m = DilateTensor3(<<ay.spread, ax.spread>>,
                            FilterShaped(d, ay.window, ax.window, Part(V, f + 1, e)))
          /\ g[f + 1].bias = B[f + 1]
      BY <1>3, <2>1
    <2>3. y \in 0 .. Out(ay) - 1 /\ x \in 0 .. Out(ax) - 1
      BY DEF p, q
    <2>4. v \in F(f, y, x)
            <=> Summand(v, Part(V, f + 1, e), g[f + 1].bias, d, t, ay, ax, u, y, x)
      BY <2>2, <2>3, WindowSum DEF F
    <2> QED  BY <1>10, <2>2, <2>4
  <1>13. IsSeq(o.values) /\ Len(o.values) = n * p * q
    <2>1. n * p * q \in Nat
      BY <1>6, ProductOfPositives DEF Positive
    <2>2. W = [i \in 1 .. n * p * q |-> W[i]]
      OBVIOUS
    <2> HIDE DEF W
    <2> QED  BY <1>8, <2>1, <2>2, FunctionIsSeq
  <1> HIDE DEF e
  <1>12. Convolved(o, n, V, B, d, t, ay, ax, u)
    BY <1>8, <1>11, <1>13 DEF Convolved, p, q, e
  <1> QED  BY <1>12 DEF o

(***************************************************************************)
(* The windows of a layer: along its height, of which a sequence has one   *)
(* row, and along its width.                                               *)
(***************************************************************************)
YAxis == IF Rank = 1 THEN Axis(1, 1, 1, 1, layer.padding) ELSE AxisOf(1)
XAxis == AxisOf(Rank)

LEMMA RankIs ==
  ASSUME layer \in KerasLayers
  PROVE  Rank = SpatialRank(layer) /\ Rank \in 0 .. 2
  <1>1. SpatialRank(layer) \in 0 .. 2 /\ Len(Input(layer)) = SpatialRank(layer) + 1
    BY InputShape
  <1> QED  BY <1>1 DEF Rank

LEMMA RankOfClass ==
  ASSUME layer \in KerasLayers
  PROVE  (Rank = 0) <=> layer.class = "Dense"
  <1>1. layer.class \in Convolutions \cup {"SeparableConv2D", "Dense"} \cup Poolings
    BY LayerIs
  <1> QED  BY <1>1, RankIs DEF SpatialRank, Convolutions, Poolings, MaxPoolings, AveragePoolings

\* A window of one cell over an image of one cell.
LEMMA PointAxis ==
  ASSUME NEW pad \in Paddings
  PROVE  LET p == Axis(1, 1, 1, 1, pad) IN
         IsAxis(p) /\ Out(p) = 1 /\ Pad(p) = 0 /\ Left(p) = 0 /\ \A u : First(p, u) = 0
  <1> DEFINE p == Axis(1, 1, 1, 1, pad)
  <1>1. /\ p.size = 1 /\ p.window = 1 /\ p.spread = 1 /\ p.step = 1 /\ p.padding = pad
    BY DEF Axis
  <1> HIDE DEF p
  <1>2. Extent(p) = 1
    BY <1>1 DEF Extent, Reach
  <1>3. IsAxis(p)
    BY <1>1 DEF IsAxis, Positive
  <1>4. Out(p) = 1 /\ Pad(p) = 0
    <2>1. CASE pad = "valid"
      BY <1>1, <1>2, <1>3, <2>1, OutAndPad
    <2>2. CASE pad = "same"
      BY <1>1, <1>2, <1>3, <2>2, OutAndPad
    <2> QED  BY <2>1, <2>2 DEF Paddings
  <1>5. Left(p) = 0
    BY <1>1, <1>2, <1>4 DEF Left
  <1>6. \A u : First(p, u) = 0
    BY <1>4, <1>5 DEF First
  <1> QED  BY <1>3, <1>4, <1>5, <1>6 DEF p

LEMMA AxisOfLayer ==
  ASSUME layer \in KerasLayers, NEW a \in 1 .. Rank
  PROVE  /\ IsAxis(AxisOf(a))
         /\ AxisOf(a).size = Input(layer)[a] /\ AxisOf(a).window = WindowOf(layer, a)
         /\ AxisOf(a).spread = layer.dilation[a] /\ AxisOf(a).step = layer.strides[a]
         /\ AxisOf(a).padding = layer.padding
  <1> DEFINE r == SpatialRank(layer)
  <1>1. a \in 1 .. r /\ r \in 1 .. 2 /\ Rank = r
    BY RankIs
  <1> HIDE DEF r
  <1>2. /\ layer.padding \in Paddings
        /\ layer.strides \in SizesOf(r) /\ \A b \in 1 .. r : layer.strides[b] < 1000
        /\ layer.dilation \in SizesOf(r)
        /\ KernelFits(layer, Input(layer)[r + 1], r)
        /\ layer.padding = "valid" =>
              \A b \in 1 .. r : (WindowOf(layer, b) - 1) * layer.dilation[b] + 1 <= Input(layer)[b]
    BY LayerIs DEF r
  <1>3. Input(layer)[a] \in Positive
    BY <1>1, InputShape DEF r
  <1>4. WindowOf(layer, a) \in Positive
    <2>1. CASE layer.class \in Poolings
      <3>1. layer.pool \in SizesOf(r)
        BY <1>2, <2>1, FitsIs
      <3>2. WindowOf(layer, a) = layer.pool[a]
        BY <2>1 DEF WindowOf, Poolings, MaxPoolings, AveragePoolings, Convolutions
      <3> QED  BY <1>1, <3>1, <3>2 DEF SizesOf, Positive
    <2>2. CASE layer.class = "SeparableConv2D"
      <3>1. layer.depthwise.shape \in SizesOf(4)
        BY <1>2, <2>2, FitsIs DEF IsKernel
      <3>2. WindowOf(layer, a) = layer.depthwise.shape[a]
        BY <2>2 DEF WindowOf, Poolings, MaxPoolings, AveragePoolings, Convolutions
      <3>3. a \in 1 .. 4
        BY <1>1
      <3> QED  BY <3>1, <3>2, <3>3 DEF SizesOf, Positive
    <2>3. CASE layer.class \in Convolutions
      <3>1. layer.kernel.shape \in SizesOf(r + 2)
        BY <1>2, <2>3, FitsIs DEF IsKernel
      <3>2. WindowOf(layer, a) = layer.kernel.shape[a]
        BY <2>3 DEF WindowOf, Poolings, MaxPoolings, AveragePoolings, Convolutions
      <3>3. a \in 1 .. r + 2
        BY <1>1
      <3> QED  BY <3>1, <3>2, <3>3 DEF SizesOf, Positive
    <2>4. layer.class # "Dense"
      BY <1>1, DenseRank DEF r
    <2> QED  BY <2>1, <2>2, <2>3, <2>4, LayerIs
  <1>5. layer.strides[a] \in Positive /\ layer.strides[a] < 1000 /\ layer.dilation[a] \in Positive
    BY <1>1, <1>2 DEF SizesOf, Positive
  <1>6. layer.padding = "valid" =>
          (WindowOf(layer, a) - 1) * layer.dilation[a] + 1 <= Input(layer)[a]
    BY <1>1, <1>2
  <1>7. /\ AxisOf(a).size = Input(layer)[a] /\ AxisOf(a).window = WindowOf(layer, a)
        /\ AxisOf(a).spread = layer.dilation[a] /\ AxisOf(a).step = layer.strides[a]
        /\ AxisOf(a).padding = layer.padding
    BY DEF AxisOf, Axis
  <1> QED  BY <1>2, <1>3, <1>4, <1>5, <1>6, <1>7 DEF IsAxis

\* Pairs for layers of images, single sizes for layers of sequences.
LEMMA SizesOfLayer ==
  ASSUME NEW r \in 1 .. 2, NEW s \in SizesOf(r)
  PROVE  CreateShape2(s) = IF r = 1 THEN <<1, s[1]>> ELSE <<s[1], s[2]>>
  <1>1. CASE r = 1
    BY <1>1, OneSize DEF CreateShape2
  <1>2. CASE r = 2
    BY <1>2, TwoSizes DEF CreateShape2
  <1> QED  BY <1>1, <1>2

LEMMA AxesOfLayer ==
  ASSUME layer \in KerasLayers, layer.class # "Dense"
  PROVE  /\ Rank \in 1 .. 2 /\ IsAxis(YAxis) /\ IsAxis(XAxis)
         /\ YAxis.padding = layer.padding /\ XAxis.padding = layer.padding
         /\ YAxis.size = Rows(Input(layer)) /\ XAxis.size = Cols(Input(layer))
         /\ CreateShape2(layer.strides) = <<YAxis.step, XAxis.step>>
         /\ CreateShape2(layer.dilation) = <<YAxis.spread, XAxis.spread>>
         /\ Rank = 1 => YAxis.window = 1 /\ XAxis.window = WindowOf(layer, 1)
         /\ Rank = 2 => YAxis.window = WindowOf(layer, 1) /\ XAxis.window = WindowOf(layer, 2)
  <1>1. Rank \in 1 .. 2 /\ Rank = SpatialRank(layer)
    BY RankIs, RankOfClass
  <1>2. /\ layer.padding \in Paddings
        /\ layer.strides \in SizesOf(Rank) /\ layer.dilation \in SizesOf(Rank)
    BY <1>1, LayerIs
  <1>3. /\ CreateShape2(layer.strides) = IF Rank = 1 THEN <<1, layer.strides[1]>>
                                         ELSE <<layer.strides[1], layer.strides[2]>>
        /\ CreateShape2(layer.dilation) = IF Rank = 1 THEN <<1, layer.dilation[1]>>
                                          ELSE <<layer.dilation[1], layer.dilation[2]>>
    BY <1>1, <1>2, SizesOfLayer
  <1>4. Len(Input(layer)) = Rank + 1
    BY <1>1, InputShape
  <1>5. CASE Rank = 1
    <2>1. YAxis = Axis(1, 1, 1, 1, layer.padding) /\ XAxis = AxisOf(1)
      BY <1>5 DEF YAxis, XAxis
    <2>2. /\ YAxis.size = 1 /\ YAxis.window = 1 /\ YAxis.spread = 1 /\ YAxis.step = 1
          /\ YAxis.padding = layer.padding
      BY <2>1 DEF Axis
    <2>3. Rows(Input(layer)) = 1 /\ Cols(Input(layer)) = Input(layer)[1]
      BY <1>4, <1>5 DEF Rows, Cols
    <2>4. IsAxis(YAxis)
      BY <1>2, <2>1, PointAxis
    <2>5. 1 \in 1 .. Rank
      BY <1>5
    <2>6. /\ IsAxis(XAxis) /\ XAxis.size = Input(layer)[1] /\ XAxis.window = WindowOf(layer, 1)
          /\ XAxis.spread = layer.dilation[1] /\ XAxis.step = layer.strides[1]
          /\ XAxis.padding = layer.padding
      BY <2>1, <2>5, AxisOfLayer
    <2> QED  BY <1>1, <1>3, <1>5, <2>2, <2>3, <2>4, <2>6
  <1>6. CASE Rank = 2
    <2>1. YAxis = AxisOf(1) /\ XAxis = AxisOf(2)
      BY <1>6 DEF YAxis, XAxis
    <2>2. 1 \in 1 .. Rank /\ 2 \in 1 .. Rank
      BY <1>6
    <2>3. Rows(Input(layer)) = Input(layer)[1] /\ Cols(Input(layer)) = Input(layer)[2]
      BY <1>4, <1>6 DEF Rows, Cols
    <2>4. /\ IsAxis(YAxis) /\ YAxis.size = Input(layer)[1] /\ YAxis.window = WindowOf(layer, 1)
          /\ YAxis.spread = layer.dilation[1] /\ YAxis.step = layer.strides[1]
          /\ YAxis.padding = layer.padding
      BY <2>1, <2>2, AxisOfLayer
    <2>5. /\ IsAxis(XAxis) /\ XAxis.size = Input(layer)[2] /\ XAxis.window = WindowOf(layer, 2)
          /\ XAxis.spread = layer.dilation[2] /\ XAxis.step = layer.strides[2]
          /\ XAxis.padding = layer.padding
      BY <2>1, <2>2, AxisOfLayer
    <2> QED  BY <1>1, <1>3, <1>6, <2>3, <2>4, <2>5
  <1> QED  BY <1>1, <1>5, <1>6

(***************************************************************************)
(* The offsets: the converter's probe finds out what the backend does, and *)
(* the flag a layer chooses is the one of its operation.                   *)
(***************************************************************************)
IsShifted == OperationFor(layer, Input(layer)[Rank + 1]) \in shifted

LEMMA OffsetOfBackend ==
  ASSUME NEW o, NEW axis, IsAxis(axis)
  PROVE  BackendOffset(o, axis) = IF o \in shifted THEN Left(axis) \div 2 ELSE 0
  <1> DEFINE e == (Along(axis, FALSE)!TFOut - 1) * axis.step
                    + (axis.window - 1) * axis.spread + 1
             f == axis.size + Along(axis, FALSE)!TFPadding - e
  <1>1. BackendOffset(o, axis) = IF o \in shifted THEN f \div 2 ELSE 0
    BY DEF BackendOffset
  <1>2. Along(axis, FALSE)!TFOut = Out(axis) /\ Along(axis, FALSE)!TFPadding = Pad(axis)
    BY DEF Out, Pad
  <1>3. /\ axis.window \in Positive /\ axis.spread \in Positive /\ axis.step \in Positive
        /\ Out(axis) \in Positive
    BY WhatIsLeft DEF IsAxis
  <1>4. (Out(axis) - 1) * axis.step \in Int /\ (axis.window - 1) * axis.spread \in Int
    BY <1>3 DEF Positive
  <1>5. e = (Out(axis) - 1) * axis.step + Extent(axis)
    <2> DEFINE a == (Out(axis) - 1) * axis.step
               b == (axis.window - 1) * axis.spread
    <2>1. e = a + b + 1 /\ Extent(axis) = b + 1
      BY <1>2 DEF Extent, Reach
    <2> HIDE DEF a, b, e
    <2>2. e = a + Extent(axis)
      BY <1>4, <2>1 DEF a, b
    <2> QED  BY <2>2 DEF a
  <1> HIDE DEF e
  <1>6. f = Left(axis)
    BY <1>2, <1>5 DEF Left
  <1> QED  BY <1>1, <1>6

\* The probe sees a shift of one cell, whatever the padding.
LEMMA ProbeIsRight ==
  ASSUME NEW o, o[2] \in Paddings
  PROVE  CheckOperationOffset(o) <=> o \in shifted
  <1> DEFINE p == Axis(6, 1, 1, 3, o[2])
             b == BackendOffset(o, p)
             w == [k \in 1 .. 2 |-> 3 * (k - 1) + b]
  <1>1. p.size = 6 /\ p.window = 1 /\ p.spread = 1 /\ p.step = 3 /\ p.padding = o[2]
    BY DEF Axis
  <1> HIDE DEF p
  <1>2. Extent(p) = 1
    BY <1>1 DEF Extent, Reach
  <1>3. IsAxis(p)
    BY <1>1 DEF IsAxis, Positive
  <1>4. Out(p) = 2 /\ Pad(p) = 0
    <2>1. CASE o[2] = "valid"
      BY <1>1, <1>2, <1>3, <2>1, OutAndPad
    <2>2. CASE o[2] = "same"
      BY <1>1, <1>2, <1>3, <2>2, OutAndPad
    <2> QED  BY <2>1, <2>2 DEF Paddings
  <1>5. Left(p) = 2
    BY <1>1, <1>2, <1>4 DEF Left
  <1>6. b = IF o \in shifted THEN 1 ELSE 0
    BY <1>3, <1>5, OffsetOfBackend
  <1>7. CheckOperationOffset(o) <=> w = <<1, 4>>
    BY DEF CheckOperationOffset, p
  <1> HIDE DEF b
  <1>8. CASE o \in shifted
    <2>1. w = <<1, 4>>
      BY <1>6, <1>8
    <2> QED  BY <1>7, <1>8, <2>1
  <1>9. CASE o \notin shifted
    <2>1. w[1] = 0
      BY <1>6, <1>9
    <2> HIDE DEF w
    <2> QED  BY <1>7, <1>9, <2>1
  <1> QED  BY <1>8, <1>9

LEMMA FlagIs ==
  ASSUME params.offsets = Offsets, NEW o \in Operations
  PROVE  o \in params.offsets <=> o \in shifted
  <1>1. o[2] \in Paddings
    BY DEF Operations
  <1> QED  BY <1>1, ProbeIsRight DEF Offsets

LEMMA FlagsAre ==
  ASSUME params.offsets = Offsets, NEW op \in {"conv2d", "separable_conv2d"}
  PROVE  LET g == Flags(op) IN
         /\ g.valid_depth_1 <=> <<op, "valid", 1>> \in shifted
         /\ g.same_depth_1 <=> <<op, "same", 1>> \in shifted
         /\ g.valid_depth_2 <=> <<op, "valid", 2>> \in shifted
         /\ g.same_depth_2 <=> <<op, "same", 2>> \in shifted
  <1>1. \A pad \in Paddings, n \in {1, 2} : <<op, pad, n>> \in Operations
    BY DEF Operations
  <1>2. \A pad \in Paddings, n \in {1, 2} : Flag(op, pad, n) <=> <<op, pad, n>> \in shifted
    BY <1>1, FlagIs DEF Flag
  <1>3. LET g == Flags(op) IN
         /\ g.valid_depth_1 = Flag(op, "valid", 1) /\ g.same_depth_1 = Flag(op, "same", 1)
         /\ g.valid_depth_2 = Flag(op, "valid", 2) /\ g.same_depth_2 = Flag(op, "same", 2)
    BY DEF Flags
  <1> QED  BY <1>2, <1>3 DEF Paddings

LEMMA PoolFlagsAre ==
  ASSUME params.offsets = Offsets, NEW op \in {"max_pooling_2d", "average_pooling_2d"}
  PROVE  LET g == PoolFlags(op) IN
         /\ g.valid <=> <<op, "valid", 1>> \in shifted
         /\ g.same <=> <<op, "same", 1>> \in shifted
  <1>1. \A pad \in Paddings : <<op, pad, 1>> \in Operations
    BY DEF Operations
  <1>2. \A pad \in Paddings : Flag(op, pad, 1) <=> <<op, pad, 1>> \in shifted
    BY <1>1, FlagIs DEF Flag
  <1>3. LET g == PoolFlags(op) IN
          g.valid = Flag(op, "valid", 1) /\ g.same = Flag(op, "same", 1)
    BY DEF PoolFlags
  <1> QED  BY <1>2, <1>3 DEF Paddings

LEMMA OffsetIsUsed ==
  ASSUME layer \in KerasLayers, params.offsets = Offsets, made = Made,
         layer.class \in Convolutions \/ layer.class = "SeparableConv2D"
  PROVE  LET c == Input(layer)[Rank + 1] IN
         UseOffset(c) \in BOOLEAN /\ (UseOffset(c) <=> IsShifted)
  <1> DEFINE c == Input(layer)[Rank + 1]
             op == IF layer.class = "SeparableConv2D" THEN "separable_conv2d" ELSE "conv2d"
             n == IF c = 1 THEN 1 ELSE 2
  <1>1. layer.padding \in Paddings
    BY LayerIs
  <1>2. made.flags = Flags(op) /\ op \in {"conv2d", "separable_conv2d"}
    BY MadeIs, Classes
  <1>3. OperationFor(layer, c) = <<op, layer.padding, n>>
    BY DEF OperationFor, Convolutions, MaxPoolings, AveragePoolings
  <1> HIDE DEF op, c
  <1>4. /\ made.flags.valid_depth_1 <=> <<op, "valid", 1>> \in shifted
        /\ made.flags.same_depth_1 <=> <<op, "same", 1>> \in shifted
        /\ made.flags.valid_depth_2 <=> <<op, "valid", 2>> \in shifted
        /\ made.flags.same_depth_2 <=> <<op, "same", 2>> \in shifted
    BY <1>2, FlagsAre
  <1>5. UseOffset(c) <=> <<op, layer.padding, n>> \in shifted
    BY <1>1, <1>4 DEF UseOffset, Paddings
  <1>6. UseOffset(c) \in BOOLEAN
    BY DEF UseOffset
  <1> QED  BY <1>3, <1>5, <1>6 DEF IsShifted, c

LEMMA PoolOffsetIsUsed ==
  ASSUME layer \in KerasLayers, params.offsets = Offsets, made = Made, layer.class \in Poolings
  PROVE  PoolUseOffset \in BOOLEAN /\ (PoolUseOffset <=> IsShifted)
  <1> DEFINE op == IF layer.class \in MaxPoolings THEN "max_pooling_2d" ELSE "average_pooling_2d"
  <1>1. layer.padding \in Paddings
    BY LayerIs
  <1>2. made = PoolFlags(op) /\ op \in {"max_pooling_2d", "average_pooling_2d"}
    BY MadeIs DEF Poolings
  <1>3. \A c : OperationFor(layer, c) = <<op, layer.padding, 1>>
    BY DEF OperationFor, Convolutions, Poolings, MaxPoolings, AveragePoolings
  <1> HIDE DEF op
  <1>4. /\ made.valid <=> <<op, "valid", 1>> \in shifted
        /\ made.same <=> <<op, "same", 1>> \in shifted
    BY <1>2, PoolFlagsAre
  <1>5. PoolUseOffset <=> <<op, layer.padding, 1>> \in shifted
    BY <1>1, <1>4 DEF PoolUseOffset, Paddings
  <1>6. PoolUseOffset \in BOOLEAN
    BY DEF PoolUseOffset
  <1> QED  BY <1>3, <1>5, <1>6 DEF IsShifted

\* The first cell of the first window, in Keras and here.
LEMMA FirstCellIs ==
  ASSUME layer \in KerasLayers, NEW a \in 1 .. Rank
  PROVE  FirstCell(a) = First(AxisOf(a), IsShifted)
  <1>1. BackendOffset(OperationFor(layer, Input(layer)[Rank + 1]), AxisOf(a))
          = IF IsShifted THEN Left(AxisOf(a)) \div 2 ELSE 0
    BY AxisOfLayer, OffsetOfBackend DEF IsShifted
  <1>2. Along(AxisOf(a), FALSE)!TFPadding = Pad(AxisOf(a))
    BY DEF Pad
  <1> QED  BY <1>1, <1>2 DEF FirstCell, First

(***************************************************************************)
(* The image a layer is applied to, and the array Keras applies it to.     *)
(***************************************************************************)
\* The tensor as the shape of Keras's array tells it.
IsCellOf(i, j) == i \in 0 .. Rows(Input(layer)) - 1 /\ j \in 0 .. Cols(Input(layer)) - 1

LEMMA InputTensorCells ==
  ASSUME layer \in KerasLayers,
         NEW y \in 0 .. Rows(Input(layer)) - 1, NEW x \in 0 .. Cols(Input(layer)) - 1,
         NEW z \in 0 .. Chans(Input(layer)) - 1
  PROVE  Get(InputTensor, z, y, x) = At(InputArray, Cell(Rank + 1, y, x, z))
  <1> DEFINE s == Input(layer)
             h == Rows(s)
             w == Cols(s)
             c == Chans(s)
             vs == InputArray.values
  <1>1. s \in Shapes /\ Len(s) = Rank + 1
    BY InputShape DEF Rank
  <1>2. /\ h \in Positive /\ w \in Positive /\ c \in Positive
        /\ ThreeAxes(s) = <<h, w, c>>
    BY <1>1, ThreeAxesOf
  <1>3. InputArray.shape = s
    BY DEF InputArray, Array
  <1> DEFINE V == [p \in 1 .. h * w * c |->
                    vs[((p - 1) % (h * w)) * c + ((p - 1) \div (h * w)) + 1]]
             k == (z * h + y) * w + x + 1
  <1> HIDE DEF s, h, w, c, vs
  <1>4. InputTensor.values = V
    <2> DEFINE a == Reshape(InputArray, <<h, w, c>>)
    <2>1. InputTensor = ChannelsFirst(a)
      BY <1>2 DEF InputTensor, s
    <2>2. a.values = vs /\ a.shape = <<h, w, c>>
      BY DEF Reshape, vs
    <2> HIDE DEF a
    <2>3. ChannelsFirst(a) = [shape |-> <<c, h, w>>, values |-> V]
      BY <2>2 DEF ChannelsFirst
    <2> HIDE DEF V
    <2> QED  BY <2>1, <2>3
  <1>5. Height(InputTensor) = h /\ Width(InputTensor) = w
    BY InputTensorShape DEF h, w, s
  <1>6. y \in 0 .. h - 1 /\ x \in 0 .. w - 1 /\ z \in 0 .. c - 1
    BY DEF h, w, c, s
  <1>7. k \in 1 .. c * h * w /\ (k - 1) \div (h * w) = z /\ (k - 1) % (h * w) = y * w + x
    BY <1>2, <1>6, TensorPosition
  <1>8. Get(InputTensor, z, y, x) = V[k]
    BY <1>4, <1>5 DEF Get
  <1>9. c * h * w = h * w * c
    BY <1>2 DEF Positive
  <1> HIDE DEF k
  <1>10. V[k] = vs[(y * w + x) * c + z + 1]
    BY <1>7, <1>9
  <1>11. PosOf(s, Cell(Rank + 1, y, x, z)) = Pos(s, y, x, z)
    BY <1>1, <1>6, CellOfPos DEF h, w, c
  <1>12. Pos(s, y, x, z) = (y * w + x) * c + z
    BY DEF Pos, w, c
  <1>13. At(InputArray, Cell(Rank + 1, y, x, z)) = vs[(y * w + x) * c + z + 1]
    BY <1>3, <1>11, <1>12 DEF At, vs
  <1> QED  BY <1>8, <1>10, <1>13

LEMMA InputIsImage ==
  ASSUME layer \in KerasLayers, layer.class # "Dense"
  PROVE  IsImage(InputTensor, Chans(Input(layer)), YAxis, XAxis)
  <1>1. Input(layer) \in Shapes
    BY InputShape
  <1>2. Chans(Input(layer)) \in Positive
    BY <1>1, ThreeAxesOf
  <1>3. InputTensor.shape = <<Chans(Input(layer)), Rows(Input(layer)), Cols(Input(layer))>>
    BY InputTensorShape
  <1> QED  BY <1>2, <1>3, AxesOfLayer DEF IsImage

\* The cells of a window of Keras: indices of its output, and of its kernel.
OutOf(y, x) == IF Rank = 1 THEN <<x>> ELSE <<y, x>>
KernelIndex(a, b, z) == IF Rank = 1 THEN <<b, z>> ELSE <<a, b, z>>
RowUnder(y, a) == First(YAxis, IsShifted) + YAxis.step * y + YAxis.spread * a
ColUnder(x, b) == First(XAxis, IsShifted) + XAxis.step * x + XAxis.spread * b

\* Over a sequence there is one row of windows.
LEMMA OneRow ==
  ASSUME layer \in KerasLayers, layer.class # "Dense", Rank = 1
  PROVE  /\ Out(YAxis) = 1 /\ YAxis.window = 1 /\ RowUnder(0, 0) = 0
  <1>1. YAxis = Axis(1, 1, 1, 1, layer.padding)
    BY DEF YAxis
  <1>2. layer.padding \in Paddings
    BY LayerIs
  <1>3. Out(YAxis) = 1 /\ First(YAxis, IsShifted) = 0
    BY <1>1, <1>2, PointAxis
  <1>4. YAxis.window = 1 /\ YAxis.step = 1 /\ YAxis.spread = 1
    BY <1>1 DEF Axis
  <1> QED  BY <1>3, <1>4 DEF RowUnder

LEMMA UnderIs ==
  ASSUME layer \in KerasLayers, layer.class # "Dense",
         NEW y \in 0 .. Out(YAxis) - 1, NEW x \in 0 .. Out(XAxis) - 1,
         NEW a \in 0 .. YAxis.window - 1, NEW b \in 0 .. XAxis.window - 1, NEW z,
         NEW k, \A i \in 1 .. Rank + 1 : k[i] = KernelIndex(a, b, z)[i]
  PROVE  /\ Under(k, OutOf(y, x)) = Cell(Rank + 1, RowUnder(y, a), ColUnder(x, b), z)
         /\ IsCell(Under(k, OutOf(y, x))) <=> IsCellOf(RowUnder(y, a), ColUnder(x, b))
  <1>1. /\ Rank \in 1 .. 2 /\ IsAxis(YAxis) /\ IsAxis(XAxis)
        /\ XAxis.size = Cols(Input(layer)) /\ YAxis.size = Rows(Input(layer))
    BY AxesOfLayer
  <1>2. /\ XAxis = AxisOf(Rank)
        /\ FirstCell(Rank) = First(XAxis, IsShifted) /\ FirstCell(Rank) \in Int
        /\ XAxis.step = layer.strides[Rank] /\ XAxis.spread = layer.dilation[Rank]
        /\ XAxis.size = Input(layer)[Rank]
    <2>1. Rank \in 1 .. Rank
      BY <1>1
    <2>2. IsShifted \in BOOLEAN
      BY DEF IsShifted
    <2> QED  BY <1>1, <2>1, <2>2, FirstCellIs, AxisOfLayer, PlanOfIs DEF XAxis
  <1>3. /\ XAxis.step \in Positive /\ XAxis.spread \in Positive
        /\ XAxis.window \in Positive /\ Out(XAxis) \in Positive
        /\ YAxis.step \in Positive /\ YAxis.spread \in Positive
        /\ YAxis.window \in Positive /\ Out(YAxis) \in Positive
    BY <1>1, WhatIsLeft DEF IsAxis
  <1>4. /\ XAxis.step * x \in Int /\ XAxis.step * x = x * XAxis.step
        /\ XAxis.spread * b \in Int /\ XAxis.spread * b = b * XAxis.spread
    BY <1>3 DEF Positive
  <1>5. ColUnder(x, b) = FirstCell(Rank) + x * layer.strides[Rank] + b * layer.dilation[Rank]
    BY <1>2, <1>4 DEF ColUnder
  <1>6. CASE Rank = 1
    <2>1. Under(k, OutOf(y, x)) = <<ColUnder(x, b), z>>
      BY <1>5, <1>6 DEF Under, OutOf, KernelIndex
    <2>2. RowUnder(y, a) = 0
      <3>1. y = 0 /\ a = 0
        BY <1>6, OneRow
      <3> QED  BY <1>6, <3>1, OneRow
    <2>3. Rows(Input(layer)) = 1
      <3>1. Len(Input(layer)) = 2
        <4>1. Len(Input(layer)) = SpatialRank(layer) + 1
          BY InputShape
        <4>2. Rank = SpatialRank(layer)
          BY RankIs
        <4> QED  BY <1>6, <4>1, <4>2
      <3> QED  BY <3>1 DEF Rows
    <2>4. IsCell(<<ColUnder(x, b), z>>) <=> IsCellOf(RowUnder(y, a), ColUnder(x, b))
      BY <1>1, <1>2, <1>6, <2>2, <2>3 DEF IsCell, IsCellOf
    <2>5. Cell(Rank + 1, RowUnder(y, a), ColUnder(x, b), z) = <<ColUnder(x, b), z>>
      BY <1>6 DEF Cell
    <2> QED  BY <2>1, <2>4, <2>5
  <1>7. CASE Rank = 2
    <2>1. 1 \in 1 .. Rank
      BY <1>7
    <2>2. /\ YAxis = AxisOf(1)
          /\ FirstCell(1) = First(YAxis, IsShifted) /\ FirstCell(1) \in Int
          /\ YAxis.step = layer.strides[1] /\ YAxis.spread = layer.dilation[1]
          /\ YAxis.size = Input(layer)[1]
      <3>1. YAxis = AxisOf(1)
        BY <1>7 DEF YAxis
      <3>2. IsShifted \in BOOLEAN
        BY DEF IsShifted
      <3> QED  BY <1>1, <2>1, <3>1, <3>2, FirstCellIs, AxisOfLayer, PlanOfIs
    <2>3. /\ YAxis.step * y \in Int /\ YAxis.step * y = y * YAxis.step
          /\ YAxis.spread * a \in Int /\ YAxis.spread * a = a * YAxis.spread
      BY <1>3 DEF Positive
    <2>4. RowUnder(y, a) = FirstCell(1) + y * layer.strides[1] + a * layer.dilation[1]
      BY <2>2, <2>3 DEF RowUnder
    <2>5. Under(k, OutOf(y, x)) = <<RowUnder(y, a), ColUnder(x, b), z>>
      BY <1>5, <1>7, <2>4 DEF Under, OutOf, KernelIndex
    <2>6. IsCell(<<RowUnder(y, a), ColUnder(x, b), z>>)
            <=> IsCellOf(RowUnder(y, a), ColUnder(x, b))
      BY <1>1, <1>2, <1>7, <2>2 DEF IsCell, IsCellOf
    <2>7. Cell(Rank + 1, RowUnder(y, a), ColUnder(x, b), z)
            = <<RowUnder(y, a), ColUnder(x, b), z>>
      BY <1>7 DEF Cell
    <2> QED  BY <2>5, <2>6, <2>7
  <1> QED  BY <1>1, <1>6, <1>7

\* What a window covers is what Keras's window covers.
LEMMA BeneathIsUnder ==
  ASSUME layer \in KerasLayers, layer.class # "Dense",
         NEW y \in 0 .. Out(YAxis) - 1, NEW x \in 0 .. Out(XAxis) - 1,
         NEW a \in 0 .. YAxis.window - 1, NEW b \in 0 .. XAxis.window - 1,
         NEW z \in 0 .. Chans(Input(layer)) - 1,
         NEW k, \A i \in 1 .. Rank + 1 : k[i] = KernelIndex(a, b, z)[i]
  PROVE  Beneath(InputTensor, YAxis, XAxis, IsShifted, y, x, z, a, b) = ValueUnder(k, OutOf(y, x))
  <1> DEFINE i == RowUnder(y, a)
             j == ColUnder(x, b)
             q == Under(k, OutOf(y, x))
  <1>1. q = Cell(Rank + 1, i, j, z) /\ (IsCell(q) <=> IsCellOf(i, j))
    BY UnderIs
  <1>2. Beneath(InputTensor, YAxis, XAxis, IsShifted, y, x, z, a, b) = CellIn(InputTensor, z, i, j)
    BY DEF Beneath, RowUnder, ColUnder
  <1>3. Height(InputTensor) = Rows(Input(layer)) /\ Width(InputTensor) = Cols(Input(layer))
    BY InputTensorShape
  <1> HIDE DEF i, j, q
  <1>4. <<i, j>> \in Spatial(InputTensor) <=> IsCellOf(i, j)
    BY <1>3 DEF Spatial, IsCellOf
  <1>5. IsCellOf(i, j) => Get(InputTensor, z, i, j) = At(InputArray, Cell(Rank + 1, i, j, z))
    BY InputTensorCells DEF IsCellOf
  <1>6. ValueUnder(k, OutOf(y, x)) = IF IsCell(q) THEN At(InputArray, q) ELSE {}
    BY DEF ValueUnder, q
  <1> QED  BY <1>1, <1>2, <1>4, <1>5, <1>6 DEF CellIn

LEMMA WindowsAre ==
  ASSUME layer \in KerasLayers, layer.class # "Dense"
  PROVE  (0 .. Out(YAxis) - 1) \X (0 .. Out(XAxis) - 1) = KerasWindows
  <1>1. Rank \in 1 .. 2
    BY AxesOfLayer
  <1>2. \A a : Windows(a) = 0 .. Out(AxisOf(a)) - 1
    BY DEF Windows, Out
  <1>3. CASE Rank = 1
    <2>1. 0 .. Out(YAxis) - 1 = {0}
      BY <1>3, OneRow
    <2>2. XAxis = AxisOf(1)
      BY <1>3 DEF XAxis
    <2>3. KerasWindows = {0} \X Windows(1)
      BY <1>3 DEF KerasWindows
    <2> QED  BY <1>2, <2>1, <2>2, <2>3
  <1>4. CASE Rank = 2
    <2>1. YAxis = AxisOf(1) /\ XAxis = AxisOf(2)
      BY <1>4 DEF XAxis, YAxis
    <2>2. KerasWindows = Windows(1) \X Windows(2)
      BY <1>4 DEF KerasWindows
    <2> QED  BY <1>2, <2>1, <2>2
  <1> QED  BY <1>1, <1>3, <1>4

LEMMA PartAt ==
  ASSUME NEW V, IsSeq(V), NEW n \in Positive, NEW e \in Positive, Len(V) = n * e,
         NEW f \in 0 .. n - 1, NEW i \in 1 .. e
  PROVE  Part(V, f + 1, e)[i] = V[f * e + i]
  <1> DEFINE g == f * e
  <1>1. g \in Nat /\ (f + 1 - 1) * e = g /\ (f + 1) * e = g + e /\ e \in Nat /\ e > 0
    BY DEF Positive
  <1> HIDE DEF g
  <1>2. Part(V, f + 1, e) = SubSeq(V, g + 1, g + e)
    BY <1>1 DEF Part
  <1>3. SubSeq(V, g + 1, g + e)[i] = V[g + i]
    BY <1>1
  <1> QED  BY <1>2, <1>3 DEF g

\* Where the weight of filter f for channel z, row a and column b stands.
LEMMA WeightPosition ==
  ASSUME NEW d \in Positive, NEW h \in Positive, NEW w \in Positive,
         NEW f \in Nat, NEW z \in Nat, NEW a \in Nat, NEW b \in Nat
  PROVE  f * (d * h * w) + ((z * h + a) * w + b + 1) = ((f * d + z) * h + a) * w + b + 1
  <1>1. d \in Nat /\ h \in Nat /\ w \in Nat
    BY DEF Positive
  <1> DEFINE k == h * w
  <1>2. d * h * w = d * k /\ k \in Nat
    BY <1>1
  <1>3. (z * h + a) * w = z * k + a * w
    BY <1>1
  <1>4. (f * d + z) * h = f * d * h + z * h
    BY <1>1
  <1>5. ((f * d + z) * h + a) * w = f * d * h * w + z * h * w + a * w
    BY <1>1, <1>4
  <1>6. f * (d * h * w) = f * d * h * w
    BY <1>1
  <1> QED  BY <1>1, <1>3, <1>5, <1>6

\* ks are the indices of an array of that shape.
AreIndices4(ks, h, k, c, n) ==
  \A q : q \in ks <=>
    \E a \in 0 .. h - 1, b \in 0 .. k - 1, z \in 0 .. c - 1, f \in 0 .. n - 1 :
      q = <<a, b, z, f>>
AreIndices2(ks, h, w) ==
  \A q : q \in ks <=> \E a \in 0 .. h - 1, b \in 0 .. w - 1 : q = <<a, b>>

LEMMA Positions4 ==
  ASSUME NEW t, NEW h \in Positive, NEW k \in Positive, NEW c \in Positive, NEW n \in Positive,
         t.shape = <<h, k, c, n>>, DOMAIN t.values = 1 .. Volume(t.shape)
  PROVE  AreIndices4(Positions(t), h, k, c, n)
  <1> DEFINE N == h * k * c * n
             I(a, b, z, f) == ((a * k + b) * c + z) * n + f
  <1>1. Volume(t.shape) = N
    BY Volume4 DEF Positive
  <1>2. Positions(t) = {IndexOf(t.shape, p - 1) : p \in 1 .. N}
    BY <1>1 DEF Positions
  <1>3. N \in Nat
    <2>1. h * k \in Nat
      BY DEF Positive
    <2>2. h * k * c \in Nat
      BY <2>1 DEF Positive
    <2> QED  BY <2>2 DEF Positive
  <1>4. ASSUME NEW a \in 0 .. h - 1, NEW b \in 0 .. k - 1,
               NEW z \in 0 .. c - 1, NEW f \in 0 .. n - 1
        PROVE  /\ I(a, b, z, f) \in 0 .. N - 1
               /\ IndexOf(t.shape, I(a, b, z, f)) = <<a, b, z, f>>
    <2>1. I(a, b, z, f) \in 0 .. N - 1
      BY FourDigits
    <2>2. /\ PosOf(t.shape, <<a, b, z, f>>) = I(a, b, z, f)
          /\ IndexOf(t.shape, I(a, b, z, f)) = <<a, b, z, f>>
      BY CellOf4
    <2> QED  BY <2>1, <2>2
  <1>5. \A i \in 0 .. N - 1 : \E a \in 0 .. h - 1, b \in 0 .. k - 1, z \in 0 .. c - 1,
                                 f \in 0 .. n - 1 : i = I(a, b, z, f)
    <2> SUFFICES ASSUME NEW i \in 0 .. N - 1
                 PROVE  \E a \in 0 .. h - 1, b \in 0 .. k - 1, z \in 0 .. c - 1, f \in 0 .. n - 1 :
                          i = I(a, b, z, f)
      OBVIOUS
    <2>1. PICK a \in 0 .. h - 1, b \in 0 .. k - 1, z \in 0 .. c - 1, f \in 0 .. n - 1 :
            i = ((a * k + b) * c + z) * n + f
      BY DigitsOfFour
    <2> QED  BY <2>1
  <1> HIDE DEF N, I
  <1>6. ASSUME NEW p \in 1 .. N
        PROVE  \E a \in 0 .. h - 1, b \in 0 .. k - 1, z \in 0 .. c - 1, f \in 0 .. n - 1 :
               IndexOf(t.shape, p - 1) = <<a, b, z, f>>
    <2>1. p - 1 \in 0 .. N - 1
      BY <1>3
    <2>2. PICK a \in 0 .. h - 1, b \in 0 .. k - 1, z \in 0 .. c - 1, f \in 0 .. n - 1 :
            p - 1 = I(a, b, z, f)
      BY <1>5, <2>1
    <2> QED  BY <1>4, <2>2
  <1>7. ASSUME NEW a \in 0 .. h - 1, NEW b \in 0 .. k - 1,
               NEW z \in 0 .. c - 1, NEW f \in 0 .. n - 1
        PROVE  \E p \in 1 .. N : <<a, b, z, f>> = IndexOf(t.shape, p - 1)
    <2> DEFINE p == I(a, b, z, f) + 1
    <2>1. p \in 1 .. N /\ p - 1 = I(a, b, z, f)
      BY <1>3, <1>4
    <2> QED  BY <1>4, <2>1
  <1>8. ASSUME NEW q PROVE q \in Positions(t) <=>
                 \E a \in 0 .. h - 1, b \in 0 .. k - 1, z \in 0 .. c - 1, f \in 0 .. n - 1 :
                   q = <<a, b, z, f>>
    <2>1. ASSUME q \in Positions(t)
          PROVE  \E a \in 0 .. h - 1, b \in 0 .. k - 1, z \in 0 .. c - 1, f \in 0 .. n - 1 :
                   q = <<a, b, z, f>>
      <3>1. PICK p \in 1 .. N : q = IndexOf(t.shape, p - 1)
        BY <1>2, <2>1
      <3> QED  BY <1>6, <3>1
    <2>2. ASSUME \E a \in 0 .. h - 1, b \in 0 .. k - 1, z \in 0 .. c - 1, f \in 0 .. n - 1 :
                   q = <<a, b, z, f>>
          PROVE  q \in Positions(t)
      <3>1. PICK a \in 0 .. h - 1, b \in 0 .. k - 1, z \in 0 .. c - 1, f \in 0 .. n - 1 :
              q = <<a, b, z, f>>
        BY <2>2
      <3>2. PICK p \in 1 .. N : q = IndexOf(t.shape, p - 1)
        BY <1>7, <3>1
      <3> QED  BY <1>2, <3>2
    <2> QED  BY <2>1, <2>2
  <1> QED  BY <1>8 DEF AreIndices4

LEMMA Positions3 ==
  ASSUME NEW t, NEW k \in Positive, NEW c \in Positive, NEW n \in Positive,
         t.shape = <<k, c, n>>, DOMAIN t.values = 1 .. Volume(t.shape)
  PROVE  \A q : q \in Positions(t) <=>
           \E b \in 0 .. k - 1, z \in 0 .. c - 1, f \in 0 .. n - 1 : q = <<b, z, f>>
  <1> DEFINE N == k * c * n
             I(b, z, f) == (b * c + z) * n + f
  <1>1. Volume(t.shape) = N
    BY Volume3 DEF Positive
  <1>2. Positions(t) = {IndexOf(t.shape, p - 1) : p \in 1 .. N}
    BY <1>1 DEF Positions
  <1>3. N \in Nat
    <2>1. k * c \in Nat
      BY DEF Positive
    <2> QED  BY <2>1 DEF Positive
  <1>4. ASSUME NEW b \in 0 .. k - 1, NEW z \in 0 .. c - 1, NEW f \in 0 .. n - 1
        PROVE  I(b, z, f) \in 0 .. N - 1 /\ IndexOf(t.shape, I(b, z, f)) = <<b, z, f>>
    <2>1. I(b, z, f) \in 0 .. N - 1
      BY ThreeDigits
    <2>2. /\ PosOf(t.shape, <<b, z, f>>) = I(b, z, f)
          /\ IndexOf(t.shape, I(b, z, f)) = <<b, z, f>>
      BY CellOf3
    <2> QED  BY <2>1, <2>2
  <1>5. \A i \in 0 .. N - 1 : \E b \in 0 .. k - 1, z \in 0 .. c - 1, f \in 0 .. n - 1 :
          i = I(b, z, f)
    <2> SUFFICES ASSUME NEW i \in 0 .. N - 1
                 PROVE  \E b \in 0 .. k - 1, z \in 0 .. c - 1, f \in 0 .. n - 1 : i = I(b, z, f)
      OBVIOUS
    <2>1. i + 1 \in 1 .. k * c * n
      BY <1>3
    <2>2. PICK b \in 0 .. k - 1, z \in 0 .. c - 1, f \in 0 .. n - 1 :
            i + 1 = (b * c + z) * n + f + 1
      BY <2>1, PositionInTensor
    <2>3. i = I(b, z, f)
      <3>1. (b * c + z) * n \in Int
        <4>1. b * c + z \in Int
          BY DEF Positive
        <4> QED  BY <4>1 DEF Positive
      <3> QED  BY <1>3, <2>2, <3>1
    <2> QED  BY <2>3
  <1> HIDE DEF N, I
  <1>6. ASSUME NEW p \in 1 .. N PROVE \E b \in 0 .. k - 1, z \in 0 .. c - 1, f \in 0 .. n - 1 :
               IndexOf(t.shape, p - 1) = <<b, z, f>>
    <2>1. p - 1 \in 0 .. N - 1
      BY <1>3
    <2> QED  BY <1>4, <1>5, <2>1
  <1>7. ASSUME NEW b \in 0 .. k - 1, NEW z \in 0 .. c - 1, NEW f \in 0 .. n - 1
        PROVE  \E p \in 1 .. N : <<b, z, f>> = IndexOf(t.shape, p - 1)
    <2> DEFINE p == I(b, z, f) + 1
    <2>1. p \in 1 .. N /\ p - 1 = I(b, z, f)
      BY <1>3, <1>4
    <2> QED  BY <1>4, <2>1
  <1>8. ASSUME NEW q PROVE q \in Positions(t) <=>
                 \E b \in 0 .. k - 1, z \in 0 .. c - 1, f \in 0 .. n - 1 :
                   q = <<b, z, f>>
    <2>1. ASSUME q \in Positions(t)
          PROVE  \E b \in 0 .. k - 1, z \in 0 .. c - 1, f \in 0 .. n - 1 :
                   q = <<b, z, f>>
      <3>1. PICK p \in 1 .. N : q = IndexOf(t.shape, p - 1)
        BY <1>2, <2>1
      <3> QED  BY <1>6, <3>1
    <2>2. ASSUME \E b \in 0 .. k - 1, z \in 0 .. c - 1, f \in 0 .. n - 1 :
                   q = <<b, z, f>>
          PROVE  q \in Positions(t)
      BY <1>2, <1>7, <2>2
    <2> QED  BY <2>1, <2>2
  <1> QED  BY <1>8

LEMMA Positions2 ==
  ASSUME NEW s, NEW h \in Positive, NEW w \in Positive, s = <<h, w>>
  PROVE  AreIndices2({IndexOf(s, p - 1) : p \in 1 .. Volume(s)}, h, w)
  <1> DEFINE N == h * w
             I(a, b) == a * w + b
  <1>1. Volume(s) = N
    BY Volume2 DEF Positive
  <1>3. N \in Nat
    BY DEF Positive
  <1>4. ASSUME NEW a \in 0 .. h - 1, NEW b \in 0 .. w - 1
        PROVE  I(a, b) \in 0 .. N - 1 /\ IndexOf(s, I(a, b)) = <<a, b>>
    <2>1. I(a, b) \in 0 .. N - 1
      BY TwoDigits
    <2>2. PosOf(s, <<a, b>>) = I(a, b) /\ IndexOf(s, I(a, b)) = <<a, b>>
      BY CellOf2
    <2> QED  BY <2>1, <2>2
  <1>5. \A i \in 0 .. N - 1 : \E a \in 0 .. h - 1, b \in 0 .. w - 1 : i = I(a, b)
    BY DigitsOfTwo
  <1> HIDE DEF N, I
  <1>6. ASSUME NEW p \in 1 .. N
        PROVE  \E a \in 0 .. h - 1, b \in 0 .. w - 1 : IndexOf(s, p - 1) = <<a, b>>
    <2>1. p - 1 \in 0 .. N - 1
      BY <1>3
    <2> QED  BY <1>4, <1>5, <2>1
  <1>7. ASSUME NEW a \in 0 .. h - 1, NEW b \in 0 .. w - 1
        PROVE  \E p \in 1 .. N : <<a, b>> = IndexOf(s, p - 1)
    <2> DEFINE p == I(a, b) + 1
    <2>1. p \in 1 .. N /\ p - 1 = I(a, b)
      BY <1>3, <1>4
    <2> QED  BY <1>4, <2>1
  <1> DEFINE P == {IndexOf(s, p - 1) : p \in 1 .. Volume(s)}
  <1>2. P = {IndexOf(s, p - 1) : p \in 1 .. N}
    BY <1>1
  <1> HIDE DEF P
  <1>8. ASSUME NEW q PROVE q \in P <=>
                 \E a \in 0 .. h - 1, b \in 0 .. w - 1 : q = <<a, b>>
    <2>1. ASSUME q \in P
          PROVE  \E a \in 0 .. h - 1, b \in 0 .. w - 1 : q = <<a, b>>
      <3>1. PICK p \in 1 .. N : q = IndexOf(s, p - 1)
        BY <1>2, <2>1
      <3> QED  BY <1>6, <3>1
    <2>2. ASSUME \E a \in 0 .. h - 1, b \in 0 .. w - 1 : q = <<a, b>>
          PROVE  q \in P
      BY <1>2, <1>7, <2>2
    <2> QED  BY <2>1, <2>2
  <1> QED  BY <1>8 DEF P, AreIndices2

LEMMA Positions1 ==
  ASSUME NEW s, NEW w \in Positive, s = << w >>
  PROVE  \A q : q \in {IndexOf(s, p - 1) : p \in 1 .. Volume(s)} <=>
           \E b \in 0 .. w - 1 : q = << b >>
  <1>1. Volume(s) = w /\ w \in Nat
    BY Volume1 DEF Positive
  <1>2. \A b \in 0 .. w - 1 : IndexOf(s, b) = << b >>
    BY CellOf1
  <1>3. \A p \in 1 .. w : p - 1 \in 0 .. w - 1
    BY <1>1
  <1>4. \A b \in 0 .. w - 1 : b + 1 \in 1 .. w /\ b + 1 - 1 = b
    BY <1>1
  <1>5. ASSUME NEW b \in 0 .. w - 1
        PROVE  \E p \in 1 .. w : << b >> = IndexOf(s, p - 1)
    <2>1. b + 1 \in 1 .. w /\ (b + 1) - 1 = b
      BY <1>1
    <2> QED  BY <1>2, <2>1
  <1> QED  BY <1>1, <1>2, <1>3, <1>5

(***************************************************************************)
(* Convolutions.                                                           *)
(***************************************************************************)
\* A layer that has been trained, exported and made again.
LayerIsMade ==
  layer \in KerasLayers /\ Trained = Exported(layer) /\ params.offsets = Offsets /\ made = Made

LEMMA AppliedIs ==
  ASSUME layer \in KerasLayers, NEW t
  PROVE  LET strides == CreateShape2(layer.strides)
             size == CreateShape2(layer.pool) IN
         /\ layer.class \in Convolutions =>
              Applied(t) = Convolve(made.filters, strides, layer.padding, UseOffset(Depth(t)), t)
         /\ layer.class = "SeparableConv2D" => Applied(t) = SeparablyConvolved(t)
         /\ layer.class = "Dense" => Applied(t) = DenselyApplied(t)
         /\ layer.class \in MaxPoolings =>
              Applied(t) = MaxPooled(size, strides, layer.padding, PoolUseOffset, t)
         /\ layer.class \in AveragePoolings =>
              Applied(t) = MeanPooled(size, strides, layer.padding, PoolUseOffset, t)
  <1> DEFINE strides == CreateShape2(layer.strides)
             size == CreateShape2(layer.pool)
             c == Convolve(made.filters, strides, layer.padding, UseOffset(Depth(t)), t)
             p == MaxPooled(size, strides, layer.padding, PoolUseOffset, t)
             q == MeanPooled(size, strides, layer.padding, PoolUseOffset, t)
  <1>1. Applied(t) =
          CASE layer.class \in Convolutions -> c
            [] layer.class = "SeparableConv2D" -> SeparablyConvolved(t)
            [] layer.class = "Dense" -> DenselyApplied(t)
            [] layer.class \in MaxPoolings -> p
            [] layer.class \in AveragePoolings -> q
    BY DEF Applied, MaxPooled, MeanPooled
  <1> HIDE DEF c, p, q
  <1>2. /\ layer.class \in Convolutions => Applied(t) = c
        /\ layer.class = "SeparableConv2D" => Applied(t) = SeparablyConvolved(t)
        /\ layer.class = "Dense" => Applied(t) = DenselyApplied(t)
        /\ layer.class \in MaxPoolings => Applied(t) = p
        /\ layer.class \in AveragePoolings => Applied(t) = q
    BY <1>1 DEF Convolutions, MaxPoolings, AveragePoolings
  <1> QED  BY <1>2 DEF c, p, q

HasKerasValues(o) ==
  /\ Depth(o) = KerasChannels
  /\ Spatial(o) = KerasWindows
  /\ \A f \in 0 .. KerasChannels - 1 : \A c \in Spatial(o) :
       Get(o, f, c[1], c[2]) = KerasValue(c[1], c[2], f)

LEMMA ValuesByWindow ==
  ASSUME layer \in KerasLayers, layer.class # "Dense", NEW o,
         o.shape = <<KerasChannels, Out(YAxis), Out(XAxis)>>,
         \A f \in 0 .. KerasChannels - 1, y \in 0 .. Out(YAxis) - 1, x \in 0 .. Out(XAxis) - 1 :
           Get(o, f, y, x) = KerasValue(y, x, f)
  PROVE  HasKerasValues(o)
  <1>1. Depth(o) = KerasChannels /\ Height(o) = Out(YAxis) /\ Width(o) = Out(XAxis)
    BY ShapedTensor
  <1>2. Spatial(o) = (0 .. Out(YAxis) - 1) \X (0 .. Out(XAxis) - 1)
    BY <1>1 DEF Spatial
  <1>3. Spatial(o) = KerasWindows
    BY <1>2, WindowsAre
  <1>4. \A c \in Spatial(o) : c[1] \in 0 .. Out(YAxis) - 1 /\ c[2] \in 0 .. Out(XAxis) - 1
    BY <1>2
  <1> QED  BY <1>1, <1>3, <1>4 DEF HasKerasValues

LEMMA KernelWindows ==
  ASSUME layer \in KerasLayers, layer.class \in Convolutions
  PROVE  YAxis.window = KH(layer) /\ XAxis.window = KW(layer) /\ Rank = SpatialRank(layer)
  <1>1. \A a : WindowOf(layer, a) = layer.kernel.shape[a]
    BY DEF WindowOf, Convolutions, Poolings, MaxPoolings, AveragePoolings
  <1>2. layer.class # "Dense"
    BY Classes
  <1>3. Rank = SpatialRank(layer)
    BY RankIs
  <1>4. /\ Rank \in 1 .. 2
        /\ Rank = 1 => YAxis.window = 1 /\ XAxis.window = WindowOf(layer, 1)
        /\ Rank = 2 => YAxis.window = WindowOf(layer, 1) /\ XAxis.window = WindowOf(layer, 2)
    BY <1>2, AxesOfLayer
  <1> QED  BY <1>1, <1>3, <1>4 DEF KH, KW

LEMMA ConvolutionApplied ==
  ASSUME LayerIsMade, layer.class \in Convolutions
  PROVE  Convolved(Applied(InputTensor), Units(layer), Trained.weights, Bias,
                   KC(layer), InputTensor, YAxis, XAxis, IsShifted)
  <1> DEFINE t == InputTensor
  <1>1. /\ layer \in KerasLayers /\ Trained = Exported(layer)
        /\ made = Made /\ params.offsets = Offsets
    BY DEF LayerIsMade
  <1>2. layer.class # "Dense"
    BY Classes
  <1>3. KC(layer) = Input(layer)[Rank + 1] /\ Chans(Input(layer)) = Input(layer)[Rank + 1]
    BY <1>1, KernelOfConvolution, RankIs, InputShape
  <1>4. Depth(t) = KC(layer)
    BY <1>1, <1>3, InputTensorShape
  <1>5. UseOffset(KC(layer)) \in BOOLEAN /\ (UseOffset(KC(layer)) <=> IsShifted)
    BY <1>1, <1>3, OffsetIsUsed
  <1>6. IsImage(t, KC(layer), YAxis, XAxis)
    BY <1>1, <1>2, <1>3, InputIsImage
  <1>7. /\ YAxis.padding = layer.padding /\ XAxis.padding = layer.padding
        /\ CreateShape2(layer.strides) = <<YAxis.step, XAxis.step>>
        /\ CreateShape2(layer.dilation) = <<YAxis.spread, XAxis.spread>>
    BY <1>1, <1>2, AxesOfLayer
  <1>8. AreFilters(made.filters, <<YAxis.spread, XAxis.spread>>, KC(layer),
                   YAxis.window, XAxis.window, Units(layer), Trained.weights, Bias)
    BY <1>1, <1>7, FiltersOfConvolution, KernelWindows
  <1>9. Units(layer) \in Positive
    BY <1>1, KernelOfConvolution
  <1>10. IsShifted \in BOOLEAN
    BY DEF IsShifted
  <1>11. Applied(t) = Convolve(made.filters, <<YAxis.step, XAxis.step>>, YAxis.padding,
                               UseOffset(KC(layer)), t)
    BY <1>1, <1>4, <1>7, AppliedIs
  <1>12. Applied(t) = Convolve(made.filters, <<YAxis.step, XAxis.step>>, YAxis.padding,
                               IsShifted, t)
    <2>1. UseOffset(KC(layer)) = IsShifted
      BY <1>5, <1>10
    <2> QED  BY <1>11, <2>1
  <1> HIDE DEF t
  <1>13. Convolved(Applied(t), Units(layer), Trained.weights, Bias,
                   KC(layer), t, YAxis, XAxis, IsShifted)
    BY <1>6, <1>7, <1>8, <1>9, <1>10, <1>12, ConvolveIs
  <1> QED  BY <1>13 DEF t

\* The index in Keras's kernel of the weight at row a and column b.
KernelPosition(a, b, z, f) == IF Rank = 1 THEN <<b, z, f>> ELSE <<a, b, z, f>>

LEMMA KernelPositions ==
  ASSUME layer \in KerasLayers, layer.class \in Convolutions, NEW f \in 0 .. Units(layer) - 1, NEW q
  PROVE  (q \in Positions(layer.kernel) /\ q[Len(q)] = f) <=>
           \E z \in 0 .. KC(layer) - 1, a \in 0 .. KH(layer) - 1, b \in 0 .. KW(layer) - 1 :
             q = KernelPosition(a, b, z, f)
  <1> DEFINE w == layer.kernel
  <1>1. /\ KH(layer) \in Positive /\ KW(layer) \in Positive /\ KC(layer) \in Positive
        /\ Units(layer) \in Positive
    BY KernelOfConvolution
  <1>2. Rank = SpatialRank(layer) /\ Rank \in 1 .. 2
    BY KernelWindows, AxesOfLayer, Classes
  <1>3. w.shape \in SizesOf(Rank + 2) /\ w.values \in [1 .. Volume(w.shape) -> Nat]
    BY <1>2, LayerIs, FitsIs DEF IsKernel
  <1>4. DOMAIN w.values = 1 .. Volume(w.shape)
    BY <1>3
  <1>5. CASE Rank = 1
    <2>1. w.shape = <<w.shape[1], w.shape[2], w.shape[3]>> /\ Len(w.shape) = 3
      BY <1>3, <1>5, ThreeSizes
    <2>2. KH(layer) = 1 /\ KW(layer) = w.shape[1] /\ KC(layer) = w.shape[2]
      BY <1>2, <1>5 DEF KH, KW, KC
    <2>3. Units(layer) = w.shape[3]
      BY <2>1 DEF Units
    <2>4. w.shape = <<KW(layer), KC(layer), Units(layer)>>
      BY <2>1, <2>2, <2>3
    <2>5. q \in Positions(w) <=>
            \E b \in 0 .. KW(layer) - 1, z \in 0 .. KC(layer) - 1, g \in 0 .. Units(layer) - 1 :
              q = <<b, z, g>>
      BY <1>1, <1>4, <2>4, Positions3
    <2>6. \A a, b, z, g : KernelPosition(a, b, z, g) = <<b, z, g>>
      BY <1>5 DEF KernelPosition
    <2>7. \A b, z, g : <<b, z, g>>[Len(<<b, z, g>>)] = g
      OBVIOUS
    <2>8. 0 \in 0 .. KH(layer) - 1
      BY <2>2
    <2> HIDE DEF w
    <2>9. ASSUME q \in Positions(w), q[Len(q)] = f
          PROVE  \E z \in 0 .. KC(layer) - 1, a \in 0 .. KH(layer) - 1, b \in 0 .. KW(layer) - 1 :
                   q = KernelPosition(a, b, z, f)
      <3>1. PICK b \in 0 .. KW(layer) - 1, z \in 0 .. KC(layer) - 1, g \in 0 .. Units(layer) - 1 :
              q = <<b, z, g>>
        BY <2>5, <2>9
      <3>2. g = f
        BY <2>7, <2>9, <3>1
      <3>3. q = KernelPosition(0, b, z, f)
        BY <2>6, <3>1, <3>2
      <3> QED  BY <2>8, <3>3
    <2>10. ASSUME NEW z \in 0 .. KC(layer) - 1, NEW a \in 0 .. KH(layer) - 1,
                  NEW b \in 0 .. KW(layer) - 1, q = KernelPosition(a, b, z, f)
           PROVE  q \in Positions(w) /\ q[Len(q)] = f
      <3>1. q = <<b, z, f>>
        BY <2>6, <2>10
      <3> QED  BY <2>5, <2>7, <3>1
    <2> QED  BY <2>9, <2>10 DEF w
  <1>6. CASE Rank = 2
    <2>1. w.shape = <<w.shape[1], w.shape[2], w.shape[3], w.shape[4]>> /\ Len(w.shape) = 4
      BY <1>3, <1>6, FourSizes
    <2>2. KH(layer) = w.shape[1] /\ KW(layer) = w.shape[2] /\ KC(layer) = w.shape[3]
      BY <1>2, <1>6 DEF KH, KW, KC
    <2>3. Units(layer) = w.shape[4]
      BY <2>1 DEF Units
    <2>4. w.shape = <<KH(layer), KW(layer), KC(layer), Units(layer)>>
      BY <2>1, <2>2, <2>3
    <2>5. q \in Positions(w) <=>
            \E a \in 0 .. KH(layer) - 1, b \in 0 .. KW(layer) - 1, z \in 0 .. KC(layer) - 1,
               g \in 0 .. Units(layer) - 1 : q = <<a, b, z, g>>
      <3>1. AreIndices4(Positions(w), KH(layer), KW(layer), KC(layer), Units(layer))
        BY <1>1, <1>4, <2>4, Positions4
      <3> QED  BY <3>1 DEF AreIndices4
    <2>6. \A a, b, z, g : KernelPosition(a, b, z, g) = <<a, b, z, g>>
      BY <1>6 DEF KernelPosition
    <2>7. \A a, b, z, g : <<a, b, z, g>>[Len(<<a, b, z, g>>)] = g
      OBVIOUS
    <2> HIDE DEF w
    <2>9. ASSUME q \in Positions(w), q[Len(q)] = f
          PROVE  \E z \in 0 .. KC(layer) - 1, a \in 0 .. KH(layer) - 1, b \in 0 .. KW(layer) - 1 :
                   q = KernelPosition(a, b, z, f)
      <3>1. PICK a \in 0 .. KH(layer) - 1, b \in 0 .. KW(layer) - 1, z \in 0 .. KC(layer) - 1,
                 g \in 0 .. Units(layer) - 1 : q = <<a, b, z, g>>
        BY <2>5, <2>9
      <3>2. g = f
        BY <2>7, <2>9, <3>1
      <3>3. q = KernelPosition(a, b, z, f)
        BY <2>6, <3>1, <3>2
      <3> QED  BY <3>3
    <2>10. ASSUME NEW z \in 0 .. KC(layer) - 1, NEW a \in 0 .. KH(layer) - 1,
                  NEW b \in 0 .. KW(layer) - 1, q = KernelPosition(a, b, z, f)
           PROVE  q \in Positions(w) /\ q[Len(q)] = f
      <3>1. q = <<a, b, z, f>>
        BY <2>6, <2>10
      <3> QED  BY <2>5, <2>7, <3>1
    <2> QED  BY <2>9, <2>10 DEF w
  <1> QED  BY <1>2, <1>5, <1>6

LEMMA KerasConvolutionIs ==
  ASSUME layer \in KerasLayers, layer.class \in Convolutions, NEW f \in 0 .. Units(layer) - 1,
         NEW y \in 0 .. Out(YAxis) - 1, NEW x \in 0 .. Out(XAxis) - 1, NEW v
  PROVE  v \in KerasConvolution(OutOf(y, x), f) <=>
           \/ \E z \in 0 .. KC(layer) - 1, a \in 0 .. KH(layer) - 1, b \in 0 .. KW(layer) - 1 :
                v \in Times(KernelCell(layer, f, z, a, b),
                            Beneath(InputTensor, YAxis, XAxis, IsShifted, y, x, z, a, b))
           \/ v \in BiasTerm(f)
  <1> DEFINE out == OutOf(y, x)
             P == {q \in Positions(layer.kernel) : q[Len(q)] = f}
             T(z, a, b) == Times(KernelCell(layer, f, z, a, b),
                                 Beneath(InputTensor, YAxis, XAxis, IsShifted, y, x, z, a, b))
  <1>1. v \in KerasConvolution(out, f) <=>
          \/ \E k \in P : v \in Times(At(layer.kernel, k), ValueUnder(k, out))
          \/ v \in BiasTerm(f)
    BY DEF KerasConvolution
  <1>2. \A q : q \in P <=>
          \E z \in 0 .. KC(layer) - 1, a \in 0 .. KH(layer) - 1, b \in 0 .. KW(layer) - 1 :
            q = KernelPosition(a, b, z, f)
    BY KernelPositions
  <1>3. /\ YAxis.window = KH(layer) /\ XAxis.window = KW(layer) /\ Rank = SpatialRank(layer)
        /\ layer.class # "Dense"
    BY KernelWindows, Classes
  <1>4. Rank \in 1 .. 2
    BY <1>3, AxesOfLayer
  <1>5. Chans(Input(layer)) = KC(layer)
    BY KernelOfConvolution, InputShape
  <1>6. ASSUME NEW z \in 0 .. KC(layer) - 1,
               NEW a \in 0 .. KH(layer) - 1, NEW b \in 0 .. KW(layer) - 1
        PROVE  LET k == KernelPosition(a, b, z, f) IN
               Times(At(layer.kernel, k), ValueUnder(k, out)) = T(z, a, b)
    <2> DEFINE k == KernelPosition(a, b, z, f)
    <2>1. \A i \in 1 .. Rank + 1 : k[i] = KernelIndex(a, b, z)[i]
      BY <1>4 DEF KernelPosition, KernelIndex
    <2>2. At(layer.kernel, k) = KernelCell(layer, f, z, a, b)
      BY <1>3, <1>4 DEF KernelPosition, KernelCell
    <2>3. /\ z \in 0 .. Chans(Input(layer)) - 1
          /\ a \in 0 .. YAxis.window - 1 /\ b \in 0 .. XAxis.window - 1
      BY <1>3, <1>5
    <2> HIDE DEF k
    <2>4. Beneath(InputTensor, YAxis, XAxis, IsShifted, y, x, z, a, b) = ValueUnder(k, out)
      BY <1>3, <2>1, <2>3, BeneathIsUnder
    <2> QED  BY <2>2, <2>4 DEF k
  <1> HIDE DEF P, T, out
  <1>7. (\E k \in P : v \in Times(At(layer.kernel, k), ValueUnder(k, out))) <=>
          \E z \in 0 .. KC(layer) - 1, a \in 0 .. KH(layer) - 1, b \in 0 .. KW(layer) - 1 :
            v \in T(z, a, b)
    BY <1>2, <1>6
  <1> QED  BY <1>1, <1>7 DEF T, out

LEMMA ConvolutionSummands ==
  ASSUME LayerIsMade, layer.class \in Convolutions, NEW f \in 0 .. Units(layer) - 1,
         NEW y, NEW x, NEW v
  PROVE  LET e == KC(layer) * YAxis.window * XAxis.window IN
         Summand(v, Part(Trained.weights, f + 1, e), Bias[f + 1],
                 KC(layer), InputTensor, YAxis, XAxis, IsShifted, y, x) <=>
           \/ \E z \in 0 .. KC(layer) - 1, a \in 0 .. KH(layer) - 1, b \in 0 .. KW(layer) - 1 :
                v \in Times(KernelCell(layer, f, z, a, b),
                            Beneath(InputTensor, YAxis, XAxis, IsShifted, y, x, z, a, b))
           \/ v \in BiasTerm(f)
  <1> DEFINE c == KC(layer)
             h == KH(layer)
             w == KW(layer)
             n == Units(layer)
             e == c * h * w
             V == Trained.weights
             Q == Part(V, f + 1, e)
  <1>1. layer \in KerasLayers /\ Trained = Exported(layer)
    BY DEF LayerIsMade
  <1>2. YAxis.window = h /\ XAxis.window = w
    BY <1>1, KernelWindows
  <1>3. /\ h \in Positive /\ w \in Positive /\ c \in Positive /\ n \in Positive
    BY <1>1, KernelOfConvolution
  <1>4. Counted(V, n * c * h * w)
    BY <1>1, KernelOfConvolution
  <1>5. \A z \in 0 .. c - 1, a \in 0 .. h - 1, b \in 0 .. w - 1 :
          V[((f * c + z) * h + a) * w + b + 1] = KernelCell(layer, f, z, a, b)
    BY <1>1, KernelOfConvolution
  <1>6. BiasTerm(f) = Times(Bias[f + 1], One)
    <2>1. layer.class \notin Poolings
      BY Classes
    <2>2. Trained.bias = layer.bias
      BY <1>1, ConvolutionRank, ExportedIs
    <2> QED  BY <1>1, <1>3, <2>1, <2>2, BiasIs
  <1> HIDE DEF c, h, w, n, V
  <1>7. e \in Positive
    BY <1>3, ProductOfPositives
  <1>8. IsSeq(V) /\ Len(V) = n * e
    <2>1. V \in Seq(Nat) /\ Len(V) = n * c * h * w
      BY <1>4 DEF Counted
    <2>2. n * c * h * w = n * (c * h * w)
      BY <1>3 DEF Positive
    <2> QED  BY <2>1, <2>2, SeqIsSeq
  <1>9. ASSUME NEW z \in 0 .. c - 1, NEW a \in 0 .. h - 1, NEW b \in 0 .. w - 1
        PROVE  Q[(z * h + a) * w + b + 1] = KernelCell(layer, f, z, a, b)
    <2> DEFINE i == (z * h + a) * w + b + 1
    <2>1. i \in 1 .. c * h * w
      BY <1>3, TensorPosition
    <2>2. f \in 0 .. n - 1 /\ f \in Nat /\ z \in Nat /\ a \in Nat /\ b \in Nat
      BY <1>3 DEF n, Positive
    <2>3. f * e + i = ((f * c + z) * h + a) * w + b + 1
      BY <1>3, <2>2, WeightPosition
    <2> HIDE DEF i, e
    <2>4. Q[i] = V[f * e + i]
      BY <1>3, <1>7, <1>8, <2>1, <2>2, PartAt DEF e
    <2> QED  BY <1>5, <2>3, <2>4 DEF i
  <1>10. c * YAxis.window * XAxis.window = e
    BY <1>2
  <1> HIDE DEF e, Q
  <1>11. Summand(v, Q, Bias[f + 1], c, InputTensor, YAxis, XAxis, IsShifted, y, x) <=>
           \/ \E z \in 0 .. c - 1, a \in 0 .. h - 1, b \in 0 .. w - 1 :
                v \in Times(KernelCell(layer, f, z, a, b),
                            Beneath(InputTensor, YAxis, XAxis, IsShifted, y, x, z, a, b))
           \/ v \in BiasTerm(f)
    BY <1>2, <1>6, <1>9 DEF Summand
  <1> QED  BY <1>10, <1>11 DEF c, h, w, V, Q

\* Conv1D and Conv2D: one filter of the code for each of Keras's.
LEMMA ConvolutionIsKeras ==
  ASSUME LayerIsMade, layer.class \in Convolutions
  PROVE  HasKerasValues(Applied(InputTensor))
  <1> DEFINE o == Applied(InputTensor)
             e == KC(layer) * YAxis.window * XAxis.window
  <1>1. layer \in KerasLayers /\ layer.class # "Dense"
    BY Classes DEF LayerIsMade
  <1>2. Convolved(o, Units(layer), Trained.weights, Bias, KC(layer), InputTensor, YAxis, XAxis,
                  IsShifted)
    BY ConvolutionApplied
  <1> HIDE DEF o
  <1>3. KerasChannels = Units(layer)
    BY Classes DEF KerasChannels
  <1>4. o.shape = <<KerasChannels, Out(YAxis), Out(XAxis)>>
    BY <1>2, <1>3 DEF Convolved
  <1>5. ASSUME NEW f \in 0 .. KerasChannels - 1,
               NEW y \in 0 .. Out(YAxis) - 1, NEW x \in 0 .. Out(XAxis) - 1
        PROVE  Get(o, f, y, x) = KerasValue(y, x, f)
    <2>1. KerasValue(y, x, f) = KerasConvolution(OutOf(y, x), f)
      BY DEF KerasValue, OutOf, Convolutions, MaxPoolings, AveragePoolings
    <2>2. f \in 0 .. Units(layer) - 1
      BY <1>3
    <2>3. \A v : v \in Get(o, f, y, x) <=>
            Summand(v, Part(Trained.weights, f + 1, e), Bias[f + 1],
                    KC(layer), InputTensor, YAxis, XAxis, IsShifted, y, x)
      BY <1>2, <2>2 DEF Convolved
    <2>4. \A v : v \in Get(o, f, y, x) <=> v \in KerasConvolution(OutOf(y, x), f)
      <3> SUFFICES ASSUME NEW v
                   PROVE  v \in Get(o, f, y, x) <=> v \in KerasConvolution(OutOf(y, x), f)
        OBVIOUS
      <3> DEFINE S == \E z \in 0 .. KC(layer) - 1,
                         a \in 0 .. KH(layer) - 1, b \in 0 .. KW(layer) - 1 :
                        v \in Times(KernelCell(layer, f, z, a, b),
                                    Beneath(InputTensor, YAxis, XAxis, IsShifted, y, x, z, a, b))
      <3>1. Summand(v, Part(Trained.weights, f + 1, e), Bias[f + 1],
                    KC(layer), InputTensor, YAxis, XAxis, IsShifted, y, x)
              <=> S \/ v \in BiasTerm(f)
        BY <2>2, ConvolutionSummands
      <3>2. v \in KerasConvolution(OutOf(y, x), f) <=> S \/ v \in BiasTerm(f)
        BY <1>1, <2>2, KerasConvolutionIs
      <3> QED  BY <2>3, <3>1, <3>2
    <2>5. Get(o, f, y, x) = KerasConvolution(OutOf(y, x), f)
      BY <2>4
    <2> QED  BY <2>1, <2>5
  <1> QED  BY <1>1, <1>4, <1>5, ValuesByWindow DEF o

(***************************************************************************)
(* Pooling.                                                                *)
(***************************************************************************)
\* The cells of channel z under the window at y, x.
Covered(t, ay, ax, u, z, y, x) ==
  {Get(t, z, p[1], p[2]) :
     p \in {<<First(ay, u) + ay.step * y + a, First(ax, u) + ax.step * x + b>> :
              a \in 0 .. ay.window - 1, b \in 0 .. ax.window - 1} \cap Spatial(t)}

\* m and a hold the greatest and the mean of the cells under each window.
ArePooled(m, a, d, t, ay, ax, u) ==
  /\ m.shape = <<d, Out(ay), Out(ax)>> /\ a.shape = <<d, Out(ay), Out(ax)>>
  /\ \A z \in 0 .. d - 1, y \in 0 .. Out(ay) - 1, x \in 0 .. Out(ax) - 1 :
       /\ Get(m, z, y, x) = Greatest(Covered(t, ay, ax, u, z, y, x))
       /\ Get(a, z, y, x) = Mean(Covered(t, ay, ax, u, z, y, x))

LEMMA PooledIs ==
  ASSUME NEW t, NEW d, NEW ay, NEW ax, IsImage(t, d, ay, ax), ay.padding = ax.padding,
         ay.spread = 1, ax.spread = 1, NEW u \in BOOLEAN
  PROVE  ArePooled(MaxPooled(<<ay.window, ax.window>>, <<ay.step, ax.step>>, ay.padding, u, t),
                   MeanPooled(<<ay.window, ax.window>>, <<ay.step, ax.step>>, ay.padding, u, t),
                   d, t, ay, ax, u)
  <1> DEFINE m == MaxPooled(<<ay.window, ax.window>>, <<ay.step, ax.step>>, ay.padding, u, t)
             a == MeanPooled(<<ay.window, ax.window>>, <<ay.step, ax.step>>, ay.padding, u, t)
             cfg == [y |-> PlanOf(ay, u), x |-> PlanOf(ax, u)]
             s == <<ay.step, ax.step>>
             size == <<ay.window, ax.window>>
             p == Out(ay)
             q == Out(ax)
             K(z, y, x) ==
               {Get(t, z, c[1], c[2]) :
                  c \in {<<cfg.y.offset + s[1] * y + yf - cfg.y.top,
                           cfg.x.offset + s[2] * x + xf - cfg.x.top>> :
                           yf \in 0 .. size[1] - 1, xf \in 0 .. size[2] - 1} \cap Spatial(t)}
             V == [i \in 1 .. d * p * q |->
                     Greatest(K((i - 1) \div (p * q), ((i - 1) \div q) % p, (i - 1) % q))]
             W == [i \in 1 .. d * p * q |->
                     Mean(K((i - 1) \div (p * q), ((i - 1) \div q) % p, (i - 1) % q))]
  <1>1. /\ d \in Positive /\ IsAxis(ay) /\ IsAxis(ax) /\ t.shape = <<d, ay.size, ax.size>>
        /\ ay.window \in Positive /\ ax.window \in Positive
        /\ ay.step \in Positive /\ ax.step \in Positive
    BY DEF IsImage, IsAxis
  <1>2. Extent(ay) = ay.window /\ Extent(ax) = ax.window
    BY <1>1 DEF Extent, Reach, Positive
  <1>3. Depth(t) = d /\ Height(t) = ay.size /\ Width(t) = ax.size
    BY <1>1, ShapedTensor
  <1>4. PreprocessConvolution(size[1], size[2], s, ay.padding, u, t) = cfg
    BY <1>2, <1>3, PreprocessIs
  <1>5. cfg.y.out = p /\ cfg.x.out = q /\ p \in Positive /\ q \in Positive
    BY <1>1, PlanOfIs
  <1>6. m = [shape |-> <<d, p, q>>, values |-> V] /\ a = [shape |-> <<d, p, q>>, values |-> W]
    <2> DEFINE c0 == PreprocessConvolution(size[1], size[2], s, ay.padding, u, t)
               L(g, z, y, x) ==
                 {Get(t, z, c[1], c[2]) :
                    c \in {<<g.y.offset + s[1] * y + yf - g.y.top,
                             g.x.offset + s[2] * x + xf - g.x.top>> :
                             yf \in 0 .. size[1] - 1, xf \in 0 .. size[2] - 1} \cap Spatial(t)}
               R(g) == [shape |-> <<Depth(t), g.y.out, g.x.out>>,
                        values |-> [i \in 1 .. Depth(t) * g.y.out * g.x.out |->
                          Greatest(L(g, (i - 1) \div (g.y.out * g.x.out),
                                     ((i - 1) \div g.x.out) % g.y.out, (i - 1) % g.x.out))]]
               S(g) == [shape |-> <<Depth(t), g.y.out, g.x.out>>,
                        values |-> [i \in 1 .. Depth(t) * g.y.out * g.x.out |->
                          Mean(L(g, (i - 1) \div (g.y.out * g.x.out),
                                 ((i - 1) \div g.x.out) % g.y.out, (i - 1) % g.x.out))]]
    <2> HIDE DEF s, size, p, q, cfg
    <2>1. MaxPooled(size, s, ay.padding, u, t) = R(c0)
      BY DEF MaxPooled, Pool2D, Tensor
    <2>2. MeanPooled(size, s, ay.padding, u, t) = S(c0)
      BY DEF MeanPooled, Pool2D, Tensor
    <2>3. m = R(c0) /\ a = S(c0)
      <3> HIDE DEF R, S, c0
      <3> QED  BY <2>1, <2>2 DEF s, size
    <2>4. c0 = cfg
      BY <1>4
    <2>5. m = R(cfg) /\ a = S(cfg)
      <3> HIDE DEF R, S, c0, m, a
      <3> QED  BY <2>3, <2>4
    <2>6. R(cfg) = [shape |-> <<d, p, q>>, values |-> V]
      <3> HIDE DEF L
      <3>1. R(cfg) = [shape |-> <<d, p, q>>,
                      values |-> [i \in 1 .. d * p * q |->
                        Greatest(L(cfg, (i - 1) \div (p * q), ((i - 1) \div q) % p, (i - 1) % q))]]
        BY <1>3, <1>5
      <3> QED  BY <3>1 DEF L
    <2>7. S(cfg) = [shape |-> <<d, p, q>>, values |-> W]
      <3> HIDE DEF L
      <3>1. S(cfg) = [shape |-> <<d, p, q>>,
                      values |-> [i \in 1 .. d * p * q |->
                        Mean(L(cfg, (i - 1) \div (p * q), ((i - 1) \div q) % p, (i - 1) % q))]]
        BY <1>3, <1>5
      <3> QED  BY <3>1 DEF L
    <2> HIDE DEF R, S, V, W, m, a
    <2> QED  BY <2>5, <2>6, <2>7
  <1>8. ASSUME NEW z, NEW y \in 0 .. p - 1, NEW x \in 0 .. q - 1
        PROVE  K(z, y, x) = Covered(t, ay, ax, u, z, y, x)
    <2>1. /\ First(ay, u) = cfg.y.offset - cfg.y.top /\ cfg.y.offset \in Int /\ cfg.y.top \in Int
          /\ First(ax, u) = cfg.x.offset - cfg.x.top /\ cfg.x.offset \in Int /\ cfg.x.top \in Int
      BY <1>1, PlanOfIs, WhatIsLeft
    <2>2. ay.step * y \in Int /\ ax.step * x \in Int
      BY <1>1, <1>5 DEF Positive
    <2> HIDE DEF cfg
    <2>3. \A yf \in 0 .. ay.window - 1 :
            cfg.y.offset + s[1] * y + yf - cfg.y.top = First(ay, u) + ay.step * y + yf
      BY <2>1, <2>2
    <2>4. \A xf \in 0 .. ax.window - 1 :
            cfg.x.offset + s[2] * x + xf - cfg.x.top = First(ax, u) + ax.step * x + xf
      BY <2>1, <2>2
    <2>5. {<<cfg.y.offset + s[1] * y + yf - cfg.y.top, cfg.x.offset + s[2] * x + xf - cfg.x.top>> :
             yf \in 0 .. size[1] - 1, xf \in 0 .. size[2] - 1}
            = {<<First(ay, u) + ay.step * y + b, First(ax, u) + ax.step * x + c>> :
                b \in 0 .. ay.window - 1, c \in 0 .. ax.window - 1}
      BY <2>3, <2>4
    <2> QED  BY <2>5 DEF Covered
  <1> HIDE DEF K, m, a, p, q
  <1>9. /\ m.shape = <<d, p, q>> /\ m.values = V /\ a.shape = <<d, p, q>> /\ a.values = W
    <2> HIDE DEF V, W
    <2> QED  BY <1>6
  <1>10. /\ Height(m) = p /\ Width(m) = q /\ Height(a) = p /\ Width(a) = q
    BY <1>9, ShapedTensor
  <1>11. ASSUME NEW z \in 0 .. d - 1, NEW y \in 0 .. p - 1, NEW x \in 0 .. q - 1
         PROVE  /\ Get(m, z, y, x) = Greatest(K(z, y, x))
                /\ Get(a, z, y, x) = Mean(K(z, y, x))
    <2> DEFINE i == (z * p + y) * q + x + 1
    <2>1. /\ i \in 1 .. d * p * q /\ (i - 1) \div (p * q) = z
          /\ ((i - 1) \div q) % p = y /\ (i - 1) % q = x
      BY <1>1, <1>5, TensorPosition
    <2>2. Get(m, z, y, x) = V[i] /\ Get(a, z, y, x) = W[i]
      BY <1>9, <1>10 DEF Get
    <2> HIDE DEF i
    <2>3. V[i] = Greatest(K(z, y, x)) /\ W[i] = Mean(K(z, y, x))
      BY <2>1
    <2> QED  BY <2>2, <2>3
  <1>12. \A z \in 0 .. d - 1, y \in 0 .. p - 1, x \in 0 .. q - 1 :
           /\ Get(m, z, y, x) = Greatest(Covered(t, ay, ax, u, z, y, x))
           /\ Get(a, z, y, x) = Mean(Covered(t, ay, ax, u, z, y, x))
    BY <1>8, <1>11
  <1>13. ArePooled(m, a, d, t, ay, ax, u)
    BY <1>9, <1>12 DEF ArePooled, p, q
  <1> QED  BY <1>13 DEF m, a

LEMMA PoolAxes ==
  ASSUME layer \in KerasLayers, layer.class \in Poolings
  PROVE  /\ Rank \in 1 .. 2 /\ layer.class # "Dense"
         /\ CreateShape2(layer.pool) = <<YAxis.window, XAxis.window>>
         /\ YAxis.spread = 1 /\ XAxis.spread = 1
         /\ Rank = 1 => layer.pool = << XAxis.window >>
         /\ Rank = 2 => layer.pool = <<YAxis.window, XAxis.window>>
  <1>1. layer.class # "Dense"
    BY Classes
  <1>2. Rank = SpatialRank(layer) /\ Rank \in 1 .. 2
    BY <1>1, RankIs, AxesOfLayer
  <1>3. /\ layer.pool \in SizesOf(Rank) /\ layer.dilation \in SizesOf(Rank)
        /\ \A a \in 1 .. Rank : layer.dilation[a] = 1
    BY <1>2, LayerIs, FitsIs
  <1>4. \A a : WindowOf(layer, a) = layer.pool[a]
    BY DEF WindowOf, Poolings, MaxPoolings, AveragePoolings, Convolutions
  <1>5. /\ CreateShape2(layer.dilation) = <<YAxis.spread, XAxis.spread>>
        /\ Rank = 1 => YAxis.window = 1 /\ XAxis.window = WindowOf(layer, 1)
        /\ Rank = 2 => YAxis.window = WindowOf(layer, 1) /\ XAxis.window = WindowOf(layer, 2)
    BY <1>1, AxesOfLayer
  <1>6. CASE Rank = 1
    <2>1. layer.pool = << layer.pool[1] >>
      BY <1>3, <1>6, OneSize
    <2>2. CreateShape2(layer.pool) = <<1, layer.pool[1]>>
      BY <1>3, <1>6, SizesOfLayer
    <2>3. CreateShape2(layer.dilation) = <<1, layer.dilation[1]>> /\ layer.dilation[1] = 1
      BY <1>3, <1>6, SizesOfLayer
    <2> QED  BY <1>1, <1>2, <1>4, <1>5, <1>6, <2>1, <2>2, <2>3
  <1>7. CASE Rank = 2
    <2>1. layer.pool = <<layer.pool[1], layer.pool[2]>>
      BY <1>3, <1>7, TwoSizes
    <2>2. CreateShape2(layer.pool) = <<layer.pool[1], layer.pool[2]>>
      BY <1>3, <1>7, SizesOfLayer
    <2>3. /\ CreateShape2(layer.dilation) = <<layer.dilation[1], layer.dilation[2]>>
          /\ layer.dilation[1] = 1 /\ layer.dilation[2] = 1
      BY <1>3, <1>7, SizesOfLayer
    <2> QED  BY <1>1, <1>2, <1>4, <1>5, <1>7, <2>1, <2>2, <2>3
  <1> QED  BY <1>2, <1>6, <1>7

LEMMA Appended ==
  ASSUME NEW a, NEW b, NEW f
  PROVE  Append(<<a, b>>, f) = <<a, b, f>> /\ Append(<< b >>, f) = <<b, f>>
  <1>1. <<a, b>> \in Seq({a, b}) /\ << b >> \in Seq({b})
    OBVIOUS
  <1>2. /\ IsSeq(<<a, b>>) /\ IsSeq(<< b >>) /\ Len(<<a, b>>) = 2 /\ Len(<< b >>) = 1
    BY <1>1, SeqIsSeq
  <1> DEFINE s == Append(<<a, b>>, f)
             t == Append(<< b >>, f)
  <1>3. IsSeq(s) /\ Len(s) = 3 /\ s[3] = f /\ \A i \in 1 .. 2 : s[i] = <<a, b>>[i]
    BY <1>2, AppendSeq
  <1>4. IsSeq(t) /\ Len(t) = 2 /\ t[2] = f /\ \A i \in 1 .. 1 : t[i] = << b >>[i]
    BY <1>2, AppendSeq
  <1> HIDE DEF s, t
  <1>5. s[1] = a /\ s[2] = b /\ t[1] = b
    BY <1>3, <1>4
  <1>6. s = <<s[1], s[2], s[3]>> /\ t = <<t[1], t[2]>>
    BY <1>3, <1>4, ShortSeq
  <1> QED  BY <1>3, <1>4, <1>5, <1>6 DEF s, t

Taps == {IndexOf(layer.pool, p - 1) : p \in 1 .. Volume(layer.pool)}

LEMMA TapsAre ==
  ASSUME layer \in KerasLayers, layer.class \in Poolings, NEW f, NEW k
  PROVE  (\E tap \in Taps : k = Append(tap, f)) <=>
           \E a \in 0 .. YAxis.window - 1, b \in 0 .. XAxis.window - 1 : k = KernelIndex(a, b, f)
  <1>1. /\ Rank \in 1 .. 2 /\ layer.class # "Dense"
        /\ Rank = 1 => layer.pool = << XAxis.window >>
        /\ Rank = 2 => layer.pool = <<YAxis.window, XAxis.window>>
    BY PoolAxes
  <1>2. YAxis.window \in Positive /\ XAxis.window \in Positive
    BY <1>1, AxesOfLayer DEF IsAxis
  <1>3. CASE Rank = 1
    <2>1. \A q : q \in Taps <=> \E b \in 0 .. XAxis.window - 1 : q = << b >>
      BY <1>1, <1>2, <1>3, Positions1 DEF Taps
    <2>2. \A b : Append(<< b >>, f) = <<b, f>>
      BY Appended
    <2>3. \A a, b : KernelIndex(a, b, f) = <<b, f>>
      BY <1>3 DEF KernelIndex
    <2>4. YAxis.window = 1
      BY <1>1, <1>3, OneRow
    <2>5. ASSUME NEW tap \in Taps, k = Append(tap, f)
          PROVE  \E a \in 0 .. YAxis.window - 1, b \in 0 .. XAxis.window - 1 :
                   k = KernelIndex(a, b, f)
      <3>1. PICK b \in 0 .. XAxis.window - 1 : tap = << b >>
        BY <2>1
      <3>2. k = KernelIndex(0, b, f)
        BY <2>2, <2>3, <2>5, <3>1
      <3>3. 0 \in 0 .. YAxis.window - 1
        BY <2>4
      <3> QED  BY <3>2, <3>3
    <2>6. ASSUME NEW a \in 0 .. YAxis.window - 1, NEW b \in 0 .. XAxis.window - 1,
                 k = KernelIndex(a, b, f)
          PROVE  \E tap \in Taps : k = Append(tap, f)
      <3>1. << b >> \in Taps
        BY <2>1
      <3>2. k = Append(<< b >>, f)
        BY <2>2, <2>3, <2>6
      <3> QED  BY <3>1, <3>2
    <2> QED  BY <2>5, <2>6
  <1>4. CASE Rank = 2
    <2>1. \A q : q \in Taps <=>
            \E a \in 0 .. YAxis.window - 1, b \in 0 .. XAxis.window - 1 : q = <<a, b>>
      <3>1. AreIndices2(Taps, YAxis.window, XAxis.window)
        BY <1>1, <1>2, <1>4, Positions2 DEF Taps
      <3> QED  BY <3>1 DEF AreIndices2
    <2>2. \A a, b : Append(<<a, b>>, f) = <<a, b, f>>
      BY Appended
    <2>3. \A a, b : KernelIndex(a, b, f) = <<a, b, f>>
      BY <1>4 DEF KernelIndex
    <2>5. ASSUME NEW tap \in Taps, k = Append(tap, f)
          PROVE  \E a \in 0 .. YAxis.window - 1, b \in 0 .. XAxis.window - 1 :
                   k = KernelIndex(a, b, f)
      <3>1. PICK a \in 0 .. YAxis.window - 1, b \in 0 .. XAxis.window - 1 : tap = <<a, b>>
        BY <2>1
      <3> QED  BY <2>2, <2>3, <2>5, <3>1
    <2>6. ASSUME NEW a \in 0 .. YAxis.window - 1, NEW b \in 0 .. XAxis.window - 1,
                 k = KernelIndex(a, b, f)
          PROVE  \E tap \in Taps : k = Append(tap, f)
      <3>1. <<a, b>> \in Taps
        BY <2>1
      <3> QED  BY <2>2, <2>3, <2>6, <3>1
    <2> QED  BY <2>5, <2>6
  <1> QED  BY <1>1, <1>3, <1>4

LEMMA PoolCellsAre ==
  ASSUME layer \in KerasLayers, layer.class \in Poolings, NEW f \in 0 .. Chans(Input(layer)) - 1,
         NEW y \in 0 .. Out(YAxis) - 1, NEW x \in 0 .. Out(XAxis) - 1
  PROVE  PoolCells(OutOf(y, x), f) = Covered(InputTensor, YAxis, XAxis, IsShifted, f, y, x)
  <1> DEFINE out == OutOf(y, x)
             t == InputTensor
             U == {i \in {Under(Append(tap, f), out) : tap \in Taps} : IsCell(i)}
             P == {<<RowUnder(y, a), ColUnder(x, b)>> :
                     a \in 0 .. YAxis.window - 1, b \in 0 .. XAxis.window - 1} \cap Spatial(t)
  <1>1. layer.class # "Dense" /\ YAxis.spread = 1 /\ XAxis.spread = 1 /\ Rank \in 1 .. 2
    BY PoolAxes
  <1>2. PoolCells(out, f) = {At(InputArray, i) : i \in U}
    BY DEF PoolCells, Taps
  <1>3. Covered(t, YAxis, XAxis, IsShifted, f, y, x) = {Get(t, f, p[1], p[2]) : p \in P}
    <2>1. \A a \in 0 .. YAxis.window - 1 :
            RowUnder(y, a) = First(YAxis, IsShifted) + YAxis.step * y + a
      BY <1>1 DEF RowUnder
    <2>2. \A b \in 0 .. XAxis.window - 1 :
            ColUnder(x, b) = First(XAxis, IsShifted) + XAxis.step * x + b
      BY <1>1 DEF ColUnder
    <2>3. P = {<<First(YAxis, IsShifted) + YAxis.step * y + a,
                 First(XAxis, IsShifted) + XAxis.step * x + b>> :
                 a \in 0 .. YAxis.window - 1, b \in 0 .. XAxis.window - 1} \cap Spatial(t)
      BY <2>1, <2>2
    <2> QED  BY <2>3 DEF Covered
  <1>4. Height(t) = Rows(Input(layer)) /\ Width(t) = Cols(Input(layer))
    BY InputTensorShape
  <1>5. \A i, j : <<i, j>> \in Spatial(t) <=> IsCellOf(i, j)
    BY <1>4 DEF Spatial, IsCellOf
  <1>6. ASSUME NEW a \in 0 .. YAxis.window - 1, NEW b \in 0 .. XAxis.window - 1
        PROVE  LET q == Under(KernelIndex(a, b, f), out) IN
               /\ IsCell(q) <=> IsCellOf(RowUnder(y, a), ColUnder(x, b))
               /\ IsCell(q) => At(InputArray, q) = Get(t, f, RowUnder(y, a), ColUnder(x, b))
    <2> DEFINE k == KernelIndex(a, b, f)
               q == Under(k, out)
    <2>1. \A i \in 1 .. Rank + 1 : k[i] = KernelIndex(a, b, f)[i]
      OBVIOUS
    <2> HIDE DEF k
    <2>2. /\ q = Cell(Rank + 1, RowUnder(y, a), ColUnder(x, b), f)
          /\ IsCell(q) <=> IsCellOf(RowUnder(y, a), ColUnder(x, b))
      BY <1>1, <2>1, UnderIs
    <2> HIDE DEF q
    <2>3. IsCell(q) => At(InputArray, q) = Get(t, f, RowUnder(y, a), ColUnder(x, b))
      BY <2>2, InputTensorCells DEF IsCellOf
    <2> QED  BY <2>2, <2>3 DEF q, k
  <1>7. \A k : (\E tap \in Taps : k = Append(tap, f)) <=>
          \E a \in 0 .. YAxis.window - 1, b \in 0 .. XAxis.window - 1 : k = KernelIndex(a, b, f)
    BY TapsAre
  <1>8. \A i : i \in U <=>
          /\ \E a \in 0 .. YAxis.window - 1, b \in 0 .. XAxis.window - 1 :
               i = Under(KernelIndex(a, b, f), out)
          /\ IsCell(i)
    <2>1. \A i : i \in U <=> (\E tap \in Taps : i = Under(Append(tap, f), out)) /\ IsCell(i)
      OBVIOUS
    <2>2. ASSUME NEW i
          PROVE  (\E tap \in Taps : i = Under(Append(tap, f), out)) <=>
                   \E a \in 0 .. YAxis.window - 1, b \in 0 .. XAxis.window - 1 :
                     i = Under(KernelIndex(a, b, f), out)
      <3>1. ASSUME NEW tap \in Taps, i = Under(Append(tap, f), out)
            PROVE  \E a \in 0 .. YAxis.window - 1, b \in 0 .. XAxis.window - 1 :
                     i = Under(KernelIndex(a, b, f), out)
        <4>1. PICK a \in 0 .. YAxis.window - 1, b \in 0 .. XAxis.window - 1 :
                Append(tap, f) = KernelIndex(a, b, f)
          BY <1>7
        <4> QED  BY <3>1, <4>1
      <3>2. ASSUME NEW a \in 0 .. YAxis.window - 1, NEW b \in 0 .. XAxis.window - 1,
                   i = Under(KernelIndex(a, b, f), out)
            PROVE  \E tap \in Taps : i = Under(Append(tap, f), out)
        <4>1. PICK tap \in Taps : KernelIndex(a, b, f) = Append(tap, f)
          BY <1>7
        <4> QED  BY <3>2, <4>1
      <3> QED  BY <3>1, <3>2
    <2> HIDE DEF U
    <2> QED  BY <2>1, <2>2
  <1> HIDE DEF U, t, out
  <1>9. ASSUME NEW v, \E i \in U : v = At(InputArray, i)
        PROVE  \E p \in P : v = Get(t, f, p[1], p[2])
    <2>1. PICK i \in U : v = At(InputArray, i)
      BY <1>9
    <2>2. PICK a \in 0 .. YAxis.window - 1, b \in 0 .. XAxis.window - 1 :
            i = Under(KernelIndex(a, b, f), out)
      BY <1>8, <2>1
    <2>3. IsCell(i)
      BY <1>8, <2>1
    <2>4. /\ IsCellOf(RowUnder(y, a), ColUnder(x, b))
          /\ v = Get(t, f, RowUnder(y, a), ColUnder(x, b))
      BY <1>6, <2>1, <2>2, <2>3
    <2>5. <<RowUnder(y, a), ColUnder(x, b)>> \in P
      BY <1>5, <2>4
    <2> QED  BY <2>4, <2>5
  <1>10. ASSUME NEW v, \E p \in P : v = Get(t, f, p[1], p[2])
         PROVE  \E i \in U : v = At(InputArray, i)
    <2>1. PICK p \in P : v = Get(t, f, p[1], p[2])
      BY <1>10
    <2>2. PICK a \in 0 .. YAxis.window - 1, b \in 0 .. XAxis.window - 1 :
            p = <<RowUnder(y, a), ColUnder(x, b)>>
      BY <2>1
    <2>3. IsCellOf(RowUnder(y, a), ColUnder(x, b)) /\ v = Get(t, f, RowUnder(y, a), ColUnder(x, b))
      BY <1>5, <2>1, <2>2
    <2> DEFINE i == Under(KernelIndex(a, b, f), out)
    <2>4. IsCell(i) /\ v = At(InputArray, i)
      BY <1>6, <2>3
    <2>5. i \in U
      BY <1>8, <2>4
    <2> QED  BY <2>4, <2>5
  <1> HIDE DEF P
  <1>11. {At(InputArray, i) : i \in U} = {Get(t, f, p[1], p[2]) : p \in P}
    <2>1. \A v : (\E i \in U : v = At(InputArray, i)) <=> \E p \in P : v = Get(t, f, p[1], p[2])
      BY <1>9, <1>10
    <2> QED  BY <2>1
  <1> QED  BY <1>2, <1>3, <1>11 DEF t, out

\* Pooling: the greatest and the mean of the cells inside the image.
LEMMA PoolingIsKeras ==
  ASSUME LayerIsMade, layer.class \in Poolings
  PROVE  HasKerasValues(Applied(InputTensor))
  <1> DEFINE t == InputTensor
             o == Applied(t)
             d == Chans(Input(layer))
             m == MaxPooled(<<YAxis.window, XAxis.window>>, <<YAxis.step, XAxis.step>>,
                            YAxis.padding, IsShifted, t)
             n == MeanPooled(<<YAxis.window, XAxis.window>>, <<YAxis.step, XAxis.step>>,
                             YAxis.padding, IsShifted, t)
             C(z, y, x) == Covered(t, YAxis, XAxis, IsShifted, z, y, x)
  <1>1. layer \in KerasLayers /\ made = Made /\ params.offsets = Offsets
    BY DEF LayerIsMade
  <1>2. /\ layer.class # "Dense" /\ YAxis.spread = 1 /\ XAxis.spread = 1
        /\ CreateShape2(layer.pool) = <<YAxis.window, XAxis.window>>
    BY <1>1, PoolAxes
  <1>3. PoolUseOffset = IsShifted /\ IsShifted \in BOOLEAN
    <2>1. PoolUseOffset \in BOOLEAN /\ (PoolUseOffset <=> IsShifted)
      BY <1>1, PoolOffsetIsUsed
    <2>2. IsShifted \in BOOLEAN
      BY DEF IsShifted
    <2> QED  BY <2>1, <2>2
  <1>4. /\ YAxis.padding = layer.padding /\ XAxis.padding = layer.padding
        /\ CreateShape2(layer.strides) = <<YAxis.step, XAxis.step>>
    BY <1>1, <1>2, AxesOfLayer
  <1>5. /\ layer.class \in MaxPoolings => o = m
        /\ layer.class \in AveragePoolings => o = n
    BY <1>1, <1>2, <1>3, <1>4, AppliedIs
  <1>6. IsImage(t, d, YAxis, XAxis)
    BY <1>1, <1>2, InputIsImage
  <1>7. KerasChannels = d
    BY <1>1, RankIs, InputShape DEF KerasChannels
  <1> HIDE DEF t, o, d
  <1>13. ArePooled(m, n, d, t, YAxis, XAxis, IsShifted)
    BY <1>2, <1>3, <1>4, <1>6, PooledIs
  <1>8. /\ m.shape = <<d, Out(YAxis), Out(XAxis)>> /\ n.shape = <<d, Out(YAxis), Out(XAxis)>>
        /\ \A z \in 0 .. d - 1, y \in 0 .. Out(YAxis) - 1, x \in 0 .. Out(XAxis) - 1 :
             /\ Get(m, z, y, x) = Greatest(C(z, y, x))
             /\ Get(n, z, y, x) = Mean(C(z, y, x))
    <2> HIDE DEF m, n
    <2> QED  BY <1>13 DEF ArePooled
  <1> HIDE DEF m, n, C
  <1>9. o.shape = <<KerasChannels, Out(YAxis), Out(XAxis)>>
    BY <1>5, <1>7, <1>8 DEF Poolings
  <1>10. ASSUME NEW f \in 0 .. KerasChannels - 1,
                NEW y \in 0 .. Out(YAxis) - 1, NEW x \in 0 .. Out(XAxis) - 1
         PROVE  Get(o, f, y, x) = KerasValue(y, x, f)
    <2>1. f \in 0 .. Chans(Input(layer)) - 1
      BY <1>7 DEF d
    <2>2. PoolCells(OutOf(y, x), f) = C(f, y, x)
      BY <1>1, <2>1, PoolCellsAre DEF C, t
    <2>3. CASE layer.class \in MaxPoolings
      <3>1. KerasValue(y, x, f) = UNION PoolCells(OutOf(y, x), f)
        BY <2>3 DEF KerasValue, OutOf, Convolutions, MaxPoolings, AveragePoolings
      <3>2. Get(o, f, y, x) = UNION C(f, y, x)
        BY <1>5, <1>7, <1>8, <2>3 DEF Greatest
      <3> QED  BY <2>2, <3>1, <3>2
    <2>4. CASE layer.class \in AveragePoolings
      <3>1. KerasValue(y, x, f) = Mean(PoolCells(OutOf(y, x), f))
        BY <2>4 DEF KerasValue, OutOf, Mean, Convolutions, MaxPoolings, AveragePoolings
      <3>2. Get(o, f, y, x) = Mean(C(f, y, x))
        BY <1>5, <1>7, <1>8, <2>4
      <3> QED  BY <2>2, <3>1, <3>2
    <2> QED  BY <2>3, <2>4 DEF Poolings
  <1> QED  BY <1>1, <1>2, <1>9, <1>10, ValuesByWindow DEF o, t

(***************************************************************************)
(* Dense layers.                                                           *)
(***************************************************************************)
LEMMA InputValues ==
  ASSUME layer \in KerasLayers, layer.class = "Dense"
  PROVE  LET c == Input(layer)[1] IN
         /\ c \in Positive /\ Rank = 0
         /\ IsSeq(InputTensor.values) /\ Len(InputTensor.values) = c
         /\ \A i \in 0 .. c - 1 : InputTensor.values[i + 1] = At(InputArray, << i >>)
  <1> DEFINE s == Input(layer)
             c == s[1]
             t == InputTensor
             vs == InputArray.values
             V == [p \in 1 .. 1 * 1 * c |->
                    vs[((p - 1) % (1 * 1)) * c + ((p - 1) \div (1 * 1)) + 1]]
  <1>1. Rank = 0 /\ SpatialRank(layer) = 0
    BY RankOfClass, RankIs
  <1>2. s \in Shapes /\ Len(s) = 1 /\ c \in Positive /\ Chans(s) = c
    <2>1. /\ s \in Shapes /\ Len(s) = 0 + 1 /\ Chans(s) = s[0 + 1]
          /\ \A a \in 1 .. 0 + 1 : s[a] \in Positive
      BY <1>1, InputShape
    <2> HIDE DEF s
    <2> QED  BY <2>1
  <1>3. Rows(s) = 1 /\ Cols(s) = 1
    BY <1>2 DEF Rows, Cols
  <1>4. ThreeAxes(s) = <<1, 1, c>>
    BY <1>2, <1>3, ThreeAxesOf
  <1> HIDE DEF s, c, vs
  <1>5. t.values = V
    <2> DEFINE a == Reshape(InputArray, <<1, 1, c>>)
    <2>1. t = ChannelsFirst(a)
      BY <1>4 DEF InputTensor, s
    <2>2. a.values = vs /\ a.shape = <<1, 1, c>>
      BY DEF Reshape, vs
    <2> HIDE DEF a
    <2>3. ChannelsFirst(a) = [shape |-> <<c, 1, 1>>, values |-> V]
      BY <2>2 DEF ChannelsFirst
    <2> HIDE DEF V, t
    <2> QED  BY <2>1, <2>3
  <1>6. Height(t) = 1 /\ Width(t) = 1
    BY <1>3, InputTensorShape DEF s
  <1> HIDE DEF t
  <1>7. IsSeq(t.values) /\ Len(t.values) = c
    <2>1. 1 * 1 * c = c /\ c \in Nat
      BY <1>2 DEF Positive
    <2>2. V = [p \in 1 .. c |-> V[p]]
      BY <2>1
    <2> HIDE DEF V
    <2> QED  BY <1>5, <2>1, <2>2, FunctionIsSeq
  <1>8. ASSUME NEW i \in 0 .. c - 1
        PROVE  t.values[i + 1] = At(InputArray, << i >>)
    <2>1. Get(t, i, 0, 0) = At(InputArray, Cell(Rank + 1, 0, 0, i))
      BY <1>2, <1>3, InputTensorCells DEF s, t
    <2>2. Cell(Rank + 1, 0, 0, i) = << i >>
      BY <1>1 DEF Cell
    <2>3. (i * 1 + 0) * 1 + 0 + 1 = i + 1
      BY <1>2 DEF Positive
    <2>4. Get(t, i, 0, 0) = t.values[i + 1]
      BY <1>6, <2>3 DEF Get
    <2> QED  BY <2>1, <2>2, <2>4
  <1> QED  BY <1>1, <1>2, <1>7, <1>8 DEF t, c, s

\* The row of the weights of unit u, its bias last.
LEMMA DenseRow ==
  ASSUME NEW c \in Nat, NEW g, NEW w, NEW b,
         \A i \in 0 .. c - 1 : g[i] = w[i], g[c] = b
  PROVE  [i \in 1 .. c + 1 |-> g[i - 1]] = [i \in 1 .. c |-> w[i - 1]] \o << b >>
  <1> DEFINE r == [i \in 1 .. c |-> w[i - 1]]
             s == r \o << b >>
             R == [i \in 1 .. c + 1 |-> g[i - 1]]
  <1>1. IsSeq(r) /\ Len(r) = c
    <2>1. r = [i \in 1 .. c |-> r[i]]
      OBVIOUS
    <2> HIDE DEF r
    <2> QED  BY <2>1, FunctionIsSeq
  <1>2. IsSeq(<< b >>) /\ Len(<< b >>) = 1 /\ << b >>[1] = b
    BY SingletonIsSeq
  <1>3. \A i \in 1 .. c : r[i] = w[i - 1]
    OBVIOUS
  <1> HIDE DEF r
  <1>4. /\ IsSeq(s) /\ Len(s) = c + 1 /\ \A i \in 1 .. c : s[i] = r[i]
        /\ s[c + 1] = b
    <2>1. /\ IsSeq(s) /\ Len(s) = c + 1 /\ \A i \in 1 .. c : s[i] = r[i]
          /\ \A i \in 1 .. 1 : s[c + i] = << b >>[i]
      BY <1>1, <1>2, ConcatSeq
    <2> HIDE DEF s
    <2>2. s[c + 1] = << b >>[1]
      BY <2>1
    <2> QED  BY <1>2, <2>1, <2>2
  <1>5. \A i \in 1 .. c + 1 : s[i] = g[i - 1]
    <2> HIDE DEF s
    <2> TAKE i \in 1 .. c + 1
    <2>1. CASE i = c + 1
      BY <1>4, <2>1
    <2>2. CASE i \in 1 .. c
      <3>1. i - 1 \in 0 .. c - 1
        BY <2>2
      <3> QED  BY <1>3, <1>4, <2>2, <3>1
    <2> QED  BY <2>1, <2>2
  <1>6. s = [i \in 1 .. c + 1 |-> s[i]]
    BY <1>4 DEF IsSeq
  <1> HIDE DEF s
  <1>7. R = s
    BY <1>5, <1>6
  <1> QED  BY <1>7 DEF s, r

\* Dense: the bias is the last row of the matrix, one the last cell.
LEMMA DenseIsKeras ==
  ASSUME LayerIsMade, layer.class = "Dense"
  PROVE  HasKerasValues(Applied(InputTensor))
  <1> DEFINE t == InputTensor
             o == Applied(t)
             c == Input(layer)[1]
             n == Units(layer)
             padded == t.values \o <<One>>
             D == DenseParams
             F(u) == Dot([i \in 1 .. c + 1 |-> At(D, <<i - 1, u>>)], padded)
             V == [p \in 1 .. n * 1 * 1 |-> F((p - 1) \div (1 * 1))]
  <1>1. layer \in KerasLayers /\ Trained = Exported(layer) /\ made = Made
    BY DEF LayerIsMade
  <1>2. /\ c \in Positive /\ Rank = 0 /\ IsSeq(t.values) /\ Len(t.values) = c
        /\ \A i \in 0 .. c - 1 : t.values[i + 1] = At(InputArray, << i >>)
    BY <1>1, InputValues
  <1>3. n \in Positive /\ layer.kernel.shape = <<c, n>>
    BY <1>1, KernelOfDense
  <1>4. /\ D.shape = <<c + 1, n>>
        /\ \A f \in 0 .. n - 1 :
              /\ \A i \in 0 .. c - 1 : At(D, <<i, f>>) = At(layer.kernel, <<i, f>>)
              /\ At(D, <<c, f>>) = Bias[f + 1]
    BY <1>1, DenseParamsIs
  <1>5. made = D
    BY <1>1, MadeIs
  <1>6. o = DenselyApplied(t)
    BY <1>1, AppliedIs
  <1>7. \A f \in 0 .. n - 1 : BiasTerm(f) = Times(Bias[f + 1], One)
    <2>1. Trained.bias = layer.bias
      BY <1>1, ExportedIs
    <2>2. layer.class \notin Poolings
      BY Classes
    <2> QED  BY <1>1, <1>3, <2>1, <2>2, BiasIs
  <1> HIDE DEF t, o, c, n, D, padded
  <1>8. o = [shape |-> <<n, 1, 1>>, values |-> V]
    <2>1. made.shape[1] = c + 1 /\ made.shape[2] = n
      BY <1>4, <1>5
    <2>2. o = [shape |-> <<made.shape[2], 1, 1>>,
               values |-> [p \in 1 .. made.shape[2] * 1 * 1 |->
                 Dot([i \in 1 .. made.shape[1] |-> At(made, <<i - 1, (p - 1) \div (1 * 1)>>)],
                     padded)]]
      BY <1>6 DEF DenselyApplied, Tensor, padded
    <2> QED  BY <1>5, <2>1, <2>2
  <1> HIDE DEF F
  <1>9. o.shape = <<n, 1, 1>> /\ o.values = V
    <2> HIDE DEF V
    <2> QED  BY <1>8
  <1>10. Depth(o) = n /\ Height(o) = 1 /\ Width(o) = 1
    BY <1>9, ShapedTensor
  <1>11. KerasChannels = n
    BY Classes DEF KerasChannels, n
  <1>12. Spatial(o) = {<<0, 0>>} /\ KerasWindows = {<<0, 0>>}
    <2>1. Spatial(o) = (0 .. 0) \X (0 .. 0)
      BY <1>10 DEF Spatial
    <2>2. 0 .. 0 = {0}
      OBVIOUS
    <2> QED  BY <1>2, <2>1, <2>2 DEF KerasWindows
  <1>13. ASSUME NEW f \in 0 .. n - 1
         PROVE  Get(o, f, 0, 0) = F(f)
    <2>1. /\ (f * 1 + 0) * 1 + 0 + 1 = f + 1 /\ f + 1 \in 1 .. n * 1 * 1
          /\ (f + 1 - 1) \div (1 * 1) = f
      BY <1>3 DEF Positive
    <2>2. Get(o, f, 0, 0) = V[f + 1]
      BY <1>9, <1>10, <2>1 DEF Get
    <2>3. V[f + 1] = F(f)
      BY <2>1
    <2> QED  BY <2>2, <2>3
  <1>14. ASSUME NEW f \in 0 .. n - 1
         PROVE  F(f) = KerasDense(f)
    <2> DEFINE w == [i \in 0 .. c |-> At(layer.kernel, <<i, f>>)]
               g == [i \in 0 .. c |-> At(D, <<i, f>>)]
               b == Bias[f + 1]
               r == [i \in 1 .. c |-> w[i - 1]]
    <2>1. c \in Nat
      BY <1>2 DEF Positive
    <2>2. (\A i \in 0 .. c - 1 : g[i] = w[i]) /\ g[c] = b
      BY <1>4, <2>1
    <2>3. [i \in 1 .. c + 1 |-> At(D, <<i - 1, f>>)] = [i \in 1 .. c + 1 |-> g[i - 1]]
      <3>1. \A i \in 1 .. c + 1 : i - 1 \in 0 .. c
        BY <2>1
      <3> QED  BY <3>1
    <2>4. \A i \in 0 .. c - 1 : w[i] = At(layer.kernel, <<i, f>>)
      BY <2>1
    <2> HIDE DEF w, g, b
    <2>5. [i \in 1 .. c + 1 |-> g[i - 1]] = r \o << b >>
      BY <2>1, <2>2, DenseRow
    <2>6. IsSeq(r) /\ Len(r) = c
      <3>1. r = [i \in 1 .. c |-> r[i]]
        OBVIOUS
      <3> HIDE DEF r
      <3> QED  BY <2>1, <3>1, FunctionIsSeq
    <2>7. \A i \in 0 .. c - 1 : r[i + 1] = At(layer.kernel, <<i, f>>)
      BY <2>1, <2>4
    <2> HIDE DEF r
    <2>8. F(f) = Dot(r \o << b >>, t.values \o << One >>)
      BY <2>3, <2>5 DEF F, padded
    <2>9. \A v : v \in F(f) <=>
            (\E i \in 1 .. c : v \in Times(r[i], t.values[i])) \/ v \in Times(b, One)
      BY <1>2, <2>1, <2>6, <2>8, DotOf
    <2>10. \A v : (\E i \in 1 .. c : v \in Times(r[i], t.values[i])) <=>
             \E i \in 0 .. c - 1 : v \in Times(At(layer.kernel, <<i, f>>), At(InputArray, << i >>))
      <3> SUFFICES ASSUME NEW v
                   PROVE  (\E i \in 1 .. c : v \in Times(r[i], t.values[i])) <=>
                            \E i \in 0 .. c - 1 :
                              v \in Times(At(layer.kernel, <<i, f>>), At(InputArray, << i >>))
        OBVIOUS
      <3>1. \A i \in 0 .. c - 1 : Times(r[i + 1], t.values[i + 1])
                                   = Times(At(layer.kernel, <<i, f>>), At(InputArray, << i >>))
        BY <1>2, <2>7
      <3>2. ASSUME NEW i \in 1 .. c, v \in Times(r[i], t.values[i])
            PROVE  \E j \in 0 .. c - 1 :
                     v \in Times(At(layer.kernel, <<j, f>>), At(InputArray, << j >>))
        <4>1. i - 1 \in 0 .. c - 1 /\ (i - 1) + 1 = i
          BY <2>1
        <4> QED  BY <3>1, <3>2, <4>1
      <3>3. ASSUME NEW i \in 0 .. c - 1,
                   v \in Times(At(layer.kernel, <<i, f>>), At(InputArray, << i >>))
            PROVE  \E j \in 1 .. c : v \in Times(r[j], t.values[j])
        <4>1. i + 1 \in 1 .. c
          BY <2>1
        <4> QED  BY <3>1, <3>3, <4>1
      <3> QED  BY <3>2, <3>3
    <2>11. layer.kernel.shape[1] = c
      BY <1>3
    <2>12. \A v : v \in KerasDense(f) <=>
             \/ \E i \in 0 .. c - 1 :
                  v \in Times(At(layer.kernel, <<i, f>>), At(InputArray, << i >>))
             \/ v \in Times(b, One)
      BY <1>7, <2>11 DEF KerasDense, b
    <2>13. \A v : v \in F(f) <=> v \in KerasDense(f)
      BY <2>9, <2>10, <2>12
    <2> QED  BY <2>13
  <1>15. \A f \in 0 .. n - 1 : KerasValue(0, 0, f) = KerasDense(f)
    BY DEF KerasValue, Convolutions, MaxPoolings, AveragePoolings
  <1>16. \A f \in 0 .. KerasChannels - 1 : \A e \in Spatial(o) :
           Get(o, f, e[1], e[2]) = KerasValue(e[1], e[2], f)
    BY <1>11, <1>12, <1>13, <1>14, <1>15
  <1> QED  BY <1>10, <1>11, <1>12, <1>16 DEF HasKerasValues, o, t

(***************************************************************************)
(* Concatenating tensors: the two folds of ConcatenateTensor3s, one over   *)
(* depths and one over values, step by step.                               *)
(***************************************************************************)
NoneOf(kind) == IF kind = "values" THEN << >> ELSE 0
With(kind, sum, t) == IF kind = "values" THEN sum \o t.values ELSE sum + Depth(t)
Folds(kind, g, n, ts) ==
  g = [s \in SUBSET (1 .. n) |->
         IF s = {} THEN NoneOf(kind) ELSE With(kind, g[s \ {Max(s)}], ts[Max(s)])]

FoldOf(kind, n, ts) == (CHOOSE g : Folds(kind, g, n, ts))[1 .. n]
Accumulates(kind, r, n, ts) ==
  /\ r[0] = NoneOf(kind)
  /\ \A k \in 1 .. n : r[k] = With(kind, r[k - 1], ts[k])

LEMMA MaxOfRange ==
  ASSUME NEW n \in Nat, NEW s \in SUBSET (1 .. n), s # {}
  PROVE  Max(s) \in s /\ \A x \in s : Max(s) >= x
  <1> DEFINE T == {n - x : x \in s}
  <1>1. \A x \in s : x \in Nat /\ n - x \in Nat
    OBVIOUS
  <1>2. T \in SUBSET Nat /\ T # {}
    BY <1>1
  <1>3. PICK m \in T : \A k \in T : m <= k
    BY <1>2, LeastNatural
  <1>4. PICK x \in s : m = n - x
    OBVIOUS
  <1>5. ASSUME NEW y \in s PROVE x >= y
    <2>1. n - y \in T
      OBVIOUS
    <2>2. n - x <= n - y
      BY <1>3, <1>4, <2>1
    <2> QED  BY <1>1, <2>2
  <1> HIDE DEF T
  <1> QED  BY <1>4, <1>5 DEF Max

LEMMA MaxOfSegment ==
  ASSUME NEW n \in Nat, NEW k \in 1 .. n
  PROVE  Max(1 .. k) = k /\ (1 .. k) \ {k} = 1 .. k - 1 /\ 1 .. k # {}
  <1>1. 1 .. k \in SUBSET (1 .. n) /\ k \in 1 .. k /\ 1 .. k # {}
    OBVIOUS
  <1>2. Max(1 .. k) \in 1 .. k /\ \A x \in 1 .. k : Max(1 .. k) >= x
    BY <1>1, MaxOfRange
  <1>3. Max(1 .. k) = k
    BY <1>1, <1>2
  <1>4. (1 .. k) \ {k} = 1 .. k - 1
    OBVIOUS
  <1> QED  BY <1>1, <1>3, <1>4

LEMMA FoldExists ==
  ASSUME NEW kind, NEW n \in Nat, NEW ts
  PROVE  \E g : Folds(kind, g, n, ts)
  <1> DEFINE S == SUBSET (1 .. n)
             F(g, s) == IF s = {} THEN NoneOf(kind) ELSE With(kind, g[s \ {Max(s)}], ts[Max(s)])
             Solves(g, m) == \A s \in S : Cardinality(s) <= m => g[s] = F(g, s)
             T == {m \in Nat : \E g : Solves(g, m)}
  <1>1. IsFiniteSet(1 .. n) /\ Cardinality(1 .. n) \in Nat
    BY FS_Interval, FS_CardinalityType
  <1>2. ASSUME NEW s \in S
        PROVE  /\ IsFiniteSet(s) /\ Cardinality(s) \in Nat
               /\ Cardinality(s) <= Cardinality(1 .. n)
               /\ s # {} => /\ Max(s) \in s /\ s \ {Max(s)} \in S
                            /\ Cardinality(s \ {Max(s)}) = Cardinality(s) - 1
               /\ Cardinality(s) = 0 => s = {}
    <2>1. IsFiniteSet(s) /\ Cardinality(s) <= Cardinality(1 .. n)
      BY <1>1, FS_Subset
    <2>2. Cardinality(s) \in Nat /\ (Cardinality(s) = 0 => s = {})
      BY <2>1, FS_CardinalityType, FS_EmptySet
    <2>3. s # {} => Max(s) \in s
      BY MaxOfRange
    <2>4. s # {} => Cardinality(s \ {Max(s)}) = Cardinality(s) - 1
      BY <2>1, <2>3, FS_RemoveElement
    <2> QED  BY <2>1, <2>2, <2>3, <2>4
  <1> HIDE DEF S
  <1>3. 0 \in T
    <2> DEFINE g == [s \in S |-> NoneOf(kind)]
    <2>1. Solves(g, 0)
      <3> SUFFICES ASSUME NEW s \in S, Cardinality(s) <= 0
                   PROVE  g[s] = F(g, s)
        OBVIOUS
      <3>1. Cardinality(s) = 0
        <4>1. Cardinality(s) \in Nat
          BY <1>2
        <4> HIDE DEF Solves, F, T, g
        <4> QED  BY <4>1
      <3>2. s = {}
        BY <1>2, <3>1
      <3> QED  BY <3>2
    <2> QED  BY <2>1
  <1>4. \A m \in Nat : m \in T => m + 1 \in T
    <2> SUFFICES ASSUME NEW m \in Nat, m \in T PROVE m + 1 \in T
      OBVIOUS
    <2>1. PICK g : Solves(g, m)
      OBVIOUS
    <2> DEFINE h == [s \in S |-> F(g, s)]
    <2>2. ASSUME NEW s \in S, Cardinality(s) <= m PROVE h[s] = g[s]
      BY <2>1, <2>2
    <2>3. Solves(h, m + 1)
      <3> SUFFICES ASSUME NEW s \in S, Cardinality(s) <= m + 1
                   PROVE  h[s] = F(h, s)
        OBVIOUS
      <3>1. h[s] = F(g, s)
        OBVIOUS
      <3>2. CASE s = {}
        BY <3>1, <3>2
      <3>3. CASE s # {}
        <4>1. s \ {Max(s)} \in S /\ Cardinality(s \ {Max(s)}) <= m
          BY <1>2, <3>3
        <4>2. h[s \ {Max(s)}] = g[s \ {Max(s)}]
          BY <2>2, <4>1
        <4> HIDE DEF h
        <4> QED  BY <3>1, <3>3, <4>2
      <3> QED  BY <3>2, <3>3
    <2> HIDE DEF Solves, h
    <2> QED  BY <2>3
  <1> HIDE DEF T
  <1>5. Cardinality(1 .. n) \in T
    BY <1>1, <1>3, <1>4, Induct
  <1>6. PICK g : Solves(g, Cardinality(1 .. n))
    BY <1>5 DEF T
  <1> DEFINE h == [s \in S |-> g[s]]
  <1>7. \A s \in S : h[s] = F(h, s)
    <2> SUFFICES ASSUME NEW s \in S PROVE h[s] = F(h, s)
      OBVIOUS
    <2>1. g[s] = F(g, s)
      BY <1>2, <1>6
    <2>2. s # {} => s \ {Max(s)} \in S
      BY <1>2
    <2> QED  BY <2>1, <2>2
  <1>8. h = [s \in S |-> h[s]]
    OBVIOUS
  <1>9. h = [s \in S |-> F(h, s)]
    <2> HIDE DEF h, F
    <2> QED  BY <1>7, <1>8
  <1> HIDE DEF h
  <1>10. Folds(kind, h, n, ts)
    BY <1>9 DEF Folds, S
  <1> QED  BY <1>10

LEMMA FoldSteps ==
  ASSUME NEW kind, NEW n \in Nat, NEW ts
  PROVE  \E r : r[n] = FoldOf(kind, n, ts) /\ Accumulates(kind, r, n, ts)
  <1> DEFINE h == CHOOSE g : Folds(kind, g, n, ts)
             r == [k \in 0 .. n |-> h[1 .. k]]
  <1>1. Folds(kind, h, n, ts)
    BY FoldExists
  <1> HIDE DEF h
  <1>2. \A s \in SUBSET (1 .. n) :
          h[s] = IF s = {} THEN NoneOf(kind) ELSE With(kind, h[s \ {Max(s)}], ts[Max(s)])
    <2> DEFINE F(s) == IF s = {} THEN NoneOf(kind) ELSE With(kind, h[s \ {Max(s)}], ts[Max(s)])
    <2>1. h = [s \in SUBSET (1 .. n) |-> F(s)]
      BY <1>1 DEF Folds
    <2> HIDE DEF F
    <2>2. \A s \in SUBSET (1 .. n) : h[s] = F(s)
      BY <2>1
    <2> QED  BY <2>2 DEF F
  <1>3. r[n] = h[1 .. n]
    OBVIOUS
  <1>4. r[0] = NoneOf(kind)
    <2>1. 1 .. 0 = {} /\ {} \in SUBSET (1 .. n)
      OBVIOUS
    <2> QED  BY <1>2, <2>1
  <1>5. ASSUME NEW k \in 1 .. n PROVE r[k] = With(kind, r[k - 1], ts[k])
    <2>1. 1 .. k \in SUBSET (1 .. n)
      OBVIOUS
    <2>2. Max(1 .. k) = k /\ (1 .. k) \ {k} = 1 .. k - 1 /\ 1 .. k # {}
      BY MaxOfSegment
    <2>3. h[1 .. k] = With(kind, h[1 .. k - 1], ts[k])
      BY <1>2, <2>1, <2>2
    <2>4. k \in 0 .. n /\ k - 1 \in 0 .. n
      OBVIOUS
    <2> QED  BY <2>3, <2>4
  <1> HIDE DEF r
  <1> QED  BY <1>3, <1>4, <1>5 DEF h, FoldOf, Accumulates

\* n tensors of one channel, and the tensor that holds them as its channels.
ArePlanes(ts, n, p, q) ==
  /\ ts = [z \in 1 .. n |-> ts[z]]
  /\ \A z \in 1 .. n :
       ts[z].shape = <<1, p, q>> /\ IsSeq(ts[z].values) /\ Len(ts[z].values) = p * q
HasPlanes(u, ts, n, p, q) ==
  /\ u.shape = <<n, p, q>>
  /\ \A z \in 0 .. n - 1, y \in 0 .. p - 1, x \in 0 .. q - 1 :
       Get(u, z, y, x) = Get(ts[z + 1], 0, y, x)

LEMMA Distributed ==
  ASSUME NEW k \in Nat, NEW l \in Nat
  PROVE  (k + 1) * l = k * l + l /\ k * l \in Nat
  OBVIOUS

LEMMA DepthsAdded ==
  ASSUME NEW n \in Positive, NEW p, NEW q, NEW ts, ArePlanes(ts, n, p, q)
  PROVE  FoldLeft(LAMBDA m, t : m + Depth(t), 0, ts) = n
  <1> DEFINE d == FoldLeft(LAMBDA m, t : m + Depth(t), 0, ts)
  <1>1. n \in Nat /\ DOMAIN ts = 1 .. n /\ \A z \in 1 .. n : Depth(ts[z]) = 1
    <2>1. \A z \in 1 .. n : Depth(ts[z]) = 1
      BY DEF ArePlanes, Depth
    <2>2. DOMAIN ts = 1 .. n
      BY DEF ArePlanes
    <2> QED  BY <2>1, <2>2 DEF Positive
  <1>2. d = FoldOf("depths", n, ts)
    <2>1. \A g : Folds("depths", g, n, ts) <=>
            g = [s \in SUBSET (1 .. n) |->
                   IF s = {} THEN 0 ELSE g[s \ {Max(s)}] + Depth(ts[Max(s)])]
      BY DEF Folds, NoneOf, With
    <2>2. (CHOOSE g : Folds("depths", g, n, ts))
            = CHOOSE g : g = [s \in SUBSET (1 .. n) |->
                   IF s = {} THEN 0 ELSE g[s \ {Max(s)}] + Depth(ts[Max(s)])]
      BY <2>1
    <2> QED  BY <1>1, <2>2 DEF FoldLeft, MapThenFoldSet, FoldOf
  <1> HIDE DEF d
  <1>9. PICK r : r[n] = FoldOf("depths", n, ts) /\ Accumulates("depths", r, n, ts)
    BY <1>1, FoldSteps
  <1>3. r[0] = NoneOf("depths") /\ \A k \in 1 .. n : r[k] = With("depths", r[k - 1], ts[k])
    BY <1>9 DEF Accumulates
  <1> DEFINE T == {k \in Nat : k <= n => r[k] = k}
  <1>4. 0 \in T
    BY <1>3 DEF NoneOf
  <1>5. ASSUME NEW k \in Nat, k \in T PROVE k + 1 \in T
    <2> SUFFICES ASSUME k + 1 <= n PROVE r[k + 1] = k + 1
      OBVIOUS
    <2>1. k + 1 \in 1 .. n /\ (k + 1) - 1 = k /\ r[k] = k
      BY <1>1, <1>5
    <2>2. r[k + 1] = With("depths", r[k], ts[k + 1])
      BY <1>3, <2>1
    <2> QED  BY <1>1, <2>1, <2>2 DEF With
  <1>6. n \in T
    <2> HIDE DEF T
    <2> QED  BY <1>1, <1>4, <1>5, Induct
  <1>7. r[n] = n
    BY <1>1, <1>6
  <1>8. d = n
    BY <1>2, <1>7, <1>9
  <1> QED  BY <1>8 DEF d

\* v holds the values of n tensors with l values each, one after the other.
Joined(v, n, l, ts) ==
  /\ IsSeq(v) /\ Len(v) = n * l
  /\ \A z \in 0 .. n - 1, i \in 1 .. l : v[z * l + i] = ts[z + 1].values[i]

LEMMA ValuesJoined ==
  ASSUME NEW n \in Positive, NEW p \in Positive, NEW q \in Positive,
         NEW ts, ArePlanes(ts, n, p, q), NEW l, l = p * q
  PROVE  Joined(FoldLeft(LAMBDA vs, t : vs \o t.values, << >>, ts), n, l, ts)
  <1> DEFINE w == FoldLeft(LAMBDA vs, t : vs \o t.values, << >>, ts)
  <1>1. n \in Nat /\ DOMAIN ts = 1 .. n /\ l \in Nat
    <2>1. DOMAIN ts = 1 .. n
      BY DEF ArePlanes
    <2> QED  BY <2>1 DEF Positive
  <1>2. w = FoldOf("values", n, ts)
    <2>1. \A g : Folds("values", g, n, ts) <=>
            g = [s \in SUBSET (1 .. n) |->
                   IF s = {} THEN << >> ELSE g[s \ {Max(s)}] \o ts[Max(s)].values]
      BY DEF Folds, NoneOf, With
    <2>2. (CHOOSE g : Folds("values", g, n, ts))
            = CHOOSE g : g = [s \in SUBSET (1 .. n) |->
                   IF s = {} THEN << >> ELSE g[s \ {Max(s)}] \o ts[Max(s)].values]
      BY <2>1
    <2> QED  BY <1>1, <2>2 DEF FoldLeft, MapThenFoldSet, FoldOf
  <1> HIDE DEF w
  <1>9. PICK r : r[n] = FoldOf("values", n, ts) /\ Accumulates("values", r, n, ts)
    BY <1>1, FoldSteps
  <1>3. r[0] = NoneOf("values") /\ \A k \in 1 .. n : r[k] = With("values", r[k - 1], ts[k])
    BY <1>9 DEF Accumulates
  <1> DEFINE T == {k \in Nat : k <= n => Joined(r[k], k, l, ts)}
  <1>4. 0 \in T
    <2>1. r[0] = << >> /\ IsSeq(<< >>) /\ Len(<< >>) = 0 /\ 0 * l = 0
      BY <1>1, <1>3, EmptyIsSeq DEF NoneOf
    <2>2. Joined(r[0], 0, l, ts)
      BY <2>1 DEF Joined
    <2> QED  BY <2>2
  <1>5. ASSUME NEW k \in Nat, k \in T PROVE k + 1 \in T
    <2> SUFFICES ASSUME k + 1 <= n PROVE Joined(r[k + 1], k + 1, l, ts)
      OBVIOUS
    <2> DEFINE a == r[k]
               b == ts[k + 1].values
    <2>1. k + 1 \in 1 .. n /\ (k + 1) - 1 = k /\ Joined(a, k, l, ts)
      BY <1>1, <1>5
    <2>2. r[k + 1] = a \o b
      BY <1>3, <2>1 DEF With
    <2>3. IsSeq(b) /\ Len(b) = l
      BY <2>1 DEF ArePlanes
    <2>4. /\ IsSeq(a) /\ Len(a) = k * l
          /\ \A z \in 0 .. k - 1, i \in 1 .. l : a[z * l + i] = ts[z + 1].values[i]
      BY <2>1 DEF Joined
    <2> DEFINE c == a \o b
    <2> HIDE DEF a, b
    <2>9. /\ IsSeq(c) /\ Len(c) = Len(a) + Len(b)
          /\ \A i \in 1 .. Len(a) : c[i] = a[i]
          /\ \A i \in 1 .. Len(b) : c[Len(a) + i] = b[i]
      <3>1. IsSeq(a) /\ IsSeq(b)
        BY <2>3, <2>4
      <3> QED  BY <3>1, ConcatSeq
    <2>5. /\ IsSeq(c) /\ Len(c) = k * l + l
          /\ \A i \in 1 .. k * l : c[i] = a[i]
          /\ \A i \in 1 .. l : c[k * l + i] = b[i]
      <3> HIDE DEF c
      <3> QED  BY <2>3, <2>4, <2>9
    <2>6. (k + 1) * l = k * l + l /\ k * l \in Nat
      BY <1>1, Distributed
    <2> HIDE DEF c
    <2>7. ASSUME NEW z \in 0 .. k, NEW i \in 1 .. l
          PROVE  c[z * l + i] = ts[z + 1].values[i]
      <3>1. CASE z = k
        BY <2>5, <3>1 DEF b
      <3>2. CASE z \in 0 .. k - 1
        <4>1. z * l + i \in 1 .. k * l
          <5>1. (z + 1) * l = z * l + l /\ z * l \in Nat
            BY <1>1, Distributed
          <5>2. (z + 1) * l <= k * l
            <6>1. PICK d \in Nat : k = (z + 1) + d
              BY <3>2
            <6>2. k * l = (z + 1) * l + d * l /\ d * l \in Nat
              BY <1>1, <6>1
            <6>3. (z + 1) * l \in Nat
              BY <1>1
            <6> HIDE <6>1
            <6> QED  BY <6>2, <6>3
          <5> QED  BY <1>1, <2>6, <5>1, <5>2
        <4>2. c[z * l + i] = a[z * l + i]
          BY <2>5, <4>1
        <4>3. a[z * l + i] = ts[z + 1].values[i]
          BY <2>4, <3>2
        <4> QED  BY <4>2, <4>3
      <3> QED  BY <3>1, <3>2
    <2>8. Joined(c, k + 1, l, ts)
      BY <1>1, <2>5, <2>6, <2>7 DEF Joined
    <2> QED  BY <2>2, <2>8 DEF c
  <1>6. n \in T
    <2> HIDE DEF T
    <2> QED  BY <1>1, <1>4, <1>5, Induct
  <1>7. Joined(r[n], n, l, ts)
    <2> QED  BY <1>1, <1>6
  <1> QED  BY <1>2, <1>7, <1>9 DEF w

LEMMA PlanesJoined ==
  ASSUME NEW n \in Positive, NEW p \in Positive, NEW q \in Positive,
         NEW ts, ArePlanes(ts, n, p, q)
  PROVE  HasPlanes(ConcatenateTensor3s(ts), ts, n, p, q)
  <1> DEFINE u == ConcatenateTensor3s(ts)
             l == p * q
             v == FoldLeft(LAMBDA vs, t : vs \o t.values, << >>, ts)
             m == FoldLeft(LAMBDA k, t : k + Depth(t), 0, ts)
  <1>1. m = n
    BY DepthsAdded
  <1>2. Joined(v, n, l, ts)
    <2> HIDE DEF l
    <2> QED  BY ValuesJoined DEF l
  <1>3. 1 \in 1 .. n /\ ts[1].shape = <<1, p, q>>
    BY DEF Positive, ArePlanes
  <1>4. u = [shape |-> << m >> \o Tail(ts[1].shape), values |-> v]
    BY DEF ConcatenateTensor3s
  <1> HIDE DEF u, v, m
  <1>5. << n >> \o Tail(ts[1].shape) = <<n, p, q>>
    <2>1. Tail(<<1, p, q>>) = <<p, q>>
      OBVIOUS
    <2>2. IsSeq(<< n >>) /\ Len(<< n >>) = 1 /\ << n >>[1] = n
      BY SingletonIsSeq
    <2>3. <<p, q>> \in Seq({p, q}) /\ Len(<<p, q>>) = 2
      OBVIOUS
    <2>4. IsSeq(<<p, q>>)
      BY <2>3, SeqIsSeq
    <2> QED  BY <1>3, <2>1, <2>2, <2>3, <2>4, OneAndTwo
  <1>6. u.shape = <<n, p, q>> /\ u.values = v
    BY <1>1, <1>4, <1>5
  <1>7. Height(u) = p /\ Width(u) = q
    BY <1>6, ShapedTensor
  <1>8. ASSUME NEW z \in 0 .. n - 1, NEW y \in 0 .. p - 1, NEW x \in 0 .. q - 1
        PROVE  Get(u, z, y, x) = Get(ts[z + 1], 0, y, x)
    <2> DEFINE i == y * q + x + 1
               t == ts[z + 1]
    <2>1. z \in Nat /\ z + 1 \in 1 .. n /\ p \in Nat /\ q \in Nat /\ y \in Nat /\ x \in Nat
      BY DEF Positive
    <2>2. i \in 1 .. l
      <3>1. y * q + x \in 0 .. p * q - 1
        BY TwoDigits
      <3>2. p * q \in Nat
        BY <2>1
      <3> QED  BY <3>1, <3>2
    <2>3. (z * p + y) * q + x + 1 = z * l + i
      <3>1. (z * p + y) * q = z * p * q + y * q /\ z * p * q = z * (p * q)
        BY <2>1
      <3>2. z * p * q \in Nat /\ y * q \in Nat
        <4>1. z * p \in Nat
          BY <2>1
        <4> QED  BY <2>1, <4>1
      <3> QED  BY <2>1, <3>1, <3>2
    <2>4. (0 * p + y) * q + x + 1 = i
      BY <2>1
    <2>5. Height(t) = p /\ Width(t) = q
      <3>1. t.shape = <<1, p, q>>
        BY <2>1 DEF ArePlanes
      <3> QED  BY <3>1, ShapedTensor
    <2> HIDE DEF t, i, l
    <2>6. Get(u, z, y, x) = v[z * l + i]
      BY <1>6, <1>7, <2>3 DEF Get
    <2>7. Get(t, 0, y, x) = t.values[i]
      BY <2>4, <2>5 DEF Get
    <2> QED  BY <1>2, <2>2, <2>6, <2>7 DEF t, Joined
  <1>9. HasPlanes(u, ts, n, p, q)
    BY <1>6, <1>8 DEF HasPlanes
  <1> QED  BY <1>9 DEF u

(***************************************************************************)
(* Separable convolutions.                                                 *)
(***************************************************************************)
\* Channel z of t as a tensor of its own.
Slice(t, z) == Tensor2ToTensor3(DepthSlices(t)[z + 1])

LEMMA SliceIs ==
  ASSUME NEW t, NEW d \in Positive, NEW h \in Positive, NEW w \in Positive,
         t.shape = <<d, h, w>>, NEW z \in 0 .. d - 1
  PROVE  /\ Slice(t, z).shape = <<1, h, w>>
         /\ \A i, j : CellIn(Slice(t, z), 0, i, j) = CellIn(t, z, i, j)
  <1> DEFINE s == <<h, w>>
             F(p) == Get(t, z, p[1], p[2])
             V == [k \in 1 .. Volume(s) |-> F(IndexOf(s, k - 1))]
             m == Slice(t, z)
  <1>1. Depth(t) = d /\ Height(t) = h /\ Width(t) = w
    BY ShapedTensor
  <1>2. DepthSlices(t)[z + 1] = [shape |-> s, values |-> V]
    <2>1. z + 1 \in 1 .. d /\ (z + 1) - 1 = z
      BY DEF Positive
    <2>2. DepthSlices(t)
            = [c \in 1 .. d |->
                 [shape |-> s,
                  values |-> [k \in 1 .. Volume(s) |->
                    Get(t, c - 1, IndexOf(s, k - 1)[1], IndexOf(s, k - 1)[2])]]]
      BY <1>1 DEF DepthSlices, Array
    <2> HIDE DEF s
    <2> QED  BY <2>1, <2>2
  <1> HIDE DEF V
  <1>3. m.shape = <<1, h, w>> /\ m.values = V
    <2> DEFINE a == DepthSlices(t)[z + 1]
    <2>1. a.shape = s /\ a.values = V
      <3> HIDE DEF s, a
      <3>1. a = [shape |-> s, values |-> V]
        BY <1>2 DEF a
      <3> QED  BY <3>1
    <2>2. m = [shape |-> << 1 >> \o a.shape, values |-> a.values]
      BY DEF Slice, Tensor2ToTensor3, Reshape
    <2> HIDE DEF a, m
    <2>3. m.shape = << 1 >> \o s /\ m.values = V
      <3> HIDE DEF s
      <3> QED  BY <2>1, <2>2
    <2> QED  BY <2>3, OneBefore
  <1>4. Height(m) = h /\ Width(m) = w
    BY <1>3, ShapedTensor
  <1> HIDE DEF m
  <1>5. ASSUME NEW i \in 0 .. h - 1, NEW j \in 0 .. w - 1
        PROVE  Get(m, 0, i, j) = Get(t, z, i, j)
    <2> DEFINE k == i * w + j
    <2>1. k \in 0 .. h * w - 1
      BY TwoDigits
    <2>2. PosOf(s, <<i, j>>) = k /\ IndexOf(s, k) = <<i, j>>
      BY CellOf2
    <2>3. (0 * h + i) * w + j + 1 = k + 1
      BY DEF Positive
    <2>4. Volume(s) = h * w /\ h * w \in Nat
      BY Volume2 DEF Positive
    <2> HIDE DEF k, s
    <2>5. Get(m, 0, i, j) = V[k + 1]
      BY <1>3, <1>4, <2>3 DEF Get
    <2>6. k + 1 \in 1 .. Volume(s) /\ (k + 1) - 1 = k
      BY <2>1, <2>4
    <2>7. V[k + 1] = F(<<i, j>>)
      <3> HIDE DEF F
      <3> QED  BY <2>2, <2>6 DEF V
    <2> QED  BY <2>5, <2>7
  <1>6. \A i, j : <<i, j>> \in Spatial(m) <=> <<i, j>> \in Spatial(t)
    BY <1>1, <1>4 DEF Spatial
  <1>7. \A i, j : <<i, j>> \in Spatial(m) => i \in 0 .. h - 1 /\ j \in 0 .. w - 1
    BY <1>4 DEF Spatial
  <1>8. \A i, j : CellIn(m, 0, i, j) = CellIn(t, z, i, j)
    BY <1>5, <1>6, <1>7 DEF CellIn
  <1> QED  BY <1>3, <1>8 DEF m

\* One of several filters of one channel, on its own.
LEMMA OneFilter ==
  ASSUME NEW h \in Positive, NEW w \in Positive, NEW n \in Positive, NEW e, e = 1 * h * w,
         NEW g, NEW rate, NEW v, NEW b, AreFilters(g, rate, 1, h, w, n, v, b),
         IsSeq(v), Len(v) = n * e, NEW f \in 1 .. n
  PROVE  AreFilters(<< g[f] >>, rate, 1, h, w, 1, Part(v, f, e), << b[f] >>)
  <1> DEFINE p == Part(v, f, e)
             k == << g[f] >>
  <1>1. e \in Nat /\ n \in Nat
    BY DEF Positive
  <1>2. IsSeq(p) /\ Len(p) = e
    <2> DEFINE i == (f - 1) * e
    <2>1. i \in Nat /\ f * e = i + e
      <3>1. f - 1 \in Nat /\ (f - 1) + 1 = f
        BY <1>1
      <3> QED  BY <1>1, <3>1, Distributed
    <2>2. p = SubSeq(v, i + 1, i + e)
      BY <2>1 DEF Part
    <2> HIDE DEF i, p
    <2>3. p = [j \in 1 .. e |-> v[(i + 1) + j - 1]]
      BY <1>1, <2>1, <2>2
    <2>4. p = [j \in 1 .. e |-> p[j]]
      BY <2>3
    <2> QED  BY <1>1, <2>4, FunctionIsSeq
  <1> HIDE DEF p
  <1>3. SubSeq(p, (1 - 1) * e + 1, 1 * e) = p
    <2>1. (1 - 1) * e + 1 = 1 /\ 1 * e = e
      BY <1>1
    <2>2. e \in 0 .. Len(p)
      BY <1>1, <1>2
    <2>3. /\ IsSeq(SubSeq(p, 1, e)) /\ Len(SubSeq(p, 1, e)) = e
          /\ \A i \in 1 .. e : SubSeq(p, 1, e)[i] = p[i]
      BY <1>2, <2>2, PrefixSeq
    <2>4. SubSeq(p, 1, e) = p
      BY <1>2, <2>3 DEF IsSeq
    <2> QED  BY <2>1, <2>4
  <1>4. g[f] = [m |-> DilateTensor3(rate, FilterShaped(1, h, w, p)), bias |-> b[f]]
    <2>1. p = SubSeq(v, (f - 1) * e + 1, f * e)
      BY DEF p, Part
    <2> QED  BY <2>1 DEF AreFilters
  <1>5. Len(k) = 1 /\ k = [i \in 1 .. 1 |-> k[i]] /\ k[1] = g[f] /\ << b[f] >>[1] = b[f]
    OBVIOUS
  <1> HIDE DEF k
  <1>6. AreFilters(k, rate, 1, h, w, 1, p, << b[f] >>)
    <2>1. \A i \in 1 .. 1 : i = 1
      OBVIOUS
    <2>2. \A i \in 1 .. 1 :
            k[i] = [m |-> DilateTensor3(rate, FilterShaped(1, h, w,
                              SubSeq(p, (i - 1) * (1 * h * w) + 1, i * (1 * h * w)))),
                    bias |-> << b[f] >>[i]]
      BY <1>3, <1>4, <1>5, <2>1
    <2> QED  BY <1>5, <2>2 DEF AreFilters
  <1> QED  BY <1>6 DEF k, p

\* What the filter of channel z makes of it, and those of all channels.
Depthwise(z) ==
  Convolve(<< made.depthwise[z] >>, layer.strides, layer.padding,
           UseOffset(Len(DepthSlices(InputTensor))), Tensor2ToTensor3(DepthSlices(InputTensor)[z]))
Planes == [z \in DOMAIN DepthSlices(InputTensor) |-> Depthwise(z)]

LEMMA SeparablyIs ==
  SeparablyConvolved(InputTensor)
    = Convolve(made.pointwise, <<1, 1>>, "valid", FALSE, ConcatenateTensor3s(Planes))
  BY DEF SeparablyConvolved, Planes, Depthwise

LEMMA SeparableAxes ==
  ASSUME layer \in KerasLayers, layer.class = "SeparableConv2D"
  PROVE  LET c == Input(layer)[3] IN
         /\ Rank = 2 /\ layer.class # "Dense" /\ c \in Positive
         /\ Chans(Input(layer)) = c /\ Input(layer)[Rank + 1] = c
         /\ YAxis.window = DH(layer) /\ XAxis.window = DW(layer)
         /\ layer.dilation = <<YAxis.spread, XAxis.spread>>
         /\ layer.strides = <<YAxis.step, XAxis.step>>
         /\ YAxis.padding = layer.padding /\ XAxis.padding = layer.padding
         /\ IsAxis(YAxis) /\ IsAxis(XAxis)
         /\ YAxis.size = Rows(Input(layer)) /\ XAxis.size = Cols(Input(layer))
  <1>1. layer.class # "Dense"
    BY Classes
  <1>2. SpatialRank(layer) = 2 /\ Rank = 2
    BY SeparableRank, RankIs
  <1>3. Input(layer)[3] \in Positive
    BY KernelsOfSeparable
  <1>4. Chans(Input(layer)) = Input(layer)[2 + 1]
    BY <1>2, InputShape
  <1>5. /\ IsAxis(YAxis) /\ IsAxis(XAxis)
        /\ YAxis.padding = layer.padding /\ XAxis.padding = layer.padding
        /\ YAxis.size = Rows(Input(layer)) /\ XAxis.size = Cols(Input(layer))
        /\ CreateShape2(layer.strides) = <<YAxis.step, XAxis.step>>
        /\ CreateShape2(layer.dilation) = <<YAxis.spread, XAxis.spread>>
        /\ YAxis.window = WindowOf(layer, 1) /\ XAxis.window = WindowOf(layer, 2)
    BY <1>1, <1>2, AxesOfLayer
  <1>6. layer.strides \in SizesOf(2) /\ layer.dilation \in SizesOf(2)
    BY <1>2, LayerIs
  <1>7. CreateShape2(layer.strides) = layer.strides /\ CreateShape2(layer.dilation) = layer.dilation
    BY <1>6, TwoSizes DEF CreateShape2
  <1>8. WindowOf(layer, 1) = DH(layer) /\ WindowOf(layer, 2) = DW(layer)
    BY DEF WindowOf, DH, DW, Convolutions, Poolings, MaxPoolings, AveragePoolings
  <1> QED  BY <1>1, <1>2, <1>3, <1>4, <1>5, <1>7, <1>8

LEMMA DepthwiseApplied ==
  ASSUME LayerIsMade, layer.class = "SeparableConv2D", NEW z \in 0 .. Input(layer)[3] - 1
  PROVE  Convolved(Depthwise(z + 1), 1,
                   Part(Trained.slices, z + 1, 1 * YAxis.window * XAxis.window), << 0 >>,
                   1, Slice(InputTensor, z), YAxis, XAxis, IsShifted)
  <1> DEFINE t == InputTensor
             m == Slice(t, z)
             c == Input(layer)[3]
             e == 1 * YAxis.window * XAxis.window
             p == Part(Trained.slices, z + 1, e)
             g == << made.depthwise[z + 1] >>
  <1>1. /\ layer \in KerasLayers /\ Trained = Exported(layer)
        /\ made = Made /\ params.offsets = Offsets
    BY DEF LayerIsMade
  <1>2. /\ Rank = 2 /\ layer.class # "Dense" /\ c \in Positive
        /\ Chans(Input(layer)) = c /\ Input(layer)[Rank + 1] = c
        /\ YAxis.window = DH(layer) /\ XAxis.window = DW(layer)
        /\ layer.dilation = <<YAxis.spread, XAxis.spread>>
        /\ layer.strides = <<YAxis.step, XAxis.step>>
        /\ YAxis.padding = layer.padding /\ XAxis.padding = layer.padding
        /\ IsAxis(YAxis) /\ IsAxis(XAxis)
        /\ YAxis.size = Rows(Input(layer)) /\ XAxis.size = Cols(Input(layer))
    BY <1>1, SeparableAxes
  <1>3. t.shape = <<c, YAxis.size, XAxis.size>>
    BY <1>1, <1>2, InputTensorShape
  <1>4. m.shape = <<1, YAxis.size, XAxis.size>>
    BY <1>2, <1>3, SliceIs DEF IsAxis
  <1>5. IsImage(m, 1, YAxis, XAxis)
    BY <1>2, <1>4 DEF IsImage, Positive
  <1>6. UseOffset(c) = IsShifted /\ IsShifted \in BOOLEAN
    <2>1. UseOffset(c) \in BOOLEAN /\ (UseOffset(c) <=> IsShifted)
      BY <1>1, <1>2, OffsetIsUsed
    <2>2. IsShifted \in BOOLEAN
      BY DEF IsShifted
    <2> QED  BY <2>1, <2>2
  <1>7. Len(DepthSlices(t)) = c
    <2>1. Depth(t) = c
      BY <1>3, ShapedTensor
    <2>2. DepthSlices(t) = [k \in 1 .. c |-> DepthSlices(t)[k]] /\ c \in Nat
      BY <1>2, <2>1 DEF DepthSlices, Positive
    <2> QED  BY <2>2, FunctionIsSeq
  <1>8. AreFilters(g, layer.dilation, 1, YAxis.window, XAxis.window, 1, p, << 0 >>)
    <2>1. AreFilters(made.depthwise, layer.dilation, 1, YAxis.window, XAxis.window, c,
                     Trained.slices, Slices)
      BY <1>1, <1>2, FiltersOfSeparable
    <2>2. Len(Trained.slices) = c * (1 * DH(layer) * DW(layer)) /\ InputDepth = c
      BY <1>1, SlicesIs
    <2>3. Trained.slices \in Seq(Nat)
      BY <1>1, KernelsOfSeparable DEF Counted
    <2>4. IsSeq(Trained.slices) /\ Len(Trained.slices) = c * e
      BY <1>2, <2>2, <2>3, SeqIsSeq
    <2>5. Slices[z + 1] = 0 /\ z + 1 \in 1 .. c
      BY <1>2, <2>2 DEF Slices, Positive
    <2>6. YAxis.window \in Positive /\ XAxis.window \in Positive
      BY <1>2 DEF IsAxis
    <2> HIDE DEF e, c
    <2>7. AreFilters(g, layer.dilation, 1, YAxis.window, XAxis.window, 1, p, << Slices[z + 1] >>)
      BY <1>2, <2>1, <2>4, <2>5, <2>6, OneFilter DEF e
    <2> QED  BY <2>5, <2>7
  <1>9. Depthwise(z + 1) = Convolve(g, <<YAxis.step, XAxis.step>>, YAxis.padding, IsShifted, m)
    BY <1>2, <1>6, <1>7 DEF Depthwise, Slice
  <1>10. 1 \in Positive
    BY DEF Positive
  <1> HIDE DEF g, m, p
  <1>11. Convolved(Depthwise(z + 1), 1, p, << 0 >>, 1, m, YAxis, XAxis, IsShifted)
    BY <1>2, <1>5, <1>6, <1>8, <1>9, <1>10, ConvolveIs
  <1> QED  BY <1>11 DEF p, m, t

\* Under a window at y, x.
LEMMA DepthwiseIs ==
  ASSUME LayerIsMade, layer.class = "SeparableConv2D", NEW z \in 0 .. Input(layer)[3] - 1,
         NEW y \in 0 .. Out(YAxis) - 1, NEW x \in 0 .. Out(XAxis) - 1, NEW v
  PROVE  v \in Get(Depthwise(z + 1), 0, y, x) <=>
           \E a \in 0 .. YAxis.window - 1, b \in 0 .. XAxis.window - 1 :
             v \in Times(At(layer.depthwise, <<a, b, z, 0>>),
                         ValueUnder(<<a, b, z, 0>>, OutOf(y, x)))
  <1> DEFINE t == InputTensor
             m == Slice(t, z)
             c == Input(layer)[3]
             h == YAxis.window
             w == XAxis.window
             e == 1 * h * w
             V == Trained.slices
             p == Part(V, z + 1, e)
             q == Part(p, 1, e)
             B(a, b) == Beneath(t, YAxis, XAxis, IsShifted, y, x, z, a, b)
             C(a, b) == Beneath(m, YAxis, XAxis, IsShifted, y, x, 0, a, b)
             D(a, b) == At(layer.depthwise, <<a, b, z, 0>>)
  <1>1. /\ layer \in KerasLayers /\ Trained = Exported(layer)
        /\ made = Made /\ params.offsets = Offsets
    BY DEF LayerIsMade
  <1>2. /\ Rank = 2 /\ layer.class # "Dense" /\ c \in Positive
        /\ Chans(Input(layer)) = c
        /\ h = DH(layer) /\ w = DW(layer) /\ h \in Positive /\ w \in Positive
        /\ YAxis.size = Rows(Input(layer)) /\ XAxis.size = Cols(Input(layer))
        /\ YAxis.size \in Positive /\ XAxis.size \in Positive
    BY <1>1, SeparableAxes DEF IsAxis
  <1>3. \A a, b : C(a, b) = B(a, b)
    <2>1. t.shape = <<c, YAxis.size, XAxis.size>>
      BY <1>1, <1>2, InputTensorShape
    <2>2. \A i, j : CellIn(m, 0, i, j) = CellIn(t, z, i, j)
      BY <1>2, <2>1, SliceIs
    <2> QED  BY <2>2 DEF Beneath
  <1>4. \A a \in 0 .. h - 1, b \in 0 .. w - 1 : B(a, b) = ValueUnder(<<a, b, z, 0>>, OutOf(y, x))
    <2> TAKE a \in 0 .. h - 1, b \in 0 .. w - 1
    <2> DEFINE k == <<a, b, z, 0>>
    <2>1. \A i \in 1 .. Rank + 1 : k[i] = KernelIndex(a, b, z)[i]
      BY <1>2 DEF KernelIndex
    <2> HIDE DEF k
    <2>2. B(a, b) = ValueUnder(k, OutOf(y, x))
      BY <1>1, <1>2, <2>1, BeneathIsUnder
    <2> QED  BY <2>2 DEF k
  <1>5. Convolved(Depthwise(z + 1), 1, p, << 0 >>, 1, m, YAxis, XAxis, IsShifted)
    BY DepthwiseApplied
  <1> HIDE DEF B, C, D, m, p, q, V, c
  <1>6. v \in Get(Depthwise(z + 1), 0, y, x)
          <=> Summand(v, Part(p, 0 + 1, 1 * h * w), << 0 >>[0 + 1], 1, m,
                      YAxis, XAxis, IsShifted, y, x)
    <2>1. 0 \in 0 .. 1 - 1
      OBVIOUS
    <2> QED  BY <1>5, <2>1 DEF Convolved
  <1>7. Summand(v, q, 0, 1, m, YAxis, XAxis, IsShifted, y, x) <=>
          \E a \in 0 .. h - 1, b \in 0 .. w - 1 :
            v \in Times(q[(0 * h + a) * w + b + 1], C(a, b))
    <2>1. Times(0, One) = {}
      BY DEF Times
    <2>2. \A i \in 0 .. 1 - 1 : i = 0
      OBVIOUS
    <2>3. 0 \in 0 .. 1 - 1
      OBVIOUS
    <2> QED  BY <2>1, <2>2, <2>3 DEF Summand, C
  <1>8. ASSUME NEW a \in 0 .. h - 1, NEW b \in 0 .. w - 1
        PROVE  q[(0 * h + a) * w + b + 1] = D(a, b)
    <2> DEFINE i == (0 * h + a) * w + b + 1
    <2>1. 0 \in 0 .. 1 - 1 /\ 1 \in Positive
      BY DEF Positive
    <2>2. i \in 1 .. 1 * h * w
      BY <1>2, <2>1, TensorPosition
    <2>3. IsSeq(V) /\ Len(V) = c * e
      <3>1. Len(V) = c * (1 * DH(layer) * DW(layer))
        BY <1>1, SlicesIs DEF V, c
      <3>2. V \in Seq(Nat)
        BY <1>1, KernelsOfSeparable DEF Counted, V
      <3> QED  BY <1>2, <3>1, <3>2, SeqIsSeq
    <2>4. e \in Positive
      BY <1>2, <2>1, ProductOfPositives
    <2>5. z \in 0 .. c - 1 /\ z \in Nat /\ a \in Nat /\ b \in Nat
      BY <1>2 DEF c, Positive
    <2>6. V[((0 * c + z) * DH(layer) + a) * DW(layer) + b + 1] = D(a, b)
      BY <1>1, <1>2, KernelsOfSeparable DEF V, c, D
    <2>7. z * e + i = ((0 * c + z) * DH(layer) + a) * DW(layer) + b + 1
      <3>3. 0 \in Nat /\ 1 \in Positive /\ h \in Positive /\ w \in Positive
        BY <1>2, <2>1
      <3> HIDE DEF h, w
      <3>1. z * (1 * h * w) + ((0 * h + a) * w + b + 1) = ((z * 1 + 0) * h + a) * w + b + 1
        BY <2>5, <3>3, WeightPosition
      <3> USE DEF h, w
      <3>2. z * 1 + 0 = z /\ 0 * c + z = z
        BY <1>2, <2>5 DEF Positive
      <3> QED  BY <1>2, <3>1, <3>2
    <2> HIDE DEF i, e
    <2>8. p[i] = V[z * e + i]
      BY <1>2, <2>2, <2>3, <2>4, <2>5, PartAt DEF p, e
    <2>9. q[i] = p[i]
      <3>1. (1 - 1) * e + 1 = 1 /\ 1 * e = e /\ e \in Nat
        BY <2>4 DEF Positive
      <3>2. q = SubSeq(p, 1, e)
        BY <3>1 DEF q, Part
      <3>3. i \in 1 .. e
        BY <2>2 DEF e
      <3>4. SubSeq(p, 1, e) = [j \in 1 .. e |-> p[j]]
        BY <3>1
      <3> QED  BY <3>2, <3>3, <3>4
    <2> QED  BY <2>6, <2>7, <2>8, <2>9 DEF i
  <1>9. << 0 >>[0 + 1] = 0 /\ Part(p, 0 + 1, 1 * h * w) = q
    BY DEF q
  <1>10. v \in Get(Depthwise(z + 1), 0, y, x) <=>
           \E a \in 0 .. h - 1, b \in 0 .. w - 1 :
             v \in Times(q[(0 * h + a) * w + b + 1], C(a, b))
    BY <1>6, <1>7, <1>9
  <1>11. \A a \in 0 .. h - 1, b \in 0 .. w - 1 :
           Times(q[(0 * h + a) * w + b + 1], C(a, b))
             = Times(At(layer.depthwise, <<a, b, z, 0>>), ValueUnder(<<a, b, z, 0>>, OutOf(y, x)))
    BY <1>3, <1>4, <1>8 DEF D
  <1> QED  BY <1>10, <1>11

\* The windows of one cell, one after the other, over an axis of n cells.
LEMMA CellByCell ==
  ASSUME NEW n \in Positive
  PROVE  LET p == Axis(n, 1, 1, 1, "valid") IN
         /\ p.size = n /\ p.window = 1 /\ p.spread = 1 /\ p.step = 1 /\ p.padding = "valid"
         /\ IsAxis(p) /\ Out(p) = n /\ First(p, FALSE) = 0
  <1> DEFINE p == Axis(n, 1, 1, 1, "valid")
  <1>1. p.size = n /\ p.window = 1 /\ p.spread = 1 /\ p.step = 1 /\ p.padding = "valid"
    BY DEF Axis
  <1> HIDE DEF p
  <1>2. Extent(p) = 1
    BY <1>1 DEF Extent, Reach
  <1>3. IsAxis(p)
    BY <1>1 DEF IsAxis, Positive, Paddings
  <1>4. Out(p) = (n - 1) \div 1 + 1 /\ Pad(p) = 0
    BY <1>1, <1>2, <1>3, OutAndPad
  <1>5. Out(p) = n
    BY <1>4 DEF Positive
  <1>6. First(p, FALSE) = 0
    BY <1>4 DEF First
  <1> QED  BY <1>1, <1>3, <1>5, <1>6 DEF p

LEMMA PlanesAre ==
  ASSUME LayerIsMade, layer.class = "SeparableConv2D"
  PROVE  /\ ArePlanes(Planes, Input(layer)[3], Out(YAxis), Out(XAxis))
         /\ \A z \in 0 .. Input(layer)[3] - 1 : Planes[z + 1] = Depthwise(z + 1)
  <1> DEFINE c == Input(layer)[3]
             p == Out(YAxis)
             q == Out(XAxis)
             ts == Planes
  <1>1. layer \in KerasLayers
    BY DEF LayerIsMade
  <1>2. /\ c \in Positive /\ Chans(Input(layer)) = c
        /\ IsAxis(YAxis) /\ IsAxis(XAxis)
        /\ YAxis.size = Rows(Input(layer)) /\ XAxis.size = Cols(Input(layer))
    BY <1>1, SeparableAxes
  <1>3. p \in Positive /\ q \in Positive
    BY <1>2, WhatIsLeft
  <1>4. Depth(InputTensor) = c
    BY <1>1, <1>2, InputTensorShape
  <1>5. DOMAIN DepthSlices(InputTensor) = 1 .. c
    BY <1>4 DEF DepthSlices
  <1> HIDE DEF c
  <1>6. ts = [z \in 1 .. c |-> Depthwise(z)]
    BY <1>5 DEF Planes
  <1> HIDE DEF ts, p, q
  <1>7. ts = [z \in 1 .. c |-> ts[z]] /\ \A z \in 1 .. c : ts[z] = Depthwise(z)
    BY <1>6
  <1>8. ASSUME NEW z \in 1 .. c
        PROVE  /\ Depthwise(z).shape = <<1, p, q>> /\ IsSeq(Depthwise(z).values)
               /\ Len(Depthwise(z).values) = p * q
    <2>1. z - 1 \in 0 .. c - 1 /\ (z - 1) + 1 = z
      BY <1>2 DEF Positive
    <2>2. Convolved(Depthwise((z - 1) + 1), 1,
                    Part(Trained.slices, (z - 1) + 1, 1 * YAxis.window * XAxis.window), << 0 >>,
                    1, Slice(InputTensor, z - 1), YAxis, XAxis, IsShifted)
      BY <2>1, DepthwiseApplied DEF c
    <2>3. /\ Depthwise(z).shape = <<1, p, q>> /\ IsSeq(Depthwise(z).values)
          /\ Len(Depthwise(z).values) = 1 * p * q
      BY <2>1, <2>2 DEF Convolved, p, q
    <2> QED  BY <1>3, <2>3 DEF Positive
  <1>9. ArePlanes(ts, c, p, q)
    BY <1>7, <1>8 DEF ArePlanes
  <1>10. \A z \in 0 .. c - 1 : ts[z + 1] = Depthwise(z + 1)
    <2>1. \A z \in 0 .. c - 1 : z + 1 \in 1 .. c
      BY <1>2 DEF Positive
    <2> QED  BY <1>7, <2>1
  <1> QED  BY <1>9, <1>10 DEF ts, c, p, q

\* The second step, over what the first yields.
LEMMA PointwiseApplied ==
  ASSUME LayerIsMade, layer.class = "SeparableConv2D"
  PROVE  LET c == Input(layer)[3]
             u == ConcatenateTensor3s(Planes)
             ay == Axis(Out(YAxis), 1, 1, 1, "valid")
             ax == Axis(Out(XAxis), 1, 1, 1, "valid") IN
         /\ Convolved(Applied(InputTensor), Units(layer), Trained.weights, Bias,
                      c, u, ay, ax, FALSE)
         /\ Out(ay) = Out(YAxis) /\ Out(ax) = Out(XAxis)
         /\ ay.window = 1 /\ ax.window = 1
         /\ \A z \in 0 .. c - 1, y \in 0 .. Out(YAxis) - 1, x \in 0 .. Out(XAxis) - 1 :
              Beneath(u, ay, ax, FALSE, y, x, z, 0, 0) = Get(Depthwise(z + 1), 0, y, x)
  <1> DEFINE c == Input(layer)[3]
             p == Out(YAxis)
             q == Out(XAxis)
             u == ConcatenateTensor3s(Planes)
             ay == Axis(p, 1, 1, 1, "valid")
             ax == Axis(q, 1, 1, 1, "valid")
             n == Units(layer)
  <1>1. layer \in KerasLayers /\ Trained = Exported(layer) /\ made = Made
    BY DEF LayerIsMade
  <1>2. c \in Positive /\ IsAxis(YAxis) /\ IsAxis(XAxis)
    BY <1>1, SeparableAxes
  <1>3. p \in Positive /\ q \in Positive
    BY <1>2, WhatIsLeft
  <1>4. n \in Positive
    BY <1>1, KernelsOfSeparable
  <1>5. HasPlanes(u, Planes, c, p, q) /\ \A z \in 0 .. c - 1 : Planes[z + 1] = Depthwise(z + 1)
    <2>1. ArePlanes(Planes, c, p, q) /\ \A z \in 0 .. c - 1 : Planes[z + 1] = Depthwise(z + 1)
      BY PlanesAre
    <2> HIDE DEF c, p, q
    <2> QED  BY <1>2, <1>3, <2>1, PlanesJoined
  <1>6. AreFilters(made.pointwise, <<1, 1>>, c, 1, 1, n, Trained.weights, Bias)
    BY <1>1, FiltersOfSeparable
  <1>7. Applied(InputTensor) = Convolve(made.pointwise, <<1, 1>>, "valid", FALSE, u)
    BY <1>1, AppliedIs, SeparablyIs
  <1> HIDE DEF c, p, q, u, n
  <1>8. /\ ay.size = p /\ ay.window = 1 /\ ay.spread = 1 /\ ay.step = 1 /\ ay.padding = "valid"
        /\ IsAxis(ay) /\ Out(ay) = p /\ First(ay, FALSE) = 0
    BY <1>3, CellByCell
  <1>9. /\ ax.size = q /\ ax.window = 1 /\ ax.spread = 1 /\ ax.step = 1 /\ ax.padding = "valid"
        /\ IsAxis(ax) /\ Out(ax) = q /\ First(ax, FALSE) = 0
    BY <1>3, CellByCell
  <1> HIDE DEF ay, ax
  <1>10. u.shape = <<c, p, q>>
    BY <1>5 DEF HasPlanes
  <1>11. IsImage(u, c, ay, ax)
    BY <1>2, <1>8, <1>9, <1>10 DEF IsImage
  <1>12. Convolved(Convolve(made.pointwise, <<ay.step, ax.step>>, ay.padding, FALSE, u),
                   n, Trained.weights, Bias, c, u, ay, ax, FALSE)
    <2>1. AreFilters(made.pointwise, <<ay.spread, ax.spread>>, c, ay.window, ax.window,
                     n, Trained.weights, Bias)
      BY <1>6, <1>8, <1>9
    <2>2. ay.padding = ax.padding
      BY <1>8, <1>9
    <2> QED  BY <1>4, <1>11, <2>1, <2>2, ConvolveIs
  <1>13. Convolved(Applied(InputTensor), n, Trained.weights, Bias, c, u, ay, ax, FALSE)
    BY <1>7, <1>8, <1>9, <1>12
  <1>14. ASSUME NEW z \in 0 .. c - 1, NEW y \in 0 .. p - 1, NEW x \in 0 .. q - 1
         PROVE  Beneath(u, ay, ax, FALSE, y, x, z, 0, 0) = Get(Depthwise(z + 1), 0, y, x)
    <2>1. Height(u) = p /\ Width(u) = q
      BY <1>10, ShapedTensor
    <2>2. <<y, x>> \in Spatial(u)
      BY <2>1 DEF Spatial
    <2>3. 0 + 1 * y + 1 * 0 = y /\ 0 + 1 * x + 1 * 0 = x
      BY <1>3 DEF Positive
    <2>4. Beneath(u, ay, ax, FALSE, y, x, z, 0, 0) = CellIn(u, z, y, x)
      BY <1>8, <1>9, <2>3 DEF Beneath
    <2>5. CellIn(u, z, y, x) = Get(u, z, y, x)
      BY <2>2 DEF CellIn
    <2>6. Get(u, z, y, x) = Get(Planes[z + 1], 0, y, x)
      BY <1>5 DEF HasPlanes
    <2> QED  BY <1>5, <2>4, <2>5, <2>6
  <1> QED  BY <1>8, <1>9, <1>13, <1>14 DEF c, p, q, u, n, ay, ax

\* What the output has under a window at y, x for channel f.
LEMMA PointwiseIs ==
  ASSUME LayerIsMade, layer.class = "SeparableConv2D", NEW f \in 0 .. Units(layer) - 1,
         NEW y \in 0 .. Out(YAxis) - 1, NEW x \in 0 .. Out(XAxis) - 1, NEW v
  PROVE  v \in Get(Applied(InputTensor), f, y, x) <=>
           \/ \E z \in 0 .. Input(layer)[3] - 1 :
                v \in Times(At(layer.kernel, <<0, 0, z, f>>), Get(Depthwise(z + 1), 0, y, x))
           \/ v \in BiasTerm(f)
  <1> DEFINE c == Input(layer)[3]
             p == Out(YAxis)
             q == Out(XAxis)
             o == Applied(InputTensor)
             u == ConcatenateTensor3s(Planes)
             ay == Axis(Out(YAxis), 1, 1, 1, "valid")
             ax == Axis(Out(XAxis), 1, 1, 1, "valid")
             n == Units(layer)
             V == Trained.weights
             e == c * 1 * 1
             Q == Part(V, f + 1, e)
             D(z) == Get(Depthwise(z + 1), 0, y, x)
             K(z) == At(layer.kernel, <<0, 0, z, f>>)
             B(z, a, b) == Beneath(u, ay, ax, FALSE, y, x, z, a, b)
  <1>1. layer \in KerasLayers /\ Trained = Exported(layer)
    BY DEF LayerIsMade
  <1>2. c \in Positive /\ n \in Positive
    BY <1>1, KernelsOfSeparable
  <1>3. /\ Convolved(o, n, V, Bias, c, u, ay, ax, FALSE)
        /\ Out(ay) = p /\ Out(ax) = q /\ ay.window = 1 /\ ax.window = 1
        /\ \A z \in 0 .. c - 1 : B(z, 0, 0) = D(z)
    BY PointwiseApplied
  <1>4. IsSeq(V) /\ Len(V) = n * e
    <2>1. V \in Seq(Nat)
      BY <1>1, KernelsOfSeparable DEF Counted
    <2>2. Len(V) = n * (c * 1 * 1)
      BY <1>1, SlicesIs
    <2> QED  BY <2>1, <2>2, SeqIsSeq
  <1>5. \A z \in 0 .. c - 1 : V[((f * c + z) * 1 + 0) * 1 + 0 + 1] = K(z)
    BY <1>1, KernelsOfSeparable
  <1>6. BiasTerm(f) = Times(Bias[f + 1], One)
    <2>1. layer.class \notin Poolings
      BY Classes
    <2>2. Trained.bias = layer.bias
      BY <1>1, ExportedIs
    <2> QED  BY <1>1, <1>2, <2>1, <2>2, BiasIs
  <1> HIDE DEF c, p, q, o, u, ay, ax, n, V
  <1>7. ASSUME NEW z \in 0 .. c - 1
        PROVE  Q[(z * 1 + 0) * 1 + 0 + 1] = K(z)
    <2>1. e = c /\ e \in Positive /\ z \in Nat /\ f \in Nat /\ f \in 0 .. n - 1
      BY <1>2 DEF Positive, n
    <2>2. z + 1 \in 1 .. e
      BY <1>2, <2>1 DEF Positive
    <2>3. (z * 1 + 0) * 1 + 0 + 1 = z + 1
      BY <2>1
    <2>4. ((f * c + z) * 1 + 0) * 1 + 0 + 1 = f * e + (z + 1)
      <3> DEFINE g == f * c
      <3>1. g \in Nat /\ f * e = g
        BY <1>2, <2>1 DEF Positive
      <3> HIDE DEF g
      <3>2. ((g + z) * 1 + 0) * 1 + 0 + 1 = g + (z + 1)
        BY <2>1, <3>1
      <3> QED  BY <3>1, <3>2 DEF g
    <2> HIDE DEF e
    <2>5. Q[z + 1] = V[f * e + (z + 1)]
      BY <1>2, <1>4, <2>1, <2>2, PartAt
    <2> QED  BY <1>5, <2>3, <2>4, <2>5
  <1>8. v \in Get(o, f, y, x) <=> Summand(v, Q, Bias[f + 1], c, u, ay, ax, FALSE, y, x)
    <2>1. f \in 0 .. n - 1 /\ y \in 0 .. Out(ay) - 1 /\ x \in 0 .. Out(ax) - 1
      BY <1>3 DEF n, p, q
    <2>2. c * ay.window * ax.window = e
      BY <1>3
    <2> HIDE DEF e
    <2> QED  BY <1>3, <2>1, <2>2 DEF Convolved
  <1> HIDE DEF Q, D, K, B
  <1>9. Summand(v, Q, Bias[f + 1], c, u, ay, ax, FALSE, y, x) <=>
          \/ \E z \in 0 .. c - 1, a \in 0 .. 1 - 1, b \in 0 .. 1 - 1 :
               v \in Times(Q[(z * 1 + a) * 1 + b + 1], B(z, a, b))
          \/ v \in BiasTerm(f)
    BY <1>3, <1>6 DEF Summand, B
  <1>10. (\E z \in 0 .. c - 1, a \in 0 .. 1 - 1, b \in 0 .. 1 - 1 :
            v \in Times(Q[(z * 1 + a) * 1 + b + 1], B(z, a, b)))
           <=> \E z \in 0 .. c - 1 : v \in Times(K(z), D(z))
    <2>1. 0 .. 1 - 1 = {0}
      OBVIOUS
    <2>2. \A z \in 0 .. c - 1 : Times(Q[(z * 1 + 0) * 1 + 0 + 1], B(z, 0, 0)) = Times(K(z), D(z))
      BY <1>3, <1>7
    <2> QED  BY <2>1, <2>2
  <1> QED  BY <1>8, <1>9, <1>10 DEF c, o, K, D

LEMMA KerasSeparableIs ==
  ASSUME layer \in KerasLayers, layer.class = "SeparableConv2D", NEW out, NEW f, NEW v
  PROVE  v \in KerasSeparable(out, f) <=>
           \/ \E z \in 0 .. Input(layer)[3] - 1,
                 a \in 0 .. DH(layer) - 1, b \in 0 .. DW(layer) - 1 :
                v \in Times(At(layer.kernel, <<0, 0, z, f>>),
                            Times(At(layer.depthwise, <<a, b, z, 0>>),
                                  ValueUnder(<<a, b, z, 0>>, out)))
           \/ v \in BiasTerm(f)
  <1> DEFINE c == Input(layer)[3]
             h == DH(layer)
             w == DW(layer)
             t == layer.depthwise
             T(d) == Times(At(layer.kernel, <<0, 0, d[3], f>>), Times(At(t, d), ValueUnder(d, out)))
             P(a, b, z) == <<a, b, z, 0>>
  <1>1. h \in Positive /\ w \in Positive /\ c \in Positive /\ t.shape = <<h, w, c, 1>>
    BY KernelsOfSeparable
  <1>2. DOMAIN t.values = 1 .. Volume(t.shape)
    <2>1. SpatialRank(layer) = 2
      BY SeparableRank
    <2>2. KernelFits(layer, Input(layer)[2 + 1], 2)
      BY <2>1, LayerIs
    <2>3. IsKernel(t, 4)
      BY <2>2, FitsIs
    <2> QED  BY <2>3 DEF IsKernel
  <1>3. v \in KerasSeparable(out, f) <=> (\E d \in Positions(t) : v \in T(d)) \/ v \in BiasTerm(f)
    BY DEF KerasSeparable
  <1> HIDE DEF c, h, w, t
  <1>4. \A d : d \in Positions(t) <=>
          \E a \in 0 .. h - 1, b \in 0 .. w - 1, z \in 0 .. c - 1, k \in 0 .. 1 - 1 :
            d = <<a, b, z, k>>
    <2>1. 1 \in Positive
      BY DEF Positive
    <2>2. AreIndices4(Positions(t), h, w, c, 1)
      BY <1>1, <1>2, <2>1, Positions4
    <2> QED  BY <2>2 DEF AreIndices4
  <1>5. \A d : d \in Positions(t) <=>
          \E a \in 0 .. h - 1, b \in 0 .. w - 1, z \in 0 .. c - 1 : d = P(a, b, z)
    <2>1. 0 .. 1 - 1 = {0}
      OBVIOUS
    <2> QED  BY <1>4, <2>1
  <1>6. \A a, b, z : P(a, b, z)[3] = z
    OBVIOUS
  <1>7. \A a, b, z :
          T(P(a, b, z)) = Times(At(layer.kernel, <<0, 0, z, f>>),
                                Times(At(t, <<a, b, z, 0>>), ValueUnder(<<a, b, z, 0>>, out)))
    BY <1>6
  <1> HIDE DEF T, P
  <1>8. (\E d \in Positions(t) : v \in T(d)) <=>
          \E z \in 0 .. c - 1, a \in 0 .. h - 1, b \in 0 .. w - 1 : v \in T(P(a, b, z))
    <2>1. ASSUME NEW d \in Positions(t), v \in T(d)
          PROVE  \E z \in 0 .. c - 1, a \in 0 .. h - 1, b \in 0 .. w - 1 : v \in T(P(a, b, z))
      <3>1. PICK a \in 0 .. h - 1, b \in 0 .. w - 1, z \in 0 .. c - 1 : d = P(a, b, z)
        BY <1>5
      <3> QED  BY <2>1, <3>1
    <2>2. ASSUME NEW z \in 0 .. c - 1, NEW a \in 0 .. h - 1, NEW b \in 0 .. w - 1,
                 v \in T(P(a, b, z))
          PROVE  \E d \in Positions(t) : v \in T(d)
      <3>1. P(a, b, z) \in Positions(t)
        BY <1>5
      <3> QED  BY <2>2, <3>1
    <2> QED  BY <2>1, <2>2
  <1> DEFINE U(a, b, z) == Times(At(layer.kernel, <<0, 0, z, f>>),
                                 Times(At(t, <<a, b, z, 0>>), ValueUnder(<<a, b, z, 0>>, out)))
  <1>9. \A a, b, z : T(P(a, b, z)) = U(a, b, z)
    BY <1>7
  <1> HIDE DEF U
  <1>10. (\E d \in Positions(t) : v \in T(d)) <=>
           \E z \in 0 .. c - 1, a \in 0 .. h - 1, b \in 0 .. w - 1 : v \in U(a, b, z)
    BY <1>8, <1>9
  <1>11. v \in KerasSeparable(out, f) <=>
           \/ \E z \in 0 .. c - 1, a \in 0 .. h - 1, b \in 0 .. w - 1 : v \in U(a, b, z)
           \/ v \in BiasTerm(f)
    BY <1>3, <1>10
  <1> QED  BY <1>11 DEF U, c, h, w, t

\* SeparableConv2D: a convolution of its own for each channel, then one
\* with a window of one cell over them all.
LEMMA SeparableIsKeras ==
  ASSUME LayerIsMade, layer.class = "SeparableConv2D"
  PROVE  HasKerasValues(Applied(InputTensor))
  <1> DEFINE o == Applied(InputTensor)
             c == Input(layer)[3]
             n == Units(layer)
             h == DH(layer)
             w == DW(layer)
  <1>1. /\ layer \in KerasLayers /\ layer.class # "Dense"
        /\ YAxis.window = h /\ XAxis.window = w
    BY SeparableAxes DEF LayerIsMade
  <1>2. KerasChannels = n
    <2>1. layer.class \notin Poolings
      BY Classes
    <2> QED  BY <2>1 DEF KerasChannels
  <1>3. o.shape = <<KerasChannels, Out(YAxis), Out(XAxis)>>
    <2>1. LET u == ConcatenateTensor3s(Planes)
              ay == Axis(Out(YAxis), 1, 1, 1, "valid")
              ax == Axis(Out(XAxis), 1, 1, 1, "valid") IN
          /\ Convolved(o, n, Trained.weights, Bias, c, u, ay, ax, FALSE)
          /\ Out(ay) = Out(YAxis) /\ Out(ax) = Out(XAxis)
      BY PointwiseApplied
    <2>2. o.shape = <<n, Out(YAxis), Out(XAxis)>>
      BY <2>1 DEF Convolved
    <2> QED  BY <1>2, <2>2
  <1>4. ASSUME NEW f \in 0 .. KerasChannels - 1,
               NEW y \in 0 .. Out(YAxis) - 1, NEW x \in 0 .. Out(XAxis) - 1
        PROVE  Get(o, f, y, x) = KerasValue(y, x, f)
    <2> DEFINE out == OutOf(y, x)
               K(z) == At(layer.kernel, <<0, 0, z, f>>)
               D(z) == Get(Depthwise(z + 1), 0, y, x)
               S(z, a, b) == Times(At(layer.depthwise, <<a, b, z, 0>>),
                                   ValueUnder(<<a, b, z, 0>>, out))
    <2>1. KerasValue(y, x, f) = KerasSeparable(out, f)
      BY DEF KerasValue, OutOf, Convolutions, MaxPoolings, AveragePoolings
    <2>2. f \in 0 .. n - 1
      BY <1>2
    <2>3. ASSUME NEW v
          PROVE  v \in Get(o, f, y, x) <=> v \in KerasSeparable(out, f)
      <3>1. v \in Get(o, f, y, x) <=>
              (\E z \in 0 .. c - 1 : v \in Times(K(z), D(z))) \/ v \in BiasTerm(f)
        BY <2>2, PointwiseIs
      <3>2. v \in KerasSeparable(out, f) <=>
              \/ \E z \in 0 .. c - 1, a \in 0 .. h - 1, b \in 0 .. w - 1 :
                   v \in Times(K(z), S(z, a, b))
              \/ v \in BiasTerm(f)
        BY <1>1, KerasSeparableIs
      <3>3. ASSUME NEW z \in 0 .. c - 1, NEW r
            PROVE  r \in D(z) <=> \E a \in 0 .. h - 1, b \in 0 .. w - 1 : r \in S(z, a, b)
        BY <1>1, DepthwiseIs
      <3> HIDE DEF K, D, S, c, h, w
      <3>4. ASSUME NEW z \in 0 .. c - 1
            PROVE  v \in Times(K(z), D(z)) <=>
                     \E a \in 0 .. h - 1, b \in 0 .. w - 1 : v \in Times(K(z), S(z, a, b))
        <4>1. \A r : r \in D(z) <=> \E a \in 0 .. h - 1, b \in 0 .. w - 1 : r \in S(z, a, b)
          BY <3>3
        <4>2. v \in Times(K(z), D(z)) <=> K(z) # 0 /\ \E r \in D(z) : v = << K(z) >> \o r
          BY DEF Times
        <4>3. ASSUME NEW a, NEW b
              PROVE  v \in Times(K(z), S(z, a, b))
                       <=> K(z) # 0 /\ \E r \in S(z, a, b) : v = << K(z) >> \o r
          BY DEF Times
        <4> DEFINE V(r) == << K(z) >> \o r
        <4>4. (\E r \in D(z) : v = V(r)) <=>
                \E a \in 0 .. h - 1, b \in 0 .. w - 1 : \E r \in S(z, a, b) : v = V(r)
          <5> HIDE DEF V
          <5>1. ASSUME NEW r \in D(z), v = V(r)
                PROVE  \E a \in 0 .. h - 1, b \in 0 .. w - 1 : \E s \in S(z, a, b) : v = V(s)
            <6>1. PICK a \in 0 .. h - 1, b \in 0 .. w - 1 : r \in S(z, a, b)
              BY <4>1
            <6> QED  BY <5>1, <6>1
          <5>2. ASSUME NEW a \in 0 .. h - 1, NEW b \in 0 .. w - 1,
                       NEW r \in S(z, a, b), v = V(r)
                PROVE  \E s \in D(z) : v = V(s)
            BY <4>1, <5>2
          <5> QED  BY <5>1, <5>2
        <4> QED  BY <4>2, <4>3, <4>4
      <3> QED  BY <3>1, <3>2, <3>4
    <2>4. Get(o, f, y, x) = KerasSeparable(out, f)
      BY <2>3
    <2> QED  BY <2>1, <2>4
  <1> HIDE DEF o
  <1> QED  BY <1>1, <1>3, <1>4, ValuesByWindow DEF o

LEMMA WeightInvIsKeras == WeightInv => OutputIsKeras
  <1> SUFFICES ASSUME WeightInv, phase = "applied" PROVE HasKerasValues(output)
    BY DEF OutputIsKeras, HasKerasValues
  <1>1. LayerIsMade /\ output = Applied(InputTensor)
    BY WhatIsTrained DEF WeightInv, LayerIsMade
  <1>2. layer.class \in Convolutions \cup {"SeparableConv2D", "Dense"} \cup Poolings
    BY <1>1, LayerIs DEF LayerIsMade
  <1> QED  BY <1>1, <1>2, ConvolutionIsKeras, SeparableIsKeras, DenseIsKeras, PoolingIsKeras

(***************************************************************************)
(* Every such layer, applied, yields Keras's sums of products: with the    *)
(* weights that belong to the cells of each window, the windows where the  *)
(* backend of the converter has them, and the bias of the channel          *)
(* (OutputIsKeras).                                                        *)
(***************************************************************************)
THEOREM OutputsAreKeras == Spec => []OutputIsKeras
  BY WeightsAreHandedOn, WeightInvIsKeras, PTL
===============================================================================
