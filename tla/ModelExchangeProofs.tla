------------------------- MODULE ModelExchangeProofs -------------------------
(***************************************************************************)
(* What is loaded is what was converted, whatever the models, the files    *)
(* and the interleaving of the two programs.                               *)
(***************************************************************************)
EXTENDS ModelExchange, ArrayProofs

-----------------------------------------------------------------------------
(***************************************************************************)
(* Arrays.  Volume multiplies recursively; for the ranks there are, it is  *)
(* the product of the sizes.                                               *)
(***************************************************************************)
LEMMA VolumeOfBatch ==
  ASSUME NEW a \in Nat, NEW b \in Nat, NEW c \in Nat
  PROVE  Volume(<<1, a, b, c>>) = a * b * c
  <1>1. Volume(<<1, a, b, c>>) = 1 * a * b * c /\ 1 * a = a
    BY Volume4
  <1> QED  BY <1>1

(***************************************************************************)
(* The arrays of both programs hold positive numbers and as many of them   *)
(* as their shapes tell.                                                   *)
(***************************************************************************)
Tensor(c, h, w, v) == [shape |-> <<c, h, w>>, values |-> v]

LEMMA Products ==
  ASSUME NEW a \in Positive, NEW b \in Positive, NEW c \in Positive
  PROVE  /\ a * b \in Positive
         /\ a * b * c \in Positive
         /\ a * b * c = c * a * b
         /\ a * b = b * 1 * a
         /\ 1 * a * b = b * 1 * a
         /\ a = a * 1 * 1
  <1>1. a * b \in Positive
    BY DEF Positive
  <1>2. (a * b) * c \in Positive
    BY <1>1 DEF Positive
  <1>3. (a * b) * c = (c * a) * b
    BY DEF Positive
  <1> QED  BY <1>1, <1>2, <1>3 DEF Positive

LEMMA TensorFits ==
  ASSUME NEW c \in Positive, NEW h \in Positive, NEW w \in Positive,
         NEW v \in Seq(Positive), Len(v) = c * h * w
  PROVE  Tensor(c, h, w, v) \in TestTensors
  <1>1. Volume(<<c, h, w>>) = c * h * w
    BY Volume3 DEF Positive
  <1>2. c * h * w \in Positive
    BY Products
  <1>3. v # << >>
    BY <1>2 DEF Positive
  <1>4. <<c, h, w>> \in Seq(Positive) /\ Len(<<c, h, w>>) = 3
    OBVIOUS
  <1> QED  BY <1>1, <1>3, <1>4 DEF TestTensors, Tensor, IsArray, Positive

LEMMA Reshaped ==
  ASSUME NEW c \in Positive, NEW h \in Positive, NEW w \in Positive, NEW x,
         x.values \in Seq(Positive), Len(x.values) = c * h * w
  PROVE  /\ Reshape(x, <<c, h, w>>) \in TestTensors
         /\ Reshape(x, <<c, h, w>>).shape = <<c, h, w>>
  <1>1. Reshape(x, <<c, h, w>>) = Tensor(c, h, w, x.values)
    BY DEF Reshape, Tensor
  <1>2. Tensor(c, h, w, x.values).shape = <<c, h, w>>
    BY DEF Tensor
  <1> QED  BY <1>1, <1>2, TensorFits

LEMMA CellOfChannel ==
  ASSUME NEW n \in Positive, NEW c \in Positive, NEW p \in 1 .. n * c
  PROVE  ((p - 1) % n) * c + ((p - 1) \div n) + 1 \in 1 .. n * c
  <1> DEFINE q == (p - 1) % n
             r == (p - 1) \div n
  <1>0. n * c \in Nat /\ p \in Nat /\ p >= 1 /\ p <= n * c
    BY DEF Positive
  <1>1. q \in 0 .. n - 1 /\ r \in Int /\ p - 1 = n * r + q
    BY <1>0 DEF Positive
  <1> HIDE DEF q, r
  <1>2. r >= 0
    <2> SUFFICES ASSUME r <= -1 PROVE FALSE
      BY <1>1
    <2>1. n * r <= n * (-1)
      BY <1>1 DEF Positive
    <2> QED  BY <1>0, <1>1, <2>1 DEF Positive
  <1>3. r <= c - 1
    <2> SUFFICES ASSUME r >= c PROVE FALSE
      BY <1>1 DEF Positive
    <2>1. n * r >= n * c
      BY <1>1 DEF Positive
    <2> QED  BY <1>0, <1>1, <2>1 DEF Positive
  <1>4. q * c <= (n - 1) * c /\ (n - 1) * c = n * c - c /\ q * c >= 0 /\ q * c \in Int
    BY <1>1 DEF Positive
  <1>5. q * c + r + 1 \in 1 .. n * c
    BY <1>0, <1>1, <1>2, <1>3, <1>4 DEF Positive
  <1> QED  BY <1>5 DEF q, r

LEMMA ChannelsFirstFits ==
  ASSUME NEW a \in Positive, NEW b \in Positive, NEW c \in Positive,
         NEW v \in Seq(Positive), Len(v) = a * b * c
  PROVE  /\ ChannelsFirst(Tensor(a, b, c, v)) \in TestTensors
         /\ ChannelsFirst(Tensor(a, b, c, v)).shape = <<c, a, b>>
  <1> DEFINE n == a * b
             w == [p \in 1 .. n * c |-> v[((p - 1) % n) * c + ((p - 1) \div n) + 1]]
  <1>1. ChannelsFirst(Tensor(a, b, c, v)) = Tensor(c, a, b, w)
    BY DEF ChannelsFirst, Tensor
  <1>2. n \in Positive /\ n * c \in Positive /\ n * c = c * a * b
    BY Products
  <1> HIDE DEF n
  <1>3. \A p \in 1 .. n * c : v[((p - 1) % n) * c + ((p - 1) \div n) + 1] \in Positive
    <2> TAKE p \in 1 .. n * c
    <2> DEFINE i == ((p - 1) % n) * c + ((p - 1) \div n) + 1
    <2>1. i \in 1 .. n * c
      BY <1>2, CellOfChannel
    <2> HIDE DEF i
    <2>2. v[i] \in Positive
      BY <2>1 DEF n
    <2> QED  BY <2>2 DEF i
  <1>4. w \in Seq(Positive) /\ Len(w) = n * c
    <2>1. w \in [1 .. n * c -> Positive]
      BY <1>3
    <2>2. n * c \in Nat
      BY <1>2 DEF Positive
    <2> HIDE DEF w
    <2> QED  BY <2>1, <2>2
  <1> HIDE DEF w
  <1>5. Tensor(c, a, b, w) \in TestTensors
    BY <1>2, <1>4, TensorFits
  <1>6. Tensor(c, a, b, w).shape = <<c, a, b>>
    BY DEF Tensor
  <1> QED  BY <1>1, <1>5, <1>6

LEMMA NumberedFits ==
  ASSUME NEW s, Volume(s) \in Positive
  PROVE  /\ Numbered(s) = [shape |-> s, values |-> Numbered(s).values]
         /\ Numbered(s).values \in Seq(Positive)
         /\ Len(Numbered(s).values) = Volume(s)
  <1> DEFINE n == Volume(s)
             v == [p \in 1 .. n |-> p]
  <1>1. Numbered(s) = [shape |-> s, values |-> v]
    BY DEF Numbered
  <1> HIDE DEF n
  <1>2. v \in [1 .. n -> Positive] /\ n \in Nat
    BY DEF n, Positive
  <1> HIDE DEF v
  <1>3. v \in Seq(Positive) /\ Len(v) = n
    BY <1>2
  <1> QED  BY <1>1, <1>3 DEF n

LEMMA OutputCases ==
  ASSUME NEW s \in OutputShapes
  PROVE  \/ \E a \in Positive : s = <<a>>
         \/ \E a, b \in Positive : s = <<a, b>>
         \/ \E a, b, c \in Positive : s = <<a, b, c>>
  <1>1. s \in Seq(Positive) /\ Len(s) \in 1 .. 3
    BY DEF OutputShapes, Positive
  <1>2. CASE Len(s) = 1
    <2>1. 1 \in 1 .. Len(s) /\ s = <<s[1]>>
      BY <1>1, <1>2
    <2>2. s[1] \in Positive
      BY <1>1, <2>1
    <2> QED  BY <2>1, <2>2
  <1>3. CASE Len(s) = 2
    <2>1. 1 \in 1 .. Len(s) /\ 2 \in 1 .. Len(s) /\ s = <<s[1], s[2]>>
      BY <1>1, <1>3
    <2>2. s[1] \in Positive /\ s[2] \in Positive
      BY <1>1, <2>1
    <2> QED  BY <2>1, <2>2
  <1>4. CASE Len(s) = 3
    <2>1. s[1] \in Positive /\ s[2] \in Positive /\ s[3] \in Positive
      BY <1>1, <1>4
    <2>2. s = <<s[1], s[2], s[3]>>
      BY <1>1, <1>4
    <2> QED  BY <2>1, <2>2
  <1> QED  BY <1>1, <1>2, <1>3, <1>4

LEMMA WithBatchAxis ==
  ASSUME NEW s \in Seq(Nat)
  PROVE  /\ Len(<<1>> \o s) = Len(s) + 1
         /\ (<<1>> \o s)[1] = 1
         /\ \A i \in 1 .. Len(s) : (<<1>> \o s)[i + 1] = s[i]
         /\ <<1>> \o s \in Seq(Nat)
  <1>1. <<1>> \in Seq(Nat) /\ Len(<<1>>) = 1 /\ <<1>>[1] = 1
    OBVIOUS
  <1> DEFINE o == <<1>>
  <1> HIDE DEF o
  <1>2. /\ Len(o \o s) = Len(s) + 1
        /\ (o \o s)[1] = 1
        /\ \A i \in 1 .. Len(s) : (o \o s)[i + 1] = s[i]
        /\ o \o s \in Seq(Nat)
    BY <1>1 DEF o
  <1> QED  BY <1>2 DEF o

LEMMA BatchOf1 ==
  ASSUME NEW a \in Nat, NEW s, s = <<a>>
  PROVE  <<1>> \o s = <<1, a>>
  <1> DEFINE x == <<1>> \o s
  <1>1. s \in Seq(Nat) /\ Len(s) = 1 /\ s[1] = a
    OBVIOUS
  <1>2. x \in Seq(Nat) /\ Len(x) = 2 /\ x[1] = 1 /\ x[1 + 1] = a
    BY <1>1, WithBatchAxis
  <1> HIDE DEF x
  <1>3. x = <<x[1], x[2]>>
    BY <1>2
  <1> QED  BY <1>2, <1>3 DEF x

LEMMA BatchOf2 ==
  ASSUME NEW a \in Nat, NEW b \in Nat, NEW s, s = <<a, b>>
  PROVE  <<1>> \o s = <<1, a, b>>
  <1> DEFINE x == <<1>> \o s
  <1>1. s \in Seq(Nat) /\ Len(s) = 2 /\ s[1] = a /\ s[2] = b
    OBVIOUS
  <1>2. x \in Seq(Nat) /\ Len(x) = 3 /\ x[1] = 1 /\ x[1 + 1] = a /\ x[2 + 1] = b
    BY <1>1, WithBatchAxis
  <1> HIDE DEF x
  <1>3. x = <<x[1], x[2], x[3]>>
    BY <1>2
  <1> QED  BY <1>2, <1>3 DEF x

LEMMA BatchOf3 ==
  ASSUME NEW a \in Nat, NEW b \in Nat, NEW c \in Nat, NEW s, s = <<a, b, c>>
  PROVE  <<1>> \o s = <<1, a, b, c>>
  <1> DEFINE x == <<1>> \o s
  <1>1. s \in Seq(Nat) /\ Len(s) = 3 /\ s[1] = a /\ s[2] = b /\ s[3] = c
    OBVIOUS
  <1>2. /\ x \in Seq(Nat) /\ Len(x) = 4
        /\ x[1] = 1 /\ x[1 + 1] = a /\ x[2 + 1] = b /\ x[3 + 1] = c
    BY <1>1, WithBatchAxis
  <1> HIDE DEF x
  <1>3. x = <<x[1], x[2], x[3], x[4]>>
    BY <1>2
  <1> QED  BY <1>2, <1>3 DEF x

LEMMA LoaderArrays ==
  ASSUME NEW a, NEW s
  PROVE  /\ Loader!Reshape(a, s) = Reshape(a, s)
         /\ Loader!Numbered(s) = Numbered(s)
         /\ Loader!ChannelsFirst(a) = ChannelsFirst(a)
  BY DEF Loader!Reshape, Reshape, Loader!Numbered, Numbered, Loader!Volume, Volume,
         Loader!ChannelsFirst, ChannelsFirst

LEMMA ConverterArrays ==
  ASSUME NEW a, NEW s
  PROVE  /\ Converter!Reshape(a, s) = Reshape(a, s)
         /\ Converter!Numbered(s) = Numbered(s)
         /\ Converter!ChannelsFirst(a) = ChannelsFirst(a)
         /\ Converter!Volume(s) = Volume(s)
  BY DEF Converter!Reshape, Reshape, Converter!Numbered, Numbered, Converter!Volume, Volume,
         Converter!ChannelsFirst, ChannelsFirst

(***************************************************************************)
(* How an output of Keras lies in a tensor3, and that the converter and    *)
(* the loader agree on its shape, with or without the batch axis.          *)
(***************************************************************************)
TensorShape(s) ==
  CASE Len(s) = 1 -> <<s[1], 1, 1>>
    [] Len(s) = 2 -> <<s[2], 1, s[1]>>
    [] Len(s) = 3 -> <<s[3], s[1], s[2]>>

LEMMA DeliveredOutput ==
  ASSUME NEW s \in OutputShapes
  PROVE  /\ Loader!FdeepOutput(s) \in TestTensors
         /\ Loader!FdeepOutput(s).shape = TensorShape(s)
  <1> DEFINE v == Numbered(s).values
  <1>0. 1 \in Positive
    BY DEF Positive
  <1>1. ASSUME NEW a \in Positive, s = <<a>>
        PROVE  /\ Loader!FdeepOutput(s) \in TestTensors
               /\ Loader!FdeepOutput(s).shape = TensorShape(s)
    <2>1. Volume(s) = a
      BY <1>1, Volume1 DEF Positive
    <2>2. v \in Seq(Positive) /\ Len(v) = a
      BY <2>1, NumberedFits
    <2>3. Len(s) = 1 /\ s[1] = a
      BY <1>1
    <2>4. Loader!FdeepOutput(s) = Tensor(a, 1, 1, v) /\ TensorShape(s) = <<a, 1, 1>>
      BY <2>3, LoaderArrays DEF Loader!FdeepOutput, Reshape, Tensor, TensorShape
    <2> HIDE DEF v
    <2>5. a = a * 1 * 1
      BY DEF Positive
    <2>6. Tensor(a, 1, 1, v) \in TestTensors
      BY <1>0, <2>2, <2>5, TensorFits
    <2>7. Tensor(a, 1, 1, v).shape = <<a, 1, 1>>
      BY DEF Tensor
    <2> QED  BY <2>4, <2>6, <2>7
  <1>2. ASSUME NEW a \in Positive, NEW b \in Positive, s = <<a, b>>
        PROVE  /\ Loader!FdeepOutput(s) \in TestTensors
               /\ Loader!FdeepOutput(s).shape = TensorShape(s)
    <2>1. Volume(s) = a * b /\ a * b \in Positive
      BY <1>2, Volume2, Products DEF Positive
    <2>2. v \in Seq(Positive) /\ Len(v) = a * b
      BY <2>1, NumberedFits
    <2>3. Len(s) = 2 /\ s[1] = a /\ s[2] = b
      BY <1>2
    <2>4. Loader!FdeepOutput(s) = ChannelsFirst(Reshape(Numbered(s), <<1, a, b>>))
      <3>1. Loader!FdeepOutput(s)
              = Loader!ChannelsFirst(Loader!Reshape(Loader!Numbered(s), <<1>> \o s))
        BY <2>3 DEF Loader!FdeepOutput
      <3>2. <<1>> \o s = <<1, a, b>>
        BY <1>2, BatchOf2 DEF Positive
      <3> QED  BY <3>1, <3>2, LoaderArrays
    <2>5. Reshape(Numbered(s), <<1, a, b>>) = Tensor(1, a, b, v)
      BY DEF Reshape, Tensor
    <2>6. TensorShape(s) = <<b, 1, a>>
      BY <2>3 DEF TensorShape
    <2> HIDE DEF v
    <2>7. a * b = 1 * a * b
      BY DEF Positive
    <2> QED  BY <1>0, <2>2, <2>4, <2>5, <2>6, <2>7, ChannelsFirstFits
  <1>3. ASSUME NEW a \in Positive, NEW b \in Positive, NEW c \in Positive, s = <<a, b, c>>
        PROVE  /\ Loader!FdeepOutput(s) \in TestTensors
               /\ Loader!FdeepOutput(s).shape = TensorShape(s)
    <2>1. Volume(s) = a * b * c /\ a * b * c \in Positive
      BY <1>3, Volume3, Products DEF Positive
    <2>2. /\ v \in Seq(Positive) /\ Len(v) = a * b * c
          /\ Numbered(s) = [shape |-> s, values |-> v]
      BY <2>1, NumberedFits
    <2>3. Len(s) = 3 /\ s[1] = a /\ s[2] = b /\ s[3] = c
      BY <1>3
    <2>4. Loader!FdeepOutput(s) = ChannelsFirst(Numbered(s))
      BY <2>3, LoaderArrays DEF Loader!FdeepOutput
    <2>5. Numbered(s) = Tensor(a, b, c, v)
      BY <1>3, <2>2 DEF Tensor
    <2>6. TensorShape(s) = <<c, a, b>>
      BY <2>3 DEF TensorShape
    <2> HIDE DEF v
    <2> QED  BY <2>2, <2>4, <2>5, <2>6, ChannelsFirstFits
  <1> QED  BY <1>1, <1>2, <1>3, OutputCases

(***************************************************************************)
(* arr_as_arr3, by the rank of what Keras put out.                         *)
(***************************************************************************)
LEMMA ShownVector ==
  ASSUME NEW a \in Positive, NEW x, x.shape = <<a>> \/ x.shape = <<1, a>>,
         x.values \in Seq(Positive), Len(x.values) = a
  PROVE  /\ Converter!ArrAsArr3(x) \in TestTensors
         /\ Converter!ArrAsArr3(x).shape = <<a, 1, 1>>
  <1>0. 1 \in Positive /\ a = a * 1 * 1
    BY DEF Positive
  <1>1. CASE x.shape = <<a>>
    <2>1. Len(x.shape) = 1 /\ x.shape[1] = a
      BY <1>1
    <2>2. Converter!ArrAsArr3(x) = Reshape(x, <<a, 1, 1>>)
      BY <2>1, ConverterArrays DEF Converter!ArrAsArr3
    <2> QED  BY <1>0, <2>2, Reshaped
  <1>2. CASE x.shape = <<1, a>>
    <2>1. Len(x.shape) = 2 /\ x.shape[1] = 1 /\ x.shape[2] = a
      BY <1>2
    <2>2. Converter!ArrAsArr3(x) = Reshape(x, <<a, 1, 1>>)
      BY <2>1, ConverterArrays DEF Converter!ArrAsArr3
    <2> QED  BY <1>0, <2>2, Reshaped
  <1> QED  BY <1>1, <1>2

LEMMA ShownMatrix ==
  ASSUME NEW a \in Positive, NEW b \in Positive,
         NEW x, x.shape = <<a, b>> \/ x.shape = <<1, a, b>>,
         x = [shape |-> x.shape, values |-> x.values],
         x.values \in Seq(Positive), Len(x.values) = a * b
  PROVE  /\ Converter!ArrAsArr3(x) \in TestTensors
         /\ Converter!ArrAsArr3(x).shape = <<b, 1, a>>
  <1>0. 1 \in Positive /\ a * b = 1 * a * b /\ a * b = b * 1 * a
    BY Products DEF Positive
  <1>1. CASE x.shape = <<a, b>>
    <2>1. Len(x.shape) = 2 /\ x.shape[1] = a /\ x.shape[2] = b
      BY <1>1
    <2>2. Converter!ArrAsArr3(x) = Reshape(x, <<b, 1, a>>)
      BY <2>1, ConverterArrays DEF Converter!ArrAsArr3
    <2> QED  BY <1>0, <2>2, Reshaped
  <1>2. CASE x.shape = <<1, a, b>>
    <2>1. Len(x.shape) = 3
      BY <1>2
    <2>2. Converter!ArrAsArr3(x) = ChannelsFirst(x)
      BY <2>1, ConverterArrays DEF Converter!ArrAsArr3
    <2>3. x = Tensor(1, a, b, x.values)
      BY <1>2 DEF Tensor
    <2>4. /\ ChannelsFirst(Tensor(1, a, b, x.values)) \in TestTensors
          /\ ChannelsFirst(Tensor(1, a, b, x.values)).shape = <<b, 1, a>>
      BY <1>0, ChannelsFirstFits
    <2> QED  BY <2>2, <2>3, <2>4
  <1> QED  BY <1>1, <1>2

LEMMA ShownVolume ==
  ASSUME NEW a \in Positive, NEW b \in Positive, NEW c \in Positive,
         NEW x, x.shape = <<a, b, c>> \/ x.shape = <<1, a, b, c>>,
         x = [shape |-> x.shape, values |-> x.values],
         x.values \in Seq(Positive), Len(x.values) = a * b * c
  PROVE  /\ Converter!ArrAsArr3(x) \in TestTensors
         /\ Converter!ArrAsArr3(x).shape = <<c, a, b>>
  <1>1. /\ ChannelsFirst(Tensor(a, b, c, x.values)) \in TestTensors
        /\ ChannelsFirst(Tensor(a, b, c, x.values)).shape = <<c, a, b>>
    BY ChannelsFirstFits
  <1>2. CASE x.shape = <<a, b, c>>
    <2>1. Len(x.shape) = 3
      BY <1>2
    <2>2. Converter!ArrAsArr3(x) = ChannelsFirst(x)
      BY <2>1, ConverterArrays DEF Converter!ArrAsArr3
    <2>3. x = Tensor(a, b, c, x.values)
      BY <1>2 DEF Tensor
    <2> QED  BY <1>1, <2>2, <2>3
  <1>3. CASE x.shape = <<1, a, b, c>>
    <2>1. Len(x.shape) = 4 /\ Tail(x.shape) = <<a, b, c>>
      BY <1>3
    <2>2. Converter!ArrAsArr3(x)
            = Converter!ChannelsFirst(Converter!Reshape(x, Tail(x.shape)))
      BY <2>1 DEF Converter!ArrAsArr3
    <2>3. Reshape(x, <<a, b, c>>) = Tensor(a, b, c, x.values)
      BY DEF Reshape, Tensor
    <2> QED  BY <1>1, <2>1, <2>2, <2>3, ConverterArrays
  <1> QED  BY <1>2, <1>3

LEMMA ShownOutput ==
  ASSUME NEW s \in OutputShapes, NEW x, x = Numbered(s) \/ x = Numbered(<< 1 >> \o s)
  PROVE  /\ Converter!ArrAsArr3(x) \in TestTensors
         /\ Converter!ArrAsArr3(x).shape = TensorShape(s)
  <1> DEFINE y == <<1>> \o s
             Fits == /\ Converter!ArrAsArr3(x) \in TestTensors
                     /\ Converter!ArrAsArr3(x).shape = TensorShape(s)
  <1>0. x = Numbered(s) \/ x = Numbered(y)
    OBVIOUS
  <1>1. ASSUME NEW a \in Positive, s = <<a>>
        PROVE  Fits
    <2>1. y = <<1, a>>
      BY <1>1, BatchOf1 DEF Positive
    <2> HIDE DEF y
    <2>2. Volume(s) = a
      BY <1>1, Volume1 DEF Positive
    <2>3. Volume(y) = a
      BY <2>1, Volume2 DEF Positive
    <2>4. /\ x.values \in Seq(Positive) /\ Len(x.values) = a
          /\ x.shape = s \/ x.shape = y
      BY <1>0, <2>2, <2>3, NumberedFits
    <2>5. Len(s) = 1 /\ s[1] = a
      BY <1>1
    <2>6. TensorShape(s) = <<a, 1, 1>>
      BY <2>5 DEF TensorShape
    <2>7. x.shape = <<a>> \/ x.shape = <<1, a>>
      BY <1>1, <2>1, <2>4
    <2> QED  BY <2>4, <2>6, <2>7, ShownVector
  <1>2. ASSUME NEW a \in Positive, NEW b \in Positive, s = <<a, b>>
        PROVE  Fits
    <2>1. y = <<1, a, b>>
      BY <1>2, BatchOf2 DEF Positive
    <2> HIDE DEF y
    <2>2. Volume(s) = a * b /\ a * b \in Positive
      BY <1>2, Volume2, Products DEF Positive
    <2>3. Volume(y) = a * b
      <3>1. Volume(<<1, a, b>>) = 1 * a * b
        BY Volume3 DEF Positive
      <3>2. 1 * a * b = a * b
        BY DEF Positive
      <3> QED  BY <2>1, <3>1, <3>2
    <2>4. /\ x.values \in Seq(Positive) /\ Len(x.values) = a * b
          /\ x.shape = s \/ x.shape = y
          /\ x = [shape |-> x.shape, values |-> x.values]
      BY <1>0, <2>2, <2>3, NumberedFits
    <2>5. Len(s) = 2 /\ s[1] = a /\ s[2] = b
      BY <1>2
    <2>6. TensorShape(s) = <<b, 1, a>>
      BY <2>5 DEF TensorShape
    <2>7. x.shape = <<a, b>> \/ x.shape = <<1, a, b>>
      BY <1>2, <2>1, <2>4
    <2> QED  BY <2>4, <2>6, <2>7, ShownMatrix
  <1>3. ASSUME NEW a \in Positive, NEW b \in Positive, NEW c \in Positive, s = <<a, b, c>>
        PROVE  Fits
    <2>1. y = <<1, a, b, c>>
      BY <1>3, BatchOf3 DEF Positive
    <2> HIDE DEF y
    <2>2. Volume(s) = a * b * c /\ a * b * c \in Positive
      BY <1>3, Volume3, Products DEF Positive
    <2>3. Volume(y) = a * b * c
      BY <2>1, VolumeOfBatch DEF Positive
    <2>4. /\ x.values \in Seq(Positive) /\ Len(x.values) = a * b * c
          /\ x.shape = s \/ x.shape = y
          /\ x = [shape |-> x.shape, values |-> x.values]
      BY <1>0, <2>2, <2>3, NumberedFits
    <2>5. Len(s) = 3 /\ s[1] = a /\ s[2] = b /\ s[3] = c
      BY <1>3
    <2>6. TensorShape(s) = <<c, a, b>>
      BY <2>5 DEF TensorShape
    <2>7. x.shape = <<a, b, c>> \/ x.shape = <<1, a, b, c>>
      BY <1>3, <2>1, <2>4
    <2> QED  BY <2>4, <2>6, <2>7, ShownVolume
  <1> QED  BY <1>1, <1>2, <1>3, OutputCases

(***************************************************************************)
(* The converter's test is one the loader can read, and announces the      *)
(* shapes the model puts out.                                              *)
(***************************************************************************)
LEMMA TestOfModel ==
  ASSUME NEW k, AreOutputs(k.outputs)
  PROVE  /\ IsTest(Converter!GenTestData(k))
         /\ Converter!GetShapes(Converter!GenTestData(k))
              = [o \in 1 .. Len(k.outputs) |-> TensorShape(k.outputs[o])]
  <1> DEFINE n == Len(k.outputs)
             g == Converter!GenTestData(k)
             p == Converter!PredictedOutputs(k)
  <1>1. n \in Nat /\ n > 0 /\ \A o \in 1 .. n : k.outputs[o] \in OutputShapes
    BY DEF AreOutputs
  <1>2. \A o \in 1 .. n : \/ p[o] = Numbered(k.outputs[o])
                          \/ p[o] = Numbered(<<1>> \o k.outputs[o])
    <2>1. CASE n = 1
      <3>1. p = <<Converter!Numbered(k.outputs[1])>>
        BY <2>1 DEF Converter!PredictedOutputs
      <3>2. p[1] = Numbered(k.outputs[1])
        BY <3>1, ConverterArrays
      <3> QED  BY <2>1, <3>2
    <2>2. CASE n # 1
      <3>1. p = [o \in 1 .. n |-> Converter!Numbered(<<1>> \o k.outputs[o])]
        BY <2>2 DEF Converter!PredictedOutputs
      <3> HIDE DEF p, n
      <3>2. \A o \in 1 .. n : p[o] = Converter!Numbered(<<1>> \o k.outputs[o])
        BY <3>1
      <3> QED  BY <3>2, ConverterArrays
    <2> QED  BY <2>1, <2>2
  <1>3. g = [o \in 1 .. n |-> Converter!ArrAsArr3(p[o])]
    BY DEF Converter!GenTestData
  <1> HIDE DEF n, g, p
  <1>4. \A o \in 1 .. n : /\ Converter!ArrAsArr3(p[o]) \in TestTensors
                          /\ Converter!ArrAsArr3(p[o]).shape = TensorShape(k.outputs[o])
    <2> TAKE o \in 1 .. n
    <2> QED  BY <1>1, <1>2, ShownOutput
  <1>5. g \in [1 .. n -> TestTensors]
    BY <1>3, <1>4
  <1>6. g \in Seq(TestTensors) /\ Len(g) = n /\ DOMAIN g = 1 .. n
    BY <1>1, <1>5
  <1>7. IsTest(g)
    BY <1>1, <1>6 DEF IsTest
  <1>8. Converter!GetShapes(g) = [o \in 1 .. n |-> g[o].shape]
    BY <1>6 DEF Converter!GetShapes
  <1>9. \A o \in 1 .. n : g[o].shape = TensorShape(k.outputs[o])
    BY <1>3, <1>4
  <1> QED  BY <1>7, <1>8, <1>9 DEF g, n

(***************************************************************************)
(* What a model predicts: tensors of Keras's shapes, and zeros if one of   *)
(* its layers is wrong.                                                    *)
(***************************************************************************)
LEMMA WrongTensor ==
  ASSUME NEW t \in TestTensors
  PROVE  /\ Loader!Wrong(t).shape = t.shape
         /\ \A p \in 1 .. Len(t.values) : Loader!Wrong(t).values[p] = 0
  <1>1. /\ t = [shape |-> t.shape, values |-> t.values]
        /\ DOMAIN t.values = 1 .. Len(t.values)
    BY DEF TestTensors
  <1>2. /\ Loader!Wrong(t).shape = t.shape
        /\ Loader!Wrong(t).values = [p \in DOMAIN t.values |-> 0]
    BY <1>1 DEF Loader!Wrong
  <1> QED  BY <1>1, <1>2

LEMMA PredictedTensors ==
  ASSUME NEW m, AreOutputs(m.architecture.outputs)
  PROVE  LET n == Len(m.architecture.outputs)
             t(o) == Loader!FdeepOutput(m.architecture.outputs[o])
         IN  /\ Len(Loader!Predicted(m)) = n
             /\ n \in Nat \ {0}
             /\ DOMAIN Loader!Predicted(m) = 1 .. n
             /\ \A o \in 1 .. n :
                  /\ t(o) \in TestTensors
                  /\ Loader!Predicted(m)[o]
                       = IF Loader!ModelRight(m) THEN t(o) ELSE Loader!Wrong(t(o))
                  /\ Loader!Predicted(m)[o].shape = TensorShape(m.architecture.outputs[o])
  <1> DEFINE outputs == m.architecture.outputs
             n == Len(outputs)
             t(o) == Loader!FdeepOutput(outputs[o])
             v(o) == IF Loader!ModelRight(m) THEN t(o) ELSE Loader!Wrong(t(o))
  <1>1. n \in Nat \ {0} /\ \A o \in 1 .. n : outputs[o] \in OutputShapes
    BY DEF AreOutputs
  <1>2. Loader!Predicted(m) = [o \in 1 .. n |-> v(o)]
    BY DEF Loader!Predicted
  <1>3. \A o \in 1 .. n : t(o) \in TestTensors /\ v(o).shape = TensorShape(outputs[o])
    <2> TAKE o \in 1 .. n
    <2>1. t(o) \in TestTensors /\ t(o).shape = TensorShape(outputs[o])
      BY <1>1, DeliveredOutput
    <2> QED  BY <2>1, WrongTensor
  <1> HIDE DEF v, n, outputs
  <1>4. /\ DOMAIN Loader!Predicted(m) = 1 .. n
        /\ \A o \in 1 .. n : Loader!Predicted(m)[o] = v(o)
    BY <1>2
  <1>5. Len(Loader!Predicted(m)) = n
    <2>1. [o \in 1 .. n |-> v(o)] \in [1 .. n -> {v(o) : o \in 1 .. n}]
      OBVIOUS
    <2>2. [o \in 1 .. n |-> v(o)] \in Seq({v(o) : o \in 1 .. n})
      BY <1>1, <2>1
    <2> QED  BY <1>1, <1>2, <2>1, <2>2
  <1> QED  BY <1>1, <1>3, <1>4, <1>5 DEF v, n, outputs

LEMMA ConvertedAnswers ==
  ASSUME NEW k, AreOutputs(k.outputs), NEW m,
         m.architecture = Converted(k),
         m.shapes = Converter!GetShapes(Converter!GenTestData(k))
  PROVE  Loader!Answers(m)
  <1> DEFINE n == Len(k.outputs)
             p == Loader!Predicted(m)
  <1>1. m.architecture.outputs = k.outputs
    BY DEF Converted, Converter!Architecture
  <1>2. /\ DOMAIN p = 1 .. n
        /\ \A o \in 1 .. n : p[o].shape = TensorShape(k.outputs[o])
    BY <1>1, PredictedTensors
  <1>3. m.shapes = [o \in 1 .. n |-> TensorShape(k.outputs[o])]
    BY TestOfModel
  <1> HIDE DEF p, n
  <1>4. [o \in DOMAIN p |-> p[o].shape] = [o \in 1 .. n |-> TensorShape(k.outputs[o])]
    BY <1>2
  <1> QED  BY <1>3, <1>4 DEF Loader!Answers, p

\* Who passes a test computes what Keras computed.
LEMMA PassingIsRight ==
  ASSUME NEW m, AreOutputs(m.architecture.outputs), NEW test, IsTest(test),
         Loader!OutputsAgree(Loader!Predicted(m), test)
  PROVE  Loader!ModelRight(m)
  <1> SUFFICES ASSUME ~Loader!ModelRight(m)
               PROVE  FALSE
    OBVIOUS
  <1> DEFINE t == Loader!FdeepOutput(m.architecture.outputs[1])
             n == Len(m.architecture.outputs)
  <1>1. /\ Len(Loader!Predicted(m)) = n /\ n \in Nat \ {0}
        /\ t \in TestTensors /\ Loader!Predicted(m)[1] = Loader!Wrong(t)
    <2>1. n \in Nat \ {0} /\ Len(Loader!Predicted(m)) = n
      BY PredictedTensors
    <2>2. 1 \in 1 .. n
      BY <2>1
    <2> QED  BY <2>1, <2>2, PredictedTensors
  <1>2. test \in Seq(TestTensors) /\ 1 \in 1 .. Len(test)
    BY DEF IsTest
  <1>3. /\ Loader!Wrong(t).shape = test[1].shape
        /\ \A p \in 1 .. Len(test[1].values) : Loader!Wrong(t).values[p] = test[1].values[p]
    BY <1>1, <1>2 DEF Loader!OutputsAgree
  <1> HIDE DEF t
  <1>4. /\ test[1] \in TestTensors
        /\ test[1].values \in Seq(Nat \ {0}) /\ 1 \in 1 .. Len(test[1].values)
        /\ IsArray(test[1])
    BY <1>2 DEF TestTensors
  <1>5. t.shape = test[1].shape /\ Len(t.values) = Len(test[1].values)
    BY <1>1, <1>3, <1>4, WrongTensor DEF TestTensors, IsArray
  <1>6. Loader!Wrong(t).values[1] = 0
    BY <1>1, <1>4, <1>5, WrongTensor
  <1> QED  BY <1>3, <1>4, <1>6

\* Who computes it passes.
LEMMA RightPasses ==
  ASSUME NEW m, AreOutputs(m.architecture.outputs), Loader!ModelRight(m)
  PROVE  Loader!OutputsAgree(Loader!Predicted(m), OwnTest(m))
  <1> DEFINE n == Len(m.architecture.outputs)
             t(o) == Loader!FdeepOutput(m.architecture.outputs[o])
  <1>1. Loader!Predicted(m) = [o \in 1 .. n |-> t(o)]
    BY DEF Loader!Predicted
  <1>2. DOMAIN m.architecture.outputs = 1 .. n
    BY DEF AreOutputs
  <1>3. OwnTest(m) = [o \in 1 .. n |-> t(o)]
    BY <1>2 DEF OwnTest
  <1> QED  BY <1>1, <1>3 DEF Loader!OutputsAgree

-----------------------------------------------------------------------------
(***************************************************************************)
(* Both programs walk the layers of a model, those of nested models        *)
(* included.  Given the layers done, a model is settled if its layers are; *)
(* this is the greatest such set of layers.                                *)
(***************************************************************************)
IsNet(layer, l) == layer[l].class \in Converter!NestedClasses
Children(layer, l) == {layer[l].layers[i] : i \in 1 .. Len(layer[l].layers)}
Settles(layer, done, D) ==
  \A l \in D : IF IsNet(layer, l) THEN Children(layer, l) \subseteq D ELSE l \in done
Settled(layer, done) == UNION {D \in SUBSET DOMAIN layer : Settles(layer, done, D)}

LEMMA SettledSettles ==
  ASSUME NEW layer, NEW done
  PROVE  Settled(layer, done) \subseteq DOMAIN layer /\ Settles(layer, done, Settled(layer, done))
  <1>1. Settled(layer, done) \subseteq DOMAIN layer
    BY DEF Settled
  <1>2. ASSUME NEW l \in Settled(layer, done)
        PROVE  IF IsNet(layer, l) THEN Children(layer, l) \subseteq Settled(layer, done)
               ELSE l \in done
    <2>1. PICK D \in SUBSET DOMAIN layer : Settles(layer, done, D) /\ l \in D
      BY <1>2 DEF Settled
    <2>2. D \subseteq Settled(layer, done)
      BY <2>1 DEF Settled
    <2> QED  BY <2>1, <2>2 DEF Settles
  <1> QED  BY <1>1, <1>2 DEF Settles

LEMMA LayerSettled ==
  ASSUME NEW layer, NEW done, NEW l \in DOMAIN layer, ~IsNet(layer, l), l \in done
  PROVE  l \in Settled(layer, done)
  <1>1. Settles(layer, done, {l})
    BY DEF Settles
  <1> QED  BY <1>1 DEF Settled

LEMMA NetSettled ==
  ASSUME NEW layer, NEW done, NEW l \in DOMAIN layer, IsNet(layer, l),
         Children(layer, l) \subseteq Settled(layer, done)
  PROVE  l \in Settled(layer, done)
  <1> DEFINE D == Settled(layer, done) \cup {l}
  <1>1. D \in SUBSET DOMAIN layer
    BY SettledSettles
  <1>2. Settles(layer, done, D)
    BY SettledSettles DEF Settles
  <1> QED  BY <1>1, <1>2 DEF Settled

LEMMA SettledGrows ==
  ASSUME NEW layer, NEW done, NEW more, done \subseteq more
  PROVE  Settled(layer, done) \subseteq Settled(layer, more)
  <1>1. Settles(layer, more, Settled(layer, done))
    BY SettledSettles DEF Settles
  <1> QED  BY <1>1, SettledSettles DEF Settled

\* Once the outermost model is settled, every layer is done.
LEMMA AllSettled ==
  ASSUME NEW k, IsKerasModel(k), NEW layer, NEW done, DOMAIN layer = DOMAIN k.layer,
         \A l \in DOMAIN layer : /\ IsNet(layer, l) <=> ~Plain(k, l)
                                 /\ layer[l].layers = k.layer[l].layers,
         k.top \in Settled(layer, done)
  PROVE  \A l \in DOMAIN layer : Plain(k, l) => l \in done
  <1> DEFINE S == Settled(layer, done)
  <1>1. S \subseteq DOMAIN layer /\ Settles(layer, done, S)
    BY SettledSettles
  <1> HIDE DEF S
  <1>2. Closed(k, S)
    BY <1>1 DEF Closed, Settles, Children, LayersOf
  <1>3. S = DOMAIN k.layer
    BY <1>1, <1>2 DEF IsKerasModel, S
  <1> QED  BY <1>1, <1>3 DEF Settles

(***************************************************************************)
(* What is left of a list of layers.                                       *)
(***************************************************************************)
RestOf(rest, s, S) ==
  /\ rest \in Seq(S)
  /\ s \in Seq(S)
  /\ Len(rest) <= Len(s)
  /\ \A j \in 1 .. Len(rest) : rest[j] = s[Len(s) - Len(rest) + j]

LEMMA RestBegins ==
  ASSUME NEW S, NEW s \in Seq(S)
  PROVE  RestOf(s, s, S)
  BY DEF RestOf

LEMMA RestAdvances ==
  ASSUME NEW S, NEW s, NEW rest, RestOf(rest, s, S), rest # << >>
  PROVE  /\ RestOf(Tail(rest), s, S)
         /\ Len(Tail(rest)) = Len(rest) - 1
         /\ rest[1] \in S
         /\ Len(s) - Len(rest) + 1 \in 1 .. Len(s)
         /\ rest[1] = s[Len(s) - Len(rest) + 1]
  <1> DEFINE t == Tail(rest)
             n == Len(rest)
             N == Len(s)
  <1>1. /\ n \in Nat \ {0} /\ N \in Nat /\ n <= N /\ rest \in Seq(S) /\ s \in Seq(S)
        /\ \A j \in 1 .. n : rest[j] = s[N - n + j]
    BY DEF RestOf
  <1>2. t \in Seq(S) /\ Len(t) = n - 1 /\ \A j \in 1 .. n - 1 : t[j] = rest[j + 1]
    BY <1>1
  <1> HIDE DEF t, n, N
  <1>3. \A j \in 1 .. n - 1 : t[j] = s[N - Len(t) + j]
    <2> TAKE j \in 1 .. n - 1
    <2>1. j + 1 \in 1 .. n /\ N - Len(t) + j = N - n + (j + 1)
      BY <1>1, <1>2
    <2> QED  BY <1>1, <1>2, <2>1
  <1>4. RestOf(t, s, S)
    BY <1>1, <1>2, <1>3 DEF RestOf, N
  <1>5. 1 \in 1 .. n /\ N - n + 1 \in 1 .. N
    BY <1>1
  <1>6. rest[1] \in S
    BY <1>1, <1>5 DEF n
  <1> QED  BY <1>1, <1>2, <1>4, <1>5, <1>6 DEF t, n, N

\* The first of the rest is the element at place k.
StartsAt(rest, s, S, k) == k \in 1 .. Len(s) /\ rest[1] \in S /\ rest[1] = s[k]
LEMMA RestStarts ==
  ASSUME NEW S, NEW s, NEW rest, RestOf(rest, s, S), rest # << >>
  PROVE  StartsAt(rest, s, S, Len(s) - Len(rest) + 1)
  <1> DEFINE n == Len(rest)
             N == Len(s)
  <1>1. /\ n \in Nat \ {0} /\ N \in Nat /\ n <= N /\ rest \in Seq(S)
        /\ \A j \in 1 .. n : rest[j] = s[N - n + j]
    BY DEF RestOf
  <1>2. 1 \in 1 .. n /\ rest[1] \in S
    BY <1>1
  <1> HIDE DEF n, N
  <1>3. N - n + 1 \in 1 .. N /\ rest[1] = s[N - n + 1]
    BY <1>1, <1>2
  <1> QED  BY <1>2, <1>3 DEF StartsAt, n, N

-----------------------------------------------------------------------------
(***************************************************************************)
(* What is known of the models.                                            *)
(***************************************************************************)
ShapesOf(k) == Converter!GetShapes(Converter!GenTestData(k))

LEMMA ConvertedLayers ==
  ASSUME NEW k, \A l \in DOMAIN k.layer : IsLayer(k.layer, l)
  PROVE  LET layer == Converted(k).layer
         IN  /\ Converted(k).top = k.top
             /\ Converted(k).outputs = k.outputs
             /\ DOMAIN layer = DOMAIN k.layer
             /\ \A l \in DOMAIN k.layer :
                  /\ layer[l].name = k.layer[l].name
                  /\ layer[l].activation = k.layer[l].activation
                  /\ layer[l].alpha = k.layer[l].alpha
                  /\ layer[l].layers = k.layer[l].layers
                  /\ layer[l].class = Converter!ClassIn(k, {}, l)
                  /\ IsNet(layer, l) <=> ~Plain(k, l)
                  /\ Plain(k, l) => layer[l].class = k.layer[l].class
  <1> DEFINE layer == Converted(k).layer
  <1>1. /\ Converted(k).top = k.top /\ Converted(k).outputs = k.outputs
        /\ layer = [l \in DOMAIN k.layer |->
                      [k.layer[l] EXCEPT !.class = Converter!ClassIn(k, {}, l)]]
    BY DEF Converted, Converter!Architecture
  <1> HIDE DEF layer
  <1>2. ASSUME NEW l \in DOMAIN k.layer
        PROVE  /\ layer[l].name = k.layer[l].name
               /\ layer[l].activation = k.layer[l].activation
               /\ layer[l].alpha = k.layer[l].alpha
               /\ layer[l].layers = k.layer[l].layers
               /\ layer[l].class = Converter!ClassIn(k, {}, l)
    <2>1. layer[l] = [k.layer[l] EXCEPT !.class = Converter!ClassIn(k, {}, l)]
      BY <1>1
    <2> QED  BY <2>1 DEF IsLayer
  <1>3. ASSUME NEW l \in DOMAIN k.layer
        PROVE  /\ IsNet(layer, l) <=> ~Plain(k, l)
               /\ Plain(k, l) => layer[l].class = k.layer[l].class
    BY <1>2 DEF Converter!ClassIn, IsNet, Plain, Converter!NestedClasses
  <1> QED  BY <1>1, <1>2, <1>3 DEF layer

RankOf(k) == CHOOSE rank \in [DOMAIN k.layer -> 1 .. MaxNesting] : IsRank(k, rank)

LEMMA Ranked ==
  ASSUME NEW k, IsKerasModel(k)
  PROVE  RankOf(k) \in [DOMAIN k.layer -> 1 .. MaxNesting] /\ IsRank(k, RankOf(k))
  BY DEF RankOf, IsKerasModel

(***************************************************************************)
(* The invariant of the converter.  While the models are normalised, those *)
(* still Sequential are reached from the layers to be visited.             *)
(***************************************************************************)
InRange(s) == {s[i] : i \in 1 .. Len(s)}
Normalising ==
  /\ visits \in Seq(DOMAIN keras.layer)
  /\ \A l \in sequential : ~Plain(keras, l)
  /\ \A D \in SUBSET DOMAIN keras.layer :
       InRange(visits) \subseteq D /\ Closed(keras, D) => sequential \subseteq D

(***************************************************************************)
(* Each running call of get_all_weights has got to a place; the places of  *)
(* all calls are a path.  A name in its result belongs to a layer with     *)
(* weights, met on a path that left this one at an earlier place, and the  *)
(* layers before its place are settled.                                    *)
(***************************************************************************)
CallId(d) == IF d = 1 THEN keras.top ELSE calls[d - 1].rest[1]
Position(d) == Len(keras.layer[CallId(d)].layers) - Len(calls[d].rest) + 1
Here(d) == <<CallId(d), Position(d)>>
CallOK(d) ==
  /\ CallId(d) \in DOMAIN keras.layer
  /\ ~Plain(keras, CallId(d))
  /\ RestOf(calls[d].rest, keras.layer[CallId(d)].layers, DOMAIN keras.layer)
  /\ d < Len(calls) => calls[d].rest # << >>
  /\ RankOf(keras)[CallId(d)] + d <= MaxNesting + 1

Leaves(p, d) ==
  /\ Len(p) >= d
  /\ \A e \in 1 .. d - 1 : p[e] = Here(e)
  /\ p[d][1] = CallId(d)
  /\ p[d][2] < Position(d)
ResultOK(d) ==
  \A n \in DOMAIN calls[d].result :
    /\ calls[d].result[n] \in DOMAIN keras.layer
    /\ Weighted(keras, calls[d].result[n])
    /\ keras.layer[calls[d].result[n]].name = n
    /\ \E p \in Paths(keras) : Target(keras, p) = calls[d].result[n] /\ Leaves(p, d)

\* The layers that have no weights or have them in r.
Exported(k, r) ==
  {l \in DOMAIN k.layer :
     Weighted(k, l) => k.layer[l].name \in DOMAIN r /\ r[k.layer[l].name] = l}
DoneBefore(d) ==
  \A j \in 1 .. Position(d) - 1 :
    keras.layer[CallId(d)].layers[j]
      \in Settled(keras.layer, Exported(keras, calls[d].result))

Exporting ==
  /\ sequential = {}
  /\ tests = Converter!GenTestData(keras)
  /\ IsSeq(calls)
  /\ Len(calls) > 0
  /\ \A d \in 1 .. Len(calls) : CallOK(d) /\ ResultOK(d) /\ DoneBefore(d)

FromKeras(f, k) ==
  /\ IsDocument(f)
  /\ f.architecture = Converted(k)
  /\ f.offsets = Converter!Measured
  /\ f.output_shapes = ShapesOf(k)
  /\ f.tests = <<Converter!GenTestData(k)>>
  /\ \A l \in DOMAIN k.layer : l \in Exported(k, f.params)
  /\ \A n \in DOMAIN f.params : f.params[n] \in DOMAIN k.layer
IsKnown(f) == f \in GivenFiles \/ \E k \in KerasModels : FromKeras(f, k)

ConverterInv ==
  /\ conversion \in {"idle", "normalising", "exporting", "writing", "raised"}
  /\ conversion # "idle" => keras \in KerasModels /\ sequential \subseteq DOMAIN keras.layer
  /\ conversion = "normalising" => Normalising
  /\ conversion \in {"exporting", "writing"} => Exporting
  /\ conversion = "writing" =>
       Len(calls) = 1 /\ calls[1].rest = << >> /\ file.state = "partial"
  /\ tests \in Seq(TestTensors)
  /\ RaisesWithReason
FileInv ==
  /\ file.state \in {"absent", "partial", "complete"}
  /\ IsDocument(file) => IsKnown(file)

-----------------------------------------------------------------------------
LEMMA NextPlace ==
  ASSUME NEW d, CallOK(d), calls[d].rest # << >>
  PROVE  /\ Position(d) \in 1 .. Len(keras.layer[CallId(d)].layers)
         /\ keras.layer[CallId(d)].layers[Position(d)] = calls[d].rest[1]
         /\ calls[d].rest[1] \in LayersOf(keras, CallId(d))
         /\ calls[d].rest[1] \in DOMAIN keras.layer
         /\ Here(d) \in Places(keras)
         /\ LayerAt(keras, Here(d)) = calls[d].rest[1]
  <1> DEFINE s == keras.layer[CallId(d)].layers
  <1>1. /\ calls[d].rest[1] \in DOMAIN keras.layer
        /\ Position(d) \in 1 .. Len(s)
        /\ calls[d].rest[1] = s[Position(d)]
    <2>1. RestOf(calls[d].rest, s, DOMAIN keras.layer)
      BY DEF CallOK
    <2>2. Position(d) = Len(s) - Len(calls[d].rest) + 1
      BY DEF Position
    <2> DEFINE rest == calls[d].rest
               S == DOMAIN keras.layer
    <2>3. RestOf(rest, s, S) /\ rest # << >> /\ Position(d) = Len(s) - Len(rest) + 1
      BY <2>1, <2>2
    <2>4. rest[1] \in S /\ Position(d) \in 1 .. Len(s) /\ rest[1] = s[Position(d)]
      <3> HIDE DEF rest, s, S
      <3>1. RestOf(rest, s, S) /\ rest # << >>
        BY <2>3
      <3>2. StartsAt(rest, s, S, Len(s) - Len(rest) + 1)
        BY ONLY <3>1, RestStarts
      <3>3. StartsAt(rest, s, S, Position(d))
        BY <2>3, <3>2
      <3> QED  BY ONLY <3>3 DEF StartsAt
    <2> QED  BY <2>4
  <1>2. CallId(d) \in DOMAIN keras.layer
    BY DEF CallOK
  <1>3. Here(d) \in Places(keras)
    BY <1>1, <1>2 DEF Here, Places
  <1>4. LayerAt(keras, Here(d)) = s[Position(d)]
    BY DEF LayerAt, Here
  <1> QED  BY <1>1, <1>3, <1>4 DEF LayersOf

\* The places of the running calls are a path, no longer than models nest.
LEMMA PathToHere ==
  ASSUME keras \in KerasModels, Exporting, calls[Len(calls)].rest # << >>
  PROVE  LET p == [e \in 1 .. Len(calls) |-> Here(e)]
         IN  /\ p \in Paths(keras)
             /\ Len(p) = Len(calls)
             /\ Target(keras, p) = calls[Len(calls)].rest[1]
  <1> DEFINE n == Len(calls)
             p == [e \in 1 .. n |-> Here(e)]
  <1>1. n \in Nat \ {0} /\ \A d \in 1 .. n : CallOK(d)
    BY DEF Exporting, IsSeq
  <1>2. \A d \in 1 .. n : calls[d].rest # << >>
    BY <1>1 DEF CallOK
  <1>3. \A d \in 1 .. n : Here(d) \in Places(keras) /\ LayerAt(keras, Here(d)) = calls[d].rest[1]
    BY <1>1, <1>2, NextPlace
  <1>4. n <= MaxNesting /\ MaxNesting \in Nat
    <2>1. IsKerasModel(keras)
      BY KerasAssumption
    <2>2. CallOK(n)
      BY <1>1
    <2>3. RankOf(keras)[CallId(n)] \in 1 .. MaxNesting
      BY <2>1, <2>2, Ranked DEF CallOK
    <2> QED  BY <1>1, <2>2, <2>3, NestingAssumption DEF CallOK
  <1> HIDE DEF n
  <1>5. p \in [1 .. n -> Places(keras)]
    BY <1>3
  <1>6. Len(p) = n
    BY <1>1, <1>5
  <1>7. IsPath(keras, p)
    <2>1. p[1][1] = keras.top
      BY <1>1 DEF Here, CallId
    <2>2. ASSUME NEW d \in 1 .. n - 1
          PROVE  ~Plain(keras, LayerAt(keras, p[d])) /\ p[d + 1][1] = LayerAt(keras, p[d])
      <3>1. d \in 1 .. n /\ d + 1 \in 1 .. n /\ d + 1 # 1 /\ d + 1 - 1 = d
        BY <1>1
      <3>2. CallId(d + 1) = calls[d].rest[1]
        BY <3>1 DEF CallId
      <3>3. ~Plain(keras, CallId(d + 1))
        BY <1>1, <3>1 DEF CallOK
      <3>4. p[d] = Here(d) /\ p[d + 1][1] = CallId(d + 1)
        BY <3>1 DEF Here
      <3> QED  BY <1>3, <3>1, <3>2, <3>3, <3>4
    <2> HIDE DEF p
    <2> QED  BY <1>6, <2>1, <2>2 DEF IsPath
  <1>8. p \in Paths(keras)
    <2> HIDE DEF p
    <2>1. n \in 1 .. MaxNesting
      BY <1>1, <1>4
    <2> QED  BY <1>5, <1>7, <2>1 DEF Paths
  <1>9. Target(keras, p) = calls[n].rest[1]
    <2>1. n \in 1 .. n /\ p[n] = Here(n)
      BY <1>1
    <2> HIDE DEF p
    <2> QED  BY <1>3, <1>6, <2>1 DEF Target
  <1> QED  BY <1>6, <1>8, <1>9 DEF n

(***************************************************************************)
(* The calls below the innermost one stay as they are.                     *)
(***************************************************************************)
LEMMA CallsKept ==
  ASSUME keras' = keras, NEW n \in Nat, \A e \in 1 .. n : calls'[e] = calls[e]
  PROVE  /\ \A d \in 1 .. n + 1 : CallId(d)' = CallId(d)
         /\ \A d \in 1 .. n : /\ Position(d)' = Position(d)
                              /\ Here(d)' = Here(d)
                              /\ ResultOK(d) => ResultOK(d)'
                              /\ DoneBefore(d) => DoneBefore(d)'
                              /\ CallOK(d) /\ calls[d].rest # << >> => CallOK(d)'
  <1>1. ASSUME NEW d \in 1 .. n + 1
        PROVE  CallId(d)' = CallId(d)
    <2>1. CASE d = 1
      BY <2>1 DEF CallId
    <2>2. CASE d # 1
      <3>1. d - 1 \in 1 .. n
        BY <2>2
      <3> QED  BY <2>2, <3>1 DEF CallId
    <2> QED  BY <2>1, <2>2
  <1>2. ASSUME NEW d \in 1 .. n
        PROVE  Position(d)' = Position(d) /\ Here(d)' = Here(d)
    <2>1. CallId(d)' = CallId(d)
      BY <1>1
    <2> QED  BY <2>1 DEF Position, Here
  <1>3. ASSUME NEW d \in 1 .. n
        PROVE  /\ ResultOK(d) => ResultOK(d)'
               /\ DoneBefore(d) => DoneBefore(d)'
               /\ CallOK(d) /\ calls[d].rest # << >> => CallOK(d)'
    <2>1. /\ CallId(d)' = CallId(d) /\ Position(d)' = Position(d) /\ calls'[d] = calls[d]
          /\ \A e \in 1 .. d - 1 : Here(e)' = Here(e)
      BY <1>1, <1>2
    <2>2. \A p : Leaves(p, d) => Leaves(p, d)'
      BY <2>1 DEF Leaves
    <2>3. ResultOK(d) => ResultOK(d)'
      BY <2>1, <2>2 DEF ResultOK
    <2>4. DoneBefore(d) => DoneBefore(d)'
      BY <2>1 DEF DoneBefore
    <2>5. CallOK(d) /\ calls[d].rest # << >> => CallOK(d)'
      BY <2>1 DEF CallOK
    <2> QED  BY <2>3, <2>4, <2>5
  <1> QED  BY <1>1, <1>2, <1>3

(***************************************************************************)
(* The innermost call, after a layer or a nested model, goes on to the     *)
(* next place with more in its result.                                     *)
(***************************************************************************)
CallsOK(n) == \A d \in 1 .. n : CallOK(d) /\ ResultOK(d) /\ DoneBefore(d)
NoneDone(n) == \A d \in 1 .. n : calls[d].rest # << >>
MetHere(n, r) ==
  \A x \in DOMAIN r :
    \/ x \in DOMAIN calls[n].result
    \/ /\ r[x] \in DOMAIN keras.layer
       /\ Weighted(keras, r[x])
       /\ keras.layer[r[x]].name = x
       /\ \E p \in Paths(keras) : /\ Target(keras, p) = r[x]
                                  /\ Len(p) >= n
                                  /\ \A e \in 1 .. n : p[e] = Here(e)
CallGoesOn(n, r) ==
  /\ Len(calls') = n
  /\ \A e \in 1 .. n - 1 : calls'[e] = calls[e]
  /\ calls'[n].rest = Tail(calls[n].rest)
  /\ calls'[n].result = r
  /\ \A x \in DOMAIN calls[n].result : x \in DOMAIN r /\ r[x] = calls[n].result[x]

LEMMA CallAdvances ==
  ASSUME keras' = keras, IsSeq(calls), NEW n \in 1 .. Len(calls), NEW r,
         CallsOK(n), NoneDone(n), MetHere(n, r), CallGoesOn(n, r),
         calls[n].rest[1] \in Settled(keras.layer, Exported(keras, r))
  PROVE  CallsOK(n)'
  <1> USE DEF CallsOK, NoneDone, MetHere, CallGoesOn
  <1>1. n \in Nat /\ n > 0 /\ n - 1 \in Nat /\ n \in 1 .. n /\ n \in 1 .. (n - 1) + 1
    BY DEF IsSeq
  <1>2. /\ CallId(n)' = CallId(n)
        /\ \A d \in 1 .. n - 1 : /\ Here(d)' = Here(d)
                                 /\ ResultOK(d)' /\ DoneBefore(d)' /\ CallOK(d)'
    BY <1>1, CallsKept
  <1> DEFINE s == keras.layer[CallId(n)].layers
  <1>3. /\ RestOf(calls'[n].rest, s, DOMAIN keras.layer)
        /\ Len(calls'[n].rest) = Len(calls[n].rest) - 1
        /\ Len(calls[n].rest) \in Nat /\ Len(s) \in Nat
    <2>1. RestOf(calls[n].rest, s, DOMAIN keras.layer)
      BY <1>1 DEF CallOK
    <2>2. Len(calls[n].rest) \in Nat /\ Len(s) \in Nat
      BY <2>1 DEF RestOf
    <2> QED  BY <1>1, <2>1, <2>2, RestAdvances
  <1>4. Position(n)' = Position(n) + 1 /\ Position(n) \in Nat /\ Here(n)[2] = Position(n)
        /\ Here(n)[1] = CallId(n)
    <2>1. Position(n)' = Len(s) - Len(calls'[n].rest) + 1
      BY <1>2 DEF Position
    <2>2. Position(n) = Len(s) - Len(calls[n].rest) + 1
      BY DEF Position
    <2>3. Position(n) \in 1 .. Len(s)
      BY <1>1, NextPlace
    <2>4. Here(n)[2] = Position(n) /\ Here(n)[1] = CallId(n)
      BY DEF Here
    <2> HIDE DEF s
    <2> QED  BY <1>3, <2>1, <2>2, <2>3, <2>4
  <1>5. CallOK(n)'
    BY <1>1, <1>2, <1>3 DEF CallOK
  <1>6. ResultOK(n)'
    <2> SUFFICES ASSUME NEW x \in DOMAIN r
                 PROVE  /\ r[x] \in DOMAIN keras.layer
                        /\ Weighted(keras, r[x])
                        /\ keras.layer[r[x]].name = x
                        /\ \E p \in Paths(keras) : Target(keras, p) = r[x] /\ Leaves(p, n)'
      BY DEF ResultOK
    <2>1. CASE x \in DOMAIN calls[n].result
      <3>1. r[x] = calls[n].result[x] /\ ResultOK(n)
        BY <1>1, <2>1
      <3>2. PICK p \in Paths(keras) : Target(keras, p) = r[x] /\ Leaves(p, n)
        BY <2>1, <3>1 DEF ResultOK
      <3>3. Len(p) \in Nat /\ p[n][2] \in Int
        <4>1. PICK m \in 1 .. MaxNesting : p \in [1 .. m -> Places(keras)]
          BY DEF Paths
        <4>2. Len(p) = m /\ m \in Nat
          BY <4>1, NestingAssumption
        <4>3. n \in 1 .. m
          BY <1>1, <3>2, <4>2 DEF Leaves
        <4>4. p[n] \in Places(keras)
          BY <4>1, <4>3
        <4>5. PICK l \in DOMAIN keras.layer :
                p[n] \in {<<l, i>> : i \in 1 .. Len(keras.layer[l].layers)}
          BY <4>4 DEF Places
        <4> QED  BY <4>2, <4>5
      <3>4. Leaves(p, n)'
        BY <1>2, <1>4, <3>2, <3>3 DEF Leaves
      <3> QED  BY <2>1, <3>1, <3>2, <3>4 DEF ResultOK
    <2>2. CASE x \notin DOMAIN calls[n].result
      <3>1. PICK p \in Paths(keras) : /\ Target(keras, p) = r[x] /\ Len(p) >= n
                                      /\ \A e \in 1 .. n : p[e] = Here(e)
        BY <2>2
      <3>2. p[n] = Here(n) /\ \A e \in 1 .. n - 1 : p[e] = Here(e)
        BY <1>1, <3>1
      <3>3. Leaves(p, n)'
        BY <1>2, <1>4, <3>1, <3>2 DEF Leaves
      <3> QED  BY <2>2, <3>1, <3>3
    <2> QED  BY <2>1, <2>2
  <1>7. DoneBefore(n)'
    <2>1. Exported(keras, calls[n].result) \subseteq Exported(keras, r)
      BY DEF Exported
    <2>2. Settled(keras.layer, Exported(keras, calls[n].result))
            \subseteq Settled(keras.layer, Exported(keras, r))
      BY <2>1, SettledGrows
    <2>3. ASSUME NEW j \in 1 .. Position(n)
          PROVE  s[j] \in Settled(keras.layer, Exported(keras, r))
      <3>1. CASE j = Position(n)
        BY <1>1, <3>1, NextPlace
      <3>2. CASE j # Position(n)
        <4>1. j \in 1 .. Position(n) - 1
          BY <1>4, <3>2
        <4>2. s[j] \in Settled(keras.layer, Exported(keras, calls[n].result))
          BY <1>1, <4>1 DEF DoneBefore
        <4> QED  BY <2>2, <4>2
      <3> QED  BY <3>1, <3>2
    <2>4. Position(n)' - 1 = Position(n)
      BY <1>4
    <2> QED  BY <1>2, <2>3, <2>4 DEF DoneBefore
  <1>8. \A d \in 1 .. n : d \in 1 .. n - 1 \/ d = n
    BY <1>1
  <1> QED  BY <1>2, <1>5, <1>6, <1>7, <1>8

LEMMA MergedEntries ==
  ASSUME NEW x, NEW y
  PROVE  /\ DOMAIN Converter!Merged(x, y) = DOMAIN x \cup DOMAIN y
         /\ \A n \in DOMAIN x : Converter!Merged(x, y)[n] = x[n]
         /\ \A n \in DOMAIN y : n \notin DOMAIN x => Converter!Merged(x, y)[n] = y[n]
  BY DEF Converter!Merged

\* The calls have begun, and none of them is at its end but the innermost one.
LEMMA CallsUnderWay ==
  ASSUME Exporting
  PROVE  LET n == Len(calls)
         IN  /\ IsSeq(calls) /\ n \in Nat \ {0} /\ n \in 1 .. n
             /\ \A d \in 1 .. n : CallOK(d) /\ ResultOK(d) /\ DoneBefore(d)
             /\ \A d \in 1 .. n - 1 : calls[d].rest # << >>
             /\ \A d \in 1 .. n - 1 : CallId(d + 1) = calls[d].rest[1]
  <1> DEFINE n == Len(calls)
  <1>1. /\ IsSeq(calls) /\ n \in Nat \ {0} /\ n \in 1 .. n
        /\ \A d \in 1 .. n : CallOK(d) /\ ResultOK(d) /\ DoneBefore(d)
    BY DEF Exporting, IsSeq
  <1>2. ASSUME NEW d \in 1 .. n - 1
        PROVE  calls[d].rest # << >> /\ CallId(d + 1) = calls[d].rest[1]
    <2>1. d \in 1 .. n /\ d < n /\ d + 1 # 1 /\ d + 1 - 1 = d
      BY <1>1
    <2>2. calls[d].rest # << >>
      BY <1>1, <2>1 DEF CallOK
    <2> QED  BY <2>1, <2>2 DEF CallId
  <1> QED  BY <1>1, <1>2

LEMMA ShowLayerExports ==
  ASSUME keras \in KerasModels, Exporting, Converter!ShowLayer
  PROVE  Exporting'
  <1>0. PICK n \in Nat : n = Len(calls)
    BY CallsUnderWay
  <1> DEFINE c == calls[n]
             l == c.rest[1]
             name == keras.layer[l].name
             W == Converter!Weights
  <1>00. PICK r : r = Converter!Merged(c.result, W)
    OBVIOUS
  <1>1. /\ IsSeq(calls) /\ n \in Nat \ {0} /\ n \in 1 .. n
        /\ \A d \in 1 .. n : CallOK(d) /\ ResultOK(d) /\ DoneBefore(d)
        /\ \A d \in 1 .. n - 1 : calls[d].rest # << >>
    BY <1>0, CallsUnderWay
  <1>2. c.rest # << >> /\ Plain(keras, l) /\ name \notin DOMAIN c.result
    BY <1>0 DEF Converter!ShowLayer, Converter!AtLayer, Converter!NameTaken,
           Converter!Innermost, Converter!NextLayer, Converter!Attribute, Plain
  <1>3. /\ calls' = [calls EXCEPT ![n] = [rest |-> Tail(c.rest), result |-> r]]
        /\ UNCHANGED <<keras, sequential, tests>>
    BY <1>0, <1>00 DEF Converter!ShowLayer, Converter!Innermost
  <1>4. W = [x \in IF Weighted(keras, l) THEN {name} ELSE {} |-> l]
    BY <1>0 DEF Converter!Weights, Converter!Shown, Converter!Innermost, Converter!NextLayer,
           Converter!Attribute, Weighted
  <1>5. /\ DOMAIN r = DOMAIN c.result \cup DOMAIN W
        /\ \A x \in DOMAIN c.result : r[x] = c.result[x]
        /\ \A x \in DOMAIN W : x = name /\ Weighted(keras, l) /\ r[x] = l
        /\ Weighted(keras, l) => name \in DOMAIN W
    <2> HIDE DEF W, c, l, name
    <2>1. /\ DOMAIN r = DOMAIN c.result \cup DOMAIN W
          /\ \A x \in DOMAIN c.result : r[x] = c.result[x]
          /\ \A x \in DOMAIN W : x \notin DOMAIN c.result => r[x] = W[x]
      <3> DEFINE u == Converter!Merged(c.result, W)
      <3>1. /\ DOMAIN u = DOMAIN c.result \cup DOMAIN W
            /\ \A x \in DOMAIN c.result : u[x] = c.result[x]
            /\ \A x \in DOMAIN W : x \notin DOMAIN c.result => u[x] = W[x]
        BY MergedEntries
      <3> QED  BY <1>00, <3>1
    <2>2. /\ \A x \in DOMAIN W : x = name /\ Weighted(keras, l) /\ W[x] = l
          /\ Weighted(keras, l) => name \in DOMAIN W
      BY <1>4
    <2> QED  BY <1>2, <2>1, <2>2
  <1> HIDE DEF W
  <1>6. /\ IsSeq(calls') /\ Len(calls') = n
        /\ calls'[n] = [rest |-> Tail(c.rest), result |-> r]
        /\ \A e \in 1 .. n - 1 : calls'[e] = calls[e]
    <2>1. /\ IsSeq(calls') /\ Len(calls') = Len(calls)
          /\ calls'[n] = [rest |-> Tail(c.rest), result |-> r]
          /\ \A e \in 1 .. Len(calls) : e # n => calls'[e] = calls[e]
      <3>1. PICK v : v = [rest |-> Tail(c.rest), result |-> r]
        OBVIOUS
      <3>2. n \in 1 .. Len(calls)
        BY <1>0, <1>1
      <3> DEFINE u == [calls EXCEPT ![n] = v]
      <3>3. /\ IsSeq(u) /\ Len(u) = Len(calls) /\ u[n] = v
            /\ \A e \in 1 .. Len(calls) : e # n => u[e] = calls[e]
        BY <1>1, <3>2, UpdateSeq
      <3>4. calls' = u
        BY <1>3, <3>1
      <3> HIDE DEF u
      <3> QED  BY <3>1, <3>3, <3>4
    <2>2. \A e \in 1 .. n - 1 : e \in 1 .. n /\ e # n
      BY <1>0
    <2> QED  BY <1>0, <2>1, <2>2
  <1> DEFINE p == [e \in 1 .. n |-> Here(e)]
  <1>7. /\ p \in Paths(keras) /\ Len(p) = n /\ Target(keras, p) = l
        /\ \A e \in 1 .. n : p[e] = Here(e)
    BY <1>0, <1>2, PathToHere
  <1>8. l \in DOMAIN keras.layer
    BY <1>1, <1>2, NextPlace
  <1>9. l \in Settled(keras.layer, Exported(keras, r))
    <2>1. l \in Exported(keras, r)
      BY <1>5, <1>8 DEF Exported
    <2>2. ~IsNet(keras.layer, l)
      BY <1>2 DEF IsNet, Plain
    <2> QED  BY <1>8, <2>1, <2>2, LayerSettled
  <1>10. \A d \in 1 .. n : calls[d].rest # << >>
    BY <1>1, <1>2
  <1>11. calls'[n].rest = Tail(calls[n].rest) /\ calls'[n].result = r
    BY <1>6
  <1>12. \A x \in DOMAIN calls[n].result : x \in DOMAIN r /\ r[x] = calls[n].result[x]
    BY <1>5
  <1>13. \A x \in DOMAIN r :
           \/ x \in DOMAIN calls[n].result
           \/ /\ r[x] \in DOMAIN keras.layer
              /\ Weighted(keras, r[x])
              /\ keras.layer[r[x]].name = x
              /\ \E q \in Paths(keras) : /\ Target(keras, q) = r[x]
                                         /\ Len(q) >= n
                                         /\ \A e \in 1 .. n : q[e] = Here(e)
    <2> SUFFICES ASSUME NEW x \in DOMAIN W
                 PROVE  /\ r[x] = l /\ Weighted(keras, l) /\ name = x
                        /\ \E q \in Paths(keras) : /\ Target(keras, q) = l
                                                   /\ Len(q) >= n
                                                   /\ \A e \in 1 .. n : q[e] = Here(e)
      BY <1>5, <1>8
    <2>1. Len(p) >= n
      BY <1>1, <1>7
    <2> HIDE DEF p
    <2> QED  BY <1>5, <1>7, <2>1
  <1>14. \A d \in 1 .. n : CallOK(d)' /\ ResultOK(d)' /\ DoneBefore(d)'
    <2>1. keras' = keras /\ calls[n].rest[1] \in Settled(keras.layer, Exported(keras, r))
      BY <1>3, <1>9
    <2>2. n \in 1 .. Len(calls)
      BY <1>0, <1>1
    <2>3. CallsOK(n) /\ NoneDone(n)
      BY <1>1, <1>10 DEF CallsOK, NoneDone
    <2>4. MetHere(n, r)
      BY <1>13 DEF MetHere
    <2>5. CallGoesOn(n, r)
      BY <1>6, <1>11, <1>12 DEF CallGoesOn
    <2>6. CallsOK(n)'
      BY <1>1, <2>1, <2>2, <2>3, <2>4, <2>5, CallAdvances
    <2> QED  BY <2>6 DEF CallsOK
  <1>15. (tests = Converter!GenTestData(keras))'
    BY <1>3 DEF Exporting
  <1> QED  BY <1>1, <1>3, <1>6, <1>14, <1>15 DEF Exporting

LEMMA EnterNestedExports ==
  ASSUME keras \in KerasModels, Exporting, Converter!EnterNested
  PROVE  Exporting'
  <1>0. PICK n \in Nat : n = Len(calls)
    BY CallsUnderWay
  <1>00. PICK l : l = calls[n].rest[1]
    OBVIOUS
  <1> DEFINE c == [rest |-> keras.layer[l].layers, result |-> << >>]
  <1>1. /\ IsSeq(calls) /\ n \in Nat \ {0} /\ n \in 1 .. n
        /\ \A d \in 1 .. n : CallOK(d) /\ ResultOK(d) /\ DoneBefore(d)
        /\ \A d \in 1 .. n - 1 : calls[d].rest # << >>
    BY <1>0, CallsUnderWay
  <1>2. calls[n].rest # << >> /\ ~Plain(keras, l)
    BY <1>0, <1>00 DEF Converter!EnterNested, Converter!Innermost, Converter!NextLayer,
           Converter!Attribute, Plain
  <1>3. calls' = Append(calls, c) /\ UNCHANGED <<keras, sequential, tests>>
    BY <1>0, <1>00 DEF Converter!EnterNested, Converter!Call, Converter!EmptyDict, Converter!Innermost,
           Converter!NextLayer, Converter!Attribute
  <1>4. /\ IsSeq(calls') /\ Len(calls') = n + 1 /\ calls'[n + 1] = c
        /\ \A e \in 1 .. n : calls'[e] = calls[e]
    BY <1>0, <1>1, <1>3, AppendSeq
  <1>5. \A d \in 1 .. n : calls[d].rest # << >>
    BY <1>1, <1>2
  <1>6. \A d \in 1 .. n : CallOK(d)' /\ ResultOK(d)' /\ DoneBefore(d)'
    BY <1>1, <1>3, <1>4, <1>5, CallsKept
  <1>7. CallId(n + 1)' = l
    <2>1. n + 1 # 1 /\ n + 1 - 1 = n
      BY <1>1
    <2>2. CallId(n + 1)' = calls'[n].rest[1]
      BY <2>1 DEF CallId
    <2> QED  BY <1>00, <1>1, <1>4, <2>2
  <1>8. l \in DOMAIN keras.layer /\ l \in LayersOf(keras, CallId(n))
    BY <1>00, <1>1, <1>2, NextPlace
  <1>9. IsKerasModel(keras)
    BY KerasAssumption
  <1>10. keras.layer[l].layers \in Seq(DOMAIN keras.layer)
    BY <1>8, <1>9 DEF IsKerasModel, IsLayer
  <1>11. RankOf(keras)[l] + (n + 1) <= MaxNesting + 1
    <2>1. CallOK(n)
      BY <1>1
    <2>2. RankOf(keras)[l] < RankOf(keras)[CallId(n)]
      BY <1>2, <1>8, <1>9, <2>1, Ranked DEF IsRank, CallOK
    <2>3. RankOf(keras)[l] \in 1 .. MaxNesting /\ RankOf(keras)[CallId(n)] \in 1 .. MaxNesting
      BY <1>8, <1>9, <2>1, Ranked DEF CallOK
    <2> QED  BY <1>1, <2>1, <2>2, <2>3, NestingAssumption DEF CallOK
  <1>12. calls'[n + 1].rest = keras.layer[l].layers /\ calls'[n + 1].result = << >>
    BY <1>4
  <1>13. CallOK(n + 1)'
    <2>1. RestOf(keras.layer[l].layers, keras.layer[l].layers, DOMAIN keras.layer)
      BY <1>10, RestBegins
    <2>2. ~(n + 1 < Len(calls'))
      BY <1>1, <1>4
    <2> QED  BY <1>2, <1>3, <1>7, <1>8, <1>11, <1>12, <2>1, <2>2 DEF CallOK
  <1>14. Position(n + 1)' = 1
    <2>1. Position(n + 1)' = Len(keras.layer[l].layers) - Len(keras.layer[l].layers) + 1
      BY <1>3, <1>7, <1>12 DEF Position
    <2> QED  BY <1>10, <2>1
  <1>15. ResultOK(n + 1)' /\ DoneBefore(n + 1)'
    BY <1>12, <1>14 DEF ResultOK, DoneBefore
  <1>16. \A d \in 1 .. n + 1 : CallOK(d)' /\ ResultOK(d)' /\ DoneBefore(d)'
    <2>1. \A d \in 1 .. n + 1 : d \in 1 .. n \/ d = n + 1
      BY <1>1
    <2> QED  BY <1>6, <1>13, <1>15, <2>1
  <1>17. (tests = Converter!GenTestData(keras))'
    BY <1>3 DEF Exporting
  <1>18. Len(calls') > 0
    BY <1>1, <1>4
  <1>19. (sequential = {})'
    BY <1>3 DEF Exporting
  <1> QED  BY <1>4, <1>16, <1>17, <1>18, <1>19 DEF Exporting

LEMMA NestedSettled ==
  ASSUME NEW d, CallOK(d), DoneBefore(d), calls[d].rest = << >>
  PROVE  CallId(d) \in Settled(keras.layer, Exported(keras, calls[d].result))
  <1> DEFINE m == CallId(d)
             s == keras.layer[m].layers
  <1>1. m \in DOMAIN keras.layer /\ IsNet(keras.layer, m) /\ s \in Seq(DOMAIN keras.layer)
    BY DEF CallOK, RestOf, IsNet, Plain
  <1>2. Position(d) - 1 = Len(s)
    BY <1>1 DEF Position
  <1>3. \A j \in 1 .. Len(s) : s[j] \in Settled(keras.layer, Exported(keras, calls[d].result))
    BY <1>2 DEF DoneBefore
  <1>4. Children(keras.layer, m) \subseteq Settled(keras.layer, Exported(keras, calls[d].result))
    BY <1>3 DEF Children
  <1> QED  BY <1>1, <1>4, NetSettled

LEMMA MergeNestedExports ==
  ASSUME keras \in KerasModels, Exporting, Converter!MergeNested
  PROVE  Exporting'
  <1>0. PICK n \in Nat : Len(calls) = n + 1
    <2>1. Len(calls) - 1 \in Nat /\ Len(calls) = (Len(calls) - 1) + 1
      BY CallsUnderWay
    <2> QED  BY <2>1
  <1> DEFINE a == calls[n]
             b == calls[n + 1]
  <1>00. PICK r : r = Converter!Merged(b.result, a.result)
    OBVIOUS
  <1>01. PICK q : q = Pop(calls)
    OBVIOUS
  <1>1. /\ IsSeq(calls) /\ Len(calls) = n + 1 /\ n \in Nat /\ n + 1 \in 1 .. Len(calls)
        /\ \A d \in 1 .. n + 1 : CallOK(d) /\ ResultOK(d) /\ DoneBefore(d)
        /\ \A d \in 1 .. n : calls[d].rest # << >> /\ CallId(d + 1) = calls[d].rest[1]
    <2>1. (n + 1) - 1 = n
      BY <1>0
    <2> QED  BY <1>0, <2>1, CallsUnderWay
  <1>2. n > 0 /\ b.rest = << >> /\ DOMAIN a.result \cap DOMAIN b.result = {}
    BY <1>1 DEF Converter!MergeNested, Converter!NestedDone, Converter!Innermost,
                Converter!Caller, Converter!Disjunct
  <1>3. /\ IsSeq(q) /\ Len(q) = n /\ \A e \in 1 .. n : q[e] = calls[e]
    <2>1. Len(calls) > 0 /\ Len(calls) - 1 = n
      BY <1>0
    <2> QED  BY <1>01, <1>1, <2>1, PopSeq
  <1>4. n \in 1 .. n /\ q[n] = a
    BY <1>1, <1>2, <1>3
  <1>5. /\ calls' = [q EXCEPT ![n] = [rest |-> Tail(a.rest), result |-> r]]
        /\ UNCHANGED <<keras, sequential, tests>>
    <2>1. calls' = [q EXCEPT ![n] = [rest |-> Tail(q[n].rest), result |-> r]]
      <3>1. Converter!Innermost = b /\ Len(calls) - 1 = n
        BY <1>0 DEF Converter!Innermost
      <3>2. SubSeq(calls, 1, Len(calls) - 1) = q
        BY <1>01 DEF Pop
      <3>3. calls' = [q EXCEPT ![n] = [rest |-> Tail(q[n].rest),
                                       result |-> Converter!Merged(b.result, q[n].result)]]
        BY <3>1, <3>2 DEF Converter!MergeNested
      <3> QED  BY <1>00, <1>4, <3>3
    <2>2. UNCHANGED <<keras, sequential, tests>>
      BY DEF Converter!MergeNested
    <2> QED  BY <1>4, <2>1, <2>2
  <1>6. /\ IsSeq(calls') /\ Len(calls') = n
        /\ calls'[n] = [rest |-> Tail(a.rest), result |-> r]
        /\ \A e \in 1 .. n - 1 : calls'[e] = calls[e]
    <2>1. \A e \in 1 .. n - 1 : e \in 1 .. n /\ e # n
      BY <1>1
    <2>0. PICK v : v = [rest |-> Tail(a.rest), result |-> r]
      OBVIOUS
    <2>2. IsSeq(q) /\ n \in 1 .. Len(q)
      BY <1>3, <1>4
    <2> DEFINE u == [q EXCEPT ![n] = v]
    <2>3. /\ IsSeq(u) /\ Len(u) = Len(q) /\ u[n] = v
          /\ \A e \in 1 .. Len(q) : e # n => u[e] = q[e]
      BY <2>2, UpdateSeq
    <2>4. calls' = u
      BY <1>5, <2>0
    <2> HIDE DEF u
    <2>5. /\ IsSeq(calls') /\ Len(calls') = n /\ calls'[n] = v
          /\ \A e \in 1 .. n - 1 : calls'[e] = q[e]
      BY <1>3, <2>1, <2>3, <2>4
    <2> QED  BY <1>3, <2>0, <2>1, <2>5
  <1>7. /\ DOMAIN r = DOMAIN a.result \cup DOMAIN b.result
        /\ \A x \in DOMAIN a.result : r[x] = a.result[x]
        /\ \A x \in DOMAIN b.result : r[x] = b.result[x]
    <2>1. /\ DOMAIN r = DOMAIN b.result \cup DOMAIN a.result
          /\ \A x \in DOMAIN b.result : r[x] = b.result[x]
          /\ \A x \in DOMAIN a.result : x \notin DOMAIN b.result => r[x] = a.result[x]
      <3> DEFINE u == Converter!Merged(b.result, a.result)
      <3> HIDE DEF a, b
      <3>1. /\ DOMAIN u = DOMAIN b.result \cup DOMAIN a.result
            /\ \A x \in DOMAIN b.result : u[x] = b.result[x]
            /\ \A x \in DOMAIN a.result : x \notin DOMAIN b.result => u[x] = a.result[x]
        BY MergedEntries
      <3> QED  BY <1>00, <3>1
    <2> HIDE DEF a, b
    <2> QED  BY <1>2, <2>1
  <1>8. a.rest[1] \in Settled(keras.layer, Exported(keras, r))
    <2>1. a.rest[1] \in Settled(keras.layer, Exported(keras, b.result))
      BY <1>1, <1>2, <1>4, NestedSettled
    <2>2. Exported(keras, b.result) \subseteq Exported(keras, r)
      BY <1>7 DEF Exported
    <2> QED  BY <2>1, <2>2, SettledGrows
  <1>9. \A x \in DOMAIN r :
          \/ x \in DOMAIN a.result
          \/ /\ r[x] \in DOMAIN keras.layer
             /\ Weighted(keras, r[x])
             /\ keras.layer[r[x]].name = x
             /\ \E p \in Paths(keras) : /\ Target(keras, p) = r[x]
                                        /\ Len(p) >= n
                                        /\ \A e \in 1 .. n : p[e] = Here(e)
    <2> SUFFICES ASSUME NEW x \in DOMAIN b.result
                 PROVE  /\ b.result[x] \in DOMAIN keras.layer
                        /\ Weighted(keras, b.result[x])
                        /\ keras.layer[b.result[x]].name = x
                        /\ \E p \in Paths(keras) : /\ Target(keras, p) = b.result[x]
                                                   /\ Len(p) >= n
                                                   /\ \A e \in 1 .. n : p[e] = Here(e)
      BY <1>7
    <2>1. ResultOK(n + 1)
      BY <1>1
    <2>2. PICK p \in Paths(keras) : Target(keras, p) = b.result[x] /\ Leaves(p, n + 1)
      BY <2>1 DEF ResultOK
    <2>3. Len(p) >= n + 1 /\ \A e \in 1 .. n : p[e] = Here(e)
      BY <1>1, <2>2 DEF Leaves
    <2>4. Len(p) \in Nat
      <3>1. PICK m \in 1 .. MaxNesting : p \in [1 .. m -> Places(keras)]
        BY DEF Paths
      <3>2. m \in Nat
        BY NestingAssumption
      <3> QED  BY <3>1, <3>2
    <2>5. Len(p) >= n
      BY <1>1, <2>3, <2>4
    <2> QED  BY <2>1, <2>2, <2>3, <2>5 DEF ResultOK
  <1>10. \A d \in 1 .. n : CallOK(d)' /\ ResultOK(d)' /\ DoneBefore(d)'
    <2>1. /\ n \in 1 .. Len(calls)
          /\ \A d \in 1 .. n : CallOK(d) /\ ResultOK(d) /\ DoneBefore(d)
          /\ \A d \in 1 .. n : calls[d].rest # << >>
      BY <1>1, <1>2
    <2>2. /\ calls'[n].rest = Tail(calls[n].rest) /\ calls'[n].result = r
          /\ calls[n].rest[1] \in Settled(keras.layer, Exported(keras, r))
          /\ \A x \in DOMAIN calls[n].result : x \in DOMAIN r /\ r[x] = calls[n].result[x]
      BY <1>6, <1>7, <1>8
    <2>3. keras' = keras
      BY <1>5
    <2>4. CallsOK(n) /\ NoneDone(n)
      BY <2>1 DEF CallsOK, NoneDone
    <2>5. MetHere(n, r)
      BY <1>9 DEF MetHere
    <2>6. CallGoesOn(n, r)
      BY <1>6, <2>2 DEF CallGoesOn
    <2>7. CallsOK(n)'
      BY <1>1, <2>1, <2>2, <2>3, <2>4, <2>5, <2>6, CallAdvances
    <2> QED  BY <2>7 DEF CallsOK
  <1>11. (tests = Converter!GenTestData(keras))' /\ (sequential = {})'
    BY <1>5 DEF Exporting
  <1>12. Len(calls') > 0
    BY <1>2, <1>6
  <1> QED  BY <1>6, <1>10, <1>11, <1>12 DEF Exporting

-----------------------------------------------------------------------------
(***************************************************************************)
(* The steps of the converter.                                             *)
(***************************************************************************)
LEMMA ConvertNormalises ==
  ASSUME NEW k \in KerasModels, Converter!Convert(k)
  PROVE  Normalising' /\ keras' = k /\ sequential' \subseteq DOMAIN k.layer
  <1>1. /\ keras' = k /\ visits' = <<k.top>>
        /\ sequential' = {l \in DOMAIN k.layer : k.layer[l].class = "Sequential"}
    BY DEF Converter!Convert
  <1>2. IsKerasModel(k)
    BY KerasAssumption
  <1>3. \A l \in sequential' : ~Plain(k, l)
    BY <1>1 DEF Plain, Converter!NestedClasses
  <1>4. /\ k.top \in DOMAIN k.layer
        /\ \A D \in SUBSET DOMAIN k.layer : k.top \in D /\ Closed(k, D) => D = DOMAIN k.layer
    BY <1>2 DEF IsKerasModel
  <1>5. <<k.top>> \in Seq(DOMAIN k.layer) /\ k.top \in InRange(<<k.top>>)
    <2> DEFINE S == DOMAIN k.layer
               t == k.top
    <2>1. t \in S
      BY <1>4
    <2> HIDE DEF S, t
    <2>2. <<t>> \in Seq(S)
      BY <2>1
    <2>3. Len(<<t>>) = 1 /\ <<t>>[1] = t
      OBVIOUS
    <2>4. t \in InRange(<<t>>)
      BY <2>3 DEF InRange
    <2> QED  BY <2>2, <2>4 DEF S, t
  <1>6. \A D \in SUBSET DOMAIN k.layer :
          InRange(<<k.top>>) \subseteq D /\ Closed(k, D) => sequential' \subseteq D
    BY <1>1, <1>4, <1>5
  <1> QED  BY <1>1, <1>3, <1>5, <1>6 DEF Normalising

LEMMA ConcatSeq ==
  ASSUME NEW S, NEW s \in Seq(S), NEW t \in Seq(S), t # << >>
  PROVE  /\ s \o Tail(t) \in Seq(S)
         /\ Head(t) \in S
         /\ InRange(s) \subseteq InRange(s \o Tail(t))
         /\ InRange(t) \subseteq InRange(s \o Tail(t)) \cup {Head(t)}
  <1> DEFINE u == s \o Tail(t)
  <1>1. /\ Tail(t) \in Seq(S) /\ Len(Tail(t)) = Len(t) - 1
        /\ Len(s) \in Nat /\ Len(t) \in Nat \ {0} /\ Head(t) \in S /\ Head(t) = t[1]
        /\ \A i \in 1 .. Len(t) - 1 : Tail(t)[i] = t[i + 1]
    OBVIOUS
  <1> DEFINE v == Tail(t)
  <1>2. v \in Seq(S) /\ Len(v) = Len(t) - 1
    BY <1>1
  <1>3. /\ u \in Seq(S) /\ Len(u) = Len(s) + Len(t) - 1
        /\ \A i \in 1 .. Len(s) : u[i] = s[i]
        /\ \A i \in 1 .. Len(v) : u[Len(s) + i] = v[i]
    <2> HIDE DEF v
    <2>1. s \o v \in Seq(S) /\ Len(s \o v) = Len(s) + Len(v)
      BY <1>2
    <2>2. \A i \in 1 .. Len(s) : (s \o v)[i] = s[i]
      BY <1>2
    <2>3. \A i \in 1 .. Len(v) : (s \o v)[Len(s) + i] = v[i]
      BY <1>2
    <2> QED  BY <1>1, <1>2, <2>1, <2>2, <2>3 DEF v
  <1> HIDE DEF u
  <1>4. InRange(s) \subseteq InRange(u)
    <2>1. \A i \in 1 .. Len(s) : i \in 1 .. Len(u)
      BY <1>1, <1>3
    <2> QED  BY <1>3, <2>1 DEF InRange
  <1>5. ASSUME NEW i \in 1 .. Len(t)
        PROVE  t[i] \in InRange(u) \cup {Head(t)}
    <2>1. CASE i = 1
      BY <1>1, <2>1
    <2>2. CASE i # 1
      <3>1. i - 1 \in 1 .. Len(v) /\ Len(s) + (i - 1) \in 1 .. Len(u) /\ (i - 1) + 1 = i
        BY <1>1, <1>2, <1>3, <2>2
      <3>2. v[i - 1] = t[i]
        BY <1>1, <1>2, <3>1
      <3>3. u[Len(s) + (i - 1)] = t[i]
        BY <1>3, <3>1, <3>2
      <3> QED  BY <3>1, <3>3 DEF InRange
    <2> QED  BY <2>1, <2>2
  <1> QED  BY <1>1, <1>3, <1>4, <1>5 DEF InRange, u

LEMMA StillNormalising ==
  ASSUME keras \in KerasModels, Normalising, Converter!ConvertSequential
  PROVE  Normalising' /\ keras' = keras /\ sequential' \subseteq sequential
  <1> DEFINE h == Head(visits)
             S == DOMAIN keras.layer
             s == IF Plain(keras, h) THEN << >> ELSE keras.layer[h].layers
  <1>1. /\ visits # << >> /\ keras' = keras /\ sequential' = sequential \ {h}
        /\ visits' = s \o Tail(visits)
    BY DEF Converter!ConvertSequential, Converter!Attribute, Plain
  <1>2. visits \in Seq(S) /\ h \in S
    BY <1>1 DEF Normalising
  <1>3. IsKerasModel(keras)
    BY KerasAssumption
  <1>4. keras.layer[h].layers \in Seq(S)
    BY <1>2, <1>3 DEF IsKerasModel, IsLayer
  <1>5. s \in Seq(S)
    <2>1. << >> \in Seq(S)
      OBVIOUS
    <2> QED  BY <1>4, <2>1
  <1>6. ~Plain(keras, h) => LayersOf(keras, h) = InRange(s)
    BY DEF LayersOf, InRange
  <1> HIDE DEF s
  <1>7. /\ visits' \in Seq(S) /\ InRange(s) \subseteq InRange(visits')
        /\ InRange(visits) \subseteq InRange(visits') \cup {h}
    BY <1>1, <1>2, <1>5, ConcatSeq
  <1>8. ASSUME NEW D \in SUBSET S, InRange(visits') \subseteq D, Closed(keras, D)
        PROVE  sequential' \subseteq D
    <2>1. D \cup {h} \in SUBSET S /\ InRange(visits) \subseteq D \cup {h}
      BY <1>2, <1>7, <1>8
    <2>2. Closed(keras, D \cup {h})
      BY <1>6, <1>7, <1>8 DEF Closed
    <2>3. sequential \subseteq D \cup {h}
      BY <2>1, <2>2 DEF Normalising
    <2> QED  BY <1>1, <2>3
  <1>9. \A l \in sequential' : ~Plain(keras, l)
    BY <1>1 DEF Normalising
  <1> HIDE DEF h
  <1> QED  BY <1>1, <1>7, <1>8, <1>9 DEF Normalising

LEMMA AllNormalised ==
  ASSUME Normalising, visits = << >>
  PROVE  sequential = {}
  <1>1. InRange(visits) \subseteq {} /\ Closed(keras, {})
    BY DEF InRange, Closed
  <1> QED  BY <1>1 DEF Normalising

LEMMA TestExports ==
  ASSUME keras \in KerasModels, Normalising, Converter!Test
  PROVE  Exporting' /\ tests' \in Seq(TestTensors)
  <1> DEFINE c == [rest |-> keras.layer[keras.top].layers, result |-> << >>]
             S == DOMAIN keras.layer
  <1>1. /\ visits = << >> /\ keras' = keras /\ sequential' = sequential
        /\ tests' = Converter!GenTestData(keras) /\ calls' = <<c>>
    BY DEF Converter!Test, Converter!Call, Converter!Attribute, Converter!EmptyDict
  <1>2. IsKerasModel(keras)
    BY KerasAssumption
  <1>3. /\ keras.top \in S /\ ~Plain(keras, keras.top)
        /\ keras.layer[keras.top].layers \in Seq(S)
    BY <1>2 DEF IsKerasModel, IsLayer
  <1>4. sequential' = {}
    BY <1>1, AllNormalised
  <1>5. IsSeq(calls') /\ Len(calls') = 1 /\ calls'[1] = c
    BY <1>1, SingletonIsSeq
  <1>6. /\ CallId(1)' = keras.top
        /\ calls'[1].rest = keras.layer[keras.top].layers
        /\ calls'[1].result = << >>
    BY <1>1, <1>5 DEF CallId
  <1>7. RankOf(keras)[keras.top] \in 1 .. MaxNesting
    BY <1>2, <1>3, Ranked
  <1>8. CallOK(1)'
    <2>1. RestOf(keras.layer[keras.top].layers, keras.layer[keras.top].layers, S)
      BY <1>3, RestBegins
    <2>2. RankOf(keras)[keras.top] + 1 <= MaxNesting + 1 /\ ~(1 < Len(calls'))
      BY <1>5, <1>7, NestingAssumption
    <2> QED  BY <1>1, <1>3, <1>6, <2>1, <2>2 DEF CallOK
  <1>9. Position(1)' = 1
    <2>1. Position(1)' = Len(keras.layer[keras.top].layers) - Len(keras.layer[keras.top].layers) + 1
      BY <1>1, <1>6 DEF Position
    <2> QED  BY <1>3, <2>1
  <1>10. ResultOK(1)' /\ DoneBefore(1)'
    BY <1>6, <1>9 DEF ResultOK, DoneBefore
  <1>11. \A d \in 1 .. Len(calls') : d = 1
    BY <1>5
  <1>12. tests' \in Seq(TestTensors)
    BY <1>1, <1>2, TestOfModel DEF IsTest, IsKerasModel
  <1>13. (tests = Converter!GenTestData(keras))'
    BY <1>1
  <1>14. Len(calls') > 0
    BY <1>5
  <1> QED  BY <1>4, <1>5, <1>8, <1>10, <1>11, <1>12, <1>13, <1>14 DEF Exporting

LEMMA WeightedIsPlain ==
  ASSUME NEW k, NEW l, Weighted(k, l)
  PROVE  Plain(k, l)
  BY DEF Weighted, Plain, Converter!ShowFunctions, Converter!NestedClasses

\* What is written is the model, with the weights of all its layers.
LEMMA WriteFromKeras ==
  ASSUME keras \in KerasModels, Exporting, Len(calls) = 1, calls[1].rest = << >>,
         Converter!Write
  PROVE  FromKeras(file', keras)
  <1> DEFINE r == calls[1].result
  <1>1. file' = [state |-> "complete", architecture |-> Converted(keras),
                 offsets |-> Converter!Measured, output_shapes |-> ShapesOf(keras),
                 tests |-> <<Converter!GenTestData(keras)>>, params |-> r]
    BY DEF Exporting, Converter!Write, Converter!Document, Converter!Innermost, Converted, ShapesOf
  <1>2. /\ IsDocument(file') /\ file'.architecture = Converted(keras)
        /\ file'.offsets = Converter!Measured
        /\ file'.output_shapes = ShapesOf(keras)
        /\ file'.tests = <<Converter!GenTestData(keras)>>
        /\ file'.params = r
    BY <1>1 DEF IsDocument
  <1>3. CallOK(1) /\ ResultOK(1) /\ DoneBefore(1)
    BY CallsUnderWay
  <1>4. keras.top \in Settled(keras.layer, Exported(keras, r))
    BY <1>3, NestedSettled DEF CallId
  <1>5. \A l \in DOMAIN keras.layer : Plain(keras, l) => l \in Exported(keras, r)
    <2>1. IsKerasModel(keras)
      BY KerasAssumption
    <2>2. \A l \in DOMAIN keras.layer : /\ IsNet(keras.layer, l) <=> ~Plain(keras, l)
                                        /\ keras.layer[l].layers = keras.layer[l].layers
      BY DEF IsNet, Plain
    <2> QED  BY <1>4, <2>1, <2>2, AllSettled
  <1>6. \A l \in DOMAIN keras.layer : l \in Exported(keras, r)
    BY <1>5, WeightedIsPlain DEF Exported
  <1>7. \A n \in DOMAIN r : r[n] \in DOMAIN keras.layer
    BY <1>3 DEF ResultOK
  <1> HIDE DEF r
  <1> QED  BY <1>2, <1>6, <1>7 DEF FromKeras

LEMMA ExportingKept ==
  ASSUME Exporting, UNCHANGED <<keras, sequential, tests, calls>>
  PROVE  Exporting'
  <1>0. PICK n \in Nat : n = Len(calls)
    BY CallsUnderWay
  <1>1. \A d \in 1 .. n : CallOK(d) /\ ResultOK(d) /\ DoneBefore(d)
    BY <1>0, CallsUnderWay
  <1>2. /\ \A d \in 1 .. n + 1 : CallId(d)' = CallId(d)
        /\ \A d \in 1 .. n : /\ ResultOK(d) => ResultOK(d)'
                             /\ DoneBefore(d) => DoneBefore(d)'
    <2>1. keras' = keras /\ \A e \in 1 .. n : calls'[e] = calls[e]
      OBVIOUS
    <2> QED  BY <2>1, CallsKept
  <1>3. ASSUME NEW d \in 1 .. n
        PROVE  CallOK(d)'
    <2>1. CallOK(d) /\ CallId(d)' = CallId(d)
      BY <1>1, <1>2
    <2> QED  BY <2>1 DEF CallOK
  <1>4. \A d \in 1 .. n : CallOK(d)' /\ ResultOK(d)' /\ DoneBefore(d)'
    BY <1>1, <1>2, <1>3
  <1>5. (sequential = {})' /\ (tests = Converter!GenTestData(keras))'
    BY DEF Exporting
  <1>6. IsSeq(calls') /\ Len(calls') > 0 /\ Len(calls') = n
    BY <1>0 DEF Exporting
  <1> QED  BY <1>4, <1>5, <1>6 DEF Exporting

\* Two names clash where one path goes on at a place the other has passed.
LEMMA Clash ==
  ASSUME NEW k, NEW p \in Paths(k), NEW q \in Paths(k), p # q,
         Weighted(k, Target(k, p)), Plain(k, Target(k, q)),
         k.layer[Target(k, p)].name = k.layer[Target(k, q)].name
  PROVE  NameClash(k)
  BY DEF NameClash

LEMMA DuplicateClashes ==
  ASSUME keras \in KerasModels, Exporting, Converter!DuplicateLayerName
  PROVE  NameClash(keras)
  <1>0. PICK n \in Nat : n = Len(calls)
    BY CallsUnderWay
  <1>1. PICK l : l = calls[n].rest[1]
    OBVIOUS
  <1>2. PICK name : name = keras.layer[l].name
    OBVIOUS
  <1>3. CallOK(n) /\ ResultOK(n) /\ n \in 1 .. n
    BY <1>0, CallsUnderWay
  <1>4. calls[n].rest # << >> /\ Plain(keras, l) /\ name \in DOMAIN calls[n].result
    BY <1>0, <1>1, <1>2
       DEF Converter!DuplicateLayerName, Converter!AtLayer, Converter!NameTaken,
           Converter!Innermost, Converter!NextLayer, Converter!Attribute, Plain
  <1>5. PICK q \in Paths(keras) : Target(keras, q) = l /\ q[n] = Here(n)
    <2> DEFINE q == [e \in 1 .. Len(calls) |-> Here(e)]
    <2>1. q \in Paths(keras) /\ Target(keras, q) = l
      BY <1>0, <1>1, <1>4, PathToHere
    <2>2. q[n] = Here(n)
      BY <1>0, <1>3
    <2> QED  BY <2>1, <2>2
  <1>6. PICK w : w = calls[n].result[name]
    OBVIOUS
  <1>7. /\ Weighted(keras, w) /\ keras.layer[w].name = name
        /\ \E p \in Paths(keras) : Target(keras, p) = w /\ Leaves(p, n)
    BY <1>3, <1>4, <1>6 DEF ResultOK
  <1>8. PICK p \in Paths(keras) : Target(keras, p) = w /\ Leaves(p, n)
    BY <1>7
  <1>9. p # q
    <2>1. p[n][2] < Position(n) /\ q[n][2] = Position(n)
      BY <1>5, <1>8 DEF Leaves, Here
    <2>2. Position(n) \in 1 .. Len(keras.layer[CallId(n)].layers)
      BY <1>3, <1>4, NextPlace
    <2> QED  BY <2>1, <2>2
  <1> QED  BY <1>2, <1>4, <1>5, <1>7, <1>8, <1>9, Clash

LEMMA NotDisjunctClashes ==
  ASSUME keras \in KerasModels, Exporting, Converter!NotDisjunct
  PROVE  NameClash(keras)
  <1>0. PICK n \in Nat : Len(calls) = n + 1
    <2>1. Len(calls) - 1 \in Nat /\ Len(calls) = (Len(calls) - 1) + 1
      BY CallsUnderWay
    <2> QED  BY <2>1
  <1>1. n > 0 /\ n \in 1 .. Len(calls) /\ n + 1 \in 1 .. Len(calls) /\ n \in 1 .. (n + 1) - 1
    BY <1>0 DEF Converter!NotDisjunct, Converter!NestedDone
  <1>2. PICK x \in DOMAIN calls[n].result : x \in DOMAIN calls[n + 1].result
    <2>1. Converter!Innermost = calls[n + 1] /\ Converter!Caller = calls[n]
      BY <1>0 DEF Converter!Innermost, Converter!Caller
    <2>2. ~Converter!Disjunct(calls[n].result, calls[n + 1].result)
      BY <2>1 DEF Converter!NotDisjunct
    <2> QED  BY <2>2 DEF Converter!Disjunct
  <1>3. ResultOK(n) /\ ResultOK(n + 1) /\ CallOK(n) /\ calls[n].rest # << >>
    <2>1. n \in 1 .. Len(calls) - 1
      BY <1>0, <1>1
    <2> QED  BY <1>1, <2>1, CallsUnderWay
  <1>4. PICK p \in Paths(keras) : Target(keras, p) = calls[n].result[x] /\ Leaves(p, n)
    BY <1>2, <1>3 DEF ResultOK
  <1>5. PICK q \in Paths(keras) :
          Target(keras, q) = calls[n + 1].result[x] /\ Leaves(q, n + 1)
    BY <1>2, <1>3 DEF ResultOK
  <1>6. /\ Weighted(keras, Target(keras, p)) /\ Weighted(keras, Target(keras, q))
        /\ keras.layer[Target(keras, p)].name = x
        /\ keras.layer[Target(keras, q)].name = x
    BY <1>2, <1>3, <1>4, <1>5 DEF ResultOK
  <1>7. p # q
    <2>1. p[n][2] < Position(n) /\ q[n] = Here(n)
      BY <1>1, <1>4, <1>5 DEF Leaves
    <2>2. q[n][2] = Position(n)
      BY <2>1 DEF Here
    <2>3. Position(n) \in 1 .. Len(keras.layer[CallId(n)].layers)
      BY <1>3, NextPlace
    <2> QED  BY <2>1, <2>2, <2>3
  <1>8. Plain(keras, Target(keras, q))
    BY <1>6, WeightedIsPlain
  <1> QED  BY <1>6, <1>7, <1>8, Clash

LEMMA NotExportableHasReason ==
  ASSUME Exporting, Converter!NotExportable
  PROVE  \E l \in DOMAIN keras.layer : Plain(keras, l) /\ ~keras.layer[l].exports
  <1>0. PICK n \in Nat : n = Len(calls)
    BY CallsUnderWay
  <1>1. CallOK(n)
    BY <1>0, CallsUnderWay
  <1>2. /\ calls[n].rest # << >> /\ Plain(keras, calls[n].rest[1])
        /\ ~keras.layer[calls[n].rest[1]].exports
    BY <1>0 DEF Converter!NotExportable, Converter!AtLayer, Converter!Innermost,
                Converter!NextLayer, Converter!Attribute, Plain
  <1>3. calls[n].rest[1] \in DOMAIN keras.layer
    BY <1>1, <1>2, NextPlace
  <1> QED  BY <1>2, <1>3

\* No step of the loader disturbs the converter.
LEMMA ConverterKept ==
  ASSUME ConverterInv, FileInv, UNCHANGED <<file, converterVars>>
  PROVE  ConverterInv' /\ FileInv'
  <1> USE DEF converterVars
  <1>1. conversion \in {"exporting", "writing"} => Exporting'
    BY ExportingKept DEF ConverterInv
  <1>2. conversion = "normalising" => Normalising'
    BY DEF ConverterInv, Normalising
  <1>3. RaisesWithReason'
    BY DEF ConverterInv, RaisesWithReason
  <1>4. FileInv'
    BY DEF FileInv
  <1> QED  BY <1>1, <1>2, <1>3, <1>4 DEF ConverterInv

LEMMA ConverterStep ==
  ASSUME ConverterInv, FileInv, Converter!Next
  PROVE  ConverterInv' /\ FileInv'
  <1> USE DEF ConverterInv, FileInv
  <1>1. CASE Converter!ConvertSequential
    <2>1. conversion = "normalising" /\ UNCHANGED <<file, conversion, tests>>
      BY <1>1 DEF Converter!ConvertSequential
    <2>2. Normalising' /\ keras' = keras /\ sequential' \subseteq sequential
      BY <1>1, <2>1, StillNormalising
    <2>3. RaisesWithReason'
      BY <2>1 DEF RaisesWithReason
    <2> QED  BY <2>1, <2>2, <2>3
  <1>2. CASE Converter!Test
    <2>1. /\ conversion = "normalising" /\ conversion' = "exporting"
          /\ UNCHANGED <<file, keras, sequential>>
      BY <1>2 DEF Converter!Test
    <2>2. Exporting' /\ tests' \in Seq(TestTensors)
      BY <1>2, <2>1, TestExports
    <2>3. RaisesWithReason'
      BY <2>1 DEF RaisesWithReason
    <2> QED  BY <2>1, <2>2, <2>3
  <1>3. CASE Converter!CannotTest
    <2>1. /\ conversion = "normalising" /\ conversion' = "raised" /\ ~keras.sized
          /\ UNCHANGED <<file, keras, sequential, tests>>
      BY <1>3 DEF Converter!CannotTest, Converter!Raise
    <2>2. RaisesWithReason'
      BY <2>1 DEF RaisesWithReason
    <2> QED  BY <2>1, <2>2
  <1>4. CASE \/ Converter!ShowLayer \/ Converter!EnterNested \/ Converter!MergeNested
    <2>1. /\ conversion = "exporting"
          /\ UNCHANGED <<file, conversion, keras, sequential, tests>>
      BY <1>4 DEF Converter!ShowLayer, Converter!EnterNested, Converter!MergeNested,
                  Converter!AtLayer, Converter!NestedDone, Converter!Running
    <2>2. Exporting'
      BY <1>4, <2>1, ShowLayerExports, EnterNestedExports, MergeNestedExports
    <2>3. RaisesWithReason'
      BY <2>1 DEF RaisesWithReason
    <2> QED  BY <2>1, <2>2, <2>3
  <1>5. CASE \/ Converter!DuplicateLayerName \/ Converter!NotExportable \/ Converter!NotDisjunct
    <2>1. /\ conversion = "exporting" /\ conversion' = "raised"
          /\ UNCHANGED <<file, keras, sequential, tests>>
      BY <1>5 DEF Converter!DuplicateLayerName, Converter!NotExportable, Converter!NotDisjunct,
                  Converter!AtLayer, Converter!NestedDone, Converter!Running, Converter!Raise
    <2>2. \/ NameClash(keras)
          \/ \E l \in DOMAIN keras.layer : Plain(keras, l) /\ ~keras.layer[l].exports
      BY <1>5, <2>1, DuplicateClashes, NotExportableHasReason, NotDisjunctClashes
    <2>3. RaisesWithReason'
      <3>1. NameClash(keras)' <=> NameClash(keras)
        BY <2>1
      <3>2. \A l : Plain(keras, l)' <=> Plain(keras, l)
        BY <2>1 DEF Plain
      <3> QED  BY <2>1, <2>2, <3>1, <3>2 DEF RaisesWithReason
    <2> QED  BY <2>1, <2>3
  <1>6. CASE Converter!OpenFile
    <2>1. /\ conversion = "exporting" /\ conversion' = "writing" /\ file'.state = "partial"
          /\ UNCHANGED <<keras, sequential, tests, calls>>
      BY <1>6 DEF Converter!OpenFile, Converter!Running, Converter!PartialFile
    <2>2. Len(calls) = 1 /\ calls[1].rest = << >>
      BY <1>6 DEF Converter!OpenFile, Converter!Innermost
    <2>3. Exporting'
      BY <2>1, ExportingKept
    <2>4. RaisesWithReason' /\ ~IsDocument(file')
      BY <2>1 DEF RaisesWithReason, IsDocument
    <2> QED  BY <2>1, <2>2, <2>3, <2>4
  <1>7. CASE Converter!Write
    <2>1. conversion = "writing" /\ conversion' = "idle" /\ UNCHANGED tests
      BY <1>7 DEF Converter!Write
    <2>2. FromKeras(file', keras)
      BY <1>7, <2>1, WriteFromKeras
    <2>3. file'.state = "complete" /\ IsKnown(file')
      BY <2>1, <2>2 DEF FromKeras, IsDocument, IsKnown
    <2>4. RaisesWithReason'
      BY <2>1 DEF RaisesWithReason
    <2> QED  BY <2>1, <2>3, <2>4
  <1>8. CASE Converter!Interrupted
    <2>1. /\ conversion = "writing" /\ conversion' = "raised"
          /\ UNCHANGED <<file, keras, sequential, tests>>
      BY <1>8 DEF Converter!Interrupted, Converter!Raise
    <2>2. RaisesWithReason'
      BY <2>1 DEF RaisesWithReason
    <2> QED  BY <2>1, <2>2
  <1>9. ASSUME NEW k \in KerasModels, Converter!Convert(k)
        PROVE  ConverterInv' /\ FileInv'
    <2>1. conversion' = "normalising" /\ UNCHANGED <<file, tests>>
      BY <1>9 DEF Converter!Convert
    <2>2. Normalising' /\ keras' = k /\ sequential' \subseteq DOMAIN k.layer
      BY <1>9, ConvertNormalises
    <2>3. RaisesWithReason'
      BY <2>1 DEF RaisesWithReason
    <2> QED  BY <2>1, <2>2, <2>3
  <1> QED  BY <1>1, <1>2, <1>3, <1>4, <1>5, <1>6, <1>7, <1>8, <1>9
           DEF Converter!Next, Converter!Step

-----------------------------------------------------------------------------
(***************************************************************************)
(* The invariant of the loader.  Each model under construction is, but for *)
(* the outermost one, the next layer of the one around it, and the layers  *)
(* before the next one are settled.                                        *)
(***************************************************************************)
FrameOK(s, d, layer, done) ==
  LET m == s[d].id IN
  /\ m \in DOMAIN layer
  /\ RestOf(s[d].rest, layer[m].layers, DOMAIN layer)
  /\ d < Len(s) => /\ s[d].rest # << >>
                   /\ s[d].rest[1] = s[d + 1].id
                   /\ IsNet(layer, s[d + 1].id)
  /\ \A j \in 1 .. Len(layer[m].layers) - Len(s[d].rest) :
       layer[m].layers[j] \in Settled(layer, done)
StackOK(s, top, layer, done) ==
  /\ IsSeq(s)
  /\ Len(s) > 0
  /\ s[1].id = top
  /\ \A d \in 1 .. Len(s) : FrameOK(s, d, layer, done)

\* What create_layer has made of a layer of f.
MadeOK(f, l, entry) ==
  LET at == f.architecture.layer[l] IN
  /\ l \in DOMAIN f.architecture.layer
  /\ at.class \in Loader!Creators \ {"Model"}
  /\ at.activation \in Loader!Activations \cup {Loader!NoActivation}
  /\ at.class \in Loader!Parameterised =>
       at.name \in DOMAIN f.params /\ entry.weights = f.params[at.name]
  /\ entry.applies = Loader!Applies(l)
  /\ entry.offsets = Loader!Offsets(l)
Creating ==
  LET a == json.architecture IN
  /\ StackOK(creating, a.top, a.layer, DOMAIN made)
  /\ \A l \in DOMAIN made : MadeOK(json, l, made[l])

Loaded(m, k) ==
  /\ DOMAIN m.layers = {l \in DOMAIN k.layer : Plain(k, l)}
  /\ \A l \in DOMAIN m.layers :
       /\ Weighted(k, l) => m.layers[l].weights = l
       /\ m.layers[l].applies = Loader!KerasApplies(k.layer[l])
       /\ m.layers[l].offsets = Loader!KerasOffsets(k.layer[l].class)
ModelOK ==
  /\ model # Loader!NoModel
  /\ AreOutputs(model.architecture.outputs)
  /\ \A k \in KerasModels :
       model.architecture = Converted(k) => Loaded(model, k) /\ model.shapes = ShapesOf(k)
Testing ==
  /\ IsSeq(pending)
  /\ \A i \in 1 .. Len(pending) : IsTest(pending[i])
  /\ pending = << >> => Loader!ModelRight(model)

LoaderInv ==
  /\ load \in {"idle", "creating", "verifying", "testing", "returned", "threw"}
  /\ json.state \in {"freed", "complete"}
  /\ load # "creating" => creating = << >>
  /\ load \in {"creating", "verifying"} => IsDocument(json) /\ IsKnown(json)
  /\ load = "creating" => Creating
  /\ load = "verifying" => model.architecture = json.architecture
  /\ load \in {"verifying", "testing", "returned"} => ModelOK
  /\ load = "testing" => Testing
  /\ VerifiedIsRight

-----------------------------------------------------------------------------
(***************************************************************************)
(* What is known of a document.                                            *)
(***************************************************************************)
Sound(f) ==
  LET a == f.architecture IN
  /\ \A l \in DOMAIN a.layer : a.layer[l].layers \in Seq(DOMAIN a.layer)
  /\ a.top \in DOMAIN a.layer
  /\ AreOutputs(a.outputs)
  /\ \A n \in DOMAIN f.params : f.params[n] # Loader!NoWeights
  /\ IsSeq(f.tests)
  /\ \A i \in 1 .. Len(f.tests) : IsTest(f.tests[i])

LEMMA GivenIsSound ==
  ASSUME NEW f \in GivenFiles, IsDocument(f)
  PROVE  Sound(f) /\ \A k \in KerasModels : f.architecture # Converted(k)
  <1>1. IsGivenDocument(f)
    BY GivenAssumption DEF IsDocument
  <1>2. \A l \in DOMAIN f.architecture.layer :
          f.architecture.layer[l].layers \in Seq(DOMAIN f.architecture.layer)
    BY <1>1 DEF IsGivenDocument, IsLayer
  <1>3. IsSeq(f.tests) /\ \A i \in 1 .. Len(f.tests) : IsTest(f.tests[i])
    <2> DEFINE Tests == {test \in Seq(TestTensors) : test # << >>}
    <2>1. f.tests \in Seq(Tests)
      BY <1>1 DEF IsGivenDocument
    <2>2. \A test \in Tests : IsTest(test)
      BY DEF IsTest
    <2> HIDE DEF Tests
    <2> QED  BY <2>1, <2>2, SeqIsSeq
  <1> QED  BY <1>1, <1>2, <1>3 DEF IsGivenDocument, Sound

LEMMA ConvertedIsSound ==
  ASSUME NEW k \in KerasModels, NEW f, FromKeras(f, k)
  PROVE  Sound(f) /\ f.tests # << >>
  <1>1. IsKerasModel(k) /\ \A l \in DOMAIN k.layer : IsLayer(k.layer, l)
    BY KerasAssumption DEF IsKerasModel
  <1> DEFINE layer == Converted(k).layer
  <1>2. /\ f.architecture = Converted(k)
        /\ f.tests = <<Converter!GenTestData(k)>>
        /\ \A n \in DOMAIN f.params : f.params[n] \in DOMAIN k.layer
    BY DEF FromKeras
  <1>3. /\ Converted(k).top = k.top /\ Converted(k).outputs = k.outputs
        /\ DOMAIN layer = DOMAIN k.layer
        /\ \A l \in DOMAIN k.layer : layer[l].layers = k.layer[l].layers
    BY <1>1, ConvertedLayers
  <1>4. /\ \A l \in DOMAIN k.layer : k.layer[l].layers \in Seq(DOMAIN k.layer)
        /\ k.top \in DOMAIN k.layer /\ AreOutputs(k.outputs)
        /\ Loader!NoWeights \notin DOMAIN k.layer
    BY <1>1 DEF IsKerasModel, IsLayer
  <1> DEFINE test == Converter!GenTestData(k)
  <1>5. IsTest(test)
    BY <1>4, TestOfModel
  <1> HIDE DEF test, layer
  <1>6. IsSeq(<<test>>) /\ Len(<<test>>) = 1 /\ <<test>>[1] = test
    BY SingletonIsSeq
  <1>7. /\ IsSeq(f.tests) /\ f.tests # << >>
        /\ \A i \in 1 .. Len(f.tests) : IsTest(f.tests[i])
    BY <1>2, <1>5, <1>6 DEF test
  <1>8. \A l \in DOMAIN layer : layer[l].layers \in Seq(DOMAIN layer)
    BY <1>3, <1>4
  <1>9. /\ f.architecture.layer = layer /\ f.architecture.top \in DOMAIN layer
        /\ AreOutputs(f.architecture.outputs)
    BY <1>2, <1>3, <1>4 DEF layer
  <1>10. \A n \in DOMAIN f.params : f.params[n] # Loader!NoWeights
    BY <1>2, <1>4
  <1> QED  BY <1>7, <1>8, <1>9, <1>10 DEF Sound

LEMMA KnownIsSound ==
  ASSUME NEW f, IsDocument(f), IsKnown(f)
  PROVE  Sound(f)
  BY GivenIsSound, ConvertedIsSound DEF IsKnown

\* Two models may become the same document; it is then right for both.
LEMMA KnownIsFromKeras ==
  ASSUME NEW f, IsDocument(f), IsKnown(f), NEW k \in KerasModels,
         f.architecture = Converted(k)
  PROVE  FromKeras(f, k)
  <1>1. PICK g \in KerasModels : FromKeras(f, g)
    BY GivenIsSound DEF IsKnown
  <1>2. /\ \A l \in DOMAIN k.layer : IsLayer(k.layer, l)
        /\ \A l \in DOMAIN g.layer : IsLayer(g.layer, l)
    BY KerasAssumption DEF IsKerasModel
  <1>3. Converted(g) = Converted(k)
    BY <1>1 DEF FromKeras
  <1>4. g.outputs = k.outputs /\ DOMAIN g.layer = DOMAIN k.layer
    <2>1. Converted(g).outputs = g.outputs /\ DOMAIN Converted(g).layer = DOMAIN g.layer
      BY <1>2, ConvertedLayers
    <2>2. Converted(k).outputs = k.outputs /\ DOMAIN Converted(k).layer = DOMAIN k.layer
      BY <1>2, ConvertedLayers
    <2> QED  BY <1>3, <2>1, <2>2
  <1>5. ASSUME NEW l \in DOMAIN k.layer
        PROVE  k.layer[l].name = g.layer[l].name /\ (Weighted(k, l) => Weighted(g, l))
    <2> DEFINE x == Converted(k).layer[l]
    <2>1. /\ x.name = k.layer[l].name
          /\ Plain(k, l) => x.class = k.layer[l].class
          /\ IsNet(Converted(k).layer, l) <=> ~Plain(k, l)
      BY <1>2, ConvertedLayers
    <2>2. l \in DOMAIN g.layer
      BY <1>4
    <2>3. /\ Converted(g).layer[l].name = g.layer[l].name
          /\ Plain(g, l) => Converted(g).layer[l].class = g.layer[l].class
          /\ IsNet(Converted(g).layer, l) <=> ~Plain(g, l)
      BY <1>2, <2>2, ConvertedLayers
    <2>4. Weighted(k, l) => Plain(k, l)
      BY WeightedIsPlain
    <2> QED  BY <1>3, <2>1, <2>3, <2>4 DEF Weighted
  <1>6. Converter!GenTestData(g) = Converter!GenTestData(k)
    BY <1>4 DEF Converter!GenTestData, Converter!PredictedOutputs
  <1>7. ASSUME NEW l \in DOMAIN k.layer
        PROVE  l \in Exported(k, f.params)
    <2>1. l \in Exported(g, f.params)
      BY <1>1, <1>4 DEF FromKeras
    <2> QED  BY <1>5, <2>1 DEF Exported
  <1>8. /\ f.offsets = Converter!Measured
        /\ f.output_shapes = ShapesOf(k) /\ f.tests = <<Converter!GenTestData(k)>>
        /\ \A n \in DOMAIN f.params : f.params[n] \in DOMAIN k.layer
    BY <1>1, <1>4, <1>6 DEF FromKeras, ShapesOf
  <1> QED  BY <1>7, <1>8 DEF FromKeras

-----------------------------------------------------------------------------
(***************************************************************************)
(* The stack of models under construction.                                 *)
(***************************************************************************)
LEMMA StackBegins ==
  ASSUME NEW layer, NEW m \in DOMAIN layer, layer[m].layers \in Seq(DOMAIN layer), NEW done
  PROVE  StackOK(<<[id |-> m, rest |-> layer[m].layers]>>, m, layer, done)
  <1> DEFINE c == [id |-> m, rest |-> layer[m].layers]
             s == <<c>>
             S == DOMAIN layer
  <1>1. c.id = m /\ c.rest = layer[m].layers
    OBVIOUS
  <1>2. RestOf(layer[m].layers, layer[m].layers, S)
    BY RestBegins
  <1>3. Len(layer[m].layers) - Len(layer[m].layers) = 0
    OBVIOUS
  <1> HIDE DEF c
  <1>4. IsSeq(s) /\ Len(s) = 1 /\ s[1] = c
    BY SingletonIsSeq
  <1> HIDE DEF s
  <1>5. FrameOK(s, 1, layer, done)
    BY <1>1, <1>2, <1>3, <1>4 DEF FrameOK
  <1>6. \A d \in 1 .. Len(s) : d = 1
    BY <1>4
  <1>7. StackOK(s, m, layer, done)
    BY <1>1, <1>4, <1>5, <1>6 DEF StackOK
  <1> QED  BY <1>7 DEF s, c

LEMMA FrameGrows ==
  ASSUME NEW s, NEW d, NEW layer, NEW done, FrameOK(s, d, layer, done),
         NEW more, done \subseteq more
  PROVE  FrameOK(s, d, layer, more)
  <1>1. Settled(layer, done) \subseteq Settled(layer, more)
    BY SettledGrows
  <1> QED  BY <1>1 DEF FrameOK

LEMMA StackAdvances ==
  ASSUME NEW s, NEW top, NEW layer, NEW done, StackOK(s, top, layer, done),
         s[Len(s)].rest # << >>,
         NEW more, done \subseteq more, s[Len(s)].rest[1] \in Settled(layer, more)
  PROVE  StackOK(Loader!Advance(s), top, layer, more)
  <1> DEFINE n == Len(s)
             f == s[n]
             g == [id |-> f.id, rest |-> Tail(f.rest)]
             u == [s EXCEPT ![n] = g]
  <1>1. IsSeq(s) /\ n \in Nat \ {0} /\ n \in 1 .. n /\ s[1].id = top
    BY DEF StackOK, IsSeq
  <1>2. \A d \in 1 .. n : FrameOK(s, d, layer, more)
    BY FrameGrows DEF StackOK
  <1>3. FrameOK(s, n, layer, more)
    BY <1>1, <1>2
  <1>5. Loader!Advance(s) = u
    BY DEF Loader!Advance
  <1>6. g.id = f.id /\ g.rest = Tail(f.rest)
    OBVIOUS
  <1> HIDE DEF g
  <1>8. IsSeq(u) /\ Len(u) = n /\ u[n] = g /\ \A i \in 1 .. n : i # n => u[i] = s[i]
    BY <1>1, UpdateSeq
  <1> HIDE DEF u
  <1> DEFINE m == f.id
             S == DOMAIN layer
             ls == layer[m].layers
  <1>9. /\ m \in S /\ RestOf(f.rest, ls, S)
        /\ \A j \in 1 .. Len(ls) - Len(f.rest) : ls[j] \in Settled(layer, more)
    BY <1>3 DEF FrameOK
  <1>10. /\ RestOf(g.rest, ls, S) /\ Len(g.rest) = Len(f.rest) - 1
         /\ f.rest[1] = ls[Len(ls) - Len(f.rest) + 1]
         /\ Len(ls) \in Nat /\ Len(f.rest) \in Nat
    <2> HIDE DEF ls, f, S
    <2>1. Len(ls) \in Nat /\ Len(f.rest) \in Nat
      BY <1>9 DEF RestOf
    <2>2. PICK rest : rest = f.rest
      OBVIOUS
    <2>3. rest # << >> /\ RestOf(rest, ls, S)
      BY <1>9, <2>2 DEF f
    <2>4. /\ RestOf(Tail(rest), ls, S) /\ Len(Tail(rest)) = Len(rest) - 1
          /\ rest[1] = ls[Len(ls) - Len(rest) + 1]
      BY <2>3, RestAdvances
    <2> QED  BY <1>6, <2>1, <2>2, <2>4
  <1>11. \A j \in 1 .. Len(ls) - Len(g.rest) : ls[j] \in Settled(layer, more)
    <2>1. ls[Len(ls) - Len(f.rest) + 1] \in Settled(layer, more)
      BY <1>10
    <2> HIDE DEF ls, f
    <2>2. ASSUME NEW j \in 1 .. Len(ls) - Len(g.rest)
          PROVE  j \in 1 .. Len(ls) - Len(f.rest) \/ j = Len(ls) - Len(f.rest) + 1
      BY <1>10
    <2> QED  BY <1>9, <2>1, <2>2
  <1>12. FrameOK(u, n, layer, more)
    <2>1. ~(n < Len(u)) /\ u[n] = g /\ g.id = m
      BY <1>1, <1>6, <1>8
    <2> HIDE DEF f, n
    <2> QED  BY <1>9, <1>10, <1>11, <2>1 DEF FrameOK
  <1>13. ASSUME NEW d \in 1 .. n, d # n
         PROVE  FrameOK(u, d, layer, more)
    <2>1. d + 1 \in 1 .. n /\ u[d] = s[d]
      BY <1>1, <1>8, <1>13
    <2>2. u[d + 1].id = s[d + 1].id
      BY <1>6, <1>8, <2>1
    <2>3. FrameOK(s, d, layer, more) /\ Len(u) = Len(s)
      BY <1>2, <1>8
    <2> QED  BY <2>1, <2>2, <2>3 DEF FrameOK
  <1>14. u[1].id = top
    BY <1>1, <1>6, <1>8
  <1>15. \A d \in 1 .. Len(u) : FrameOK(u, d, layer, more)
    BY <1>8, <1>12, <1>13
  <1>16. Len(u) > 0
    BY <1>1, <1>8
  <1> QED  BY <1>5, <1>8, <1>14, <1>15, <1>16 DEF StackOK

LEMMA StackEnters ==
  ASSUME NEW s, NEW top, NEW layer, NEW done, StackOK(s, top, layer, done),
         s[Len(s)].rest # << >>, NEW l, l = s[Len(s)].rest[1], IsNet(layer, l),
         l \in DOMAIN layer, layer[l].layers \in Seq(DOMAIN layer)
  PROVE  StackOK(Append(s, [id |-> l, rest |-> layer[l].layers]), top, layer, done)
  <1> DEFINE n == Len(s)
             c == [id |-> l, rest |-> layer[l].layers]
             u == Append(s, c)
             S == DOMAIN layer
  <1>1. IsSeq(s) /\ n \in Nat \ {0} /\ s[1].id = top /\ \A d \in 1 .. n : FrameOK(s, d, layer, done)
    BY DEF StackOK, IsSeq
  <1>2. c.id = l /\ c.rest = layer[l].layers
    OBVIOUS
  <1>3. RestOf(layer[l].layers, layer[l].layers, S)
    BY RestBegins
  <1>4. Len(layer[l].layers) - Len(layer[l].layers) = 0
    OBVIOUS
  <1> HIDE DEF c
  <1>5. IsSeq(u) /\ Len(u) = n + 1 /\ u[n + 1] = c /\ \A i \in 1 .. n : u[i] = s[i]
    BY <1>1, AppendSeq
  <1> HIDE DEF u
  <1>6. FrameOK(u, n + 1, layer, done)
    <2>1. ~(n + 1 < Len(u)) /\ u[n + 1] = c
      BY <1>1, <1>5
    <2> HIDE DEF n
    <2> QED  BY <1>2, <1>3, <1>4, <2>1 DEF FrameOK
  <1>7. ASSUME NEW d \in 1 .. n
        PROVE  FrameOK(u, d, layer, done)
    <2>1. FrameOK(s, d, layer, done) /\ u[d] = s[d]
      BY <1>1, <1>5
    <2>2. CASE d = n
      <3>1. s[d].rest # << >> /\ s[d].rest[1] = u[d + 1].id /\ IsNet(layer, u[d + 1].id)
        BY <1>2, <1>5, <2>2
      <3> QED  BY <2>1, <3>1 DEF FrameOK
    <2>3. CASE d # n
      <3>1. d + 1 \in 1 .. n /\ d < n
        BY <1>1, <2>3
      <3>2. u[d + 1] = s[d + 1]
        BY <1>5, <3>1
      <3> QED  BY <2>1, <3>1, <3>2 DEF FrameOK
    <2> QED  BY <2>2, <2>3
  <1>8. \A d \in 1 .. n + 1 : d \in 1 .. n \/ d = n + 1
    BY <1>1
  <1>9. \A d \in 1 .. Len(u) : FrameOK(u, d, layer, done)
    BY <1>5, <1>6, <1>7, <1>8
  <1>10. u[1].id = top /\ Len(u) > 0
    BY <1>1, <1>5
  <1>11. StackOK(u, top, layer, done)
    BY <1>5, <1>9, <1>10 DEF StackOK
  <1> QED  BY <1>11 DEF u, c

LEMMA StackPops ==
  ASSUME NEW s, NEW top, NEW layer, NEW done, StackOK(s, top, layer, done), Len(s) > 1
  PROVE  LET q == SubSeq(s, 1, Len(s) - 1)
         IN  /\ StackOK(q, top, layer, done)
             /\ q[Len(q)].rest # << >>
             /\ q[Len(q)].rest[1] = s[Len(s)].id
             /\ IsNet(layer, s[Len(s)].id)
  <1> DEFINE n == Len(s)
             q == SubSeq(s, 1, n - 1)
  <1>1. /\ IsSeq(s) /\ n \in Nat /\ n - 1 \in 1 .. n /\ n - 1 < n /\ (n - 1) + 1 = n
        /\ s[1].id = top /\ \A d \in 1 .. n : FrameOK(s, d, layer, done)
    BY DEF StackOK, IsSeq
  <1>2. IsSeq(q) /\ Len(q) = n - 1 /\ \A i \in 1 .. n - 1 : q[i] = s[i]
    <2>1. n > 0
      BY <1>1
    <2> QED  BY <1>1, <2>1, PopSeq DEF Pop
  <1> HIDE DEF q
  <1>3. ASSUME NEW d \in 1 .. n - 1
        PROVE  FrameOK(q, d, layer, done)
    <2>1. FrameOK(s, d, layer, done) /\ q[d] = s[d] /\ d < n
      BY <1>1, <1>2
    <2>2. d < Len(q) => q[d + 1] = s[d + 1]
      BY <1>1, <1>2
    <2> QED  BY <2>1, <2>2 DEF FrameOK
  <1>4. n - 1 \in 1 .. n - 1 /\ n - 1 > 0 /\ 1 \in 1 .. n - 1
    BY <1>1
  <1>5. q[1].id = top /\ q[n - 1] = s[n - 1]
    BY <1>1, <1>2, <1>4
  <1>6. /\ s[n - 1].rest # << >> /\ s[n - 1].rest[1] = s[n].id
        /\ IsNet(layer, s[n].id)
    <2>1. FrameOK(s, n - 1, layer, done)
      BY <1>1
    <2> QED  BY <1>1, <2>1 DEF FrameOK
  <1>7. StackOK(q, top, layer, done)
    BY <1>2, <1>3, <1>4, <1>5 DEF StackOK
  <1> QED  BY <1>2, <1>5, <1>6, <1>7 DEF q

\* A model whose layers are all made.
LEMMA FrameDone ==
  ASSUME NEW s, NEW top, NEW layer, NEW done, StackOK(s, top, layer, done),
         s[Len(s)].rest = << >>
  PROVE  LET m == s[Len(s)].id
         IN  m \in DOMAIN layer /\ (IsNet(layer, m) => m \in Settled(layer, done))
  <1> DEFINE n == Len(s)
             m == s[n].id
             ls == layer[m].layers
  <1>1. FrameOK(s, n, layer, done)
    <2>1. n \in 1 .. n
      BY DEF StackOK, IsSeq
    <2> QED  BY <2>1 DEF StackOK
  <1>2. /\ m \in DOMAIN layer /\ ls \in Seq(DOMAIN layer)
        /\ \A j \in 1 .. Len(ls) - Len(s[n].rest) : ls[j] \in Settled(layer, done)
    BY <1>1 DEF FrameOK, RestOf
  <1>3. Len(ls) - Len(s[n].rest) = Len(ls)
    BY <1>2
  <1>4. Children(layer, m) \subseteq Settled(layer, done)
    BY <1>2, <1>3 DEF Children
  <1> QED  BY <1>2, <1>4, NetSettled

-----------------------------------------------------------------------------
(***************************************************************************)
(* Creating the layers.                                                    *)
(***************************************************************************)
LEMMA StackAtNext ==
  ASSUME NEW s, NEW top, NEW layer, NEW done, StackOK(s, top, layer, done),
         s[Len(s)].rest # << >>
  PROVE  s[Len(s)].rest[1] \in DOMAIN layer
  <1> DEFINE f == s[Len(s)]
  <1>1. FrameOK(s, Len(s), layer, done)
    <2>1. Len(s) \in 1 .. Len(s)
      BY DEF StackOK, IsSeq
    <2> QED  BY <2>1 DEF StackOK
  <1>2. PICK rest : rest = f.rest
    OBVIOUS
  <1>3. PICK ls : ls = layer[f.id].layers
    OBVIOUS
  <1>4. RestOf(rest, ls, DOMAIN layer) /\ rest # << >>
    BY <1>1, <1>2, <1>3 DEF FrameOK
  <1> QED  BY <1>2, <1>4, RestAdvances

LEMMA MadeKept ==
  ASSUME json' = json, NEW l, NEW entry, MadeOK(json, l, entry)
  PROVE  MadeOK(json, l, entry)'
  <1>1. Loader!Applies(l)' = Loader!Applies(l)
    BY DEF Loader!Applies, Loader!OwnFunction, Loader!SetsActivation, Loader!Created,
           Loader!AlphaOr1, Loader!Attribute
  <1>2. Loader!Offsets(l)' = Loader!Offsets(l)
    BY DEF Loader!Offsets, Loader!Attribute
  <1> QED  BY <1>1, <1>2 DEF MadeOK

LEMMA CreateLayerKeeps ==
  ASSUME Creating, IsDocument(json), Loader!CreateLayer
  PROVE  Creating'
  <1> DEFINE a == json.architecture
  <1>1. PICK l : l = creating[Len(creating)].rest[1]
    OBVIOUS
  <1>2. PICK at : at = a.layer[l]
    OBVIOUS
  <1>3. /\ creating[Len(creating)].rest # << >>
        /\ at.class \in Loader!Creators /\ at.class # "Model"
        /\ at.activation \in Loader!Activations \cup {Loader!NoActivation}
        /\ creating' = Loader!Advance(creating)
        /\ json' = json
    BY <1>1, <1>2 DEF Loader!CreateLayer, Loader!AtLayer, Loader!Innermost, Loader!Known,
           Loader!Nested, Loader!NextLayer, Loader!Attribute, Loader!GotActivation
  <1>4. PICK entry :
          entry = [weights |-> IF Loader!HasParams(l) THEN Loader!Param(l) ELSE Loader!NoWeights,
                   offsets |-> Loader!Offsets(l),
                   applies |-> Loader!Applies(l)]
    OBVIOUS
  <1>5. /\ DOMAIN made' = DOMAIN made \cup {l}
        /\ made'[l] = entry
        /\ \A x \in DOMAIN made : x # l => made'[x] = made[x]
    <2>1. made' = [x \in DOMAIN made \cup {l} |->
                     IF x = l
                     THEN [weights |-> IF Loader!HasParams(x) THEN Loader!Param(x)
                                       ELSE Loader!NoWeights,
                           offsets |-> Loader!Offsets(x),
                           applies |-> Loader!Applies(x)]
                     ELSE made[x]]
      BY <1>1 DEF Loader!CreateLayer, Loader!NextLayer, Loader!Innermost
    <2> QED  BY <1>4, <2>1
  <1>6. StackOK(creating, a.top, a.layer, DOMAIN made)
    BY DEF Creating
  <1>7. l \in DOMAIN a.layer
    BY <1>1, <1>3, <1>6, StackAtNext
  <1>8. l \in Settled(a.layer, DOMAIN made')
    <2>1. ~IsNet(a.layer, l)
      BY <1>2, <1>3 DEF IsNet, Converter!NestedClasses, Loader!Creators
    <2> QED  BY <1>5, <1>7, <2>1, LayerSettled
  <1>9. StackOK(creating', a.top, a.layer, DOMAIN made')
    <2>1. PICK s : s = creating
      OBVIOUS
    <2>2. PICK more : more = DOMAIN made'
      OBVIOUS
    <2>3. StackOK(Loader!Advance(s), a.top, a.layer, more)
      BY <1>1, <1>3, <1>5, <1>6, <1>8, <2>1, <2>2, StackAdvances
    <2> QED  BY <1>3, <2>1, <2>2, <2>3
  <1>10. MadeOK(json, l, entry)
    <2>1. entry.applies = Loader!Applies(l) /\ entry.offsets = Loader!Offsets(l)
      BY <1>4
    <2>2. ASSUME at.class \in Loader!Parameterised
          PROVE  at.name \in DOMAIN json.params /\ entry.weights = json.params[at.name]
      <3>1. Loader!HasParams(l)
        BY <1>2, <2>2 DEF Loader!HasParams, Loader!Attribute
      <3>2. Loader!Param(l) # Loader!NoWeights
        BY <1>1, <3>1 DEF Loader!CreateLayer, Loader!GotParams, Loader!NextLayer,
                          Loader!Innermost
      <3>3. /\ at.name \in DOMAIN json.params
            /\ Loader!Param(l) = json.params[at.name]
        BY <1>2, <3>2 DEF Loader!Param, Loader!Attribute
      <3> QED  BY <1>4, <3>1, <3>3
    <2> QED  BY <1>2, <1>3, <1>7, <2>1, <2>2 DEF MadeOK
  <1>11. ASSUME NEW x \in DOMAIN made'
         PROVE  MadeOK(json, x, made[x])'
    <2>1. PICK e : e = made'[x]
      OBVIOUS
    <2>2. MadeOK(json, x, e)
      BY <1>5, <1>10, <2>1 DEF Creating
    <2>3. MadeOK(json, x, e)'
      BY <1>3, <2>2, MadeKept
    <2> QED  BY <2>1, <2>3
  <1>12. StackOK(creating, json.architecture.top, json.architecture.layer, DOMAIN made)'
    BY <1>3, <1>9
  <1> QED  BY <1>11, <1>12 DEF Creating

LEMMA MadeUnchanged ==
  ASSUME Creating, UNCHANGED <<json, made>>
  PROVE  \A l \in DOMAIN made' : MadeOK(json, l, made[l])'
  <1> TAKE l \in DOMAIN made'
  <1>1. PICK e : e = made[l]
    OBVIOUS
  <1>2. MadeOK(json, l, e)
    BY <1>1 DEF Creating
  <1>3. MadeOK(json, l, e)'
    BY <1>2, MadeKept
  <1> QED  BY <1>1, <1>3

LEMMA EnterNestedKeeps ==
  ASSUME Creating, Sound(json), Loader!EnterNested
  PROVE  Creating'
  <1> DEFINE a == json.architecture
  <1>1. PICK l : l = creating[Len(creating)].rest[1]
    OBVIOUS
  <1>2. /\ creating[Len(creating)].rest # << >> /\ a.layer[l].class = "Model"
        /\ creating' = Append(creating, [id |-> l, rest |-> a.layer[l].layers])
        /\ UNCHANGED <<json, made>>
    BY <1>1 DEF Loader!EnterNested, Loader!AtLayer, Loader!Innermost,
           Loader!Nested, Loader!NextLayer, Loader!Attribute
  <1>3. StackOK(creating, a.top, a.layer, DOMAIN made)
    BY DEF Creating
  <1>4. l \in DOMAIN a.layer
    BY <1>1, <1>2, <1>3, StackAtNext
  <1>5. a.layer[l].layers \in Seq(DOMAIN a.layer) /\ IsNet(a.layer, l)
    BY <1>2, <1>4 DEF Sound, IsNet, Converter!NestedClasses
  <1>6. StackOK(creating', a.top, a.layer, DOMAIN made)
    BY <1>1, <1>2, <1>3, <1>4, <1>5, StackEnters
  <1>7. StackOK(creating, json.architecture.top, json.architecture.layer, DOMAIN made)'
    BY <1>2, <1>6
  <1> QED  BY <1>2, <1>7, MadeUnchanged DEF Creating

LEMMA NestedMadeKeeps ==
  ASSUME Creating, Loader!NestedMade
  PROVE  Creating'
  <1> DEFINE a == json.architecture
  <1>1. PICK s : s = creating
    OBVIOUS
  <1>2. PICK q : q = SubSeq(s, 1, Len(s) - 1)
    OBVIOUS
  <1>3. /\ Len(s) > 1 /\ s[Len(s)].rest = << >> /\ creating' = Loader!Advance(q)
        /\ UNCHANGED <<json, made>>
    BY <1>1, <1>2 DEF Loader!NestedMade, Loader!AtModel, Loader!Innermost
  <1>4. StackOK(s, a.top, a.layer, DOMAIN made)
    BY <1>1 DEF Creating
  <1>5. /\ StackOK(q, a.top, a.layer, DOMAIN made)
        /\ q[Len(q)].rest # << >> /\ q[Len(q)].rest[1] = s[Len(s)].id
        /\ IsNet(a.layer, s[Len(s)].id)
    BY <1>2, <1>3, <1>4, StackPops
  <1>6. s[Len(s)].id \in Settled(a.layer, DOMAIN made)
    BY <1>3, <1>4, <1>5, FrameDone
  <1>7. StackOK(Loader!Advance(q), a.top, a.layer, DOMAIN made)
    BY <1>5, <1>6, StackAdvances
  <1>8. StackOK(creating, json.architecture.top, json.architecture.layer, DOMAIN made)'
    BY <1>3, <1>7
  <1> QED  BY <1>3, <1>8, MadeUnchanged DEF Creating

LEMMA ReadModelBegins ==
  ASSUME IsDocument(file), IsKnown(file), NEW v, Loader!ReadModel(v)
  PROVE  Creating'
  <1> DEFINE a == file.architecture
  <1>1. /\ json' = file /\ made' = << >>
        /\ creating' = <<[id |-> a.top, rest |-> a.layer[a.top].layers]>>
    BY DEF Loader!ReadModel, Loader!Readable, Loader!Top, Loader!NoLayers, IsDocument
  <1>2. /\ a.top \in DOMAIN a.layer
        /\ a.layer[a.top].layers \in Seq(DOMAIN a.layer)
    BY KnownIsSound DEF Sound
  <1>3. StackOK(<<[id |-> a.top, rest |-> a.layer[a.top].layers]>>, a.top, a.layer, DOMAIN made')
    BY <1>2, StackBegins
  <1>4. StackOK(creating, json.architecture.top, json.architecture.layer, DOMAIN made)'
    BY <1>1, <1>3
  <1>5. DOMAIN made' = {}
    BY <1>1
  <1> QED  BY <1>4, <1>5 DEF Creating

-----------------------------------------------------------------------------
(***************************************************************************)
(* What has been created from a converted model.                           *)
(***************************************************************************)
LEMMA AppliesAsKeras ==
  ASSUME NEW l, NEW at, at = json.architecture.layer[l],
         at.class \in Loader!Creators \ {"Model"},
         at.activation \in Loader!Activations \cup {Loader!NoActivation},
         NEW x, x.class = at.class, x.activation = at.activation, x.alpha = at.alpha,
         AlphaFits(x)
  PROVE  Loader!Applies(l) = Loader!KerasApplies(x)
  <1> DEFINE act == at.activation
             own == Loader!OwnFunction(l)
  <1>1. /\ Loader!Attribute(l) = at
        /\ act # "leaky_relu" /\ at.class \notin {"elu", "leaky_relu"}
    BY DEF Loader!Attribute, Loader!Creators, Loader!Activations, Loader!NoActivation
  <1>2. Loader!AlphaOr1(l) = IF at.alpha = Loader!NoAlpha THEN "1" ELSE at.alpha
    BY <1>1 DEF Loader!AlphaOr1
  <1>3. at.alpha = Loader!NoAlpha => Loader!Created(l, act) = Loader!KerasActivation(act)
    BY <1>1, <1>2 DEF Loader!Created, Loader!KerasActivation
  <1>4. Loader!Applies(l) =
          <<own>> \o IF at.class # "Activation" /\ act # Loader!NoActivation
                     THEN <<Loader!Created(l, act)>> ELSE << >>
    BY <1>1 DEF Loader!Applies, Loader!SetsActivation
  <1>5. <<own>> \o << >> = <<own>>
    OBVIOUS
  <1>6. CASE at.class = "Activation"
    <2>1. at.alpha = Loader!NoAlpha
      BY <1>6 DEF AlphaFits
    <2>2. own = Loader!Created(l, act)
      BY <1>1, <1>6 DEF Loader!OwnFunction
    <2>3. Loader!KerasApplies(x) = <<Loader!KerasActivation(act)>>
      BY <1>6 DEF Loader!KerasApplies
    <2> HIDE DEF own
    <2> QED  BY <1>3, <1>4, <1>5, <1>6, <2>1, <2>2, <2>3
  <1>7. CASE at.class = "LeakyReLU"
    <2>1. at.alpha # Loader!NoAlpha /\ act = Loader!NoActivation
      BY <1>7 DEF AlphaFits
    <2>2. own = [function |-> "leaky_relu", alpha |-> at.alpha]
      BY <1>1, <1>2, <1>7, <2>1 DEF Loader!OwnFunction, Loader!Created
    <2>3. Loader!KerasApplies(x) = <<[function |-> "leaky_relu", alpha |-> at.alpha]>>
      BY <1>7 DEF Loader!KerasApplies
    <2> HIDE DEF own
    <2> QED  BY <1>4, <1>5, <2>1, <2>2, <2>3
  <1>8. CASE at.class = "ELU"
    <2>1. at.alpha # Loader!NoAlpha /\ act = Loader!NoActivation
      BY <1>8 DEF AlphaFits
    <2>2. own = [function |-> "elu", alpha |-> at.alpha]
      BY <1>1, <1>2, <1>8, <2>1 DEF Loader!OwnFunction, Loader!Created
    <2>3. Loader!KerasApplies(x) = <<[function |-> "elu", alpha |-> at.alpha]>>
      BY <1>8 DEF Loader!KerasApplies
    <2> HIDE DEF own
    <2> QED  BY <1>4, <1>5, <2>1, <2>2, <2>3
  <1>9. CASE at.class \notin {"Activation", "LeakyReLU", "ELU"}
    <2>1. at.alpha = Loader!NoAlpha
      BY <1>9 DEF AlphaFits
    <2>2. own = Loader!KerasActivation(at.class)
      BY <1>1, <1>9 DEF Loader!OwnFunction, Loader!Created, Loader!KerasActivation
    <2>3. Loader!KerasApplies(x) =
            <<Loader!KerasActivation(at.class)>>
              \o IF act = Loader!NoActivation THEN << >> ELSE <<Loader!KerasActivation(act)>>
      BY <1>9 DEF Loader!KerasApplies
    <2> HIDE DEF own
    <2> QED  BY <1>3, <1>4, <1>9, <2>1, <2>2, <2>3
  <1> QED  BY <1>6, <1>7, <1>8, <1>9

\* The flags a creator asks a converted document for are those of the operation
\* that Keras performs.
LEMMA OffsetsAsKeras ==
  ASSUME NEW l, NEW at, at = json.architecture.layer[l],
         at.class \in Loader!Creators, json.offsets = Converter!Measured
  PROVE  Loader!Offsets(l) = Loader!KerasOffsets(at.class)
  <1> DEFINE asked == Loader!OffsetsOf(at.class)
             done == {o \in DOMAIN Loader!PerformedFor : at.class \in Loader!PerformedFor[o]}
  <1>1. /\ DOMAIN Loader!PerformedFor = Converter!Operations
        /\ Loader!PerformedFor["conv2d"] = {"Conv1D", "Conv2D"}
        /\ Loader!PerformedFor["separable_conv2d"] = {"SeparableConv1D", "SeparableConv2D"}
        /\ Loader!PerformedFor["max_pooling_2d"] = {"MaxPooling1D", "MaxPooling2D"}
        /\ Loader!PerformedFor["average_pooling_2d"] = {"AveragePooling1D", "AveragePooling2D"}
    BY DEF Loader!PerformedFor, Converter!Operations
  <1>2. ASSUME NEW o
        PROVE  o \in asked <=> o \in Converter!Operations /\ at.class \in Loader!PerformedFor[o]
    BY <1>1 DEF Loader!OffsetsOf, Converter!Operations
  <1>3. asked = done /\ asked \subseteq Converter!Operations
    BY <1>1, <1>2
  <1>4. \A o \in Converter!Operations : json.offsets[o] = o
    BY DEF Converter!Measured
  <1>5. Loader!Offsets(l) = [o \in asked |-> json.offsets[o]]
    BY DEF Loader!Offsets, Loader!Attribute
  <1>6. Loader!KerasOffsets(at.class) = [o \in done |-> o]
    BY DEF Loader!KerasOffsets
  <1> HIDE DEF asked, done
  <1> QED  BY <1>3, <1>4, <1>5, <1>6

LEMMA AllLoaded ==
  ASSUME IsDocument(json), IsKnown(json), Creating, Len(creating) = 1,
         creating[1].rest = << >>,
         NEW k \in KerasModels, json.architecture = Converted(k),
         NEW m, m.layers = made
  PROVE  Loaded(m, k) /\ json.output_shapes = ShapesOf(k)
  <1> DEFINE layer == Converted(k).layer
  <1>1. FromKeras(json, k)
    BY KnownIsFromKeras
  <1>2. IsKerasModel(k) /\ \A l \in DOMAIN k.layer : IsLayer(k.layer, l)
    BY KerasAssumption DEF IsKerasModel
  <1>3. Converted(k).top = k.top /\ DOMAIN layer = DOMAIN k.layer
    BY <1>2, ConvertedLayers
  <1>4. \A l \in DOMAIN k.layer :
          /\ layer[l].name = k.layer[l].name
          /\ layer[l].activation = k.layer[l].activation
          /\ layer[l].alpha = k.layer[l].alpha
          /\ layer[l].layers = k.layer[l].layers
          /\ IsNet(layer, l) <=> ~Plain(k, l)
          /\ Plain(k, l) => layer[l].class = k.layer[l].class
    BY <1>2, ConvertedLayers
  <1>5. /\ StackOK(creating, k.top, layer, DOMAIN made)
        /\ \A l \in DOMAIN made : MadeOK(json, l, made[l])
    BY <1>3 DEF Creating
  <1>6. json.architecture.layer = layer
    OBVIOUS
  <1> HIDE DEF layer
  <1>7. k.top \in Settled(layer, DOMAIN made)
    <2>1. k.top \in DOMAIN k.layer /\ ~Plain(k, k.top)
      BY <1>2 DEF IsKerasModel
    <2>2. IsNet(layer, k.top)
      BY <1>4, <2>1
    <2>3. creating[1].id = k.top
      BY <1>5 DEF StackOK
    <2> QED  BY <1>5, <2>2, <2>3, FrameDone
  <1>8. \A l \in DOMAIN k.layer : Plain(k, l) => l \in DOMAIN made
    <2>1. \A l \in DOMAIN layer : /\ IsNet(layer, l) <=> ~Plain(k, l)
                                  /\ layer[l].layers = k.layer[l].layers
      BY <1>3, <1>4
    <2> QED  BY <1>2, <1>3, <1>7, <2>1, AllSettled
  <1>9. ASSUME NEW l \in DOMAIN made
        PROVE  /\ l \in DOMAIN k.layer /\ Plain(k, l)
               /\ layer[l].class \in Loader!Creators \ {"Model"}
               /\ layer[l].class = k.layer[l].class
    <2>1. l \in DOMAIN layer /\ layer[l].class \in Loader!Creators \ {"Model"}
      BY <1>5, <1>6 DEF MadeOK
    <2>2. ~IsNet(layer, l)
      BY <2>1 DEF IsNet, Converter!NestedClasses, Loader!Creators
    <2> QED  BY <1>3, <1>4, <2>1, <2>2
  <1>10. ASSUME NEW l \in DOMAIN made, Weighted(k, l)
         PROVE  made[l].weights = l
    <2>1. layer[l].class \in Loader!Parameterised
      BY <1>9, <1>10 DEF Weighted, Converter!ShowFunctions, Loader!Creators, Loader!Parameterised
    <2>2. made[l].weights = json.params[layer[l].name]
      BY <1>5, <1>6, <2>1 DEF MadeOK
    <2>3. json.params[k.layer[l].name] = l
      BY <1>1, <1>9, <1>10 DEF FromKeras, Exported
    <2> QED  BY <1>4, <1>9, <2>2, <2>3
  <1>11. ASSUME NEW l \in DOMAIN made
         PROVE  made[l].applies = Loader!KerasApplies(k.layer[l])
    <2>1. /\ layer[l].activation \in Loader!Activations \cup {Loader!NoActivation}
          /\ made[l].applies = Loader!Applies(l)
      BY <1>5, <1>6 DEF MadeOK
    <2>2. AlphaFits(k.layer[l])
      BY <1>2, <1>9 DEF IsKerasModel
    <2>3. PICK at : at = layer[l]
      OBVIOUS
    <2>4. PICK x : x = k.layer[l]
      OBVIOUS
    <2>5. /\ at = json.architecture.layer[l]
          /\ at.class \in Loader!Creators \ {"Model"}
          /\ at.activation \in Loader!Activations \cup {Loader!NoActivation}
          /\ x.class = at.class /\ x.activation = at.activation /\ x.alpha = at.alpha
          /\ AlphaFits(x)
      BY <1>4, <1>6, <1>9, <2>1, <2>2, <2>3, <2>4
    <2>6. Loader!Applies(l) = Loader!KerasApplies(x)
      BY <2>5, AppliesAsKeras
    <2> QED  BY <2>1, <2>4, <2>6
  <1>12. ASSUME NEW l \in DOMAIN made
         PROVE  made[l].offsets = Loader!KerasOffsets(k.layer[l].class)
    <2>1. PICK at : at = layer[l]
      OBVIOUS
    <2>2. /\ at = json.architecture.layer[l] /\ at.class \in Loader!Creators
          /\ at.class = k.layer[l].class
      BY <1>6, <1>9, <2>1
    <2>3. json.offsets = Converter!Measured
      BY <1>1 DEF FromKeras
    <2>4. Loader!Offsets(l) = Loader!KerasOffsets(at.class)
      BY <2>2, <2>3, OffsetsAsKeras
    <2>5. made[l].offsets = Loader!Offsets(l)
      BY <1>5 DEF MadeOK
    <2> QED  BY <2>2, <2>4, <2>5
  <1>13. DOMAIN made = {l \in DOMAIN k.layer : Plain(k, l)}
    BY <1>8, <1>9
  <1>14. json.output_shapes = ShapesOf(k)
    BY <1>1 DEF FromKeras
  <1> QED  BY <1>10, <1>11, <1>12, <1>13, <1>14 DEF Loaded

LEMMA ModelMadeIsOK ==
  ASSUME IsDocument(json), IsKnown(json), Creating, Loader!ModelMade
  PROVE  ModelOK' /\ model'.architecture = json.architecture
  <1>1. /\ Len(creating) = 1 /\ creating[1].rest = << >>
        /\ model' = [architecture |-> json.architecture, layers |-> made,
                     shapes |-> json.output_shapes]
    BY DEF Loader!ModelMade, Loader!AtModel, Loader!Innermost
  <1>2. PICK m : m = model'
    OBVIOUS
  <1>3. /\ m.architecture = json.architecture /\ m.layers = made
        /\ m.shapes = json.output_shapes
    BY <1>1, <1>2
  <1>4. m # Loader!NoModel
    <2>1. DOMAIN m = {"architecture", "layers", "shapes"} /\ DOMAIN Loader!NoModel = {"top"}
      BY <1>1, <1>2 DEF Loader!NoModel
    <2> QED  BY <2>1
  <1>5. AreOutputs(m.architecture.outputs)
    BY <1>3, KnownIsSound DEF Sound
  <1>6. ASSUME NEW k \in KerasModels, m.architecture = Converted(k)
        PROVE  Loaded(m, k) /\ m.shapes = ShapesOf(k)
    BY <1>1, <1>3, <1>6, AllLoaded
  <1> QED  BY <1>2, <1>3, <1>4, <1>5, <1>6 DEF ModelOK

-----------------------------------------------------------------------------
(***************************************************************************)
(* The steps of the loader.                                                *)
(***************************************************************************)
LEMMA ThrowKeeps ==
  ASSUME LoaderInv, Loader!Throw
  PROVE  LoaderInv'
  <1>1. load' = "threw" /\ creating' = << >> /\ json'.state = "freed"
    BY DEF Loader!Throw, Loader!Freed
  <1>2. VerifiedIsRight'
    BY <1>1 DEF VerifiedIsRight
  <1> QED  BY <1>1, <1>2 DEF LoaderInv

LEMMA ReadModelKeeps ==
  ASSUME LoaderInv, FileInv, NEW v, Loader!ReadModel(v)
  PROVE  LoaderInv'
  <1>1. CASE Loader!Readable
    <2>1. load' = "creating" /\ json' = file
      BY <1>1 DEF Loader!ReadModel
    <2>2. IsDocument(file) /\ IsKnown(file)
      BY <1>1 DEF Loader!Readable, FileInv, IsDocument
    <2>3. Creating'
      BY <2>2, ReadModelBegins
    <2>4. VerifiedIsRight'
      BY <2>1 DEF VerifiedIsRight
    <2>5. (IsDocument(json) /\ IsKnown(json))' /\ json'.state = "complete"
      BY <2>1, <2>2 DEF IsDocument
    <2> QED  BY <2>1, <2>3, <2>4, <2>5 DEF LoaderInv
  <1>2. CASE ~Loader!Readable
    <2>1. load' = "threw" /\ creating' = << >> /\ json'.state = "freed"
      BY <1>2 DEF Loader!ReadModel, Loader!Freed
    <2>2. VerifiedIsRight'
      BY <2>1 DEF VerifiedIsRight
    <2> QED  BY <2>1, <2>2 DEF LoaderInv
  <1> QED  BY <1>1, <1>2

LEMMA CreatingKeeps ==
  ASSUME LoaderInv,
         \/ Loader!CreateLayer \/ Loader!EnterNested \/ Loader!NestedMade
  PROVE  LoaderInv'
  <1>1. load = "creating" /\ UNCHANGED <<load, json>>
    BY DEF Loader!CreateLayer, Loader!EnterNested, Loader!NestedMade,
           Loader!AtLayer, Loader!AtModel
  <1>2. IsDocument(json) /\ IsKnown(json) /\ Creating
    BY <1>1 DEF LoaderInv
  <1>3. Sound(json)
    BY <1>2, KnownIsSound
  <1>4. Creating'
    BY <1>2, <1>3, CreateLayerKeeps, EnterNestedKeeps, NestedMadeKeeps
  <1>5. VerifiedIsRight'
    BY <1>1 DEF VerifiedIsRight
  <1>6. (IsDocument(json) /\ IsKnown(json))'
    BY <1>1, <1>2
  <1> QED  BY <1>1, <1>4, <1>5, <1>6 DEF LoaderInv

LEMMA ModelMadeKeeps ==
  ASSUME LoaderInv, Loader!ModelMade
  PROVE  LoaderInv'
  <1>1. /\ load = "creating" /\ creating' = << >> /\ UNCHANGED <<verify, json>>
        /\ load' = IF verify THEN "verifying" ELSE "returned"
    BY DEF Loader!ModelMade, Loader!AtModel
  <1>2. IsDocument(json) /\ IsKnown(json) /\ Creating
    BY <1>1 DEF LoaderInv
  <1>3. ModelOK' /\ model'.architecture = json.architecture
    BY <1>2, ModelMadeIsOK
  <1>4. VerifiedIsRight'
    BY <1>1 DEF VerifiedIsRight
  <1>5. (IsDocument(json) /\ IsKnown(json))' /\ (model.architecture = json.architecture)'
    BY <1>1, <1>2, <1>3
  <1>6. load' \in {"verifying", "returned"}
    BY <1>1
  <1> QED  BY <1>1, <1>3, <1>4, <1>5, <1>6 DEF LoaderInv

LEMMA NoTestsKeeps ==
  ASSUME LoaderInv, Loader!NoTests
  PROVE  LoaderInv'
  <1>1. /\ load = "verifying" /\ load' = "returned" /\ json.tests = << >>
        /\ UNCHANGED <<verify, json, creating, model>>
    BY DEF Loader!NoTests
  <1>2. /\ IsDocument(json) /\ IsKnown(json) /\ ModelOK
        /\ model.architecture = json.architecture
    BY <1>1 DEF LoaderInv
  <1>3. json \in GivenFiles
    BY <1>1, <1>2, ConvertedIsSound DEF IsKnown
  <1>4. \E f \in GivenFiles : IsDocument(f) /\ f.architecture = model'.architecture
                                            /\ f.tests = << >>
    BY <1>1, <1>2, <1>3
  <1>5. VerifiedIsRight'
    BY <1>4 DEF VerifiedIsRight
  <1>6. ModelOK'
    BY <1>1, <1>2 DEF ModelOK
  <1> QED  BY <1>1, <1>5, <1>6 DEF LoaderInv

LEMMA LoadTestsKeeps ==
  ASSUME LoaderInv, Loader!LoadTests
  PROVE  LoaderInv'
  <1>1. /\ load = "verifying" /\ load' = "testing" /\ json'.state = "freed"
        /\ json.tests # << >> /\ pending' = json.tests
        /\ UNCHANGED <<creating, model>>
    BY DEF Loader!LoadTests, Loader!Freed
  <1>2. IsDocument(json) /\ IsKnown(json) /\ ModelOK
    BY <1>1 DEF LoaderInv
  <1>3. Sound(json)
    BY <1>2, KnownIsSound
  <1>4. Testing'
    BY <1>1, <1>3 DEF Sound, Testing
  <1>5. VerifiedIsRight'
    BY <1>1 DEF VerifiedIsRight
  <1>6. ModelOK'
    BY <1>1, <1>2 DEF ModelOK
  <1> QED  BY <1>1, <1>4, <1>5, <1>6 DEF LoaderInv

LEMMA PassTestKeeps ==
  ASSUME LoaderInv, Loader!PassTest
  PROVE  LoaderInv'
  <1>1. /\ load = "testing" /\ pending # << >> /\ pending' = Tail(pending)
        /\ UNCHANGED <<load, verify, json, creating, model>>
        /\ Loader!OutputsAgree(Loader!Predicted(model), Head(pending))
    BY DEF Loader!PassTest
  <1>2. ModelOK /\ Testing
    BY <1>1 DEF LoaderInv
  <1> DEFINE n == Len(pending)
             P == {pending[i] : i \in 1 .. n}
  <1>3. pending \in Seq(P) /\ \A test \in P : IsTest(test)
    <2>1. IsSeq(pending) /\ \A i \in 1 .. n : IsTest(pending[i]) /\ pending[i] \in P
      BY <1>2 DEF Testing
    <2>2. pending \in Seq(P)
      <3> HIDE DEF P
      <3> QED  BY <2>1, SeqOfItsElements
    <2> QED  BY <2>1, <2>2
  <1> HIDE DEF P
  <1>4. Head(pending) \in P /\ Tail(pending) \in Seq(P)
    BY <1>1, <1>3
  <1>5. Loader!ModelRight(model)
    <2>1. PICK m : m = model
      OBVIOUS
    <2>2. PICK test : test = Head(pending)
      OBVIOUS
    <2>3. IsTest(test) /\ AreOutputs(m.architecture.outputs)
      BY <1>2, <1>3, <1>4, <2>1, <2>2 DEF ModelOK
    <2>4. Loader!OutputsAgree(Loader!Predicted(m), test)
      BY <1>1, <2>1, <2>2
    <2> QED  BY <2>1, <2>3, <2>4, PassingIsRight
  <1>6. PICK t : t = Tail(pending)
    OBVIOUS
  <1>7. IsSeq(t) /\ \A i \in 1 .. Len(t) : IsTest(t[i])
    <2>1. t \in Seq(P)
      BY <1>4, <1>6
    <2>2. \A i \in 1 .. Len(t) : t[i] \in P
      BY <2>1
    <2> QED  BY <1>3, <2>1, <2>2, SeqIsSeq
  <1>8. Testing'
    BY <1>1, <1>5, <1>6, <1>7 DEF Testing
  <1>9. VerifiedIsRight'
    BY <1>1 DEF VerifiedIsRight
  <1>10. ModelOK'
    BY <1>1, <1>2 DEF ModelOK
  <1> QED  BY <1>1, <1>8, <1>9, <1>10 DEF LoaderInv

LEMMA ReturnKeeps ==
  ASSUME LoaderInv, Loader!Return
  PROVE  LoaderInv'
  <1>1. /\ load = "testing" /\ load' = "returned" /\ pending = << >>
        /\ UNCHANGED <<verify, json, creating, model>>
    BY DEF Loader!Return
  <1>2. ModelOK /\ Loader!ModelRight(model)
    BY <1>1 DEF LoaderInv, Testing
  <1>3. VerifiedIsRight' /\ ModelOK'
    BY <1>1, <1>2 DEF VerifiedIsRight, ModelOK
  <1> QED  BY <1>1, <1>3 DEF LoaderInv

LEMMA LoaderStep ==
  ASSUME LoaderInv, FileInv, Loader!Next
  PROVE  LoaderInv'
  <1>1. CASE Loader!Step
    <2>1. CASE \/ Loader!UnknownType \/ Loader!InvalidFloats \/ Loader!OffsetMissing
               \/ Loader!UnknownActivation \/ Loader!NamesNotUnique \/ Loader!FailTest
      <3>1. Loader!Throw
        BY <2>1 DEF Loader!UnknownType, Loader!InvalidFloats, Loader!OffsetMissing,
                    Loader!UnknownActivation, Loader!NamesNotUnique, Loader!FailTest
      <3> QED  BY <3>1, ThrowKeeps
    <2> QED  BY <1>1, <2>1, CreatingKeeps, ModelMadeKeeps, NoTestsKeeps, LoadTestsKeeps,
                PassTestKeeps, ReturnKeeps DEF Loader!Step
  <1>2. ASSUME NEW v \in BOOLEAN, Loader!ReadModel(v)
        PROVE  LoaderInv'
    BY <1>2, ReadModelKeeps
  <1> QED  BY <1>1, <1>2 DEF Loader!Next

\* No step of the converter disturbs the loader.
LEMMA LoaderKept ==
  ASSUME LoaderInv, UNCHANGED loaderVars
  PROVE  LoaderInv'
  <1> USE DEF loaderVars
  <1>1. load = "creating" => Creating'
    <2> SUFFICES ASSUME load = "creating"
                 PROVE  Creating'
      OBVIOUS
    <2>1. Creating
      BY DEF LoaderInv
    <2>2. \A l \in DOMAIN made' : MadeOK(json, l, made[l])'
      BY <2>1, MadeUnchanged
    <2>3. StackOK(creating, json.architecture.top, json.architecture.layer, DOMAIN made)'
      BY <2>1 DEF Creating
    <2> QED  BY <2>2, <2>3 DEF Creating
  <1>2. ModelOK => ModelOK'
    BY DEF ModelOK
  <1>3. Testing => Testing'
    BY DEF Testing
  <1>4. VerifiedIsRight'
    BY DEF VerifiedIsRight, LoaderInv
  <1>5. IsDocument(json) /\ IsKnown(json) => (IsDocument(json) /\ IsKnown(json))'
    OBVIOUS
  <1> QED  BY <1>1, <1>2, <1>3, <1>4, <1>5 DEF LoaderInv

-----------------------------------------------------------------------------
(***************************************************************************)
(* The invariant of the whole.                                             *)
(***************************************************************************)
ExchangeInv == ConverterInv /\ FileInv /\ LoaderInv

LEMMA ExchangeBegins ==
  ASSUME Init
  PROVE  ExchangeInv
  <1> USE DEF Init
  <1>1. ConverterInv
    <2>1. << >> \in Seq(TestTensors)
      OBVIOUS
    <2> QED  BY <2>1 DEF Converter!Init, ConverterInv, RaisesWithReason
  <1>2. FileInv
    BY GivenAssumption DEF FileInv, IsKnown, IsDocument
  <1>3. LoaderInv
    BY DEF Loader!Init, Loader!Freed, LoaderInv, VerifiedIsRight
  <1> QED  BY <1>1, <1>2, <1>3 DEF ExchangeInv

LEMMA ExchangeGoesOn ==
  ASSUME ExchangeInv, [Next]_vars
  PROVE  ExchangeInv'
  <1> USE DEF ExchangeInv
  <1>1. CASE Converter!Next /\ UNCHANGED loaderVars
    BY <1>1, ConverterStep, LoaderKept
  <1>2. CASE Loader!Next /\ UNCHANGED converterVars
    <2>1. UNCHANGED file
      BY <1>2 DEF Loader!Next
    <2> QED  BY <1>2, <2>1, ConverterKept, LoaderStep
  <1>3. CASE UNCHANGED vars
    <2>1. UNCHANGED <<file, converterVars>> /\ UNCHANGED loaderVars
      BY <1>3 DEF vars
    <2> QED  BY <2>1, ConverterKept, LoaderKept
  <1> QED  BY <1>1, <1>2, <1>3 DEF Next

\* The invariant holds of every state of both programs at work on a file,
\* whatever models are converted, whatever was under the path, and however
\* many conversions and loads interleave.
THEOREM ExchangeInvariant == Spec => []ExchangeInv
  <1>1. Init => ExchangeInv
    BY ExchangeBegins
  <1>2. ExchangeInv /\ [Next]_vars => ExchangeInv'
    BY ExchangeGoesOn
  <1> QED  BY <1>1, <1>2, PTL DEF Spec

-----------------------------------------------------------------------------
(***************************************************************************)
(* What follows from it.                                                   *)
(***************************************************************************)
\* The types: among them, that a model is under construction exactly while its
\* layers are created, and that a test made with Keras is a list of tensors.
THEOREM Types == Spec => []TypeOK
  <1>1. ExchangeInv => TypeOK
    <2> SUFFICES ASSUME ExchangeInv
                 PROVE  TypeOK
      OBVIOUS
    <2>1. ConverterInv /\ FileInv /\ LoaderInv
      BY DEF ExchangeInv
    <2>2. conversion = "exporting" => calls # << >>
      <3>1. conversion = "exporting" => Len(calls) > 0
        BY <2>1 DEF ConverterInv, Exporting
      <3> QED  BY <3>1
    <2>3. load = "creating" <=> creating # << >>
      <3>1. load = "creating" => Len(creating) > 0
        BY <2>1 DEF LoaderInv, Creating, StackOK
      <3> QED  BY <2>1, <3>1 DEF LoaderInv
    <2>4. load \in {"creating", "verifying"} => json.state = "complete"
      BY <2>1 DEF LoaderInv, IsDocument
    <2>5. load = "returned" => model # Loader!NoModel
      BY <2>1 DEF LoaderInv, ModelOK
    <2>6. \A i \in DOMAIN tests : IsArray(tests[i]) /\ Len(tests[i].shape) = 3
      <3>1. tests \in Seq(TestTensors)
        BY <2>1 DEF ConverterInv
      <3>2. \A i \in DOMAIN tests : tests[i] \in TestTensors
        BY <3>1
      <3> QED  BY <3>2 DEF TestTensors
    <2>7. /\ conversion \in {"idle", "normalising", "exporting", "writing", "raised"}
          /\ conversion # "idle" => sequential \subseteq DOMAIN keras.layer
      BY <2>1 DEF ConverterInv
    <2>8. /\ load \in {"idle", "creating", "verifying", "testing", "returned", "threw"}
          /\ json.state \in {"freed", "complete"}
      BY <2>1 DEF LoaderInv
    <2>9. file.state \in {"absent", "partial", "complete"}
      BY <2>1 DEF FileInv
    <2> QED  BY <2>2, <2>3, <2>4, <2>5, <2>6, <2>7, <2>8, <2>9 DEF TypeOK
  <1> QED  BY <1>1, ExchangeInvariant, PTL

\* convert_model.py refuses no model without need: an exception of it goes back
\* to an input of unknown size, to a layer it cannot export, to two layers of one
\* name, one of them with weights, or to the file.
THEOREM ConverterRaisesWithReason == Spec => []RaisesWithReason
  <1>1. ExchangeInv => RaisesWithReason
    BY DEF ExchangeInv, ConverterInv
  <1> QED  BY <1>1, ExchangeInvariant, PTL

\* A converted model, however deeply nested, is loaded with all its layers, each
\* with its own weights from the one map and with its activation applied once.
THEOREM LoadedModelIsConverted == Spec => []LoadedIsConverted
  <1>1. ExchangeInv => LoadedIsConverted
    BY DEF ExchangeInv, LoaderInv, ModelOK, Loaded, LoadedIsConverted
  <1> QED  BY <1>1, ExchangeInvariant, PTL

\* predict does not throw on a converted model, from the moment it is built: the
\* shapes the converter's test has, after arr_as_arr3, are those of the outputs.
THEOREM LoadedModelAnswers == Spec => []LoadedAnswers
  <1>1. ExchangeInv => LoadedAnswers
    <2> SUFFICES ASSUME ExchangeInv, load \in {"verifying", "testing", "returned"},
                        NEW k \in KerasModels, model.architecture = Converted(k)
                 PROVE  Loader!Answers(model)
      BY DEF LoadedAnswers
    <2>1. model.shapes = ShapesOf(k)
      BY DEF ExchangeInv, LoaderInv, ModelOK
    <2>2. AreOutputs(k.outputs)
      BY KerasAssumption DEF IsKerasModel
    <2>3. PICK m : m = model
      OBVIOUS
    <2>4. Loader!Answers(m)
      BY <2>1, <2>2, <2>3, ConvertedAnswers DEF ShapesOf
    <2> QED  BY <2>3, <2>4
  <1> QED  BY <1>1, ExchangeInvariant, PTL

\* load_model with verify hands out no model that computes anything else than
\* Keras did, unless the document had no tests.
THEOREM VerifiedModelIsRight == Spec => []VerifiedIsRight
  <1>1. ExchangeInv => VerifiedIsRight
    BY DEF ExchangeInv, LoaderInv
  <1> QED  BY <1>1, ExchangeInvariant, PTL

LEMMA FailedTestHasReason ==
  ASSUME ModelOK, Testing, Loader!FailTest
  PROVE  \/ ~Loader!ModelRight(model)
         \/ ~Loader!Answers(model)
         \/ \E i \in DOMAIN pending : pending[i] # OwnTest(model)
  <1> SUFFICES ASSUME Loader!ModelRight(model), Loader!Answers(model)
               PROVE  \E i \in DOMAIN pending : pending[i] # OwnTest(model)
    OBVIOUS
  <1>1. /\ pending # << >>
        /\ ~Loader!OutputsAgree(Loader!Predicted(model), Head(pending))
    BY DEF Loader!FailTest
  <1>2. 1 \in DOMAIN pending /\ Head(pending) = pending[1]
    <2> DEFINE P == {pending[i] : i \in 1 .. Len(pending)}
    <2>1. IsSeq(pending) /\ \A i \in 1 .. Len(pending) : pending[i] \in P
      BY DEF Testing
    <2>2. pending \in Seq(P)
      <3> HIDE DEF P
      <3> QED  BY <2>1, SeqOfItsElements
    <2> HIDE DEF P
    <2> QED  BY <1>1, <2>2
  <1>3. Loader!OutputsAgree(Loader!Predicted(model), OwnTest(model))
    <2>1. PICK m : m = model
      OBVIOUS
    <2>2. Loader!OutputsAgree(Loader!Predicted(m), OwnTest(m))
      BY <2>1, RightPasses DEF ModelOK
    <2> QED  BY <2>1, <2>2
  <1> QED  BY <1>1, <1>2, <1>3

LEMMA CreationFailsWithReason ==
  ASSUME IsDocument(json), IsKnown(json), Creating,
         \/ Loader!UnknownType \/ Loader!InvalidFloats \/ Loader!OffsetMissing
         \/ Loader!UnknownActivation \/ Loader!NamesNotUnique
  PROVE  ~Legible(json)
  <1> DEFINE layer == json.architecture.layer
  <1>1. StackOK(creating, json.architecture.top, layer, DOMAIN made)
    BY DEF Creating
  <1>2. CASE Loader!NamesNotUnique
    <2>1. PICK m : m = creating[Len(creating)].id
      OBVIOUS
    <2>2. /\ creating[Len(creating)].rest = << >>
          /\ ~Loader!NamesUnique(m)
      BY <1>2, <2>1 DEF Loader!NamesNotUnique, Loader!AtModel, Loader!Innermost
    <2>3. m \in DOMAIN layer
      BY <1>1, <2>1, <2>2, FrameDone
    <2> QED  BY <2>2, <2>3 DEF Loader!NamesUnique, Loader!Attribute, Legible
  <1>3. ASSUME \/ Loader!UnknownType \/ Loader!InvalidFloats \/ Loader!OffsetMissing
               \/ Loader!UnknownActivation
        PROVE  ~Legible(json)
    <2>1. PICK l : l = creating[Len(creating)].rest[1]
      OBVIOUS
    <2>2. creating[Len(creating)].rest # << >> /\ Loader!NextLayer = l
      BY <1>3, <2>1 DEF Loader!UnknownType, Loader!InvalidFloats, Loader!OffsetMissing,
                        Loader!UnknownActivation, Loader!AtLayer, Loader!Innermost,
                        Loader!NextLayer
    <2>3. l \in DOMAIN layer
      BY <1>1, <2>1, <2>2, StackAtNext
    <2>4. CASE Loader!UnknownType
      BY <2>2, <2>3, <2>4 DEF Loader!UnknownType, Loader!Known, Loader!Attribute, Legible
    <2>5. CASE Loader!OffsetMissing
      BY <2>2, <2>3, <2>5 DEF Loader!OffsetMissing, Loader!GotOffsets, Loader!Attribute, Legible
    <2>6. CASE Loader!UnknownActivation
      BY <2>2, <2>3, <2>6 DEF Loader!UnknownActivation, Loader!GotActivation,
                              Loader!Attribute, Legible
    <2>7. CASE Loader!InvalidFloats
      <3>1. Loader!HasParams(l) /\ Loader!Param(l) = Loader!NoWeights
        BY <2>2, <2>7 DEF Loader!InvalidFloats, Loader!GotParams
      <3>2. layer[l].name \notin DOMAIN json.params
        <4>1. \A n \in DOMAIN json.params : json.params[n] # Loader!NoWeights
          BY KnownIsSound DEF Sound
        <4> QED  BY <3>1, <4>1 DEF Loader!Param, Loader!Attribute, IsDocument
      <3>3. layer[l].class \in LayersWithWeights
        BY <3>1 DEF Loader!HasParams, Loader!Attribute, Loader!Parameterised,
                    LayersWithWeights, Converter!ShowFunctions
      <3> QED  BY <2>3, <3>2, <3>3 DEF Legible
    <2> QED  BY <1>3, <2>4, <2>5, <2>6, <2>7
  <1> QED  BY <1>2, <1>3

\* load_model throws only on a file that is no document, on a document it cannot
\* build a model from, and on a model that does not pass the tests in it.
THEOREM LoaderThrowsWithReason == Spec => LoadThrowsWithReason
  <1> DEFINE Throws == load' = "threw" /\ (load # "threw" \/ loads' # loads)
  <1>1. ASSUME ExchangeInv, Next, Throws
        PROVE  ThrowReason
    <2>0. LoaderInv
      BY <1>1 DEF ExchangeInv
    <2>1. Loader!Next
      <3>1. ~UNCHANGED loaderVars
        BY <1>1 DEF loaderVars
      <3> QED  BY <1>1, <3>1 DEF Next
    <2>2. ASSUME NEW v, Loader!ReadModel(v)
          PROVE  ThrowReason
      BY <1>1, <2>2 DEF Loader!ReadModel, Loader!Readable, IsDocument, ThrowReason
    <2>3. CASE Loader!FailTest
      <3>1. load = "testing"
        BY <2>3 DEF Loader!FailTest
      <3>2. ModelOK /\ Testing
        BY <2>0, <3>1 DEF LoaderInv
      <3> QED  BY <2>3, <3>1, <3>2, FailedTestHasReason DEF ThrowReason
    <2>4. CASE \/ Loader!UnknownType \/ Loader!InvalidFloats \/ Loader!OffsetMissing
               \/ Loader!UnknownActivation \/ Loader!NamesNotUnique
      <3>1. load = "creating"
        BY <2>4 DEF Loader!UnknownType, Loader!InvalidFloats, Loader!OffsetMissing,
                    Loader!UnknownActivation, Loader!NamesNotUnique, Loader!AtLayer,
                    Loader!AtModel
      <3>2. IsDocument(json) /\ IsKnown(json) /\ Creating
        BY <2>0, <3>1 DEF LoaderInv
      <3> QED  BY <2>4, <3>1, <3>2, CreationFailsWithReason DEF ThrowReason
    <2>5. CASE \/ Loader!CreateLayer \/ Loader!EnterNested \/ Loader!NestedMade
               \/ Loader!ModelMade \/ Loader!NoTests \/ Loader!LoadTests
               \/ Loader!PassTest \/ Loader!Return
      <3>1. load' # "threw"
        BY <2>5 DEF Loader!CreateLayer, Loader!EnterNested, Loader!NestedMade,
                    Loader!ModelMade, Loader!NoTests, Loader!LoadTests, Loader!PassTest,
                    Loader!Return, Loader!AtLayer, Loader!AtModel
      <3> QED  BY <1>1, <3>1
    <2> QED  BY <2>1, <2>2, <2>3, <2>4, <2>5 DEF Loader!Next, Loader!Step
  <1>2. ExchangeInv /\ [Next]_vars => [Throws => ThrowReason]_vars
    BY <1>1
  <1> QED  BY <1>2, ExchangeInvariant, PTL DEF Spec, LoadThrowsWithReason
=============================================================================
