-------------------------- MODULE Layers_proofs --------------------------
(* Proofs about the layers.  While networks are built, the next_layer_in   *)
(* globals and the buffers of a thread that builds alone hold what Keras   *)
(* infers (ShapesInv); while a layer's iterations run, in any order, every *)
(* output already written is the trained network's (ForwardInv).           *)
EXTENDS NetworkShapes, LayerForward, Sums_proofs, SequenceTheorems,
        FiniteSetTheorems

-----------------------------------------------------------------------------
(* Shapes: what Keras infers *)

\* Outputs as a function f of the number of layers.
Shapes(f, layers, n) ==
    f = [i \in 0 .. n |->
           IF i = 0 THEN layers[1].input ELSE KerasShape(layers[i], f[i - 1])]

\* There is such a function for any sequence of layers.
LEMMA ShapesExist ==
    ASSUME NEW layers, NEW n \in Nat
    PROVE  \E f : Shapes(f, layers, n)
<1> DEFINE S == {k \in Nat : \E f : Shapes(f, layers, k)}
<1>1. 0 \in S
  <2> DEFINE f == [i \in {0} |-> layers[1].input]
  <2>1. f = [i \in 0 .. 0 |-> IF i = 0 THEN layers[1].input
                              ELSE KerasShape(layers[i], f[i - 1])]
    OBVIOUS
  <2> QED
    BY <2>1 DEF Shapes
<1>2. ASSUME NEW k \in Nat, k \in S
      PROVE  k + 1 \in S
  <2>1. PICK f : f = [i \in 0 .. k |->
                        IF i = 0 THEN layers[1].input
                        ELSE KerasShape(layers[i], f[i - 1])]
    BY <1>2 DEF Shapes
  <2> DEFINE g == [i \in 0 .. k + 1 |->
                     IF i = k + 1 THEN KerasShape(layers[i], f[k]) ELSE f[i]]
  <2>2. ASSUME NEW i \in 0 .. k + 1
        PROVE  g[i] = IF i = 0 THEN layers[1].input
                      ELSE KerasShape(layers[i], g[i - 1])
    <3>1. CASE i = k + 1
      BY <3>1
    <3>2. CASE i # k + 1
      <4>1. i \in 0 .. k /\ g[i] = f[i]
        BY <3>2
      <4>2. i # 0 => i - 1 \in 0 .. k /\ g[i - 1] = f[i - 1]
        BY <4>1
      <4>3. f[i] = IF i = 0 THEN layers[1].input
                   ELSE KerasShape(layers[i], f[i - 1])
        BY <2>1, <4>1
      <4> HIDE DEF g
      <4> QED
        BY <4>1, <4>2, <4>3
    <3> QED
      BY <3>1, <3>2
  <2>3. g = [i \in 0 .. k + 1 |-> IF i = 0 THEN layers[1].input
                                  ELSE KerasShape(layers[i], g[i - 1])]
    BY <2>2
  <2>4. k + 1 \in Nat
    OBVIOUS
  <2> HIDE DEF g
  <2> QED
    BY <2>3, <2>4 DEF Shapes
<1> HIDE DEF S
<1>3. Nat \subseteq S
  BY <1>1, <1>2, SetInduction
<1> QED
  BY <1>3 DEF S

\* Each layer's shape is inferred from that of the layer before it.
LEMMA TrainedSteps ==
    ASSUME NEW layers, Len(layers) \in Nat
    PROVE  /\ Trained(layers)[0] = layers[1].input
           /\ \A i \in 1 .. Len(layers) :
                 Trained(layers)[i] = KerasShape(layers[i], Trained(layers)[i - 1])
<1> DEFINE T == CHOOSE f : Shapes(f, layers, Len(layers))
<1>1. Shapes(T, layers, Len(layers))
  BY ShapesExist
<1>2. Trained(layers) = T
  BY DEF Trained, Shapes
<1> HIDE DEF T
<1>3. \A i \in 0 .. Len(layers) :
         T[i] = IF i = 0 THEN layers[1].input ELSE KerasShape(layers[i], T[i - 1])
  BY <1>1 DEF Shapes
<1>4. T[0] = layers[1].input
  BY <1>3
<1>5. \A i \in 1 .. Len(layers) : T[i] = KerasShape(layers[i], T[i - 1])
  BY <1>3
<1> QED
  BY <1>2, <1>4, <1>5

-----------------------------------------------------------------------------
(* Sequential models *)

Classes == {"Conv2D", "AveragePooling2D", "Flatten", "Dense",
            "GlobalAveragePooling2D", "BatchNormalization", "Activation"}

Headings == {"Flatten", "GlobalAveragePooling2D"}

\* Three dimensions, before the heading, and one behind it.
Spatial(layers, n) == \A i \in 1 .. n : layers[i].class \notin Headings

Dims(layers, n) == IF Spatial(layers, n) THEN 3 ELSE 1

\* The layers of a model, by their class.
LEMMA ModelLayers ==
    ASSUME NEW layers \in Models
    PROVE  /\ Len(layers) \in Nat \ {0} /\ DOMAIN layers = 1 .. Len(layers)
           /\ layers[1].class = "Conv2D" /\ Len(layers[1].input) = 3
           /\ \A i \in 1 .. Len(layers) :
                 /\ layers[i].class \in Classes
                 /\ layers[i].size \in Nat /\ layers[i].window \in Nat
                 /\ layers[i].stride \in Nat \ {0}
                 /\ layers[i].input \in Seq(Nat)
                 /\ i > 1 => layers[i].input = <<>>
                 /\ layers[i].class \in {"Conv2D", "AveragePooling2D"} \cup Headings =>
                       Spatial(layers, i - 1)
                 /\ layers[i].class = "Dense" =>
                       ~Spatial(layers, i - 1) /\ layers[i].size > 0
                 /\ layers[i].class = "BatchNormalization" =>
                       i > 1 /\ layers[i - 1].class \in {"Conv2D", "Dense"}
<1>1. layers \in Seq(LayerType) /\ Sequential(layers)
  BY NetworksAssumption, SequentialAssumption
<1> DEFINE class(i) == layers[i].class
<1>2. /\ Len(layers) \in Nat /\ DOMAIN layers = 1 .. Len(layers)
      /\ \A i \in 1 .. Len(layers) : layers[i] \in LayerType
  BY <1>1
<1>3. /\ layers # <<>> /\ class(1) = "Conv2D" /\ Len(layers[1].input) = 3
      /\ \A i \in 2 .. Len(layers) :
            /\ layers[i].input = <<>>
            /\ class(i) = "BatchNormalization" => class(i - 1) \in {"Conv2D", "Dense"}
      /\ \A i \in DOMAIN layers : class(i) = "Dense" => layers[i].size > 0
  BY <1>1 DEF Sequential
<1>4. PICK heading \in DOMAIN layers :
         /\ class(heading) \in Headings
         /\ \A i \in 1 .. heading - 1 : class(i) \notin Headings \cup {"Dense"}
         /\ \A i \in heading + 1 .. Len(layers) :
               class(i) \in {"Dense", "BatchNormalization", "Activation"}
  BY <1>1 DEF Sequential, Headings
<1>5. Len(layers) # 0
  BY <1>1, <1>3
<1>6. ASSUME NEW i \in 1 .. Len(layers)
      PROVE  /\ layers[i].class \in Classes
             /\ layers[i].size \in Nat /\ layers[i].window \in Nat
             /\ layers[i].stride \in Nat \ {0}
             /\ layers[i].input \in Seq(Nat)
  <2>1. layers[i] \in LayerType
    BY <1>2
  <2> QED
    BY <2>1 DEF LayerType, Classes
<1>7. ASSUME NEW i \in 1 .. Len(layers)
      PROVE  /\ class(i) \in {"Conv2D", "AveragePooling2D"} \cup Headings =>
                    Spatial(layers, i - 1)
             /\ class(i) = "Dense" => ~Spatial(layers, i - 1)
  <2>1. heading \in 1 .. Len(layers)
    BY <1>2
  <2>2. CASE i <= heading
    <3>1. Spatial(layers, i - 1)
      BY <1>4, <2>1, <2>2 DEF Spatial
    <3>2. class(i) # "Dense"
      <4>1. i \in 1 .. heading - 1 \/ i = heading
        BY <2>1, <2>2
      <4> QED
        BY <1>4, <4>1 DEF Headings
    <3> QED
      BY <3>1, <3>2
  <2>3. CASE i > heading
    <3>1. i \in heading + 1 .. Len(layers) /\ heading \in 1 .. i - 1
      BY <2>1, <2>3
    <3>2. class(i) \in {"Dense", "BatchNormalization", "Activation"}
      BY <1>4, <3>1
    <3>3. ~Spatial(layers, i - 1)
      BY <1>4, <3>1 DEF Spatial
    <3> QED
      BY <3>2, <3>3 DEF Headings
  <2> QED
    BY <2>1, <2>2, <2>3
<1>8. ASSUME NEW i \in 1 .. Len(layers)
      PROVE  /\ i > 1 => layers[i].input = <<>>
             /\ class(i) = "BatchNormalization" =>
                   i > 1 /\ class(i - 1) \in {"Conv2D", "Dense"}
             /\ class(i) = "Dense" => layers[i].size > 0
  <2>1. i = 1 \/ i \in 2 .. Len(layers)
    BY <1>2
  <2> QED
    BY <1>2, <1>3, <2>1
<1> QED
  BY <1>2, <1>3, <1>5, <1>6, <1>7, <1>8

\* An output size is a number.
LEMMA OutSizeNat ==
    ASSUME NEW in \in Nat, NEW window \in Nat, NEW stride \in Nat \ {0},
           NEW padding
    PROVE  OutSize(in, window, stride, padding) \in Nat
<1>1. \A n \in Int : SizeT(n) \in Nat
  BY WidthsAssumption DEF SizeT
<1>2. \A n \in Nat : Ceil(n, stride) \in Nat
  BY DEF Ceil
<1>3. in - window + 1 \in Int
  OBVIOUS
<1> QED
  BY <1>1, <1>2, <1>3 DEF OutSize

\* Three numbers.
LEMMA ThreeNumbers ==
    ASSUME NEW s \in Seq(Nat), Len(s) = 3
    PROVE  s = <<s[1], s[2], s[3]>> /\ s[1] \in Nat /\ s[2] \in Nat /\ s[3] \in Nat
OBVIOUS

LEMMA OutShapeNat ==
    ASSUME NEW layers \in Models, NEW i \in 1 .. Len(layers),
           NEW in \in Seq(Nat), Len(in) = 3
    PROVE  /\ OutShape(layers[i], in) \in Seq(Nat)
           /\ Len(OutShape(layers[i], in)) = 3
<1>1. in[1] \in Nat /\ in[2] \in Nat /\ in[3] \in Nat
  BY ThreeNumbers
<1>2. /\ layers[i].size \in Nat /\ layers[i].window \in Nat
      /\ layers[i].stride \in Nat \ {0}
  BY ModelLayers
<1>3. /\ OutShape(layers[i], in)[1] \in Nat /\ OutShape(layers[i], in)[2] \in Nat
      /\ OutShape(layers[i], in)[3] \in Nat
  BY <1>1, <1>2, OutSizeNat DEF OutShape
<1> QED
  BY <1>3 DEF OutShape

\* What is inferred has three dimensions before the heading, and one behind.
LEMMA TrainedDims ==
    ASSUME NEW layers \in Models
    PROVE  \A i \in 0 .. Len(layers) :
              /\ Trained(layers)[i] \in Seq(Nat)
              /\ Len(Trained(layers)[i]) = Dims(layers, i)
<1> DEFINE T == Trained(layers)
           OK(k) == T[k] \in Seq(Nat) /\ Len(T[k]) = Dims(layers, k)
           S == {k \in Nat : k <= Len(layers) => OK(k)}
<1>1. Len(layers) \in Nat /\ layers[1].input \in Seq(Nat) /\ Len(layers[1].input) = 3
  BY ModelLayers
<1>2. /\ T[0] = layers[1].input
      /\ \A i \in 1 .. Len(layers) : T[i] = KerasShape(layers[i], T[i - 1])
  BY <1>1, TrainedSteps
<1> HIDE DEF T
<1>3. 0 \in S
  <2>1. Dims(layers, 0) = 3
    BY DEF Dims, Spatial
  <2>2. OK(0)
    BY <1>1, <1>2, <2>1
  <2> QED
    BY <2>2
<1>4. ASSUME NEW k \in Nat, k \in S
      PROVE  k + 1 \in S
  <2> SUFFICES ASSUME k + 1 <= Len(layers) PROVE OK(k + 1)
    OBVIOUS
  <2> DEFINE l == layers[k + 1]
  <2>1. k + 1 \in 1 .. Len(layers) /\ (k + 1) - 1 = k /\ k <= Len(layers)
    BY <1>1
  <2>2. T[k] \in Seq(Nat) /\ Len(T[k]) = Dims(layers, k)
    BY <1>4, <2>1
  <2>3. T[k + 1] = KerasShape(l, T[k])
    BY <1>2, <2>1
  <2>4. /\ l.class \in Classes /\ l.size \in Nat
        /\ l.class \in {"Conv2D", "AveragePooling2D"} \cup Headings => Spatial(layers, k)
        /\ l.class = "Dense" => ~Spatial(layers, k)
    BY <2>1, ModelLayers
  <2>5. Spatial(layers, k + 1) <=> Spatial(layers, k) /\ l.class \notin Headings
    <3>1. 1 .. k + 1 = (1 .. k) \cup {k + 1}
      OBVIOUS
    <3> QED
      BY <3>1 DEF Spatial
  <2>6. CASE l.class \in {"Conv2D", "AveragePooling2D"}
    <3>1. T[k + 1] = OutShape(l, T[k]) /\ Spatial(layers, k) /\ Spatial(layers, k + 1)
      BY <2>3, <2>4, <2>5, <2>6 DEF KerasShape, Headings
    <3>2. Len(T[k]) = 3
      BY <2>2, <3>1 DEF Dims
    <3> QED
      BY <2>1, <2>2, <3>1, <3>2, OutShapeNat DEF Dims
  <2>7. CASE l.class \in Headings
    <3>1. Spatial(layers, k) /\ ~Spatial(layers, k + 1)
      BY <2>4, <2>5, <2>7
    <3>2. T[k][1] \in Nat /\ T[k][2] \in Nat /\ T[k][3] \in Nat
      BY <2>2, <3>1, ThreeNumbers DEF Dims
    <3>3. T[k][1] * T[k][2] * T[k][3] \in Nat
      <4>1. \A a, b, c \in Nat : a * b * c \in Nat
        OBVIOUS
      <4> QED
        BY <3>2, <4>1, Zenon
    <3>5. \A n \in Nat : <<n>> \in Seq(Nat) /\ Len(<<n>>) = 1
      OBVIOUS
    <3>6. Dims(layers, k + 1) = 1
      BY <3>1 DEF Dims
    <3>4. T[k + 1] = <<T[k][1] * T[k][2] * T[k][3]>> \/ T[k + 1] = <<T[k][3]>>
      BY <2>3, <2>7 DEF KerasShape, Headings
    <3> QED
      BY <3>2, <3>3, <3>4, <3>5, <3>6, Zenon
  <2>8. CASE l.class = "Dense"
    <3>1. T[k + 1] = <<l.size>> /\ ~Spatial(layers, k + 1)
      BY <2>3, <2>4, <2>5, <2>8 DEF KerasShape
    <3> QED
      BY <2>4, <3>1 DEF Dims
  <2>9. CASE l.class \in {"BatchNormalization", "Activation"}
    <3>1. T[k + 1] = T[k] /\ Dims(layers, k + 1) = Dims(layers, k)
      BY <2>3, <2>5, <2>9 DEF KerasShape, Dims, Headings
    <3> QED
      BY <2>2, <3>1
  <2> QED
    BY <2>4, <2>6, <2>7, <2>8, <2>9 DEF Classes, Headings
<1> HIDE DEF S, OK
<1>5. Nat \subseteq S
  BY <1>3, <1>4, SetInduction
<1>6. \A i \in 0 .. Len(layers) : OK(i)
  <2> TAKE i \in 0 .. Len(layers)
  <2>1. i \in Nat /\ i <= Len(layers) /\ i \in S
    BY <1>1, <1>5
  <2> QED
    BY <2>1 DEF S
<1> QED
  BY <1>6 DEF OK, T

\* The units of the heading are computed without a wrap.
LEMMA FlatUnits ==
    ASSUME NEW h \in Nat, NEW w \in Nat, NEW c \in Nat, h * w * c < SizeMod
    PROVE  SizeT(SizeT(h * w) * c) = h * w * c
<1>1. SizeMod \in Nat \ {0} /\ h * w \in Nat /\ h * w * c \in Nat
  BY WidthsAssumption
<1>2. CASE c = 0
  <2>1. SizeT(h * w) \in Nat
    BY <1>1 DEF SizeT
  <2>2. SizeT(h * w) * c = 0 /\ h * w * c = 0
    BY <1>1, <1>2, <2>1
  <2> QED
    BY <1>1, <2>2 DEF SizeT
<1>3. CASE c >= 1
  <2>1. h * w <= h * w * c
    BY <1>1, <1>3
  <2>2. SizeT(h * w) = h * w
    BY <1>1, <2>1 DEF SizeT
  <2> QED
    BY <1>1, <2>2 DEF SizeT
<1> QED
  BY <1>2, <1>3

\* What a model's layer does to the number of dimensions, and the shape it
\* makes of its input's.
LEMMA LayerShapes ==
    ASSUME NEW layers \in Models, NEW i \in 1 .. Len(layers)
    PROVE  LET l   == layers[i]
               in  == Trained(layers)[i - 1]
               out == Trained(layers)[i]
           IN  /\ in \in Seq(Nat) /\ Len(in) = Dims(layers, i - 1)
               /\ out \in Seq(Nat) /\ Len(out) = Dims(layers, i)
               /\ l.class \in {"Conv2D", "AveragePooling2D"} =>
                     /\ out = OutShape(l, in)
                     /\ Spatial(layers, i - 1) /\ Spatial(layers, i)
               /\ l.class \in Headings => Spatial(layers, i - 1) /\ ~Spatial(layers, i)
               /\ l.class = "Flatten" =>
                     out = <<SizeT(SizeT(in[1] * in[2]) * in[3])>>
               /\ l.class = "GlobalAveragePooling2D" => out = <<in[3]>>
               /\ l.class = "Dense" => /\ out = <<l.size>> /\ l.size > 0
                                      /\ ~Spatial(layers, i - 1) /\ ~Spatial(layers, i)
               /\ l.class \in {"BatchNormalization", "Activation"} =>
                     out = in /\ (Spatial(layers, i) <=> Spatial(layers, i - 1))
<1> DEFINE l   == layers[i]
           in  == Trained(layers)[i - 1]
           out == Trained(layers)[i]
<1>1. /\ Len(layers) \in Nat
      /\ l.class \in Classes /\ l.size \in Nat
      /\ l.class \in {"Conv2D", "AveragePooling2D"} \cup Headings => Spatial(layers, i - 1)
      /\ l.class = "Dense" => ~Spatial(layers, i - 1) /\ l.size > 0
  BY ModelLayers
<1>2. i \in 0 .. Len(layers) /\ i - 1 \in 0 .. Len(layers)
  BY <1>1
<1>3. /\ in \in Seq(Nat) /\ Len(in) = Dims(layers, i - 1)
      /\ out \in Seq(Nat) /\ Len(out) = Dims(layers, i)
  BY <1>2, TrainedDims
<1>4. out = KerasShape(l, in)
  BY <1>1, TrainedSteps
<1>5. Spatial(layers, i) <=> Spatial(layers, i - 1) /\ l.class \notin Headings
  <2>1. 1 .. i = (1 .. i - 1) \cup {i}
    BY <1>1
  <2> QED
    BY <2>1 DEF Spatial
<1>6. l.class = "Flatten" => in[1] * in[2] * in[3] < SizeMod
  BY SequentialAssumption, ModelLayers DEF Sequential
<1> HIDE DEF in, out, l
<1>7. l.class \in {"Conv2D", "AveragePooling2D"} =>
         /\ out = OutShape(l, in)
         /\ Spatial(layers, i - 1) /\ Spatial(layers, i)
  BY <1>1, <1>4, <1>5, Zenon DEF KerasShape, Headings
<1>8. l.class \in Headings => Spatial(layers, i - 1) /\ ~Spatial(layers, i)
  BY <1>1, <1>5, Zenon
<1>9. l.class = "Flatten" => out = <<SizeT(SizeT(in[1] * in[2]) * in[3])>>
  <2> HAVE l.class = "Flatten"
  <2>1. out = <<in[1] * in[2] * in[3]>>
    BY <1>4, Zenon DEF KerasShape
  <2>2. Len(in) = 3
    BY <1>3, <1>8 DEF Dims, Headings
  <2>3. in[1] \in Nat /\ in[2] \in Nat /\ in[3] \in Nat
    BY <1>3, <2>2, ThreeNumbers
  <2> QED
    BY <1>6, <2>1, <2>3, FlatUnits, Zenon
<1>10. l.class = "GlobalAveragePooling2D" => out = <<in[3]>>
  BY <1>4, Zenon DEF KerasShape
<1>11. l.class = "Dense" => /\ out = <<l.size>> /\ l.size > 0
                           /\ ~Spatial(layers, i - 1) /\ ~Spatial(layers, i)
  BY <1>1, <1>4, <1>5, Zenon DEF KerasShape
<1>12. l.class \in {"BatchNormalization", "Activation"} =>
         out = in /\ (Spatial(layers, i) <=> Spatial(layers, i - 1))
  BY <1>4, <1>5, Zenon DEF KerasShape, Headings
<1> QED
  BY <1>3, <1>7, <1>8, <1>9, <1>10, <1>11, <1>12 DEF in, out, l

-----------------------------------------------------------------------------
(* What the builders read and write, by the class of the layer *)

ShapeType == [height : Nat, width : Nat, channels : Nat, units : Nat]

LEMMA ReadShapeOf ==
    ASSUME NEW l, NEW s
    PROVE  /\ l.class = "Conv2D" =>
                 ReadShape(l, s) = IF l.input # <<>> THEN l.input ELSE ShapeOf(s)
           /\ l.class = "BatchNormalization" =>
                 ReadShape(l, s) = <<IF s.units # 0 THEN s.units ELSE s.channels>>
           /\ l.class = "Dense" => ReadShape(l, s) = <<s.units>>
           /\ l.class \in {"AveragePooling2D", "Activation"} \cup Headings =>
                 ReadShape(l, s) = <<>>
BY Zenon DEF ReadShape, Headings

LEMMA UnitsReadOf ==
    ASSUME NEW l, NEW s
    PROVE  /\ l.class = "Flatten" =>
                 UnitsRead(l, s) = SizeT(SizeT(s.height * s.width) * s.channels)
           /\ l.class = "GlobalAveragePooling2D" => UnitsRead(l, s) = s.channels
           /\ l.class \in Classes \ Headings => UnitsRead(l, s) = s.units
BY Zenon DEF UnitsRead, Headings, Classes

LEMMA ConstructedOf ==
    ASSUME NEW l, NEW buf, NEW s
    PROVE  LET c == Constructed(l, buf, s)
           IN  /\ l.class = "Conv2D" => c.in = buf /\ c.out = OutShape(l, buf)
               /\ l.class = "AveragePooling2D" =>
                     c.in = ShapeOf(s) /\ c.out = OutShape(l, ShapeOf(s))
               /\ l.class \in Headings => c.in = ShapeOf(s) /\ c.out = <<s.units>>
               /\ l.class = "Dense" => c.in = <<s.units>> /\ c.out = <<l.size>>
               /\ l.class \in {"BatchNormalization", "Activation"} =>
                     c.in = buf /\ c.out = buf
<1>1. l.class = "Conv2D" =>
         Constructed(l, buf, s) = [in |-> buf, out |-> OutShape(l, buf)]
  BY Zenon DEF Constructed
<1>2. l.class = "AveragePooling2D" =>
         Constructed(l, buf, s) =
            [in |-> ShapeOf(s), out |-> OutShape(l, ShapeOf(s))]
  BY Zenon DEF Constructed
<1>3. l.class \in Headings =>
         Constructed(l, buf, s) = [in |-> ShapeOf(s), out |-> <<s.units>>]
  BY Zenon DEF Constructed, Headings
<1>4. l.class = "Dense" =>
         Constructed(l, buf, s) = [in |-> <<s.units>>, out |-> <<l.size>>]
  BY Zenon DEF Constructed
<1>5. l.class \in {"BatchNormalization", "Activation"} =>
         Constructed(l, buf, s) = [in |-> buf, out |-> buf]
  BY Zenon DEF Constructed
<1> QED
  BY <1>1, <1>2, <1>3, <1>4, <1>5

LEMMA WrittenOf ==
    ASSUME NEW l, NEW out, NEW s \in ShapeType
    PROVE  /\ l.class \in {"Conv2D", "AveragePooling2D"} =>
                 Written(l, out, s) = [height |-> out[1], width |-> out[2],
                                       channels |-> out[3], units |-> s.units]
           /\ l.class = "Dense" =>
                 Written(l, out, s) = [height |-> s.height, width |-> s.width,
                                       channels |-> s.channels, units |-> l.size]
           /\ l.class \in {"BatchNormalization", "Activation"} \cup Headings =>
                 Written(l, out, s) = s
<1>1. l.class \in {"Conv2D", "AveragePooling2D"} =>
         Written(l, out, s) =
            [s EXCEPT !.height = out[1], !.width = out[2], !.channels = out[3]]
  BY Zenon DEF Written
<1>2. l.class = "Dense" => Written(l, out, s) = [s EXCEPT !.units = l.size]
  BY Zenon DEF Written
<1>3. l.class \in {"BatchNormalization", "Activation"} \cup Headings =>
         Written(l, out, s) = s
  BY Zenon DEF Written, Headings
<1> QED
  BY <1>1, <1>2, <1>3 DEF ShapeType

-----------------------------------------------------------------------------
(* The invariant *)

BuiltType == [class : Classes, layer : Nat, buffer : Seq(Nat),
              in : Seq(Nat), out : Seq(Nat)]

Busy == {"build", "layer"}

ShapesTypeOK ==
    /\ shape \in ShapeType
    /\ job \in [Threads -> [layers : Models \cup {<<>>}, fuse : BOOLEAN]]
    /\ it \in [Threads -> Nat \ {0}]
    /\ buffer \in [Threads -> Seq(Nat)]
    /\ network \in [Threads -> Seq(BuiltType)]
    /\ phase \in [Threads -> Busy \cup {"idle", "built", "failed"}]
    /\ started \in [Threads -> [units : Nat, alone : BOOLEAN]]

\* What is under way, whatever the globals hold.
JobsOK ==
    \A t \in Threads :
       /\ phase[t] \in Busy => job[t].layers \in Models
       /\ phase[t] = "layer" =>
             /\ it[t] <= Len(job[t].layers)
             /\ Layer(t).class = "Conv2D" => Len(buffer[t]) = 3
             /\ ~(Fused(t) /\ Layer(t).class = "Dense")

\* Alone is who has met no other.
AloneOK ==
    \A t, u \in Threads :
       started[t].alone /\ phase[t] \in Busy /\ phase[u] \in Busy => u = t

\* The networks that AloneIsTrained is about.
Promised(t) ==
    started[t].alone /\ (started[t].units = 0 \/ ~NormalizesChannels(t))

\* The globals hold what the layers up to number n make, except that the
\* units are those of the start until the heading.
Handed(t, n) ==
    LET made == Trained(job[t].layers)[n]
    IN  IF Spatial(job[t].layers, n)
        THEN /\ n > 0 => ShapeOf(shape) = made
             /\ shape.units = started[t].units
        ELSE <<shape.units>> = made

\* What the builder in progress has read of it.
HasRead(t) ==
    LET l  == Layer(t)
        in == Trained(job[t].layers)[it[t] - 1]
    IN  /\ l.class \notin Headings => Handed(t, it[t] - 1)
        /\ l.class \in Headings => /\ ShapeOf(shape) = in
                                   /\ <<shape.units>> = Trained(job[t].layers)[it[t]]
        /\ l.class \in {"Conv2D", "Dense"} => buffer[t] = in
        /\ l.class = "BatchNormalization" => buffer[t] = <<in[Len(in)]>>

HandedOK ==
    \A t \in Threads :
       Promised(t) /\ phase[t] \in Busy =>
          /\ it[t] - 1 <= Len(job[t].layers)
          /\ job[t].fuse /\ it[t] <= Len(job[t].layers) =>
                Layer(t).class # "BatchNormalization"
          /\ phase[t] = "build" => Handed(t, it[t] - 1)
          /\ phase[t] = "layer" => HasRead(t)

ShapesInv ==
    ShapesTypeOK /\ JobsOK /\ AloneOK /\ HandedOK /\ AloneIsTrained

\* One layer of a network has the trained shapes.
LayerIsTrained(layers, o) ==
    LET in  == Trained(layers)[o.layer - 1]
        out == Trained(layers)[o.layer]
    IN  CASE o.class = "Conv2D" -> o.in = in /\ o.out = out
          [] o.class = "Dense" -> o.buffer = in /\ o.in = in /\ o.out = out
          [] o.class = "BatchNormalization" -> o.buffer = <<in[Len(in)]>>
          [] o.class \in {"AveragePooling2D", "Flatten",
                          "GlobalAveragePooling2D"} -> o.in = in /\ o.out = out
          [] o.class = "Activation" -> TRUE

LEMMA IsTrainedBy ==
    ASSUME NEW t \in Threads
    PROVE  IsTrained(t) <=>
              \A i \in DOMAIN network[t] :
                 LayerIsTrained(job[t].layers, network[t][i])
BY Zenon DEF IsTrained, LayerIsTrained

LEMMA ShapesInitOK == ShapeInit => ShapesInv
<1> SUFFICES ASSUME ShapeInit PROVE ShapesInv
  OBVIOUS
<1>1. ShapesTypeOK
  BY DEF ShapeInit, ShapesTypeOK, ShapeType
<1>2. \A t \in Threads : phase[t] = "idle" /\ network[t] = <<>>
  BY DEF ShapeInit
<1>3. AloneIsTrained
  <2>1. \A t \in Threads : \A i \in DOMAIN network[t] : FALSE
    BY <1>2
  <2>2. \A t \in Threads : IsTrained(t)
    BY <2>1, IsTrainedBy
  <2> QED
    BY <2>2 DEF AloneIsTrained
<1> QED
  BY <1>1, <1>2, <1>3 DEF ShapesInv, JobsOK, AloneOK, HandedOK, Busy

\* A network starts with nothing built; who is at work is alone no more.
LEMMA StartNetworkOK ==
    ASSUME ShapesInv, NEW t \in Threads, NEW layers \in Models,
           NEW fuse \in FuseLayers, StartNetwork(t, layers, fuse)
    PROVE  ShapesInv'
<1> DEFINE others == {u \in Threads \ {t} : phase[u] \in Busy}
<1>1. /\ phase[t] \in {"idle", "built"}
      /\ job' = [job EXCEPT ![t] = [layers |-> layers, fuse |-> fuse]]
      /\ it' = [it EXCEPT ![t] = 1]
      /\ network' = [network EXCEPT ![t] = <<>>]
      /\ phase' = [phase EXCEPT ![t] = "build"]
      /\ started' = [u \in Threads |->
                        IF u = t THEN [units |-> shape.units, alone |-> others = {}]
                        ELSE IF u \in others
                             THEN [started[u] EXCEPT !.alone = FALSE]
                             ELSE started[u]]
      /\ UNCHANGED <<shape, buffer>>
  BY DEF StartNetwork, Busy
<1>2. ShapesTypeOK
  BY DEF ShapesInv
<1>3. fuse \in BOOLEAN /\ shape.units \in Nat
  BY <1>2, NetworksAssumption DEF ShapesTypeOK, ShapeType
<1>4. /\ job'[t] = [layers |-> layers, fuse |-> fuse]
      /\ it'[t] = 1 /\ network'[t] = <<>> /\ phase'[t] = "build"
      /\ started'[t].units = shape.units
      /\ started'[t].alone = (others = {})
  BY <1>1, <1>2 DEF ShapesTypeOK
<1>5. ASSUME NEW u \in Threads, u # t
      PROVE  /\ job'[u] = job[u] /\ it'[u] = it[u] /\ network'[u] = network[u]
             /\ phase'[u] = phase[u] /\ buffer'[u] = buffer[u]
             /\ started'[u].alone => phase[u] \notin Busy /\ started'[u] = started[u]
  BY <1>1, <1>2, <1>5 DEF ShapesTypeOK
<1>6. ShapesTypeOK'
  <2>1. job' \in [Threads -> [layers : Models \cup {<<>>}, fuse : BOOLEAN]]
    BY <1>1, <1>2, <1>3 DEF ShapesTypeOK
  <2>2. network' \in [Threads -> Seq(BuiltType)]
    BY <1>1, <1>2 DEF ShapesTypeOK
  <2>3. started' \in [Threads -> [units : Nat, alone : BOOLEAN]]
    <3>1. \A u \in Threads : started[u] \in [units : Nat, alone : BOOLEAN]
      BY <1>2 DEF ShapesTypeOK
    <3> QED
      BY <1>1, <1>3, <3>1
  <2>4. /\ it' \in [Threads -> Nat \ {0}]
        /\ phase' \in [Threads -> Busy \cup {"idle", "built", "failed"}]
        /\ shape' \in ShapeType /\ buffer' \in [Threads -> Seq(Nat)]
    BY <1>1, <1>2 DEF ShapesTypeOK, Busy
  <2> QED
    BY <2>1, <2>2, <2>3, <2>4 DEF ShapesTypeOK
<1> HIDE DEF others
<1>7. JobsOK'
  <2> SUFFICES ASSUME NEW u \in Threads
               PROVE  /\ phase'[u] \in Busy => job'[u].layers \in Models
                      /\ phase'[u] = "layer" =>
                            /\ it'[u] <= Len(job'[u].layers)
                            /\ Layer(u)'.class = "Conv2D" => Len(buffer'[u]) = 3
                            /\ ~(Fused(u)' /\ Layer(u)'.class = "Dense")
    BY DEF JobsOK
  <2>1. CASE u = t
    BY <1>4, <2>1
  <2>2. CASE u # t
    BY <1>5, <2>2 DEF ShapesInv, JobsOK, Layer, Fused
  <2> QED
    BY <2>1, <2>2
<1>8. AloneOK'
  <2> SUFFICES ASSUME NEW u \in Threads, NEW v \in Threads,
                      started'[u].alone, phase'[u] \in Busy, phase'[v] \in Busy
               PROVE  v = u
    BY DEF AloneOK
  <2>1. u = t
    BY <1>5
  <2>2. others = {}
    BY <1>4, <2>1
  <2>3. v # t => phase[v] \in Busy
    BY <1>5
  <2> QED
    BY <2>1, <2>2, <2>3 DEF others
<1>9. HandedOK'
  <2> SUFFICES ASSUME NEW u \in Threads, Promised(u)', phase'[u] \in Busy
               PROVE  /\ it'[u] - 1 <= Len(job'[u].layers)
                      /\ job'[u].fuse /\ it'[u] <= Len(job'[u].layers) =>
                            Layer(u)'.class # "BatchNormalization"
                      /\ phase'[u] = "build" => Handed(u, it[u] - 1)'
                      /\ phase'[u] = "layer" => HasRead(u)'
    BY DEF HandedOK
  <2>1. u = t
    BY <1>5 DEF Promised
  <2>2. Len(layers) \in Nat \ {0} /\ layers[1].class = "Conv2D"
    BY ModelLayers
  <2>3. job'[t].layers = layers /\ Layer(t)' = layers[1]
    BY <1>4 DEF Layer
  <2>4. Handed(t, it[t] - 1)'
    <3>1. Spatial(layers, 0)
      BY DEF Spatial
    <3>2. it'[t] - 1 = 0 /\ ~(it'[t] - 1 > 0)
      BY <1>4
    <3>3. shape'.units = started'[t].units
      BY <1>1, <1>4
    <3> QED
      BY <2>3, <3>1, <3>2, <3>3 DEF Handed
  <2> QED
    BY <1>4, <2>1, <2>2, <2>3, <2>4
<1>10. AloneIsTrained'
  <2> SUFFICES ASSUME NEW u \in Threads, Promised(u)'
               PROVE  IsTrained(u)'
    BY DEF AloneIsTrained, Promised
  <2>1. CASE u = t
    <3>1. \A i \in DOMAIN network'[t] : FALSE
      BY <1>4
    <3> QED
      BY <2>1, <3>1 DEF IsTrained
  <2>2. CASE u # t
    <3>1. /\ job'[u] = job[u] /\ network'[u] = network[u] /\ started'[u] = started[u]
      BY <1>5, <2>2 DEF Promised
    <3>2. Promised(u)
      BY <3>1 DEF Promised, NormalizesChannels
    <3>3. IsTrained(u)
      BY <3>2 DEF ShapesInv, AloneIsTrained, Promised
    <3> QED
      BY <3>1, <3>3 DEF IsTrained
  <2> QED
    BY <2>1, <2>2
<1> QED
  BY <1>6, <1>7, <1>8, <1>9, <1>10 DEF ShapesInv

\* What a step of one thread on its own network leaves alone.
OthersSame(t) ==
    \A u \in Threads :
       /\ job'[u] = job[u] /\ started'[u] = started[u]
       /\ u # t => /\ it'[u] = it[u] /\ network'[u] = network[u]
                   /\ phase'[u] = phase[u] /\ buffer'[u] = buffer[u]

\* The invariant after such a step, from what it says of that thread.
LEMMA OwnStepOK ==
    ASSUME ShapesInv, NEW t \in Threads, phase[t] \in Busy, OthersSame(t),
           ShapesTypeOK',
           phase'[t] = "layer" =>
              /\ it'[t] <= Len(job'[t].layers)
              /\ Layer(t)'.class = "Conv2D" => Len(buffer'[t]) = 3
              /\ ~(Fused(t)' /\ Layer(t)'.class = "Dense"),
           Promised(t) /\ phase'[t] \in Busy =>
              /\ it'[t] - 1 <= Len(job[t].layers)
              /\ job[t].fuse /\ it'[t] <= Len(job[t].layers) =>
                    Layer(t)'.class # "BatchNormalization"
              /\ phase'[t] = "build" => Handed(t, it[t] - 1)'
              /\ phase'[t] = "layer" => HasRead(t)',
           Promised(t) => IsTrained(t)'
    PROVE  ShapesInv'
<1>1. \A u \in Threads : Promised(u)' <=> Promised(u)
  <2> SUFFICES ASSUME NEW u \in Threads
               PROVE  Promised(u)' <=> Promised(u)
    OBVIOUS
  <2>1. job'[u] = job[u] /\ started'[u] = started[u]
    BY DEF OthersSame
  <2>2. NormalizesChannels(u)' <=> NormalizesChannels(u)
    BY <2>1 DEF NormalizesChannels
  <2> QED
    BY <2>1, <2>2 DEF Promised
<1>2. JobsOK'
  <2> SUFFICES ASSUME NEW u \in Threads
               PROVE  /\ phase'[u] \in Busy => job'[u].layers \in Models
                      /\ phase'[u] = "layer" =>
                            /\ it'[u] <= Len(job'[u].layers)
                            /\ Layer(u)'.class = "Conv2D" => Len(buffer'[u]) = 3
                            /\ ~(Fused(u)' /\ Layer(u)'.class = "Dense")
    BY DEF JobsOK
  <2>1. CASE u = t
    <3>1. job[t].layers \in Models /\ job'[t] = job[t]
      BY DEF ShapesInv, JobsOK, OthersSame
    <3> QED
      BY <2>1, <3>1
  <2>2. CASE u # t
    <3>1. /\ phase[u] \in Busy => job[u].layers \in Models
          /\ phase[u] = "layer" =>
                /\ it[u] <= Len(job[u].layers)
                /\ Layer(u).class = "Conv2D" => Len(buffer[u]) = 3
                /\ ~(Fused(u) /\ Layer(u).class = "Dense")
      BY DEF ShapesInv, JobsOK
    <3>2. /\ job'[u] = job[u] /\ it'[u] = it[u] /\ phase'[u] = phase[u]
          /\ buffer'[u] = buffer[u]
      BY <2>2 DEF OthersSame
    <3> QED
      BY <3>1, <3>2 DEF Layer, Fused
  <2> QED
    BY <2>1, <2>2
<1>3. AloneOK'
  BY DEF ShapesInv, AloneOK, OthersSame
<1>4. HandedOK'
  <2> SUFFICES ASSUME NEW u \in Threads, Promised(u)', phase'[u] \in Busy
               PROVE  /\ it'[u] - 1 <= Len(job'[u].layers)
                      /\ job'[u].fuse /\ it'[u] <= Len(job'[u].layers) =>
                            Layer(u)'.class # "BatchNormalization"
                      /\ phase'[u] = "build" => Handed(u, it[u] - 1)'
                      /\ phase'[u] = "layer" => HasRead(u)'
    BY DEF HandedOK
  <2>1. u = t
    <3> SUFFICES ASSUME u # t PROVE FALSE
      OBVIOUS
    <3>1. started[u].alone /\ phase[u] \in Busy
      BY <1>1 DEF OthersSame, Promised
    <3> QED
      BY <3>1 DEF ShapesInv, AloneOK
  <2>2. Promised(t) /\ phase'[t] \in Busy /\ job'[t] = job[t]
    BY <1>1, <2>1 DEF OthersSame
  <2> QED
    BY <2>1, <2>2
<1>5. AloneIsTrained'
  <2> SUFFICES ASSUME NEW u \in Threads, Promised(u)'
               PROVE  IsTrained(u)'
    BY DEF AloneIsTrained, Promised
  <2>1. Promised(u)
    BY <1>1
  <2>2. CASE u = t
    BY <2>1, <2>2
  <2>3. CASE u # t
    <3>1. IsTrained(u)
      BY <2>1 DEF ShapesInv, AloneIsTrained, Promised
    <3>2. job'[u] = job[u] /\ network'[u] = network[u]
      BY <2>3 DEF OthersSame
    <3> QED
      BY <3>1, <3>2 DEF IsTrained
  <2> QED
    BY <2>2, <2>3
<1> QED
  BY <1>2, <1>3, <1>4, <1>5 DEF ShapesInv

LEMMA EndNetworkOK ==
    ASSUME ShapesInv, NEW t \in Threads, EndNetwork(t)
    PROVE  ShapesInv'
<1>1. /\ phase[t] = "build" /\ phase' = [phase EXCEPT ![t] = "built"]
      /\ UNCHANGED <<shape, job, it, buffer, network, started>>
  BY DEF EndNetwork
<1>2. ShapesTypeOK
  BY DEF ShapesInv
<1>3. phase'[t] = "built" /\ OthersSame(t)
  BY <1>1, <1>2 DEF ShapesTypeOK, OthersSame
<1>4. ShapesTypeOK'
  BY <1>1, <1>2 DEF ShapesTypeOK
<1>5. Promised(t) => IsTrained(t)'
  <2>1. Promised(t) => IsTrained(t)
    BY DEF ShapesInv, AloneIsTrained, Promised
  <2> QED
    BY <1>1, <2>1 DEF IsTrained
<1> QED
  BY <1>1, <1>3, <1>4, <1>5, OwnStepOK DEF Busy

\* The layer a thread is at, and what is known of it.
LEMMA LayerInWork ==
    ASSUME ShapesInv, NEW t \in Threads, phase[t] \in Busy,
           it[t] <= Len(job[t].layers)
    PROVE  /\ job[t].layers \in Models /\ it[t] \in 1 .. Len(job[t].layers)
           /\ Len(job[t].layers) \in Nat
           /\ Layer(t) = job[t].layers[it[t]]
           /\ Layer(t).class \in Classes /\ Layer(t).size \in Nat
           /\ Layer(t).input \in Seq(Nat)
           /\ it[t] = 1 => Layer(t).class = "Conv2D" /\ Len(Layer(t).input) = 3
           /\ it[t] > 1 => Layer(t).input = <<>>
           /\ Layer(t).class = "BatchNormalization" =>
                 it[t] > 1
                 /\ job[t].layers[it[t] - 1].class \in {"Conv2D", "Dense"}
<1>1. job[t].layers \in Models
  BY DEF ShapesInv, JobsOK
<1>2. it[t] \in Nat \ {0} /\ Len(job[t].layers) \in Nat
  BY <1>1, ModelLayers DEF ShapesInv, ShapesTypeOK
<1>3. it[t] \in 1 .. Len(job[t].layers)
  BY <1>2
<1> QED
  BY <1>1, <1>2, <1>3, ModelLayers DEF Layer

\* Beginning a layer: what it reads is what the layers before it make.
LEMMA BeginReads ==
    ASSUME ShapesInv, NEW t \in Threads, phase[t] = "build",
           it[t] <= Len(job[t].layers), Promised(t),
           NEW s \in ShapeType, s = [shape EXCEPT !.units = UnitsRead(Layer(t), shape)]
    PROVE  LET l  == Layer(t)
               in == Trained(job[t].layers)[it[t] - 1]
           IN  /\ l.class \notin Headings => s = shape
               /\ l.class \in Headings =>
                     /\ ShapeOf(s) = in
                     /\ <<s.units>> = Trained(job[t].layers)[it[t]]
               /\ l.class \in {"Conv2D", "Dense"} => ReadShape(l, shape) = in
               /\ l.class = "BatchNormalization" =>
                     ReadShape(l, shape) = <<in[Len(in)]>>
<1> DEFINE layers == job[t].layers
           p      == it[t] - 1
           l      == Layer(t)
           in     == Trained(layers)[p]
<1>1. /\ layers \in Models /\ it[t] \in 1 .. Len(layers) /\ Len(layers) \in Nat
      /\ l = layers[it[t]] /\ l.class \in Classes
      /\ it[t] = 1 => l.class = "Conv2D" /\ Len(l.input) = 3
      /\ it[t] > 1 => l.input = <<>>
      /\ l.class = "BatchNormalization" =>
            it[t] > 1 /\ layers[it[t] - 1].class \in {"Conv2D", "Dense"}
  BY LayerInWork DEF Busy
<1>2. /\ job[t].fuse => l.class # "BatchNormalization"
      /\ Handed(t, p)
  BY DEF ShapesInv, HandedOK, Busy
<1>3. /\ shape \in ShapeType /\ shape.height \in Nat /\ shape.width \in Nat
      /\ shape.channels \in Nat /\ shape.units \in Nat
      /\ job[t].fuse \in BOOLEAN
  BY DEF ShapesInv, ShapesTypeOK, ShapeType
<1>4. /\ s.units = UnitsRead(l, shape) /\ ShapeOf(s) = ShapeOf(shape)
      /\ UnitsRead(l, shape) = shape.units => s = shape
  BY <1>3 DEF ShapeType, ShapeOf
<1>5. /\ in \in Seq(Nat) /\ Len(in) = Dims(layers, p)
      /\ l.class \in {"Conv2D", "AveragePooling2D"} \cup Headings => Spatial(layers, p)
      /\ l.class = "Flatten" =>
            Trained(layers)[it[t]] = <<SizeT(SizeT(in[1] * in[2]) * in[3])>>
      /\ l.class = "GlobalAveragePooling2D" => Trained(layers)[it[t]] = <<in[3]>>
      /\ l.class = "Dense" => ~Spatial(layers, p)
  BY <1>1, LayerShapes
<1>6. Spatial(layers, p) => /\ p > 0 => ShapeOf(shape) = in
                           /\ shape.units = started[t].units
  BY <1>2 DEF Handed
<1>7. ~Spatial(layers, p) => <<shape.units>> = in
  BY <1>2 DEF Handed
<1>8. it[t] > 1 => p > 0
  BY <1>1
<1> HIDE DEF layers, l, in
<1>9. CASE l.class \notin Headings
  <2>1. s = shape
    BY <1>1, <1>4, <1>9, UnitsReadOf
  <2>2. l.class = "Conv2D" => ReadShape(l, shape) = in
    <3> HAVE l.class = "Conv2D"
    <3>1. ReadShape(l, shape) = IF l.input # <<>> THEN l.input ELSE ShapeOf(shape)
      BY ReadShapeOf
    <3>2. CASE it[t] = 1
      <4>1. in = layers[1].input
        BY <1>1, <3>2, TrainedSteps DEF in
      <4>2. in = l.input
        BY <1>1, <3>2, <4>1
      <4>3. l.input # <<>>
        <5>1. Len(l.input) = 3 /\ Len(<<>>) # 3
          BY <1>1, <3>2
        <5> QED
          BY <5>1, Zenon
      <4> QED
        BY <3>1, <4>2, <4>3
    <3>3. CASE it[t] > 1
      BY <1>1, <1>5, <1>6, <1>8, <3>1, <3>3
    <3> QED
      BY <1>1, <3>2, <3>3
  <2>3. l.class = "Dense" => ReadShape(l, shape) = in
    BY <1>5, <1>7, ReadShapeOf
  <2>4. l.class = "BatchNormalization" => ReadShape(l, shape) = <<in[Len(in)]>>
    <3> HAVE l.class = "BatchNormalization"
    <3>1. ReadShape(l, shape) = <<IF shape.units # 0 THEN shape.units ELSE shape.channels>>
      BY ReadShapeOf
    <3>2. it[t] > 1 /\ p \in 1 .. Len(layers)
      BY <1>1
    <3>3. CASE layers[p].class = "Conv2D"
      <4>1. Spatial(layers, p)
        BY <1>1, <3>2, <3>3, LayerShapes
      <4>2. NormalizesChannels(t)
        <5>1. it[t] \in 2 .. Len(layers)
          BY <1>1, <3>2
        <5>2. ~job[t].fuse
          BY <1>2, <1>3
        <5>3. layers[it[t]].class = "BatchNormalization"
          BY <1>1
        <5> QED
          BY <3>3, <5>1, <5>2, <5>3 DEF NormalizesChannels, layers
      <4>3. shape.units = 0
        BY <1>6, <4>1, <4>2 DEF Promised
      <4>4. in = <<shape.height, shape.width, shape.channels>>
        BY <1>6, <1>8, <3>2, <4>1 DEF ShapeOf
      <4>5. Len(in) = 3 /\ in[3] = shape.channels
        BY <4>4
      <4> QED
        BY <3>1, <4>3, <4>5
    <3>4. CASE layers[p].class = "Dense"
      <4>1. ~Spatial(layers, p) /\ in = <<layers[p].size>> /\ layers[p].size > 0
        BY <1>1, <3>2, <3>4, LayerShapes DEF in
      <4>2. <<shape.units>> = <<layers[p].size>>
        BY <1>7, <4>1
      <4>3. shape.units = layers[p].size /\ Len(in) = 1 /\ in[1] = layers[p].size
        BY <4>1, <4>2
      <4>4. shape.units # 0
        BY <1>3, <4>1, <4>3
      <4> QED
        BY <3>1, <4>3, <4>4
    <3> QED
      BY <1>1, <3>3, <3>4
  <2> QED
    BY <1>9, <2>1, <2>2, <2>3, <2>4 DEF layers, l, in
<1>10. CASE l.class \in Headings
  <2>1. it[t] > 1
    BY <1>1, <1>10 DEF Headings
  <2>2. ShapeOf(shape) = in
    BY <1>5, <1>6, <1>8, <1>10, <2>1
  <2>3. /\ in[1] = shape.height /\ in[2] = shape.width /\ in[3] = shape.channels
    BY <2>2 DEF ShapeOf
  <2>4. <<s.units>> = Trained(layers)[it[t]]
    <3>1. CASE l.class = "Flatten"
      <4>1. s.units = SizeT(SizeT(shape.height * shape.width) * shape.channels)
        BY <1>4, <3>1, UnitsReadOf
      <4> QED
        BY <1>5, <2>3, <3>1, <4>1
    <3>2. CASE l.class = "GlobalAveragePooling2D"
      <4>1. s.units = shape.channels
        BY <1>4, <3>2, UnitsReadOf
      <4> QED
        BY <1>5, <2>3, <3>2, <4>1
    <3> QED
      BY <1>10, <3>1, <3>2 DEF Headings
  <2> QED
    BY <1>4, <1>10, <2>2, <2>4 DEF Headings, layers, l, in
<1> QED
  BY <1>9, <1>10

\* Beginning a layer, whatever the globals hold.
LEMMA BeginTypes ==
    ASSUME ShapesInv, NEW t \in Threads, phase[t] = "build",
           it[t] <= Len(job[t].layers)
    PROVE  /\ ReadShape(Layer(t), shape) \in Seq(Nat)
           /\ Layer(t).class = "Conv2D" => Len(ReadShape(Layer(t), shape)) = 3
           /\ UnitsRead(Layer(t), shape) \in Nat
<1> DEFINE l == Layer(t)
<1>1. /\ l.class \in Classes /\ l.input \in Seq(Nat)
      /\ it[t] = 1 => l.class = "Conv2D" /\ Len(l.input) = 3
      /\ it[t] > 1 => l.input = <<>>
      /\ it[t] \in Nat \ {0}
  BY LayerInWork DEF Busy, ShapesInv, ShapesTypeOK
<1>2. /\ shape.height \in Nat /\ shape.width \in Nat
      /\ shape.channels \in Nat /\ shape.units \in Nat
  BY DEF ShapesInv, ShapesTypeOK, ShapeType
<1>3. ShapeOf(shape) \in Seq(Nat) /\ Len(ShapeOf(shape)) = 3
  BY <1>2 DEF ShapeOf
<1>4. \A n \in Nat : <<n>> \in Seq(Nat)
  OBVIOUS
<1> HIDE DEF l
<1>5. l.class = "Conv2D" =>
         ReadShape(l, shape) \in Seq(Nat) /\ Len(ReadShape(l, shape)) = 3
  <2> HAVE l.class = "Conv2D"
  <2>1. ReadShape(l, shape) = IF l.input # <<>> THEN l.input ELSE ShapeOf(shape)
    BY ReadShapeOf
  <2>2. l.input # <<>> => it[t] = 1
    BY <1>1
  <2> QED
    BY <1>1, <1>3, <2>1, <2>2
<1>6. ReadShape(l, shape) \in Seq(Nat)
  <2>1. CASE l.class = "BatchNormalization"
    <3>1. ReadShape(l, shape) = <<IF shape.units # 0 THEN shape.units ELSE shape.channels>>
      BY <2>1, ReadShapeOf
    <3> QED
      BY <1>2, <1>4, <3>1
  <2>2. CASE l.class = "Dense"
    <3>1. ReadShape(l, shape) = <<shape.units>>
      BY <2>2, ReadShapeOf
    <3> QED
      BY <1>2, <1>4, <3>1
  <2>3. CASE l.class \in {"AveragePooling2D", "Activation"} \cup Headings
    <3>1. ReadShape(l, shape) = <<>>
      BY <2>3, ReadShapeOf
    <3> QED
      BY <3>1
  <2> QED
    BY <1>1, <1>5, <2>1, <2>2, <2>3 DEF Classes, Headings
<1>7. UnitsRead(l, shape) \in Nat
  <2>1. \A n \in Int : SizeT(n) \in Nat
    BY WidthsAssumption DEF SizeT
  <2>2. shape.height * shape.width \in Nat
    BY <1>2
  <2>3. SizeT(shape.height * shape.width) * shape.channels \in Nat
    <3>1. \A a, b \in Nat : a * b \in Nat
      OBVIOUS
    <3>2. SizeT(shape.height * shape.width) \in Nat
      BY <2>1, <2>2
    <3> QED
      BY <1>2, <3>1, <3>2, Zenon
  <2>4. SizeT(SizeT(shape.height * shape.width) * shape.channels) \in Nat
    BY <2>1, <2>3
  <2> QED
    BY <1>1, <1>2, <2>4, UnitsReadOf DEF Headings
<1> QED
  BY <1>5, <1>6, <1>7 DEF l

LEMMA BeginLayerOK ==
    ASSUME ShapesInv, NEW t \in Threads, BeginLayer(t)
    PROVE  ShapesInv'
<1> DEFINE l == Layer(t)
<1>1. /\ phase[t] = "build" /\ it[t] <= Len(job[t].layers)
      /\ UNCHANGED <<job, it, network, started>>
  BY DEF BeginLayer
<1>2. ShapesTypeOK
  BY DEF ShapesInv
<1>3. Promised(t) => IsTrained(t)'
  <2>1. Promised(t) => IsTrained(t)
    BY DEF ShapesInv, AloneIsTrained, Promised
  <2> QED
    BY <1>1, <2>1 DEF IsTrained
<1>4. CASE Fused(t) /\ l.class = "Dense"
  <2>1. phase' = [phase EXCEPT ![t] = "failed"] /\ UNCHANGED <<shape, buffer>>
    BY <1>4 DEF BeginLayer
  <2>2. phase'[t] = "failed" /\ OthersSame(t)
    BY <1>1, <1>2, <2>1 DEF ShapesTypeOK, OthersSame
  <2>3. ShapesTypeOK'
    BY <1>1, <1>2, <2>1 DEF ShapesTypeOK
  <2> QED
    BY <1>1, <1>3, <2>2, <2>3, OwnStepOK DEF Busy
<1>5. CASE ~(Fused(t) /\ l.class = "Dense")
  <2>1. /\ phase' = [phase EXCEPT ![t] = "layer"]
        /\ buffer' = [buffer EXCEPT ![t] = ReadShape(l, shape)]
        /\ shape' = [shape EXCEPT !.units = UnitsRead(l, shape)]
    BY <1>5 DEF BeginLayer
  <2>2. /\ ReadShape(l, shape) \in Seq(Nat)
        /\ l.class = "Conv2D" => Len(ReadShape(l, shape)) = 3
        /\ UnitsRead(l, shape) \in Nat
    BY <1>1, BeginTypes
  <2>3. /\ phase'[t] = "layer" /\ OthersSame(t) /\ buffer'[t] = ReadShape(l, shape)
    BY <1>1, <1>2, <2>1 DEF ShapesTypeOK, OthersSame
  <2>4. shape' \in ShapeType
    BY <1>2, <2>1, <2>2 DEF ShapesTypeOK, ShapeType
  <2>5. ShapesTypeOK'
    <3>1. /\ phase' \in [Threads -> Busy \cup {"idle", "built", "failed"}]
          /\ buffer' \in [Threads -> Seq(Nat)]
      BY <1>2, <2>1, <2>2 DEF ShapesTypeOK, Busy
    <3> QED
      BY <1>1, <1>2, <2>4, <3>1 DEF ShapesTypeOK
  <2>6. Layer(t)' = l /\ (Fused(t)' <=> Fused(t))
    BY <1>1 DEF Layer, Fused
  <2>7. ASSUME Promised(t)
        PROVE  /\ it'[t] - 1 <= Len(job[t].layers)
               /\ job[t].fuse /\ it'[t] <= Len(job[t].layers) =>
                     Layer(t)'.class # "BatchNormalization"
               /\ HasRead(t)'
    <3>1. /\ it[t] - 1 <= Len(job[t].layers)
          /\ job[t].fuse /\ it[t] <= Len(job[t].layers) =>
                l.class # "BatchNormalization"
          /\ Handed(t, it[t] - 1)
      BY <1>1, <2>7 DEF ShapesInv, HandedOK, Busy
    <3>2. LET in == Trained(job[t].layers)[it[t] - 1]
          IN  /\ l.class \notin Headings => shape' = shape
              /\ l.class \in Headings =>
                    /\ ShapeOf(shape') = in
                    /\ <<shape'.units>> = Trained(job[t].layers)[it[t]]
              /\ l.class \in {"Conv2D", "Dense"} => buffer'[t] = in
              /\ l.class = "BatchNormalization" => buffer'[t] = <<in[Len(in)]>>
      BY <1>1, <2>1, <2>3, <2>4, <2>7, BeginReads
    <3>3. l.class \notin Headings => Handed(t, it[t] - 1)'
      BY <1>1, <3>1, <3>2 DEF Handed
    <3>4. HasRead(t)'
      BY <1>1, <2>6, <3>2, <3>3 DEF HasRead
    <3> QED
      BY <1>1, <2>6, <3>1, <3>4
  <2> QED
    BY <1>1, <1>3, <1>5, <2>2, <2>3, <2>5, <2>6, <2>7, OwnStepOK DEF Busy
<1> QED
  BY <1>4, <1>5

\* The layer built has the trained shapes, and the globals are handed on.
LEMMA EndHands ==
    ASSUME ShapesInv, NEW t \in Threads, phase[t] = "layer",
           it[t] <= Len(job[t].layers), Promised(t),
           NEW c, c = Constructed(Layer(t), buffer[t], shape),
           NEW s, s = Written(Layer(t), c.out, shape),
           NEW o, o = [class |-> Layer(t).class, layer |-> it[t],
                       buffer |-> buffer[t], in |-> c.in, out |-> c.out]
    PROVE  LET layers == job[t].layers
               made   == Trained(layers)[it[t]]
           IN  /\ LayerIsTrained(layers, o)
               /\ IF Spatial(layers, it[t])
                  THEN ShapeOf(s) = made /\ s.units = started[t].units
                  ELSE <<s.units>> = made
<1> DEFINE layers == job[t].layers
           p      == it[t] - 1
           l      == Layer(t)
           in     == Trained(layers)[p]
           made   == Trained(layers)[it[t]]
<1>1. /\ layers \in Models /\ it[t] \in 1 .. Len(layers) /\ Len(layers) \in Nat
      /\ l = layers[it[t]] /\ l.class \in Classes
      /\ it[t] = 1 => l.class = "Conv2D"
  BY LayerInWork DEF Busy
<1>2. HasRead(t)
  BY DEF ShapesInv, HandedOK, Busy
<1>3. /\ l.class \notin Headings => Handed(t, p)
      /\ l.class \in Headings => ShapeOf(shape) = in /\ <<shape.units>> = made
      /\ l.class \in {"Conv2D", "Dense"} => buffer[t] = in
      /\ l.class = "BatchNormalization" => buffer[t] = <<in[Len(in)]>>
  BY <1>2 DEF HasRead
<1>4. shape \in ShapeType
  BY DEF ShapesInv, ShapesTypeOK
<1>5. /\ in \in Seq(Nat) /\ Len(in) = Dims(layers, p)
      /\ made \in Seq(Nat) /\ Len(made) = Dims(layers, it[t])
      /\ l.class \in {"Conv2D", "AveragePooling2D"} =>
            /\ made = OutShape(l, in)
            /\ Spatial(layers, p) /\ Spatial(layers, it[t])
      /\ l.class \in Headings => Spatial(layers, p) /\ ~Spatial(layers, it[t])
      /\ l.class = "Dense" => /\ made = <<l.size>>
                             /\ ~Spatial(layers, p) /\ ~Spatial(layers, it[t])
      /\ l.class \in {"BatchNormalization", "Activation"} =>
            made = in /\ (Spatial(layers, it[t]) <=> Spatial(layers, p))
  <2> HIDE DEF layers, l
  <2>1. layers \in Models /\ it[t] \in 1 .. Len(layers) /\ l = layers[it[t]]
    BY <1>1
  <2>2. /\ in \in Seq(Nat) /\ Len(in) = Dims(layers, p)
        /\ made \in Seq(Nat) /\ Len(made) = Dims(layers, it[t])
    BY <2>1, LayerShapes
  <2>3. /\ l.class \in {"Conv2D", "AveragePooling2D"} =>
              /\ made = OutShape(l, in)
              /\ Spatial(layers, p) /\ Spatial(layers, it[t])
        /\ l.class \in Headings => Spatial(layers, p) /\ ~Spatial(layers, it[t])
    BY <2>1, LayerShapes
  <2>4. l.class = "Dense" => /\ made = <<l.size>>
                             /\ ~Spatial(layers, p) /\ ~Spatial(layers, it[t])
    BY <2>1, LayerShapes
  <2>5. l.class \in {"BatchNormalization", "Activation"} =>
           made = in /\ (Spatial(layers, it[t]) <=> Spatial(layers, p))
    BY <2>1, LayerShapes
  <2> QED
    BY <2>2, <2>3, <2>4, <2>5
<1>6. l.class # "Conv2D" => it[t] > 1 /\ p > 0
  BY <1>1
<1>7. /\ Handed(t, p) /\ Spatial(layers, p) /\ p > 0 => ShapeOf(shape) = in
      /\ Handed(t, p) /\ Spatial(layers, p) => shape.units = started[t].units
      /\ Handed(t, p) /\ ~Spatial(layers, p) => <<shape.units>> = in
  BY DEF Handed
<1>8. /\ o.class = l.class /\ o.layer = it[t] /\ o.buffer = buffer[t]
      /\ o.in = c.in /\ o.out = c.out
  OBVIOUS
<1>9. made \in Seq(Nat) /\ (Spatial(layers, it[t]) => made = <<made[1], made[2], made[3]>>)
  BY <1>5, ThreeNumbers DEF Dims
<1> DEFINE HandedOn == IF Spatial(layers, it[t])
                       THEN ShapeOf(s) = made /\ s.units = started[t].units
                       ELSE <<s.units>> = made
<1> HIDE DEF layers, l, in, made
<1>10. CASE l.class \in {"Conv2D", "AveragePooling2D"}
  <2>1. c.in = in /\ c.out = made
    <3>1. CASE l.class = "Conv2D"
      <4>1. c.in = buffer[t] /\ c.out = OutShape(l, buffer[t])
        BY <3>1, ConstructedOf DEF l
      <4> QED
        BY <1>3, <1>5, <3>1, <4>1
    <3>2. CASE l.class = "AveragePooling2D"
      <4>1. c.in = ShapeOf(shape) /\ c.out = OutShape(l, ShapeOf(shape))
        BY <3>2, ConstructedOf DEF l
      <4>2. ShapeOf(shape) = in
        BY <1>3, <1>5, <1>6, <1>7, <3>2 DEF Headings
      <4> QED
        BY <1>5, <3>2, <4>1, <4>2
    <3> QED
      BY <1>10, <3>1, <3>2
  <2>2. LayerIsTrained(layers, o)
    <3>1. o.in = in /\ o.out = made
      BY <1>8, <2>1
    <3>2. in = Trained(layers)[o.layer - 1] /\ made = Trained(layers)[o.layer]
      BY <1>8 DEF in, made
    <3> QED
      BY <1>8, <1>10, <3>1, <3>2, Zenon DEF LayerIsTrained
  <2>3. s = [height |-> made[1], width |-> made[2], channels |-> made[3],
             units |-> shape.units]
    BY <1>4, <1>10, <2>1, WrittenOf DEF l
  <2>4. shape.units = started[t].units
    BY <1>3, <1>5, <1>7, <1>10 DEF Headings
  <2>5. ShapeOf(s) = <<made[1], made[2], made[3]>> /\ s.units = shape.units
    BY <2>3 DEF ShapeOf
  <2>6. HandedOn
    BY <1>5, <1>9, <1>10, <2>4, <2>5
  <2> QED
    BY <2>2, <2>6 DEF layers, made
<1>11. CASE l.class \in Headings
  <2>1. c.in = in /\ c.out = made
    <3>1. c.in = ShapeOf(shape) /\ c.out = <<shape.units>>
      BY <1>11, ConstructedOf DEF l
    <3> QED
      BY <1>3, <1>11, <3>1
  <2>2. LayerIsTrained(layers, o)
    <3>1. o.in = in /\ o.out = made
      BY <1>8, <2>1
    <3>2. in = Trained(layers)[o.layer - 1] /\ made = Trained(layers)[o.layer]
      BY <1>8 DEF in, made
    <3> QED
      BY <1>8, <1>11, <3>1, <3>2, Zenon DEF LayerIsTrained, Headings
  <2>3. s = shape
    BY <1>4, <1>11, WrittenOf DEF l
  <2>4. HandedOn
    BY <1>3, <1>5, <1>11, <2>3
  <2> QED
    BY <2>2, <2>4 DEF layers, made
<1>12. CASE l.class = "Dense"
  <2>1. Handed(t, p) /\ ~Spatial(layers, p)
    BY <1>3, <1>5, <1>12 DEF Headings
  <2>2. c.in = in /\ c.out = made
    <3>1. c.in = <<shape.units>> /\ c.out = <<l.size>>
      BY <1>12, ConstructedOf DEF l
    <3> QED
      BY <1>5, <1>7, <1>12, <2>1, <3>1
  <2>3. LayerIsTrained(layers, o)
    <3>1. o.in = in /\ o.out = made /\ o.buffer = in
      BY <1>3, <1>8, <1>12, <2>2
    <3>2. in = Trained(layers)[o.layer - 1] /\ made = Trained(layers)[o.layer]
      BY <1>8 DEF in, made
    <3> QED
      BY <1>8, <1>12, <3>1, <3>2, Zenon DEF LayerIsTrained
  <2>4. s.units = l.size
    <3>1. s = [height |-> shape.height, width |-> shape.width,
               channels |-> shape.channels, units |-> l.size]
      BY <1>4, <1>12, WrittenOf DEF l
    <3> QED
      BY <3>1
  <2>5. HandedOn
    BY <1>5, <1>12, <2>4
  <2> QED
    BY <2>3, <2>5 DEF layers, made
<1>13. CASE l.class \in {"BatchNormalization", "Activation"}
  <2>1. LayerIsTrained(layers, o)
    <3>1. CASE l.class = "BatchNormalization"
      <4>1. o.buffer = <<in[Len(in)]>> /\ in = Trained(layers)[o.layer - 1]
        BY <1>3, <1>8, <3>1 DEF in
      <4> QED
        BY <1>8, <3>1, <4>1, Zenon DEF LayerIsTrained
    <3>2. CASE l.class = "Activation"
      BY <1>8, <3>2, Zenon DEF LayerIsTrained
    <3> QED
      BY <1>13, <3>1, <3>2
  <2>2. s = shape
    BY <1>4, <1>13, WrittenOf DEF l
  <2>3. Handed(t, p) /\ p > 0
    BY <1>3, <1>6, <1>13 DEF Headings
  <2>4. HandedOn
    BY <1>5, <1>7, <1>13, <2>2, <2>3
  <2> QED
    BY <2>1, <2>4 DEF layers, made
<1> QED
  BY <1>1, <1>10, <1>11, <1>12, <1>13 DEF Classes, Headings, l

\* Ending a layer, whatever the globals hold.
LEMMA EndTypes ==
    ASSUME ShapesInv, NEW t \in Threads, phase[t] = "layer",
           NEW c, c = Constructed(Layer(t), buffer[t], shape),
           NEW s, s = Written(Layer(t), c.out, shape)
    PROVE  /\ s \in ShapeType
           /\ c.in \in Seq(Nat) /\ c.out \in Seq(Nat)
           /\ it[t] <= Len(job[t].layers)
<1> DEFINE l == Layer(t)
<1>1. it[t] <= Len(job[t].layers) /\ (l.class = "Conv2D" => Len(buffer[t]) = 3)
  BY DEF ShapesInv, JobsOK
<1>2. /\ job[t].layers \in Models /\ it[t] \in 1 .. Len(job[t].layers)
      /\ l = job[t].layers[it[t]] /\ l.class \in Classes /\ l.size \in Nat
  BY <1>1, LayerInWork DEF Busy
<1>3. shape \in ShapeType /\ buffer[t] \in Seq(Nat)
  BY DEF ShapesInv, ShapesTypeOK
<1>4. /\ shape.height \in Nat /\ shape.width \in Nat
      /\ shape.channels \in Nat /\ shape.units \in Nat
      /\ ShapeOf(shape) \in Seq(Nat) /\ Len(ShapeOf(shape)) = 3
  BY <1>3 DEF ShapeType, ShapeOf
<1>5. \A n \in Nat : <<n>> \in Seq(Nat)
  OBVIOUS
<1>6. \A in \in Seq(Nat) : Len(in) = 3 =>
         OutShape(l, in) \in Seq(Nat) /\ Len(OutShape(l, in)) = 3
  BY <1>2, OutShapeNat
<1> HIDE DEF l
<1>7. CASE l.class \in {"Conv2D", "AveragePooling2D"}
  <2>1. c.in \in Seq(Nat) /\ c.out \in Seq(Nat) /\ Len(c.out) = 3
    <3>1. CASE l.class = "Conv2D"
      <4>1. c.in = buffer[t] /\ c.out = OutShape(l, buffer[t])
        BY <3>1, ConstructedOf DEF l
      <4> QED
        BY <1>1, <1>3, <1>6, <3>1, <4>1
    <3>2. CASE l.class = "AveragePooling2D"
      <4>1. c.in = ShapeOf(shape) /\ c.out = OutShape(l, ShapeOf(shape))
        BY <3>2, ConstructedOf DEF l
      <4> QED
        BY <1>4, <1>6, <4>1
    <3> QED
      BY <1>7, <3>1, <3>2
  <2>2. s = [height |-> c.out[1], width |-> c.out[2], channels |-> c.out[3],
             units |-> shape.units]
    BY <1>3, <1>7, WrittenOf DEF l
  <2>3. c.out[1] \in Nat /\ c.out[2] \in Nat /\ c.out[3] \in Nat
    BY <2>1, ThreeNumbers
  <2> QED
    BY <1>1, <1>4, <2>1, <2>2, <2>3 DEF ShapeType
<1>8. CASE l.class \in Headings
  <2>1. c.in = ShapeOf(shape) /\ c.out = <<shape.units>> /\ s = shape
    BY <1>3, <1>8, ConstructedOf, WrittenOf DEF l
  <2> QED
    BY <1>1, <1>3, <1>4, <1>5, <2>1
<1>9. CASE l.class = "Dense"
  <2>1. c.in = <<shape.units>> /\ c.out = <<l.size>>
    BY <1>9, ConstructedOf DEF l
  <2>2. s = [height |-> shape.height, width |-> shape.width,
             channels |-> shape.channels, units |-> l.size]
    BY <1>3, <1>9, WrittenOf DEF l
  <2>3. s \in ShapeType
    BY <1>2, <1>4, <2>2 DEF ShapeType
  <2> QED
    BY <1>1, <1>2, <1>4, <1>5, <2>1, <2>3
<1>10. CASE l.class \in {"BatchNormalization", "Activation"}
  <2>1. c.in = buffer[t] /\ c.out = buffer[t] /\ s = shape
    BY <1>3, <1>10, ConstructedOf, WrittenOf DEF l
  <2> QED
    BY <1>1, <1>3, <2>1
<1> QED
  BY <1>2, <1>7, <1>8, <1>9, <1>10 DEF Classes, Headings, l

LEMMA EndLayerOK ==
    ASSUME ShapesInv, NEW t \in Threads, EndLayer(t)
    PROVE  ShapesInv'
<1> DEFINE l == Layer(t)
           c == Constructed(l, buffer[t], shape)
           o == [class |-> l.class, layer |-> it[t], buffer |-> buffer[t],
                 in |-> c.in, out |-> c.out]
           layers == job[t].layers
           next == it[t] + (IF Fused(t) THEN 2 ELSE 1)
<1>1. /\ phase[t] = "layer"
      /\ network' = [network EXCEPT ![t] = Append(@, o)]
      /\ shape' = Written(l, c.out, shape)
      /\ it' = [it EXCEPT ![t] = next]
      /\ phase' = [phase EXCEPT ![t] = "build"]
      /\ buffer' = [buffer EXCEPT ![t] = <<>>]
      /\ UNCHANGED <<job, started>>
  BY DEF EndLayer
<1>2. ShapesTypeOK
  BY DEF ShapesInv
<1>3. /\ shape' \in ShapeType /\ c.in \in Seq(Nat) /\ c.out \in Seq(Nat)
      /\ it[t] <= Len(layers)
  BY <1>1, EndTypes
<1>4. /\ layers \in Models /\ it[t] \in 1 .. Len(layers) /\ Len(layers) \in Nat
      /\ l = layers[it[t]] /\ l.class \in Classes
  BY <1>1, <1>3, LayerInWork DEF Busy
<1>5. Fused(t) => /\ job[t].fuse /\ it[t] + 1 \in 1 .. Len(layers)
                  /\ layers[it[t] + 1].class = "BatchNormalization"
                  /\ l.class = "Conv2D"
  <2>1. ~(Fused(t) /\ l.class = "Dense")
    BY <1>1 DEF ShapesInv, JobsOK
  <2> QED
    BY <1>4, <2>1 DEF Fused
<1>6. /\ o \in BuiltType /\ network[t] \in Seq(BuiltType)
      /\ next \in Nat \ {0} /\ next - 1 <= Len(layers)
  <2>1. o \in BuiltType
    BY <1>2, <1>3, <1>4 DEF ShapesTypeOK, BuiltType
  <2>2. network[t] \in Seq(BuiltType)
    BY <1>2 DEF ShapesTypeOK
  <2> QED
    BY <1>4, <1>5, <2>1, <2>2
<1> HIDE DEF o, c, l
<1>7. /\ phase'[t] = "build" /\ it'[t] = next /\ OthersSame(t)
      /\ network'[t] = Append(network[t], o)
  BY <1>1, <1>2 DEF ShapesTypeOK, OthersSame
<1>8. ShapesTypeOK'
  <2>1. network' \in [Threads -> Seq(BuiltType)]
    <3>1. Append(network[t], o) \in Seq(BuiltType)
      BY <1>6, AppendProperties
    <3> QED
      BY <1>1, <1>2, <3>1 DEF ShapesTypeOK
  <2>2. it' \in [Threads -> Nat \ {0}]
    BY <1>1, <1>2, <1>6 DEF ShapesTypeOK
  <2>3. /\ phase' \in [Threads -> Busy \cup {"idle", "built", "failed"}]
        /\ buffer' \in [Threads -> Seq(Nat)]
    BY <1>1, <1>2 DEF ShapesTypeOK, Busy
  <2> QED
    BY <1>1, <1>2, <1>3, <2>1, <2>2, <2>3 DEF ShapesTypeOK
<1>9. ASSUME Promised(t)
      PROVE  /\ IsTrained(t)'
             /\ Handed(t, it[t] - 1)'
             /\ job[t].fuse /\ it'[t] <= Len(layers) =>
                   Layer(t)'.class # "BatchNormalization"
  <2> DEFINE made == Trained(layers)[it[t]]
  <2>1. /\ LayerIsTrained(layers, o)
        /\ IF Spatial(layers, it[t])
           THEN ShapeOf(shape') = made /\ shape'.units = started[t].units
           ELSE <<shape'.units>> = made
    BY <1>1, <1>3, <1>9, EndHands DEF o, c, l
  <2>2. IsTrained(t)'
    <3>1. IsTrained(t)
      BY <1>9 DEF ShapesInv, AloneIsTrained, Promised
    <3>2. \A i \in DOMAIN network[t] : LayerIsTrained(layers, network[t][i])
      BY <3>1, IsTrainedBy
    <3>3. /\ Len(network'[t]) = Len(network[t]) + 1 /\ network'[t] \in Seq(BuiltType)
          /\ \A i \in 1 .. Len(network[t]) : network'[t][i] = network[t][i]
          /\ network'[t][Len(network[t]) + 1] = o
      BY <1>6, <1>7, AppendProperties
    <3>4. /\ DOMAIN network'[t] = 1 .. Len(network[t]) + 1
          /\ DOMAIN network[t] = 1 .. Len(network[t]) /\ Len(network[t]) \in Nat
      BY <1>6, <3>3
    <3>5. \A i \in DOMAIN network'[t] : LayerIsTrained(layers, network'[t][i])
      <4> TAKE i \in DOMAIN network'[t]
      <4>1. i \in DOMAIN network[t] \/ i = Len(network[t]) + 1
        BY <3>4
      <4> QED
        BY <2>1, <3>2, <3>3, <3>4, <4>1
    <3>6. IsTrained(t)' <=>
             \A i \in DOMAIN network'[t] : LayerIsTrained(job'[t].layers, network'[t][i])
      BY Zenon DEF IsTrained, LayerIsTrained
    <3> QED
      BY <1>1, <3>5, <3>6
  <2>3. CASE ~Fused(t)
    <3>1. it'[t] - 1 = it[t] /\ it[t] > 0
      BY <1>4, <1>7, <2>3
    <3>2. Handed(t, it[t] - 1)'
      BY <1>1, <2>1, <3>1 DEF Handed
    <3>3. job[t].fuse /\ it'[t] <= Len(layers) => Layer(t)'.class # "BatchNormalization"
      <4> SUFFICES ASSUME job[t].fuse, it'[t] <= Len(layers),
                          Layer(t)'.class = "BatchNormalization"
                   PROVE  FALSE
        OBVIOUS
      <4>1. it'[t] = it[t] + 1 /\ it[t] + 1 \in 1 .. Len(layers) /\ it[t] < Len(layers)
        BY <1>4, <1>7, <2>3
      <4>2. layers[it[t] + 1].class = "BatchNormalization"
        BY <1>1, <4>1 DEF Layer
      <4>3. layers[it[t]].class \in {"Conv2D", "Dense"}
        BY <1>4, <4>1, <4>2, ModelLayers
      <4> QED
        BY <1>4, <2>3, <4>1, <4>2, <4>3 DEF Fused, l
    <3> QED
      BY <2>2, <3>2, <3>3
  <2>4. CASE Fused(t)
    <3>1. /\ it'[t] - 1 = it[t] + 1 /\ it[t] + 1 \in 1 .. Len(layers)
          /\ (it[t] + 1) - 1 = it[t] /\ it[t] + 1 > 0 /\ it[t] > 0
      BY <1>4, <1>5, <1>7, <2>4
    <3>2. /\ Trained(layers)[it[t] + 1] = made
          /\ Spatial(layers, it[t] + 1) <=> Spatial(layers, it[t])
      <4>1. layers[it[t] + 1].class \in {"BatchNormalization", "Activation"}
        BY <1>5, <2>4
      <4> HIDE DEF layers
      <4>2. layers \in Models /\ it[t] + 1 \in 1 .. Len(layers)
        BY <1>4, <3>1
      <4>3. Trained(layers)[it[t] + 1] = Trained(layers)[(it[t] + 1) - 1]
            /\ (Spatial(layers, it[t] + 1) <=> Spatial(layers, (it[t] + 1) - 1))
        BY <4>1, <4>2, LayerShapes
      <4> QED
        BY <3>1, <4>3
    <3>3. Handed(t, it[t] - 1)'
      BY <1>1, <2>1, <3>1, <3>2 DEF Handed
    <3>4. it'[t] <= Len(layers) => Layer(t)'.class # "BatchNormalization"
      <4> SUFFICES ASSUME it'[t] <= Len(layers), Layer(t)'.class = "BatchNormalization"
                   PROVE  FALSE
        OBVIOUS
      <4>1. it'[t] \in 1 .. Len(layers) /\ it'[t] - 1 = it[t] + 1
        BY <1>4, <1>7, <2>4
      <4>2. layers[it'[t]].class = "BatchNormalization"
        BY <1>1 DEF Layer
      <4>3. layers[it[t] + 1].class \in {"Conv2D", "Dense"}
        BY <1>4, <4>1, <4>2, ModelLayers
      <4> QED
        BY <1>5, <2>4, <4>3
    <3> QED
      BY <2>2, <3>3, <3>4
  <2> QED
    BY <2>3, <2>4
<1>10. it'[t] - 1 <= Len(job[t].layers)
  BY <1>6, <1>7
<1> QED
  BY <1>1, <1>7, <1>8, <1>9, <1>10, OwnStepOK DEF Busy

\* The invariant is about the network's variables alone.
LEMMA ShapesStutterOK ==
    ASSUME ShapesInv, UNCHANGED shapeVars
    PROVE  ShapesInv'
<1>1. /\ shape' = shape /\ job' = job /\ it' = it /\ buffer' = buffer
      /\ network' = network /\ phase' = phase /\ started' = started
      /\ built' = built
  BY DEF shapeVars
<1>2. ShapesTypeOK' /\ JobsOK' /\ AloneOK'
  BY <1>1 DEF ShapesInv, ShapesTypeOK, JobsOK, AloneOK, Layer, Fused
<1>3. ASSUME NEW t \in Threads
      PROVE  /\ Promised(t)' <=> Promised(t)
             /\ IsTrained(t)' <=> IsTrained(t)
             /\ HasRead(t)' <=> HasRead(t)
             /\ Handed(t, it[t] - 1)' <=> Handed(t, it[t] - 1)
  BY <1>1 DEF Promised, NormalizesChannels, IsTrained, HasRead, Handed, Layer
<1>4. HandedOK'
  BY <1>1, <1>3 DEF ShapesInv, HandedOK, Layer
<1>5. AloneIsTrained'
  BY <1>1, <1>3 DEF ShapesInv, AloneIsTrained, Promised
<1> QED
  BY <1>2, <1>4, <1>5 DEF ShapesInv

\* While networks are built, the globals and the buffers of a thread that
\* builds alone hold what the layers built so far make.
THEOREM ShapesInvHolds == ShapeSpec => []ShapesInv
<1>1. ASSUME ShapesInv, [ShapeNext]_shapeVars
      PROVE  ShapesInv'
  <2>1. CASE UNCHANGED shapeVars
    BY <1>1, <2>1, ShapesStutterOK
  <2>2. ASSUME NEW t \in Threads, NEW layers \in Models, NEW fuse \in FuseLayers,
               StartNetwork(t, layers, fuse)
        PROVE  ShapesInv'
    BY <1>1, <2>2, StartNetworkOK
  <2>3. ASSUME NEW t \in Threads, BeginLayer(t) PROVE ShapesInv'
    BY <1>1, <2>3, BeginLayerOK
  <2>4. ASSUME NEW t \in Threads, EndLayer(t) PROVE ShapesInv'
    BY <1>1, <2>4, EndLayerOK
  <2>5. ASSUME NEW t \in Threads, EndNetwork(t) PROVE ShapesInv'
    BY <1>1, <2>5, EndNetworkOK
  <2> QED
    BY <1>1, <2>1, <2>2, <2>3, <2>4, <2>5 DEF ShapeNext
<1> QED
  BY <1>1, ShapesInitOK, PTL DEF ShapeSpec

\* A network built while no other is, in a process that has built none with
\* a dense layer or whose channels are not normalized on their own, has the
\* trained shapes (BuildNetwork and the next_layer_in globals).
THEOREM AloneIsTrainedHolds == ShapeSpec => []AloneIsTrained
<1>1. ShapesInv => AloneIsTrained
  BY DEF ShapesInv
<1> QED
  BY <1>1, ShapesInvHolds, PTL

-----------------------------------------------------------------------------
(* Division *)

\* A number is a multiple of the divisor and a rest.
LEMMA Division ==
    ASSUME NEW n \in Int, NEW d \in Nat \ {0}
    PROVE  /\ n \div d \in Int /\ n % d \in 0 .. d - 1
           /\ n = (n \div d) * d + (n % d)
           /\ n \in Nat => n \div d \in Nat
<1>1. /\ n \div d \in Int /\ n % d \in 0 .. d - 1
      /\ n = d * (n \div d) + (n % d)
  BY SMT
<1>2. \A q \in Int : q <= -1 => d * q <= -d
  BY SMT
<1>3. n \in Nat => n \div d \in Nat
  BY <1>1, <1>2
<1>4. \A q \in Int : d * q = q * d
  OBVIOUS
<1> QED
  BY <1>1, <1>3, <1>4

\* They are the only ones.
LEMMA Divided ==
    ASSUME NEW d \in Nat \ {0}, NEW q \in Int, NEW r \in 0 .. d - 1
    PROVE  (q * d + r) \div d = q /\ (q * d + r) % d = r
<1>1. d \in Int /\ \A a, b \in Int : a * b \in Int
  OBVIOUS
<1>2. q * d \in Int
  BY <1>1, Zenon
<1> DEFINE n == q * d + r
<1>3. n \in Int
  BY <1>2
<1> DEFINE k == n \div d
           m == n % d
<1>4. k \in Int /\ m \in 0 .. d - 1 /\ n = k * d + m
  BY <1>3, Division
<1>5. q * d + r = k * d + m
  BY <1>4
<1>6. \A a, b \in Int : a < b => b * d >= a * d + d
  BY SMT
<1>7. k * d \in Int
  BY <1>1, <1>4, Zenon
<1> HIDE DEF k, m, n
<1>8. ~(q < k)
  <2> SUFFICES ASSUME q < k PROVE FALSE
    OBVIOUS
  <2>1. k * d >= q * d + d
    BY <1>4, <1>6
  <2> QED
    BY <1>2, <1>4, <1>5, <1>7, <2>1
<1>9. ~(k < q)
  <2> SUFFICES ASSUME k < q PROVE FALSE
    OBVIOUS
  <2>1. q * d >= k * d + d
    BY <1>4, <1>6
  <2> QED
    BY <1>2, <1>4, <1>5, <1>7, <2>1
<1>10. k = q
  BY <1>4, <1>8, <1>9
<1>11. m = r
  BY <1>2, <1>4, <1>5, <1>10
<1> QED
  BY <1>10, <1>11 DEF k, m, n

\* A quotient rounded up is the only number of steps that reaches n and
\* would not with one less.
LEMMA RoundedUp ==
    ASSUME NEW n \in Nat \ {0}, NEW d \in Nat \ {0}
    PROVE  /\ Ceil(n, d) \in 1 .. n
           /\ d * Ceil(n, d) >= n /\ d * (Ceil(n, d) - 1) < n
           /\ \A k \in Nat : d * k >= n /\ d * (k - 1) < n => k = Ceil(n, d)
<1> DEFINE c == Ceil(n, d)
           q == (n - 1) \div d
           r == (n - 1) % d
<1>1. q \in Nat /\ r \in 0 .. d - 1 /\ n - 1 = q * d + r
  <2>1. n - 1 \in Nat
    OBVIOUS
  <2> QED
    BY <2>1, Division
<1>2. q * d \in Nat
  <2>1. \A a, b \in Nat : a * b \in Nat
    OBVIOUS
  <2> QED
    BY <1>1, <2>1, Zenon
<1>3. c = q + 1
  <2>1. (q + 1) * d = q * d + d
    BY <1>1
  <2>2. n + d - 1 = (q + 1) * d + r
    BY <1>1, <1>2, <2>1
  <2>3. q + 1 \in Int /\ r \in 0 .. d - 1
    BY <1>1
  <2> HIDE DEF q, r
  <2>4. ((q + 1) * d + r) \div d = q + 1
    BY <2>3, Divided
  <2> QED
    BY <2>2, <2>4 DEF Ceil
<1>4. d * c = q * d + d /\ d * (c - 1) = q * d
  BY <1>1, <1>3
<1>5. d * c >= n /\ d * (c - 1) < n
  BY <1>1, <1>2, <1>4
<1>6. q <= q * d
  BY <1>1
<1>7. c \in 1 .. n
  BY <1>1, <1>2, <1>3, <1>6
<1> HIDE DEF c, q, r
<1>8. ASSUME NEW k \in Nat, d * k >= n, d * (k - 1) < n
      PROVE  k = c
  <2>1. \A a, b \in Int : a < b => d * b >= d * a + d /\ d * (b - 1) >= d * a
    BY SMT
  <2>2. d * k \in Int /\ d * c \in Int /\ d * (k - 1) \in Int /\ d * (c - 1) \in Int
    BY <1>7, <1>8
  <2>3. k < c => d * (c - 1) >= d * k
    BY <1>7, <2>1
  <2>4. c < k => d * (k - 1) >= d * c
    BY <1>7, <2>1
  <2> QED
    BY <1>5, <1>7, <1>8, <2>2, <2>3, <2>4
<1> QED
  BY <1>5, <1>7, <1>8 DEF c

-----------------------------------------------------------------------------
(* The arithmetic of one axis, without wraps *)

\* What fits an int goes through size_t unharmed.
LEMMA SmallInts ==
    ASSUME NEW n \in Int, -(IntMod \div 2) <= n, n < IntMod \div 2
    PROVE  ToInt(n) = n /\ ToInt(SizeT(n)) = n
<1> DEFINE H == IntMod \div 2
<1>1. /\ IntMod \in Nat \ {0} /\ SizeMod \in Nat \ {0} /\ IntMod = H + H
      /\ H \in Nat
  BY WidthsAssumption
<1>2. PICK j \in Nat \ {0} : SizeMod = j * IntMod
  <2>1. /\ SizeMod \div IntMod \in Nat
        /\ SizeMod = (SizeMod \div IntMod) * IntMod + (SizeMod % IntMod)
        /\ SizeMod % IntMod = 0
    BY <1>1, Division, WidthsAssumption
  <2>2. SizeMod \div IntMod # 0
    BY <1>1, <2>1
  <2>3. (SizeMod \div IntMod) * IntMod \in Int
    BY <1>1, <2>1
  <2>4. SizeMod = (SizeMod \div IntMod) * IntMod
    BY <2>1, <2>3
  <2> QED
    BY <2>1, <2>2, <2>4
<1>3. SizeMod >= IntMod
  <2>1. j * IntMod >= IntMod
    BY <1>1
  <2> QED
    BY <1>2, <2>1
<1> HIDE DEF H
<1>4. n + H \in 0 .. IntMod - 1 /\ -H <= n /\ n < H
  BY <1>1 DEF H
<1>5. ASSUME NEW q \in Nat
      PROVE  ToInt(n + q * IntMod) = n
  <2>1. q * IntMod \in Int
    BY <1>1
  <2>2. (q * IntMod + (n + H)) % IntMod = n + H
    <3>1. q \in Int /\ n + H \in 0 .. IntMod - 1 /\ IntMod \in Nat \ {0}
      BY <1>1, <1>4
    <3> QED
      BY <3>1, Divided, Zenon
  <2>3. n + q * IntMod + H = q * IntMod + (n + H)
    BY <1>1, <2>1
  <2> DEFINE m == n + q * IntMod
  <2> HIDE DEF m
  <2>4. ToInt(m) = ((m + H) % IntMod) - H
    <3>1. \A k : ToInt(k) = ((k + IntMod \div 2) % IntMod) - IntMod \div 2
      BY Zenon DEF ToInt
    <3> QED
      BY <3>1, Zenon DEF H
  <2>5. m + H = q * IntMod + (n + H)
    BY <2>3 DEF m
  <2>6. ToInt(m) = (n + H) - H
    BY <2>2, <2>4, <2>5, Zenon
  <2> QED
    BY <1>1, <2>6 DEF m
<1>6. ToInt(n) = n
  <2>1. n + 0 * IntMod = n
    BY <1>1
  <2> QED
    BY <1>5, <2>1
<1>7. CASE n >= 0
  <2>1. 0 * SizeMod + n = n /\ n \in 0 .. SizeMod - 1
    BY <1>1, <1>3, <1>4, <1>7
  <2>2. SizeT(n) = n
    BY <1>1, <2>1, Divided DEF SizeT
  <2> QED
    BY <1>6, <2>2
<1>8. CASE n < 0
  <2>1. (-1) * SizeMod + (n + SizeMod) = n /\ n + SizeMod \in 0 .. SizeMod - 1
    BY <1>1, <1>3, <1>4, <1>8
  <2>2. SizeT(n) = n + SizeMod
    BY <1>1, <2>1, Divided DEF SizeT
  <2>3. ToInt(n + j * IntMod) = n
    BY <1>5
  <2> QED
    BY <1>2, <1>6, <2>2, <2>3
<1> QED
  BY <1>6, <1>7, <1>8

\* Nor do sizes wrap.
LEMMA SmallSizes ==
    ASSUME NEW n \in Nat, n < IntMod \div 2
    PROVE  SizeT(n) = n
<1>1. /\ IntMod \in Nat \ {0} /\ SizeMod \in Nat \ {0} /\ SizeMod % IntMod = 0
      /\ IntMod \div 2 <= IntMod
  BY WidthsAssumption
<1>2. SizeMod >= IntMod
  <2> SUFFICES ASSUME SizeMod < IntMod PROVE FALSE
    BY <1>1
  <2>1. 0 * IntMod + SizeMod = SizeMod /\ SizeMod \in 0 .. IntMod - 1
    BY <1>1
  <2> QED
    BY <1>1, <2>1, Divided
<1>3. 0 * SizeMod + n = n /\ n \in 0 .. SizeMod - 1
  BY <1>1, <1>2
<1> QED
  BY <1>1, <1>3, Divided DEF SizeT

\* The multiples below n are those of the numbers below n / d rounded up.
LEMMA Reached ==
    ASSUME NEW n \in Nat \ {0}, NEW d \in Nat \ {0}
    PROVE  \A o \in Nat : o <= Ceil(n, d) - 1 <=> o * d < n
<1> DEFINE c == Ceil(n, d)
<1>1. /\ c \in 1 .. n /\ d * c >= n /\ d * (c - 1) < n
  BY RoundedUp
<1> HIDE DEF c
<1> SUFFICES ASSUME NEW o \in Nat
             PROVE  o <= c - 1 <=> o * d < n
  BY DEF c
<1>2. \A a, b \in Int : a <= b => d * a <= d * b
  BY SMT
<1>3. o * d = d * o /\ d * o \in Int /\ d * c \in Int /\ d * (c - 1) \in Int
  BY <1>1
<1>4. o <= c - 1 => d * o <= d * (c - 1)
  BY <1>1, <1>2
<1>5. c <= o => d * c <= d * o
  BY <1>1, <1>2
<1> QED
  BY <1>1, <1>3, <1>4, <1>5

\* A layer's outputs along an axis are Keras'.
LEMMA AxisOutputs ==
    ASSUME NEW in \in Nat \ {0}, NEW window \in Nat \ {0}, NEW stride \in Nat \ {0},
           NEW padding \in {"valid", "same"}, Fits(in, window, padding)
    PROVE  /\ OutSize(in, window, stride, padding) \in Nat \ {0}
           /\ OutSize(in, window, stride, padding) =
                 KerasOut(in, window, stride, padding)
           /\ \A o \in 0 .. OutSize(in, window, stride, padding) - 1 :
                 o * stride \in 0 .. in - 1
<1> DEFINE m == IF padding = "valid" THEN in - window + 1 ELSE in
           c == Ceil(m, stride)
<1>1. m \in Nat \ {0} /\ m <= in
  BY DEF Fits
<1>2. /\ c \in 1 .. m /\ stride * c >= m /\ stride * (c - 1) < m
      /\ \A k \in Nat : stride * k >= m /\ stride * (k - 1) < m => k = c
  BY <1>1, RoundedUp
<1>3. \A o \in Nat : o <= c - 1 <=> o * stride < m
  BY <1>1, Reached
<1>4. OutSize(in, window, stride, padding) = c
  <2>1. IntMod \div 2 \in Int
    BY WidthsAssumption
  <2>2. padding = "valid" => SizeT(in - window + 1) = in - window + 1
    <3> SUFFICES ASSUME padding = "valid"
                 PROVE  SizeT(in - window + 1) = in - window + 1
      OBVIOUS
    <3>1. in - window + 1 \in Nat /\ in - window + 1 < IntMod \div 2
      BY <2>1 DEF Fits
    <3> QED
      BY <3>1, SmallSizes
  <2> QED
    BY <2>2 DEF OutSize
<1>5. KerasOut(in, window, stride, padding) = c
  <2>1. CASE padding = "same"
    <3>1. m = in /\ c \in 0 .. in
      BY <1>1, <1>2, <2>1
    <3> HIDE DEF c
    <3>2. c = CHOOSE n \in 0 .. in : stride * n >= in /\ stride * (n - 1) < in
      BY <1>2, <3>1
    <3> QED
      BY <2>1, <3>2 DEF KerasOut
  <2>2. CASE padding = "valid"
    <3> DEFINE S == {o \in 0 .. in : o * stride + window <= in}
    <3>1. m = in - window + 1 /\ c \in 1 .. in
      BY <1>1, <1>2, <2>2
    <3> HIDE DEF c, m
    <3>2. ASSUME NEW o \in Nat
          PROVE  o * stride + window <= in <=> o <= c - 1
      <4>1. o * stride \in Int
        OBVIOUS
      <4> QED
        BY <1>3, <3>1, <4>1
    <3>3. S = 0 .. c - 1
      <4>1. ASSUME NEW o
            PROVE  o \in S <=> o \in 0 .. c - 1
        <5>1. CASE o \in Nat
          BY <3>1, <3>2, <5>1
        <5>2. CASE o \notin Nat
          BY <3>1, <5>2
        <5> QED
          BY <5>1, <5>2
      <4> QED
        BY <4>1
    <3>4. Cardinality(0 .. c - 1) = c
      <4>1. c - 1 \in Int /\ ~(0 > c - 1) /\ c - 1 - 0 + 1 = c
        BY <3>1
      <4> QED
        BY <4>1, FS_Interval
    <3> QED
      BY <2>2, <3>3, <3>4 DEF KerasOut
  <2> QED
    BY <2>1, <2>2
<1>6. ASSUME NEW o \in 0 .. c - 1
      PROVE  o * stride \in 0 .. in - 1
  <2>1. o \in Nat /\ o <= c - 1
    BY <1>2
  <2>2. o * stride \in Nat
    BY <2>1
  <2> HIDE DEF c, m
  <2>3. o * stride < m
    BY <1>3, <2>1
  <2> QED
    BY <1>1, <2>2, <2>3
<1>7. c \in Nat \ {0}
  BY <1>1, <1>2
<1> QED
  BY <1>4, <1>5, <1>6, <1>7

\* And so is the padding before it, where the windows touch; it is shorter
\* than a window.
LEMMA AxisPadding ==
    ASSUME NEW in \in Nat \ {0}, NEW window \in Nat \ {0}, NEW stride \in Nat \ {0},
           NEW padding \in {"valid", "same"}, Fits(in, window, padding),
           stride <= window
    PROVE  /\ PadBefore(in, window, stride, padding) =
                 KerasPad(in, window, stride, padding)
           /\ PadBefore(in, window, stride, padding) \in 0 .. window - 1
<1>1. CASE padding = "valid"
  <2>1. PadBefore(in, window, stride, padding) = 0
    BY <1>1 DEF PadBefore, PadAlong
  <2> QED
    BY <1>1, <2>1 DEF KerasPad
<1>2. CASE padding = "same"
  <2> DEFINE q == in \div stride
             r == in % stride
             x == IF r = 0 THEN window - stride ELSE window - r
             k == KerasOut(in, window, stride, padding)
  <2>1. q \in Nat /\ r \in 0 .. stride - 1 /\ in = q * stride + r
    <3>1. in \in Int /\ in \in Nat
      OBVIOUS
    <3> QED
      BY <3>1, Division
  <2>2. x \in 0 .. window - 1 /\ SizeT(x) = x
    <3>1. x \in 0 .. window - 1
      BY <2>1
    <3>2. x \in Nat /\ x < IntMod \div 2
      <4>1. IntMod \div 2 \in Int /\ in + window <= IntMod \div 2
        BY WidthsAssumption DEF Fits
      <4> QED
        BY <3>1, <4>1
    <3> HIDE DEF x
    <3> QED
      BY <3>1, <3>2, SmallSizes
  <2>3. PadAlong(in, window, stride, padding) = x
    BY <1>2, <2>2 DEF PadAlong
  <2>4. k = Ceil(in, stride)
    BY <1>2, AxisOutputs DEF OutSize
  <2>5. (k - 1) * stride + window - in = x
    <3>1. q * stride \in Nat
      <4>1. \A a, b \in Nat : a * b \in Nat
        OBVIOUS
      <4> QED
        BY <2>1, <4>1, Zenon
    <3>2. stride * q = q * stride /\ stride * (q - 1) = q * stride - stride
          /\ stride * (q + 1) = q * stride + stride
          /\ (q - 1) * stride = q * stride - stride
          /\ stride * ((q + 1) - 1) = q * stride
      BY <2>1
    <3>3. CASE r = 0
      <4> HIDE DEF q
      <4>1. stride * q >= in /\ stride * (q - 1) < in
        BY <2>1, <3>1, <3>2, <3>3
      <4>2. k = q
        BY <2>1, <2>4, <4>1, RoundedUp
      <4> HIDE DEF k, r
      <4> QED
        BY <2>1, <3>1, <3>2, <3>3, <4>2
    <3>4. CASE r # 0
      <4> HIDE DEF q
      <4>1. stride * (q + 1) >= in /\ stride * ((q + 1) - 1) < in /\ q + 1 \in Nat
        BY <2>1, <3>1, <3>2, <3>4
      <4>2. k = q + 1
        BY <2>4, <4>1, RoundedUp
      <4>3. k - 1 = q
        BY <2>1, <4>2
      <4> HIDE DEF k, r
      <4> QED
        BY <2>1, <3>1, <3>4, <4>3
    <3> QED
      BY <3>3, <3>4
  <2> HIDE DEF x, k, q, r
  <2>6. PadBefore(in, window, stride, padding) = x \div 2
    BY <2>3 DEF PadBefore
  <2>7. KerasPad(in, window, stride, padding) = x \div 2
    <3>1. (IF x > 0 THEN x ELSE 0) = x
      BY <2>2
    <3> QED
      BY <1>2, <2>5, <3>1 DEF KerasPad, k
  <2>8. x \div 2 \in 0 .. window - 1
    BY <2>2
  <2> QED
    BY <2>6, <2>7, <2>8
<1> QED
  BY <1>1, <1>2

\* Where the window of output o lies, whose first tap is at: its taps inside
\* the input are Keras', there is one, and without padding the corner is one.
WindowAt(at, o, in, window, stride, padding) ==
    /\ at \in Int
    /\ \A f \in 0 .. window - 1 :
          ~OutOfRange(at + f, in) <=>
             <<at + f, f>> \in Taps(o, in, window, stride, padding)
    /\ \A tap \in Taps(o, in, window, stride, padding) :
          tap[2] \in 0 .. window - 1 /\ tap = <<at + tap[2], tap[2]>>
    /\ \E f \in 0 .. window - 1 : ~OutOfRange(at + f, in)
    /\ PadBefore(in, window, stride, padding) = 0 => ~OutOfRange(at + 0, in)

LEMMA AxisWindow ==
    ASSUME NEW in \in Nat \ {0}, NEW window \in Nat \ {0}, NEW stride \in Nat \ {0},
           NEW padding \in {"valid", "same"}, Fits(in, window, padding),
           stride <= window,
           NEW o \in 0 .. OutSize(in, window, stride, padding) - 1,
           NEW at, at = Target(o, 0, stride, PadBefore(in, window, stride, padding))
    PROVE  WindowAt(at, o, in, window, stride, padding)
<1> DEFINE pad == PadBefore(in, window, stride, padding)
           n == o * stride
<1>1. /\ pad \in 0 .. window - 1 /\ pad = KerasPad(in, window, stride, padding)
  BY AxisPadding
<1>2. n \in 0 .. in - 1
  BY AxisOutputs
<1> HIDE DEF pad, n
<1>3. at = n - pad
  <2>1. IntMod \div 2 \in Nat /\ in + window <= IntMod \div 2
    BY WidthsAssumption DEF Fits
  <2>2. n - pad \in Int /\ -(IntMod \div 2) <= n - pad /\ n - pad < IntMod \div 2
    BY <1>1, <1>2, <2>1
  <2>3. ToInt(SizeT(n - pad)) = n - pad /\ ToInt(n - pad) = n - pad
    BY <2>2, SmallInts
  <2>4. n - pad + 0 = n - pad
    BY <2>2
  <2> QED
    BY <2>3, <2>4 DEF Target, n, pad
<1>4. at \in Int /\ at < in /\ -at \in Int /\ -at <= window - 1
  BY <1>1, <1>2, <1>3
<1>5. Taps(o, in, window, stride, padding) =
         {tap \in (0 .. in - 1) \X (0 .. window - 1) : tap[1] = at + tap[2]}
  BY <1>1, <1>3 DEF Taps, n
<1>6. ASSUME NEW f \in 0 .. window - 1
      PROVE  ~OutOfRange(at + f, in) <=>
                <<at + f, f>> \in Taps(o, in, window, stride, padding)
  <2>1. ~OutOfRange(at + f, in) <=> at + f \in 0 .. in - 1
    BY <1>4 DEF OutOfRange
  <2> QED
    BY <1>5, <2>1
<1>7. ASSUME NEW tap \in Taps(o, in, window, stride, padding)
      PROVE  tap[2] \in 0 .. window - 1 /\ tap = <<at + tap[2], tap[2]>>
  BY <1>5
<1>8. \E f \in 0 .. window - 1 : ~OutOfRange(at + f, in)
  <2>1. CASE at >= 0
    <3>1. 0 \in 0 .. window - 1 /\ ~OutOfRange(at + 0, in)
      BY <1>4, <2>1 DEF OutOfRange
    <3> QED
      BY <3>1
  <2>2. CASE at < 0
    <3>1. -at \in 0 .. window - 1 /\ ~OutOfRange(at + (-at), in)
      BY <1>4, <2>2 DEF OutOfRange
    <3> QED
      BY <3>1
  <2> QED
    BY <1>4, <2>1, <2>2
<1>9. pad = 0 => ~OutOfRange(at + 0, in)
  BY <1>2, <1>3, <1>4 DEF OutOfRange
<1> QED
  BY <1>4, <1>6, <1>7, <1>8, <1>9 DEF WindowAt, pad

-----------------------------------------------------------------------------
(* The loops that sum *)

\* The sums as a function f of the number of iterations.
Partial(f, n, first, body) ==
    f = [i \in 0 .. n |->
           IF i = 0 THEN Empty
           ELSE IF body[i - 1] = {} THEN f[i - 1]
           ELSE IF i - 1 \in first THEN body[i - 1]
           ELSE Plus(f[i - 1], body[i - 1])]

LEMMA PartialExists ==
    ASSUME NEW n \in Nat, NEW first, NEW body
    PROVE  \E f : Partial(f, n, first, body)
<1> DEFINE Next(a, i) == IF body[i - 1] = {} THEN a
                         ELSE IF i - 1 \in first THEN body[i - 1]
                         ELSE Plus(a, body[i - 1])
           S == {k \in Nat : \E f : Partial(f, k, first, body)}
<1>1. ASSUME NEW f, NEW k
      PROVE  Partial(f, k, first, body) <=>
                f = [i \in 0 .. k |-> IF i = 0 THEN Empty ELSE Next(f[i - 1], i)]
  BY DEF Partial
<1> HIDE DEF Next
<1>2. 0 \in S
  <2> DEFINE f == [i \in {0} |-> Empty]
  <2>1. f = [i \in 0 .. 0 |-> IF i = 0 THEN Empty ELSE Next(f[i - 1], i)]
    OBVIOUS
  <2> HIDE DEF f
  <2> QED
    BY <1>1, <2>1
<1>3. ASSUME NEW k \in Nat, k \in S
      PROVE  k + 1 \in S
  <2>1. PICK f : f = [i \in 0 .. k |-> IF i = 0 THEN Empty ELSE Next(f[i - 1], i)]
    BY <1>1, <1>3
  <2> DEFINE g == [i \in 0 .. k + 1 |-> IF i = k + 1 THEN Next(f[k], i) ELSE f[i]]
  <2>2. ASSUME NEW i \in 0 .. k + 1
        PROVE  g[i] = IF i = 0 THEN Empty ELSE Next(g[i - 1], i)
    <3>1. CASE i = k + 1
      BY <3>1
    <3>2. CASE i # k + 1
      <4>1. i \in 0 .. k /\ g[i] = f[i]
        BY <3>2
      <4>2. i # 0 => i - 1 \in 0 .. k /\ g[i - 1] = f[i - 1]
        BY <4>1
      <4>3. f[i] = IF i = 0 THEN Empty ELSE Next(f[i - 1], i)
        BY <2>1, <4>1
      <4> HIDE DEF g
      <4> QED
        BY <4>1, <4>2, <4>3
    <3> QED
      BY <3>1, <3>2
  <2>3. g = [i \in 0 .. k + 1 |-> IF i = 0 THEN Empty ELSE Next(g[i - 1], i)]
    BY <2>2
  <2>4. k + 1 \in Nat
    OBVIOUS
  <2> HIDE DEF g
  <2> QED
    BY <1>1, <2>3, <2>4
<1> HIDE DEF S
<1>4. Nat \subseteq S
  BY <1>2, <1>3, SetInduction
<1> QED
  BY <1>4 DEF S

\* One iteration after the other.
Steps(acc, n, first, body) ==
    /\ acc[0] = Empty
    /\ \A i \in 0 .. n - 1 :
          acc[i + 1] = IF body[i] = {} THEN acc[i]
                       ELSE IF i \in first THEN body[i]
                       ELSE Plus(acc[i], body[i])

LEMMA AccumulateSteps ==
    ASSUME NEW n \in Nat, NEW first, NEW body
    PROVE  \E acc : Accumulate(n, first, body) = acc[n] /\ Steps(acc, n, first, body)
<1> DEFINE acc == CHOOSE f : Partial(f, n, first, body)
<1>1. Partial(acc, n, first, body)
  BY PartialExists
<1>2. Accumulate(n, first, body) = acc[n]
  BY DEF Accumulate, Partial
<1> HIDE DEF acc
<1>3. acc[0] = Empty
  BY <1>1 DEF Partial
<1>4. ASSUME NEW i \in 0 .. n - 1
      PROVE  acc[i + 1] = IF body[i] = {} THEN acc[i]
                          ELSE IF i \in first THEN body[i]
                          ELSE Plus(acc[i], body[i])
  <2>1. i + 1 \in 0 .. n /\ i + 1 # 0 /\ (i + 1) - 1 = i
    OBVIOUS
  <2> QED
    BY <1>1, <2>1 DEF Partial
<1>5. Steps(acc, n, first, body)
  BY <1>3, <1>4 DEF Steps
<1> QED
  BY <1>2, <1>5

\* A loop that assigns at most before any product sums every product, or
\* throws; it throws only when it does not assign the first one.
SumOrThrow(sum, n, first, body) ==
    /\ sum = Thrown \/ sum = UNION {body[i] : i \in 0 .. n - 1}
    /\ (\A i \in 0 .. n - 1 :
           body[i] # {} /\ (\A m \in 0 .. i - 1 : body[m] = {}) => i \in first)
       => sum = UNION {body[i] : i \in 0 .. n - 1} /\ sum # Thrown

LEMMA Accumulated ==
    ASSUME NEW n \in Nat, NEW first, NEW body,
           \A i \in 0 .. n - 1 : Product(<<>>, One) \notin body[i],
           \A i \in first \cap 0 .. n - 1 : \A m \in 0 .. i - 1 : body[m] = {},
           NEW sum, sum = Accumulate(n, first, body)
    PROVE  SumOrThrow(sum, n, first, body)
<1> DEFINE U(i) == UNION {body[m] : m \in 0 .. i - 1}
           Assigns == \A i \in 0 .. n - 1 :
                         body[i] # {} /\ (\A m \in 0 .. i - 1 : body[m] = {}) => i \in first
<1>1. PICK acc : sum = acc[n] /\ Steps(acc, n, first, body)
  BY AccumulateSteps
<1>2. ASSUME NEW i \in Nat
      PROVE  \A e : e \in U(i) <=> \E m \in 0 .. i - 1 : e \in body[m]
  OBVIOUS
<1> DEFINE S == {i \in Nat :
                   i <= n => /\ acc[i] = Thrown \/ acc[i] = U(i)
                             /\ Assigns => acc[i] = U(i)}
<1> HIDE DEF U, Assigns
<1>3. 0 \in S
  <2>1. U(0) = Empty
    BY <1>2 DEF Empty
  <2> QED
    BY <1>1, <2>1 DEF Steps
<1>4. ASSUME NEW i \in Nat, i \in S
      PROVE  i + 1 \in S
  <2> SUFFICES ASSUME i + 1 <= n
               PROVE  /\ acc[i + 1] = Thrown \/ acc[i + 1] = U(i + 1)
                      /\ Assigns => acc[i + 1] = U(i + 1)
    OBVIOUS
  <2>1. /\ i \in 0 .. n - 1 /\ i + 1 \in Nat /\ i <= n
        /\ \A m : m \in 0 .. (i + 1) - 1 <=> m \in 0 .. i - 1 \/ m = i
    OBVIOUS
  <2>2. /\ acc[i] = Thrown \/ acc[i] = U(i)
        /\ Assigns => acc[i] = U(i)
    BY <1>4, <2>1, Zenon
  <2>3. U(i + 1) = U(i) \cup body[i]
    BY <1>2, <2>1
  <2>4. acc[i + 1] = IF body[i] = {} THEN acc[i]
                     ELSE IF i \in first THEN body[i]
                     ELSE Plus(acc[i], body[i])
    BY <1>1, <2>1 DEF Steps
  <2>5. U(i) # Thrown
    <3>1. Product(<<>>, One) \notin U(i)
      <4> SUFFICES ASSUME Product(<<>>, One) \in U(i) PROVE FALSE
        OBVIOUS
      <4>1. PICK m \in 0 .. i - 1 : Product(<<>>, One) \in body[m]
        BY <1>2, Zenon
      <4>2. m \in 0 .. n - 1
        BY <2>1
      <4> QED
        BY <4>1, <4>2, Zenon
    <3> QED
      BY <3>1 DEF Thrown
  <2>6. U(i) = {} <=> \A m \in 0 .. i - 1 : body[m] = {}
    BY <1>2
  <2>7. CASE body[i] = {}
    BY <2>2, <2>3, <2>4, <2>7
  <2>8. CASE body[i] # {} /\ i \in first
    <3>1. U(i) = {}
      BY <2>1, <2>6, <2>8
    <3> QED
      BY <2>3, <2>4, <2>8, <3>1
  <2>9. CASE body[i] # {} /\ i \notin first
    <3>1. acc[i + 1] = Plus(acc[i], body[i])
      BY <2>4, <2>9
    <3>2. Assigns => U(i) # {}
      BY <2>1, <2>6, <2>9 DEF Assigns
    <3> QED
      BY <2>2, <2>3, <2>5, <3>1, <3>2 DEF Plus, Empty
  <2> QED
    BY <2>7, <2>8, <2>9
<1> HIDE DEF S
<1>5. Nat \subseteq S
  BY <1>3, <1>4, SetInduction
<1>6. /\ sum = Thrown \/ sum = U(n)
      /\ Assigns => sum = U(n)
  <2>1. n \in S /\ n <= n
    BY <1>5
  <2> QED
    BY <1>1, <2>1, Zenon DEF S
<1>7. U(n) # Thrown
  BY <1>2 DEF Thrown
<1> QED
  BY <1>6, <1>7 DEF U, Assigns, SumOrThrow

-----------------------------------------------------------------------------
(* Loops over two and three indexes as one *)

LEMMA Products ==
    ASSUME NEW i \in Int, NEW j \in Int, NEW k \in Int
    PROVE  (i + j) * k = i * k + j * k /\ (i * j) * k = i * (k * j)
  BY SMT

\* Below k times d are the numbers whose quotient is below k.
LEMMA Below ==
    ASSUME NEW d \in Nat \ {0}, NEW q \in Nat, NEW r \in 0 .. d - 1, NEW k \in Nat
    PROVE  q * d + r \in Nat /\ (q * d + r < k * d <=> q < k)
<1>1. d \in Nat /\ \A a, b \in Nat : a * b \in Nat
  OBVIOUS
<1>2. q * d \in Nat /\ k * d \in Nat
  BY <1>1, Zenon
<1>3. \A a, b \in Int : a < b => b * d >= a * d + d
  BY SMT
<1>4. q < k => k * d >= q * d + d
  BY <1>3
<1>5. k < q => q * d >= k * d + d
  BY <1>3
<1> QED
  BY <1>2, <1>4, <1>5

\* Two digits, the second below d.
LEMMA TwoDigits ==
    ASSUME NEW k \in Nat, NEW d \in Nat \ {0}
    PROVE  /\ k * d \in Nat
           /\ \A n \in 0 .. k * d - 1 : n \div d \in 0 .. k - 1 /\ n % d \in 0 .. d - 1
           /\ \A q \in 0 .. k - 1, r \in 0 .. d - 1 :
                 /\ q * d + r \in 0 .. k * d - 1
                 /\ (q * d + r) \div d = q /\ (q * d + r) % d = r
<1>1. k * d \in Nat
  <2>1. d \in Nat /\ \A a, b \in Nat : a * b \in Nat
    OBVIOUS
  <2> QED
    BY <2>1, Zenon
<1>2. ASSUME NEW n \in 0 .. k * d - 1
      PROVE  n \div d \in 0 .. k - 1 /\ n % d \in 0 .. d - 1
  <2>1. n \in Int /\ n \in Nat /\ n < k * d
    BY <1>1
  <2> DEFINE q == n \div d
             r == n % d
  <2>2. q \in Nat /\ r \in 0 .. d - 1 /\ n = q * d + r
    BY <2>1, Division
  <2> HIDE DEF q, r
  <2>3. q * d + r < k * d
    BY <2>1, <2>2
  <2>4. q < k
    BY <2>2, <2>3, Below
  <2>5. q \in 0 .. k - 1
    BY <2>2, <2>4
  <2> QED
    BY <2>2, <2>5 DEF q, r
<1>3. ASSUME NEW q \in 0 .. k - 1, NEW r \in 0 .. d - 1
      PROVE  /\ q * d + r \in 0 .. k * d - 1
             /\ (q * d + r) \div d = q /\ (q * d + r) % d = r
  <2>1. q \in Nat /\ q \in Int /\ q < k
    OBVIOUS
  <2>2. q * d + r \in Nat /\ q * d + r < k * d
    BY <2>1, Below
  <2>3. (q * d + r) \div d = q /\ (q * d + r) % d = r
    BY <2>1, Divided
  <2>4. \A x \in Nat : x < k * d => x \in 0 .. k * d - 1
    BY <1>1
  <2> QED
    BY <2>2, <2>3, <2>4, Zenon
<1> QED
  BY <1>1, <1>2, <1>3

\* Three digits, the second below b and the third below c; the first is the
\* quotient by the product.
Digits(a, b, c) ==
    /\ a * b * c \in Nat
    /\ \A n \in 0 .. a * b * c - 1 :
          /\ n \div (c * b) \in 0 .. a - 1
          /\ (n \div c) % b \in 0 .. b - 1
          /\ n % c \in 0 .. c - 1
          /\ n = ((n \div (c * b)) * b + ((n \div c) % b)) * c + (n % c)
    /\ \A x \in 0 .. a - 1, y \in 0 .. b - 1, z \in 0 .. c - 1 :
          LET n == (x * b + y) * c + z
          IN  /\ n \in 0 .. a * b * c - 1
              /\ n \div (c * b) = x /\ (n \div c) % b = y /\ n % c = z

LEMMA ThreeDigits ==
    ASSUME NEW a \in Nat, NEW b \in Nat \ {0}, NEW c \in Nat \ {0}
    PROVE  Digits(a, b, c)
<1>1. /\ a * b \in Nat /\ c * b \in Nat \ {0} /\ c * b = b * c
  <2>1. b \in Nat /\ c \in Nat /\ \A i, j \in Nat : i * j \in Nat
    OBVIOUS
  <2>2. a * b \in Nat /\ c * b \in Nat
    BY <2>1, Zenon
  <2>3. \A i, j \in Nat \ {0} : i * j # 0 /\ i * j = j * i
    BY SMT
  <2>4. c * b # 0 /\ c * b = b * c
    BY <2>3
  <2> QED
    BY <2>2, <2>4
<1> DEFINE k == a * b
<1>2. /\ k * c \in Nat
      /\ \A n \in 0 .. k * c - 1 : n \div c \in 0 .. k - 1 /\ n % c \in 0 .. c - 1
      /\ \A q \in 0 .. k - 1, r \in 0 .. c - 1 :
            /\ q * c + r \in 0 .. k * c - 1
            /\ (q * c + r) \div c = q /\ (q * c + r) % c = r
  <2> HIDE DEF k
  <2>1. k \in Nat
    BY <1>1 DEF k
  <2> QED
    BY <2>1, TwoDigits
<1>3. /\ \A q \in 0 .. k - 1 : q \div b \in 0 .. a - 1 /\ q % b \in 0 .. b - 1
      /\ \A x \in 0 .. a - 1, y \in 0 .. b - 1 :
            /\ x * b + y \in 0 .. k - 1
            /\ (x * b + y) \div b = x /\ (x * b + y) % b = y
  BY TwoDigits
<1>4. ASSUME NEW x \in 0 .. a - 1, NEW y \in 0 .. b - 1, NEW z \in 0 .. c - 1
      PROVE  ((x * b + y) * c + z) \div (c * b) = x
  <2>1. (x * b + y) * c + z = x * (c * b) + (y * c + z)
    <3>1. \A i, j \in Int : i * j \in Int
      OBVIOUS
    <3>3. /\ x \in Int /\ y \in Int /\ z \in Int /\ b \in Int /\ c \in Int
          /\ c * b \in Int
      BY <1>1
    <3>4. x * b \in Int /\ y * c \in Int /\ x * (c * b) \in Int
      BY <3>1, <3>3, Zenon
    <3>5. (x * b + y) * c = (x * b) * c + y * c
      BY <3>3, <3>4, Products
    <3>6. (x * b) * c = x * (c * b)
      BY <3>3, Products
    <3> HIDE DEF k
    <3> QED
      BY <3>3, <3>4, <3>5, <3>6
  <2>2. y * c + z \in 0 .. (c * b) - 1
    <3>1. y * c + z \in 0 .. b * c - 1
      BY TwoDigits
    <3> QED
      BY <1>1, <3>1
  <2>3. x \in Int
    OBVIOUS
  <2> QED
    BY <1>1, <2>1, <2>2, <2>3, Divided
<1>5. ASSUME NEW n \in 0 .. k * c - 1
      PROVE  /\ n \div (c * b) \in 0 .. a - 1
             /\ (n \div c) % b \in 0 .. b - 1
             /\ n % c \in 0 .. c - 1
             /\ n = ((n \div (c * b)) * b + ((n \div c) % b)) * c + (n % c)
  <2> DEFINE p == n \div c
             z == n % c
             x == p \div b
             y == p % b
  <2>1. p \in 0 .. k - 1 /\ z \in 0 .. c - 1 /\ n = p * c + z
    <3>1. n \in Int
      BY <1>2
    <3> QED
      BY <1>2, <3>1, Division
  <2>2. x \in 0 .. a - 1 /\ y \in 0 .. b - 1 /\ p = x * b + y
    <3>1. p \in Int
      BY <1>1, <2>1
    <3> HIDE DEF p
    <3> QED
      BY <1>3, <2>1, <3>1, Division
  <2> HIDE DEF p, x, y, z
  <2>3. n = (x * b + y) * c + z
    BY <2>1, <2>2
  <2>4. n \div (c * b) = x
    BY <1>4, <2>1, <2>2, <2>3
  <2> QED
    BY <2>1, <2>2, <2>3, <2>4 DEF p, y, z
<1>6. ASSUME NEW x \in 0 .. a - 1, NEW y \in 0 .. b - 1, NEW z \in 0 .. c - 1,
             NEW n, n = (x * b + y) * c + z
      PROVE  /\ n \in 0 .. k * c - 1
             /\ n \div (c * b) = x /\ (n \div c) % b = y /\ n % c = z
  <2> DEFINE p == x * b + y
  <2>1. p \in 0 .. k - 1 /\ p % b = y
    BY <1>3
  <2>2. n \div (c * b) = x
    BY <1>4, <1>6
  <2> HIDE DEF p
  <2>3. n = p * c + z
    BY <1>6 DEF p
  <2>4. n \in 0 .. k * c - 1 /\ n \div c = p /\ n % c = z
    BY <1>2, <2>1, <2>3
  <2> QED
    BY <2>1, <2>2, <2>4
<1> QED
  BY <1>2, <1>5, <1>6 DEF Digits

LEMMA DigitsAt ==
    ASSUME NEW a, NEW b, NEW c, Digits(a, b, c),
           NEW x \in 0 .. a - 1, NEW y \in 0 .. b - 1, NEW z \in 0 .. c - 1
    PROVE  /\ (x * b + y) * c + z \in 0 .. a * b * c - 1
           /\ ((x * b + y) * c + z) \div (c * b) = x
           /\ (((x * b + y) * c + z) \div c) % b = y
           /\ ((x * b + y) * c + z) % c = z
<1>1. \A u \in 0 .. a - 1, v \in 0 .. b - 1, w \in 0 .. c - 1 :
         LET n == (u * b + v) * c + w
         IN  /\ n \in 0 .. a * b * c - 1
             /\ n \div (c * b) = u /\ (n \div c) % b = v /\ n % c = w
  BY Zenon DEF Digits
<1>2. LET n == (x * b + y) * c + z
      IN  /\ n \in 0 .. a * b * c - 1
          /\ n \div (c * b) = x /\ (n \div c) % b = y /\ n % c = z
  BY <1>1
<1> QED
  BY <1>2, Zenon

-----------------------------------------------------------------------------
(* Windows *)

Windowed == {"Conv2D", "AveragePooling2D"}

LEMMA LayerTypes ==
    ASSUME NEW l \in Layers
    PROVE  /\ l.class \in {"Conv2D", "AveragePooling2D", "Flatten", "Dense",
                           "GlobalAveragePooling2D", "BatchNormalization"}
           /\ l.height \in Nat \ {0} /\ l.width \in Nat \ {0}
           /\ l.channels \in Nat \ {0} /\ l.size \in Nat
           /\ l.wh \in Nat \ {0} /\ l.ww \in Nat \ {0}
           /\ l.sh \in Nat \ {0} /\ l.sw \in Nat \ {0}
           /\ l.padding \in {"valid", "same"} /\ l.optPool \in BOOLEAN
           /\ l.class \in Windowed =>
                 Fits(l.height, l.wh, l.padding) /\ Fits(l.width, l.ww, l.padding)
  BY LayersAssumption DEF Windowed

\* The taps inside the input are those of the trained window; there is one,
\* and without padding the corner is one.
LEMMA WindowTaps ==
    ASSUME layer \in Layers, layer.class \in Windowed, Touching,
           NEW oh \in 0 .. OutHeight(layer) - 1, NEW ow \in 0 .. OutWidth(layer) - 1,
           NEW p, p[1] = oh, p[2] = ow
    PROVE  /\ \A fh \in 0 .. layer.wh - 1, fw \in 0 .. layer.ww - 1 :
                 InRange(oh, ow, fh, fw) <=>
                    <<<<Top(oh) + fh, fh>>, <<Left(ow) + fw, fw>>>> \in WindowOf(p)
           /\ \A q \in WindowOf(p) :
                 /\ q[1][2] \in 0 .. layer.wh - 1 /\ q[1][1] = Top(oh) + q[1][2]
                 /\ q[2][2] \in 0 .. layer.ww - 1 /\ q[2][1] = Left(ow) + q[2][2]
                 /\ InRange(oh, ow, q[1][2], q[2][2])
           /\ \E fh \in 0 .. layer.wh - 1, fw \in 0 .. layer.ww - 1 :
                 InRange(oh, ow, fh, fw)
           /\ PadBefore(layer.height, layer.wh, layer.sh, layer.padding) = 0
              /\ PadBefore(layer.width, layer.ww, layer.sw, layer.padding) = 0
                 => InRange(oh, ow, 0, 0)
<1> DEFINE H == Taps(oh, layer.height, layer.wh, layer.sh, layer.padding)
           W == Taps(ow, layer.width, layer.ww, layer.sw, layer.padding)
<1>1. /\ layer.height \in Nat \ {0} /\ layer.width \in Nat \ {0}
      /\ layer.wh \in Nat \ {0} /\ layer.ww \in Nat \ {0}
      /\ layer.sh \in Nat \ {0} /\ layer.sw \in Nat \ {0}
      /\ layer.padding \in {"valid", "same"}
      /\ Fits(layer.height, layer.wh, layer.padding)
      /\ Fits(layer.width, layer.ww, layer.padding)
      /\ layer.sh <= layer.wh /\ layer.sw <= layer.ww
  BY LayerTypes DEF Touching
<1>2. /\ oh \in 0 .. OutSize(layer.height, layer.wh, layer.sh, layer.padding) - 1
      /\ ow \in 0 .. OutSize(layer.width, layer.ww, layer.sw, layer.padding) - 1
  BY DEF OutHeight, OutWidth, Windowed
<1>3. /\ \A f \in 0 .. layer.wh - 1 :
            ~OutOfRange(Top(oh) + f, layer.height) <=> <<Top(oh) + f, f>> \in H
      /\ \A tap \in H : tap[2] \in 0 .. layer.wh - 1 /\ tap = <<Top(oh) + tap[2], tap[2]>>
      /\ \E f \in 0 .. layer.wh - 1 : ~OutOfRange(Top(oh) + f, layer.height)
      /\ PadBefore(layer.height, layer.wh, layer.sh, layer.padding) = 0
            => ~OutOfRange(Top(oh) + 0, layer.height)
  <2>1. WindowAt(Top(oh), oh, layer.height, layer.wh, layer.sh, layer.padding)
    <3>1. Top(oh) = Target(oh, 0, layer.sh,
                           PadBefore(layer.height, layer.wh, layer.sh, layer.padding))
      BY DEF Top
    <3> QED
      BY <1>1, <1>2, <3>1, AxisWindow
  <2> QED
    BY <2>1 DEF WindowAt
<1>4. /\ \A f \in 0 .. layer.ww - 1 :
            ~OutOfRange(Left(ow) + f, layer.width) <=> <<Left(ow) + f, f>> \in W
      /\ \A tap \in W : tap[2] \in 0 .. layer.ww - 1 /\ tap = <<Left(ow) + tap[2], tap[2]>>
      /\ \E f \in 0 .. layer.ww - 1 : ~OutOfRange(Left(ow) + f, layer.width)
      /\ PadBefore(layer.width, layer.ww, layer.sw, layer.padding) = 0
            => ~OutOfRange(Left(ow) + 0, layer.width)
  <2>1. WindowAt(Left(ow), ow, layer.width, layer.ww, layer.sw, layer.padding)
    <3>1. Left(ow) = Target(ow, 0, layer.sw,
                            PadBefore(layer.width, layer.ww, layer.sw, layer.padding))
      BY DEF Left
    <3> QED
      BY <1>1, <1>2, <3>1, AxisWindow
  <2> QED
    BY <2>1 DEF WindowAt
<1>5. WindowOf(p) = H \X W
  BY DEF WindowOf
<1>6. \A fh, fw : InRange(oh, ow, fh, fw) <=>
                     ~OutOfRange(Top(oh) + fh, layer.height)
                     /\ ~OutOfRange(Left(ow) + fw, layer.width)
  BY DEF InRange
<1> HIDE DEF H, W
<1>7. ASSUME NEW q \in WindowOf(p)
      PROVE  /\ q[1][2] \in 0 .. layer.wh - 1 /\ q[1][1] = Top(oh) + q[1][2]
             /\ q[2][2] \in 0 .. layer.ww - 1 /\ q[2][1] = Left(ow) + q[2][2]
             /\ InRange(oh, ow, q[1][2], q[2][2])
  <2>1. q[1] \in H /\ q[2] \in W
    BY <1>5
  <2>2. /\ q[1][2] \in 0 .. layer.wh - 1 /\ q[1] = <<Top(oh) + q[1][2], q[1][2]>>
        /\ q[2][2] \in 0 .. layer.ww - 1 /\ q[2] = <<Left(ow) + q[2][2], q[2][2]>>
    BY <1>3, <1>4, <2>1
  <2>3. InRange(oh, ow, q[1][2], q[2][2])
    BY <1>3, <1>4, <1>6, <2>1, <2>2
  <2> QED
    BY <2>2, <2>3
<1>8. ASSUME NEW fh \in 0 .. layer.wh - 1, NEW fw \in 0 .. layer.ww - 1
      PROVE  InRange(oh, ow, fh, fw) <=>
                <<<<Top(oh) + fh, fh>>, <<Left(ow) + fw, fw>>>> \in WindowOf(p)
  BY <1>3, <1>4, <1>5, <1>6
<1> QED
  BY <1>3, <1>4, <1>6, <1>7, <1>8

-----------------------------------------------------------------------------
(* The sums of a window *)

\* No product is the exception's.
LEMMA ProductsOf ==
    ASSUME NEW h, NEW w, NEW c, NEW weight
    PROVE  Product(Element(h, w, c), weight) # Product(<<>>, One)
<1>1. <<h, w, c>> # <<>>
  OBVIOUS
<1> QED
  BY <1>1 DEF Product, Element

Convolution(p) ==
    {Product(Element(q[1][1], q[2][1], ic), <<q[1][2], q[2][2], ic, p[3]>>) :
        q \in WindowOf(p), ic \in 0 .. layer.channels - 1}

\* A convolution sums the products of its window: the first one in range is
\* of channel 0, the only ones that are assigned.
LEMMA ConvolveSums ==
    ASSUME layer \in Layers, layer.class = "Conv2D", Touching,
           NEW oh \in 0 .. OutHeight(layer) - 1, NEW ow \in 0 .. OutWidth(layer) - 1,
           NEW oc
    PROVE  /\ Convolve(oh, ow, oc) = Convolution(<<oh, ow, oc>>)
           /\ Convolve(oh, ow, oc) # Thrown
<1> DEFINE ic(n) == n % layer.channels
           fw(n) == (n \div layer.channels) % layer.ww
           fh(n) == n \div (layer.channels * layer.ww)
           at(x, y, z) == (x * layer.ww + y) * layer.channels + z
           taps == layer.wh * layer.ww * layer.channels
           tap(x, y, z) == Product(Element(Top(oh) + x, Left(ow) + y, z), <<x, y, z, oc>>)
           body == [n \in 0 .. taps - 1 |->
                      IF InRange(oh, ow, fh(n), fw(n))
                      THEN {tap(fh(n), fw(n), ic(n))} ELSE {}]
           first == {n \in 0 .. taps - 1 :
                       ic(n) = 0 /\ \A m \in 0 .. n - 1 : body[m] = {}}
           sum == Accumulate(taps, first, body)
           p == <<oh, ow, oc>>
<1>1. /\ layer.wh \in Nat \ {0} /\ layer.ww \in Nat \ {0} /\ layer.channels \in Nat \ {0}
  BY LayerTypes
<1>2. /\ taps \in Nat
      /\ \A n \in 0 .. taps - 1 :
            /\ fh(n) \in 0 .. layer.wh - 1 /\ fw(n) \in 0 .. layer.ww - 1
            /\ ic(n) \in 0 .. layer.channels - 1
            /\ n = at(fh(n), fw(n), ic(n))
      /\ \A x \in 0 .. layer.wh - 1, y \in 0 .. layer.ww - 1,
            z \in 0 .. layer.channels - 1 :
            /\ at(x, y, z) \in 0 .. taps - 1
            /\ fh(at(x, y, z)) = x /\ fw(at(x, y, z)) = y /\ ic(at(x, y, z)) = z
  <2>1. layer.wh \in Nat
    BY <1>1
  <2>2. Digits(layer.wh, layer.ww, layer.channels)
    BY <1>1, <2>1, ThreeDigits
  <2> QED
    BY <2>2, Zenon DEF Digits
<1>3. Convolve(oh, ow, oc) = Used(sum)
  BY DEF Convolve
<1>4. \A n \in 0 .. taps - 1 :
         body[n] = IF InRange(oh, ow, fh(n), fw(n))
                   THEN {tap(fh(n), fw(n), ic(n))} ELSE {}
  OBVIOUS
<1>5. \A x, y, z : tap(x, y, z) # Product(<<>>, One)
  BY ProductsOf
<1>6. \A n \in first : ic(n) = 0 /\ \A m \in 0 .. n - 1 : body[m] = {}
  OBVIOUS
<1>7. \A n \in 0 .. taps - 1 : ic(n) = 0 /\ (\A m \in 0 .. n - 1 : body[m] = {}) => n \in first
  OBVIOUS
<1>8. /\ \A x \in 0 .. layer.wh - 1, y \in 0 .. layer.ww - 1 :
            InRange(oh, ow, x, y) <=>
               <<<<Top(oh) + x, x>>, <<Left(ow) + y, y>>>> \in WindowOf(p)
      /\ \A q \in WindowOf(p) :
            /\ q[1][2] \in 0 .. layer.wh - 1 /\ q[1][1] = Top(oh) + q[1][2]
            /\ q[2][2] \in 0 .. layer.ww - 1 /\ q[2][1] = Left(ow) + q[2][2]
            /\ InRange(oh, ow, q[1][2], q[2][2])
      /\ \E x \in 0 .. layer.wh - 1, y \in 0 .. layer.ww - 1 : InRange(oh, ow, x, y)
  <2>1. p[1] = oh /\ p[2] = ow /\ layer.class \in Windowed
    BY DEF Windowed
  <2> HIDE DEF p
  <2> QED
    BY <2>1, WindowTaps
<1>9. \A z : z \in Convolution(p) <=>
         \E q \in WindowOf(p), c \in 0 .. layer.channels - 1 :
            z = Product(Element(q[1][1], q[2][1], c), <<q[1][2], q[2][2], c, oc>>)
  <2>1. p[3] = oc
    OBVIOUS
  <2> HIDE DEF p
  <2> QED
    BY <2>1 DEF Convolution
<1>10. \A x, y, z : tap(x, y, z) =
          Product(Element(Top(oh) + x, Left(ow) + y, z), <<x, y, z, oc>>)
  OBVIOUS
<1> HIDE DEF ic, fw, fh, at, taps, tap, body, first, sum, p
<1>11. \A n \in 0 .. taps - 1 : Product(<<>>, One) \notin body[n]
  BY <1>4, <1>5
<1>12. \A n \in first \cap 0 .. taps - 1 : \A m \in 0 .. n - 1 : body[m] = {}
  BY <1>6
<1>13. ASSUME NEW n \in 0 .. taps - 1, body[n] # {}, \A m \in 0 .. n - 1 : body[m] = {}
       PROVE  n \in first
  <2> DEFINE m == at(fh(n), fw(n), 0)
  <2>1. InRange(oh, ow, fh(n), fw(n))
    BY <1>4, <1>13
  <2>2. /\ m \in 0 .. taps - 1 /\ fh(m) = fh(n) /\ fw(m) = fw(n)
    BY <1>1, <1>2
  <2>3. body[m] # {}
    BY <1>4, <2>1, <2>2
  <2>4. m \notin 0 .. n - 1
    BY <1>13, <2>3
  <2>5. n = m + ic(n) /\ ic(n) \in Nat
    <3> DEFINE base == (fh(n) * layer.ww + fw(n)) * layer.channels
    <3>1. fh(n) \in Int /\ fw(n) \in Int /\ layer.ww \in Int /\ layer.channels \in Int
      BY <1>1, <1>2
    <3>2. \A i, j \in Int : i * j \in Int /\ i + j \in Int
      OBVIOUS
    <3>3. fh(n) * layer.ww \in Int
      BY <3>1, <3>2, Zenon
    <3>4. fh(n) * layer.ww + fw(n) \in Int
      BY <3>1, <3>2, <3>3, Zenon
    <3>5. base \in Int
      BY <3>1, <3>2, <3>4, Zenon
    <3>6. m = base + 0 /\ at(fh(n), fw(n), ic(n)) = base + ic(n)
      BY DEF at
    <3>7. n = at(fh(n), fw(n), ic(n)) /\ ic(n) \in Nat
      BY <1>1, <1>2
    <3> HIDE DEF base, m
    <3> QED
      BY <3>5, <3>6, <3>7
  <2> HIDE DEF m
  <2>6. ic(n) = 0
    BY <1>2, <2>2, <2>4, <2>5
  <2> QED
    BY <1>7, <1>13, <2>6
<1>14. sum = UNION {body[n] : n \in 0 .. taps - 1} /\ sum # Thrown
  <2>1. \A n \in 0 .. taps - 1 :
           body[n] # {} /\ (\A m \in 0 .. n - 1 : body[m] = {}) => n \in first
    BY <1>13
  <2>2. taps \in Nat /\ sum = Accumulate(taps, first, body)
    BY <1>2 DEF sum
  <2>3. SumOrThrow(sum, taps, first, body)
    BY <1>11, <1>12, <2>2, Accumulated
  <2> QED
    BY <2>1, <2>3 DEF SumOrThrow
<1>15. \A e : e \in sum <=> \E n \in 0 .. taps - 1 : e \in body[n]
  BY <1>14
<1>16. ASSUME NEW x \in 0 .. layer.wh - 1, NEW y \in 0 .. layer.ww - 1,
              NEW z \in 0 .. layer.channels - 1, InRange(oh, ow, x, y)
       PROVE  tap(x, y, z) \in sum /\ tap(x, y, z) \in Convolution(p)
  <2>1. /\ at(x, y, z) \in 0 .. taps - 1
        /\ fh(at(x, y, z)) = x /\ fw(at(x, y, z)) = y /\ ic(at(x, y, z)) = z
    BY <1>2
  <2>2. tap(x, y, z) \in body[at(x, y, z)]
    BY <1>4, <1>16, <2>1
  <2> DEFINE q == <<<<Top(oh) + x, x>>, <<Left(ow) + y, y>>>>
  <2>3. /\ q \in WindowOf(p) /\ q[1][1] = Top(oh) + x /\ q[1][2] = x
        /\ q[2][1] = Left(ow) + y /\ q[2][2] = y
    BY <1>8, <1>16
  <2>4. tap(x, y, z) = Product(Element(q[1][1], q[2][1], z), <<q[1][2], q[2][2], z, oc>>)
    BY <1>10, <2>3
  <2> HIDE DEF q
  <2>5. tap(x, y, z) \in Convolution(p)
    BY <1>9, <2>3, <2>4
  <2> QED
    BY <1>15, <2>1, <2>2, <2>5
<1>17. ASSUME NEW e \in sum
       PROVE  e \in Convolution(p)
  <2>1. PICK n \in 0 .. taps - 1 : e \in body[n]
    BY <1>15, <1>17
  <2>2. InRange(oh, ow, fh(n), fw(n))
    BY <1>4, <2>1
  <2>3. body[n] = {tap(fh(n), fw(n), ic(n))}
    BY <1>4, <2>2
  <2>4. e = tap(fh(n), fw(n), ic(n))
    BY <2>1, <2>3, Zenon
  <2> QED
    BY <1>2, <1>16, <2>2, <2>4
<1>18. ASSUME NEW e \in Convolution(p)
       PROVE  e \in sum
  <2>1. PICK q \in WindowOf(p), c \in 0 .. layer.channels - 1 :
           e = Product(Element(q[1][1], q[2][1], c), <<q[1][2], q[2][2], c, oc>>)
    BY <1>9, <1>18
  <2>2. /\ q[1][2] \in 0 .. layer.wh - 1 /\ q[2][2] \in 0 .. layer.ww - 1
        /\ InRange(oh, ow, q[1][2], q[2][2])
        /\ q[1][1] = Top(oh) + q[1][2] /\ q[2][1] = Left(ow) + q[2][2]
    BY <1>8
  <2>3. e = tap(q[1][2], q[2][2], c)
    BY <1>10, <2>1, <2>2
  <2> QED
    BY <1>16, <2>2, <2>3
<1>19. sum = Convolution(p)
  BY <1>17, <1>18
<1>20. sum # Empty
  <2>1. PICK x \in 0 .. layer.wh - 1, y \in 0 .. layer.ww - 1 : InRange(oh, ow, x, y)
    BY <1>8
  <2>2. 0 \in 0 .. layer.channels - 1
    BY <1>1
  <2> QED
    BY <1>16, <2>1, <2>2 DEF Empty
<1> QED
  BY <1>3, <1>14, <1>19, <1>20 DEF Used, p

Pooling(p) ==
    {Product(Element(q[1][1], q[2][1], p[3]), One) : q \in WindowOf(p)}

\* A pooling sums the elements of its window or throws, and throws only when
\* the corner it assigns lies in the padding.
LEMMA PoolSums ==
    ASSUME layer \in Layers, layer.class = "AveragePooling2D", Touching,
           NEW oh \in 0 .. OutHeight(layer) - 1, NEW ow \in 0 .. OutWidth(layer) - 1,
           NEW oc
    PROVE  /\ Pool(oh, ow, oc) \in {Thrown, Pooling(<<oh, ow, oc>>)}
           /\ PadBefore(layer.height, layer.wh, layer.sh, layer.padding) = 0
              /\ PadBefore(layer.width, layer.ww, layer.sw, layer.padding) = 0
                 => Pool(oh, ow, oc) # Thrown
<1> DEFINE pw(n) == n % layer.ww
           ph(n) == n \div layer.ww
           at(x, y) == x * layer.ww + y
           taps == layer.wh * layer.ww
           tap(x, y) == Product(Element(Top(oh) + x, Left(ow) + y, oc), One)
           body == [n \in 0 .. taps - 1 |->
                      IF InRange(oh, ow, ph(n), pw(n))
                      THEN {tap(ph(n), pw(n))} ELSE {}]
           sum == Accumulate(taps, {0}, body)
           p == <<oh, ow, oc>>
<1>1. layer.wh \in Nat \ {0} /\ layer.ww \in Nat \ {0}
  BY LayerTypes
<1>2. /\ taps \in Nat
      /\ \A n \in 0 .. taps - 1 : ph(n) \in 0 .. layer.wh - 1 /\ pw(n) \in 0 .. layer.ww - 1
      /\ \A x \in 0 .. layer.wh - 1, y \in 0 .. layer.ww - 1 :
            /\ at(x, y) \in 0 .. taps - 1
            /\ ph(at(x, y)) = x /\ pw(at(x, y)) = y
  <2>1. layer.wh \in Nat
    BY <1>1
  <2> QED
    BY <1>1, <2>1, TwoDigits
<1>3. Pool(oh, ow, oc) = IF layer.optPool THEN sum ELSE Used(sum)
  BY DEF Pool
<1>4. \A n \in 0 .. taps - 1 :
         body[n] = IF InRange(oh, ow, ph(n), pw(n)) THEN {tap(ph(n), pw(n))} ELSE {}
  OBVIOUS
<1>5. \A x, y : tap(x, y) # Product(<<>>, One)
  BY ProductsOf
<1>6. /\ \A x \in 0 .. layer.wh - 1, y \in 0 .. layer.ww - 1 :
            InRange(oh, ow, x, y) <=>
               <<<<Top(oh) + x, x>>, <<Left(ow) + y, y>>>> \in WindowOf(p)
      /\ \A q \in WindowOf(p) :
            /\ q[1][2] \in 0 .. layer.wh - 1 /\ q[1][1] = Top(oh) + q[1][2]
            /\ q[2][2] \in 0 .. layer.ww - 1 /\ q[2][1] = Left(ow) + q[2][2]
            /\ InRange(oh, ow, q[1][2], q[2][2])
      /\ PadBefore(layer.height, layer.wh, layer.sh, layer.padding) = 0
         /\ PadBefore(layer.width, layer.ww, layer.sw, layer.padding) = 0
            => InRange(oh, ow, 0, 0)
  <2>1. p[1] = oh /\ p[2] = ow /\ layer.class \in Windowed
    BY DEF Windowed
  <2> HIDE DEF p
  <2> QED
    BY <2>1, WindowTaps
<1>7. \A z : z \in Pooling(p) <=>
         \E q \in WindowOf(p) : z = Product(Element(q[1][1], q[2][1], oc), One)
  <2>1. p[3] = oc
    OBVIOUS
  <2> HIDE DEF p
  <2> QED
    BY <2>1 DEF Pooling
<1>8. \A x, y : tap(x, y) = Product(Element(Top(oh) + x, Left(ow) + y, oc), One)
  OBVIOUS
<1>9. 0 \in 0 .. taps - 1 /\ ph(0) = 0 /\ pw(0) = 0
  <2>1. 0 \in 0 .. layer.wh - 1 /\ 0 \in 0 .. layer.ww - 1
    BY <1>1
  <2>2. at(0, 0) = 0
    BY <1>1
  <2> HIDE DEF at, taps, ph, pw
  <2> QED
    BY <1>2, <2>1, <2>2
<1> HIDE DEF pw, ph, at, taps, tap, body, sum, p
<1>10. \A n \in 0 .. taps - 1 : Product(<<>>, One) \notin body[n]
  BY <1>4, <1>5
<1>11. \A n \in {0} \cap 0 .. taps - 1 : \A m \in 0 .. n - 1 : body[m] = {}
  OBVIOUS
<1>12. SumOrThrow(sum, taps, {0}, body)
  BY <1>2, <1>10, <1>11, Accumulated DEF sum
<1> DEFINE U == UNION {body[n] : n \in 0 .. taps - 1}
<1>13. \A e : e \in U <=> \E n \in 0 .. taps - 1 : e \in body[n]
  OBVIOUS
<1> HIDE DEF U
<1>14. ASSUME NEW x \in 0 .. layer.wh - 1, NEW y \in 0 .. layer.ww - 1,
              InRange(oh, ow, x, y)
       PROVE  tap(x, y) \in U /\ tap(x, y) \in Pooling(p)
  <2>1. at(x, y) \in 0 .. taps - 1 /\ ph(at(x, y)) = x /\ pw(at(x, y)) = y
    BY <1>2
  <2>2. tap(x, y) \in body[at(x, y)]
    BY <1>4, <1>14, <2>1
  <2> DEFINE q == <<<<Top(oh) + x, x>>, <<Left(ow) + y, y>>>>
  <2>3. q \in WindowOf(p) /\ q[1][1] = Top(oh) + x /\ q[2][1] = Left(ow) + y
    BY <1>6, <1>14
  <2>4. tap(x, y) = Product(Element(q[1][1], q[2][1], oc), One)
    BY <1>8, <2>3
  <2> HIDE DEF q
  <2>5. tap(x, y) \in Pooling(p)
    BY <1>7, <2>3, <2>4
  <2> QED
    BY <1>13, <2>1, <2>2, <2>5
<1>15. ASSUME NEW e \in U
       PROVE  e \in Pooling(p)
  <2>1. PICK n \in 0 .. taps - 1 : e \in body[n]
    BY <1>13, <1>15
  <2>2. InRange(oh, ow, ph(n), pw(n))
    BY <1>4, <2>1
  <2>3. body[n] = {tap(ph(n), pw(n))}
    BY <1>4, <2>2
  <2>4. e = tap(ph(n), pw(n))
    BY <2>1, <2>3, Zenon
  <2> QED
    BY <1>2, <1>14, <2>2, <2>4
<1>16. ASSUME NEW e \in Pooling(p)
       PROVE  e \in U
  <2>1. PICK q \in WindowOf(p) : e = Product(Element(q[1][1], q[2][1], oc), One)
    BY <1>7, <1>16
  <2>2. /\ q[1][2] \in 0 .. layer.wh - 1 /\ q[2][2] \in 0 .. layer.ww - 1
        /\ InRange(oh, ow, q[1][2], q[2][2])
        /\ q[1][1] = Top(oh) + q[1][2] /\ q[2][1] = Left(ow) + q[2][2]
    BY <1>6
  <2>3. e = tap(q[1][2], q[2][2])
    BY <1>8, <2>1, <2>2
  <2> QED
    BY <1>14, <2>2, <2>3
<1>17. U = Pooling(p)
  BY <1>15, <1>16
<1>18. ASSUME InRange(oh, ow, 0, 0)
       PROVE  sum = U /\ sum # Thrown /\ sum # Empty
  <2>1. body[0] # {}
    BY <1>4, <1>9, <1>18
  <2>2. ASSUME NEW n \in 0 .. taps - 1, \A m \in 0 .. n - 1 : body[m] = {}
        PROVE  n \in {0}
    <3>1. 0 \notin 0 .. n - 1
      BY <2>1, <2>2
    <3> QED
      BY <3>1
  <2>3. sum = U /\ sum # Thrown
    BY <1>12, <2>2 DEF U, SumOrThrow
  <2> QED
    BY <1>9, <1>13, <2>1, <2>3 DEF Empty
<1>19. sum = Thrown \/ sum = U
  BY <1>12 DEF SumOrThrow, U
<1> QED
  BY <1>3, <1>6, <1>17, <1>18, <1>19 DEF Used, p

-----------------------------------------------------------------------------
(* The invariant: what has been computed is right *)

Pixels(c) ==
    {Product(Element(h, w, c), One) :
        h \in 0 .. layer.height - 1, w \in 0 .. layer.width - 1}

\* The iterations left are the layer's; the positions are its output's.
ForwardTypeOK ==
    /\ layer \in Layers
    /\ todo \subseteq Items(layer)
    /\ progress \in {"forward", "done", "terminated"}
    /\ DOMAIN output = Positions(layer)
    /\ progress = "done" => todo = {}

ConvolutionOK ==
    layer.class = "Conv2D" /\ Touching =>
       /\ progress # "terminated"
       /\ \A p \in Positions(layer) : <<p[1], p[2]>> \notin todo => output[p] = Convolution(p)

PoolingOK ==
    layer.class = "AveragePooling2D" /\ Touching =>
       IF progress = "terminated"
       THEN PadBefore(layer.height, layer.wh, layer.sh, layer.padding) > 0
            \/ PadBefore(layer.width, layer.ww, layer.sw, layer.padding) > 0
       ELSE \A p \in Positions(layer) : <<p[1], p[2]>> \notin todo => output[p] = Pooling(p)

FlatteningOK ==
    layer.class = "Flatten" =>
       \A item \in Items(layer) :
          item \notin todo =>
             output[FlatPos(item[1], item[2], item[3])] = {Product(item, One)}

AveragingOK ==
    layer.class = "GlobalAveragePooling2D" =>
       \A c \in Positions(layer) :
          c \notin todo =>
             output[c] = IF progress = "done" THEN Pixels(c)
                         ELSE {Product(Element(0, 0, c), One)}

ForwardInv ==
    ForwardTypeOK /\ ConvolutionOK /\ PoolingOK /\ FlatteningOK /\ AveragingOK

\* The iterations and the positions of each class of layer.
LEMMA WindowedItems ==
    ASSUME NEW l, l.class \in Windowed
    PROVE  /\ Items(l) = (0 .. OutHeight(l) - 1) \X (0 .. OutWidth(l) - 1)
           /\ Positions(l) = (0 .. OutHeight(l) - 1) \X (0 .. OutWidth(l) - 1)
                                \X (0 .. OutChannels(l) - 1)
<1>1. CASE l.class = "Conv2D"
  BY <1>1, Zenon DEF Items, Positions
<1>2. CASE l.class = "AveragePooling2D"
  BY <1>2, Zenon DEF Items, Positions
<1> QED
  BY <1>1, <1>2 DEF Windowed

LEMMA FlattenItems ==
    ASSUME NEW l, l.class = "Flatten"
    PROVE  /\ Items(l) = (0 .. l.height - 1) \X (0 .. l.width - 1) \X (0 .. l.channels - 1)
           /\ Positions(l) = 0 .. l.height * l.width * l.channels - 1
BY Zenon DEF Items, Positions

LEMMA AveragingItems ==
    ASSUME NEW l, l.class = "GlobalAveragePooling2D"
    PROVE  Items(l) = 0 .. l.channels - 1 /\ Positions(l) = 0 .. l.channels - 1
BY Zenon DEF Items, Positions

\* An iteration, of any class.
LEMMA WriteOK ==
    ASSUME ForwardTypeOK, progress = "forward",
           NEW item \in todo, NEW values, Write(item, values)
    PROVE  /\ ForwardTypeOK'
           /\ layer' = layer /\ todo' = todo \ {item}
           /\ IF progress' = "terminated"
              THEN \E p \in DOMAIN values : values[p] = Thrown
              ELSE /\ progress' = "forward"
                   /\ \A p \in DOMAIN values : values[p] # Thrown
                   /\ \A p \in Positions(layer) :
                         output'[p] = IF p \in DOMAIN values THEN values[p] ELSE output[p]
<1>1. layer' = layer /\ todo' = todo \ {item}
  BY DEF Write
<1>2. Positions(layer)' = Positions(layer) /\ Items(layer)' = Items(layer)
  BY <1>1
<1>3. CASE \E p \in DOMAIN values : values[p] = Thrown
  <2>1. progress' = "terminated" /\ output' = output
    BY <1>3 DEF Write
  <2> QED
    BY <1>1, <1>2, <1>3, <2>1 DEF ForwardTypeOK
<1>4. CASE ~(\E p \in DOMAIN values : values[p] = Thrown)
  <2>1. /\ progress' = "forward"
        /\ output' = [p \in DOMAIN output |->
                        IF p \in DOMAIN values THEN values[p] ELSE output[p]]
    BY <1>4 DEF Write
  <2>2. DOMAIN output' = Positions(layer)
    BY <2>1 DEF ForwardTypeOK
  <2>3. ForwardTypeOK'
    BY <1>1, <1>2, <2>1, <2>2 DEF ForwardTypeOK
  <2>4. \A p \in Positions(layer) :
           output'[p] = IF p \in DOMAIN values THEN values[p] ELSE output[p]
    BY <2>1 DEF ForwardTypeOK
  <2> QED
    BY <1>1, <1>4, <2>1, <2>3, <2>4
<1> QED
  BY <1>3, <1>4

\* The sums of a window are of the layer alone.
LEMMA SameSums ==
    ASSUME layer' = layer
    PROVE  /\ Touching' <=> Touching
           /\ \A p : Convolution(p)' = Convolution(p) /\ Pooling(p)' = Pooling(p)
                    /\ Pixels(p)' = Pixels(p)
           /\ Positions(layer)' = Positions(layer) /\ Items(layer)' = Items(layer)
BY DEF Touching, Convolution, Pooling, Pixels, WindowOf

LEMMA ConvolutionStep ==
    ASSUME ForwardInv, NEW item \in todo, ForwardConv2D(item)
    PROVE  ForwardInv'
<1> DEFINE values == [p \in {<<item[1], item[2], oc>> : oc \in 0 .. layer.size - 1}
                        |-> Convolve(p[1], p[2], p[3])]
<1>1. /\ layer.class = "Conv2D" /\ progress = "forward" /\ Write(item, values)
      /\ ForwardTypeOK
  BY DEF ForwardConv2D, Running, ForwardInv
<1>2. /\ Items(layer) = (0 .. OutHeight(layer) - 1) \X (0 .. OutWidth(layer) - 1)
      /\ Positions(layer) = (0 .. OutHeight(layer) - 1) \X (0 .. OutWidth(layer) - 1)
                               \X (0 .. layer.size - 1)
  BY <1>1, WindowedItems DEF Windowed, OutChannels
<1>3. /\ item[1] \in 0 .. OutHeight(layer) - 1 /\ item[2] \in 0 .. OutWidth(layer) - 1
      /\ item = <<item[1], item[2]>>
  BY <1>1, <1>2 DEF ForwardTypeOK
<1>4. \A p : p \in DOMAIN values <=>
               \E oc \in 0 .. layer.size - 1 : p = <<item[1], item[2], oc>>
  OBVIOUS
<1>5. \A oc \in 0 .. layer.size - 1 :
         values[<<item[1], item[2], oc>>] = Convolve(item[1], item[2], oc)
  OBVIOUS
<1> HIDE DEF values
<1>6. /\ ForwardTypeOK' /\ layer' = layer /\ todo' = todo \ {item}
      /\ IF progress' = "terminated"
         THEN \E p \in DOMAIN values : values[p] = Thrown
         ELSE \A p \in Positions(layer) :
                 output'[p] = IF p \in DOMAIN values THEN values[p] ELSE output[p]
  BY <1>1, WriteOK
<1>7. ConvolutionOK'
  <2> SUFFICES ASSUME Touching
               PROVE  /\ progress' # "terminated"
                      /\ \A p \in Positions(layer) :
                            <<p[1], p[2]>> \notin todo' => output'[p] = Convolution(p)
    BY <1>6, SameSums DEF ConvolutionOK
  <2>1. ASSUME NEW oc \in 0 .. layer.size - 1
        PROVE  LET p == <<item[1], item[2], oc>>
               IN  values[p] = Convolution(p) /\ values[p] # Thrown
    BY <1>1, <1>3, <1>5, ConvolveSums DEF ForwardTypeOK
  <2>2. progress' # "terminated"
    BY <1>4, <1>6, <2>1
  <2>3. ASSUME NEW p \in Positions(layer), <<p[1], p[2]>> \notin todo'
        PROVE  output'[p] = Convolution(p)
    <3>1. p = <<p[1], p[2], p[3]>> /\ p[3] \in 0 .. layer.size - 1
      BY <1>2
    <3>2. CASE <<p[1], p[2]>> = item
      <4>1. p = <<item[1], item[2], p[3]>>
        BY <1>3, <3>1, <3>2
      <4>2. p \in DOMAIN values /\ values[p] = Convolution(p)
        BY <1>4, <2>1, <3>1, <4>1
      <4> QED
        BY <1>6, <2>2, <4>2
    <3>3. CASE <<p[1], p[2]>> # item
      <4>1. p \notin DOMAIN values
        BY <1>3, <1>4, <3>3
      <4>2. <<p[1], p[2]>> \notin todo
        BY <1>6, <2>3, <3>3
      <4>3. output[p] = Convolution(p)
        BY <1>1, <4>2 DEF ForwardInv, ConvolutionOK
      <4> QED
        BY <1>6, <2>2, <4>1, <4>3
    <3> QED
      BY <3>2, <3>3
  <2> QED
    BY <2>2, <2>3
<1> QED
  BY <1>1, <1>6, <1>7 DEF ForwardInv, PoolingOK, FlatteningOK, AveragingOK

LEMMA PoolingStep ==
    ASSUME ForwardInv, NEW item \in todo, ForwardAveragePooling2D(item)
    PROVE  ForwardInv'
<1> DEFINE values == [p \in {<<item[1], item[2], oc>> : oc \in 0 .. layer.channels - 1}
                        |-> Pool(p[1], p[2], p[3])]
           Padded == PadBefore(layer.height, layer.wh, layer.sh, layer.padding) > 0
                     \/ PadBefore(layer.width, layer.ww, layer.sw, layer.padding) > 0
<1>1. /\ layer.class = "AveragePooling2D" /\ progress = "forward"
      /\ Write(item, values) /\ ForwardTypeOK
  BY DEF ForwardAveragePooling2D, Running, ForwardInv
<1>2. /\ Items(layer) = (0 .. OutHeight(layer) - 1) \X (0 .. OutWidth(layer) - 1)
      /\ Positions(layer) = (0 .. OutHeight(layer) - 1) \X (0 .. OutWidth(layer) - 1)
                               \X (0 .. layer.channels - 1)
  BY <1>1, WindowedItems DEF Windowed, OutChannels
<1>3. /\ item[1] \in 0 .. OutHeight(layer) - 1 /\ item[2] \in 0 .. OutWidth(layer) - 1
      /\ item = <<item[1], item[2]>>
  BY <1>1, <1>2 DEF ForwardTypeOK
<1>4. \A p : p \in DOMAIN values <=>
               \E oc \in 0 .. layer.channels - 1 : p = <<item[1], item[2], oc>>
  OBVIOUS
<1>5. \A oc \in 0 .. layer.channels - 1 :
         values[<<item[1], item[2], oc>>] = Pool(item[1], item[2], oc)
  OBVIOUS
<1> HIDE DEF values
<1>6. /\ ForwardTypeOK' /\ layer' = layer /\ todo' = todo \ {item}
      /\ IF progress' = "terminated"
         THEN \E p \in DOMAIN values : values[p] = Thrown
         ELSE /\ \A p \in DOMAIN values : values[p] # Thrown
              /\ \A p \in Positions(layer) :
                    output'[p] = IF p \in DOMAIN values THEN values[p] ELSE output[p]
  BY <1>1, WriteOK
<1>7. PoolingOK'
  <2> SUFFICES ASSUME Touching
               PROVE  IF progress' = "terminated" THEN Padded
                      ELSE \A p \in Positions(layer) :
                              <<p[1], p[2]>> \notin todo' => output'[p] = Pooling(p)
    BY <1>6, SameSums DEF PoolingOK
  <2>1. ASSUME NEW oc \in 0 .. layer.channels - 1
        PROVE  LET p == <<item[1], item[2], oc>>
               IN  /\ values[p] \in {Thrown, Pooling(p)}
                   /\ ~Padded => values[p] # Thrown
    <3>1. /\ Pool(item[1], item[2], oc) \in {Thrown, Pooling(<<item[1], item[2], oc>>)}
          /\ PadBefore(layer.height, layer.wh, layer.sh, layer.padding) = 0
             /\ PadBefore(layer.width, layer.ww, layer.sw, layer.padding) = 0
                => Pool(item[1], item[2], oc) # Thrown
      BY <1>1, <1>3, PoolSums DEF ForwardTypeOK
    <3>2. /\ PadBefore(layer.height, layer.wh, layer.sh, layer.padding) \in Nat
          /\ PadBefore(layer.width, layer.ww, layer.sw, layer.padding) \in Nat
      <4>1. /\ layer.height \in Nat \ {0} /\ layer.width \in Nat \ {0}
            /\ layer.wh \in Nat \ {0} /\ layer.ww \in Nat \ {0}
            /\ layer.sh \in Nat \ {0} /\ layer.sw \in Nat \ {0}
            /\ layer.padding \in {"valid", "same"}
            /\ Fits(layer.height, layer.wh, layer.padding)
            /\ Fits(layer.width, layer.ww, layer.padding)
        BY <1>1, LayerTypes DEF ForwardTypeOK, Windowed
      <4>2. /\ PadBefore(layer.height, layer.wh, layer.sh, layer.padding) \in 0 .. layer.wh - 1
            /\ PadBefore(layer.width, layer.ww, layer.sw, layer.padding) \in 0 .. layer.ww - 1
        BY <4>1, AxisPadding DEF Touching
      <4> QED
        BY <4>2
    <3> QED
      BY <1>5, <3>1, <3>2
  <2>2. progress' = "terminated" => Padded
    BY <1>4, <1>6, <2>1
  <2>3. ASSUME progress' # "terminated",
               NEW p \in Positions(layer), <<p[1], p[2]>> \notin todo'
        PROVE  output'[p] = Pooling(p)
    <3>1. p = <<p[1], p[2], p[3]>> /\ p[3] \in 0 .. layer.channels - 1
      BY <1>2
    <3>2. CASE <<p[1], p[2]>> = item
      <4>1. p = <<item[1], item[2], p[3]>>
        BY <1>3, <3>1, <3>2
      <4>2. p \in DOMAIN values /\ values[p] = Pooling(p)
        BY <1>4, <1>6, <2>1, <2>3, <3>1, <4>1
      <4> QED
        BY <1>6, <2>3, <4>2
    <3>3. CASE <<p[1], p[2]>> # item
      <4>1. p \notin DOMAIN values
        BY <1>3, <1>4, <3>3
      <4>2. <<p[1], p[2]>> \notin todo
        BY <1>6, <2>3, <3>3
      <4>3. output[p] = Pooling(p)
        BY <1>1, <4>2 DEF ForwardInv, PoolingOK
      <4> QED
        BY <1>6, <2>3, <4>1, <4>3
    <3> QED
      BY <3>2, <3>3
  <2> QED
    BY <2>2, <2>3
<1> QED
  BY <1>1, <1>6, <1>7 DEF ForwardInv, ConvolutionOK, FlatteningOK, AveragingOK

\* No two elements are flattened to one position.
LEMMA FlatPositions ==
    ASSUME layer \in Layers, layer.class = "Flatten"
    PROVE  \A i, j \in Items(layer) :
              /\ FlatPos(i[1], i[2], i[3]) \in Positions(layer)
              /\ FlatPos(i[1], i[2], i[3]) = FlatPos(j[1], j[2], j[3]) => i = j
              /\ FlatPos(i[1], i[2], i[3]) =
                    (i[1] * layer.width + i[2]) * layer.channels + i[3]
<1>1. /\ layer.height \in Nat \ {0} /\ layer.width \in Nat \ {0}
      /\ layer.channels \in Nat \ {0}
  BY LayerTypes
<1>2. Digits(layer.height, layer.width, layer.channels)
  <2>1. layer.height \in Nat
    BY <1>1
  <2> QED
    BY <1>1, <2>1, ThreeDigits
<1>3. ASSUME NEW i \in Items(layer)
      PROVE  /\ i[1] \in 0 .. layer.height - 1 /\ i[2] \in 0 .. layer.width - 1
             /\ i[3] \in 0 .. layer.channels - 1 /\ i = <<i[1], i[2], i[3]>>
  BY FlattenItems
<1>4. ASSUME NEW i \in Items(layer)
      PROVE  FlatPos(i[1], i[2], i[3]) =
                (i[1] * layer.width + i[2]) * layer.channels + i[3]
  <2>1. /\ i[1] \in Int /\ i[2] \in Int /\ i[3] \in Int
        /\ layer.width \in Int /\ layer.channels \in Int
    BY <1>1, <1>3
  <2>2. \A a, b \in Int : a * b \in Int
    OBVIOUS
  <2>3. i[1] * layer.width \in Int
    BY <2>1, <2>2, Zenon
  <2>4. (i[1] * layer.width + i[2]) * layer.channels =
           (i[1] * layer.width) * layer.channels + i[2] * layer.channels
    BY <2>1, <2>3, Products
  <2> QED
    BY <2>4 DEF FlatPos
<1>5. ASSUME NEW i \in Items(layer)
      PROVE  LET n == FlatPos(i[1], i[2], i[3])
             IN  /\ n \in Positions(layer)
                 /\ n \div (layer.channels * layer.width) = i[1]
                 /\ (n \div layer.channels) % layer.width = i[2]
                 /\ n % layer.channels = i[3]
  <2> DEFINE n == (i[1] * layer.width + i[2]) * layer.channels + i[3]
  <2>1. /\ n \in 0 .. layer.height * layer.width * layer.channels - 1
        /\ n \div (layer.channels * layer.width) = i[1]
        /\ (n \div layer.channels) % layer.width = i[2]
        /\ n % layer.channels = i[3]
    <3> DEFINE x == i[1]
               y == i[2]
               z == i[3]
    <3>1. /\ x \in 0 .. layer.height - 1 /\ y \in 0 .. layer.width - 1
          /\ z \in 0 .. layer.channels - 1
      BY <1>3
    <3> HIDE DEF x, y, z
    <3>2. /\ (x * layer.width + y) * layer.channels + z
               \in 0 .. layer.height * layer.width * layer.channels - 1
          /\ ((x * layer.width + y) * layer.channels + z)
                \div (layer.channels * layer.width) = x
          /\ (((x * layer.width + y) * layer.channels + z) \div layer.channels)
                % layer.width = y
          /\ ((x * layer.width + y) * layer.channels + z) % layer.channels = z
      BY <1>2, <3>1, DigitsAt
    <3> QED
      BY <3>2, Zenon DEF x, y, z
  <2>2. FlatPos(i[1], i[2], i[3]) = n
    BY <1>4
  <2>3. Positions(layer) = 0 .. layer.height * layer.width * layer.channels - 1
    BY FlattenItems
  <2> HIDE DEF n
  <2> QED
    BY <2>1, <2>2, <2>3, Zenon
<1>6. ASSUME NEW i \in Items(layer), NEW j \in Items(layer),
             FlatPos(i[1], i[2], i[3]) = FlatPos(j[1], j[2], j[3])
      PROVE  i = j
  <2>1. i[1] = j[1] /\ i[2] = j[2] /\ i[3] = j[3]
    <3> DEFINE m == FlatPos(i[1], i[2], i[3])
               n == FlatPos(j[1], j[2], j[3])
    <3>1. m = n
      BY <1>6
    <3>2. /\ m \div (layer.channels * layer.width) = i[1]
          /\ (m \div layer.channels) % layer.width = i[2]
          /\ m % layer.channels = i[3]
      BY <1>5, Zenon
    <3>3. /\ n \div (layer.channels * layer.width) = j[1]
          /\ (n \div layer.channels) % layer.width = j[2]
          /\ n % layer.channels = j[3]
      BY <1>5, Zenon
    <3> HIDE DEF m, n
    <3> QED
      BY <3>1, <3>2, <3>3, Zenon
  <2> QED
    BY <1>3, <2>1
<1> QED
  BY <1>4, <1>5, <1>6

LEMMA FlattenStep ==
    ASSUME ForwardInv, NEW item \in todo, FlattenElement(item)
    PROVE  ForwardInv'
<1> DEFINE values == [p \in {FlatPos(item[1], item[2], item[3])} |-> {Product(item, One)}]
<1>1. /\ layer.class = "Flatten" /\ progress = "forward"
      /\ Write(item, values) /\ ForwardTypeOK /\ item \in Items(layer)
  BY DEF FlattenElement, Running, ForwardInv, ForwardTypeOK
<1>2. \A p \in DOMAIN values : p = FlatPos(item[1], item[2], item[3])
  OBVIOUS
<1>3. FlatPos(item[1], item[2], item[3]) \in DOMAIN values
      /\ values[FlatPos(item[1], item[2], item[3])] = {Product(item, One)}
  OBVIOUS
<1> HIDE DEF values
<1>4. {Product(item, One)} # Thrown
  <2>1. item = <<item[1], item[2], item[3]>>
    BY <1>1, FlattenItems
  <2>2. Product(<<item[1], item[2], item[3]>>, One) # Product(<<>>, One)
    BY ProductsOf DEF Element
  <2>3. Product(item, One) # Product(<<>>, One)
    BY <2>1, <2>2, Zenon
  <2> QED
    BY <2>3 DEF Thrown
<1>5. /\ ForwardTypeOK' /\ layer' = layer /\ todo' = todo \ {item}
      /\ \A p \in Positions(layer) :
            output'[p] = IF p \in DOMAIN values THEN values[p] ELSE output[p]
  BY <1>1, <1>2, <1>3, <1>4, WriteOK
<1>6. ASSUME NEW i \in Items(layer), i \notin todo'
      PROVE  output'[FlatPos(i[1], i[2], i[3])] = {Product(i, One)}
  <2>1. /\ FlatPos(i[1], i[2], i[3]) \in Positions(layer)
        /\ FlatPos(i[1], i[2], i[3]) = FlatPos(item[1], item[2], item[3]) => i = item
    BY <1>1, FlatPositions DEF ForwardTypeOK
  <2>2. CASE i = item
    BY <1>3, <1>5, <2>1, <2>2
  <2>3. CASE i # item
    <3>1. FlatPos(i[1], i[2], i[3]) \notin DOMAIN values
      BY <1>2, <2>1, <2>3
    <3>2. output[FlatPos(i[1], i[2], i[3])] = {Product(i, One)}
      BY <1>1, <1>5, <1>6, <2>3 DEF ForwardInv, FlatteningOK
    <3> QED
      BY <1>5, <2>1, <3>1, <3>2
  <2> QED
    BY <2>2, <2>3
<1>7. FlatteningOK'
  <2>1. \A h, w, c : FlatPos(h, w, c)' = FlatPos(h, w, c)
    BY <1>5 DEF FlatPos
  <2> QED
    BY <1>5, <1>6, <2>1, SameSums DEF FlatteningOK
<1> QED
  BY <1>1, <1>5, <1>7 DEF ForwardInv, ConvolutionOK, PoolingOK, AveragingOK

LEMMA PixelStep ==
    ASSUME ForwardInv, NEW item \in todo, AveragePixel(item)
    PROVE  ForwardInv'
<1> DEFINE values == [p \in {item} |-> {Product(Element(0, 0, item), One)}]
<1>1. /\ layer.class = "GlobalAveragePooling2D" /\ progress = "forward"
      /\ Write(item, values) /\ ForwardTypeOK
  BY DEF AveragePixel, Running, ForwardInv
<1>2. DOMAIN values = {item} /\ values[item] = {Product(Element(0, 0, item), One)}
  OBVIOUS
<1>3. {Product(Element(0, 0, item), One)} # Thrown
  BY ProductsOf DEF Thrown
<1> HIDE DEF values
<1>4. /\ ForwardTypeOK' /\ layer' = layer /\ todo' = todo \ {item}
      /\ progress' = "forward"
      /\ \A p \in Positions(layer) :
            output'[p] = IF p \in DOMAIN values THEN values[p] ELSE output[p]
  BY <1>1, <1>2, <1>3, WriteOK
<1>5. ASSUME NEW c \in Positions(layer), c \notin todo'
      PROVE  output'[c] = {Product(Element(0, 0, c), One)}
  <2>1. CASE c = item
    BY <1>2, <1>4, <2>1
  <2>2. CASE c # item
    <3>1. output[c] = {Product(Element(0, 0, c), One)}
      BY <1>1, <1>4, <1>5, <2>2 DEF ForwardInv, AveragingOK
    <3> QED
      BY <1>2, <1>4, <2>2, <3>1
  <2> QED
    BY <2>1, <2>2
<1>6. AveragingOK'
  BY <1>4, <1>5, SameSums DEF AveragingOK
<1> QED
  BY <1>1, <1>4, <1>6 DEF ForwardInv, ConvolutionOK, PoolingOK, FlatteningOK

\* The corner and the rest are all the pixels.
LEMMA CornerAndRest ==
    ASSUME layer \in Layers, NEW c
    PROVE  Pixels(c) =
              {Product(Element(0, 0, c), One)}
              \cup {Product(Element(p[1], p[2], c), One) : p \in Rest(layer)}
<1>1. 0 \in 0 .. layer.height - 1 /\ 0 \in 0 .. layer.width - 1
  BY LayerTypes
<1> DEFINE R == {Product(Element(p[1], p[2], c), One) : p \in Rest(layer)}
<1>2. ASSUME NEW h \in 0 .. layer.height - 1, NEW w \in 0 .. layer.width - 1,
             h # 0 \/ w # 0
      PROVE  Product(Element(h, w, c), One) \in R
  <2>1. <<h, w>> \in Rest(layer) /\ <<h, w>>[1] = h /\ <<h, w>>[2] = w
    BY <1>2 DEF Rest
  <2> QED
    BY <2>1
<1>3. ASSUME NEW e \in R
      PROVE  e \in Pixels(c)
  <2>1. PICK p \in Rest(layer) : e = Product(Element(p[1], p[2], c), One)
    OBVIOUS
  <2>2. p[1] \in 0 .. layer.height - 1 /\ p[2] \in 0 .. layer.width - 1
    BY DEF Rest
  <2> QED
    BY <2>1, <2>2 DEF Pixels
<1>4. Product(Element(0, 0, c), One) \in Pixels(c)
  BY <1>1 DEF Pixels
<1>5. ASSUME NEW e \in Pixels(c)
      PROVE  e \in {Product(Element(0, 0, c), One)} \cup R
  <2>1. PICK h \in 0 .. layer.height - 1, w \in 0 .. layer.width - 1 :
           e = Product(Element(h, w, c), One)
    BY DEF Pixels
  <2> HIDE DEF R
  <2>2. CASE h = 0 /\ w = 0
    BY <2>1, <2>2
  <2>3. CASE h # 0 \/ w # 0
    BY <1>2, <2>1, <2>3
  <2> QED
    BY <2>2, <2>3
<1> HIDE DEF R
<1>6. Pixels(c) = {Product(Element(0, 0, c), One)} \cup R
  BY <1>3, <1>4, <1>5
<1> QED
  BY <1>6 DEF R

LEMMA AddPixelsOK ==
    ASSUME ForwardInv, AddPixels
    PROVE  ForwardInv'
<1> DEFINE Added(c) == {Product(Element(p[1], p[2], c), One) : p \in Rest(layer)}
<1>1. /\ layer.class = "GlobalAveragePooling2D" /\ progress = "forward" /\ todo = {}
      /\ output' = [c \in DOMAIN output |-> output[c] \cup Added(c)]
      /\ progress' = "done" /\ layer' = layer /\ todo' = todo
  BY DEF AddPixels
<1> HIDE DEF Added
<1>2. DOMAIN output = Positions(layer) /\ layer \in Layers
  BY DEF ForwardInv, ForwardTypeOK
<1>3. ForwardTypeOK'
  BY <1>1, SameSums DEF ForwardInv, ForwardTypeOK
<1>4. ASSUME NEW c \in Positions(layer)
      PROVE  output'[c] = Pixels(c)
  <2>1. output'[c] = output[c] \cup Added(c)
    BY <1>1, <1>2
  <2>2. output[c] = {Product(Element(0, 0, c), One)}
    BY <1>1 DEF ForwardInv, AveragingOK
  <2> QED
    BY <1>2, <2>1, <2>2, CornerAndRest DEF Added
<1>5. AveragingOK'
  BY <1>1, <1>4, SameSums DEF AveragingOK
<1> QED
  BY <1>1, <1>3, <1>5 DEF ForwardInv, ConvolutionOK, PoolingOK, FlatteningOK

\* The forwards no theorem is about keep the invariant as well.
LEMMA OtherStep ==
    ASSUME ForwardInv, NEW item \in todo,
           ForwardDense(item) \/ ForwardBatchNormalization(item)
    PROVE  ForwardInv'
<1>1. /\ layer.class \in {"Dense", "BatchNormalization"} /\ progress = "forward"
      /\ \E values : Write(item, values)
  BY DEF ForwardDense, ForwardBatchNormalization, Running
<1>2. ForwardTypeOK' /\ layer' = layer
  BY <1>1, WriteOK DEF ForwardInv
<1> QED
  BY <1>1, <1>2 DEF ForwardInv, ConvolutionOK, PoolingOK, FlatteningOK, AveragingOK

LEMMA EndForwardOK ==
    ASSUME ForwardInv, EndForward
    PROVE  ForwardInv'
<1>1. /\ progress = "forward" /\ layer.class # "GlobalAveragePooling2D" /\ todo = {}
      /\ progress' = "done" /\ layer' = layer /\ output' = output /\ todo' = todo
  BY DEF EndForward
<1>2. /\ ForwardTypeOK' /\ ConvolutionOK' /\ PoolingOK' /\ AveragingOK'
  BY <1>1, SameSums
     DEF ForwardInv, ForwardTypeOK, ConvolutionOK, PoolingOK, AveragingOK
<1>3. FlatteningOK'
  BY <1>1 DEF ForwardInv, FlatteningOK, FlatPos
<1> QED
  BY <1>2, <1>3 DEF ForwardInv

LEMMA ForwardInitOK == ForwardInit => ForwardInv
<1> SUFFICES ASSUME ForwardInit PROVE ForwardInv
  OBVIOUS
<1>1. /\ layer \in Layers /\ DOMAIN output = Positions(layer) /\ todo = Items(layer)
      /\ progress = "forward"
  BY DEF ForwardInit
<1>2. ForwardTypeOK
  BY <1>1 DEF ForwardTypeOK
<1>3. layer.class \in Windowed => \A p \in Positions(layer) : <<p[1], p[2]>> \in Items(layer)
  BY WindowedItems
<1>4. ConvolutionOK /\ PoolingOK
  BY <1>1, <1>3 DEF ConvolutionOK, PoolingOK, Windowed
<1>5. FlatteningOK
  BY <1>1 DEF FlatteningOK
<1>6. AveragingOK
  BY <1>1, AveragingItems DEF AveragingOK
<1> QED
  BY <1>2, <1>4, <1>5, <1>6 DEF ForwardInv

\* While the iterations of a layer run, in any order, the outputs they have
\* written are right (the forward and flatten of the layers).
THEOREM ForwardInvHolds == ForwardSpec => []ForwardInv
<1>1. ASSUME ForwardInv, [ForwardNext]_forwardVars
      PROVE  ForwardInv'
  <2>1. CASE UNCHANGED forwardVars
    <3>1. layer' = layer /\ output' = output /\ todo' = todo /\ progress' = progress
      BY <2>1 DEF forwardVars
    <3>2. /\ ForwardTypeOK' /\ ConvolutionOK' /\ PoolingOK' /\ AveragingOK'
      BY <1>1, <3>1, SameSums
         DEF ForwardInv, ForwardTypeOK, ConvolutionOK, PoolingOK, AveragingOK
    <3>3. FlatteningOK'
      BY <1>1, <3>1 DEF ForwardInv, FlatteningOK, FlatPos
    <3> QED
      BY <3>2, <3>3 DEF ForwardInv
  <2>2. ASSUME NEW item \in todo, ForwardConv2D(item) PROVE ForwardInv'
    BY <1>1, <2>2, ConvolutionStep
  <2>3. ASSUME NEW item \in todo, ForwardAveragePooling2D(item) PROVE ForwardInv'
    BY <1>1, <2>3, PoolingStep
  <2>4. ASSUME NEW item \in todo, FlattenElement(item) PROVE ForwardInv'
    BY <1>1, <2>4, FlattenStep
  <2>5. ASSUME NEW item \in todo, AveragePixel(item) PROVE ForwardInv'
    BY <1>1, <2>5, PixelStep
  <2>6. ASSUME NEW item \in todo, ForwardDense(item) \/ ForwardBatchNormalization(item)
        PROVE  ForwardInv'
    BY <1>1, <2>6, OtherStep
  <2>7. CASE AddPixels
    BY <1>1, <2>7, AddPixelsOK
  <2>8. CASE EndForward
    BY <1>1, <2>8, EndForwardOK
  <2> QED
    BY <1>1, <2>1, <2>2, <2>3, <2>4, <2>5, <2>6, <2>7, <2>8 DEF ForwardNext
<1> QED
  BY <1>1, ForwardInitOK, PTL DEF ForwardSpec

\* A convolution whose windows touch has the trained network's shape and sums
\* one product per tap inside the input and channel, whichever iteration
\* comes first (Conv2D::forward and its within_range_counter).
THEOREM ConvolutionIsTrainedHolds == ForwardSpec => []ConvolutionIsTrained
<1>1. ForwardInv => ConvolutionIsTrained
  <2>0. ASSUME NEW p
        PROVE  Convolution(p) =
                  {Product(Element(q[1][1], q[2][1], ic),
                           <<q[1][2], q[2][2], ic, p[3]>>) :
                      q \in WindowOf(p), ic \in 0 .. layer.channels - 1}
    BY DEF Convolution
  <2> SUFFICES ASSUME ForwardInv, layer.class = "Conv2D", Touching
               PROVE  /\ OutHeight(layer) = KerasOut(layer.height, layer.wh, layer.sh,
                                                     layer.padding)
                      /\ OutWidth(layer) = KerasOut(layer.width, layer.ww, layer.sw,
                                                    layer.padding)
                      /\ progress # "terminated"
                      /\ progress = "done" =>
                            \A p \in Positions(layer) : output[p] = Convolution(p)
    BY <2>0 DEF ConvolutionIsTrained
  <2>1. layer \in Layers /\ (progress = "done" => todo = {})
    BY DEF ForwardInv, ForwardTypeOK
  <2>2. /\ layer.height \in Nat \ {0} /\ layer.width \in Nat \ {0}
        /\ layer.wh \in Nat \ {0} /\ layer.ww \in Nat \ {0}
        /\ layer.sh \in Nat \ {0} /\ layer.sw \in Nat \ {0}
        /\ layer.padding \in {"valid", "same"}
        /\ Fits(layer.height, layer.wh, layer.padding)
        /\ Fits(layer.width, layer.ww, layer.padding)
    BY <2>1, LayerTypes DEF Windowed
  <2>3. /\ OutHeight(layer) = KerasOut(layer.height, layer.wh, layer.sh, layer.padding)
        /\ OutWidth(layer) = KerasOut(layer.width, layer.ww, layer.sw, layer.padding)
    BY <2>2, AxisOutputs DEF OutHeight, OutWidth
  <2> QED
    BY <2>1, <2>3 DEF ForwardInv, ConvolutionOK
<1> QED
  BY <1>1, ForwardInvHolds, PTL

\* A pooling whose windows touch sums every input of its window, or the
\* process ends, and only if a window starts in the padding
\* (AveragePooling2D::forward).
THEOREM PoolingIsTrainedHolds == ForwardSpec => []PoolingIsTrained
<1>1. ForwardInv => PoolingIsTrained
  <2>1. ForwardInv /\ progress = "done" => todo = {}
    BY DEF ForwardInv, ForwardTypeOK
  <2> QED
    BY <2>1 DEF ForwardInv, PoolingOK, PoolingIsTrained, Pooling
<1> QED
  BY <1>1, ForwardInvHolds, PTL

\* Flattening keeps every element once, where the dense weights expect it,
\* and averaging keeps every pixel of its channel (Flatten::flatten,
\* GlobalAveragePooling2D::forward).
THEOREM HeadingIsTrainedHolds == ForwardSpec => []HeadingIsTrained
<1>1. ASSUME ForwardInv, progress = "done", layer.class = "Flatten",
             NEW h \in 0 .. layer.height - 1, NEW w \in 0 .. layer.width - 1,
             NEW c \in 0 .. layer.channels - 1
      PROVE  output[(h * layer.width + w) * layer.channels + c] =
                {Product(Element(h, w, c), One)}
  <2> DEFINE i == <<h, w, c>>
  <2>1. /\ i \in Items(layer) /\ layer \in Layers /\ todo = {}
        /\ i[1] = h /\ i[2] = w /\ i[3] = c
    BY <1>1, FlattenItems DEF ForwardInv, ForwardTypeOK
  <2> HIDE DEF i
  <2>2. FlatPos(h, w, c) = (h * layer.width + w) * layer.channels + c
    BY <1>1, <2>1, FlatPositions
  <2>3. output[FlatPos(h, w, c)] = {Product(i, One)}
    BY <1>1, <2>1 DEF ForwardInv, FlatteningOK
  <2> QED
    BY <2>2, <2>3 DEF Element, i
<1>2. ASSUME ForwardInv, progress = "done", layer.class = "GlobalAveragePooling2D",
             NEW c \in 0 .. layer.channels - 1
      PROVE  output[c] = Pixels(c)
  <2>1. c \in Positions(layer) /\ todo = {}
    BY <1>2, AveragingItems DEF ForwardInv, ForwardTypeOK
  <2> QED
    BY <1>2, <2>1 DEF ForwardInv, AveragingOK
<1>3. ForwardInv => HeadingIsTrained
  BY <1>1, <1>2 DEF HeadingIsTrained, Pixels
<1> QED
  BY <1>3, ForwardInvHolds, PTL
=============================================================================
