---------------------------- MODULE LayerForward ----------------------------
(***************************************************************************)
(* What the forward (or flatten) of one layer computes.  The outermost     *)
(* loops run in parallel (OpenMP): their iterations, the work items, come  *)
(* in any order.  A ciphertext is symbolic: the set of the products it     *)
(* sums, each the input element and the weight it was multiplied by; what  *)
(* is multiplied by the pooling factor or by nothing has the weight        *)
(* One.  An operation on an empty ciphertext throws, and an exception      *)
(* that leaves a parallel loop ends the process.                           *)
(***************************************************************************)
EXTENDS Windows, FiniteSets

CONSTANTS Layers  \* the layers to run: class, shape of the input, size,
                  \* window and stride per axis, padding, optPool

\* Sizes fit an int and, as Keras demands, a window without padding fits its
\* input.
Fits(in, window, padding) ==
    /\ in + window <= IntMod \div 2
    /\ padding = "valid" => window <= in

ASSUME LayersAssumption ==
    /\ Layers \subseteq
          [class : {"Conv2D", "AveragePooling2D", "Flatten", "Dense",
                    "GlobalAveragePooling2D", "BatchNormalization"},
           height : Nat \ {0}, width : Nat \ {0}, channels : Nat \ {0},
           size : Nat, wh : Nat \ {0}, ww : Nat \ {0},
           sh : Nat \ {0}, sw : Nat \ {0},
           padding : {"valid", "same"}, optPool : BOOLEAN]
    /\ \A l \in Layers :
          l.class \in {"Conv2D", "AveragePooling2D"} =>
             Fits(l.height, l.wh, l.padding) /\ Fits(l.width, l.ww, l.padding)

VARIABLES
    layer,   \* the layer
    output,  \* its output so far, by position
    todo,    \* the iterations that have not run
    progress    \* "forward", "done" or "terminated"

forwardVars == <<layer, output, todo, progress>>

-----------------------------------------------------------------------------
(* Ciphertexts *)

Product(x, w) == [x |-> x, w |-> w]
One == <<>>                     \* no weight
Empty == {}
Thrown == {Product(<<>>, One)}  \* the exception, in place of a value
Element(h, w, c) == <<h, w, c>>

\* add_inplace and the operations with a plaintext.
Plus(a, b) == IF a \in {Empty, Thrown} THEN Thrown ELSE a \cup b
Used(a) == IF a = Empty THEN Thrown ELSE a

\* A loop that assigns its first product and adds the others: body[i] is
\* the i-th iteration's contribution, {} for one that continues.
Accumulate(n, first, body) ==
    LET acc[i \in 0 .. n] ==
           IF i = 0 THEN Empty
           ELSE IF body[i - 1] = {} THEN acc[i - 1]
           ELSE IF i - 1 \in first THEN body[i - 1]
           ELSE Plus(acc[i - 1], body[i - 1])
    IN  acc[n]

-----------------------------------------------------------------------------
(* Shapes *)

OutHeight(l) ==
    IF l.class \in {"Conv2D", "AveragePooling2D"}
    THEN OutSize(l.height, l.wh, l.sh, l.padding) ELSE l.height
OutWidth(l) ==
    IF l.class \in {"Conv2D", "AveragePooling2D"}
    THEN OutSize(l.width, l.ww, l.sw, l.padding) ELSE l.width
OutChannels(l) == IF l.class = "Conv2D" THEN l.size ELSE l.channels

\* The iterations of the parallel loops.
Items(l) ==
    CASE l.class \in {"Conv2D", "AveragePooling2D"} ->
            (0 .. OutHeight(l) - 1) \X (0 .. OutWidth(l) - 1)
      [] l.class \in {"Flatten", "BatchNormalization"} ->
            (0 .. l.height - 1) \X (0 .. l.width - 1) \X (0 .. l.channels - 1)
      [] l.class = "GlobalAveragePooling2D" -> 0 .. l.channels - 1
      [] l.class = "Dense" -> 0 .. l.size - 1

\* The positions of the output.
Positions(l) ==
    CASE l.class \in {"Conv2D", "AveragePooling2D"} ->
            (0 .. OutHeight(l) - 1) \X (0 .. OutWidth(l) - 1)
               \X (0 .. OutChannels(l) - 1)
      [] l.class = "BatchNormalization" -> Items(l)
      [] l.class = "Flatten" -> 0 .. l.height * l.width * l.channels - 1
      [] l.class \in {"GlobalAveragePooling2D", "Dense"} -> Items(l)

-----------------------------------------------------------------------------
(* The forwards *)

\* The iteration ends: positions are written, or the process ends.
Write(item, values) ==
    /\ todo' = todo \ {item}
    /\ IF \E p \in DOMAIN values : values[p] = Thrown
       THEN progress' = "terminated" /\ UNCHANGED output
       ELSE output' = [p \in DOMAIN output |->
                          IF p \in DOMAIN values THEN values[p] ELSE output[p]]
            /\ UNCHANGED progress
    /\ UNCHANGED layer

Running(class) == progress = "forward" /\ layer.class = class

Top(oh)  == Target(oh, 0, layer.sh,
                   PadBefore(layer.height, layer.wh, layer.sh, layer.padding))
Left(ow) == Target(ow, 0, layer.sw,
                   PadBefore(layer.width, layer.ww, layer.sw, layer.padding))

\* Whether the tap of a window reads the input.
InRange(oh, ow, fh, fw) ==
    ~OutOfRange(Top(oh) + fh, layer.height)
    /\ ~OutOfRange(Left(ow) + fw, layer.width)

\* Mutant: the counter restarts with every input channel.
ConvolvePerChannel(oh, ow, oc) ==
    LET ic(n) == n % layer.channels
        fw(n) == (n \div layer.channels) % layer.ww
        fh(n) == n \div (layer.channels * layer.ww)
        taps == layer.wh * layer.ww * layer.channels
        body == [n \in 0 .. taps - 1 |->
                   IF InRange(oh, ow, fh(n), fw(n))
                   THEN {Product(Element(Top(oh) + fh(n), Left(ow) + fw(n), ic(n)),
                                 <<fh(n), fw(n), ic(n), oc>>)}
                   ELSE {}]
        first == {n \in 0 .. taps - 1 :
                    \A m \in 0 .. n - 1 : body[m] # {} => ic(m) # ic(n)}
    IN  Used(Accumulate(taps, first, body))

\* One output of a convolution: the loops over fh, fw and ic as one.
Convolve(oh, ow, oc) ==
    LET ic(n) == n % layer.channels
        fw(n) == (n \div layer.channels) % layer.ww
        fh(n) == n \div (layer.channels * layer.ww)
        taps == layer.wh * layer.ww * layer.channels
        body == [n \in 0 .. taps - 1 |->
                   IF InRange(oh, ow, fh(n), fw(n))
                   THEN {Product(Element(Top(oh) + fh(n), Left(ow) + fw(n), ic(n)),
                                 <<fh(n), fw(n), ic(n), oc>>)}
                   ELSE {}]
        \* within_range_counter == 1 && ic == 0
        first == {n \in 0 .. taps - 1 :
                    ic(n) = 0 /\ \A m \in 0 .. n - 1 : body[m] = {}}
    IN  Used(Accumulate(taps, first, body))

ForwardConv2D(item) ==
    /\ Running("Conv2D")
    /\ Write(item, [p \in {<<item[1], item[2], oc>> : oc \in 0 .. layer.size - 1}
                       |-> Convolve(p[1], p[2], p[3])])

\* One output of a pooling, unless no tap is in range: only the window's
\* corner is assigned, the other taps are added.
Pool(oh, ow, oc) ==
    LET pw(n) == n % layer.ww
        ph(n) == n \div layer.ww
        taps == layer.wh * layer.ww
        body == [n \in 0 .. taps - 1 |->
                   IF InRange(oh, ow, ph(n), pw(n))
                   THEN {Product(Element(Top(oh) + ph(n), Left(ow) + pw(n), oc),
                                 One)}
                   ELSE {}]
        sum == Accumulate(taps, {0}, body)
    IN  IF layer.optPool THEN sum ELSE Used(sum)

ForwardAveragePooling2D(item) ==
    /\ Running("AveragePooling2D")
    /\ Write(item,
             [p \in {<<item[1], item[2], oc>> : oc \in 0 .. layer.channels - 1}
                 |-> Pool(p[1], p[2], p[3])])

\* Mutant: columns before rows.
FlatPosByColumn(h, w, c) ==
    w * layer.height * layer.channels + h * layer.channels + c

FlatPos(h, w, c) == h * layer.width * layer.channels + w * layer.channels + c

FlattenElement(item) ==
    /\ Running("Flatten")
    /\ Write(item, [p \in {FlatPos(item[1], item[2], item[3])} |->
                       {Product(item, One)}])

\* The parallel loop moves the corner; the loop that adds the rest follows.
AveragePixel(ou) ==
    /\ Running("GlobalAveragePooling2D")
    /\ Write(ou, [p \in {ou} |-> {Product(Element(0, 0, ou), One)}])

Rest(l) ==
    {p \in (0 .. l.height - 1) \X (0 .. l.width - 1) : p[1] # 0 \/ p[2] # 0}

AddPixels ==
    /\ progress = "forward"
    /\ layer.class = "GlobalAveragePooling2D"
    /\ todo = {}
    /\ output' = [ic \in DOMAIN output |->
                     output[ic] \cup {Product(Element(p[1], p[2], ic), One) :
                                         p \in Rest(layer)}]
    /\ progress' = "done"
    /\ UNCHANGED <<layer, todo>>

\* The units of the input are the elements (0, 0, iu).
ForwardDense(ou) ==
    /\ Running("Dense")
    /\ LET body == [iu \in 0 .. layer.channels - 1 |->
                       {Product(Element(0, 0, iu), <<iu, ou>>)}]
       IN  Write(ou, [p \in {ou} |->
                         Used(Accumulate(layer.channels, {0}, body))])

\* multiply_plain_inplace by the weight of the channel.
ForwardBatchNormalization(item) ==
    /\ Running("BatchNormalization")
    /\ Write(item, [p \in {item} |-> {Product(item, <<item[3]>>)}])

EndForward ==
    /\ progress = "forward"
    /\ layer.class # "GlobalAveragePooling2D"
    /\ todo = {}
    /\ progress' = "done"
    /\ UNCHANGED <<layer, output, todo>>

-----------------------------------------------------------------------------
ForwardInit ==
    /\ layer \in Layers
    /\ output = [p \in Positions(layer) |-> Empty]
    /\ todo = Items(layer)
    /\ progress = "forward"

ForwardNext ==
    \/ \E item \in todo :
          \/ ForwardConv2D(item) \/ ForwardAveragePooling2D(item)
          \/ FlattenElement(item) \/ AveragePixel(item)
          \/ ForwardDense(item) \/ ForwardBatchNormalization(item)
    \/ AddPixels
    \/ EndForward

ForwardSpec == ForwardInit /\ [][ForwardNext]_forwardVars

-----------------------------------------------------------------------------
(* Properties: Keras' definitions, against which the weights were trained. *)

\* Outputs and padding along an axis: the last window must end at the end
\* of the padded input.
KerasOut(in, window, stride, padding) ==
    IF padding = "same"
    THEN CHOOSE n \in 0 .. in : stride * n >= in /\ stride * (n - 1) < in
    ELSE Cardinality({o \in 0 .. in : o * stride + window <= in})

KerasPad(in, window, stride, padding) ==
    IF padding = "valid" THEN 0
    ELSE LET along == (KerasOut(in, window, stride, padding) - 1) * stride
                      + window - in
         IN  (IF along > 0 THEN along ELSE 0) \div 2

\* Pairs of an input position and a tap along an axis.
Taps(o, in, window, stride, padding) ==
    {tap \in (0 .. in - 1) \X (0 .. window - 1) :
        tap[1] = o * stride - KerasPad(in, window, stride, padding) + tap[2]}

WindowOf(p) ==
    Taps(p[1], layer.height, layer.wh, layer.sh, layer.padding)
    \X Taps(p[2], layer.width, layer.ww, layer.sw, layer.padding)

\* The windows overlap or touch, as in every trained network.
Touching == layer.sh <= layer.wh /\ layer.sw <= layer.ww

\* A convolution has the trained network's shape and sums, per output, one
\* product per tap inside the input and channel, under any schedule of the
\* parallel loop (within_range_counter decides which product is assigned).
ConvolutionIsTrained ==
    layer.class = "Conv2D" /\ Touching =>
       /\ OutHeight(layer) = KerasOut(layer.height, layer.wh, layer.sh,
                                      layer.padding)
       /\ OutWidth(layer) = KerasOut(layer.width, layer.ww, layer.sw,
                                     layer.padding)
       /\ progress # "terminated"
       /\ progress = "done" =>
             \A p \in Positions(layer) :
                output[p] =
                   {Product(Element(q[1][1], q[2][1], ic),
                            <<q[1][2], q[2][2], ic, p[3]>>) :
                       q \in WindowOf(p), ic \in 0 .. layer.channels - 1}

\* A pooling that ends sums every input of its window; it ends unless the
\* window of the first output starts in the padding: the corner's
\* assignment is then skipped and a product added to an empty ciphertext.
PoolingIsTrained ==
    layer.class = "AveragePooling2D" /\ Touching =>
       /\ progress = "terminated" =>
             PadBefore(layer.height, layer.wh, layer.sh, layer.padding) > 0
             \/ PadBefore(layer.width, layer.ww, layer.sw, layer.padding) > 0
       /\ progress = "done" =>
             \A p \in Positions(layer) :
                output[p] = {Product(Element(q[1][1], q[2][1], p[3]), One) :
                                q \in WindowOf(p)}

\* Flattening keeps every element once, in the order the dense weights were
\* trained for; averaging keeps every pixel of its channel once.
HeadingIsTrained ==
    progress = "done" =>
       /\ layer.class = "Flatten" =>
             \A h \in 0 .. layer.height - 1, w \in 0 .. layer.width - 1,
                c \in 0 .. layer.channels - 1 :
                output[(h * layer.width + w) * layer.channels + c] =
                   {Product(Element(h, w, c), One)}
       /\ layer.class = "GlobalAveragePooling2D" =>
             \A c \in 0 .. layer.channels - 1 :
                output[c] = {Product(Element(h, w, c), One) :
                                h \in 0 .. layer.height - 1,
                                w \in 0 .. layer.width - 1}
=============================================================================
