---------------------------- MODULE NetworkLevels ----------------------------
(***************************************************************************)
(* One computation of a calculation thread: BuildNetwork turns the layers  *)
(* of a trained model into layer objects, whose constants are encoded at a *)
(* level counted in OptOption::consumed_level; Network::predict then runs  *)
(* a ciphertext through them.  The evaluator rejects operands of different *)
(* levels, so the builder's count and the forward pass must agree.  The    *)
(* optimizations leave factors out of one layer and fold them into the     *)
(* weights of a later one: what is left out is the debt of the ciphertext. *)
(*                                                                         *)
(* A ciphertext is its level (rescalings so far) and its debt; numbers are *)
(* left out.  A layer is its class, its activation's name and the number   *)
(* of inputs it sums (pool_height * pool_width).                           *)
(***************************************************************************)
EXTENDS Sums

CONSTANTS
    Names, Functions, \* names of model files, and of activation functions
    Models,        \* records: name of the file, layers of the structure
    OptLevels,     \* the EOptLevel values of the queries
    Activations,   \* their EActivation values
    Levels         \* rescalings the modulus chains of their keys allow

Classes == {"Conv2D", "AveragePooling2D", "BatchNormalization", "Flatten",
            "Dense", "Activation", "GlobalAveragePooling2D"}

LayerInfo == [class : Classes, fn : Functions, area : Nat \ {0}]

ASSUME ModelsAssumption ==
    /\ Models \subseteq [name : Names, layers : Seq(LayerInfo)]
    /\ OptLevels \subseteq 0 .. 4
    /\ Levels \subseteq Nat

VARIABLES
    model,     \* the query's trained model
    level,     \* rescalings its keys' modulus chain allows
    option,    \* the computation's OptOption
    it,        \* BuildNetwork's iterator
    network,   \* layers_ of the Network
    phase,     \* what the thread is doing
    ct,        \* predict's ciphertexts: level and debt
    dim,       \* predict's input_dim
    pos        \* the layer predict calls next

vars == <<model, level, option, it, network, phase, ct, dim, pos>>
queryVars == <<model, level>>

-----------------------------------------------------------------------------
(* Debts: factors by which a ciphertext differs from the layer's output.   *)

Owes(coeffs, area) == [coeffs |-> coeffs, area |-> area]
Clean   == Owes(<<>>, 1)
Spoiled == Owes(<<"spoiled">>, 0)       \* no factor settles it any more

\* A bias is added, or a polynomial applied: right only if nothing is owed.
Settle(debt, fold) == IF debt = fold THEN Clean ELSE Spoiled

\* A constant is multiplied in, and no bias added.
Pay(debt, fold) ==
    IF fold.coeffs \in {<<>>, debt.coeffs} /\ debt.area % fold.area = 0
    THEN Owes(IF fold.coeffs = <<>> THEN debt.coeffs ELSE <<>>,
              debt.area \div fold.area)
    ELSE Spoiled

-----------------------------------------------------------------------------
(* OptOption *)

\* The name of the model file, or else the query's activation, selects the
\* leading coefficient; 0.0 when neither names a swish polynomial.
HighestDegCoeff(name, act) ==
    CASE name = "CKKS-swish_rg4_deg4" \/ act = "SWISH_RG4_DEG4" -> "rg4"
      [] ~(name = "CKKS-swish_rg4_deg4" \/ act = "SWISH_RG4_DEG4")
         /\ (name = "CKKS-swish_rg6_deg4" \/ act = "SWISH_RG6_DEG4") -> "rg6"
      [] OTHER -> "zero"

NewOption(name, opt_level, act) ==
    [fuse       |-> opt_level \in {1, 4},
     optAct     |-> opt_level \in {2, 4},
     optPool    |-> opt_level \in {3, 4},
     multCoeff  |-> FALSE,
     multPool   |-> FALSE,
     activation |-> act,
     coeff      |-> IF opt_level \in {2, 4} THEN HighestDegCoeff(name, act)
                                            ELSE "zero",
     poolArea   |-> 0,
     consumed   |-> 0]

\* folding_value of a convolution or a dense layer, and the flags it clears.
Folding(o) ==
    Owes(IF o.optAct /\ o.multCoeff THEN <<o.coeff>> ELSE <<>>,
         IF o.optPool /\ o.multPool THEN o.poolArea ELSE 1)

\* Mutant: the coefficient is folded and stays pending.
FoldedTwice(o) == [o EXCEPT !.multPool = @ /\ ~o.optPool]

Folded(o) == [o EXCEPT !.multCoeff = @ /\ ~o.optAct,
                       !.multPool = @ /\ ~o.optPool]

-----------------------------------------------------------------------------
(* The builders: the object of a layer holds the levels its constants are  *)
(* encoded at and the factors folded into them; at is consumed_level when  *)
(* it was built.                                                           *)

Object(l, at, plains, fold) ==
    [class |-> l.class, fn |-> l.fn, area |-> l.area,
     at |-> at, plains |-> plains, fold |-> fold]

\* A layer object and the option after its constructor.
Built(object, o) == [object |-> object, option |-> o]

\* Mutant: the bias is encoded at the level of the weights.
BuildWeightedFlat(l, o) ==
    Built(Object(l, o.consumed, <<o.consumed, o.consumed>>, Folding(o)),
          [Folded(o) EXCEPT !.consumed = @ + 1])

\* Filters or weights, and biases one level further.
BuildWeighted(l, o) ==
    Built(Object(l, o.consumed, <<o.consumed, o.consumed + 1>>, Folding(o)),
          [Folded(o) EXCEPT !.consumed = @ + 1])

BuildConv2D(l, o) == BuildWeighted(l, o)
BuildDense(l, o)  == BuildWeighted(l, o)

\* The normalization is multiplied into filters and biases.
BuildConv2DFusedBN(l, o) == BuildWeighted(l, o)

BuildBatchNormalization(l, o) ==
    Built(Object(l, o.consumed, <<o.consumed, o.consumed + 1>>, Clean),
          [o EXCEPT !.consumed = @ + 1])

BuildAveragePooling2D(l, o) ==
    IF o.optPool
    THEN Built(Object(l, o.consumed, <<>>, Clean),
               [o EXCEPT !.poolArea = l.area, !.multPool = TRUE])
    ELSE LET coeffs == IF o.optAct /\ o.multCoeff THEN <<o.coeff>> ELSE <<>>
         IN  Built(Object(l, o.consumed, <<o.consumed>>, Owes(coeffs, l.area)),
                   [o EXCEPT !.consumed = @ + 1,
                             !.multCoeff = @ /\ ~o.optAct])

\* if (true || ...): the factor is always left to a later layer.
BuildGlobalAveragePooling2D(l, o) ==
    Built(Object(l, o.consumed, <<>>, Clean),
          [o EXCEPT !.multPool = TRUE,
                    !.poolArea = IF o.multPool THEN @ * l.area ELSE l.area])

BuildFlatten(l, o) == Built(Object(l, o.consumed, <<>>, Clean), o)

\* The polynomial for which the constructor encodes coefficients.
Polynomial(fn, act) ==
    CASE fn = "square" \/ act = "SQUARE" -> "square"
      [] ~(fn = "square" \/ act = "SQUARE")
         /\ (fn = "swish_rg4_deg4" \/ act = "SWISH_RG4_DEG4") -> "rg4"
      [] ~(fn = "square" \/ act = "SQUARE")
         /\ ~(fn = "swish_rg4_deg4" \/ act = "SWISH_RG4_DEG4")
         /\ (fn = "swish_rg6_deg4" \/ act = "SWISH_RG6_DEG4") -> "rg6"
      [] OTHER -> "unregistered"

BuildActivation(l, o) ==
    LET poly == Polynomial(l.fn, o.activation)
        c    == o.consumed
        q    == [o EXCEPT !.multCoeff = @ \/ o.optAct]
    IN  CASE poly = "square" ->
               Built(Object(l, c, <<>>, Clean), [q EXCEPT !.consumed = c + 1])
          [] poly # "square" /\ o.optAct ->
               Built(Object(l, c, <<c + 1, c + 1, c + 2>>, Clean),
                     [q EXCEPT !.consumed = c + 2])
          [] poly # "square" /\ ~o.optAct ->
               Built(Object(l, c, <<c + 2, c + 2, c + 2, c + 3>>, Clean),
                     [q EXCEPT !.consumed = c + 3])

Layers == model.layers

\* Mutant: a convolution is not fused.
FusesDense == /\ option.fuse
              /\ it < Len(Layers)
              /\ Layers[it].class = "Dense"
              /\ Layers[it + 1].class = "BatchNormalization"

\* With FUSE_LAYERS the builder looks one layer ahead.
Fuses == /\ option.fuse
         /\ it < Len(Layers)
         /\ Layers[it].class \in {"Conv2D", "Dense"}
         /\ Layers[it + 1].class = "BatchNormalization"

Build(l, o) ==
    CASE l.class = "Conv2D" -> IF Fuses THEN BuildConv2DFusedBN(l, o)
                                        ELSE BuildConv2D(l, o)
      [] l.class = "Dense"                   -> BuildDense(l, o)
      [] l.class = "BatchNormalization"      -> BuildBatchNormalization(l, o)
      [] l.class = "AveragePooling2D"        -> BuildAveragePooling2D(l, o)
      [] l.class = "GlobalAveragePooling2D"  ->
            BuildGlobalAveragePooling2D(l, o)
      [] l.class = "Flatten"                 -> BuildFlatten(l, o)
      [] l.class = "Activation"              -> BuildActivation(l, o)

\* Mutant: a level is kept in reserve.
ThrowsEarly(l, b) ==
    \/ l.class = "Dense" /\ Fuses
    \/ \E i \in DOMAIN b.object.plains : b.object.plains[i] >= level
    \/ l.class = "Activation"
       /\ Polynomial(l.fn, option.activation) = "unregistered"

\* mod_switch_to_next throws at the end of the modulus chain, the
\* constructor for an activation it does not know, and buildDenseFusedBN
\* for the group it opens, which is named after the fused layer.
Throws(l, b) ==
    \/ l.class = "Dense" /\ Fuses
    \/ \E i \in DOMAIN b.object.plains : b.object.plains[i] > level
    \/ l.class = "Activation"
       /\ Polynomial(l.fn, option.activation) = "unregistered"

-----------------------------------------------------------------------------
(* BuildNetwork *)

BuildLayer ==
    /\ phase = "build"
    /\ it <= Len(Layers)
    /\ LET b == Build(Layers[it], option)
       IN  IF Throws(Layers[it], b)
           THEN phase' = "build_failed" /\ UNCHANGED <<option, it, network>>
           ELSE /\ network' = Append(network, b.object)
                /\ option' = b.option
                /\ it' = it + (IF Fuses THEN 2 ELSE 1)
                /\ UNCHANGED phase
    /\ UNCHANGED <<queryVars, ct, dim, pos>>

BeginPredict ==
    /\ phase = "build"
    /\ it > Len(Layers)
    /\ phase' = "predict"
    /\ UNCHANGED <<queryVars, option, it, network, ct, dim, pos>>

-----------------------------------------------------------------------------
(* Network::predict *)

\* activate() looks at the layer's own name and at the optimization, not at
\* the query's activation.
Evaluates(l) == IF l.fn = "square" THEN "square" ELSE "swish"

\* The levels at which the layer's forward uses its constants.
Uses(l, lv) ==
    CASE l.class \in {"Conv2D", "Dense", "BatchNormalization"} ->
            <<lv, lv + 1>>
      [] l.class = "AveragePooling2D" ->
            IF option.optPool THEN <<>> ELSE <<lv>>
      [] l.class \in {"GlobalAveragePooling2D", "Flatten"} -> <<>>
      [] l.class = "Activation" ->
            CASE Evaluates(l) = "square" -> <<>>
              [] Evaluates(l) = "swish" /\ option.optAct ->
                    <<lv + 1, lv + 1, lv + 2>>
              [] Evaluates(l) = "swish" /\ ~option.optAct ->
                    <<lv + 2, lv + 2, lv + 2, lv + 3>>

\* Mutant: the optimized pooling still rescales.
RescalesPooling(l) ==
    CASE l.class \in {"Conv2D", "Dense", "BatchNormalization",
                      "AveragePooling2D"} -> 1
      [] l.class \in {"GlobalAveragePooling2D", "Flatten"} -> 0
      [] l.class = "Activation" ->
            IF Evaluates(l) = "square" THEN 1
            ELSE IF option.optAct THEN 2 ELSE 3

\* The rescalings of the layer's forward.
Rescales(l) ==
    CASE l.class \in {"Conv2D", "Dense", "BatchNormalization"} -> 1
      [] l.class = "AveragePooling2D" -> IF option.optPool THEN 0 ELSE 1
      [] l.class \in {"GlobalAveragePooling2D", "Flatten"} -> 0
      [] l.class = "Activation" ->
            IF Evaluates(l) = "square" THEN 1
            ELSE IF option.optAct THEN 2 ELSE 3

\* What the output owes, for an input that owes debt.
Leaves(l, debt) ==
    CASE l.class \in {"Conv2D", "Dense", "BatchNormalization"} ->
            Settle(debt, l.fold)
      [] l.class = "AveragePooling2D" ->
            LET sum == Owes(debt.coeffs, debt.area * l.area)
            IN  IF option.optPool THEN sum ELSE Pay(sum, l.fold)
      [] l.class = "GlobalAveragePooling2D" ->
            Owes(debt.coeffs, debt.area * l.area)
      [] l.class = "Flatten" -> debt
      [] l.class = "Activation" ->
            LET y == Settle(debt, Clean)
            IN  IF Evaluates(l) = "swish" /\ option.optAct /\ y = Clean
                THEN Owes(<<Polynomial(l.fn, option.activation)>>, 1)
                ELSE y

\* A pooling's factor that was encoded as 0.0: unlike weights and filters it is
\* not rounded away from 0, and no ciphertext survives it.
MultipliesByZero(l) ==
    l.class = "AveragePooling2D" /\ l.fold.coeffs = <<"zero">>

\* Operands of different levels, a missing coefficient, a rescaling past the
\* last prime and a product with 0 throw (the missing coefficient is read out
\* of bounds, the product is a transparent ciphertext); inside a parallel loop
\* this ends the process.
Forward ==
    /\ phase = "predict"
    /\ pos <= Len(network)
    /\ LET l == network[pos]
       IN  IF \/ l.plains # Uses(l, ct.level)
              \/ ct.level + Rescales(l) > level
              \/ MultipliesByZero(l)
           THEN phase' = "predict_failed" /\ UNCHANGED <<ct, dim, pos>>
           ELSE /\ ct' = [level |-> ct.level + Rescales(l),
                          debt  |-> Leaves(l, ct.debt)]
                /\ dim' = IF l.class \in {"Flatten", "GlobalAveragePooling2D"}
                          THEN 1 ELSE dim
                /\ pos' = pos + 1
                /\ UNCHANGED phase
    /\ UNCHANGED <<queryVars, option, it, network>>

EndPredict ==
    /\ phase = "predict"
    /\ pos > Len(network)
    /\ phase' = "done"
    /\ UNCHANGED <<queryVars, option, it, network, ct, dim, pos>>

-----------------------------------------------------------------------------
Init ==
    /\ model \in Models
    /\ level \in Levels
    /\ \E opt_level \in OptLevels, act \in Activations :
          option = NewOption(model.name, opt_level, act)
    /\ it = 1
    /\ network = <<>>
    /\ phase = "build"
    /\ ct = [level |-> 0, debt |-> Clean]
    /\ dim = 3
    /\ pos = 1

Next == BuildLayer \/ BeginPredict \/ Forward \/ EndPredict

Spec == Init /\ [][Next]_vars

-----------------------------------------------------------------------------
(* Properties *)

\* Queries whose activation is SQUARE need a model of squares.
SameActivation ==
    option.activation = "SQUARE" =>
       \A i \in DOMAIN Layers :
          Layers[i].class = "Activation" => Layers[i].fn = "square"

Factors == {"rg4", "rg6", "zero"}

Objects == [class : Classes, fn : Functions, area : Nat \ {0}, at : Nat,
            plains : Seq(Nat), fold : [coeffs : Seq(Factors), area : Nat]]

OptOptions == [fuse : BOOLEAN, optAct : BOOLEAN, optPool : BOOLEAN,
               multCoeff : BOOLEAN, multPool : BOOLEAN, activation : Activations,
               coeff : Factors, poolArea : Nat, consumed : Nat]

\* Types, and the builder's plan: each object is built at the level at which
\* the one before it leaves the ciphertext, the ciphertext is at the level
\* planned for the layer it enters, and never past the modulus chain.
LevelPlan ==
    /\ model \in Models /\ level \in Levels
    /\ it \in 1 .. Len(Layers) + 1 /\ pos \in 1 .. Len(network) + 1
    /\ option \in OptOptions /\ network \in Seq(Objects)
    /\ ct.level \in 0 .. level
    /\ phase \in {"build", "build_failed", "predict", "predict_failed", "done"}
    /\ phase \in {"build", "build_failed"} => pos = 1
    /\ SameActivation =>
          /\ \A i \in 1 .. Len(network) :
                /\ network[i].plains = Uses(network[i], network[i].at)
                /\ network[i].at + Rescales(network[i]) =
                      IF i = Len(network) THEN option.consumed
                                          ELSE network[i + 1].at
          /\ ct.level = IF pos = Len(network) + 1
                        THEN option.consumed ELSE network[pos].at

\* The builder and predict agree: each layer finds its constants at the
\* level its ciphertext has reached, whatever layers came before and
\* whatever was optimized (consumed_level against the rescale calls).
LevelsAgree ==
    SameActivation /\ phase = "predict" /\ pos <= Len(network) =>
       network[pos].plains = Uses(network[pos], ct.level)

\* A pooling that divides what a square activation left, its coefficient 0.
PoolsSquare(i) ==
    /\ option.optAct /\ ~option.optPool /\ option.coeff = "zero"
    /\ Layers[i].class = "AveragePooling2D"
    /\ Layers[i - 1].class = "Activation" /\ Layers[i - 1].fn = "square"

SquareIsPooled == \E i \in 2 .. Len(Layers) : PoolsSquare(i)

\* A network that could be built throws while it predicts in one case, and in
\* that case always: an average pooling, not optimized itself, takes over the
\* coefficient 0.0 that an optimized square activation leaves pending
\* (buildAveragePooling2D).  The end of the modulus chain is met while
\* building, and the levels agree.
ThrowsOnlyOnZero ==
    SameActivation =>
       /\ phase = "predict_failed" => SquareIsPooled
       /\ phase = "done" => ~SquareIsPooled

\* What every trained model has in common, and no line of the code checks:
\* its last layer has a bias, which is added at the last level it needs;
Biased == {"Conv2D", "Dense", "BatchNormalization"}

EndsBiased(m) ==
    m.layers # <<>> => m.layers[Len(m.layers)].class \in Biased

\* what an optimization leaves out is met by a layer that folds it before
\* one that cannot;
Follows(m, i, classes) == i = 1 \/ m.layers[i - 1].class \in classes

FoldsInTime(m) ==
    \A i \in DOMAIN m.layers :
       /\ m.layers[i].class \in {"BatchNormalization", "Activation"} =>
             Follows(m, i, Biased)
       /\ m.layers[i].class = "AveragePooling2D" =>
             Follows(m, i, Biased \cup {"Activation"})

\* and its file is named after its activation function.
Polynomials == {<<"CKKS-swish_rg4_deg4", "swish_rg4_deg4">>,
                <<"CKKS-swish_rg6_deg4", "swish_rg6_deg4">>}

NamedAfterActivation(m) ==
    \A i \in DOMAIN m.layers, p \in Polynomials :
       m.layers[i].class = "Activation" /\ m.layers[i].fn # "square" =>
          (m.name = p[1] <=> m.layers[i].fn = p[2])

HasLayer(class) == \E i \in DOMAIN Layers : Layers[i].class = class

\* Two combinations fold a factor wrongly: the divisor of a global average
\* pooling, which buildDense folds only under enable_optimize_pooling, and the
\* leading coefficient of a square activation, which stays 0.
FoldsSafely ==
    /\ HasLayer("GlobalAveragePooling2D") => option.optPool
    /\ \A i \in DOMAIN Layers : Layers[i].fn = "square" => ~option.optAct

\* A predicted result owes no factor: what an optimized activation or
\* pooling leaves out is in the weights of the next layer exactly once,
\* before any bias is added or polynomial applied.
ResultExact == phase = "done" => ct.debt = Clean

SafeResultExact == SameActivation /\ FoldsSafely => ResultExact

\* Rescalings of a layer of the model when nothing is optimized.
Depth(l) ==
    CASE l.class \in {"Conv2D", "Dense", "BatchNormalization",
                      "AveragePooling2D"} -> 1
      [] l.class \in {"Flatten", "GlobalAveragePooling2D"} -> 0
      [] l.class = "Activation" -> IF l.fn = "square" THEN 1 ELSE 3

\* What each optimization saves: one level per batch normalization fused,
\* per polynomial of degree 4, per average pooling.
Saving(i) ==
    CASE Layers[i].class = "BatchNormalization" ->
            IF option.fuse /\ i > 1
               /\ Layers[i - 1].class \in {"Conv2D", "Dense"} THEN 1 ELSE 0
      [] Layers[i].class = "AveragePooling2D" ->
            IF option.optPool THEN 1 ELSE 0
      [] Layers[i].class = "Activation" ->
            IF option.optAct /\ Layers[i].fn # "square" THEN 1 ELSE 0
      [] OTHER -> 0

Costs == [i \in DOMAIN Layers |-> Depth(Layers[i]) - Saving(i)]

RequiredLevels == SumsOf(Costs)[Len(Layers)]

\* The multiplicative depth of a prediction is that of the model less what
\* the optimization level is documented to save (README, "optimize").
DepthIsRequired == phase = "done" => ct.level = RequiredLevels

\* A trained model is built whenever the modulus chain is as long as its
\* prediction needs: beside an activation the constructor does not know, only
\* a fused dense layer stops the builder, which looks for its weights under a
\* name no trained file has (mod_switch_to_next in the builders against the
\* rescalings of predict).
BuildFailureHasACause ==
    phase = "build_failed" =>
       \/ level < RequiredLevels
       \/ /\ Layers[it].class = "Activation"
          /\ Polynomial(Layers[it].fn, option.activation) = "unregistered"
       \/ /\ option.fuse /\ Layers[it].class = "Dense"
          /\ it < Len(Layers) /\ Layers[it + 1].class = "BatchNormalization"
=============================================================================
