------------------------- MODULE NetworkLevels_proofs -------------------------
(***************************************************************************)
(* The builder's count of levels and the forward pass agree, for any       *)
(* sequence of layers, any optimization level and any modulus chain; the   *)
(* counts are sums, computed for any number of layers by induction on a    *)
(* set of numbers.  With what the trained models have in common, a built   *)
(* network throws on a factor of 0 only, in one known case, and otherwise  *)
(* predicts with no factor owed where the optimizations fold safely.       *)
(***************************************************************************)
EXTENDS NetworkLevels, Sums_proofs

\* The initial OptOption is one, whatever the query.
LEMMA NewOptionType ==
    ASSUME NEW name, NEW opt_level, NEW act \in Activations
    PROVE  /\ NewOption(name, opt_level, act) \in OptOptions
           /\ NewOption(name, opt_level, act).consumed = 0
<1>1. HighestDegCoeff(name, act) \in Factors
  BY DEF HighestDegCoeff, Factors
<1> DEFINE f == opt_level \in {1, 4}
           a == opt_level \in {2, 4}
           p == opt_level \in {3, 4}
           k == IF opt_level \in {2, 4} THEN HighestDegCoeff(name, act)
                                        ELSE "zero"
<1>4. NewOption(name, opt_level, act) =
         [fuse |-> f, optAct |-> a, optPool |-> p, multCoeff |-> FALSE,
          multPool |-> FALSE, activation |-> act, coeff |-> k,
          poolArea |-> 0, consumed |-> 0]
  BY Zenon DEF NewOption
<1>5. f \in BOOLEAN /\ a \in BOOLEAN /\ p \in BOOLEAN /\ k \in Factors
  BY <1>1 DEF Factors
<1> HIDE DEF f, a, p, k
<1> QED
  BY <1>4, <1>5 DEF OptOptions

\* Every builder keeps the optimization flags and the activation.
SameFlags(o, p) == /\ p.fuse = o.fuse /\ p.optAct = o.optAct
                   /\ p.optPool = o.optPool /\ p.activation = o.activation

\* What the builder of layer l makes: an object at the count of levels it
\* found, and a count that moves by cost.
Makes(b, l, o, plains, cost) ==
    /\ b.object \in Objects /\ b.option \in OptOptions
    /\ b.object.class = l.class /\ b.object.fn = l.fn
    /\ b.object.at = o.consumed /\ b.object.plains = plains
    /\ b.option.consumed = o.consumed + cost
    /\ SameFlags(o, b.option)

\* A layer that sums, folds and adds a bias.
LEMMA WeightedFacts ==
    ASSUME NEW l \in LayerInfo, NEW o \in OptOptions
    PROVE  Makes(BuildWeighted(l, o), l, o, <<o.consumed, o.consumed + 1>>, 1)
<1> DEFINE c == o.consumed
<1>1. Folding(o) \in [coeffs : Seq(Factors), area : Nat]
  BY DEF Folding, Owes, OptOptions
<1>2. c \in Nat /\ <<c, c + 1>> \in Seq(Nat)
  BY DEF OptOptions
<1>3. Object(l, c, <<c, c + 1>>, Folding(o)) \in Objects
  BY <1>1, <1>2 DEF Object, Objects, LayerInfo
<1>4. /\ Folded(o) \in OptOptions /\ SameFlags(o, Folded(o))
      /\ Folded(o).consumed = c
  BY DEF Folded, OptOptions, SameFlags
<1>5. /\ [Folded(o) EXCEPT !.consumed = @ + 1] \in OptOptions
      /\ [Folded(o) EXCEPT !.consumed = @ + 1].consumed = c + 1
      /\ SameFlags(o, [Folded(o) EXCEPT !.consumed = @ + 1])
  BY <1>2, <1>4 DEF OptOptions, SameFlags
<1> QED
  BY <1>3, <1>5 DEF BuildWeighted, Built, Makes, Object

\* A layer object and an option made of the right parts.
LEMMA MakesBuilt ==
    ASSUME NEW l \in LayerInfo, NEW o \in OptOptions, NEW ps \in Seq(Nat),
           NEW f \in [coeffs : Seq(Factors), area : Nat],
           NEW p \in OptOptions, SameFlags(o, p),
           NEW cost, p.consumed = o.consumed + cost
    PROVE  Makes(Built(Object(l, o.consumed, ps, f), p), l, o, ps, cost)
<1>1. o.consumed \in Nat
  BY DEF OptOptions
<1>2. Object(l, o.consumed, ps, f) \in Objects
  BY <1>1 DEF Object, Objects, LayerInfo
<1> QED
  BY <1>2 DEF Object, Built, Makes

\* The option after a constructor: a factor left by a pooling,
LEMMA PoolUpdate ==
    ASSUME NEW o \in OptOptions, NEW a \in Nat
    PROVE  LET p == [o EXCEPT !.poolArea = a, !.multPool = TRUE]
           IN  p \in OptOptions /\ SameFlags(o, p) /\ p.consumed = o.consumed
BY DEF OptOptions, SameFlags

\* or by an activation, and a new count of levels.
LEMMA CountUpdate ==
    ASSUME NEW o \in OptOptions, NEW m \in BOOLEAN, NEW k \in Nat
    PROVE  LET p == [o EXCEPT !.consumed = k, !.multCoeff = m]
           IN  p \in OptOptions /\ SameFlags(o, p) /\ p.consumed = k
BY DEF OptOptions, SameFlags

\* The same with the count written last.
LEMMA CountUpdateLast ==
    ASSUME NEW o \in OptOptions, NEW m \in BOOLEAN, NEW k \in Nat
    PROVE  LET p == [[o EXCEPT !.multCoeff = m] EXCEPT !.consumed = k]
           IN  p \in OptOptions /\ SameFlags(o, p) /\ p.consumed = k
BY DEF OptOptions, SameFlags

\* A fresh ciphertext owes nothing.
LEMMA CleanType == Clean \in [coeffs : Seq(Factors), area : Nat]
BY DEF Clean, Owes

\* The cost and the constants of the other builders.
LEMMA NormalizationFacts ==
    ASSUME NEW l \in LayerInfo, NEW o \in OptOptions
    PROVE  Makes(BuildBatchNormalization(l, o), l, o,
                 <<o.consumed, o.consumed + 1>>, 1)
<1> DEFINE p == [o EXCEPT !.consumed = @ + 1]
<1>1. o.consumed \in Nat /\ <<o.consumed, o.consumed + 1>> \in Seq(Nat)
  BY DEF OptOptions
<1>2. p \in OptOptions /\ SameFlags(o, p) /\ p.consumed = o.consumed + 1
  BY <1>1 DEF OptOptions, SameFlags
<1> QED
  BY <1>1, <1>2, CleanType, MakesBuilt DEF BuildBatchNormalization

\* Pooling costs a level unless its division is left to a later layer.
LEMMA PoolingFacts ==
    ASSUME NEW l \in LayerInfo, NEW o \in OptOptions
    PROVE  /\ o.optPool => Makes(BuildAveragePooling2D(l, o), l, o, <<>>, 0)
           /\ ~o.optPool => Makes(BuildAveragePooling2D(l, o), l, o,
                                  <<o.consumed>>, 1)
<1> DEFINE c == o.consumed
           m == o.multCoeff /\ ~o.optAct
           p == [o EXCEPT !.poolArea = l.area, !.multPool = TRUE]
           q == [o EXCEPT !.consumed = @ + 1, !.multCoeff = @ /\ ~o.optAct]
           fold == Owes(IF o.optAct /\ o.multCoeff THEN <<o.coeff>> ELSE <<>>,
                        l.area)
<1>1. /\ c \in Nat /\ <<c>> \in Seq(Nat) /\ <<>> \in Seq(Nat)
      /\ l.area \in Nat /\ c + 1 \in Nat /\ c = c + 0
  BY DEF OptOptions, LayerInfo
<1>2. fold \in [coeffs : Seq(Factors), area : Nat]
  BY <1>1 DEF Owes, OptOptions
<1>3. CASE o.optPool
  <2>1. p \in OptOptions /\ SameFlags(o, p) /\ p.consumed = o.consumed
    BY <1>1, PoolUpdate, Zenon
  <2>2. BuildAveragePooling2D(l, o) = Built(Object(l, c, <<>>, Clean), p)
    BY <1>3 DEF BuildAveragePooling2D
  <2> HIDE DEF p
  <2>3. p.consumed = o.consumed + 0
    BY <1>1, <2>1
  <2> QED
    BY <1>1, <1>3, <2>1, <2>2, <2>3, CleanType, MakesBuilt
<1>4. CASE ~o.optPool
  <2>1. m \in BOOLEAN
    OBVIOUS
  <2>2. BuildAveragePooling2D(l, o) = Built(Object(l, c, <<c>>, fold), q)
    BY <1>4 DEF BuildAveragePooling2D
  <2>3. q = [o EXCEPT !.consumed = c + 1, !.multCoeff = m]
    BY Zenon
  <2> DEFINE k == c + 1
  <2>4. k \in Nat
    BY <1>1
  <2> HIDE DEF m, fold, q, k
  <2>5. LET u == [o EXCEPT !.consumed = k, !.multCoeff = m]
        IN  u \in OptOptions /\ SameFlags(o, u) /\ u.consumed = k
    BY <2>1, <2>4, CountUpdate, Zenon
  <2>6. q \in OptOptions /\ SameFlags(o, q) /\ q.consumed = c + 1
    BY <2>3, <2>5, Zenon DEF k
  <2> QED
    BY <1>1, <1>2, <1>4, <2>2, <2>6, MakesBuilt
<1> QED
  BY <1>3, <1>4

\* Global pooling and flattening cost none.
LEMMA ReshapingFacts ==
    ASSUME NEW l \in LayerInfo, NEW o \in OptOptions
    PROVE  /\ Makes(BuildGlobalAveragePooling2D(l, o), l, o, <<>>, 0)
           /\ Makes(BuildFlatten(l, o), l, o, <<>>, 0)
<1> DEFINE a == IF o.multPool THEN o.poolArea * l.area ELSE l.area
           p == [o EXCEPT !.multPool = TRUE, !.poolArea = a]
<1>1. o.consumed \in Nat /\ o.consumed = o.consumed + 0 /\ SameFlags(o, o)
  BY DEF OptOptions, SameFlags
<1>2. a \in Nat /\ <<>> \in Seq(Nat)
  BY DEF OptOptions, LayerInfo
<1>3. BuildGlobalAveragePooling2D(l, o) =
         Built(Object(l, o.consumed, <<>>, Clean), p)
  BY DEF BuildGlobalAveragePooling2D
<1> HIDE DEF a
<1>4. p \in OptOptions /\ SameFlags(o, p) /\ p.consumed = o.consumed + 0
  BY <1>1, <1>2 DEF OptOptions, SameFlags
<1> HIDE DEF p
<1>5. Makes(BuildGlobalAveragePooling2D(l, o), l, o, <<>>, 0)
  BY <1>2, <1>3, <1>4, CleanType, MakesBuilt
<1>6. Makes(BuildFlatten(l, o), l, o, <<>>, 0)
  BY <1>1, <1>2, CleanType, MakesBuilt DEF BuildFlatten
<1> QED
  BY <1>5, <1>6

\* The constructor of an activation counts what activate() will rescale.
LEMMA ActivationFacts ==
    ASSUME NEW l \in LayerInfo, NEW o \in OptOptions
    PROVE  LET square == Polynomial(l.fn, o.activation) = "square"
               c == o.consumed
               b == BuildActivation(l, o)
           IN  /\ square => Makes(b, l, o, <<>>, 1)
               /\ ~square /\ o.optAct =>
                     Makes(b, l, o, <<c + 1, c + 1, c + 2>>, 2)
               /\ ~square /\ ~o.optAct =>
                     Makes(b, l, o, <<c + 2, c + 2, c + 2, c + 3>>, 3)
<1> DEFINE c == o.consumed
           poly == Polynomial(l.fn, o.activation)
           m == o.multCoeff \/ o.optAct
           q == [o EXCEPT !.multCoeff = m]
           r(n) == [q EXCEPT !.consumed = c + n]
           two == <<c + 1, c + 1, c + 2>>
           three == <<c + 2, c + 2, c + 2, c + 3>>
<1>1. /\ c \in Nat /\ <<>> \in Seq(Nat)
      /\ two \in Seq(Nat) /\ three \in Seq(Nat)
  BY DEF OptOptions
<1>2. m \in BOOLEAN
  BY DEF OptOptions
<1>3. ASSUME NEW n \in Nat
      PROVE  r(n) \in OptOptions /\ r(n).consumed = c + n /\ SameFlags(o, r(n))
  <2>1. c + n \in Nat
    BY <1>1
  <2> HIDE DEF m
  <2> QED
    BY <1>2, <2>1, CountUpdateLast, Zenon
<1>4. CASE poly = "square"
  <2>1. BuildActivation(l, o) = Built(Object(l, c, <<>>, Clean), r(1))
    BY <1>4 DEF BuildActivation
  <2>2. Makes(BuildActivation(l, o), l, o, <<>>, 1)
    <3> DEFINE none == <<>>
    <3>1. r(1) \in OptOptions /\ r(1).consumed = c + 1 /\ SameFlags(o, r(1))
      BY <1>3
    <3>2. none \in Seq(Nat)
      OBVIOUS
    <3> HIDE DEF r, q, none
    <3>3. Makes(Built(Object(l, c, none, Clean), r(1)), l, o, none, 1)
      BY <3>1, <3>2, CleanType, MakesBuilt
    <3> QED
      BY <2>1, <3>3 DEF none
  <2> QED
    BY <1>4, <2>2
<1>5. CASE poly # "square" /\ o.optAct
  <2>1. BuildActivation(l, o) = Built(Object(l, c, two, Clean), r(2))
    BY <1>5 DEF BuildActivation
  <2>2. Makes(BuildActivation(l, o), l, o, two, 2)
    <3> HIDE DEF r, q, two
    <3> QED
      BY <1>1, <1>3, <2>1, CleanType, MakesBuilt
  <2> QED
    BY <1>5, <2>2
<1>6. CASE poly # "square" /\ ~o.optAct
  <2>1. BuildActivation(l, o) = Built(Object(l, c, three, Clean), r(3))
    BY <1>6 DEF BuildActivation
  <2>2. Makes(BuildActivation(l, o), l, o, three, 3)
    <3> HIDE DEF r, q, three
    <3> QED
      BY <1>1, <1>3, <2>1, CleanType, MakesBuilt
  <2> QED
    BY <1>6, <2>2
<1> QED
  BY <1>4, <1>5, <1>6

-----------------------------------------------------------------------------
(* The plan, layer by layer. *)

\* What BuildNetwork makes of a layer, fused with the next one or not.
LEMMA BuildMakes ==
    ASSUME NEW l \in LayerInfo, option \in OptOptions
    PROVE  LET b == Build(l, option)
               c == option.consumed
               square == Polynomial(l.fn, option.activation) = "square"
           IN  /\ l.class \in Biased => Makes(b, l, option, <<c, c + 1>>, 1)
               /\ l.class = "AveragePooling2D" /\ option.optPool =>
                     Makes(b, l, option, <<>>, 0)
               /\ l.class = "AveragePooling2D" /\ ~option.optPool =>
                     Makes(b, l, option, <<c>>, 1)
               /\ l.class \in {"GlobalAveragePooling2D", "Flatten"} =>
                     Makes(b, l, option, <<>>, 0)
               /\ l.class = "Activation" /\ square =>
                     Makes(b, l, option, <<>>, 1)
               /\ l.class = "Activation" /\ ~square /\ option.optAct =>
                     Makes(b, l, option, <<c + 1, c + 1, c + 2>>, 2)
               /\ l.class = "Activation" /\ ~square /\ ~option.optAct =>
                     Makes(b, l, option, <<c + 2, c + 2, c + 2, c + 3>>, 3)
<1> DEFINE o == option
<1> SUFFICES ASSUME NEW b, b = Build(l, o)
             PROVE  LET c == o.consumed
                        square == Polynomial(l.fn, o.activation) = "square"
                    IN  /\ l.class \in Biased => Makes(b, l, o, <<c, c + 1>>, 1)
                        /\ l.class = "AveragePooling2D" /\ o.optPool =>
                              Makes(b, l, o, <<>>, 0)
                        /\ l.class = "AveragePooling2D" /\ ~o.optPool =>
                              Makes(b, l, o, <<c>>, 1)
                        /\ l.class \in {"GlobalAveragePooling2D", "Flatten"} =>
                              Makes(b, l, o, <<>>, 0)
                        /\ l.class = "Activation" /\ square =>
                              Makes(b, l, o, <<>>, 1)
                        /\ l.class = "Activation" /\ ~square /\ o.optAct =>
                              Makes(b, l, o, <<c + 1, c + 1, c + 2>>, 2)
                        /\ l.class = "Activation" /\ ~square /\ ~o.optAct =>
                              Makes(b, l, o, <<c + 2, c + 2, c + 2, c + 3>>, 3)
  OBVIOUS
<1>1. CASE l.class \in {"Conv2D", "Dense"}
  <2>1. b = BuildWeighted(l, o)
    BY <1>1 DEF Build, BuildConv2D, BuildConv2DFusedBN, BuildDense
  <2> QED
    BY <1>1, <2>1, WeightedFacts
<1>2. CASE l.class = "BatchNormalization"
  <2>1. b = BuildBatchNormalization(l, o)
    BY <1>2 DEF Build
  <2> QED
    BY <1>2, <2>1, NormalizationFacts
<1>3. CASE l.class = "AveragePooling2D"
  <2>1. b = BuildAveragePooling2D(l, o)
    BY <1>3 DEF Build
  <2> QED
    BY <1>3, <2>1, PoolingFacts DEF Biased
<1>4. CASE l.class \in {"GlobalAveragePooling2D", "Flatten"}
  <2>1. \/ b = BuildGlobalAveragePooling2D(l, o)
        \/ b = BuildFlatten(l, o)
    BY <1>4 DEF Build
  <2> QED
    BY <1>4, <2>1, ReshapingFacts DEF Biased
<1>5. CASE l.class = "Activation"
  <2>1. b = BuildActivation(l, o)
    BY <1>5 DEF Build
  <2> QED
    BY <1>5, <2>1, ActivationFacts DEF Biased
<1> QED
  BY <1>1, <1>2, <1>3, <1>4, <1>5 DEF Biased, LayerInfo, Classes

\* Nothing a layer uses or rescales depends on more of the option than its
\* flags.
Fits(x) == x.plains = Uses(x, x.at)

Planned(b, l) ==
    /\ b.object \in Objects /\ b.option \in OptOptions
    /\ SameFlags(option, b.option)
    /\ b.object.at = option.consumed
    /\ (l.class = "Activation" /\ option.activation = "SQUARE"
           => l.fn = "square")
       => Fits(b.object)
          /\ b.option.consumed = b.object.at + Rescales(b.object)

\* What BuildNetwork makes of a layer holds its constants at the levels
\* forward uses them at, and moves the count as far as forward rescales.
LEMMA BuildFits ==
    ASSUME NEW l \in LayerInfo, option \in OptOptions
    PROVE  Planned(Build(l, option), l)
<1> DEFINE o == option
           c == o.consumed
<1> SUFFICES ASSUME NEW b, b = Build(l, o)
             PROVE  Planned(b, l)
  OBVIOUS
<1>1. l.class \in Classes /\ c \in Nat /\ o.optAct \in BOOLEAN
      /\ o.optPool \in BOOLEAN
  BY DEF LayerInfo, OptOptions
<1>2. CASE l.class \in Biased
  <2>1. Makes(b, l, o, <<c, c + 1>>, 1)
    BY <1>2, BuildMakes
  <2> QED
    BY <1>2, <2>1 DEF Planned, Makes, Fits, Uses, Rescales, Biased
<1>3. CASE l.class = "AveragePooling2D"
  <2>1. /\ o.optPool => Makes(b, l, o, <<>>, 0)
        /\ ~o.optPool => Makes(b, l, o, <<c>>, 1)
    BY <1>3, BuildMakes
  <2> QED
    BY <1>1, <1>3, <2>1 DEF Planned, Makes, Fits, Uses, Rescales
<1>4. CASE l.class \in {"GlobalAveragePooling2D", "Flatten"}
  <2>1. Makes(b, l, o, <<>>, 0)
    BY <1>4, BuildMakes
  <2> QED
    BY <1>4, <2>1 DEF Planned, Makes, Fits, Uses, Rescales
<1>5. CASE l.class = "Activation"
  <2> DEFINE square == Polynomial(l.fn, o.activation) = "square"
  <2>1. /\ square => Makes(b, l, o, <<>>, 1)
        /\ ~square /\ o.optAct => Makes(b, l, o, <<c + 1, c + 1, c + 2>>, 2)
        /\ ~square /\ ~o.optAct =>
              Makes(b, l, o, <<c + 2, c + 2, c + 2, c + 3>>, 3)
    BY <1>5, BuildMakes
  <2>2. /\ b.object \in Objects /\ b.option \in OptOptions
        /\ SameFlags(o, b.option) /\ b.object.at = c
    BY <1>1, <2>1 DEF Makes
  <2>3. ASSUME o.activation = "SQUARE" => l.fn = "square"
        PROVE  Fits(b.object)
               /\ b.option.consumed = b.object.at + Rescales(b.object)
    <3>1. square <=> l.fn = "square"
      BY <2>3 DEF Polynomial
    <3> QED
      BY <1>1, <1>5, <2>1, <3>1 DEF Makes, Fits, Uses, Rescales, Evaluates
  <2> QED
    BY <1>5, <2>2, <2>3 DEF Planned
<1> QED
  BY <1>1, <1>2, <1>3, <1>4, <1>5 DEF Classes, Biased

-----------------------------------------------------------------------------
(* The plan as an invariant: it is inductive as it stands. *)

\* The number of rescales of a layer is a number.
LEMMA RescalesType ==
    ASSUME NEW x \in Objects, option \in OptOptions
    PROVE  Rescales(x) \in Nat
<1>1. x.class \in Classes /\ option.optAct \in BOOLEAN
      /\ option.optPool \in BOOLEAN
  BY DEF Objects, OptOptions
<1> QED
  BY <1>1 DEF Rescales, Classes, Evaluates

\* A step that keeps the flags and the model keeps what depends on them.
LEMMA SameUses ==
    ASSUME SameFlags(option, option'), model' = model
    PROVE  /\ \A i : Fits(network[i])' <=> Fits(network'[i])
           /\ \A i : Rescales(network[i])' = Rescales(network'[i])
           /\ SameActivation' <=> SameActivation
BY DEF SameFlags, Fits, Uses, Rescales, Evaluates, SameActivation, Layers

\* The plan holds before the first layer is built.
LEMMA InitPlan == Init => LevelPlan
<1> SUFFICES ASSUME Init PROVE LevelPlan
  OBVIOUS
<1>1. PICK opt_level \in OptLevels, act \in Activations :
         option = NewOption(model.name, opt_level, act)
  BY DEF Init
<1>2. option \in OptOptions /\ option.consumed = 0
  BY <1>1, NewOptionType
<1>3. model \in Models /\ level \in Levels /\ level \in Nat
      /\ Layers \in Seq(LayerInfo)
  BY ModelsAssumption DEF Init, Layers
<1> QED
  BY <1>2, <1>3 DEF Init, LevelPlan

\* Building a layer extends the plan by its cost.
LEMMA BuildLayerPlan ==
    ASSUME LevelPlan, BuildLayer
    PROVE  LevelPlan'
<1> DEFINE l == Layers[it]
           b == Build(l, option)
<1>1. /\ Layers \in Seq(LayerInfo) /\ Len(Layers) \in Nat /\ it \in Nat
      /\ level \in Nat /\ it \in 1 .. Len(Layers) /\ l \in LayerInfo
  BY ModelsAssumption DEF LevelPlan, BuildLayer, Layers
<1>2. /\ model' = model /\ level' = level /\ ct' = ct /\ pos' = pos
      /\ phase = "build" /\ pos = 1 /\ Layers' = Layers
  BY DEF BuildLayer, queryVars, LevelPlan, Layers
<1>3. CASE Throws(l, b)
  <2>1. /\ option' = option /\ it' = it /\ network' = network
        /\ phase' = "build_failed"
    BY <1>3 DEF BuildLayer
  <2>2. SameFlags(option, option')
    BY <2>1 DEF SameFlags
  <2>3. \A i : Fits(network[i])' <=> Fits(network'[i])
    BY <1>2, <2>2, SameUses
  <2>4. \A i : Rescales(network[i])' = Rescales(network'[i])
    BY <1>2, <2>2, SameUses
  <2> QED
    BY <1>2, <2>1, <2>3, <2>4 DEF LevelPlan, Fits, SameActivation
<1>4. CASE ~Throws(l, b)
  <2>1. /\ network' = Append(network, b.object) /\ option' = b.option
        /\ it' = it + (IF Fuses THEN 2 ELSE 1) /\ phase' = phase
    BY <1>4 DEF BuildLayer
  <2>2. it' \in 1 .. Len(Layers') + 1
    BY <1>1, <1>2, <2>1 DEF Fuses
  <2>3. network \in Seq(Objects) /\ option \in OptOptions
    BY DEF LevelPlan
  <2>4. Planned(b, l)
    BY <1>1, <2>3, BuildFits
  <2> HIDE DEF b
  <2>5. SameFlags(option, option') /\ option' \in OptOptions
        /\ network' \in Seq(Objects) /\ Len(network') = Len(network) + 1
    BY <2>1, <2>3, <2>4 DEF Planned
  <2>6. \A i : Fits(network[i])' <=> Fits(network'[i])
    BY <1>2, <2>5, SameUses
  <2>7. \A i : Rescales(network[i])' = Rescales(network'[i])
    BY <1>2, <2>5, SameUses
  <2>8. SameActivation' <=> SameActivation
    BY <1>2, <2>5, SameUses
  <2>9. ASSUME SameActivation
        PROVE  /\ \A i \in 1 .. Len(network') :
                     /\ Fits(network[i])'
                     /\ network'[i].at + Rescales(network[i])' =
                           IF i = Len(network') THEN option'.consumed
                                                ELSE network'[i + 1].at
               /\ ct'.level = network'[1].at
    <3>1. Fits(b.object)
          /\ option'.consumed = b.object.at + Rescales(b.object)
          /\ b.object.at = option.consumed
      BY <1>1, <2>1, <2>4, <2>9 DEF Planned, SameActivation
    <3>2. /\ \A i \in 1 .. Len(network) :
                /\ Fits(network[i])
                /\ network[i].at + Rescales(network[i]) =
                      IF i = Len(network) THEN option.consumed
                                          ELSE network[i + 1].at
          /\ ct.level = IF pos = Len(network) + 1
                        THEN option.consumed ELSE network[pos].at
      BY <2>9 DEF LevelPlan, Fits
    <3>3. /\ \A i \in 1 .. Len(network) : network'[i] = network[i]
          /\ network'[Len(network) + 1] = b.object
      BY <2>1, <2>3, <2>4 DEF Planned
    <3>4. Len(network) \in Nat
      BY <2>3
    <3>5. ASSUME NEW i \in 1 .. Len(network')
          PROVE  /\ Fits(network'[i])
                 /\ network'[i].at + Rescales(network'[i]) =
                       IF i = Len(network') THEN option'.consumed
                                            ELSE network'[i + 1].at
      <4>1. CASE i <= Len(network)
        BY <2>5, <3>1, <3>2, <3>3, <3>4, <4>1
      <4>2. CASE i = Len(network) + 1
        BY <2>5, <3>1, <3>3, <3>4, <4>2
      <4> QED
        BY <2>5, <3>4, <4>1, <4>2
    <3>6. ct'.level = network'[1].at
      BY <1>2, <3>1, <3>2, <3>3, <3>4
    <3> QED
      BY <2>6, <2>7, <3>5, <3>6
  <2>10. /\ pos' \in 1 .. Len(network') + 1 /\ pos' # Len(network') + 1
         /\ pos' = 1 /\ phase' = "build"
    BY <1>2, <2>1, <2>3, <2>5
  <2>11. model' \in Models /\ level' \in Levels /\ ct'.level \in 0 .. level'
    BY <1>2 DEF LevelPlan
  <2> QED
    BY <2>2, <2>5, <2>8, <2>9, <2>10, <2>11 DEF LevelPlan, Fits
<1> QED
  BY <1>3, <1>4

\* A step that neither builds nor forgets: only phase, ct and pos move.
LEMMA RestOfPlan ==
    ASSUME LevelPlan, model' = model, level' = level, option' = option,
           it' = it, network' = network,
           pos' \in 1 .. Len(network) + 1, ct'.level \in 0 .. level,
           phase' \in {"predict", "predict_failed", "done"},
           SameActivation =>
              ct'.level = IF pos' = Len(network) + 1
                          THEN option.consumed ELSE network[pos'].at
    PROVE  LevelPlan'
<1>1. SameFlags(option, option') /\ Layers' = Layers
  BY DEF SameFlags, Layers
<1>2. /\ \A i : Fits(network[i])' <=> Fits(network'[i])
      /\ \A i : Rescales(network[i])' = Rescales(network'[i])
      /\ SameActivation' <=> SameActivation
  BY <1>1, SameUses
<1> QED
  BY <1>1, <1>2 DEF LevelPlan, Fits

\* Evaluating a layer uses what the plan has for it.
LEMMA ForwardPlan ==
    ASSUME LevelPlan, Forward
    PROVE  LevelPlan'
<1> DEFINE l == network[pos]
<1>1. /\ model' = model /\ level' = level /\ option' = option
      /\ it' = it /\ network' = network /\ phase = "predict"
  BY DEF Forward, queryVars
<1>2. /\ pos \in 1 .. Len(network) /\ Len(network) \in Nat
      /\ l \in Objects /\ level \in Nat
  BY ModelsAssumption DEF Forward, LevelPlan
<1> DEFINE rejected == \/ l.plains # Uses(l, ct.level)
                       \/ ct.level + Rescales(l) > level
                       \/ MultipliesByZero(l)
<1>3. CASE rejected
  <2>1. phase' = "predict_failed" /\ ct' = ct /\ pos' = pos
    BY <1>3 DEF Forward
  <2> QED
    BY <1>1, <2>1, RestOfPlan DEF LevelPlan
<1>4. CASE ~rejected
  <2>1. /\ ct'.level = ct.level + Rescales(l)
        /\ pos' = pos + 1 /\ phase' = "predict"
    BY <1>1, <1>4 DEF Forward
  <2>2. Rescales(l) \in Nat
    BY <1>2, RescalesType DEF LevelPlan
  <2>3. ct.level \in 0 .. level
    BY DEF LevelPlan
  <2>4. ct'.level \in 0 .. level
    BY <1>2, <1>4, <2>1, <2>2, <2>3
  <2>5. ASSUME SameActivation
        PROVE  ct'.level = IF pos' = Len(network) + 1
                           THEN option.consumed ELSE network[pos'].at
    <3>1. ct.level = l.at
      BY <1>2, <2>5 DEF LevelPlan
    <3>2. l.at + Rescales(l) = IF pos = Len(network)
                               THEN option.consumed ELSE network[pos + 1].at
      BY <1>2, <2>5 DEF LevelPlan
    <3> QED
      BY <1>2, <2>1, <3>1, <3>2
  <2>6. pos' \in 1 .. Len(network) + 1
    BY <1>2, <2>1
  <2> QED
    BY <1>1, <2>1, <2>4, <2>5, <2>6, RestOfPlan
<1> QED
  BY <1>3, <1>4

\* The plan holds: every object is built at the level at which the one
\* before it leaves the ciphertext, for any model, optimization, activation
\* and modulus chain.
THEOREM PlanHolds == Spec => []LevelPlan
<1>1. LevelPlan /\ [Next]_vars => LevelPlan'
  <2> SUFFICES ASSUME LevelPlan, [Next]_vars PROVE LevelPlan'
    OBVIOUS
  <2>1. CASE BuildLayer
    BY <2>1, BuildLayerPlan
  <2>2. CASE BeginPredict
    BY <2>2, RestOfPlan DEF BeginPredict, queryVars, LevelPlan
  <2>3. CASE Forward
    BY <2>3, ForwardPlan
  <2>4. CASE EndPredict
    BY <2>4, RestOfPlan DEF EndPredict, queryVars, LevelPlan
  <2>5. CASE UNCHANGED vars
    <3>1. /\ model' = model /\ level' = level /\ option' = option /\ it' = it
          /\ network' = network /\ phase' = phase /\ ct' = ct /\ pos' = pos
      BY <2>5 DEF vars
    <3>2. SameFlags(option, option') /\ Layers' = Layers
      BY <3>1 DEF SameFlags, Layers
    <3>3. /\ \A i : Fits(network[i])' <=> Fits(network'[i])
          /\ \A i : Rescales(network[i])' = Rescales(network'[i])
          /\ SameActivation' <=> SameActivation
      BY <3>1, <3>2, SameUses
    <3> QED
      BY <3>1, <3>2, <3>3 DEF LevelPlan, Fits
  <2> QED
    BY <2>1, <2>2, <2>3, <2>4, <2>5 DEF Next
<1> QED
  BY <1>1, InitPlan, PTL DEF Spec

\* The builder and predict agree: the ciphertext that enters a layer is at
\* the level its constants are encoded at.
THEOREM LevelsAgreeHolds == Spec => []LevelsAgree
<1>1. LevelPlan => LevelsAgree
  <2> SUFFICES ASSUME LevelPlan, SameActivation, phase = "predict",
                      pos <= Len(network)
               PROVE  network[pos].plains = Uses(network[pos], ct.level)
    BY DEF LevelsAgree
  <2>1. pos \in 1 .. Len(network) /\ Len(network) \in Nat
    BY DEF LevelPlan
  <2>2. ct.level = network[pos].at
    BY <2>1 DEF LevelPlan
  <2> QED
    BY <2>1, <2>2 DEF LevelPlan
<1> QED
  BY <1>1, PlanHolds, PTL
-----------------------------------------------------------------------------
(* The levels of a prediction are the model's. *)

\* The costs of the layers are numbers, and flags and model determine them.
LEMMA CostsType ==
    ASSUME Layers \in Seq(LayerInfo), option \in OptOptions
    PROVE  /\ Costs \in Seq(Nat) /\ Len(Costs) = Len(Layers)
           /\ \A i \in 1 .. Len(Layers) :
                 Costs[i] = Depth(Layers[i]) - Saving(i)
<1>1. ASSUME NEW i \in DOMAIN Layers
      PROVE  Depth(Layers[i]) - Saving(i) \in Nat
  <2>1. Layers[i].class \in Classes
    <3>1. Layers[i] \in LayerInfo
      OBVIOUS
    <3> QED
      BY <3>1 DEF LayerInfo
  <2>2. Saving(i) \in {0, 1}
    BY DEF Saving
  <2>3. CASE Layers[i].class \in {"Flatten", "GlobalAveragePooling2D"}
    BY <2>3 DEF Depth, Saving
  <2>4. CASE Layers[i].class \notin {"Flatten", "GlobalAveragePooling2D"}
    <3>1. Depth(Layers[i]) \in {1, 3}
      BY <2>1, <2>4 DEF Depth, Classes
    <3> QED
      BY <2>2, <3>1
  <2> QED
    BY <2>3, <2>4
<1>2. Costs \in [1 .. Len(Layers) -> Nat]
  BY <1>1 DEF Costs
<1>3. Costs \in Seq(Nat) /\ Len(Costs) = Len(Layers)
  BY <1>2
<1> QED
  BY <1>3 DEF Costs

\* A step that keeps model, options and activation keeps every layer's cost.
LEMMA SameCosts ==
    ASSUME SameFlags(option, option'), model' = model
    PROVE  Costs' = Costs
<1>1. Layers' = Layers
  BY DEF Layers
<1>2. ASSUME NEW i
      PROVE  Saving(i)' = Saving(i)
  BY <1>1 DEF SameFlags, Saving
<1>3. Costs' = [i \in DOMAIN Layers |-> Depth(Layers[i]) - Saving(i)']
  BY <1>1 DEF Costs
<1> QED
  BY <1>2, <1>3 DEF Costs

\* A batch normalization that could have been fused has been.
NotSplit ==
    option.fuse /\ it > 1 /\ it <= Len(Layers)
    /\ Layers[it - 1].class \in {"Conv2D", "Dense"} =>
       Layers[it].class # "BatchNormalization"

\* A level of each layer's input: they begin at 0, and a layer adds its own.
Trail(g) ==
    /\ g[1] = 0
    /\ \A i \in 1 .. Len(network) : g[i + 1] = g[i] + Rescales(network[i])

\* The builder has counted no more levels than the layers it has built need,
\* and what these rescale is what they need.
CountInv ==
    /\ it = 1 => network = <<>>
    /\ phase \in {"predict", "predict_failed", "done"} => it = Len(Layers) + 1
    /\ phase = "done" => pos = Len(network) + 1
    /\ NotSplit
    /\ option.consumed <= SumsOf(Costs)[it - 1]
    /\ BuildFailureHasACause
    /\ \E g : /\ Trail(g)
              /\ g[Len(network) + 1] = SumsOf(Costs)[it - 1]
              /\ ct.level = g[pos]

\* A layer costs what its object rescales; the normalization that is fused
\* costs nothing, and one that is not has nothing to be fused with.
LEMMA LayerCosts ==
    ASSUME Layers \in Seq(LayerInfo), option \in OptOptions,
           it \in 1 .. Len(Layers), NotSplit
    PROVE  /\ Costs[it] = Rescales(Layers[it])
           /\ Fuses => Costs[it + 1] = 0
<1>1. /\ Len(Layers) \in Nat /\ it \in Nat /\ Layers[it] \in LayerInfo
  OBVIOUS
<1>2. /\ Layers[it].class \in Classes
      /\ option.fuse \in BOOLEAN /\ option.optAct \in BOOLEAN
      /\ option.optPool \in BOOLEAN
  BY <1>1 DEF LayerInfo, OptOptions
<1>3. Costs[it] = Depth(Layers[it]) - Saving(it)
  BY CostsType
<1>4. Depth(Layers[it]) - Saving(it) = Rescales(Layers[it])
  <2>1. CASE Layers[it].class \in {"Conv2D", "Dense"}
    BY <2>1 DEF Depth, Saving, Rescales
  <2>2. CASE Layers[it].class = "BatchNormalization"
    <3>1. Saving(it) = 0
      BY <1>1, <1>2, <2>2 DEF Saving, NotSplit
    <3> QED
      BY <2>2, <3>1 DEF Depth, Rescales
  <2>3. CASE Layers[it].class = "AveragePooling2D"
    BY <1>1, <1>2, <2>3 DEF Depth, Saving, Rescales
  <2>4. CASE Layers[it].class \in {"GlobalAveragePooling2D", "Flatten"}
    BY <2>4 DEF Depth, Saving, Rescales
  <2>5. CASE Layers[it].class = "Activation"
    BY <1>1, <1>2, <2>5 DEF Depth, Saving, Rescales, Evaluates
  <2> QED
    BY <1>1, <1>2, <2>1, <2>2, <2>3, <2>4, <2>5 DEF Classes
<1>5. ASSUME Fuses PROVE Costs[it + 1] = 0
  <2>1. /\ option.fuse /\ it + 1 \in 1 .. Len(Layers) /\ (it + 1) - 1 = it
        /\ it + 1 > 1 /\ Layers[it].class \in {"Conv2D", "Dense"}
        /\ Layers[it + 1].class = "BatchNormalization"
    BY <1>1, <1>5 DEF Fuses
  <2>2. Costs[it + 1] = Depth(Layers[it + 1]) - Saving(it + 1)
    BY <2>1, CostsType
  <2>3. Depth(Layers[it + 1]) = 1 /\ Saving(it + 1) = 1
    BY <2>1 DEF Depth, Saving
  <2> QED
    BY <2>2, <2>3
<1> QED
  BY <1>3, <1>4, <1>5

\* The sums over the built layers grow by what the new object rescales.
LEMMA SumsAdvance ==
    ASSUME Layers \in Seq(LayerInfo), option \in OptOptions,
           it \in 1 .. Len(Layers), NotSplit
    PROVE  /\ SumsOf(Costs)[it] = SumsOf(Costs)[it - 1] + Rescales(Layers[it])
           /\ Fuses => it + 1 \in 1 .. Len(Layers)
                       /\ SumsOf(Costs)[it + 1] = SumsOf(Costs)[it]
<1> DEFINE s == SumsOf(Costs)
<1>1. Costs \in Seq(Nat) /\ Len(Costs) = Len(Layers)
  BY CostsType
<1>2. /\ \A i \in 1 .. Len(Layers) : s[i] = s[i - 1] + Costs[i]
      /\ \A i \in 0 .. Len(Layers) : s[i] \in Nat
  BY <1>1, SumsOfSteps, SumsOfType
<1> HIDE DEF s
<1>3. /\ Costs[it] = Rescales(Layers[it])
      /\ Fuses => Costs[it + 1] = 0
  BY LayerCosts
<1>4. Fuses => it + 1 \in 1 .. Len(Layers) /\ (it + 1) - 1 = it
  BY DEF Fuses
<1>5. Fuses => s[it + 1] = s[it] + 0
  BY <1>2, <1>3, <1>4
<1>6. s[it] = s[it - 1] + Rescales(Layers[it]) /\ s[it] \in Nat
  BY <1>2, <1>3
<1>7. Fuses => s[it + 1] = s[it]
  BY <1>5, <1>6
<1> QED
  BY <1>4, <1>6, <1>7 DEF s

\* No builder counts more levels, or encodes a constant further on, than
\* its object rescales.
LEMMA BuildBounds ==
    ASSUME NEW l \in LayerInfo, option \in OptOptions
    PROVE  LET b == Build(l, option)
           IN  /\ b.object.class = l.class /\ b.object.fn = l.fn
               /\ b.option \in OptOptions /\ b.object \in Objects
               /\ SameFlags(option, b.option)
               /\ b.option.consumed <= option.consumed + Rescales(l)
               /\ \A j \in DOMAIN b.object.plains :
                     b.object.plains[j] <= option.consumed + Rescales(l)
               /\ l.class \in Biased =>
                     /\ 2 \in DOMAIN b.object.plains
                     /\ b.object.plains[2] = b.option.consumed
<1> DEFINE o == option
           c == o.consumed
           square == Polynomial(l.fn, o.activation) = "square"
<1> SUFFICES ASSUME NEW b, b = Build(l, o)
             PROVE  /\ b.object.class = l.class /\ b.object.fn = l.fn
                    /\ b.option \in OptOptions /\ b.object \in Objects
                    /\ SameFlags(o, b.option)
                    /\ b.option.consumed <= c + Rescales(l)
                    /\ \A j \in DOMAIN b.object.plains :
                          b.object.plains[j] <= c + Rescales(l)
                    /\ l.class \in Biased =>
                          /\ 2 \in DOMAIN b.object.plains
                          /\ b.object.plains[2] = b.option.consumed
  OBVIOUS
<1>1. l.class \in Classes /\ c \in Nat /\ o.optAct \in BOOLEAN
      /\ o.optPool \in BOOLEAN
  BY DEF LayerInfo, OptOptions
<1>2. CASE l.class \in Biased
  <2>1. Makes(b, l, o, <<c, c + 1>>, 1)
    BY <1>2, BuildMakes
  <2>2. Rescales(l) = 1
    BY <1>2 DEF Rescales, Biased
  <2> QED
    BY <1>1, <2>1, <2>2 DEF Makes
<1>3. CASE l.class = "AveragePooling2D"
  <2>1. /\ o.optPool => Makes(b, l, o, <<>>, 0)
        /\ ~o.optPool => Makes(b, l, o, <<c>>, 1)
    BY <1>3, BuildMakes
  <2>2. Rescales(l) = IF o.optPool THEN 0 ELSE 1
    BY <1>3 DEF Rescales
  <2> QED
    BY <1>1, <1>3, <2>1, <2>2 DEF Makes, Biased
<1>4. CASE l.class \in {"GlobalAveragePooling2D", "Flatten"}
  <2>1. Makes(b, l, o, <<>>, 0)
    BY <1>4, BuildMakes
  <2>2. Rescales(l) = 0
    BY <1>4 DEF Rescales
  <2> QED
    BY <1>1, <1>4, <2>1, <2>2 DEF Makes, Biased
<1>5. CASE l.class = "Activation"
  <2>1. /\ square => Makes(b, l, o, <<>>, 1)
        /\ ~square /\ o.optAct => Makes(b, l, o, <<c + 1, c + 1, c + 2>>, 2)
        /\ ~square /\ ~o.optAct =>
              Makes(b, l, o, <<c + 2, c + 2, c + 2, c + 3>>, 3)
    BY <1>5, BuildMakes
  <2>2. /\ l.fn = "square" => Rescales(l) = 1
        /\ l.fn # "square" => Rescales(l) = IF o.optAct THEN 2 ELSE 3
    BY <1>1, <1>5 DEF Rescales, Evaluates
  <2>3. l.fn = "square" => square
    BY DEF Polynomial
  <2> HIDE DEF square
  <2>4. CASE square
    BY <1>1, <1>5, <2>1, <2>2, <2>4 DEF Makes, Biased
  <2>5. CASE ~square /\ o.optAct
    BY <1>1, <1>5, <2>1, <2>2, <2>3, <2>5 DEF Makes, Biased
  <2>6. CASE ~square /\ ~o.optAct
    BY <1>1, <1>5, <2>1, <2>2, <2>3, <2>6 DEF Makes, Biased
  <2> QED
    BY <1>1, <2>4, <2>5, <2>6
<1> QED
  BY <1>1, <1>2, <1>3, <1>4, <1>5 DEF Classes, Biased

\* The counts before the first layer is built.
LEMMA InitCount == Init => CountInv
<1> SUFFICES ASSUME Init PROVE CountInv
  OBVIOUS
<1>1. LevelPlan /\ option.consumed = 0
  <2>1. PICK opt_level \in OptLevels, act \in Activations :
           option = NewOption(model.name, opt_level, act)
    BY DEF Init
  <2> QED
    BY <2>1, NewOptionType, InitPlan
<1>2. /\ it = 1 /\ network = <<>> /\ phase = "build" /\ ct.level = 0
      /\ pos = 1
  BY DEF Init
<1>3. Layers \in Seq(LayerInfo) /\ option \in OptOptions
  BY <1>1, ModelsAssumption DEF LevelPlan, Layers
<1>4. SumsOf(Costs)[0] = 0
  BY <1>3, CostsType, SumsOfSteps
<1>5. \E g : /\ Trail(g) /\ g[Len(network) + 1] = SumsOf(Costs)[it - 1]
             /\ ct.level = g[pos]
  <2> DEFINE g == [i \in {1} |-> 0]
  <2>1. Trail(g) /\ g[1] = 0
    BY <1>2 DEF Trail
  <2> QED
    BY <1>2, <1>4, <2>1
<1> QED
  BY <1>1, <1>2, <1>4, <1>5 DEF CountInv, NotSplit, BuildFailureHasACause

\* What the counts are made of stays when the flags and the model do.
LEMMA SameCounts ==
    ASSUME SameFlags(option, option'), model' = model
    PROVE  /\ SumsOf(Costs)' = SumsOf(Costs) /\ Layers' = Layers
           /\ network' = network => \A g : Trail(g)' <=> Trail(g)
           /\ it' = it => (NotSplit' <=> NotSplit)
<1>1. Layers' = Layers /\ Costs' = Costs
  BY SameCosts DEF Layers
<1>2. ASSUME network' = network, NEW g
      PROVE  Trail(g)' <=> Trail(g)
  <2>1. \A i : Rescales(network[i])' = Rescales(network'[i])
    BY SameUses
  <2>2. \A i : Rescales(network[i])' = Rescales(network[i])
    BY <1>2, <2>1
  <2> QED
    BY <1>2, <2>2 DEF Trail
<1>3. ASSUME it' = it PROVE NotSplit' <=> NotSplit
  BY <1>1, <1>3 DEF NotSplit, SameFlags
<1> QED
  BY <1>1, <1>2, <1>3

\* A layer the builder cannot encode has a cause.
LEMMA BuildFails ==
    ASSUME LevelPlan, CountInv, BuildLayer,
           Throws(Layers[it], Build(Layers[it], option))
    PROVE  CountInv'
<1> DEFINE l == Layers[it]
           b == Build(l, option)
           s == SumsOf(Costs)
           Cause == \/ level < RequiredLevels
                    \/ /\ l.class = "Activation"
                       /\ Polynomial(l.fn, option.activation) = "unregistered"
                    \/ /\ option.fuse /\ l.class = "Dense" /\ it < Len(Layers)
                       /\ Layers[it + 1].class = "BatchNormalization"
<1>1. /\ Layers \in Seq(LayerInfo) /\ option \in OptOptions
      /\ it \in 1 .. Len(Layers) /\ level \in Nat /\ l \in LayerInfo
      /\ NotSplit /\ option.consumed <= s[it - 1] /\ option.consumed \in Nat
  BY ModelsAssumption
     DEF LevelPlan, BuildLayer, Layers, CountInv, OptOptions
<1>2. /\ model' = model /\ level' = level /\ option' = option /\ it' = it
      /\ network' = network /\ phase' = "build_failed" /\ ct' = ct
      /\ pos' = pos
  BY DEF BuildLayer, queryVars
<1>3. Cause
  <2>1. CASE l.class = "Dense" /\ Fuses
    BY <2>1 DEF Fuses
  <2>2. CASE l.class = "Activation"
             /\ Polynomial(l.fn, option.activation) = "unregistered"
    BY <2>2
  <2>3. CASE \E j \in DOMAIN b.object.plains : b.object.plains[j] > level
    <3>1. PICK j \in DOMAIN b.object.plains : b.object.plains[j] > level
      BY <2>3
    <3>2. /\ b.object.plains[j] <= option.consumed + Rescales(l)
          /\ b.object \in Objects
      BY <1>1, BuildBounds
    <3>3. b.object.plains[j] \in Nat
      BY <3>2 DEF Objects
    <3>4. /\ Costs \in Seq(Nat) /\ Len(Costs) = Len(Layers)
      BY <1>1, CostsType
    <3>5. s[it] = s[it - 1] + Rescales(l)
      BY <1>1, SumsAdvance
    <3>6. /\ s[it] <= s[Len(Layers)] /\ s[it] \in Nat /\ s[it - 1] \in Nat
          /\ s[Len(Layers)] \in Nat
      BY <1>1, <3>4, SumsOfGrow, SumsOfType
    <3>7. Rescales(l) \in Nat
      BY <1>1 DEF Rescales, LayerInfo, Classes, Evaluates, OptOptions
    <3> HIDE DEF b, l, s
    <3>8. level < option.consumed + Rescales(l)
      BY <1>1, <3>1, <3>2, <3>3, <3>7
    <3>9. option.consumed + Rescales(l) <= s[it]
      BY <1>1, <3>5, <3>6, <3>7
    <3>10. level < s[Len(Layers)]
      BY <1>1, <3>6, <3>7, <3>8, <3>9
    <3> QED
      BY <3>10 DEF s, RequiredLevels
  <2> QED
    BY <2>1, <2>2, <2>3 DEF Throws
<1>4. Layers' = Layers /\ SumsOf(Costs)' = SumsOf(Costs)
      /\ (\A g : Trail(g)' <=> Trail(g)) /\ NotSplit'
  BY <1>1, <1>2, SameCounts DEF SameFlags
<1>5. BuildFailureHasACause'
  BY <1>2, <1>3, <1>4 DEF BuildFailureHasACause, RequiredLevels
<1> QED
  BY <1>2, <1>4, <1>5 DEF CountInv

\* A layer that is built moves the sums by what its object rescales.
LEMMA BuildCounts ==
    ASSUME LevelPlan, CountInv, BuildLayer,
           ~Throws(Layers[it], Build(Layers[it], option))
    PROVE  CountInv'
<1> DEFINE l == Layers[it]
           b == Build(l, option)
           s == SumsOf(Costs)
           n == Len(network)
<1>1. /\ Layers \in Seq(LayerInfo) /\ option \in OptOptions
      /\ it \in 1 .. Len(Layers) /\ l \in LayerInfo /\ Len(Layers) \in Nat
      /\ network \in Seq(Objects) /\ n \in Nat /\ pos = 1
      /\ NotSplit /\ option.consumed <= s[it - 1] /\ option.consumed \in Nat
  BY ModelsAssumption
     DEF LevelPlan, BuildLayer, Layers, CountInv, OptOptions
<1>2. /\ model' = model /\ level' = level /\ ct' = ct /\ pos' = pos
      /\ phase = "build" /\ phase' = phase
      /\ network' = Append(network, b.object) /\ option' = b.option
      /\ it' = it + (IF Fuses THEN 2 ELSE 1)
  BY DEF BuildLayer, queryVars
<1>3. /\ b.object.class = l.class /\ b.object.fn = l.fn
      /\ b.option \in OptOptions /\ b.object \in Objects
      /\ SameFlags(option, b.option)
      /\ b.option.consumed <= option.consumed + Rescales(l)
  BY <1>1, BuildBounds
<1>4. Rescales(b.object) = Rescales(l)
  BY <1>3 DEF Rescales, Evaluates
<1> HIDE DEF b
<1>5. /\ SumsOf(Costs)' = s /\ Layers' = Layers
  BY <1>2, <1>3, SameCounts
<1>6. s[it' - 1] = s[it - 1] + Rescales(l)
  <2>1. /\ s[it] = s[it - 1] + Rescales(l)
        /\ Fuses => s[it + 1] = s[it]
    BY <1>1, SumsAdvance
  <2>2. it' - 1 = IF Fuses THEN it + 1 ELSE it
    BY <1>1, <1>2
  <2> QED
    BY <2>1, <2>2
<1>7. s[it - 1] \in Nat /\ Rescales(l) \in Nat
  <2>1. Costs \in Seq(Nat) /\ Len(Costs) = Len(Layers)
    BY <1>1, CostsType
  <2>2. Rescales(l) \in Nat
    BY <1>1 DEF Rescales, LayerInfo, Classes, Evaluates, OptOptions
  <2> QED
    BY <1>1, <2>1, <2>2, SumsOfType
<1>8. option'.consumed <= s[it' - 1]
  <2>1. b.option.consumed \in Nat
    BY <1>3 DEF OptOptions
  <2>2. /\ option.consumed \in Nat /\ option.consumed <= s[it - 1]
        /\ s[it' - 1] = s[it - 1] + Rescales(l)
        /\ s[it - 1] \in Nat /\ Rescales(l) \in Nat
    BY <1>1, <1>6, <1>7
  <2>3. /\ b.option.consumed <= option.consumed + Rescales(l)
        /\ option' = b.option
    BY <1>2, <1>3
  <2> HIDE DEF s, l
  <2> QED
    BY <2>1, <2>2, <2>3
<1>9. NotSplit'
  <2> SUFFICES ASSUME b.option.fuse, it' > 1, it' <= Len(Layers),
                      Layers[it' - 1].class \in {"Conv2D", "Dense"}
               PROVE  Layers[it'].class # "BatchNormalization"
    BY <1>2, <1>5 DEF NotSplit
  <2>1. option.fuse
    BY <1>3 DEF SameFlags
  <2>2. CASE Fuses
    <3>1. it' - 1 = it + 1
      BY <1>1, <1>2, <2>2
    <3> QED
      BY <2>2, <3>1 DEF Fuses
  <2>3. CASE ~Fuses
    <3>1. it' = it + 1 /\ it' - 1 = it /\ it < Len(Layers)
      BY <1>1, <1>2, <2>3
    <3> QED
      BY <2>1, <2>3, <3>1 DEF Fuses
  <2> QED
    BY <2>2, <2>3
<1>10. \E g : /\ Trail(g)' /\ g[Len(network') + 1] = s[it' - 1]
              /\ ct'.level = g[pos']
  <2>1. PICK g : /\ Trail(g) /\ g[n + 1] = s[it - 1] /\ ct.level = g[pos]
    BY DEF CountInv
  <2>2. PICK h : h = [i \in 1 .. n + 2 |-> IF i = n + 2
                                          THEN g[n + 1] + Rescales(l)
                                          ELSE g[i]]
    OBVIOUS
  <2>3. /\ Len(network') = n + 1
        /\ \A i \in 1 .. n : network'[i] = network[i]
        /\ network'[n + 1] = b.object
    BY <1>1, <1>2, <1>3
  <2>4. h[1] = 0 /\ h[n + 2] = s[it - 1] + Rescales(l) /\ h[pos] = g[pos]
    BY <1>1, <2>1, <2>2 DEF Trail
  <2>5. ASSUME NEW i \in 1 .. n + 1
        PROVE  h[i + 1] = h[i] + Rescales(network'[i])
    <3>1. CASE i = n + 1
      <4>1. h[i + 1] = g[n + 1] + Rescales(l) /\ h[i] = g[n + 1]
        BY <1>1, <2>2, <3>1
      <4> QED
        BY <1>4, <2>3, <3>1, <4>1
    <3>2. CASE i # n + 1
      <4>1. /\ i \in 1 .. n /\ h[i + 1] = g[i + 1] /\ h[i] = g[i]
        BY <1>1, <2>2, <3>2
      <4> QED
        BY <2>1, <2>3, <4>1 DEF Trail
    <3> QED
      BY <3>1, <3>2
  <2>6. \A i : Rescales(network[i])' = Rescales(network'[i])
    BY <1>2, <1>3, SameUses
  <2>7. Trail(h)'
    BY <2>3, <2>4, <2>5, <2>6 DEF Trail
  <2>8. h[Len(network') + 1] = s[it' - 1]
    BY <1>1, <1>6, <2>3, <2>4
  <2> QED
    BY <1>2, <2>1, <2>4, <2>7, <2>8
<1>11. it' # 1 /\ BuildFailureHasACause'
  BY <1>1, <1>2 DEF BuildFailureHasACause
<1> QED
  BY <1>2, <1>5, <1>8, <1>9, <1>10, <1>11 DEF CountInv

\* Predicting moves along the trail.
LEMMA ForwardCounts ==
    ASSUME LevelPlan, CountInv, Forward
    PROVE  CountInv'
<1>1. /\ model' = model /\ level' = level /\ option' = option
      /\ it' = it /\ network' = network /\ phase = "predict"
      /\ phase' \in {"predict", "predict_failed"}
  BY DEF Forward, queryVars
<1>2. /\ pos \in 1 .. Len(network) /\ it = Len(Layers) + 1
  BY <1>1 DEF Forward, LevelPlan, CountInv
<1>3. /\ SumsOf(Costs)' = SumsOf(Costs) /\ Layers' = Layers
      /\ (\A g : Trail(g)' <=> Trail(g)) /\ (NotSplit' <=> NotSplit)
  BY <1>1, SameCounts DEF SameFlags
<1>4. PICK g : /\ Trail(g)
               /\ g[Len(network) + 1] = SumsOf(Costs)[it - 1]
               /\ ct.level = g[pos]
  BY DEF CountInv
<1>5. ct'.level = g[pos']
  <2>1. CASE phase' = "predict_failed"
    BY <1>4, <2>1 DEF Forward
  <2>2. CASE phase' # "predict_failed"
    <3>1. /\ ct'.level = ct.level + Rescales(network[pos])
          /\ pos' = pos + 1
      BY <2>2 DEF Forward
    <3>2. g[pos + 1] = g[pos] + Rescales(network[pos])
      BY <1>2, <1>4 DEF Trail
    <3> QED
      BY <1>4, <3>1, <3>2
  <2> QED
    BY <2>1, <2>2
<1>6. BuildFailureHasACause'
  BY <1>1 DEF BuildFailureHasACause
<1> QED
  BY <1>1, <1>2, <1>3, <1>4, <1>5, <1>6 DEF CountInv

\* A step of which the counts see no more than the phase.
LEMMA PhaseCounts ==
    ASSUME CountInv, BeginPredict \/ EndPredict \/ UNCHANGED vars, LevelPlan
    PROVE  CountInv'
<1>1. /\ model' = model /\ level' = level /\ option' = option
      /\ it' = it /\ network' = network /\ ct' = ct /\ pos' = pos
  BY DEF BeginPredict, EndPredict, vars, queryVars
<1>2. /\ SumsOf(Costs)' = SumsOf(Costs) /\ Layers' = Layers
      /\ (\A g : Trail(g)' <=> Trail(g)) /\ (NotSplit' <=> NotSplit)
  BY <1>1, SameCounts DEF SameFlags
<1>3. BuildFailureHasACause'
  <2>1. CASE UNCHANGED vars
    BY <1>1, <1>2, <2>1
       DEF CountInv, BuildFailureHasACause, RequiredLevels, vars
  <2>2. CASE BeginPredict \/ EndPredict
    BY <2>2 DEF BeginPredict, EndPredict, BuildFailureHasACause
  <2> QED
    BY <2>1, <2>2
<1>4. phase' \in {"predict", "predict_failed", "done"} => it = Len(Layers) + 1
  <2>1. CASE BeginPredict
    BY <2>1 DEF BeginPredict, LevelPlan
  <2>2. CASE EndPredict \/ UNCHANGED vars
    BY <2>2 DEF EndPredict, vars, CountInv
  <2> QED
    BY <2>1, <2>2
<1>5. phase' = "done" => pos = Len(network) + 1
  <2>1. CASE EndPredict
    BY <2>1 DEF EndPredict, LevelPlan
  <2>2. CASE BeginPredict \/ UNCHANGED vars
    BY <2>2 DEF BeginPredict, vars, CountInv
  <2> QED
    BY <2>1, <2>2
<1> QED
  BY <1>1, <1>2, <1>3, <1>4, <1>5 DEF CountInv

\* The counts of the builder, the objects and the forward pass stand for the
\* model's own, whatever the layers.
LEMMA CountHolds == Spec => []CountInv
<1>1. CountInv /\ LevelPlan /\ [Next]_vars => CountInv'
  <2> SUFFICES ASSUME CountInv, LevelPlan, [Next]_vars PROVE CountInv'
    OBVIOUS
  <2>1. CASE BuildLayer
    BY <2>1, BuildFails, BuildCounts
  <2>2. CASE Forward
    BY <2>2, ForwardCounts
  <2>3. CASE BeginPredict \/ EndPredict \/ UNCHANGED vars
    BY <2>3, PhaseCounts
  <2> QED
    BY <2>1, <2>2, <2>3 DEF Next
<1> QED
  BY <1>1, InitCount, PlanHolds, PTL DEF Spec

\* The depth of a prediction is the model's own less what the optimization
\* level saves, for any layers in any order.
THEOREM DepthIsRequiredHolds == Spec => []DepthIsRequired
<1>1. CountInv /\ LevelPlan => DepthIsRequired
  <2> SUFFICES ASSUME CountInv, LevelPlan, phase = "done"
               PROVE  ct.level = RequiredLevels
    BY DEF DepthIsRequired
  <2>1. it = Len(Layers) + 1 /\ pos = Len(network) + 1
    BY DEF CountInv
  <2>2. Len(Layers) \in Nat
    BY ModelsAssumption DEF LevelPlan, Layers
  <2>3. it - 1 = Len(Layers)
    BY <2>1, <2>2
  <2> QED
    BY <2>1, <2>3 DEF CountInv, RequiredLevels
<1> QED
  BY <1>1, CountHolds, PlanHolds, PTL

\* Only a chain that is too short, an unknown activation or a fused dense
\* layer stops the builder, for any layers in any order.
THEOREM BuildFailureHasACauseHolds == Spec => []BuildFailureHasACause
<1>1. CountInv => BuildFailureHasACause
  BY DEF CountInv
<1> QED
  BY <1>1, CountHolds, PTL

-----------------------------------------------------------------------------
(* A network that could be built throws on a factor of 0 only. *)

\* No object rescales past the builder's count, which a layer with a bias
\* has kept within the chain: a pooling or a square at the end would not.
CompleteInv ==
    SameActivation =>
       /\ \A i \in 1 .. Len(network) :
             network[i].at + Rescales(network[i]) <= option.consumed
       /\ it > 1 /\ Layers[it - 1].class \in Biased =>
             network # <<>> /\ network[Len(network)].class \in Biased
       /\ network # <<>> /\ network[Len(network)].class \in Biased =>
             option.consumed <= level
       /\ phase = "predict_failed" =>
             pos \in 1 .. Len(network) /\ MultipliesByZero(network[pos])

\* The class of the last object is that of the last layer, or of the layer
\* the last one was fused with.
LEMMA BuildCompletes ==
    ASSUME LevelPlan, CompleteInv, BuildLayer,
           ~Throws(Layers[it], Build(Layers[it], option))
    PROVE  CompleteInv'
<1> DEFINE l == Layers[it]
           b == Build(l, option)
           n == Len(network)
<1>1. /\ Layers \in Seq(LayerInfo) /\ option \in OptOptions
      /\ it \in 1 .. Len(Layers) /\ l \in LayerInfo /\ Len(Layers) \in Nat
      /\ network \in Seq(Objects) /\ n \in Nat /\ option.consumed \in Nat
      /\ level \in Nat
  <2>1. /\ Layers \in Seq(LayerInfo) /\ option \in OptOptions
        /\ network \in Seq(Objects) /\ level \in Nat
    BY ModelsAssumption DEF LevelPlan, Layers
  <2>2. it \in 1 .. Len(Layers)
    BY <2>1 DEF LevelPlan, BuildLayer
  <2>3. option.consumed \in Nat
    BY <2>1 DEF OptOptions
  <2> QED
    BY <2>1, <2>2, <2>3
<1>2. /\ model' = model /\ level' = level /\ phase' = "build"
      /\ network' = Append(network, b.object) /\ option' = b.option
      /\ it' = it + (IF Fuses THEN 2 ELSE 1)
  BY DEF BuildLayer, queryVars
<1>3. /\ b.object.class = l.class /\ b.object \in Objects
      /\ b.option \in OptOptions /\ SameFlags(option, b.option)
      /\ l.class \in Biased => 2 \in DOMAIN b.object.plains
                               /\ b.object.plains[2] = b.option.consumed
  BY <1>1, BuildBounds
<1>4. Planned(b, l)
  BY <1>1, BuildFits
<1>5. l.class \in Biased => b.option.consumed <= level
  <2>1. l.class \in Biased => ~(b.object.plains[2] > level)
    BY <1>3 DEF Throws
  <2>2. b.option.consumed \in Nat
    BY <1>3 DEF OptOptions
  <2> HIDE DEF b, l
  <2> QED
    BY <1>1, <1>3, <2>1, <2>2
<1>6. SameActivation' <=> SameActivation
  BY <1>2, <1>3, SameUses
<1>7. \A i : Rescales(network[i])' = Rescales(network'[i])
  BY <1>2, <1>3, SameUses
<1> SUFFICES ASSUME SameActivation
             PROVE  CompleteInv'
  BY <1>6 DEF CompleteInv
<1>8. /\ option'.consumed = b.object.at + Rescales(b.object)
      /\ b.object.at = option.consumed
  BY <1>1, <1>2, <1>4 DEF Planned, SameActivation
<1> HIDE DEF b
<1>9. /\ Len(network') = n + 1 /\ network'[n + 1] = b.object
      /\ \A i \in 1 .. n : network'[i] = network[i]
  BY <1>1, <1>2, <1>3
<1>10. Rescales(b.object) \in Nat
  BY <1>1, <1>3, RescalesType
<1>11. ASSUME NEW i \in 1 .. n + 1
       PROVE  network'[i].at + Rescales(network'[i]) <= option'.consumed
  <2>1. CASE i = n + 1
    <3>1. option'.consumed \in Nat
      BY <1>2, <1>3 DEF OptOptions
    <3> QED
      BY <1>8, <1>9, <2>1, <3>1
  <2>2. CASE i # n + 1
    <3>1. i \in 1 .. n /\ network'[i] = network[i]
      BY <1>1, <1>9, <2>2
    <3>2. /\ network[i].at + Rescales(network[i]) <= option.consumed
          /\ network[i] \in Objects
      BY <1>1, <3>1 DEF CompleteInv
    <3>3. network[i].at \in Nat /\ Rescales(network[i]) \in Nat
      BY <1>1, <3>2, RescalesType DEF Objects
    <3>4. option'.consumed = option.consumed + Rescales(b.object)
      BY <1>8
    <3> QED
      BY <1>1, <1>10, <3>1, <3>2, <3>3, <3>4
  <2> QED
    BY <2>1, <2>2
<1>12. Layers'[it' - 1].class \in Biased => l.class \in Biased
  <2>1. Layers' = Layers
    BY <1>2 DEF Layers
  <2>2. CASE Fuses
    BY <2>2 DEF Fuses, Biased
  <2>3. CASE ~Fuses
    <3>1. it' - 1 = it
      BY <1>1, <1>2, <2>3
    <3> QED
      BY <2>1, <3>1
  <2> QED
    BY <2>2, <2>3
<1>13. network' # <<>> /\ network'[Len(network')].class = l.class
  BY <1>1, <1>3, <1>9
<1> HIDE DEF l
<1> QED
  BY <1>2, <1>5, <1>7, <1>9, <1>11, <1>12, <1>13 DEF CompleteInv

\* What a step without effect on model, option and network leaves alone.
LEMMA SameCompletes ==
    ASSUME CompleteInv, model' = model, level' = level, option' = option,
           it' = it, network' = network,
           SameActivation /\ phase' = "predict_failed" =>
              pos' \in 1 .. Len(network) /\ MultipliesByZero(network[pos'])
    PROVE  CompleteInv'
<1>1. Layers' = Layers /\ SameFlags(option, option')
  BY DEF Layers, SameFlags
<1>2. /\ \A i : Rescales(network[i])' = Rescales(network'[i])
      /\ SameActivation' <=> SameActivation
  BY <1>1, SameUses
<1> QED
  BY <1>1, <1>2 DEF CompleteInv

\* No forward pass meets an operand at another level, or the chain's end: what
\* it rejects is a factor of 0.
LEMMA ForwardCompletes ==
    ASSUME LevelPlan, CountInv, CompleteInv, Forward, EndsBiased(model)
    PROVE  CompleteInv'
<1> DEFINE l == network[pos]
<1>1. /\ model' = model /\ level' = level /\ option' = option
      /\ it' = it /\ network' = network /\ phase = "predict"
  BY DEF Forward, queryVars
<1>2. /\ pos \in 1 .. Len(network) /\ l \in Objects /\ it = Len(Layers) + 1
      /\ Len(Layers) \in Nat /\ level \in Nat /\ option \in OptOptions
  BY <1>1, ModelsAssumption DEF Forward, LevelPlan, CountInv, Layers
<1>3. ASSUME SameActivation, phase' = "predict_failed"
      PROVE  pos' \in 1 .. Len(network) /\ MultipliesByZero(network[pos'])
  <2>1. Fits(l) /\ ct.level = l.at
    BY <1>2, <1>3 DEF LevelPlan, Fits
  <2>2. it > 1 /\ Layers[it - 1].class \in Biased
    <3>1. it # 1
      BY <1>2 DEF CountInv
    <3>2. it - 1 = Len(Layers) /\ Layers # <<>>
      BY <1>2, <3>1
    <3> QED
      BY <1>2, <3>1, <3>2 DEF EndsBiased, Layers
  <2>3. option.consumed <= level
    BY <1>3, <2>2 DEF CompleteInv
  <2>4. l.at + Rescales(l) <= option.consumed
    BY <1>2, <1>3 DEF CompleteInv
  <2>5. l.at \in Nat /\ Rescales(l) \in Nat /\ option.consumed \in Nat
    BY <1>2, RescalesType DEF Objects, OptOptions
  <2>6. l.plains = Uses(l, ct.level)
    BY <2>1 DEF Fits
  <2>7. ~(ct.level + Rescales(l) > level)
    BY <1>2, <2>1, <2>3, <2>4, <2>5
  <2> QED
    BY <1>1, <1>2, <1>3, <2>6, <2>7 DEF Forward
<1> QED
  BY <1>1, <1>3, SameCompletes

\* What the forward pass rejects is a factor of 0, in any model whose last
\* layer has a bias.
LEMMA CompleteHolds ==
    ASSUME \A m \in Models : EndsBiased(m)
    PROVE  Spec => []CompleteInv
<1>1. Init => CompleteInv
  BY DEF Init, CompleteInv
<1>2. CompleteInv /\ LevelPlan /\ CountInv /\ [Next]_vars => CompleteInv'
  <2> SUFFICES ASSUME CompleteInv, LevelPlan, CountInv, [Next]_vars
               PROVE  CompleteInv'
    OBVIOUS
  <2>1. CASE BuildLayer
    <3>1. CASE Throws(Layers[it], Build(Layers[it], option))
      BY <2>1, <3>1, SameCompletes DEF BuildLayer, queryVars
    <3>2. CASE ~Throws(Layers[it], Build(Layers[it], option))
      BY <2>1, <3>2, BuildCompletes
    <3> QED
      BY <3>1, <3>2
  <2>2. CASE Forward
    <3>1. EndsBiased(model)
      BY DEF LevelPlan
    <3> QED
      BY <2>2, <3>1, ForwardCompletes
  <2>3. CASE BeginPredict
    BY <2>3, SameCompletes DEF BeginPredict, queryVars
  <2>4. CASE EndPredict
    BY <2>4, SameCompletes DEF EndPredict, queryVars
  <2>5. CASE UNCHANGED vars
    BY <2>5, SameCompletes DEF vars, CompleteInv
  <2> QED
    BY <2>1, <2>2, <2>3, <2>4, <2>5 DEF Next
<1> QED
  BY <1>1, <1>2, PlanHolds, CountHolds, PTL DEF Spec

\* The name of a model of polynomials selects the coefficient of the
\* polynomial that its activations evaluate.
LEMMA CoefficientIsThePolynomials ==
    ASSUME NEW m \in Models, NamedAfterActivation(m), NEW act,
           NEW i \in DOMAIN m.layers, m.layers[i].class = "Activation",
           m.layers[i].fn # "square", act # "SQUARE",
           Polynomial(m.layers[i].fn, act) # "unregistered"
    PROVE  Polynomial(m.layers[i].fn, act) = HighestDegCoeff(m.name, act)
<1>1. /\ m.name = "CKKS-swish_rg4_deg4" <=> m.layers[i].fn = "swish_rg4_deg4"
      /\ m.name = "CKKS-swish_rg6_deg4" <=> m.layers[i].fn = "swish_rg6_deg4"
  BY DEF NamedAfterActivation, Polynomials
<1> QED
  BY <1>1 DEF Polynomial, HighestDegCoeff

\* What the constructors do to the coefficient of an activation: a layer with
\* weights folds it, an optimized activation leaves it pending, and a pooling
\* alone takes it over as a factor of its own.
LEMMA BuildZeroes ==
    ASSUME NEW l \in LayerInfo, option \in OptOptions
    PROVE  LET b == Build(l, option)
           IN  /\ b.option.coeff = option.coeff
               /\ l.class \in {"Conv2D", "Dense"} /\ option.optAct =>
                     ~b.option.multCoeff
               /\ l.class = "BatchNormalization" =>
                     b.option.multCoeff = option.multCoeff
               /\ l.class = "Activation" /\ option.optAct =>
                     b.option.multCoeff
               /\ MultipliesByZero(b.object) <=>
                     /\ l.class = "AveragePooling2D"
                     /\ ~option.optPool /\ option.optAct /\ option.multCoeff
                     /\ option.coeff = "zero"
<1> DEFINE o == option
           c == o.consumed
<1> SUFFICES ASSUME NEW b, b = Build(l, o)
             PROVE  /\ b.option.coeff = o.coeff
                    /\ l.class \in {"Conv2D", "Dense"} /\ o.optAct =>
                          ~b.option.multCoeff
                    /\ l.class = "BatchNormalization" =>
                          b.option.multCoeff = o.multCoeff
                    /\ l.class = "Activation" /\ o.optAct =>
                          b.option.multCoeff
                    /\ MultipliesByZero(b.object) <=>
                          /\ l.class = "AveragePooling2D"
                          /\ ~o.optPool /\ o.optAct /\ o.multCoeff
                          /\ o.coeff = "zero"
  OBVIOUS
<1>1. CASE l.class \in {"Conv2D", "Dense"}
  <2>1. b = BuildWeighted(l, o)
    BY <1>1 DEF Build, BuildConv2D, BuildConv2DFusedBN, BuildDense
  <2> DEFINE p == [Folded(o) EXCEPT !.consumed = @ + 1]
  <2>2. b.option = p /\ b.object.class = l.class
    BY <2>1 DEF BuildWeighted, Built, Object
  <2>3. p.coeff = o.coeff /\ (o.optAct => ~p.multCoeff)
    BY DEF Folded, OptOptions
  <2> HIDE DEF p
  <2> QED
    BY <1>1, <2>2, <2>3 DEF MultipliesByZero
<1>2. CASE l.class = "BatchNormalization"
  <2> DEFINE p == [o EXCEPT !.consumed = @ + 1]
  <2>1. b.option = p /\ b.object.class = l.class
    BY <1>2 DEF Build, BuildBatchNormalization, Built, Object
  <2>2. p.coeff = o.coeff /\ p.multCoeff = o.multCoeff
    BY DEF OptOptions
  <2> HIDE DEF p
  <2> QED
    BY <1>2, <2>1, <2>2 DEF MultipliesByZero
<1>3. CASE l.class = "AveragePooling2D"
  <2>1. b = BuildAveragePooling2D(l, o)
    BY <1>3 DEF Build
  <2>2. CASE o.optPool
    <3> DEFINE p == [o EXCEPT !.poolArea = l.area, !.multPool = TRUE]
    <3>1. b.option = p /\ b.object.fold = Clean
      BY <2>1, <2>2 DEF BuildAveragePooling2D, Built, Object
    <3>2. p.coeff = o.coeff
      BY DEF OptOptions
    <3>3. Clean.coeffs # <<"zero">>
      BY DEF Clean, Owes
    <3> HIDE DEF p
    <3> QED
      BY <1>3, <2>2, <3>1, <3>2, <3>3 DEF MultipliesByZero
  <2>3. CASE ~o.optPool
    <3> DEFINE p == [o EXCEPT !.consumed = @ + 1,
                              !.multCoeff = @ /\ ~o.optAct]
               coeffs == IF o.optAct /\ o.multCoeff THEN <<o.coeff>> ELSE <<>>
    <3>1. /\ b.option = p /\ b.object.class = l.class
          /\ b.object.fold.coeffs = coeffs
      BY <2>1, <2>3 DEF BuildAveragePooling2D, Built, Object, Owes
    <3>2. p.coeff = o.coeff
      BY DEF OptOptions
    <3>3. coeffs = <<"zero">> <=>
             o.optAct /\ o.multCoeff /\ o.coeff = "zero"
      OBVIOUS
    <3> HIDE DEF p, coeffs
    <3> QED
      BY <1>3, <2>3, <3>1, <3>2, <3>3 DEF MultipliesByZero
  <2> QED
    BY <2>2, <2>3
<1>4. CASE l.class = "GlobalAveragePooling2D"
  <2> DEFINE a == IF o.multPool THEN o.poolArea * l.area ELSE l.area
             p == [o EXCEPT !.multPool = TRUE, !.poolArea = a]
  <2>1. b.option = p /\ b.object.class = l.class
    BY <1>4 DEF Build, BuildGlobalAveragePooling2D, Built, Object
  <2> HIDE DEF a
  <2>2. p.coeff = o.coeff
    BY DEF OptOptions
  <2> HIDE DEF p
  <2> QED
    BY <1>4, <2>1, <2>2 DEF MultipliesByZero
<1>5. CASE l.class = "Flatten"
  <2>1. b.option = o /\ b.object.class = l.class
    BY <1>5 DEF Build, BuildFlatten, Built, Object
  <2> QED
    BY <1>5, <2>1 DEF MultipliesByZero
<1>6. CASE l.class = "Activation"
  <2>1. b = BuildActivation(l, o)
    BY <1>6 DEF Build
  <2> DEFINE q == [o EXCEPT !.multCoeff = @ \/ o.optAct]
             poly == Polynomial(l.fn, o.activation)
  <2>2. /\ b.object.class = l.class
        /\ \E n \in 1 .. 3 : b.option = [q EXCEPT !.consumed = c + n]
    <3>1. CASE poly = "square"
      BY <2>1, <3>1 DEF BuildActivation, Built, Object
    <3>2. CASE poly # "square" /\ o.optAct
      BY <2>1, <3>2 DEF BuildActivation, Built, Object
    <3>3. CASE poly # "square" /\ ~o.optAct
      BY <2>1, <3>3 DEF BuildActivation, Built, Object
    <3> QED
      BY <3>1, <3>2, <3>3
  <2>3. q.coeff = o.coeff /\ (o.optAct => q.multCoeff)
    BY DEF OptOptions
  <2> HIDE DEF q
  <2>4. b.option.coeff = q.coeff /\ b.option.multCoeff = q.multCoeff
    BY <2>2
  <2> QED
    BY <1>6, <2>2, <2>3, <2>4 DEF MultipliesByZero
<1>7. l.class \in Classes
  BY DEF LayerInfo
<1> QED
  BY <1>1, <1>2, <1>3, <1>4, <1>5, <1>6, <1>7 DEF Classes

\* The queries and models for which a factor of 0 has one cause.
Regular == /\ SameActivation
           /\ FoldsInTime(model) /\ NamedAfterActivation(model)

\* A coefficient is pending behind an optimized activation and not behind a
\* layer with a bias.  The objects that multiply by 0 are those of poolings
\* behind a square whose coefficient is 0, and predict has passed none.
ZeroInv ==
    Regular =>
       /\ option.optAct =>
             option.coeff = HighestDegCoeff(model.name, option.activation)
       /\ option.optAct /\ (it = 1 \/ Layers[it - 1].class \in Biased) =>
             ~option.multCoeff
       /\ it > 1 /\ Layers[it - 1].class = "Activation" =>
             /\ option.optAct => option.multCoeff
             /\ Polynomial(Layers[it - 1].fn, option.activation)
                   # "unregistered"
       /\ \A k \in 1 .. Len(network) :
             MultipliesByZero(network[k]) => SquareIsPooled
       /\ \A i \in 2 .. it - 1 :
             PoolsSquare(i) =>
                \E k \in 1 .. Len(network) : MultipliesByZero(network[k])
       /\ \A k \in 1 .. pos - 1 : ~MultipliesByZero(network[k])

\* What depends on the flags, the coefficient and the model only.
LEMMA SameZeroes ==
    ASSUME SameFlags(option, option'), model' = model,
           option'.coeff = option.coeff
    PROVE  /\ Layers' = Layers /\ (Regular' <=> Regular)
           /\ \A i : PoolsSquare(i)' <=> PoolsSquare(i)
           /\ SquareIsPooled' <=> SquareIsPooled
<1>1. Layers' = Layers
  BY DEF Layers
<1>2. ASSUME NEW i
      PROVE  PoolsSquare(i)' <=> PoolsSquare(i)
  BY <1>1 DEF PoolsSquare, SameFlags
<1>3. Regular' <=> Regular
  BY <1>1 DEF Regular, SameActivation, SameFlags
<1> QED
  BY <1>1, <1>2, <1>3 DEF SquareIsPooled

\* The constructor of a pooling takes over a coefficient of 0 exactly behind
\* a square activation.
LEMMA PoolingTakesZero ==
    ASSUME LevelPlan, ZeroInv, Regular, it \in 1 .. Len(Layers)
    PROVE  /\ MultipliesByZero(Build(Layers[it], option).object) =>
                 it \in 2 .. Len(Layers) /\ PoolsSquare(it)
           /\ it > 1 /\ PoolsSquare(it) =>
                 MultipliesByZero(Build(Layers[it], option).object)
<1> DEFINE l == Layers[it]
           b == Build(l, option)
<1>1. /\ Layers \in Seq(LayerInfo) /\ option \in OptOptions
      /\ Layers = model.layers /\ model \in Models
  BY ModelsAssumption DEF LevelPlan, Layers
<1>2. l \in LayerInfo /\ it \in Nat /\ it \in DOMAIN Layers
  BY <1>1
<1>3. MultipliesByZero(b.object) <=>
         /\ l.class = "AveragePooling2D"
         /\ ~option.optPool /\ option.optAct /\ option.multCoeff
         /\ option.coeff = "zero"
  BY <1>1, <1>2, BuildZeroes
<1> HIDE DEF b
<1>4. ASSUME MultipliesByZero(b.object)
      PROVE  it \in 2 .. Len(Layers) /\ PoolsSquare(it)
  <2>1. it = 1 \/ Layers[it - 1].class \in Biased \cup {"Activation"}
    BY <1>1, <1>2, <1>3, <1>4 DEF Regular, FoldsInTime, Follows
  <2>2. it > 1 /\ Layers[it - 1].class = "Activation"
    BY <1>2, <1>3, <1>4, <2>1 DEF ZeroInv
  <2>3. /\ Polynomial(Layers[it - 1].fn, option.activation) # "unregistered"
        /\ option.coeff = HighestDegCoeff(model.name, option.activation)
    BY <1>3, <1>4, <2>2 DEF ZeroInv
  <2>4. it - 1 \in DOMAIN Layers
    BY <1>1, <1>2, <2>2
  <2>5. Layers[it - 1].fn = "square"
    <3> SUFFICES ASSUME Layers[it - 1].fn # "square" PROVE FALSE
      OBVIOUS
    <3>1. option.activation # "SQUARE"
      BY <2>2, <2>4 DEF Regular, SameActivation
    <3>2. Polynomial(Layers[it - 1].fn, option.activation) = "zero"
      BY <1>1, <1>3, <1>4, <2>2, <2>3, <2>4, <3>1, CoefficientIsThePolynomials
         DEF Regular
    <3> QED
      BY <3>1, <3>2 DEF Polynomial
  <2> QED
    BY <1>1, <1>2, <1>3, <1>4, <2>2, <2>5 DEF PoolsSquare
<1>5. ASSUME it > 1, PoolsSquare(it)
      PROVE  MultipliesByZero(b.object)
  BY <1>3, <1>5 DEF ZeroInv, PoolsSquare
<1> QED
  BY <1>4, <1>5 DEF b

\* A new object keeps the account of pending coefficients and factors of 0.
LEMMA BuildKeepsZeroes ==
    ASSUME LevelPlan, ZeroInv, BuildLayer,
           ~Throws(Layers[it], Build(Layers[it], option))
    PROVE  ZeroInv'
<1> DEFINE l == Layers[it]
           b == Build(l, option)
           n == Len(network)
<1>1. /\ Layers \in Seq(LayerInfo) /\ option \in OptOptions
      /\ it \in 1 .. Len(Layers) /\ l \in LayerInfo /\ Len(Layers) \in Nat
      /\ network \in Seq(Objects) /\ n \in Nat /\ pos = 1
      /\ Layers = model.layers
  BY ModelsAssumption DEF LevelPlan, BuildLayer, Layers
<1>2. /\ model' = model /\ pos' = pos
      /\ network' = Append(network, b.object) /\ option' = b.option
      /\ it' = it + (IF Fuses THEN 2 ELSE 1)
  BY DEF BuildLayer, queryVars
<1>3. b.object \in Objects /\ SameFlags(option, b.option)
  BY <1>1, BuildBounds
<1>4. /\ b.option.coeff = option.coeff
      /\ l.class \in {"Conv2D", "Dense"} /\ option.optAct =>
            ~b.option.multCoeff
      /\ l.class = "BatchNormalization" =>
            b.option.multCoeff = option.multCoeff
      /\ l.class = "Activation" /\ option.optAct => b.option.multCoeff
  BY <1>1, BuildZeroes
<1>5. /\ Layers' = Layers /\ (Regular' <=> Regular)
      /\ \A i : PoolsSquare(i)' <=> PoolsSquare(i)
      /\ SquareIsPooled' <=> SquareIsPooled
  BY <1>2, <1>3, <1>4, SameZeroes
<1> SUFFICES ASSUME Regular
             PROVE  ZeroInv'
  BY <1>5 DEF ZeroInv
<1>6. /\ MultipliesByZero(b.object) => it \in 2 .. Len(Layers) /\ PoolsSquare(it)
      /\ it > 1 /\ PoolsSquare(it) => MultipliesByZero(b.object)
  BY <1>1, PoolingTakesZero
<1>7. l.class = "Activation" =>
         Polynomial(l.fn, option.activation) # "unregistered"
  BY DEF Throws
<1> HIDE DEF b
<1>8. /\ Len(network') = n + 1 /\ network'[n + 1] = b.object
      /\ \A i \in 1 .. n : network'[i] = network[i]
  BY <1>1, <1>2, <1>3
<1>9. /\ it' > 1
      /\ Fuses => it' - 1 = it + 1 /\ l.class \in {"Conv2D", "Dense"}
                  /\ Layers[it' - 1].class = "BatchNormalization"
      /\ ~Fuses => it' - 1 = it
  BY <1>1, <1>2 DEF Fuses
<1>10. option.optAct /\ Layers[it' - 1].class \in Biased =>
          ~b.option.multCoeff
  <2>1. CASE Fuses
    BY <1>4, <1>9, <2>1
  <2>2. CASE ~Fuses /\ l.class = "BatchNormalization"
    <3>1. it = 1 \/ Layers[it - 1].class \in Biased
      BY <1>1, <2>2 DEF Regular, FoldsInTime, Follows
    <3> QED
      BY <1>4, <2>2, <3>1 DEF ZeroInv
  <2>3. CASE ~Fuses /\ l.class # "BatchNormalization"
    BY <1>4, <1>9, <2>3 DEF Biased
  <2> QED
    BY <2>1, <2>2, <2>3
<1>11. Layers[it' - 1].class = "Activation" =>
          /\ option.optAct => b.option.multCoeff
          /\ Polynomial(Layers[it' - 1].fn, option.activation)
                # "unregistered"
  BY <1>4, <1>7, <1>9
<1>12. ASSUME NEW k \in 1 .. n + 1, MultipliesByZero(network'[k])
       PROVE  SquareIsPooled
  <2>1. CASE k = n + 1
    BY <1>6, <1>8, <1>12, <2>1 DEF SquareIsPooled
  <2>2. CASE k # n + 1
    <3>1. k \in 1 .. n
      BY <1>1, <2>2
    <3> QED
      BY <1>8, <1>12, <3>1 DEF ZeroInv
  <2> QED
    BY <2>1, <2>2
<1>13. ASSUME NEW i \in 2 .. it' - 1, PoolsSquare(i)
       PROVE  \E k \in 1 .. n + 1 : MultipliesByZero(network'[k])
  <2>1. n + 1 \in 1 .. n + 1
    BY <1>1
  <2>2. CASE i = it
    BY <1>1, <1>6, <1>8, <1>13, <2>1, <2>2
  <2>3. CASE i = it + 1
    <3>1. Fuses /\ i = it' - 1
      BY <1>1, <1>9, <1>13, <2>3
    <3> QED
      BY <1>9, <1>13, <3>1 DEF PoolsSquare
  <2>4. CASE i \notin {it, it + 1}
    <3>1. i \in 2 .. it - 1
      BY <1>1, <1>9, <1>13, <2>4
    <3>2. PICK k \in 1 .. n : MultipliesByZero(network[k])
      BY <1>13, <3>1 DEF ZeroInv
    <3> QED
      BY <1>1, <1>8, <3>2
  <2> QED
    BY <2>2, <2>3, <2>4
<1>14. /\ it' # 1
       /\ option'.optAct = option.optAct
       /\ option'.activation = option.activation
       /\ option'.multCoeff = b.option.multCoeff
       /\ option'.coeff = option.coeff
       /\ option.optAct =>
             option.coeff = HighestDegCoeff(model.name, option.activation)
  BY <1>2, <1>3, <1>4, <1>9 DEF SameFlags, ZeroInv
<1>15. \A k \in 1 .. pos' - 1 : FALSE
  BY <1>1, <1>2
<1> HIDE DEF l
<1> QED
  BY <1>2, <1>5, <1>8, <1>10, <1>11, <1>12, <1>13, <1>14, <1>15 DEF ZeroInv

\* A step that builds nothing keeps the account; predict passes no factor of 0.
LEMMA RestOfZeroes ==
    ASSUME ZeroInv, model' = model, option' = option, it' = it,
           network' = network,
           (\A k \in 1 .. pos - 1 : ~MultipliesByZero(network[k])) =>
              \A k \in 1 .. pos' - 1 : ~MultipliesByZero(network[k])
    PROVE  ZeroInv'
<1>1. SameFlags(option, option') /\ option'.coeff = option.coeff
  BY DEF SameFlags
<1>2. /\ Layers' = Layers /\ (Regular' <=> Regular)
      /\ \A i : PoolsSquare(i)' <=> PoolsSquare(i)
      /\ SquareIsPooled' <=> SquareIsPooled
  BY <1>1, SameZeroes
<1> SUFFICES ASSUME Regular
             PROVE  ZeroInv'
  BY <1>2 DEF ZeroInv
<1> QED
  BY <1>2 DEF ZeroInv

\* Predict stops at a factor of 0.
LEMMA ForwardKeepsZeroes ==
    ASSUME LevelPlan, ZeroInv, Forward
    PROVE  ZeroInv'
<1>1. /\ model' = model /\ option' = option /\ it' = it
      /\ network' = network /\ pos \in 1 .. Len(network)
  BY DEF Forward, queryVars, LevelPlan
<1>2. \/ pos' = pos
      \/ pos' = pos + 1 /\ ~MultipliesByZero(network[pos])
  BY DEF Forward
<1>3. ASSUME \A k \in 1 .. pos - 1 : ~MultipliesByZero(network[k]),
             NEW k \in 1 .. pos' - 1
      PROVE  ~MultipliesByZero(network[k])
  BY <1>1, <1>2, <1>3
<1> QED
  BY <1>1, <1>3, RestOfZeroes

\* The factors of 0 are those of poolings behind a square, whatever else the
\* network consists of.
LEMMA ZeroHolds == Spec => []ZeroInv
<1>1. Init => ZeroInv
  <2> SUFFICES ASSUME Init PROVE ZeroInv
    OBVIOUS
  <2>1. PICK opt_level \in OptLevels, act \in Activations :
           option = NewOption(model.name, opt_level, act)
    BY DEF Init
  <2>2. /\ ~option.multCoeff
        /\ option.optAct =>
              option.coeff = HighestDegCoeff(model.name, option.activation)
    BY <2>1 DEF NewOption
  <2>3. network = <<>> /\ pos = 1 /\ it = 1
    BY DEF Init
  <2> QED
    BY <2>2, <2>3 DEF ZeroInv
<1>2. ZeroInv /\ LevelPlan /\ [Next]_vars => ZeroInv'
  <2> SUFFICES ASSUME ZeroInv, LevelPlan, [Next]_vars PROVE ZeroInv'
    OBVIOUS
  <2>1. CASE BuildLayer
    <3>1. CASE Throws(Layers[it], Build(Layers[it], option))
      BY <2>1, <3>1, RestOfZeroes DEF BuildLayer, queryVars
    <3>2. CASE ~Throws(Layers[it], Build(Layers[it], option))
      BY <2>1, <3>2, BuildKeepsZeroes
    <3> QED
      BY <3>1, <3>2
  <2>2. CASE Forward
    BY <2>2, ForwardKeepsZeroes
  <2>3. CASE BeginPredict
    BY <2>3, RestOfZeroes DEF BeginPredict, queryVars
  <2>4. CASE EndPredict
    BY <2>4, RestOfZeroes DEF EndPredict, queryVars
  <2>5. CASE UNCHANGED vars
    BY <2>5, RestOfZeroes DEF vars
  <2> QED
    BY <2>1, <2>2, <2>3, <2>4, <2>5 DEF Next
<1> QED
  BY <1>1, <1>2, PlanHolds, PTL DEF Spec

\* For models built like the trained ones, a network that could be built
\* throws while it predicts exactly where a pooling takes over the coefficient
\* 0.0 of a square activation, for any number of layers, optimization,
\* activation and modulus chain.
THEOREM ThrowsOnlyOnZeroHolds ==
    ASSUME \A m \in Models :
              EndsBiased(m) /\ FoldsInTime(m) /\ NamedAfterActivation(m)
    PROVE  Spec => []ThrowsOnlyOnZero
<1>1. LevelPlan /\ CountInv /\ CompleteInv /\ ZeroInv => ThrowsOnlyOnZero
  <2> SUFFICES ASSUME LevelPlan, CountInv, CompleteInv, ZeroInv, SameActivation
               PROVE  /\ phase = "predict_failed" => SquareIsPooled
                      /\ phase = "done" => ~SquareIsPooled
    BY DEF ThrowsOnlyOnZero
  <2>1. Regular
    BY DEF Regular, LevelPlan
  <2>2. ASSUME phase = "predict_failed"
        PROVE  SquareIsPooled
    <3>1. pos \in 1 .. Len(network) /\ MultipliesByZero(network[pos])
      BY <2>2 DEF CompleteInv
    <3> QED
      BY <2>1, <3>1 DEF ZeroInv
  <2>3. ASSUME phase = "done", SquareIsPooled
        PROVE  FALSE
    <3>1. /\ it = Len(Layers) + 1 /\ pos = Len(network) + 1
          /\ Len(Layers) \in Nat /\ Len(network) \in Nat
      BY <2>3, ModelsAssumption DEF CountInv, LevelPlan, Layers
    <3>2. PICK i \in 2 .. it - 1 : PoolsSquare(i)
      BY <2>3, <3>1 DEF SquareIsPooled
    <3>3. PICK k \in 1 .. Len(network) : MultipliesByZero(network[k])
      BY <2>1, <3>2 DEF ZeroInv
    <3>4. k \in 1 .. pos - 1
      BY <3>1, <3>3
    <3> QED
      BY <2>1, <3>3, <3>4 DEF ZeroInv
  <2> QED
    BY <2>2, <2>3
<1>2. \A m \in Models : EndsBiased(m)
  OBVIOUS
<1>3. Spec => []CompleteInv
  BY <1>2, CompleteHolds
<1> QED
  BY <1>1, <1>3, PlanHolds, CountHolds, ZeroHolds, PTL

-----------------------------------------------------------------------------
(* What an optimization leaves out of a layer is folded into a later one. *)

\* What the builder has left out and not folded yet.
Pending(o) == Owes(IF o.multCoeff THEN <<o.coeff>> ELSE <<>>,
                   IF o.multPool THEN o.poolArea ELSE 1)

\* Factors are pending only under the optimization that leaves them out.
Justified(o) == /\ o.multCoeff => o.optAct
                /\ o.multPool => o.optPool

Nothing(o) == ~o.multCoeff /\ ~o.multPool

\* The object's forward turns what was pending before its constructor into
\* what is pending after it.
Hands(b, l, o) ==
    /\ Leaves(b.object, Pending(o)) = Pending(b.option)
    /\ Justified(b.option) /\ b.option.coeff = o.coeff
    /\ l.class \in Biased => Nothing(b.option)
    /\ l.class = "Activation" => ~b.option.multPool

\* A layer with a bias folds all that is pending,
LEMMA WeightedHands ==
    ASSUME NEW l \in LayerInfo, l.class \in {"Conv2D", "Dense"},
           option \in OptOptions, Justified(option)
    PROVE  Hands(BuildWeighted(l, option), l, option)
<1> DEFINE o == option
           p == [Folded(o) EXCEPT !.consumed = @ + 1]
           b == BuildWeighted(l, o)
<1>1. b.object.class = l.class /\ b.object.fold = Folding(o) /\ b.option = p
  BY DEF BuildWeighted, Built, Object
<1>2. Folding(o) = Pending(o)
  BY DEF Folding, Pending, Justified, OptOptions
<1>3. ~p.multCoeff /\ ~p.multPool /\ p.coeff = o.coeff
  BY DEF Folded, Justified, OptOptions
<1> HIDE DEF b, p
<1>4. Pending(p) = Clean
  BY <1>3 DEF Pending, Clean
<1>5. Leaves(b.object, Pending(o)) = Clean
  BY <1>1, <1>2 DEF Leaves, Settle
<1> QED
  BY <1>1, <1>3, <1>4, <1>5 DEF Hands, Justified, Nothing, b

\* unless it is a batch normalization of its own: nothing may be pending.
LEMMA NormalizationHands ==
    ASSUME NEW l \in LayerInfo, l.class = "BatchNormalization",
           option \in OptOptions, Nothing(option)
    PROVE  Hands(BuildBatchNormalization(l, option), l, option)
<1> DEFINE o == option
           p == [o EXCEPT !.consumed = @ + 1]
           b == BuildBatchNormalization(l, o)
<1>1. b.object.class = l.class /\ b.object.fold = Clean /\ b.option = p
  BY DEF BuildBatchNormalization, Built, Object
<1>2. ~p.multCoeff /\ ~p.multPool /\ p.coeff = o.coeff
  BY DEF Nothing, OptOptions
<1> HIDE DEF b, p
<1>3. Pending(p) = Clean /\ Pending(o) = Clean
  BY <1>2 DEF Pending, Clean, Nothing
<1>4. Leaves(b.object, Pending(o)) = Clean
  BY <1>1, <1>3 DEF Leaves, Settle
<1> QED
  BY <1>1, <1>2, <1>3, <1>4 DEF Hands, Justified, Nothing, b

\* A pooling that divides pays what an activation left, and one that does
\* not leaves the number of its inputs.
LEMMA PoolingHands ==
    ASSUME NEW l \in LayerInfo, l.class = "AveragePooling2D",
           option \in OptOptions, Justified(option), ~option.multPool
    PROVE  Hands(BuildAveragePooling2D(l, option), l, option)
<1> DEFINE o == option
           b == BuildAveragePooling2D(l, o)
           coeffs == IF o.multCoeff THEN <<o.coeff>> ELSE <<>>
<1>1. l.area \in Nat \ {0} /\ 1 * l.area = l.area
  BY DEF LayerInfo
<1>2. Pending(o) = Owes(coeffs, 1)
  BY DEF Pending
<1>3. CASE o.optPool
  <2> DEFINE p == [o EXCEPT !.poolArea = l.area, !.multPool = TRUE]
  <2>1. /\ b.object.class = l.class /\ b.object.area = l.area
        /\ b.option = p
    BY <1>3 DEF BuildAveragePooling2D, Built, Object
  <2>2. /\ p.multCoeff = o.multCoeff /\ p.multPool /\ p.coeff = o.coeff
        /\ p.poolArea = l.area /\ p.optAct = o.optAct /\ p.optPool = o.optPool
    BY DEF OptOptions
  <2> HIDE DEF b, p
  <2>3. Pending(p) = Owes(coeffs, l.area)
    BY <2>2 DEF Pending
  <2>4. Leaves(b.object, Pending(o)) = Owes(coeffs, l.area)
    BY <1>1, <1>2, <1>3, <2>1 DEF Leaves, Owes
  <2> QED
    BY <1>3, <2>1, <2>2, <2>3, <2>4 DEF Hands, Justified, Biased, b
<1>4. CASE ~o.optPool
  <2> DEFINE p == [o EXCEPT !.consumed = @ + 1,
                            !.multCoeff = @ /\ ~o.optAct]
  <2>1. /\ b.object.class = l.class /\ b.object.area = l.area
        /\ b.object.fold = Owes(coeffs, l.area) /\ b.option = p
    BY <1>4 DEF BuildAveragePooling2D, Built, Object, Justified, OptOptions
  <2>2. ~p.multCoeff /\ ~p.multPool /\ p.coeff = o.coeff
    BY DEF Justified, OptOptions
  <2> HIDE DEF b, p
  <2>3. Pending(p) = Clean
    BY <2>2 DEF Pending, Clean
  <2>4. l.area % l.area = 0 /\ l.area \div l.area = 1
    BY <1>1
  <2>5. Pay(Owes(coeffs, l.area), Owes(coeffs, l.area)) = Clean
    BY <2>4 DEF Pay, Owes, Clean
  <2>6. Leaves(b.object, Pending(o)) = Clean
    BY <1>1, <1>2, <1>4, <2>1, <2>5 DEF Leaves, Owes
  <2> QED
    BY <2>1, <2>2, <2>3, <2>6 DEF Hands, Justified, Biased, b
<1> QED
  BY <1>3, <1>4

\* A global pooling multiplies the number of its inputs to what is pending,
\* and flattening hands it on.
LEMMA ReshapingHands ==
    ASSUME NEW l \in LayerInfo, option \in OptOptions, Justified(option)
    PROVE  /\ l.class = "GlobalAveragePooling2D" /\ option.optPool =>
                 Hands(BuildGlobalAveragePooling2D(l, option), l, option)
           /\ l.class = "Flatten" =>
                 Hands(BuildFlatten(l, option), l, option)
<1> DEFINE o == option
<1>1. CASE l.class = "GlobalAveragePooling2D" /\ o.optPool
  <2> DEFINE b == BuildGlobalAveragePooling2D(l, o)
             a == IF o.multPool THEN o.poolArea * l.area ELSE l.area
             p == [o EXCEPT !.multPool = TRUE, !.poolArea = a]
             coeffs == IF o.multCoeff THEN <<o.coeff>> ELSE <<>>
             area == IF o.multPool THEN o.poolArea ELSE 1
  <2>1. /\ b.object.class = l.class /\ b.object.area = l.area
        /\ b.option = p
    BY DEF BuildGlobalAveragePooling2D, Built, Object
  <2>2. area * l.area = a
    BY DEF LayerInfo
  <2> HIDE DEF a
  <2>3. /\ p.multCoeff = o.multCoeff /\ p.multPool /\ p.coeff = o.coeff
        /\ p.poolArea = a /\ p.optAct = o.optAct /\ p.optPool = o.optPool
    BY DEF OptOptions
  <2>4. Pending(o) = Owes(coeffs, area)
    BY DEF Pending
  <2> HIDE DEF b, p, coeffs, area
  <2>5. Leaves(b.object, Pending(o)) = Owes(coeffs, a)
    BY <1>1, <2>1, <2>2, <2>4 DEF Leaves, Owes
  <2>6. Pending(p) = Owes(coeffs, a)
    BY <2>3 DEF Pending, coeffs
  <2> QED
    BY <1>1, <2>1, <2>3, <2>5, <2>6 DEF Hands, Justified, Biased, b
<1>2. CASE l.class = "Flatten"
  BY <1>2 DEF Hands, BuildFlatten, Built, Object, Leaves, Biased
<1> QED
  BY <1>1, <1>2

\* An optimized polynomial leaves out the coefficient that OptOption holds.
LEMMA ActivationHands ==
    ASSUME NEW l \in LayerInfo, l.class = "Activation",
           option \in OptOptions, Nothing(option),
           option.activation = "SQUARE" => l.fn = "square",
           l.fn = "square" => ~option.optAct,
           l.fn # "square" /\ option.optAct =>
              Polynomial(l.fn, option.activation) = option.coeff
    PROVE  Hands(BuildActivation(l, option), l, option)
<1> DEFINE o == option
           b == BuildActivation(l, o)
           poly == Polynomial(l.fn, o.activation)
           c == o.consumed
           q == [o EXCEPT !.multCoeff = @ \/ o.optAct]
<1>1. /\ b.object.class = l.class /\ b.object.fn = l.fn
      /\ \E n \in 1 .. 3 : b.option = [q EXCEPT !.consumed = c + n]
  <2>1. CASE poly = "square"
    BY <2>1 DEF BuildActivation, Built, Object
  <2>2. CASE poly # "square" /\ o.optAct
    BY <2>2 DEF BuildActivation, Built, Object
  <2>3. CASE poly # "square" /\ ~o.optAct
    BY <2>3 DEF BuildActivation, Built, Object
  <2> QED
    BY <2>1, <2>2, <2>3
<1>2. /\ b.option.multCoeff = o.optAct /\ ~b.option.multPool
      /\ b.option.coeff = o.coeff /\ b.option.optAct = o.optAct
      /\ b.option.optPool = o.optPool
  <2>1. /\ q.multCoeff = o.optAct /\ q.multPool = FALSE /\ q.coeff = o.coeff
        /\ q.optAct = o.optAct /\ q.optPool = o.optPool
    BY DEF Nothing, OptOptions
  <2>2. PICK n \in 1 .. 3 : b.option = [q EXCEPT !.consumed = c + n]
    BY <1>1
  <2> HIDE DEF b, q
  <2> QED
    BY <2>1, <2>2
<1> HIDE DEF b
<1>3. Pending(o) = Clean
  BY DEF Pending, Nothing, Clean
<1>4. Pending(b.option) = IF o.optAct THEN Owes(<<o.coeff>>, 1) ELSE Clean
  BY <1>2 DEF Pending, Clean
<1>5. Leaves(b.object, Clean) =
         IF l.fn # "square" /\ o.optAct THEN Owes(<<poly>>, 1) ELSE Clean
  BY <1>1 DEF Leaves, Settle, Evaluates
<1> QED
  BY <1>1, <1>2, <1>3, <1>4, <1>5 DEF Hands, Justified, Biased, b

\* The queries and models for which the result is exact.
Exact == /\ SameActivation /\ FoldsSafely
         /\ FoldsInTime(model) /\ NamedAfterActivation(model)

\* A debt of each layer's input: none at first, and then what the layer
\* leaves.
Debts(d) ==
    /\ d[1] = Clean
    /\ \A i \in 1 .. Len(network) : d[i + 1] = Leaves(network[i], d[i])

\* The builder has pending what the ciphertext will owe, and nothing after a
\* layer with a bias.
DebtInv ==
    Exact =>
       /\ Justified(option)
       /\ option.optAct =>
             option.coeff = HighestDegCoeff(model.name, option.activation)
       /\ it = 1 \/ Layers[it - 1].class \in Biased => Nothing(option)
       /\ it > 1 /\ Layers[it - 1].class = "Activation" => ~option.multPool
       /\ \E d : /\ Debts(d) /\ d[Len(network) + 1] = Pending(option)
                 /\ ct.debt = d[pos]

\* What depends on the flags and the model only.
LEMMA SameDebts ==
    ASSUME SameFlags(option, option'), model' = model
    PROVE  /\ Exact' <=> Exact
           /\ \A d : \A i : Leaves(network[i], d)' = Leaves(network'[i], d)
           /\ network' = network => \A d : Debts(d)' <=> Debts(d)
<1>1. Layers' = Layers
  BY DEF Layers
<1>2. Exact' <=> Exact
  BY <1>1 DEF Exact, SameActivation, FoldsSafely, HasLayer, SameFlags
<1>3. ASSUME NEW d, NEW i
      PROVE  Leaves(network[i], d)' = Leaves(network'[i], d)
  BY DEF Leaves, Evaluates, SameFlags
<1>4. ASSUME network' = network, NEW d
      PROVE  Debts(d)' <=> Debts(d)
  <2>1. \A i : Leaves(network[i], d[i])' = Leaves(network[i], d[i])
    BY <1>3, <1>4
  <2> QED
    BY <1>4, <2>1 DEF Debts
<1> QED
  BY <1>2, <1>3, <1>4

\* The layer before tells what is pending, so the builder hands it on.
LEMMA BuildHands ==
    ASSUME LevelPlan, DebtInv, Exact, it \in 1 .. Len(Layers),
           ~Throws(Layers[it], Build(Layers[it], option))
    PROVE  Hands(Build(Layers[it], option), Layers[it], option)
<1> DEFINE l == Layers[it]
           b == Build(l, option)
<1>1. /\ Layers \in Seq(LayerInfo) /\ option \in OptOptions
      /\ Layers = model.layers /\ model \in Models
  BY ModelsAssumption DEF LevelPlan, Layers
<1>2. l \in LayerInfo /\ it \in Nat /\ it \in DOMAIN Layers
  BY <1>1
<1>3. l.class \in Classes
  BY <1>2 DEF LayerInfo
<1>4. /\ Justified(option)
      /\ option.optAct =>
            option.coeff = HighestDegCoeff(model.name, option.activation)
      /\ it = 1 \/ Layers[it - 1].class \in Biased => Nothing(option)
      /\ it > 1 /\ Layers[it - 1].class = "Activation" => ~option.multPool
  BY DEF DebtInv
<1>5. /\ l.class \in {"BatchNormalization", "Activation"} =>
            it = 1 \/ Layers[it - 1].class \in Biased
      /\ l.class = "AveragePooling2D" =>
            it = 1 \/ Layers[it - 1].class \in Biased \cup {"Activation"}
  BY <1>1, <1>2 DEF Exact, FoldsInTime, Follows
<1>6. CASE l.class \in {"Conv2D", "Dense"}
  <2>1. b = BuildWeighted(l, option)
    BY <1>6 DEF Build, BuildConv2D, BuildConv2DFusedBN, BuildDense
  <2> QED
    BY <1>1, <1>2, <1>4, <1>6, <2>1, WeightedHands
<1>7. CASE l.class = "BatchNormalization"
  <2>1. b = BuildBatchNormalization(l, option)
    BY <1>7 DEF Build
  <2> QED
    BY <1>1, <1>2, <1>4, <1>5, <1>7, <2>1, NormalizationHands
<1>8. CASE l.class = "AveragePooling2D"
  <2>1. b = BuildAveragePooling2D(l, option)
    BY <1>8 DEF Build
  <2>2. ~option.multPool
    BY <1>2, <1>4, <1>5, <1>8 DEF Nothing
  <2> QED
    BY <1>1, <1>2, <1>4, <1>8, <2>1, <2>2, PoolingHands
<1>9. CASE l.class = "GlobalAveragePooling2D"
  <2>1. b = BuildGlobalAveragePooling2D(l, option)
    BY <1>9 DEF Build
  <2>2. option.optPool
    BY <1>2, <1>9 DEF Exact, FoldsSafely, HasLayer
  <2> QED
    BY <1>1, <1>2, <1>4, <1>9, <2>1, <2>2, ReshapingHands
<1>10. CASE l.class = "Flatten"
  <2>1. b = BuildFlatten(l, option)
    BY <1>10 DEF Build
  <2> QED
    BY <1>1, <1>2, <1>4, <1>10, <2>1, ReshapingHands
<1>11. CASE l.class = "Activation"
  <2>1. b = BuildActivation(l, option)
    BY <1>11 DEF Build
  <2>2. option.activation = "SQUARE" => l.fn = "square"
    BY <1>2, <1>11 DEF Exact, SameActivation
  <2>3. l.fn = "square" => ~option.optAct
    BY <1>2 DEF Exact, FoldsSafely
  <2>4. Polynomial(l.fn, option.activation) # "unregistered"
    BY <1>11 DEF Throws
  <2>5. l.fn # "square" /\ option.optAct =>
           Polynomial(l.fn, option.activation) = option.coeff
    BY <1>1, <1>2, <1>4, <1>11, <2>2, <2>4, CoefficientIsThePolynomials
       DEF Exact
  <2> QED
    BY <1>1, <1>2, <1>4, <1>5, <1>11, <2>1, <2>2, <2>3, <2>5, ActivationHands
<1> QED
  BY <1>3, <1>6, <1>7, <1>8, <1>9, <1>10, <1>11 DEF Classes

\* Nothing is pending at first.
LEMMA InitDebts == Init => DebtInv
<1> SUFFICES ASSUME Init PROVE DebtInv
  OBVIOUS
<1>1. PICK opt_level \in OptLevels, act \in Activations :
         option = NewOption(model.name, opt_level, act)
  BY DEF Init
<1>2. /\ ~option.multCoeff /\ ~option.multPool /\ option.activation = act
      /\ option.optAct =>
            option.coeff = HighestDegCoeff(model.name, option.activation)
  BY <1>1 DEF NewOption
<1>3. /\ network = <<>> /\ ct.debt = Clean /\ pos = 1 /\ it = 1
  BY DEF Init
<1>4. Pending(option) = Clean
  BY <1>2 DEF Pending, Clean
<1>5. \E d : /\ Debts(d) /\ d[Len(network) + 1] = Pending(option)
             /\ ct.debt = d[pos]
  <2> DEFINE d == [i \in {1} |-> Clean]
  <2>1. Debts(d) /\ d[1] = Clean
    BY <1>3 DEF Debts
  <2> QED
    BY <1>3, <1>4, <2>1
<1> QED
  BY <1>2, <1>3, <1>5 DEF DebtInv, Justified, Nothing

\* A new object takes over what was pending.
LEMMA BuildDebts ==
    ASSUME LevelPlan, DebtInv, BuildLayer,
           ~Throws(Layers[it], Build(Layers[it], option))
    PROVE  DebtInv'
<1> DEFINE l == Layers[it]
           b == Build(l, option)
           n == Len(network)
<1>1. /\ Layers \in Seq(LayerInfo) /\ option \in OptOptions
      /\ it \in 1 .. Len(Layers) /\ l \in LayerInfo /\ Len(Layers) \in Nat
      /\ network \in Seq(Objects) /\ n \in Nat /\ pos = 1
  BY ModelsAssumption DEF LevelPlan, BuildLayer, Layers
<1>2. /\ model' = model /\ ct' = ct /\ pos' = pos /\ Layers' = Layers
      /\ network' = Append(network, b.object) /\ option' = b.option
      /\ it' = it + (IF Fuses THEN 2 ELSE 1)
  BY DEF BuildLayer, queryVars, Layers
<1>3. b.object \in Objects /\ SameFlags(option, b.option)
  BY <1>1, BuildBounds
<1>4. /\ Exact' <=> Exact
      /\ \A d : \A i : Leaves(network[i], d)' = Leaves(network'[i], d)
  BY <1>2, <1>3, SameDebts
<1> SUFFICES ASSUME Exact
             PROVE  DebtInv'
  BY <1>4 DEF DebtInv
<1>5. Hands(b, l, option)
  BY <1>1, BuildHands
<1> HIDE DEF b
<1>6. /\ Len(network') = n + 1 /\ network'[n + 1] = b.object
      /\ \A i \in 1 .. n : network'[i] = network[i]
  BY <1>1, <1>2, <1>3
<1>7. /\ it' > 1
      /\ Layers[it' - 1].class \in Biased => l.class \in Biased
      /\ Layers[it' - 1].class = "Activation" => l.class = "Activation"
  <2>1. CASE Fuses
    <3>1. it' - 1 = it + 1 /\ it' > 1
      BY <1>1, <1>2, <2>1
    <3> QED
      BY <2>1, <3>1 DEF Fuses, Biased
  <2>2. CASE ~Fuses
    <3>1. it' - 1 = it /\ it' > 1
      BY <1>1, <1>2, <2>2
    <3> QED
      BY <3>1
  <2> QED
    BY <2>1, <2>2
<1>8. \E d : /\ Debts(d)' /\ d[Len(network') + 1] = Pending(b.option)
             /\ ct'.debt = d[pos']
  <2>1. PICK e : /\ Debts(e) /\ e[n + 1] = Pending(option)
                 /\ ct.debt = e[pos]
    BY DEF DebtInv
  <2>2. PICK d : d = [i \in 1 .. n + 2 |-> IF i = n + 2
                                          THEN Pending(b.option) ELSE e[i]]
    OBVIOUS
  <2>3. d[1] = Clean /\ d[n + 2] = Pending(b.option) /\ d[pos] = e[pos]
    BY <1>1, <2>1, <2>2 DEF Debts
  <2>4. ASSUME NEW i \in 1 .. n + 1
        PROVE  d[i + 1] = Leaves(network'[i], d[i])
    <3>1. CASE i = n + 1
      <4>1. d[i + 1] = Pending(b.option) /\ d[i] = Pending(option)
        BY <1>1, <2>1, <2>2, <3>1
      <4>2. Leaves(b.object, Pending(option)) = Pending(b.option)
        BY <1>5 DEF Hands
      <4> QED
        BY <1>6, <3>1, <4>1, <4>2
    <3>2. CASE i # n + 1
      <4>1. i \in 1 .. n /\ d[i + 1] = e[i + 1] /\ d[i] = e[i]
        BY <1>1, <2>2, <3>2
      <4> QED
        BY <1>6, <2>1, <4>1 DEF Debts
    <3> QED
      BY <3>1, <3>2
  <2>5. Debts(d)'
    BY <1>4, <1>6, <2>3, <2>4 DEF Debts
  <2>6. d[Len(network') + 1] = Pending(b.option)
    BY <1>1, <1>6, <2>3
  <2> QED
    BY <1>2, <2>1, <2>3, <2>5, <2>6
<1>9. /\ Justified(b.option)
      /\ b.option.optAct =>
            b.option.coeff = HighestDegCoeff(model.name, b.option.activation)
  BY <1>3, <1>5 DEF Hands, DebtInv, SameFlags
<1>10. /\ l.class \in Biased => Nothing(b.option)
       /\ l.class = "Activation" => ~b.option.multPool
  BY <1>5 DEF Hands
<1>11. it' # 1
  BY <1>1, <1>2
<1> HIDE DEF l
<1> QED
  BY <1>2, <1>7, <1>8, <1>9, <1>10, <1>11
     DEF DebtInv, Justified, Nothing, Pending

\* A step that builds nothing keeps what is pending; the ciphertext moves
\* along the debts.
LEMMA RestOfDebts ==
    ASSUME DebtInv, model' = model, option' = option, it' = it,
           network' = network,
           \A d : Debts(d) /\ ct.debt = d[pos] => ct'.debt = d[pos']
    PROVE  DebtInv'
<1>1. Layers' = Layers /\ SameFlags(option, option')
  BY DEF Layers, SameFlags
<1>2. /\ Exact' <=> Exact
      /\ \A d : Debts(d)' <=> Debts(d)
  BY <1>1, SameDebts
<1> SUFFICES ASSUME Exact
             PROVE  DebtInv'
  BY <1>2 DEF DebtInv
<1>3. PICK d : /\ Debts(d) /\ d[Len(network) + 1] = Pending(option)
               /\ ct.debt = d[pos]
  BY DEF DebtInv
<1>4. Debts(d)' /\ ct'.debt = d[pos']
  BY <1>2, <1>3
<1>5. \E e : /\ Debts(e)' /\ e[Len(network') + 1] = Pending(option')
             /\ ct'.debt = e[pos']
  BY <1>3, <1>4
<1> QED
  BY <1>1, <1>5 DEF DebtInv, Justified, Nothing, Pending

\* Forward leaves the ciphertext with the debt of the next layer's input.
LEMMA ForwardDebts ==
    ASSUME LevelPlan, DebtInv, Forward
    PROVE  DebtInv'
<1>1. /\ model' = model /\ option' = option /\ it' = it
      /\ network' = network
  BY DEF Forward, queryVars
<1>2. pos \in 1 .. Len(network)
  BY DEF Forward, LevelPlan
<1>3. \/ ct' = ct /\ pos' = pos
      \/ pos' = pos + 1 /\ ct'.debt = Leaves(network[pos], ct.debt)
  BY DEF Forward
<1>4. \A d : Debts(d) /\ ct.debt = d[pos] => ct'.debt = d[pos']
  BY <1>2, <1>3 DEF Debts
<1> QED
  BY <1>1, <1>4, RestOfDebts

\* The factors that are pending while the network is built are those the
\* ciphertexts owe while it predicts.
LEMMA DebtHolds == Spec => []DebtInv
<1>1. DebtInv /\ LevelPlan /\ [Next]_vars => DebtInv'
  <2> SUFFICES ASSUME DebtInv, LevelPlan, [Next]_vars PROVE DebtInv'
    OBVIOUS
  <2>1. CASE BuildLayer
    <3>1. CASE Throws(Layers[it], Build(Layers[it], option))
      BY <2>1, <3>1, RestOfDebts DEF BuildLayer, queryVars
    <3>2. CASE ~Throws(Layers[it], Build(Layers[it], option))
      BY <2>1, <3>2, BuildDebts
    <3> QED
      BY <3>1, <3>2
  <2>2. CASE Forward
    BY <2>2, ForwardDebts
  <2>3. CASE BeginPredict
    BY <2>3, RestOfDebts DEF BeginPredict, queryVars
  <2>4. CASE EndPredict
    BY <2>4, RestOfDebts DEF EndPredict, queryVars
  <2>5. CASE UNCHANGED vars
    BY <2>5, RestOfDebts DEF vars
  <2> QED
    BY <2>1, <2>2, <2>3, <2>4, <2>5 DEF Next
<1> QED
  BY <1>1, InitDebts, PlanHolds, PTL DEF Spec

\* A predicted result owes no factor: whatever is optimized, what one layer
\* leaves out another folds exactly once, before a bias or a polynomial, in
\* any model built like the trained ones.
THEOREM SafeResultExactHolds ==
    ASSUME \A m \in Models :
              EndsBiased(m) /\ FoldsInTime(m) /\ NamedAfterActivation(m)
    PROVE  Spec => []SafeResultExact
<1>1. LevelPlan /\ CountInv /\ DebtInv => SafeResultExact
  <2> SUFFICES ASSUME LevelPlan, CountInv, DebtInv, SameActivation,
                      FoldsSafely, phase = "done"
               PROVE  ct.debt = Clean
    BY DEF SafeResultExact, ResultExact
  <2>1. /\ it = Len(Layers) + 1 /\ pos = Len(network) + 1
        /\ Len(Layers) \in Nat /\ model \in Models
    BY ModelsAssumption DEF CountInv, LevelPlan, Layers
  <2>2. it = 1 \/ Layers[it - 1].class \in Biased
    <3>1. it # 1 => Layers # <<>> /\ it - 1 = Len(Layers)
      BY <2>1
    <3> QED
      BY <2>1, <3>1 DEF EndsBiased, Layers
  <2>3. Exact
    BY <2>1 DEF Exact
  <2>4. Pending(option) = Clean
    BY <2>2, <2>3 DEF DebtInv, Nothing, Pending, Clean
  <2> QED
    BY <2>1, <2>3, <2>4 DEF DebtInv
<1> QED
  BY <1>1, PlanHolds, CountHolds, DebtHolds, PTL
=============================================================================
