--------------------------- MODULE MCNetworkLevels ---------------------------
(***************************************************************************)
(* NetworkLevels on the structures of the trained models, per activation   *)
(* function, with and without normalization and global averaging.          *)
(***************************************************************************)
EXTENDS NetworkLevels

Trained == INSTANCE TrainedModels

\* The inputs a layer sums; what is averaged globally is 4 x 4 pixels.
Sums(layers) ==
    [i \in DOMAIN layers |->
        [class |-> layers[i].class, fn |-> layers[i].fn,
         area  |-> CASE layers[i].class = "AveragePooling2D" ->
                           layers[i].window * layers[i].window
                     [] layers[i].class = "GlobalAveragePooling2D" -> 16
                     [] OTHER -> 1]]

NameOf(fn) == CASE fn = "square" -> "HCNN"
                [] fn = "relu" -> "Plain-relu"
                [] fn = "swish_rg4_deg4" -> "CKKS-swish_rg4_deg4"
                [] fn = "swish_rg6_deg4" -> "CKKS-swish_rg6_deg4"
                [] fn = "mish_rg4_deg4" -> "CKKS-mish_rg4_deg4"

Activated == {"square", "relu", "swish_rg4_deg4", "swish_rg6_deg4",
              "mish_rg4_deg4"}

MCFunctions == Activated \cup {"none"}
MCNames == {NameOf(fn) : fn \in Activated}

ModelOf(fn, layers) == [name |-> NameOf(fn), layers |-> Sums(layers)]

MCModels ==
    {ModelOf(fn, Trained!Mnist(fn, bn, gap)) :
        fn \in Activated, bn \in BOOLEAN, gap \in BOOLEAN}
    \cup
    {ModelOf(fn, Trained!Cifar10(fn, bn, gap, FALSE)) :
        fn \in Activated, bn \in BOOLEAN, gap \in BOOLEAN}
    \cup
    {ModelOf(fn, Trained!Cifar10(fn, TRUE, FALSE, TRUE)) : fn \in Activated}

\* The hypotheses under which the ways to throw are known and a prediction is
\* exact.
ASSUME TrainedStructures ==
    \A m \in MCModels :
       EndsBiased(m) /\ FoldsInTime(m) /\ NamedAfterActivation(m)

MCActivations == {"DEFAULT", "SQUARE", "SWISH_RG4_DEG4", "SWISH_RG6_DEG4",
                  "MISH_RG4_DEG4"}
=============================================================================
