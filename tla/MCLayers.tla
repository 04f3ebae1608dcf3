------------------------------ MODULE MCLayers ------------------------------
(***************************************************************************)
(* Layers: how they are constructed and what they compute.  A behaviour    *)
(* builds networks with the structures and sizes of the trained models     *)
(* (NetworkShapes), any of them in turn or two at a time, or it runs one   *)
(* small layer (LayerForward): every window and stride up to 3 on one axis *)
(* against a window of 2 on the other, both paddings.                      *)
(***************************************************************************)
EXTENDS NetworkShapes, LayerForward

CONSTANTS th1, th2

VARIABLE subject  \* "turns", "threads" or "forward"

Training == INSTANCE TrainedModels

\* The activation function has no shape.
MCModels ==
    {Training!Mnist("square", bn, gap) : bn \in BOOLEAN, gap \in BOOLEAN}
    \cup {Training!Cifar10("square", bn, gap, full) :
             bn \in BOOLEAN, gap \in BOOLEAN, full \in BOOLEAN}

\* What two threads build at a time.
MCMixedModels ==
    {Training!Mnist("square", TRUE, FALSE),
     Training!Mnist("square", FALSE, TRUE)}

ASSUME MixedAssumption == MCMixedModels \subseteq Models

Windowed(class, Sizes) ==
    {l \in [class : {class}, height : 2 .. 4, width : {2}, channels : 1 .. 2,
            size : Sizes, wh : 1 .. 3, ww : {2}, sh : 1 .. 3, sw : 1 .. 2,
            padding : {"valid", "same"}, optPool : {TRUE, FALSE}] :
        /\ l.wh <= l.height
        /\ class = "Conv2D" => ~l.optPool}

Plain(class, Heights, Widths, Channels, Sizes) ==
    [class : {class}, height : Heights, width : Widths, channels : Channels,
     size : Sizes, wh : {1}, ww : {1}, sh : {1}, sw : {1},
     padding : {"valid"}, optPool : {FALSE}]

MCLayers ==
    Windowed("Conv2D", {1, 2}) \cup Windowed("AveragePooling2D", {1})
    \cup Plain("Flatten", 1 .. 3, 1 .. 2, 1 .. 2, {1})
    \cup Plain("GlobalAveragePooling2D", 1 .. 3, 1 .. 3, 1 .. 3, {1})
    \cup Plain("Dense", {1}, {1}, 1 .. 3, 1 .. 3)
    \cup Plain("BatchNormalization", 1 .. 2, 1 .. 2, 1 .. 2, {1})

Init ==
    /\ subject \in {"turns", "threads", "forward"}
    /\ ShapeInit
    /\ ForwardInit
    /\ subject # "forward" => layer = CHOOSE l \in Layers : TRUE

InTurn == \A t \in Threads : job'[t].layers # <<>> => t = th1
Mixed  == \A t \in Threads : job'[t].layers \in MCMixedModels \cup {<<>>}

Next ==
    /\ \/ subject = "turns" /\ ShapeNext /\ InTurn /\ UNCHANGED forwardVars
       \/ subject = "threads" /\ ShapeNext /\ Mixed /\ UNCHANGED forwardVars
       \/ subject = "forward" /\ ForwardNext /\ UNCHANGED shapeVars
    /\ UNCHANGED subject

Spec == Init /\ [][Next]_<<shapeVars, forwardVars, subject>>
=============================================================================
