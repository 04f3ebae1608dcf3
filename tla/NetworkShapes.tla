---------------------------- MODULE NetworkShapes ----------------------------
(***************************************************************************)
(* The shapes of a network under construction.  The builders hand the      *)
(* shape of one layer's output to the next through four global variables,  *)
(* which all calculation threads share without a lock and which no one     *)
(* resets between two networks.  A builder first sizes the buffers it      *)
(* reads the trained weights into, and later, the encoding done,           *)
(* constructs the layer and writes the globals: two steps, between which   *)
(* the other thread may build.                                             *)
(***************************************************************************)
EXTENDS Windows, Sequences

CONSTANTS
    Threads,
    Models,       \* layers of the trained models (TrainedModels)
    FuseLayers,   \* subset of BOOLEAN: enable_fuse_layers of the queries
    MaxNetworks   \* bound: networks built

LayerType ==
    [class : {"Conv2D", "AveragePooling2D", "Flatten", "Dense",
              "GlobalAveragePooling2D", "BatchNormalization", "Activation"},
     fn : STRING, size : Nat, window : Nat \ {0}, stride : Nat \ {0},
     padding : {"valid", "same"}, input : Seq(Nat)]

ASSUME NetworksAssumption ==
    /\ Models \subseteq Seq(LayerType)
    /\ FuseLayers \subseteq BOOLEAN
    /\ MaxNetworks \in Nat

VARIABLES
    shape,    \* the globals next_layer_in_height, width, channels, units
    job,      \* thread -> its query's layers and enable_fuse_layers
    it,       \* thread -> BuildNetwork's iterator
    buffer,   \* thread -> dimensions fixed so far for the layer in progress
    network,  \* thread -> layers built
    phase,    \* thread -> "idle", "build", "layer", "built" or "failed"
    started,  \* history: thread -> globals it started from, built alone
    built     \* networks started

shapeVars == <<shape, job, it, buffer, network, phase, started, built>>

-----------------------------------------------------------------------------
Layer(t) == job[t].layers[it[t]]
Fused(t) ==
    /\ job[t].fuse
    /\ it[t] < Len(job[t].layers)
    /\ Layer(t).class \in {"Conv2D", "Dense"}
    /\ job[t].layers[it[t] + 1].class = "BatchNormalization"

OutShape(l, in) ==
    <<OutSize(in[1], l.window, l.stride, l.padding),
      OutSize(in[2], l.window, l.stride, l.padding),
      IF l.class = "Conv2D" THEN l.size ELSE in[3]>>

ShapeOf(s) == <<s.height, s.width, s.channels>>

\* A query's computation starts: BuildNetwork loads the layers.
StartNetwork(t, layers, fuse) ==
    /\ phase[t] \in {"idle", "built"}
    /\ built < MaxNetworks
    /\ built' = built + 1
    /\ job' = [job EXCEPT ![t] = [layers |-> layers, fuse |-> fuse]]
    /\ it' = [it EXCEPT ![t] = 1]
    /\ network' = [network EXCEPT ![t] = <<>>]
    /\ phase' = [phase EXCEPT ![t] = "build"]
    /\ LET others == {u \in Threads \ {t} : phase[u] \in {"build", "layer"}}
       IN  started' = [u \in Threads |->
                          IF u = t THEN [units |-> shape.units,
                                         alone |-> others = {}]
                          ELSE IF u \in others
                               THEN [started[u] EXCEPT !.alone = FALSE]
                               ELSE started[u]]
    /\ UNCHANGED <<shape, buffer>>

\* The dimensions a builder reads before its loops.
ReadShape(l, s) ==
    CASE l.class = "Conv2D" -> IF l.input # <<>> THEN l.input ELSE ShapeOf(s)
      [] l.class = "BatchNormalization" ->
            <<IF s.units # 0 THEN s.units ELSE s.channels>>
      [] l.class = "Dense" -> <<s.units>>
      [] l.class \in {"AveragePooling2D", "Flatten", "Activation",
                      "GlobalAveragePooling2D"} -> <<>>

\* Mutant: the width is forgotten.
UnitsReadByRow(l, s) ==
    CASE l.class = "Flatten" -> SizeT(s.height * s.channels)
      [] l.class = "GlobalAveragePooling2D" -> s.channels
      [] OTHER -> s.units

\* buildFlatten and buildGlobalAveragePooling2D set the units first.
UnitsRead(l, s) ==
    CASE l.class = "Flatten" -> SizeT(SizeT(s.height * s.width) * s.channels)
      [] l.class = "GlobalAveragePooling2D" -> s.channels
      [] OTHER -> s.units

\* buildDenseFusedBN looks for its weights under the fused layer's name,
\* which no file has, and throws: the thread ends.
BeginLayer(t) ==
    /\ phase[t] = "build"
    /\ it[t] <= Len(job[t].layers)
    /\ IF Fused(t) /\ Layer(t).class = "Dense"
       THEN /\ phase' = [phase EXCEPT ![t] = "failed"]
            /\ UNCHANGED <<shape, buffer>>
       ELSE /\ phase' = [phase EXCEPT ![t] = "layer"]
            /\ buffer' = [buffer EXCEPT ![t] = ReadShape(Layer(t), shape)]
            /\ shape' = [shape EXCEPT !.units = UnitsRead(Layer(t), shape)]
    /\ UNCHANGED <<job, it, network, started, built>>

\* The constructor's arguments: the shape the layer believes its input has,
\* and its output's.
Constructed(l, buf, s) ==
    LET units == <<s.units>>
    IN  CASE l.class = "Conv2D" -> [in |-> buf, out |-> OutShape(l, buf)]
          [] l.class = "AveragePooling2D" ->
                [in |-> ShapeOf(s), out |-> OutShape(l, ShapeOf(s))]
          [] l.class \in {"Flatten", "GlobalAveragePooling2D"} ->
                [in |-> ShapeOf(s), out |-> units]
          [] l.class = "Dense" -> [in |-> units, out |-> <<l.size>>]
          [] l.class \in {"BatchNormalization", "Activation"} ->
                [in |-> buf, out |-> buf]

\* The globals after the constructor.
Written(l, out, s) ==
    CASE l.class \in {"Conv2D", "AveragePooling2D"} ->
            [s EXCEPT !.height = out[1], !.width = out[2], !.channels = out[3]]
      [] l.class = "Dense" -> [s EXCEPT !.units = l.size]
      [] OTHER -> s

EndLayer(t) ==
    /\ phase[t] = "layer"
    /\ LET l == Layer(t)
           c == Constructed(l, buffer[t], shape)
       IN  /\ network' = [network EXCEPT ![t] =
                 Append(@, [class |-> l.class, layer |-> it[t],
                            buffer |-> buffer[t], in |-> c.in, out |-> c.out])]
           /\ shape' = Written(l, c.out, shape)
    /\ it' = [it EXCEPT ![t] = @ + (IF Fused(t) THEN 2 ELSE 1)]
    /\ phase' = [phase EXCEPT ![t] = "build"]
    /\ buffer' = [buffer EXCEPT ![t] = <<>>]
    /\ UNCHANGED <<job, started, built>>

\* BuildNetwork returns; the network predicts and the thread goes on.
EndNetwork(t) ==
    /\ phase[t] = "build"
    /\ it[t] > Len(job[t].layers)
    /\ phase' = [phase EXCEPT ![t] = "built"]
    /\ UNCHANGED <<shape, job, it, buffer, network, started, built>>

-----------------------------------------------------------------------------
ShapeInit ==
    /\ shape = [height |-> 0, width |-> 0, channels |-> 0, units |-> 0]
    /\ job = [t \in Threads |-> [layers |-> <<>>, fuse |-> FALSE]]
    /\ it = [t \in Threads |-> 1]
    /\ buffer = [t \in Threads |-> <<>>]
    /\ network = [t \in Threads |-> <<>>]
    /\ phase = [t \in Threads |-> "idle"]
    /\ started = [t \in Threads |-> [units |-> 0, alone |-> TRUE]]
    /\ built = 0

ShapeNext ==
    \E t \in Threads :
       \/ \E layers \in Models, fuse \in FuseLayers :
             StartNetwork(t, layers, fuse)
       \/ BeginLayer(t)
       \/ EndLayer(t)
       \/ EndNetwork(t)

ShapeSpec == ShapeInit /\ [][ShapeNext]_shapeVars

-----------------------------------------------------------------------------
(* Properties *)

\* The shapes of a trained model: Keras infers each output from the
\* structure alone.
KerasShape(l, in) ==
    CASE l.class \in {"Conv2D", "AveragePooling2D"} -> OutShape(l, in)
      [] l.class = "Flatten" -> <<in[1] * in[2] * in[3]>>
      [] l.class = "GlobalAveragePooling2D" -> <<in[3]>>
      [] l.class = "Dense" -> <<l.size>>
      [] OTHER -> in

Trained(layers) ==
    LET out[i \in 0 .. Len(layers)] ==
           IF i = 0 THEN layers[1].input ELSE KerasShape(layers[i], out[i - 1])
    IN  out

\* What a training program writes: the first layer, a convolution, has the
\* shape of the images; one layer, the heading, turns rows and columns into
\* units; a normalization follows a layer with weights; sizes fit.
Sequential(layers) ==
    LET class(i) == layers[i].class
        Headings == {"Flatten", "GlobalAveragePooling2D"}
    IN  /\ layers # <<>> /\ class(1) = "Conv2D" /\ Len(layers[1].input) = 3
        /\ \A i \in 2 .. Len(layers) :
              /\ layers[i].input = <<>>
              /\ class(i) = "BatchNormalization" =>
                    class(i - 1) \in {"Conv2D", "Dense"}
        /\ \A i \in DOMAIN layers :
              /\ class(i) = "Dense" => layers[i].size > 0
              /\ class(i) = "Flatten" =>
                    LET in == Trained(layers)[i - 1]
                    IN  in[1] * in[2] * in[3] < SizeMod
        /\ \E heading \in DOMAIN layers :
              /\ class(heading) \in Headings
              /\ \A i \in 1 .. heading - 1 :
                    class(i) \notin Headings \cup {"Dense"}
              /\ \A i \in heading + 1 .. Len(layers) :
                    class(i) \in {"Dense", "BatchNormalization", "Activation"}

ASSUME SequentialAssumption == \A layers \in Models : Sequential(layers)

\* Each buffer has the shape of the weights read into it, and each layer
\* believes of its input what the layers before it make.
IsTrained(t) ==
    LET trained == Trained(job[t].layers)
    IN  \A i \in DOMAIN network[t] :
           LET o   == network[t][i]
               in  == trained[o.layer - 1]
               out == trained[o.layer]
           IN  CASE o.class = "Conv2D" -> o.in = in /\ o.out = out
                 [] o.class = "Dense" ->
                       o.buffer = in /\ o.in = in /\ o.out = out
                 [] o.class = "BatchNormalization" -> o.buffer = <<in[Len(in)]>>
                 [] o.class \in {"AveragePooling2D", "Flatten",
                                 "GlobalAveragePooling2D"} ->
                       o.in = in /\ o.out = out
                 [] o.class = "Activation" -> TRUE

\* A normalization of channels is built on its own.
NormalizesChannels(t) ==
    /\ ~job[t].fuse
    /\ \E i \in 2 .. Len(job[t].layers) :
          job[t].layers[i].class = "BatchNormalization"
          /\ job[t].layers[i - 1].class = "Conv2D"

\* A network built while no other is, in a process that has built none with
\* a dense layer or whose channels are not normalized on their own, has the
\* trained shapes; nothing else of an earlier network shows in a later one.
AloneIsTrained ==
    \A t \in Threads :
       started[t].alone /\ (started[t].units = 0 \/ ~NormalizesChannels(t)) =>
          IsTrained(t)
=============================================================================
