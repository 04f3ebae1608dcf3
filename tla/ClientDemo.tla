------------------------------ MODULE ClientDemo ------------------------------
(***************************************************************************)
(* The demo client: it loads the test images, packs one image into each    *)
(* slot of a query's ciphertexts, sends the queries step by step and       *)
(* computes the accuracy in the callbacks, which run on threads of their   *)
(* own and find their bounds in a parameter block that all queries share.  *)
(*                                                                         *)
(* Images are numbered from 0.  A decrypted score is the record of its     *)
(* image and label; the client and the server are those of ClientSession   *)
(* with exchanges that exclude each other: a sent query is answered at     *)
(* any later time with the scores of its slots.                            *)
(***************************************************************************)
EXTENDS MnistFiles, Sequences, FiniteSets

CONSTANTS
    Garbage,     \* an image that is not in the container
    Zero,        \* a score that was never copied
    ImageFiles,  \* the image files a dataset's directory can hold
    LabelFiles,  \* the label files
    Powers,      \* what "power" can be in the configuration file
    NumLabels,   \* MNIST_LABELS
    MaxImages    \* bound: images of one file

ASSUME DemoAssumption ==
    /\ Powers \subseteq Nat \ {0} /\ Powers # {}
    /\ NumLabels \in Nat \ {0} /\ MaxImages \in Nat
    /\ \A f \in ImageFiles : f = Missing \/ f.count \in 0 .. MaxImages
    /\ \A p \in Powers : 2 ^ (p - 1) \in Nat \ {0} \* unknown to the provers

Steps == 0 .. MaxImages
Labels == 0 .. NumLabels - 1

VARIABLES
    config,   \* "power" in the file that -C names, or Missing without a file
    dataset,  \* the directory of -D: its image and its label file
    power,    \* the power of the keys' modulus degree
    loaded,   \* the numbers of images and of labels in the containers
    phase,    \* where main is
    step,     \* the step of compute
    param,    \* callback_param: img_beg_idx and img_end_idx
    packed,   \* step -> the images in the slots of its query, or <<>>
    cb,       \* step -> its callback
    disturbed \* history: callbacks that found bounds of another step

vars == <<config, dataset, power, loaded, phase, step, param, packed, cb,
          disturbed>>

\* Undefined behaviour: nothing is said of what follows it.
Runs  == phase # "crashed"
Crash == phase' = "crashed"

ImgCount == loaded.images
LblCount == loaded.labels

-----------------------------------------------------------------------------
(* The bounds of a step *)

\* A ciphertext of modulus degree 2^power has half as many slots.
SlotCount == 2 ^ (power - 1)

\* Mutant: an empty last step is taken for a step of its own.
StepCountOfTwo == ImgCount \div SlotCount + 2

StepCount == ImgCount \div SlotCount + 1

\* remain_img_count is never reduced.
ImgCountInStep == IF SlotCount < ImgCount THEN SlotCount ELSE ImgCount

BegIdx(s) == s * SlotCount
EndIdx(s) == BegIdx(s) + ImgCountInStep

-----------------------------------------------------------------------------
(* main *)

\* init_keys: without a file the power is 0, and no modulus has that degree.
InitKeys ==
    /\ phase = "start"
    /\ power' = IF config = Missing THEN 0 ELSE config
    /\ phase' = IF power' = 0 THEN "failed" ELSE "load"
    /\ UNCHANGED <<config, dataset, loaded, step, param, packed, cb, disturbed>>

\* loadMnistTestImages, loadMnistTestLabels, for every dataset: normalize
\* asks the first image for its size, if there is one or not.
LoadImages ==
    /\ phase = "load"
    /\ loaded' = [images |-> ReadMnist(dataset.images, "images", 0),
                  labels |-> ReadMnist(dataset.labels, "labels", 0)]
    /\ IF loaded'.images = 0 THEN phase' \in {"crashed", "bounds"}
                             ELSE phase' = "bounds"
    /\ UNCHANGED <<config, dataset, power, step, param, packed, cb, disturbed>>

SetBegIdx ==
    /\ phase = "bounds" /\ step < StepCount
    /\ param' = [param EXCEPT !.beg = BegIdx(step)]
    /\ phase' = "end"
    /\ UNCHANGED <<config, dataset, power, loaded, step, packed, cb, disturbed>>

SetEndIdx ==
    /\ phase = "end"
    /\ param' = [param EXCEPT !.end = EndIdx(step)]
    /\ phase' = "encrypt"
    /\ UNCHANGED <<config, dataset, power, loaded, step, packed, cb, disturbed>>

\* Mutant: the counter of the slots is off by one from that of the images.
SlotsShifted(beg, end) == [k \in 1 .. SlotCount |-> (beg + k) % ImgCount]

\* encryptImages: a step that leaves slots empty fills them with the images
\* that follow, the first one after the last.
Slots(beg, end) ==
    [k \in 1 .. SlotCount |->
        LET idx == beg + k - 1
        IN  IF end - beg < SlotCount THEN idx % ImgCount
            ELSE IF idx < ImgCount THEN idx ELSE Garbage]

\* Without images the remainder is undefined; an image past the last one is.
Encrypt ==
    /\ phase = "encrypt"
    /\ LET beg == BegIdx(step)
           end == EndIdx(step)
       IN  IF ImgCount = 0 \/ (end - beg >= SlotCount /\ end > ImgCount)
           THEN Crash /\ UNCHANGED packed
           ELSE /\ packed' = [packed EXCEPT ![step] = Slots(beg, end)]
                /\ phase' = "send"
    /\ UNCHANGED <<config, dataset, power, loaded, step, param, cb, disturbed>>

\* send_query returns with a callback thread under way.
SendQuery ==
    /\ phase = "send"
    /\ cb' = [cb EXCEPT ![step].pc = "wait"]
    /\ step' = step + 1
    /\ phase' = "bounds"
    /\ UNCHANGED <<config, dataset, power, loaded, param, packed, disturbed>>

Sleep ==
    /\ phase = "bounds" /\ step = StepCount
    /\ phase' = "sleep"
    /\ UNCHANGED <<config, dataset, power, loaded, step, param, packed, cb,
                   disturbed>>

\* After 600 seconds compute returns and the client disconnects: a callback
\* whose result is not there yet is not invoked any more.
Disconnect ==
    /\ phase = "sleep"
    /\ cb' = [s \in Steps |-> IF cb[s].pc = "wait"
                              THEN [cb[s] EXCEPT !.pc = "lost"] ELSE cb[s]]
    /\ phase' = "join"
    /\ UNCHANGED <<config, dataset, power, loaded, step, param, packed,
                   disturbed>>

\* The client's destructor joins the threads.
Return ==
    /\ phase = "join"
    /\ \A s \in Steps : cb[s].pc \in {"none", "done", "lost"}
    /\ phase' = "returned"
    /\ UNCHANGED <<config, dataset, power, loaded, step, param, packed, cb,
                   disturbed>>

-----------------------------------------------------------------------------
(* callback_func *)

\* The result arrives: every image gets a row of zeros.
Invoke(s) ==
    /\ Runs
    /\ cb[s].pc = "wait"
    /\ cb' = [cb EXCEPT ![s] =
                [pc |-> "label", label |-> 0, beg |-> 0,
                 rows |-> [j \in 0 .. ImgCount - 1 |-> [i \in Labels |-> Zero]]]]
    /\ UNCHANGED <<config, dataset, power, loaded, phase, step, param, packed,
                   disturbed>>

Own(s) == [beg |-> BegIdx(s), end |-> EndIdx(s)]
Note(s) == disturbed' = IF param = Own(s) THEN disturbed
                        ELSE disturbed \cup {s}

ReadBegIdx(s) ==
    /\ Runs
    /\ cb[s].pc = "label"
    /\ cb' = [cb EXCEPT ![s].beg = param.beg, ![s].pc = "copy"]
    /\ Note(s)
    /\ UNCHANGED <<config, dataset, power, loaded, phase, step, param, packed>>

\* The scores of a label are copied up to img_end_idx, which only grows:
\* read again for each image or once, the loop ends where one read says.
CopyScores(s) ==
    /\ Runs
    /\ cb[s].pc = "copy"
    /\ LET beg  == cb[s].beg
           end  == param.end
           i    == cb[s].label
           copy == [j \in 0 .. ImgCount - 1 |->
                      IF beg <= j /\ j < end
                      THEN [cb[s].rows[j] EXCEPT ![i] =
                              [image |-> packed[s][j - beg + 1], label |-> i]]
                      ELSE cb[s].rows[j]]
       IN  IF end > ImgCount \/ end - beg > SlotCount
           THEN Crash /\ UNCHANGED cb
           ELSE /\ cb' = [cb EXCEPT ![s].rows = copy, ![s].label = i + 1,
                             ![s].pc = IF i + 1 = NumLabels THEN "accuracy"
                                       ELSE "label"]
                /\ UNCHANGED phase
    /\ Note(s)
    /\ UNCHANGED <<config, dataset, power, loaded, step, param, packed>>

\* Every image's prediction is compared with its label.
Accuracy(s) ==
    /\ Runs
    /\ cb[s].pc = "accuracy"
    /\ IF LblCount < ImgCount THEN Crash /\ UNCHANGED cb
       ELSE cb' = [cb EXCEPT ![s].pc = "done"] /\ UNCHANGED phase
    /\ UNCHANGED <<config, dataset, power, loaded, step, param, packed,
                   disturbed>>

-----------------------------------------------------------------------------
NoCallback == [pc |-> "none", label |-> 0, beg |-> 0, rows |-> <<>>]

Init ==
    /\ config \in Powers \cup {Missing}
    /\ dataset \in [images : ImageFiles, labels : LabelFiles]
    /\ power = 0
    /\ loaded = [images |-> 0, labels |-> 0]
    /\ phase = "start"
    /\ step = 0
    /\ param = [beg |-> 0, end |-> 0]
    /\ packed = [s \in Steps |-> <<>>]
    /\ cb = [s \in Steps |-> NoCallback]
    /\ disturbed = {}

MainStep ==
    \/ InitKeys \/ LoadImages \/ SetBegIdx \/ SetEndIdx \/ Encrypt \/ SendQuery
    \/ Sleep \/ Disconnect \/ Return

CallbackStep(s) ==
    Invoke(s) \/ ReadBegIdx(s) \/ CopyScores(s) \/ Accuracy(s)

Next == MainStep \/ \E s \in Steps : CallbackStep(s)

Spec == Init /\ [][Next]_vars

-----------------------------------------------------------------------------
(* Properties *)

\* Row j has, for every label, the score of image j.
OwnScores(row, j) == \A i \in Labels : row[i] = [image |-> j, label |-> i]

Done(s) == cb[s].pc \in {"accuracy", "done"}

\* Image j belongs to step j div SlotCount, and to no other.  A callback that
\* finds its own step's bounds whenever it reads them attributes to every
\* image of its step the image's own scores, whatever step it is and however
\* many slots are filled up (compute, encryptImages, callback_func).
UndisturbedRowsAreRight ==
    \A s \in Steps : Done(s) /\ s \notin disturbed =>
       \A j \in 0 .. ImgCount - 1 :
          j \div SlotCount = s => OwnScores(cb[s].rows[j], j)

\* The bounds of a step lie past the images only when these do not fit one
\* step: with less images than slots and a label for each, nothing ends the
\* program before main does.
CrashHasACause ==
    phase = "crashed" =>
       \/ ImgCount = 0
       \/ LblCount < ImgCount
       \/ ImgCount >= SlotCount
=============================================================================
