----------------------------- MODULE CifarBatches -----------------------------
(***************************************************************************)
(* The reader of the CIFAR-10 batches: one batch after the other is        *)
(* appended to a container, under one limit for all of them.  A batch is   *)
(* Missing or the number of whole items it holds; an item is the pair of   *)
(* its batch and its place there.                                          *)
(***************************************************************************)
EXTENDS Integers, SequencesExt

CONSTANTS
    Missing,     \* a file that cannot be opened
    Garbage,     \* what is read past the end of a buffer
    Width,       \* 2^64: sizes are unsigned
    FileSizes,   \* the items a file can hold
    BatchItems,  \* 10000: the items the reader takes from a batch
    Batches,     \* the number of training batches
    Limits       \* the limits to read with

ASSUME CifarAssumption ==
    /\ BatchItems \in Nat \ {0} /\ Batches \in Nat \ {0}
    /\ Width \in Nat /\ Batches * BatchItems <= Width
    /\ FileSizes \subseteq Nat /\ Limits \subseteq 0 .. Width - 1

VARIABLES
    batch,    \* the files: 1 .. Batches for training, 0 for the test
    limit,    \* training_limit and test_limit
    next,     \* the file to read next
    images,   \* "training" and "test" -> the images read
    labels    \* "training" and "test" -> the labels read

batchVars == <<batch, limit, next, images, labels>>

Sets == {"training", "test"}
SetOf(f) == IF f = 0 THEN "test" ELSE "training"

\* Mutant: the capacity left is not that of the images read before.
CapacityOfAll(max, size) == max

\* An unsigned difference: without a limit it is 0 or wraps past any batch.
Capacity(max, size) == (max - size) % Width

\* A batch that is too short is read past its end.
Item(f, i) == IF i <= batch[f] THEN <<f, i>> ELSE Garbage
Items(f, n) == [i \in 1 .. n |-> Item(f, i)]

\* read_cifar10_file: nothing at the limit or without the file, else as many
\* items as fit, whatever the file holds.
ReadBatch(f) ==
    LET s    == SetOf(f)
        size == Len(images[s])
        room == Capacity(limit, size)
        n    == IF room > 0 /\ room < BatchItems THEN room ELSE BatchItems
    IN  IF (limit > 0 /\ limit <= size) \/ batch[f] = Missing
        THEN UNCHANGED <<images, labels>>
        ELSE /\ images' = [images EXCEPT ![s] = @ \o Items(f, n)]
             /\ labels' = [labels EXCEPT ![s] = @ \o Items(f, n)]

\* read_dataset_direct: the training batches in order, then the test batch.
ReadNext ==
    /\ next <= Batches + 1
    /\ ReadBatch(next % (Batches + 1))
    /\ next' = next + 1
    /\ UNCHANGED <<batch, limit>>

\* Mutant: the labels keep their size.
ResizeImages(s, size) ==
    /\ next = Batches + 2
    /\ Len(images[s]) > size
    /\ images' = [images EXCEPT ![s] = SubSeq(@, 1, size)]
    /\ UNCHANGED <<batch, limit, next, labels>>

\* resize_training, resize_test: the labels follow the images.
Resize(s, size) ==
    /\ next = Batches + 2
    /\ Len(images[s]) > size
    /\ images' = [images EXCEPT ![s] = SubSeq(@, 1, size)]
    /\ labels' = [labels EXCEPT ![s] = SubSeq(@, 1, size)]
    /\ UNCHANGED <<batch, limit, next>>

BatchStart(batches, limits) ==
    /\ batch \in batches
    /\ limit \in limits
    /\ next = 1
    /\ images = [s \in Sets |-> <<>>]
    /\ labels = [s \in Sets |-> <<>>]

BatchInit == BatchStart([0 .. Batches -> FileSizes \cup {Missing}], Limits)

BatchNext ==
    \/ ReadNext
    \/ \E s \in Sets, size \in Limits : Resize(s, size)

BatchSpec == BatchInit /\ [][BatchNext]_batchVars

-----------------------------------------------------------------------------
(* Properties *)

\* What the files of a set yield, file by file, and all of it, in order.
Yields(s) ==
    [k \in 1 .. Batches |->
        LET f == IF s = "test" THEN 0 ELSE k
        IN  IF batch[f] = Missing \/ (s = "test" /\ k > 1) THEN <<>>
            ELSE Items(f, BatchItems)]

Whole(s) == FlattenSeq(Yields(s))

\* A set is at every time the first items of the files that are there, no
\* more than were asked for, and every label is that of the image in its
\* place (read_cifar10_file over five batches with an unsigned difference for
\* the room left, resize_training, resize_test).
SetsAreAPrefix ==
    \A s \in Sets :
       /\ labels[s] = images[s]
       /\ IsPrefix(images[s], Whole(s))
       /\ limit > 0 => Len(images[s]) <= limit

\* Batches that are missing are made up for by the later ones: reading the
\* last one stops short of the limit only when all files are exhausted
\* (read_training).
LimitIsReached ==
    [][next = Batches + 1 =>
          LET all == Len(Whole("training"))
          IN  Len(images["training"]) =
                 IF limit > 0 /\ limit < all THEN limit ELSE all]_batchVars
=============================================================================
