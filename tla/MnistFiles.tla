------------------------------ MODULE MnistFiles ------------------------------
(***************************************************************************)
(* The reader of MNIST files.  A file is Missing or a record of its magic  *)
(* number, the item count of its header, the bytes of an item and the      *)
(* bytes it holds after the header.  Items are numbered from 0.            *)
(***************************************************************************)
EXTENDS Integers

CONSTANTS
    Missing,     \* a file that cannot be opened
    Width        \* 2^32: the sizes of a header are unsigned 32 bit numbers

MagicOf(kind)  == IF kind = "images" THEN 2051 ELSE 2049
HeaderOf(kind) == IF kind = "images" THEN 16 ELSE 8

\* read_mnist_file: the size it asks for is computed in 32 bits.
LargeEnough(file, kind) ==
    file.held + HeaderOf(kind) >=
        (file.count * file.bytes + HeaderOf(kind)) % Width

Readable(file, kind) ==
    /\ file # Missing
    /\ file.magic = MagicOf(kind)
    /\ LargeEnough(file, kind)

\* A limit of zero is none.
Taken(count, limit) == IF limit > 0 /\ count > limit THEN limit ELSE count

\* read_mnist_image_file, read_mnist_label_file: how many items are read; an
\* unreadable file is an empty container.
ReadMnist(file, kind, limit) ==
    IF Readable(file, kind) THEN Taken(file.count, limit) ELSE 0
=============================================================================
