------------------------------- MODULE WireData -------------------------------
(***************************************************************************)
(* The framing of the five packets.  The sender asks every part for its    *)
(* size, allocates one buffer, and writes the parts behind each other; the *)
(* sizes travel in the header, the first part, and tell the receiver where *)
(* each of the others ends.                                                *)
(*                                                                         *)
(* A buffer is a sequence of cells.  A part of size n is n cells that name *)
(* the part and their place in it; what was never written is Blank.  The   *)
(* parts of a packet are its header and SEAL objects, or ciphertexts in an *)
(* EncData.  SEAL's save and load are external: save returns the size of   *)
(* what it wrote, load takes back exactly what save wrote or throws.       *)
(***************************************************************************)
EXTENDS Sums

CONSTANTS
    Blank,        \* a cell that was never written
    Nothing,      \* no reading
    SizeCells,    \* the cells of a size_t
    HeaderCells,  \* the cells of a header's structure
    Sizes,        \* the sizes SEAL objects can have
    MaxCtxts      \* bound: ciphertexts in one EncData

ASSUME WireAssumption ==
    /\ SizeCells \in Nat \ {0} /\ HeaderCells \in Nat \ {0}
    /\ Sizes \subseteq Nat \ {0} /\ MaxCtxts \in Nat
    /\ Blank \notin Nat \X Nat

VARIABLES
    kind,    \* the packet
    parts,   \* the parts behind the header: sequences of object sizes
    buffer,  \* the buffer of the sender, then of the receiver
    wpos,    \* tellp
    rpos,    \* tellg
    step,    \* the part to write or to read next; 0 is the header
    header,  \* the sizes the receiver read
    got,     \* the parts the receiver loaded
    status   \* "size", "write", "read", "done" or "threw"

wireVars == <<kind, parts, buffer, wpos, rpos, step, header, got, status>>

-----------------------------------------------------------------------------
(* Parts *)

Total(sizes) == SumsOf(sizes)[Len(sizes)]

\* Whether the parts of a packet are EncData: a count and ciphertexts.
IsEncData == kind \in {"query", "result"}

\* EncData::save, and the save of a SEAL object: the bytes that are written.
SavedSize(p) == IF IsEncData THEN SizeCells + Total(p) ELSE Total(p)

\* Mutant: the count in front of the ciphertexts is forgotten.
StreamSizeOfObjects(p) == Total(p)

\* stream_size saves to a string and takes its size.
StreamSize(p) == SavedSize(p)

\* What the header holds.
PartSizes == [i \in DOMAIN parts |-> StreamSize(parts[i])]

\* PlainData::save: the count, which is one, and the structure.
HeaderSize == SizeCells + HeaderCells

\* The cells of part i, and of the header for i = 0.
CellsOf(i, n) == [k \in 1 .. n |-> <<i, k>>]

-----------------------------------------------------------------------------
(* The sender *)

\* register_enckeys, send_query, recv_results and the replies: the header
\* holds the sizes of the parts, the buffer has the size of all of them.
Allocate ==
    /\ status = "size"
    /\ buffer' = [k \in 1 .. HeaderSize + Total(PartSizes) |-> Blank]
    /\ status' = "write"
    /\ UNCHANGED <<kind, parts, wpos, rpos, step, header, got>>

\* n cells of part i at the write position, as far as the buffer goes.
Written(i, n) ==
    [k \in DOMAIN buffer |->
        IF wpos < k /\ k <= wpos + n THEN CellsOf(i, n)[k - wpos] ELSE buffer[k]]

SaveHeader ==
    /\ status = "write" /\ step = 0
    /\ buffer' = Written(0, HeaderSize)
    /\ wpos' = wpos + HeaderSize
    /\ step' = 1
    /\ UNCHANGED <<kind, parts, rpos, header, got, status>>

\* Mutant: the position in the stream is not shifted.
WritePartInPlace ==
    /\ status = "write" /\ step \in DOMAIN parts
    /\ buffer' = Written(step, SavedSize(parts[step]))
    /\ step' = step + 1
    /\ UNCHANGED <<kind, parts, wpos, rpos, header, got, status>>

\* write_to_binary_stream: a copy past the stream, whose position follows.
WritePart ==
    /\ status = "write" /\ step \in DOMAIN parts
    /\ buffer' = Written(step, SavedSize(parts[step]))
    /\ wpos' = wpos + SavedSize(parts[step])
    /\ step' = step + 1
    /\ UNCHANGED <<kind, parts, rpos, header, got, status>>

Send ==
    /\ status = "write" /\ step = Len(parts) + 1
    /\ status' = "read"
    /\ step' = 0
    /\ UNCHANGED <<kind, parts, buffer, wpos, rpos, header, got>>

-----------------------------------------------------------------------------
(* The receiver *)

CellsAt(pos, n) == SubSeq(buffer, pos + 1, pos + n)

\* PlainData::load, then data(): an empty container throws.
LoadHeader ==
    /\ status = "read" /\ step = 0
    /\ IF CellsAt(rpos, HeaderSize) = CellsOf(0, HeaderSize)
       THEN /\ header' = PartSizes
            /\ rpos' = rpos + HeaderSize
            /\ step' = 1
            /\ UNCHANGED status
       ELSE status' = "threw" /\ UNCHANGED <<header, rpos, step>>
    /\ UNCHANGED <<kind, parts, buffer, wpos, got>>

\* The size load reports: what it took from the cells it was given.
LoadedSize(i) == SavedSize(parts[i])

\* Mutant: the position in the stream stays where the part begins.
ReadPartInPlace ==
    /\ status = "read" /\ step \in DOMAIN parts
    /\ IF CellsAt(rpos, LoadedSize(step)) = CellsOf(step, LoadedSize(step))
       THEN /\ got' = Append(got, parts[step])
            /\ step' = step + 1
            /\ UNCHANGED status
       ELSE status' = "threw" /\ UNCHANGED <<got, step>>
    /\ UNCHANGED <<kind, parts, buffer, wpos, rpos, header>>

\* read_from_binary_stream: the object is loaded from as many cells as the
\* header says; an EncData is passed by that size, a SEAL object by what it
\* took.
ReadPart ==
    /\ status = "read" /\ step \in DOMAIN parts
    /\ LET n == header[step]
           s == LoadedSize(step)
       IN  IF n >= s /\ CellsAt(rpos, s) = CellsOf(step, s)
           THEN /\ got' = Append(got, parts[step])
                /\ rpos' = rpos + IF IsEncData THEN n ELSE s
                /\ step' = step + 1
                /\ UNCHANGED status
           ELSE status' = "threw" /\ UNCHANGED <<got, rpos, step>>
    /\ UNCHANGED <<kind, parts, buffer, wpos, header>>

\* The handlers and recv_results look at the ciphertexts they were sent:
\* vdata throws if there are none.
Process ==
    /\ status = "read" /\ step = Len(parts) + 1
    /\ status' = IF IsEncData /\ got[1] = <<>> THEN "threw" ELSE "done"
    /\ UNCHANGED <<kind, parts, buffer, wpos, rpos, step, header, got>>

-----------------------------------------------------------------------------
Objects == [1 .. 1 -> Sizes]
Ctxts   == UNION {[1 .. n -> Sizes] : n \in 0 .. MaxCtxts}

WireInit ==
    /\ \/ kind = "keys" /\ parts \in [1 .. 3 -> Objects]
       \/ kind \in {"query", "result"} /\ parts \in [1 .. 1 -> Ctxts]
       \/ kind \in {"query_id", "resreq"} /\ parts = <<>>
    /\ buffer = <<>>
    /\ wpos = 0
    /\ rpos = 0
    /\ step = 0
    /\ header = Nothing
    /\ got = <<>>
    /\ status = "size"

WireNext ==
    \/ Allocate \/ SaveHeader \/ WritePart \/ Send
    \/ LoadHeader \/ ReadPart \/ Process

WireSpec == WireInit /\ [][WireNext]_wireVars

-----------------------------------------------------------------------------
(* Properties *)

\* The sizes asked for before, the bytes written and the positions agree:
\* nothing is written past the buffer, and what is sent has no cell that was
\* never written (stream_size against the sizes save returns).
FillsItsBuffer ==
    /\ status # "size" => wpos <= Len(buffer)
    /\ status \in {"read", "done", "threw"} =>
          \A k \in DOMAIN buffer : buffer[k] # Blank

\* The receiver gets what was sent, and leaves no byte over: only a packet
\* without ciphertexts makes it throw (write_to_binary_stream against
\* read_from_binary_stream, the handlers and recv_results).
RoundTrip ==
    /\ status = "done" => got = parts /\ rpos = Len(buffer)
    /\ status = "threw" => IsEncData /\ parts[1] = <<>>
=============================================================================
