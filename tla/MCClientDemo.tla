----------------------------- MODULE MCClientDemo -----------------------------
(***************************************************************************)
(* Small datasets: image and label files of up to seven items.              *)
(***************************************************************************)
EXTENDS ClientDemo

File(kind, n, bytes) ==
    [magic |-> MagicOf(kind), count |-> n, bytes |-> bytes, held |-> n * bytes]

MCImageFiles == {Missing} \cup {File("images", n, 4) : n \in 1 .. 7}
MCLabelFiles == {Missing} \cup {File("labels", n, 1) : n \in {2, 7}}

MCPowers == {2, 3}
=============================================================================
