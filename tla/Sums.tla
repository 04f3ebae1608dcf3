-------------------------------- MODULE Sums --------------------------------
(***************************************************************************)
(* Sums of sequences, as a recursive function that can be proved about.    *)
(***************************************************************************)
EXTENDS Integers, Sequences

\* The sums of a sequence's beginnings, by their length.
SumsOf(costs) ==
    LET sum[i \in 0 .. Len(costs)] ==
           IF i = 0 THEN 0 ELSE sum[i - 1] + costs[i]
    IN  sum
=============================================================================
