------------------------------ MODULE MCKeyFiles ------------------------------
(***************************************************************************)
(* Two processes, two ids, three seconds: the first and the last second    *)
(* draw the same id.                                                       *)
(***************************************************************************)
EXTENDS KeyFiles, TLC

CONSTANTS p1, p2

MCKeyIds == {101, 102}

MCFirstRand == [s \in 0 .. MaxClock |-> IF s % 2 = 0 THEN 101 ELSE 102]

MCSymmetry == Permutations({p1, p2})
=============================================================================
