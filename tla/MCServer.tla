------------------------------ MODULE MCServer ------------------------------
(***************************************************************************)
(* The server on small instances.  Ids and key ids overlap in 1.           *)
(***************************************************************************)
EXTENDS ServerLife, TLC

CONSTANTS a, b, t1, t2, k1, k2

MCIds == 1 .. 2
MCKeyIds == {1}
MCBad == {2}

MCSymmetry == Permutations({a, b}) \cup Permutations({k1, k2})
=============================================================================
