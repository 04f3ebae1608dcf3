---------------------------- MODULE MCCalcManager ----------------------------
(***************************************************************************)
(* CalcManager on small instances.  rand() is a table in which the least   *)
(* value comes last, so that ids do not follow the order of arrival.       *)
(***************************************************************************)
EXTENDS CalcManagerLife, TLC

CONSTANTS c1, c2, t1, t2, q1, q2, q3, q4

MCIds == 1 .. 4

\* Second s, draw n: two seconds of two draws, all different.
MCRands == [s \in 0 .. MaxClock |->
               [n \in 1 .. MaxDraws |-> 4 - ((2 * s + n - 1) % 4)]]

MCQuerySymmetry == Permutations({q1, q2, q3, q4})

MCSymmetry == Permutations({c1, c2}) \cup Permutations({t1, t2})

-----------------------------------------------------------------------------
(* Arrivals that never end.  A query whose result was collected is forgotten *)
(* and stands for a new one; the seconds, and with them the seeds, repeat.   *)

Forget(q) ==
    /\ q \in delivered
    /\ \A c \in Callers : query[c] # q /\ got[c] # q
    /\ ticket' = [ticket EXCEPT ![q] = NoId]
    /\ delivered' = delivered \ {q}
    /\ UNCHANGED <<clock, rng, qque, rque, callerVars, threadVars, cleaned>>

StartOver ==
    /\ clock = MaxClock
    /\ clock' = 0
    /\ UNCHANGED <<rng, qque, rque, callerVars, threadVars, ticket, delivered,
                   cleaned>>

\* Without cleaners only srand reads the clock: seconds pass before it does.
EndlessNext ==
    /\ \/ Next
       \/ StartOver
       \/ \E q \in Queries : Forget(q)
    /\ clock' # clock => \E c \in Callers : pc[c] = "srand"

EndlessSpec == Init /\ [][EndlessNext]_vars /\ Fairness
=============================================================================
