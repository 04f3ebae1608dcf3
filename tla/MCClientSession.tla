--------------------------- MODULE MCClientSession ---------------------------
(***************************************************************************)
(* One client on a small server.                                           *)
(***************************************************************************)
EXTENDS ClientSession

CONSTANTS a, t1, k1

MCIds == 1 .. 2
MCOneId == {1}
MCKeyIds == {1}

\* The second query of a session, after its keys and the first, throws.
MCBad == {3}
=============================================================================
