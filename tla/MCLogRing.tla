------------------------------ MODULE MCLogRing ------------------------------
(***************************************************************************)
(* TLC instances of LogRing.                                               *)
(***************************************************************************)
EXTENDS LogRing

CONSTANTS p1, p2, nobody

MCProducers == {p1, p2}
=============================================================================
