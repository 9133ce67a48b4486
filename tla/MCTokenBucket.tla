---------------------------- MODULE MCTokenBucket ----------------------------
(***************************************************************************)
(* TLC instances of TokenBucket.                                           *)
(***************************************************************************)
EXTENDS TokenBucket

CONSTANTS t1, t2, t3, k1

MCThreads == {t1, t2, t3}
MCKeys == {k1}
=============================================================================
