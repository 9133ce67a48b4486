---------------------------- MODULE MCFixedWindow ----------------------------
(***************************************************************************)
(* TLC instances of FixedWindow.                                           *)
(***************************************************************************)
EXTENDS FixedWindow

CONSTANTS t1, t2, t3, k1

MCThreads == {t1, t2}
MCThreads3 == {t1, t2, t3}
MCKey == {k1}
=============================================================================
