------------------------------ MODULE MCScripts ------------------------------
(***************************************************************************)
(* TLC instances of Scripts.                                               *)
(***************************************************************************)
EXTENDS Scripts

CONSTANTS s1, s2

MCSessions == {s1, s2}

\* Room for the socket and both pipes of one session and the socket and one pipe
\* of the other: a pipe may find the table full, and has room once some are closed.
MCNumbers == 3..10
=============================================================================
