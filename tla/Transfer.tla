------------------------------- MODULE Transfer -------------------------------
(***************************************************************************)
(* What a streamed response promises its client and the access log, without*)
(* buffers, chunks, partial writes, retries or descriptors: items arrive in*)
(* order and are never taken back, the head (item 0) before the bytes of   *)
(* the body; a length is announced once; success is claimed only for all of*)
(* it, or of a file that was cut meanwhile; after the end nothing arrives. *)
(***************************************************************************)
EXTENDS Integers, Sequences

VARIABLES received,  \* what the transport has been handed
          announced, \* the length of the body, 0 while it is unknown
          cut,       \* the file has become shorter than that
          uncounted, \* some of what was handed over is missing in the count
          result,    \* 0 while the response lasts, then its status
          logged     \* the length reported of a success

transferVars == <<received, announced, cut, uncounted, result, logged>>

InOrder(n) == [i \in 1..n |-> i - 1]

Success == 200..399

TransferInit ==
  /\ received = <<>>
  /\ announced = 0
  /\ cut = FALSE
  /\ uncounted = FALSE
  /\ result = 0
  /\ logged = 0

\* The length becomes known while at most the head has been sent.
Announce ==
  /\ announced = 0 /\ Len(received) <= 1
  /\ announced' \in Nat \ {0}
  /\ UNCHANGED <<received, cut, uncounted, result, logged>>

\* The environment cuts the file short.
Truncate ==
  /\ announced > 0 /\ ~cut
  /\ cut' = TRUE
  /\ UNCHANGED <<received, announced, uncounted, result, logged>>

\* A write's bytes are not counted (line 512 of http.cpp).
LoseCount ==
  /\ announced > 0 /\ received # <<>> /\ ~uncounted
  /\ uncounted' = TRUE
  /\ UNCHANGED <<received, announced, cut, result, logged>>

\* Whatever comes next, the head first: more than was announced only by way of
\* a count that is too small.
Deliver ==
  /\ Len(received') > Len(received)
  /\ received' = InOrder(Len(received'))
  /\ announced = 0 => Len(received') = 1
  /\ ~uncounted => Len(received') <= announced + 1
  /\ UNCHANGED <<announced, cut, uncounted, result, logged>>

Complete ==
  /\ announced > 0 /\ received # <<>>
  /\ cut \/ Len(received) > announced
  /\ result' = 200
  /\ logged' \in 0..(Len(received) - 1)
  /\ uncounted \/ logged' = Len(received) - 1
  /\ UNCHANGED <<received, announced, cut, uncounted>>

Fail ==
  /\ result' \in Nat \ ({0} \cup Success)
  /\ UNCHANGED <<received, announced, cut, uncounted, logged>>

TransferNext ==
  result = 0 /\ (Announce \/ Truncate \/ LoseCount \/ Deliver \/ Complete \/ Fail)

TransferSpec == TransferInit /\ [][TransferNext]_transferVars
=============================================================================
