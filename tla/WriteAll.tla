------------------------------- MODULE WriteAll -------------------------------
(***************************************************************************)
(* http::io::co_write_all (src/src/http.cpp): the loop every response goes *)
(* through.  One co_write either writes all that is left or fails after    *)
(* part of it; failures are sorted into classes (src/src/http.h), some are *)
(* retried after a pause.                                                  *)
(*                                                                         *)
(* The socket is asio's: a peer that has gone makes every later write      *)
(* fail with a disconnect error, and a write that succeeds is complete.    *)
(***************************************************************************)
EXTENDS Integers, Sequences

CONSTANTS MaxBytes,   \* bound: length of the buffer to send
          Errors,     \* error codes the socket may return while the peer is there
          MAX_RETRIES \* TransferState::MAX_RETRIES

Disconnects == {"connection_reset", "broken_pipe", "eof"}
Permanent   == {"bad_descriptor", "address_in_use"}
Retryable   == {"would_block", "try_again", "network_unreachable", "host_unreachable",
                "connection_refused", "timed_out", "no_buffer_space"}

ASSUME WriteAllAssumption ==
  /\ MaxBytes \in Nat \ {0}
  /\ MAX_RETRIES \in Nat
  /\ "none" \notin Errors

VARIABLES total,  \* total_bytes
          sent,   \* bytes_sent, as the loop counts them
          retry,  \* retry_count
          pc,     \* "write", "backoff" or "done"
          status, \* status of the WriteStatus returned
          bytes,  \* bytes of the WriteStatus returned
          peer,   \* "up" or "gone"
          wire,   \* history: the buffer offsets handed to the transport, in order
          turn    \* history: parity of the turns, so that one without effect shows

vars == <<total, sent, retry, pc, status, bytes, peer, wire, turn>>

\* Slip: codes without a case of their own fall through to success.
ErrorToStatusDefaultOk(e) ==
  CASE e \in Disconnects -> 499
    [] e \in Permanent   -> 500
    [] OTHER             -> 200

\* error_to_status
ErrorToStatus(e) ==
  CASE e = "none"            -> 200
    [] e \in Disconnects     -> 499
    [] e = "access_denied"   -> 403
    [] e \in Permanent       -> 500
    [] e = "no_buffer_space" -> 507
    [] e = "timed_out"       -> 504
    [] OTHER                 -> 503

Pending == {0}
Statuses == Pending \cup {200, 403, 499, 500, 503, 504, 507}

Init ==
  /\ total \in 0..MaxBytes
  /\ sent = 0
  /\ retry = 1
  /\ pc = "write"
  /\ status = 0
  /\ bytes = 0
  /\ peer = "up"
  /\ wire = <<>>
  /\ turn = 0

\* What one co_write of the rest can do: an error code and a byte count.
Outcomes ==
  IF peer = "gone"
  THEN {<<e, 0>> : e \in Disconnects}
  ELSE {<<"none", total - sent>>}
         \cup {<<e, n>> : e \in Errors, n \in 0..(total - sent - 1)}

Transmit(n) == wire' = wire \o [i \in 1..n |-> sent + i]

\* Slip: every return reports the whole buffer.
ReturnTotal(s) == status' = s /\ bytes' = total /\ pc' = "done" /\ UNCHANGED <<sent, retry>>

\* Bytes of the last write are not in the count of an early return.
Return(s) == status' = s /\ bytes' = sent /\ pc' = "done" /\ UNCHANGED <<sent, retry>>

\* Slip: one retry too many.
GivesUpLate(e) == e \in Permanent \/ retry > MAX_RETRIES + 1

GivesUp(e) == e \in Permanent \/ retry > MAX_RETRIES

\* Slip: the bytes of a partial write are forgotten.
CountedNothing(n) == IF n = total - sent THEN sent + n ELSE sent

Counted(n) == sent + n

\* One turn of the loop: the write, then the checks in the order of the code.
Write ==
  /\ pc = "write" /\ sent < total
  /\ \E out \in Outcomes :
       LET e == out[1]
           n == out[2]
       IN  /\ Transmit(n)
           /\ \/ GivesUp(e) /\ Return(ErrorToStatus(e))
              \/ /\ ~GivesUp(e)
                 /\ sent' = Counted(n)
                 /\ pc' = IF e \in Retryable THEN "backoff" ELSE "write"
                 /\ UNCHANGED <<retry, status, bytes>>
  /\ turn' = 1 - turn
  /\ UNCHANGED <<total, peer>>

\* Slip: the retries are not counted.
RetryUncounted == retry

NextRetry == retry + 1

\* The pause of backoff() ends; its length is left out.  The code adds the
\* bytes after the pause, which nothing can observe.
BackoffEnds ==
  /\ pc = "backoff"
  /\ retry' = NextRetry
  /\ pc' = "write"
  /\ UNCHANGED <<total, sent, status, bytes, peer, wire, turn>>

Finish ==
  /\ pc = "write" /\ sent >= total
  /\ Return(IF sent = total THEN 200 ELSE 500)
  /\ UNCHANGED <<total, peer, wire, turn>>

PeerLeaves ==
  /\ peer = "up" /\ pc # "done"
  /\ peer' = "gone"
  /\ UNCHANGED <<total, sent, retry, pc, status, bytes, wire, turn>>

Done == pc = "done" /\ UNCHANGED vars

Loop == Write \/ BackoffEnds \/ Finish

Next == Loop \/ PeerLeaves \/ Done

Spec == Init /\ [][Next]_vars

\* The executor resumes the coroutine whenever an operation completes.
FairSpec == Spec /\ WF_vars(Loop)

-----------------------------------------------------------------------------
TypeOK ==
  /\ total \in 0..MaxBytes
  /\ sent \in 0..total
  /\ retry \in 1..(MAX_RETRIES + 1)
  /\ pc \in {"write", "backoff", "done"}
  /\ status \in Statuses
  /\ bytes \in 0..total
  /\ peer \in {"up", "gone"}
  /\ wire \in Seq(1..MaxBytes)
  /\ turn \in {0, 1}

\* However failures and partial writes alternate, the transport receives the
\* buffer from its beginning without a gap, a repetition or a reordering.
WireIsPrefix == wire = [i \in 1..Len(wire) |-> i]

\* A status of success is returned only when the whole buffer was handed over,
\* also on the way out that gives up after MAX_RETRIES pauses (line 512).
SuccessIsComplete == status = 200 => Len(wire) = total

\* A caller that resumes after the bytes reported never skips any: the report
\* is at most what was handed over.
ReportIsSound == pc = "done" => bytes <= Len(wire)

\* What a caller of co_write_all relies on, whatever the socket does.
WriteSound == WireIsPrefix /\ SuccessIsComplete /\ ReportIsSound

\* The loop always returns: to the handler, or to the error page that must
\* "simply send the original error" (Router.cpp:157).
WriteReturns == <>(pc = "done")
=============================================================================
