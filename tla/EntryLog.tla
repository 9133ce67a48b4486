------------------------------- MODULE EntryLog -------------------------------
(***************************************************************************)
(* What a logger promises whoever logs, without slots, threads or batches: *)
(* entries are numbered as they come and wait until they are taken, once,  *)
(* or dropped; the output is ever more of what was taken, in that order.   *)
(* What is dropped, and what is taken out of turn, has a cause: too many   *)
(* entries at a time, or one that was looked for before it had arrived.    *)
(***************************************************************************)
EXTENDS Integers, Sequences

VARIABLES come,    \* how many entries have come
          waiting, \* those neither taken nor dropped
          taken,   \* those taken, in order
          output,  \* those of them that are written
          drops,   \* how many were given up
          gaps,    \* how often an entry was looked for in vain
          full     \* there have been too many at a time

logVars == <<come, waiting, taken, output, drops, gaps, full>>

LogInit ==
  /\ come = 0
  /\ waiting = {}
  /\ taken = <<>>
  /\ output = <<>>
  /\ drops = 0
  /\ gaps = 0
  /\ full = FALSE

Arrive ==
  /\ come' = come + 1
  /\ waiting' = waiting \cup {come}
  /\ full => full'
  /\ full' \in BOOLEAN
  /\ UNCHANGED <<taken, output, drops, gaps>>

LookInVain ==
  /\ gaps' = gaps + 1
  /\ UNCHANGED <<come, waiting, taken, output, drops, full>>

Drop(e) ==
  /\ full \/ drops < gaps
  /\ waiting' = waiting \ {e}
  /\ drops' = drops + 1
  /\ UNCHANGED <<come, taken, output, gaps, full>>

\* Written is written: the output only gets longer.
Written ==
  /\ Len(output') \in Len(output)..Len(taken')
  /\ \A i \in 1..Len(output') : output'[i] = taken'[i]

Take(e) ==
  /\ gaps = 0 /\ ~full => e = Len(taken)
  /\ waiting' = waiting \ {e}
  /\ taken' = Append(taken, e)
  /\ Written
  /\ UNCHANGED <<come, drops, gaps, full>>

Write ==
  /\ Written
  /\ UNCHANGED <<come, waiting, taken, drops, gaps, full>>

LogNext == Arrive \/ LookInVain \/ Write \/ \E e \in waiting : Take(e) \/ Drop(e)

LogSpec == LogInit /\ [][LogNext]_logVars
=============================================================================
