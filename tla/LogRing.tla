------------------------------- MODULE LogRing -------------------------------
(***************************************************************************)
(* logger::Logger (src/src/logger.cpp): threads push entries into a ring   *)
(* of slots, one worker pops them into a batch and writes the batch to the *)
(* sinks.  A push is two steps: the ticket is taken from `head`, and the   *)
(* entry is stored in the ticket's slot some time later.  The worker looks *)
(* at `head` only, so it may take a slot before its entry is stored, and a *)
(* producer a lap ahead overwrites an entry nobody has taken.              *)
(*                                                                         *)
(* An entry is named by its ticket.  The move of a slot's unique_ptr is    *)
(* one step here; two threads moving the same slot at once is a data race  *)
(* whose torn outcomes are left out.  What the sinks do is not modelled.   *)
(***************************************************************************)
EXTENDS Integers, Sequences, FiniteSets

CONSTANTS Producers,
          Nobody,
          Slots,      \* LOG_BUFFER_SIZE
          BatchSize,  \* ENTRY_BATCH_SIZE
          Timeout,    \* BATCH_TIMEOUT in units of the worker's sleep of 5 ms
          MaxEntries, \* bound: entries pushed in one behaviour
          WithFatal   \* may a producer's entry be a FATAL one?

ASSUME LogRingAssumption ==
  /\ Slots \in Nat \ {0, 1}
  /\ BatchSize \in Nat \ {0}
  /\ Timeout \in Nat \ {0}
  /\ MaxEntries \in Nat \ {0}
  /\ WithFatal \in BOOLEAN
  /\ Nobody \notin Producers

VARIABLES head,    \* the next ticket
          tail,    \* the next position to pop
          slot,    \* log_buffer
          pc,      \* where each producer is
          ticket,  \* the producer's pos
          fatal,   \* the producer whose entry is FATAL
          wpc,     \* where the worker is
          batch,   \* the first `entries` elements of the worker's batch
          age,     \* time since last_flush, up to Timeout
          running,
          flushes, \* how often stopAndFlush was called
          written, \* history: what the sinks were given
          missed,  \* history: positions popped while their slot was empty
          lost,    \* history: entries overwritten in their slot
          filled   \* history: the ring has been full of tickets at some time

producers == <<pc, ticket, fatal>>
worker == <<wpc, batch, age>>
history == <<missed, lost, filled>>
vars == <<head, tail, slot, producers, worker, running, flushes, written, history>>

Tickets == 0..(MaxEntries - 1)
Empty == -1

SlotOf(pos) == pos % Slots

Init ==
  /\ head = 0
  /\ tail = 0
  /\ slot = [s \in 0..(Slots - 1) |-> Empty]
  /\ pc = [p \in Producers |-> "idle"]
  /\ ticket = [p \in Producers |-> 0]
  /\ fatal = Nobody
  /\ wpc = "loop"
  /\ batch = <<>>
  /\ age \in 0..Timeout
  /\ running = TRUE
  /\ flushes = 0
  /\ written = <<>>
  /\ missed = {}
  /\ lost = {}
  /\ filled = FALSE

Goto(p, place) == pc' = [pc EXCEPT ![p] = place]

-----------------------------------------------------------------------------
\* Slip: load and store for fetch_add, so that an increment may be lost.
AdvanceNotAtomic == head' \in {head, head + 1}

\* push: fetch_add, then the store.
Advance == head' = head + 1

\* The first position whose slot has not been vacated: pop increments `tail`
\* before it moves the entry out.
Vacated == IF wpc = "take" \/ \E p \in Producers : pc[p] = "take" THEN tail - 1 ELSE tail

Claim(p) ==
  /\ pc[p] = "idle" /\ head < MaxEntries
  /\ ticket' = [ticket EXCEPT ![p] = head]
  /\ Advance
  /\ \/ UNCHANGED fatal
     \/ WithFatal /\ fatal = Nobody /\ fatal' = p
  /\ filled' = (filled \/ head + 1 - Vacated >= Slots)
  /\ Goto(p, "store")
  /\ UNCHANGED <<tail, slot, worker, running, flushes, written, missed, lost>>

Store(p) ==
  /\ pc[p] = "store"
  /\ LET s == SlotOf(ticket[p])
     IN  /\ slot' = [slot EXCEPT ![s] = ticket[p]]
         /\ lost' = lost \cup ({slot[s]} \ {Empty})
  /\ Goto(p, IF fatal = p THEN "stop" ELSE "idle")
  /\ UNCHANGED <<head, tail, ticket, fatal, worker, running, flushes, written, missed, filled>>

-----------------------------------------------------------------------------
\* pop.  Only the thread that pops uses `tail`, so everything up to the move
\* out of the slot is one step.
Behind == head - tail >= Slots

PopFrom == IF Behind THEN head - Slots + 1 ELSE tail

\* Slip: the newest entry is taken for the end.
NothingToPopEarly == PopFrom + 1 >= head

NothingToPop == PopFrom >= head

Advanced == tail' = PopFrom + 1

\* The slot pop moves out of, and what is left there.
Popped == slot[SlotOf(tail - 1)]
\* Slip: the entry is copied out of its slot instead of moved.
VacateNothing == UNCHANGED slot

Vacate == slot' = [slot EXCEPT ![SlotOf(tail - 1)] = Empty]
NoteMissed == missed' = IF Popped = Empty THEN missed \cup {tail - 1} ELSE missed

-----------------------------------------------------------------------------
\* The worker: run and processBatch.
Flush == written' = written \o batch /\ batch' = <<>>

\* Slip: the time since the last flush is taken too small, always.
TimedOutNever == FALSE

\* timeout: BATCH_TIMEOUT has passed since the last flush.
TimedOut == age >= Timeout

\* A turn ends with a sleep of at least one unit of age.
Slept(since) == IF since < Timeout THEN (since + 1)..Timeout ELSE {Timeout}

\* run's loop condition.  Once it has been seen true, the turn is taken to its end,
\* whoever stops the logger meanwhile.
Check ==
  /\ wpc = "loop" /\ running
  /\ wpc' = "turn"
  /\ UNCHANGED <<head, tail, slot, producers, batch, age, running, flushes, written, history>>

\* processBatch up to the move out of the slot.  The flush touches nothing another
\* thread looks at before it has joined the worker.
Turn ==
  /\ wpc = "turn"
  /\ LET due   == batch # <<>> /\ TimedOut
         since == IF due THEN 0 ELSE age
     IN  /\ IF due THEN Flush ELSE UNCHANGED <<written, batch>>
         /\ IF NothingToPop
            THEN age' \in Slept(since) /\ wpc' = "loop" /\ UNCHANGED tail
            ELSE age' = since /\ Advanced /\ wpc' = "take"
  /\ UNCHANGED <<head, slot, producers, running, flushes, history>>

\* Slip: the batch is flushed one entry late.
BatchFullLate(b) == Len(b) > BatchSize

BatchFull(b) == Len(b) >= BatchSize

Take ==
  /\ wpc = "take"
  /\ Vacate /\ NoteMissed
  /\ LET b == IF Popped = Empty THEN batch ELSE Append(batch, Popped)
     IN  IF Popped # Empty /\ BatchFull(b)
         THEN written' = written \o b /\ batch' = <<>> /\ age' \in Slept(0)
         ELSE batch' = b /\ age' \in Slept(age) /\ UNCHANGED written
  /\ wpc' = "loop"
  /\ UNCHANGED <<head, tail, producers, running, flushes, lost, filled>>

LastFlush ==
  /\ wpc = "loop" /\ ~running
  /\ Flush
  /\ wpc' = "ended"
  /\ UNCHANGED <<head, tail, slot, producers, age, running, flushes, history>>

-----------------------------------------------------------------------------
\* FATAL: stopAndFlush, then exit, whose ~Logger is a second stopAndFlush.
Stop(p) ==
  /\ pc[p] = "stop"
  /\ running' = FALSE
  /\ flushes' = flushes + 1
  /\ Goto(p, "join")
  /\ UNCHANGED <<head, tail, slot, ticket, fatal, worker, written, history>>

Join(p) ==
  /\ pc[p] = "join" /\ wpc = "ended"
  /\ Flush
  /\ Goto(p, "drain")
  /\ UNCHANGED <<head, tail, slot, ticket, fatal, wpc, age, running, flushes, history>>

\* The drain ends at the first null, whatever pop meant by it.
DrainEnds(p) == Goto(p, IF flushes = 1 THEN "stop" ELSE "gone")

Drain(p) ==
  /\ pc[p] = "drain"
  /\ IF NothingToPop
     THEN DrainEnds(p) /\ UNCHANGED tail
     ELSE Goto(p, "take") /\ Advanced
  /\ UNCHANGED <<head, slot, ticket, fatal, worker, running, flushes, written, history>>

DrainTake(p) ==
  /\ pc[p] = "take"
  /\ Vacate /\ NoteMissed
  /\ IF Popped = Empty
     THEN DrainEnds(p) /\ UNCHANGED written
     ELSE Goto(p, "drain") /\ written' = Append(written, Popped)
  /\ UNCHANGED <<head, tail, ticket, fatal, worker, running, flushes, lost, filled>>

Exited == \E p \in Producers : pc[p] = "gone"

Push(p) == Claim(p) \/ Store(p)
Exiting(p) == Stop(p) \/ Join(p) \/ Drain(p) \/ DrainTake(p)
Worker == Check \/ Turn \/ Take \/ LastFlush

\* exit ends every thread of the process.
Step == ~Exited /\ (Worker \/ \E p \in Producers : Push(p) \/ Exiting(p))

Next == Step \/ (Exited /\ UNCHANGED vars)

Spec == Init /\ [][Next]_vars

\* The worker is a thread of its own; so is a producer inside push or exit.
FairSpec ==
  /\ Spec
  /\ WF_vars(~Exited /\ Worker)
  /\ \A p \in Producers : WF_vars(~Exited /\ (Store(p) \/ Exiting(p)))

-----------------------------------------------------------------------------
TypeOK ==
  /\ head \in 0..MaxEntries
  /\ tail \in 0..head
  /\ slot \in [0..(Slots - 1) -> Tickets \cup {Empty}]
  /\ pc \in [Producers -> {"idle", "store", "stop", "join", "drain", "take", "gone"}]
  /\ ticket \in [Producers -> Tickets]
  /\ fatal \in Producers \cup {Nobody}
  /\ wpc \in {"loop", "turn", "take", "ended"}
  /\ batch \in Seq(Tickets) /\ Len(batch) < BatchSize
  /\ age \in 0..Timeout
  /\ running \in BOOLEAN
  /\ flushes \in 0..2
  /\ written \in Seq(Tickets)
  /\ missed \subseteq Tickets /\ lost \subseteq Tickets
  /\ filled \in BOOLEAN

Handled == written \o batch
InRing == {slot[s] : s \in DOMAIN slot} \ {Empty}
Elements(s) == {s[i] : i \in 1..Len(s)}
Storing == {ticket[p] : p \in {q \in Producers : pc[q] = "store"}}

\* No entry is written twice or written after it was overwritten, over any
\* number of laps, slots taken early and calls of stopAndFlush; and none
\* vanishes: it is being stored, in the ring, handled or overwritten.
EachEntryOnce ==
  /\ \A i, j \in 1..Len(Handled) : Handled[i] = Handled[j] => i = j
  /\ Elements(Handled) \cap (InRing \cup lost) = {}
  /\ 0..(head - 1) = Storing \cup InRing \cup Elements(Handled) \cup lost

\* As long as the ring was never full, entries are overwritten only after the
\* worker took a slot before its entry was stored, and no more of them than it
\* took empty: the stalled producer's own entry, or the one it later stores
\* over.  (On a full ring pop drops the oldest position although nothing need
\* have overwritten it yet, line 202, and producers overwrite the rest.)
LossHasCause == filled \/ Cardinality(lost) <= Cardinality(missed)

\* Entries are written in the order of their tickets as long as no slot was
\* taken before its entry was stored and the ring was never full;
\* then also nothing logged before a FATAL entry, nor that entry, is missing
\* when the program has exited.
CleanRunComplete ==
  missed = {} /\ ~filled =>
    /\ \A i, j \in 1..Len(Handled) : i < j => Handled[i] < Handled[j]
    /\ Exited => 0..ticket[fatal] \subseteq Elements(written)

\* No entry is lost or overtaken without one of the two causes.
LossExplained == LossHasCause /\ CleanRunComplete

\* The ring, its worker and the drain of stopAndFlush together keep the promise of
\* EntryLog: what the sinks were given is never taken back, an entry in the batch
\* keeps its place, and an entry that was handled or overwritten does not turn up
\* again (logger.cpp:194-237).
Log == INSTANCE EntryLog
         WITH come <- head, waiting <- Storing \cup InRing, taken <- Handled,
              output <- written, drops <- Cardinality(lost), gaps <- Cardinality(missed), full <- filled
Logs == Log!LogSpec

\* FATAL "will flush the logger and exit the program" (logger_macros.h:90): when
\* the process is gone the entry of the FATAL itself has been written.
FatalIsWritten == Exited => ticket[fatal] \in Elements(written)

\* An entry in the batch does not wait for nine more: BATCH_TIMEOUT, or the
\* end of the worker, has it written.
BatchIsFlushed ==
  \A e \in Tickets : e \in Elements(batch) ~> e \in Elements(written)
=============================================================================
