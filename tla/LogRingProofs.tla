----------------------------- MODULE LogRingProofs -----------------------------
(***************************************************************************)
(* Proofs about the log ring, for every number of producers, slots, batch  *)
(* size and timeout: the state is well typed, every entry is in exactly    *)
(* one place, and entries are lost or overtaken only for the causes named. *)
(***************************************************************************)
EXTENDS LogRing, TLAPS, FiniteSetTheorems

Exiting0 == {"stop", "join", "drain", "take", "gone"}

\* Only the producer of the FATAL entry leaves push to exit, once the worker has
\* ended; the second stopAndFlush is the last.
ExitInv ==
  /\ \A p \in Producers :
       /\ pc[p] \in Exiting0 => fatal = p
       /\ fatal = p => pc[p] # "idle" /\ ticket[p] < head
       /\ fatal = p /\ pc[p] = "store" => flushes = 0
       /\ pc[p] = "stop" => flushes \in {0, 1}
       /\ pc[p] \in {"join", "drain", "take"} => flushes \in {1, 2}
       /\ pc[p] \in {"drain", "take", "gone"} => wpc = "ended"
       /\ pc[p] = "take" => tail >= 1
  /\ fatal = Nobody => flushes = 0
  /\ wpc = "ended" => batch = <<>>
  /\ wpc = "take" => tail >= 1

\* An entry is in the slot of its ticket, and in one place only.
PlaceInv ==
  /\ \A s \in DOMAIN slot : slot[s] # Empty => SlotOf(slot[s]) = s
  /\ \A p, q \in Producers : pc[p] = "store" /\ pc[q] = "store" /\ ticket[p] = ticket[q] => p = q
  /\ 0..(head - 1) = Storing \cup InRing \cup Elements(Handled) \cup lost
  /\ Storing \cap (InRing \cup Elements(Handled) \cup lost) = {}
  /\ InRing \cap lost = {}
  /\ Elements(Handled) \cap (InRing \cup lost) = {}
  /\ \A i, j \in 1..Len(Handled) : Handled[i] = Handled[j] => i = j

\* On a ring that was never full no position is skipped: each that was vacated was
\* missed or gave one entry, and the slot of each that was not is occupied, or will
\* be by the producer that holds its ticket.
LossInv ==
  ~filled =>
    /\ head - Vacated < Slots
    /\ missed \subseteq 0..(Vacated - 1)
    /\ Vacated <= Cardinality(missed) + Len(Handled)
    /\ \A t \in Vacated..(head - 1) : t \in Storing \/ slot[SlotOf(t)] # Empty

\* Without a miss as well, what was handled is what was vacated, in order.
CleanInv ==
  ~filled /\ missed = {} =>
    /\ Len(Handled) = Vacated
    /\ \A i \in 1..Len(Handled) : Handled[i] = i - 1
    /\ \A p \in Producers : pc[p] = "gone" => Vacated = head

RingInv == TypeOK /\ ExitInv /\ PlaceInv /\ LossInv /\ CleanInv

-----------------------------------------------------------------------------
\* Slots and tickets.

LEMMA SlotRange ==
  ASSUME NEW t \in Nat
  PROVE  SlotOf(t) \in 0..(Slots - 1)
  BY LogRingAssumption DEF SlotOf

\* Less than a lap apart, no two tickets share a slot.
LEMMA SlotsApart ==
  ASSUME NEW a \in Nat, NEW b \in Nat, a < b, b - a < Slots
  PROVE  SlotOf(a) # SlotOf(b)
<1> DEFINE S == Slots
           m == a \div S
           n == b \div S
<1>1. S \in Nat \ {0}
  BY LogRingAssumption
<1>2. /\ m \in Int /\ n \in Int
      /\ a = S * m + (a % S) /\ b = S * n + (b % S)
  BY <1>1
<1> HIDE DEF m, n, S
<1>3. SUFFICES ASSUME (a % S) = (b % S) PROVE FALSE
  BY DEF SlotOf, S
<1>4. b - a = S * n - S * m
  BY <1>1, <1>2, <1>3
<1>5. b - a = S * (n - m)
  BY <1>1, <1>2, <1>4
<1>6. n - m >= 1 \/ n - m <= 0
  BY <1>2
<1>7. QED
  BY <1>1, <1>2, <1>5, <1>6 DEF S

-----------------------------------------------------------------------------
\* Types, and who may be where.

TypesInv == TypeOK /\ ExitInv

LEMMA PopTypes ==
  ASSUME TypeOK, tail >= 1
  PROVE  /\ tail - 1 \in Tickets /\ tail - 1 \in Nat
         /\ SlotOf(tail - 1) \in 0..(Slots - 1)
         /\ Popped \in Tickets \cup {Empty}
<1>1. tail - 1 \in Tickets /\ tail - 1 \in Nat
  BY LogRingAssumption DEF TypeOK, Tickets
<1>2. SlotOf(tail - 1) \in 0..(Slots - 1)
  BY <1>1, SlotRange
<1>3. QED
  BY <1>1, <1>2 DEF TypeOK, Popped

LEMMA VacateTypes ==
  ASSUME TypeOK, tail >= 1, Vacate, NoteMissed
  PROVE  /\ slot' \in [0..(Slots - 1) -> Tickets \cup {Empty}]
         /\ missed' \subseteq Tickets
<1>1. slot' \in [0..(Slots - 1) -> Tickets \cup {Empty}]
  BY PopTypes DEF TypeOK, Vacate
<1>2. missed' \subseteq Tickets
  BY PopTypes DEF TypeOK, NoteMissed
<1>3. QED
  BY <1>1, <1>2

LEMMA AdvancedTypes ==
  ASSUME TypeOK, ~NothingToPop, Advanced, UNCHANGED head
  PROVE  tail' \in 0..head' /\ tail' >= 1
  BY LogRingAssumption DEF TypeOK, NothingToPop, PopFrom, Behind, Advanced

LEMMA FlushTypes ==
  ASSUME TypeOK, Flush
  PROVE  /\ batch' \in Seq(Tickets) /\ Len(batch') < BatchSize /\ batch' = <<>>
         /\ written' \in Seq(Tickets)
<1>1. batch' = <<>> /\ written' = written \o batch
  BY DEF Flush
<1>2. written' \in Seq(Tickets)
  BY <1>1 DEF TypeOK
<1>3. QED
  BY <1>1, <1>2, LogRingAssumption

LEMMA GotoTypes ==
  ASSUME TypeOK, NEW p \in Producers, NEW place, Goto(p, place)
  PROVE  /\ pc'[p] = place /\ \A q \in Producers : q # p => pc'[q] = pc[q]
         /\ place \in {"idle", "store", "stop", "join", "drain", "take", "gone"} =>
              pc' \in [Producers -> {"idle", "store", "stop", "join", "drain", "take", "gone"}]
  BY DEF TypeOK, Goto

LEMMA TypesInit == Init => TypesInv
<1> SUFFICES ASSUME Init PROVE TypeOK /\ ExitInv
  BY DEF TypesInv
<1>1. <<>> \in Seq(Tickets) /\ Len(<<>>) < BatchSize
  BY LogRingAssumption
<1>2. 0 \in Tickets
  BY LogRingAssumption DEF Tickets
<1>3. TypeOK
  BY <1>1, <1>2, LogRingAssumption DEF Init, TypeOK
<1>4. ExitInv
  BY LogRingAssumption DEF Init, ExitInv, Exiting0
<1>5. QED
  BY <1>3, <1>4

LEMMA ClaimTypes == ASSUME TypesInv, NEW p \in Producers, Claim(p) PROVE TypesInv'
<1>0. TypeOK /\ ExitInv
  BY DEF TypesInv
<1>1. /\ pc[p] = "idle" /\ head < MaxEntries /\ head' = head + 1
      /\ ticket' = [ticket EXCEPT ![p] = head] /\ Goto(p, "store")
      /\ fatal' = fatal \/ (fatal = Nobody /\ fatal' = p)
      /\ filled' = (filled \/ head + 1 - Vacated >= Slots)
      /\ UNCHANGED <<tail, slot, wpc, batch, age, running, flushes, written, missed, lost>>
  BY DEF Claim, Advance, worker
<1>2. /\ pc'[p] = "store" /\ \A q \in Producers : q # p => pc'[q] = pc[q]
      /\ pc' \in [Producers -> {"idle", "store", "stop", "join", "drain", "take", "gone"}]
  BY <1>0, <1>1, GotoTypes
<1>3. ticket' \in [Producers -> Tickets]
  <2>1. head \in Tickets
    BY <1>0, <1>1, LogRingAssumption DEF TypeOK, Tickets
  <2>2. QED
    BY <1>0, <1>1, <2>1 DEF TypeOK
<1>4. filled' \in BOOLEAN
  BY <1>0, <1>1 DEF TypeOK
<1>5. TypeOK'
  <2>1. head' \in 0..MaxEntries /\ tail' \in 0..head'
    BY <1>0, <1>1, LogRingAssumption DEF TypeOK
  <2>2. QED
    BY <1>0, <1>1, <1>2, <1>3, <1>4, <2>1 DEF TypeOK
<1>6. fatal # p
  BY <1>0, <1>1 DEF ExitInv
<1>t. \A q \in Producers : fatal' = q => ticket'[q] < head'
  <2>1. head \in Nat /\ head' = head + 1
    BY <1>0, <1>1, LogRingAssumption DEF TypeOK
  <2>2. ticket'[p] = head /\ \A q \in Producers : q # p => ticket'[q] = ticket[q]
    BY <1>0, <1>1 DEF TypeOK
  <2>3. \A q \in Producers : q # p /\ fatal' = q => ticket[q] < head
    BY <1>0, <1>1 DEF ExitInv
  <2>4. \A q \in Producers : ticket[q] \in Int
    BY <1>0 DEF TypeOK, Tickets
  <2>5. QED
    BY <2>1, <2>2, <2>3, <2>4
<1>7. ExitInv'
  BY <1>0, <1>1, <1>2, <1>6, <1>t, LogRingAssumption DEF ExitInv, Exiting0
<1>8. QED
  BY <1>5, <1>7 DEF TypesInv

LEMMA StoreTypes == ASSUME TypesInv, NEW p \in Producers, Store(p) PROVE TypesInv'
<1>0. TypeOK /\ ExitInv
  BY DEF TypesInv
<1> DEFINE s == SlotOf(ticket[p])
<1>1. /\ pc[p] = "store" /\ slot' = [slot EXCEPT ![s] = ticket[p]]
      /\ lost' = lost \cup ({slot[s]} \ {Empty})
      /\ Goto(p, IF fatal = p THEN "stop" ELSE "idle")
      /\ UNCHANGED <<head, tail, ticket, fatal, wpc, batch, age, running, flushes, written,
                     missed, filled>>
  BY DEF Store, worker
<1>2. ticket[p] \in Tickets /\ s \in 0..(Slots - 1)
  BY <1>0, SlotRange DEF TypeOK, Tickets
<1> HIDE DEF s
<1>3. /\ pc'[p] = IF fatal = p THEN "stop" ELSE "idle"
      /\ \A q \in Producers : q # p => pc'[q] = pc[q]
      /\ pc' \in [Producers -> {"idle", "store", "stop", "join", "drain", "take", "gone"}]
  BY <1>0, <1>1, GotoTypes
<1>4. slot' \in [0..(Slots - 1) -> Tickets \cup {Empty}]
  BY <1>0, <1>1, <1>2 DEF TypeOK
<1>5. lost' \subseteq Tickets
  BY <1>0, <1>1, <1>2 DEF TypeOK
<1>6. TypeOK'
  BY <1>0, <1>1, <1>3, <1>4, <1>5 DEF TypeOK
<1>7. ExitInv'
  BY <1>0, <1>1, <1>3 DEF ExitInv, Exiting0
<1>8. QED
  BY <1>6, <1>7 DEF TypesInv

LEMMA SleptTypes ==
  ASSUME NEW since \in 0..Timeout
  PROVE  Slept(since) \subseteq 0..Timeout
  BY LogRingAssumption DEF Slept

LEMMA CheckTypes == ASSUME TypesInv, Check PROVE TypesInv'
<1>1. /\ wpc = "loop" /\ wpc' = "turn"
      /\ UNCHANGED <<head, tail, slot, pc, ticket, fatal, batch, age, running, flushes,
                     written, missed, lost, filled>>
  BY DEF Check, producers, history
<1>2. TypeOK' /\ ExitInv'
  BY <1>1 DEF TypesInv, TypeOK, ExitInv, Exiting0
<1>3. QED
  BY <1>2 DEF TypesInv

LEMMA TurnTypes == ASSUME TypesInv, Turn PROVE TypesInv'
<1>0. TypeOK /\ ExitInv
  BY DEF TypesInv
<1>1. /\ wpc = "turn"
      /\ UNCHANGED <<head, slot, pc, ticket, fatal, running, flushes, missed, lost, filled>>
      /\ Flush \/ UNCHANGED <<written, batch>>
  BY DEF Turn, producers, history
<1>2. PICK since \in {0, age} :
        \/ age' \in Slept(since) /\ UNCHANGED tail /\ wpc' = "loop"
        \/ age' = since /\ ~NothingToPop /\ Advanced /\ wpc' = "take"
  BY DEF Turn
<1>3. age' \in 0..Timeout
  <2>1. since \in 0..Timeout
    BY <1>0, <1>2, LogRingAssumption DEF TypeOK
  <2>2. QED
    BY <1>2, <2>1, SleptTypes
<1>4. /\ batch' \in Seq(Tickets) /\ Len(batch') < BatchSize /\ written' \in Seq(Tickets)
      /\ batch = <<>> => batch' = <<>>
  <2>1. CASE Flush
    BY <1>0, <2>1, FlushTypes
  <2>2. CASE UNCHANGED <<written, batch>>
    BY <1>0, <2>2 DEF TypeOK
  <2>3. QED
    BY <1>1, <2>1, <2>2
<1>5. /\ tail' \in 0..head' /\ wpc' \in {"loop", "take"}
      /\ wpc' = "take" => tail' >= 1
  <2>1. CASE UNCHANGED tail /\ wpc' = "loop"
    BY <1>0, <1>1, <2>1 DEF TypeOK
  <2>2. CASE ~NothingToPop /\ Advanced /\ wpc' = "take"
    BY <1>0, <1>1, <2>2, AdvancedTypes
  <2>3. QED
    BY <1>2, <2>1, <2>2
<1>6. TypeOK'
  BY <1>0, <1>1, <1>3, <1>4, <1>5 DEF TypeOK
<1>7. ExitInv'
  BY <1>0, <1>1, <1>4, <1>5 DEF ExitInv, Exiting0
<1>8. QED
  BY <1>6, <1>7 DEF TypesInv

LEMMA TakeTypes == ASSUME TypesInv, Take PROVE TypesInv'
<1>0. TypeOK /\ ExitInv
  BY DEF TypesInv
<1> DEFINE b == IF Popped = Empty THEN batch ELSE Append(batch, Popped)
<1>1. /\ wpc = "take" /\ wpc' = "loop" /\ Vacate /\ NoteMissed
      /\ UNCHANGED <<head, tail, pc, ticket, fatal, running, flushes, lost, filled>>
      /\ \/ /\ written' = written \o b /\ batch' = <<>> /\ age' \in Slept(0)
         \/ /\ ~(Popped # Empty /\ BatchFull(b))
            /\ batch' = b /\ age' \in Slept(age) /\ UNCHANGED written
  BY DEF Take, producers
<1>2. tail >= 1 /\ Popped \in Tickets \cup {Empty}
  BY <1>0, <1>1, PopTypes DEF ExitInv
<1>3. b \in Seq(Tickets) /\ (~(Popped # Empty /\ BatchFull(b)) => Len(b) < BatchSize)
  <2>1. CASE Popped = Empty
    BY <1>0, <2>1 DEF TypeOK
  <2>2. CASE Popped # Empty
    <3>1. b = Append(batch, Popped) /\ Popped \in Tickets /\ batch \in Seq(Tickets)
      BY <1>0, <1>2, <2>2 DEF TypeOK
    <3> HIDE DEF b
    <3>2. b \in Seq(Tickets)
      BY <3>1
    <3>3. QED
      BY <2>2, <3>2, LogRingAssumption DEF BatchFull
  <2>3. QED
    BY <2>1, <2>2
<1> HIDE DEF b
<1>4. /\ batch' \in Seq(Tickets) /\ Len(batch') < BatchSize /\ written' \in Seq(Tickets)
      /\ age' \in 0..Timeout
  <2>1. CASE written' = written \o b /\ batch' = <<>> /\ age' \in Slept(0)
    <3>1. written' \in Seq(Tickets)
      BY <1>0, <1>3, <2>1 DEF TypeOK
    <3>2. Slept(0) \subseteq 0..Timeout
      BY SleptTypes, LogRingAssumption
    <3>3. QED
      BY <2>1, <3>1, <3>2, LogRingAssumption
  <2>2. CASE /\ ~(Popped # Empty /\ BatchFull(b))
             /\ batch' = b /\ age' \in Slept(age) /\ UNCHANGED written
    BY <1>0, <1>3, <2>2, SleptTypes DEF TypeOK
  <2>3. QED
    BY <1>1, <2>1, <2>2
<1>5. slot' \in [0..(Slots - 1) -> Tickets \cup {Empty}] /\ missed' \subseteq Tickets
  BY <1>0, <1>1, <1>2, VacateTypes
<1>6. TypeOK'
  BY <1>0, <1>1, <1>4, <1>5 DEF TypeOK
<1>7. ExitInv'
  BY <1>0, <1>1 DEF ExitInv, Exiting0
<1>8. QED
  BY <1>6, <1>7 DEF TypesInv

LEMMA LastFlushTypes == ASSUME TypesInv, LastFlush PROVE TypesInv'
<1>0. TypeOK /\ ExitInv
  BY DEF TypesInv
<1>1. /\ wpc = "loop" /\ Flush /\ wpc' = "ended"
      /\ UNCHANGED <<head, tail, slot, pc, ticket, fatal, age, running, flushes, missed,
                     lost, filled>>
  BY DEF LastFlush, producers, history
<1>2. /\ batch' \in Seq(Tickets) /\ Len(batch') < BatchSize /\ batch' = <<>>
      /\ written' \in Seq(Tickets)
  BY <1>0, <1>1, FlushTypes
<1>3. TypeOK'
  BY <1>0, <1>1, <1>2 DEF TypeOK
<1>4. ExitInv'
  BY <1>0, <1>1, <1>2 DEF ExitInv, Exiting0
<1>5. QED
  BY <1>3, <1>4 DEF TypesInv

LEMMA StopTypes == ASSUME TypesInv, NEW p \in Producers, Stop(p) PROVE TypesInv'
<1>0. TypeOK /\ ExitInv
  BY DEF TypesInv
<1>1. /\ pc[p] = "stop" /\ running' = FALSE /\ flushes' = flushes + 1 /\ Goto(p, "join")
      /\ UNCHANGED <<head, tail, slot, ticket, fatal, wpc, batch, age, written, missed,
                     lost, filled>>
  BY DEF Stop, worker, history
<1>2. /\ pc'[p] = "join" /\ \A q \in Producers : q # p => pc'[q] = pc[q]
      /\ pc' \in [Producers -> {"idle", "store", "stop", "join", "drain", "take", "gone"}]
  BY <1>0, <1>1, GotoTypes
<1>3. flushes \in {0, 1} /\ fatal = p
  BY <1>0, <1>1 DEF ExitInv, Exiting0
<1>4. TypeOK'
  <2>1. flushes' \in 0..2
    BY <1>1, <1>3
  <2>2. running' \in BOOLEAN
    BY <1>1
  <2>3. QED
    BY <1>0, <1>1, <1>2, <2>1, <2>2 DEF TypeOK
<1>5. ExitInv'
  BY <1>0, <1>1, <1>2, <1>3, LogRingAssumption DEF ExitInv, Exiting0
<1>6. QED
  BY <1>4, <1>5 DEF TypesInv

LEMMA JoinTypes == ASSUME TypesInv, NEW p \in Producers, Join(p) PROVE TypesInv'
<1>0. TypeOK /\ ExitInv
  BY DEF TypesInv
<1>1. /\ pc[p] = "join" /\ wpc = "ended" /\ Flush /\ Goto(p, "drain")
      /\ UNCHANGED <<head, tail, slot, ticket, fatal, wpc, age, running, flushes, missed,
                     lost, filled>>
  BY DEF Join, history
<1>2. /\ pc'[p] = "drain" /\ \A q \in Producers : q # p => pc'[q] = pc[q]
      /\ pc' \in [Producers -> {"idle", "store", "stop", "join", "drain", "take", "gone"}]
  BY <1>0, <1>1, GotoTypes
<1>3. /\ batch' \in Seq(Tickets) /\ Len(batch') < BatchSize /\ batch' = <<>>
      /\ written' \in Seq(Tickets)
  BY <1>0, <1>1, FlushTypes
<1>4. TypeOK'
  BY <1>0, <1>1, <1>2, <1>3 DEF TypeOK
<1>5. ExitInv'
  BY <1>0, <1>1, <1>2, <1>3 DEF ExitInv, Exiting0
<1>6. QED
  BY <1>4, <1>5 DEF TypesInv

LEMMA DrainTypes == ASSUME TypesInv, NEW p \in Producers, Drain(p) PROVE TypesInv'
<1>0. TypeOK /\ ExitInv
  BY DEF TypesInv
<1>1. /\ pc[p] = "drain"
      /\ UNCHANGED <<head, slot, ticket, fatal, wpc, batch, age, running, flushes, written,
                     missed, lost, filled>>
      /\ \/ DrainEnds(p) /\ UNCHANGED tail
         \/ ~NothingToPop /\ Goto(p, "take") /\ Advanced
  BY DEF Drain, worker, history
<1>2. PICK place \in {"stop", "gone", "take"} :
        /\ Goto(p, place)
        /\ place = "stop" => flushes = 1
        /\ place = "take" => ~NothingToPop /\ Advanced
        /\ place # "take" => UNCHANGED tail
  BY <1>1 DEF DrainEnds
<1>3. /\ pc'[p] = place /\ \A q \in Producers : q # p => pc'[q] = pc[q]
      /\ pc' \in [Producers -> {"idle", "store", "stop", "join", "drain", "take", "gone"}]
  BY <1>0, <1>2, GotoTypes
<1>4. tail' \in 0..head' /\ (place = "take" => tail' >= 1)
  <2>1. CASE place = "take"
    BY <1>0, <1>1, <1>2, <2>1, AdvancedTypes
  <2>2. CASE place # "take"
    BY <1>0, <1>1, <1>2, <2>2 DEF TypeOK
  <2>3. QED
    BY <2>1, <2>2
<1>5. fatal = p /\ wpc = "ended" /\ flushes \in {1, 2}
      /\ \A q \in Producers : q # p => pc[q] \notin Exiting0
  BY <1>0, <1>1 DEF ExitInv, Exiting0
<1>6. TypeOK'
  BY <1>0, <1>1, <1>3, <1>4 DEF TypeOK
<1>7. ExitInv'
  BY <1>0, <1>1, <1>2, <1>3, <1>4, <1>5 DEF ExitInv, Exiting0
<1>8. QED
  BY <1>6, <1>7 DEF TypesInv

LEMMA DrainTakeTypes == ASSUME TypesInv, NEW p \in Producers, DrainTake(p) PROVE TypesInv'
<1>0. TypeOK /\ ExitInv
  BY DEF TypesInv
<1>1. /\ pc[p] = "take" /\ Vacate /\ NoteMissed
      /\ UNCHANGED <<head, tail, ticket, fatal, wpc, batch, age, running, flushes, lost, filled>>
      /\ \/ DrainEnds(p) /\ UNCHANGED written
         \/ Popped # Empty /\ Goto(p, "drain") /\ written' = Append(written, Popped)
  BY DEF DrainTake, worker
<1>2. PICK place \in {"stop", "gone", "drain"} :
        /\ Goto(p, place)
        /\ place = "stop" => flushes = 1
  BY <1>1 DEF DrainEnds
<1>3. /\ pc'[p] = place /\ \A q \in Producers : q # p => pc'[q] = pc[q]
      /\ pc' \in [Producers -> {"idle", "store", "stop", "join", "drain", "take", "gone"}]
  BY <1>0, <1>2, GotoTypes
<1>4. /\ tail >= 1 /\ fatal = p /\ wpc = "ended" /\ flushes \in {1, 2}
      /\ \A q \in Producers : q # p => pc[q] \notin Exiting0
  BY <1>0, <1>1 DEF ExitInv, Exiting0
<1>5. slot' \in [0..(Slots - 1) -> Tickets \cup {Empty}] /\ missed' \subseteq Tickets
  BY <1>0, <1>1, <1>4, VacateTypes
<1>6. written' \in Seq(Tickets)
  <2>1. Popped \in Tickets \cup {Empty}
    BY <1>0, <1>4, PopTypes
  <2>2. QED
    BY <1>0, <1>1, <2>1 DEF TypeOK
<1>7. TypeOK'
  BY <1>0, <1>1, <1>3, <1>5, <1>6 DEF TypeOK
<1>8. ExitInv'
  BY <1>0, <1>1, <1>2, <1>3, <1>4 DEF ExitInv, Exiting0
<1>9. QED
  BY <1>7, <1>8 DEF TypesInv

LEMMA StutterTypes == ASSUME TypesInv, UNCHANGED vars PROVE TypesInv'
<1>1. TypeOK'
  BY DEF TypesInv, TypeOK, vars, producers, worker, history
<1>2. ExitInv'
  BY DEF TypesInv, ExitInv, Exiting0, vars, producers, worker, history
<1>3. QED
  BY <1>1, <1>2 DEF TypesInv

LEMMA TypesKept == TypesInv /\ [Next]_vars => TypesInv'
  BY ClaimTypes, StoreTypes, CheckTypes, TurnTypes, TakeTypes, LastFlushTypes, StopTypes, JoinTypes,
     DrainTypes, DrainTakeTypes, StutterTypes DEF Next, Step, Worker, Push, Exiting

-----------------------------------------------------------------------------
\* Every entry in one place.

LEMMA OneMore ==
  ASSUME NEW S, NEW w \in Seq(S), NEW x \in S
  PROVE  /\ Append(w, x) \in Seq(S) /\ Len(Append(w, x)) = Len(w) + 1 /\ Len(w) \in Nat
         /\ Append(w, x)[Len(w) + 1] = x
         /\ \A i \in 1..Len(w) : Append(w, x)[i] = w[i]
  OBVIOUS

LEMMA ElementsOfAppend ==
  ASSUME NEW w \in Seq(Tickets), NEW x \in Tickets
  PROVE  /\ Elements(Append(w, x)) = Elements(w) \cup {x}
         /\ (x \notin Elements(w) /\ \A i, j \in 1..Len(w) : w[i] = w[j] => i = j)
              => \A i, j \in 1..Len(Append(w, x)) : Append(w, x)[i] = Append(w, x)[j] => i = j
<1> DEFINE n == Append(w, x)
<1>1. /\ Len(n) = Len(w) + 1 /\ Len(w) \in Nat /\ n[Len(w) + 1] = x
      /\ \A i \in 1..Len(w) : n[i] = w[i]
  BY OneMore
<1>2. 1..Len(n) = 1..Len(w) \cup {Len(w) + 1}
  BY <1>1
<1> HIDE DEF n
<1>3. Elements(n) = Elements(w) \cup {x}
  BY <1>1, <1>2 DEF Elements
<1>4. ASSUME x \notin Elements(w), \A i, j \in 1..Len(w) : w[i] = w[j] => i = j,
             NEW i \in 1..Len(n), NEW j \in 1..Len(n), n[i] = n[j]
      PROVE  i = j
  <2>1. \A k \in 1..Len(w) : w[k] # x
    BY <1>4 DEF Elements
  <2>2. QED
    BY <1>1, <1>2, <1>4, <2>1
<1>5. QED
  BY <1>3, <1>4 DEF n

LEMMA HandledTypes == TypeOK => Handled \in Seq(Tickets)
  BY DEF TypeOK, Handled

\* A flush moves entries from the batch to the sinks.
LEMMA FlushHandles ==
  ASSUME TypeOK, Flush
  PROVE  Handled' = Handled
<1>1. batch' = <<>> /\ written' = Handled
  BY DEF Flush, Handled
<1>2. Handled' = Handled
  BY <1>1, HandledTypes DEF Handled
<1>3. QED
  BY <1>2

\* What a pop that found an entry handles.
HandlesPopped == Handled' = IF Popped = Empty THEN Handled ELSE Append(Handled, Popped)

LEMMA TakeHandles ==
  ASSUME TypesInv, Take
  PROVE  HandlesPopped /\ tail >= 1
<1> DEFINE b == IF Popped = Empty THEN batch ELSE Append(batch, Popped)
<1>1. /\ wpc = "take"
      /\ \/ written' = written \o b /\ batch' = <<>>
         \/ batch' = b /\ written' = written
  BY DEF Take
<1>2. tail >= 1 /\ TypeOK
  BY <1>1 DEF TypesInv, ExitInv
<1>3. Popped \in Tickets \cup {Empty} /\ written \in Seq(Tickets) /\ batch \in Seq(Tickets)
  BY <1>2, PopTypes DEF TypeOK
<1>4. b \in Seq(Tickets)
  BY <1>3
<1>5. written \o b = IF Popped = Empty THEN Handled ELSE Append(Handled, Popped)
  BY <1>3 DEF Handled
<1> HIDE DEF b
<1>6. Handled' = written \o b
  <2>1. CASE written' = written \o b /\ batch' = <<>>
    <3>1. written \o b \in Seq(Tickets)
      BY <1>3, <1>4
    <3>2. QED
      BY <2>1, <3>1 DEF Handled
  <2>2. CASE batch' = b /\ written' = written
    BY <2>2 DEF Handled
  <2>3. QED
    BY <1>1, <2>1, <2>2
<1>7. QED
  BY <1>2, <1>5, <1>6 DEF HandlesPopped

LEMMA DrainTakeHandles ==
  ASSUME TypesInv, NEW p \in Producers, DrainTake(p)
  PROVE  HandlesPopped /\ tail >= 1
<1>1. /\ pc[p] = "take" /\ batch' = batch
      /\ IF Popped = Empty THEN written' = written ELSE written' = Append(written, Popped)
  BY DEF DrainTake, worker
<1>2. tail >= 1 /\ TypeOK /\ batch = <<>>
  BY <1>1 DEF TypesInv, ExitInv
<1>3. Popped \in Tickets \cup {Empty} /\ written \in Seq(Tickets)
  BY <1>2, PopTypes DEF TypeOK
<1>4. Handled' = IF Popped = Empty THEN Handled ELSE Append(Handled, Popped)
  <2>1. CASE Popped = Empty
    BY <1>1, <1>2, <2>1 DEF Handled
  <2>2. CASE Popped # Empty
    <3>1. Append(written, Popped) \in Seq(Tickets)
      BY <1>3, <2>2
    <3>2. QED
      BY <1>1, <1>2, <1>3, <2>2, <3>1 DEF Handled
  <2>3. QED
    BY <2>1, <2>2
<1>5. QED
  BY <1>2, <1>4 DEF HandlesPopped

\* The producers that store, and with what tickets, stay the same.
SameStores == \A q \in Producers : /\ pc'[q] = "store" <=> pc[q] = "store"
                                   /\ ticket'[q] = ticket[q]

LEMMA SameStoring ==
  ASSUME SameStores
  PROVE  Storing' = Storing
  BY DEF SameStores, Storing

LEMMA PlaceInit == Init => PlaceInv
<1> SUFFICES ASSUME Init PROVE PlaceInv
  OBVIOUS
<1>1. Handled = <<>>
  BY DEF Init, Handled
<1>2. Elements(Handled) = {}
  BY <1>1 DEF Elements
<1>3. Storing = {} /\ InRing = {} /\ lost = {} /\ 0..(head - 1) = {}
  BY DEF Init, Storing, InRing
<1>4. \A i, j \in 1..Len(Handled) : Handled[i] = Handled[j] => i = j
  BY <1>1
<1>5. \A s \in DOMAIN slot : slot[s] = Empty
  BY DEF Init
<1>6. \A p \in Producers : pc[p] # "store"
  BY DEF Init
<1>7. QED
  BY <1>2, <1>3, <1>4, <1>5, <1>6 DEF PlaceInv

LEMMA PlaceSame ==
  ASSUME PlaceInv, SameStores, UNCHANGED <<slot, head, lost>>, Handled' = Handled
  PROVE  PlaceInv'
<1>1. Storing' = Storing /\ InRing' = InRing /\ Elements(Handled)' = Elements(Handled)
  BY SameStoring DEF InRing, Elements
<1>2. \A s \in DOMAIN slot' : slot'[s] # Empty => SlotOf(slot'[s]) = s
  BY DEF PlaceInv, SlotOf
<1>3. \A p, q \in Producers :
        pc'[p] = "store" /\ pc'[q] = "store" /\ ticket'[p] = ticket'[q] => p = q
  BY DEF PlaceInv, SameStores
<1>4. \A i, j \in 1..Len(Handled') : Handled'[i] = Handled'[j] => i = j
  BY DEF PlaceInv
<1>5. QED
  BY <1>1, <1>2, <1>3, <1>4 DEF PlaceInv, SlotOf

LEMMA PlacePopped ==
  ASSUME TypesInv, PlaceInv, SameStores, UNCHANGED <<tail, head, lost>>,
         tail >= 1, Vacate, HandlesPopped
  PROVE  PlaceInv' /\ InRing' = InRing \ {Popped}
<1> DEFINE x == Popped
           k == SlotOf(tail - 1)
<1>0. TypeOK
  BY DEF TypesInv
<1>1. /\ x \in Tickets \cup {Empty} /\ k \in DOMAIN slot /\ x = slot[k]
      /\ slot' = [slot EXCEPT ![k] = Empty] /\ DOMAIN slot' = DOMAIN slot
      /\ Handled \in Seq(Tickets)
  BY <1>0, PopTypes, HandledTypes DEF Popped, Vacate, TypeOK
<1> HIDE DEF x, k
<1>2. InRing' = InRing \ {x}
  <2>1. \A s \in DOMAIN slot : s # k /\ slot[s] # Empty => slot[s] # x
    BY <1>1 DEF PlaceInv
  <2>2. \A s \in DOMAIN slot : slot'[s] = IF s = k THEN Empty ELSE slot[s]
    BY <1>1
  <2>3. QED
    BY <1>1, <2>1, <2>2 DEF InRing
<1>3. Storing' = Storing
  BY SameStoring
<1>4. \A s \in DOMAIN slot' : slot'[s] # Empty => SlotOf(slot'[s]) = s
  BY <1>1 DEF PlaceInv, SlotOf
<1>5. \A p, q \in Producers :
        pc'[p] = "store" /\ pc'[q] = "store" /\ ticket'[p] = ticket'[q] => p = q
  BY DEF PlaceInv, SameStores
<1>6. ASSUME x = Empty PROVE PlaceInv'
  <2>1. Handled' = Handled
    BY <1>6 DEF HandlesPopped, x
  <2>2. InRing' = InRing
    BY <1>2, <1>6 DEF InRing
  <2>3. Elements(Handled)' = Elements(Handled)
    BY <2>1 DEF Elements
  <2>4. \A i, j \in 1..Len(Handled') : Handled'[i] = Handled'[j] => i = j
    BY <2>1 DEF PlaceInv
  <2>5. QED
    BY <1>3, <1>4, <1>5, <2>2, <2>3, <2>4 DEF PlaceInv, SlotOf
<1>7. ASSUME x # Empty PROVE PlaceInv'
  <2>1. Handled' = Append(Handled, x) /\ x \in Tickets /\ x \in InRing
    BY <1>1, <1>7 DEF HandlesPopped, x, InRing
  <2>2. x \notin Elements(Handled)
    BY <2>1 DEF PlaceInv
  <2>3. /\ Elements(Handled') = Elements(Handled) \cup {x}
        /\ \A i, j \in 1..Len(Handled') : Handled'[i] = Handled'[j] => i = j
    BY <1>1, <2>1, <2>2, ElementsOfAppend DEF PlaceInv
  <2>4. Elements(Handled)' = Elements(Handled) \cup {x}
    BY <2>3 DEF Elements
  <2>5. QED
    BY <1>2, <1>3, <1>4, <1>5, <2>1, <2>3, <2>4 DEF PlaceInv, SlotOf
<1>8. QED
  BY <1>2, <1>6, <1>7 DEF x

LEMMA PlaceClaimed ==
  ASSUME TypesInv, PlaceInv, NEW p \in Producers, Claim(p)
  PROVE  PlaceInv' /\ Storing' = Storing \cup {head}
<1>0. TypeOK
  BY DEF TypesInv
<1>1. /\ pc[p] = "idle" /\ head' = head + 1 /\ head \in Nat
      /\ ticket' = [ticket EXCEPT ![p] = head] /\ Goto(p, "store")
      /\ UNCHANGED <<slot, batch, written, lost>>
  BY <1>0, LogRingAssumption DEF Claim, Advance, worker, TypeOK
<1>2. /\ pc'[p] = "store" /\ ticket'[p] = head
      /\ \A q \in Producers : q # p => pc'[q] = pc[q] /\ ticket'[q] = ticket[q]
  BY <1>0, <1>1, GotoTypes DEF TypeOK
<1>3. Storing' = Storing \cup {head}
  BY <1>1, <1>2 DEF Storing
<1>4. InRing' = InRing /\ Elements(Handled)' = Elements(Handled) /\ Handled' = Handled
  BY <1>1 DEF InRing, Elements, Handled
<1>5. 0..(head' - 1) = 0..(head - 1) \cup {head} /\ head \notin 0..(head - 1)
  BY <1>1
<1>6. \A q \in Producers : pc[q] = "store" => ticket[q] # head
  BY <1>5 DEF PlaceInv, Storing
<1>7. \A q, r \in Producers :
        pc'[q] = "store" /\ pc'[r] = "store" /\ ticket'[q] = ticket'[r] => q = r
  BY <1>2, <1>6 DEF PlaceInv
<1>8. \A s \in DOMAIN slot' : slot'[s] # Empty => SlotOf(slot'[s]) = s
  BY <1>1 DEF PlaceInv
<1>9. \A i, j \in 1..Len(Handled') : Handled'[i] = Handled'[j] => i = j
  BY <1>4 DEF PlaceInv
<1>10. /\ 0..(head' - 1) = Storing' \cup InRing' \cup Elements(Handled)' \cup lost'
       /\ Storing' \cap (InRing' \cup Elements(Handled)' \cup lost') = {}
       /\ InRing' \cap lost' = {}
       /\ Elements(Handled)' \cap (InRing' \cup lost') = {}
  BY <1>1, <1>3, <1>4, <1>5 DEF PlaceInv
<1>11. PlaceInv'
  BY <1>7, <1>8, <1>9, <1>10 DEF PlaceInv, SlotOf
<1>12. QED
  BY <1>3, <1>11

LEMMA PlaceStored ==
  ASSUME TypesInv, PlaceInv, NEW p \in Producers, Store(p)
  PROVE  /\ PlaceInv' /\ Storing' = Storing \ {ticket[p]}
         /\ InRing' = (InRing \ {slot[SlotOf(ticket[p])]}) \cup {ticket[p]}
<1> DEFINE t == ticket[p]
           k == SlotOf(t)
           old == slot[k]
<1>0. TypeOK
  BY DEF TypesInv
<1>1. /\ pc[p] = "store" /\ slot' = [slot EXCEPT ![k] = t]
      /\ lost' = lost \cup ({old} \ {Empty})
      /\ \E place \in {"stop", "idle"} : Goto(p, place)
      /\ UNCHANGED <<head, ticket, batch, written>>
  BY DEF Store, worker
<1>2. /\ t \in Tickets /\ t \in Nat /\ k \in DOMAIN slot /\ DOMAIN slot' = DOMAIN slot
      /\ t # Empty /\ t \in Storing
  <2>1. t \in Tickets /\ t \in Nat /\ t # Empty
    BY <1>0 DEF TypeOK, Tickets, Empty
  <2>2. k \in DOMAIN slot /\ DOMAIN slot' = DOMAIN slot
    BY <1>0, <1>1, <2>1, SlotRange DEF TypeOK
  <2>3. QED
    BY <1>1, <2>1, <2>2 DEF Storing
<1>3. /\ pc'[p] # "store"
      /\ \A q \in Producers : q # p => pc'[q] = pc[q]
  BY <1>0, <1>1, GotoTypes
<1>4. Storing' = Storing \ {t}
  BY <1>1, <1>3 DEF Storing, PlaceInv
<1>5. \A s \in DOMAIN slot : slot'[s] = IF s = k THEN t ELSE slot[s]
  <2>1. slot \in [0..(Slots - 1) -> Tickets \cup {Empty}]
    BY <1>0 DEF TypeOK
  <2> HIDE DEF t, k
  <2>2. QED
    BY <1>1, <2>1
<1>6. \A s \in DOMAIN slot' : slot'[s] # Empty => SlotOf(slot'[s]) = s
  BY <1>2, <1>5 DEF PlaceInv
<1> HIDE DEF t, k
<1>7. InRing' = (InRing \ {old}) \cup {t}
  <2>1. \A s \in DOMAIN slot : s # k /\ slot[s] # Empty => slot[s] # old
    BY <1>2 DEF PlaceInv
  <2>2. QED
    BY <1>2, <1>5, <2>1 DEF InRing
<1>8. Elements(Handled)' = Elements(Handled) /\ Handled' = Handled
  BY <1>1 DEF Elements, Handled
<1>9. old = Empty \/ old \in InRing
  BY <1>2 DEF InRing
<1>10. \A q, r \in Producers :
        pc'[q] = "store" /\ pc'[r] = "store" /\ ticket'[q] = ticket'[r] => q = r
  BY <1>1, <1>3 DEF PlaceInv
<1>11. \A i, j \in 1..Len(Handled') : Handled'[i] = Handled'[j] => i = j
  BY <1>8 DEF PlaceInv
<1>e. Empty \notin InRing
  BY DEF InRing
<1> HIDE DEF old
<1>12. /\ 0..(head' - 1) = Storing' \cup InRing' \cup Elements(Handled)' \cup lost'
       /\ Storing' \cap (InRing' \cup Elements(Handled)' \cup lost') = {}
       /\ InRing' \cap lost' = {}
       /\ Elements(Handled)' \cap (InRing' \cup lost') = {}
  <2>1. CASE old = Empty
    BY <1>1, <1>2, <1>4, <1>7, <1>8, <1>e, <2>1 DEF PlaceInv
  <2>2. CASE old \in InRing
    BY <1>1, <1>2, <1>4, <1>7, <1>8, <1>e, <2>2 DEF PlaceInv
  <2>3. QED
    BY <1>9, <2>1, <2>2
<1>13. PlaceInv'
  BY <1>6, <1>10, <1>11, <1>12 DEF PlaceInv, SlotOf
<1>14. QED
  BY <1>4, <1>7, <1>13 DEF t, k, old

-----------------------------------------------------------------------------
\* Losses and order on a ring that was never full.

\* Before a pop advances nothing is being taken; between its two halves one
\* position is.
LEMMA VacatedAtRest ==
  ASSUME TypesInv, wpc = "turn" \/ \E p \in Producers : pc[p] = "drain"
  PROVE  Vacated = tail
<1>1. wpc # "take" /\ \A p \in Producers : pc[p] # "take"
  BY DEF TypesInv, ExitInv, Exiting0
<1>2. QED
  BY <1>1 DEF Vacated

LEMMA VacatedTypes ==
  ASSUME TypesInv
  PROVE  Vacated \in Nat /\ Vacated <= tail /\ tail <= head /\ tail \in Nat /\ head \in Nat
         /\ head <= MaxEntries
  BY LogRingAssumption DEF TypesInv, TypeOK, ExitInv, Vacated

\* A step that pops nothing.  It may begin a pop: the position is not vacated yet.
LEMMA LossSame ==
  ASSUME LossInv, CleanInv, SameStores, UNCHANGED <<slot, head, filled, missed>>,
         Handled' = Handled, ~filled => Vacated' = Vacated,
         \A p \in Producers : pc'[p] = "gone" => filled \/ Vacated = head
  PROVE  LossInv' /\ CleanInv'
<1>1. Storing' = Storing
  BY SameStoring
<1>2. LossInv'
  BY <1>1 DEF LossInv, SlotOf
<1>3. CleanInv'
  BY DEF CleanInv
<1>4. QED
  BY <1>2, <1>3

LEMMA CountMissed ==
  ASSUME NEW v \in Nat, NEW m, m \subseteq 0..(v - 1)
  PROVE  /\ IsFiniteSet(m) /\ Cardinality(m) \in Nat
         /\ Cardinality(m \cup {v}) = Cardinality(m) + 1
<1>1. IsFiniteSet(0..(v - 1))
  BY FS_Interval
<1>2. IsFiniteSet(m)
  BY <1>1, FS_Subset
<1>3. v \notin m
  OBVIOUS
<1>4. QED
  BY <1>2, <1>3, FS_AddElement, FS_CardinalityType

LEMMA LossPopped ==
  ASSUME TypesInv, PlaceInv, LossInv, CleanInv, SameStores, UNCHANGED <<tail, head, filled>>,
         tail >= 1, Vacated = tail - 1, Vacated' = tail, Vacate, NoteMissed, HandlesPopped,
         \A p \in Producers : pc'[p] = "gone" => Popped = Empty
  PROVE  LossInv' /\ CleanInv'
<1> DEFINE v == Vacated
           x == Popped
<1>0. TypeOK
  BY DEF TypesInv
<1>1. /\ v \in Nat /\ v = tail - 1 /\ v < head /\ head \in Nat /\ Vacated' = v + 1
      /\ x \in Tickets \cup {Empty} /\ SlotOf(v) \in DOMAIN slot /\ x = slot[SlotOf(v)]
      /\ slot' = [slot EXCEPT ![SlotOf(v)] = Empty]
      /\ missed' = IF x = Empty THEN missed \cup {v} ELSE missed
      /\ Handled \in Seq(Tickets) /\ Len(Handled) \in Nat
      /\ Handled' = IF x = Empty THEN Handled ELSE Append(Handled, x)
  BY <1>0, VacatedTypes, PopTypes, HandledTypes
     DEF Popped, Vacate, NoteMissed, HandlesPopped, TypeOK
<1>2. Storing' = Storing
  BY SameStoring
<1>3. \A s \in DOMAIN slot : slot'[s] = IF s = SlotOf(v) THEN Empty ELSE slot[s]
  BY <1>1
<1>4. \A t \in Nat : SlotOf(t) \in DOMAIN slot
  BY <1>0, SlotRange DEF TypeOK
<1>5. x # Empty => Len(Handled') = Len(Handled) + 1
  BY <1>1
<1> HIDE DEF v, x
<1>6. ASSUME ~filled PROVE
      /\ head - (v + 1) < Slots
      /\ missed' \subseteq 0..v
      /\ v + 1 <= Cardinality(missed') + Len(Handled')
      /\ \A t \in (v + 1)..(head - 1) : t \in Storing' \/ slot'[SlotOf(t)] # Empty
  <2>1. /\ head - v < Slots /\ missed \subseteq 0..(v - 1)
        /\ v <= Cardinality(missed) + Len(Handled)
        /\ \A t \in v..(head - 1) : t \in Storing \/ slot[SlotOf(t)] # Empty
    BY <1>6 DEF LossInv, v
  <2>2. head - (v + 1) < Slots
    BY <1>1, <2>1, LogRingAssumption
  <2>3. missed' \subseteq 0..v
    BY <1>1, <2>1
  <2>4. v + 1 <= Cardinality(missed') + Len(Handled')
    <3>1. Cardinality(missed) \in Nat /\ Cardinality(missed \cup {v}) = Cardinality(missed) + 1
      BY <1>1, <2>1, CountMissed
    <3>2. CASE x = Empty
      <4>1. missed' = missed \cup {v} /\ Handled' = Handled
        BY <1>1, <3>2
      <4>2. QED
        BY <1>1, <2>1, <3>1, <4>1
    <3>3. CASE x # Empty
      <4>1. missed' = missed
        BY <1>1, <3>3
      <4>2. QED
        BY <1>1, <1>5, <2>1, <3>1, <3>3, <4>1
    <3>4. QED
      BY <3>2, <3>3
  <2>5. ASSUME NEW t \in (v + 1)..(head - 1)
        PROVE  t \in Storing' \/ slot'[SlotOf(t)] # Empty
    <3>1. t \in Nat /\ v < t /\ t - v < Slots /\ t \in v..(head - 1)
      BY <1>1, <2>1, LogRingAssumption
    <3>2. SlotOf(t) # SlotOf(v)
      BY <1>1, <3>1, SlotsApart
    <3>3. slot'[SlotOf(t)] = slot[SlotOf(t)]
      BY <1>3, <1>4, <3>1, <3>2
    <3>4. QED
      BY <1>2, <2>1, <3>1, <3>3
  <2>6. QED
    BY <2>2, <2>3, <2>4, <2>5
<1>7. LossInv'
  <2> SUFFICES ASSUME ~filled'
               PROVE  /\ head' - Vacated' < Slots
                      /\ missed' \subseteq 0..(Vacated' - 1)
                      /\ Vacated' <= Cardinality(missed') + Len(Handled')
                      /\ \A t \in Vacated'..(head' - 1) :
                           t \in Storing' \/ slot'[SlotOf(t)] # Empty
    BY DEF LossInv, SlotOf
  <2>1. Vacated' - 1 = v
    BY <1>1
  <2>2. QED
    BY <1>1, <1>6, <2>1
<1>8. ASSUME ~filled, missed' = {}
      PROVE  /\ x = v /\ Handled' = Append(Handled, v) /\ Len(Handled) = v
             /\ \A i \in 1..Len(Handled) : Handled[i] = i - 1
             /\ \A p \in Producers : pc'[p] # "gone"
  <2>1. x # Empty /\ missed = {}
    BY <1>1, <1>8
  <2>2. /\ Len(Handled) = v /\ head - v < Slots
        /\ \A i \in 1..Len(Handled) : Handled[i] = i - 1
    BY <1>8, <2>1 DEF CleanInv, LossInv, v
  <2>3. x \in InRing /\ SlotOf(x) = SlotOf(v)
    BY <1>1, <2>1 DEF PlaceInv, InRing
  <2>4. x \notin Elements(Handled) /\ x \in 0..(head - 1)
    BY <2>3 DEF PlaceInv
  <2>5. \A n \in 0..(v - 1) : n \in Elements(Handled)
    <3> SUFFICES ASSUME NEW n \in 0..(v - 1) PROVE n \in Elements(Handled)
      OBVIOUS
    <3>1. n + 1 \in 1..Len(Handled) /\ Handled[n + 1] = n
      BY <1>1, <2>2
    <3>2. QED
      BY <3>1 DEF Elements
  <2>6. x >= v /\ x \in Nat /\ x - v < Slots
    BY <1>1, <2>2, <2>4, <2>5, LogRingAssumption
  <2>7. x = v
    BY <1>1, <2>3, <2>6, SlotsApart
  <2>8. \A p \in Producers : pc'[p] # "gone"
    BY <2>1 DEF x
  <2>9. QED
    BY <1>1, <2>1, <2>2, <2>7, <2>8
<1>9. CleanInv'
  <2> SUFFICES ASSUME ~filled', missed' = {}
               PROVE  /\ Len(Handled') = Vacated'
                      /\ \A i \in 1..Len(Handled') : Handled'[i] = i - 1
                      /\ \A p \in Producers : pc'[p] # "gone"
    BY DEF CleanInv
  <2>1. /\ x = v /\ Handled' = Append(Handled, v) /\ Len(Handled) = v
        /\ \A i \in 1..Len(Handled) : Handled[i] = i - 1
        /\ \A p \in Producers : pc'[p] # "gone"
    BY <1>8
  <2>2. v \in Tickets
    BY <1>1, VacatedTypes, LogRingAssumption DEF Tickets
  <2> DEFINE n == Append(Handled, v)
  <2>3. /\ Len(n) = Len(Handled) + 1 /\ n[Len(Handled) + 1] = v
        /\ \A i \in 1..Len(Handled) : n[i] = Handled[i]
    BY <1>1, <2>2, OneMore
  <2> HIDE DEF n
  <2>4. /\ Len(n) = v + 1
        /\ \A i \in 1..Len(n) : n[i] = i - 1
    BY <1>1, <2>1, <2>3
  <2>5. Handled' = n
    BY <2>1 DEF n
  <2>6. QED
    BY <1>1, <2>1, <2>4, <2>5
<1>10. QED
  BY <1>7, <1>9

LEMMA LossClaimed ==
  ASSUME TypesInv, PlaceInv, LossInv, CleanInv, ~Exited, NEW p \in Producers, Claim(p)
  PROVE  LossInv' /\ CleanInv'
<1>0. TypeOK
  BY DEF TypesInv
<1>1. /\ pc[p] = "idle" /\ head' = head + 1 /\ head \in Nat /\ Vacated \in Nat /\ Goto(p, "store")
      /\ filled' = (filled \/ head + 1 - Vacated >= Slots)
      /\ UNCHANGED <<tail, slot, wpc, batch, written, missed>>
  BY VacatedTypes DEF Claim, Advance, worker
<1>2. pc'[p] = "store" /\ \A q \in Producers : q # p => pc'[q] = pc[q]
  BY <1>0, <1>1, GotoTypes
<1>3. Vacated' = Vacated /\ Handled' = Handled
  BY <1>1, <1>2 DEF Vacated, Handled
<1>4. Storing' = Storing \cup {head}
  BY PlaceClaimed
<1>5. ~filled' => ~filled /\ head' - Vacated < Slots
  <2>1. ~filled' => ~filled /\ ~(head + 1 - Vacated >= Slots)
    BY <1>1, Zenon
  <2>2. QED
    BY <1>1, <2>1, LogRingAssumption
<1>6. LossInv'
  <2> SUFFICES ASSUME ~filled'
               PROVE  /\ head' - Vacated' < Slots
                      /\ missed' \subseteq 0..(Vacated' - 1)
                      /\ Vacated' <= Cardinality(missed') + Len(Handled')
                      /\ \A t \in Vacated'..(head' - 1) :
                           t \in Storing' \/ slot'[SlotOf(t)] # Empty
    BY DEF LossInv, SlotOf
  <2>1. /\ missed \subseteq 0..(Vacated - 1)
        /\ Vacated <= Cardinality(missed) + Len(Handled)
        /\ \A t \in Vacated..(head - 1) : t \in Storing \/ slot[SlotOf(t)] # Empty
    BY <1>5 DEF LossInv
  <2>2. \A t \in Vacated..(head' - 1) : t = head \/ t \in Vacated..(head - 1)
    BY <1>1
  <2>3. \A t \in Vacated..(head' - 1) : t \in Storing' \/ slot'[SlotOf(t)] # Empty
    BY <1>1, <1>4, <2>1, <2>2
  <2>4. QED
    BY <1>1, <1>3, <1>5, <2>1, <2>3
<1>7. CleanInv'
  <2>1. \A q \in Producers : pc'[q] # "gone"
    BY <1>2 DEF Exited
  <2>2. QED
    BY <1>1, <1>3, <1>5, <2>1 DEF CleanInv
<1>8. QED
  BY <1>6, <1>7

LEMMA LossStored ==
  ASSUME TypesInv, PlaceInv, LossInv, CleanInv, ~Exited, NEW p \in Producers, Store(p)
  PROVE  LossInv' /\ CleanInv'
<1>0. TypeOK
  BY DEF TypesInv
<1> DEFINE u == ticket[p]
<1>1. /\ pc[p] = "store" /\ slot' = [slot EXCEPT ![SlotOf(u)] = u]
      /\ \E place \in {"stop", "idle"} : Goto(p, place)
      /\ UNCHANGED <<head, tail, wpc, batch, written, missed, filled>>
  BY DEF Store, worker
<1>2. u \in Nat /\ u # Empty
  BY <1>0 DEF TypeOK, Tickets, Empty
<1>3. pc'[p] \in {"stop", "idle"} /\ \A q \in Producers : q # p => pc'[q] = pc[q]
  BY <1>0, <1>1, GotoTypes
<1>4. Vacated' = Vacated /\ Handled' = Handled
  BY <1>1, <1>3 DEF Vacated, Handled
<1>5. Storing' = Storing \ {u}
  BY PlaceStored
<1> HIDE DEF u
<1>6. \A t \in Nat : slot'[SlotOf(t)] = IF SlotOf(t) = SlotOf(u) THEN u ELSE slot[SlotOf(t)]
  BY <1>0, <1>1, <1>2, SlotRange DEF TypeOK
<1>7. \A t \in Nat : t \in Storing \/ slot[SlotOf(t)] # Empty
                       => t \in Storing' \/ slot'[SlotOf(t)] # Empty
  BY <1>2, <1>5, <1>6
<1>8. \A t \in Vacated..(head - 1) : t \in Nat
  BY VacatedTypes
<1>9. LossInv'
  <2>1. ~filled => \A t \in Vacated..(head - 1) : t \in Storing' \/ slot'[SlotOf(t)] # Empty
    BY <1>7, <1>8 DEF LossInv
  <2>2. QED
    BY <1>1, <1>4, <2>1 DEF LossInv, SlotOf
<1>10. CleanInv'
  <2>1. \A q \in Producers : pc'[q] # "gone"
    BY <1>3 DEF Exited
  <2>2. QED
    BY <1>1, <1>4, <2>1 DEF CleanInv
<1>11. QED
  BY <1>9, <1>10

-----------------------------------------------------------------------------
\* The steps.

LEMMA RingInit == Init => RingInv
<1> SUFFICES ASSUME Init PROVE RingInv
  OBVIOUS
<1>1. TypeOK /\ ExitInv /\ PlaceInv
  BY TypesInit, PlaceInit DEF TypesInv
<1>2. /\ Handled = <<>> /\ Vacated = 0 /\ head = 0 /\ missed = {}
      /\ \A p \in Producers : pc[p] # "gone"
  BY DEF Init, Handled, Vacated
<1>3. Len(Handled) = 0 /\ Cardinality(missed) = 0
  BY <1>2, FS_EmptySet
<1>4. LossInv
  BY <1>2, <1>3, LogRingAssumption DEF LossInv
<1>5. CleanInv
  BY <1>2, <1>3 DEF CleanInv
<1>6. QED
  BY <1>1, <1>4, <1>5 DEF RingInv

LEMMA GoingOn ==
  ASSUME TypesInv, ~Exited, NEW p \in Producers, NEW place, Goto(p, place),
         pc[p] # "store", place # "store", UNCHANGED ticket
  PROVE  /\ SameStores
         /\ \A q \in Producers : pc'[q] = "gone" => q = p /\ place = "gone"
         /\ \A q \in Producers : q # p => pc'[q] = pc[q]
         /\ pc'[p] = place
<1>1. pc'[p] = place /\ \A q \in Producers : q # p => pc'[q] = pc[q]
  BY GotoTypes DEF TypesInv
<1>2. QED
  BY <1>1 DEF SameStores, Exited

\* A pop begins: no position is skipped while the ring was never full.
LEMMA NothingSkipped ==
  ASSUME TypesInv, LossInv, ~filled, Vacated = tail
  PROVE  /\ Advanced => tail' = tail + 1
         /\ NothingToPop => tail = head
<1>1. PopFrom = tail
  BY VacatedTypes, LogRingAssumption DEF LossInv, PopFrom, Behind
<1>2. QED
  BY <1>1, VacatedTypes DEF Advanced, NothingToPop

LEMMA ClaimStep == ASSUME RingInv, ~Exited, NEW p \in Producers, Claim(p) PROVE RingInv'
  BY ClaimTypes, PlaceClaimed, LossClaimed DEF RingInv, TypesInv

LEMMA StoreStep == ASSUME RingInv, ~Exited, NEW p \in Producers, Store(p) PROVE RingInv'
  BY StoreTypes, PlaceStored, LossStored DEF RingInv, TypesInv

LEMMA CheckStep == ASSUME RingInv, ~Exited, Check PROVE RingInv'
<1>0. TypesInv /\ PlaceInv /\ LossInv /\ CleanInv /\ TypeOK
  BY DEF RingInv, TypesInv
<1>1. /\ wpc = "loop" /\ wpc' = "turn"
      /\ UNCHANGED <<head, tail, slot, pc, ticket, batch, written, missed, lost, filled>>
  BY DEF Check, producers, history
<1>2. Handled' = Handled /\ Vacated' = Vacated
  BY <1>1 DEF Handled, Vacated
<1>3. SameStores /\ \A p \in Producers : pc'[p] # "gone"
  BY <1>1 DEF SameStores, Exited
<1>4. TypesInv'
  BY <1>0, CheckTypes
<1>5. PlaceInv'
  BY <1>0, <1>1, <1>2, <1>3, PlaceSame
<1>6. LossInv' /\ CleanInv'
  BY <1>0, <1>1, <1>2, <1>3, LossSame
<1>7. QED
  BY <1>4, <1>5, <1>6 DEF RingInv, TypesInv

LEMMA TurnStep == ASSUME RingInv, ~Exited, Turn PROVE RingInv'
<1>0. TypesInv /\ PlaceInv /\ LossInv /\ CleanInv /\ TypeOK
  BY DEF RingInv, TypesInv
<1>1. /\ wpc = "turn" /\ UNCHANGED <<head, slot, pc, ticket, missed, lost, filled>>
      /\ Flush \/ UNCHANGED <<written, batch>>
      /\ (UNCHANGED tail /\ wpc' = "loop") \/ (Advanced /\ wpc' = "take")
  BY DEF Turn, producers, history
<1>2. Handled' = Handled
  <2>1. CASE Flush
    BY <1>0, <2>1, FlushHandles
  <2>2. CASE UNCHANGED <<written, batch>>
    BY <2>2 DEF Handled
  <2>3. QED
    BY <1>1, <2>1, <2>2
<1>3. SameStores /\ \A p \in Producers : pc'[p] # "gone"
  BY <1>1 DEF SameStores, Exited
<1>4. Vacated = tail /\ tail \in Nat
  BY <1>0, <1>1, VacatedAtRest, VacatedTypes
<1>5. ~filled => Vacated' = Vacated
  <2>1. CASE UNCHANGED tail /\ wpc' = "loop"
    BY <1>1, <2>1 DEF Vacated
  <2>2. CASE Advanced /\ wpc' = "take"
    <3>1. ~filled => tail' = tail + 1
      BY <1>0, <1>4, <2>2, NothingSkipped
    <3>2. Vacated' = tail' - 1
      BY <2>2 DEF Vacated
    <3>3. QED
      BY <1>4, <3>1, <3>2
  <2>3. QED
    BY <1>1, <2>1, <2>2
<1>6. TypesInv'
  BY <1>0, TurnTypes
<1>7. PlaceInv'
  BY <1>0, <1>1, <1>2, <1>3, PlaceSame
<1>8. LossInv' /\ CleanInv'
  BY <1>0, <1>1, <1>2, <1>3, <1>5, LossSame
<1>9. QED
  BY <1>6, <1>7, <1>8 DEF RingInv, TypesInv

LEMMA TakeStep == ASSUME RingInv, ~Exited, Take PROVE RingInv'
<1>0. TypesInv /\ PlaceInv /\ LossInv /\ CleanInv /\ TypeOK
  BY DEF RingInv, TypesInv
<1>1. /\ wpc = "take" /\ wpc' = "loop" /\ Vacate /\ NoteMissed
      /\ UNCHANGED <<head, tail, pc, ticket, lost, filled>>
  BY DEF Take, producers
<1>2. HandlesPopped /\ tail >= 1
  BY <1>0, TakeHandles
<1>3. SameStores /\ \A p \in Producers : pc'[p] # "gone"
  BY <1>1 DEF SameStores, Exited
<1>4. \A p \in Producers : pc[p] # "take"
  BY <1>0, <1>1 DEF TypesInv, ExitInv
<1>5. Vacated = tail - 1 /\ Vacated' = tail
  BY <1>1, <1>4 DEF Vacated
<1>6. TypesInv'
  BY <1>0, TakeTypes
<1>7. PlaceInv'
  BY <1>0, <1>1, <1>2, <1>3, PlacePopped
<1>8. LossInv' /\ CleanInv'
  BY <1>0, <1>1, <1>2, <1>3, <1>5, LossPopped
<1>9. QED
  BY <1>6, <1>7, <1>8 DEF RingInv, TypesInv

LEMMA LastFlushStep == ASSUME RingInv, ~Exited, LastFlush PROVE RingInv'
<1>0. TypesInv /\ PlaceInv /\ LossInv /\ CleanInv /\ TypeOK
  BY DEF RingInv, TypesInv
<1>1. /\ wpc = "loop" /\ wpc' = "ended" /\ Flush
      /\ UNCHANGED <<head, tail, slot, pc, ticket, missed, lost, filled>>
  BY DEF LastFlush, producers, history
<1>2. Handled' = Handled
  BY <1>0, <1>1, FlushHandles
<1>3. SameStores /\ \A p \in Producers : pc'[p] # "gone"
  BY <1>1 DEF SameStores, Exited
<1>4. Vacated' = Vacated
  BY <1>1 DEF Vacated
<1>5. TypesInv'
  BY <1>0, LastFlushTypes
<1>6. PlaceInv'
  BY <1>0, <1>1, <1>2, <1>3, PlaceSame
<1>7. LossInv' /\ CleanInv'
  BY <1>0, <1>1, <1>2, <1>3, <1>4, LossSame
<1>8. QED
  BY <1>5, <1>6, <1>7 DEF RingInv, TypesInv

LEMMA StopStep == ASSUME RingInv, ~Exited, NEW p \in Producers, Stop(p) PROVE RingInv'
<1>0. TypesInv /\ PlaceInv /\ LossInv /\ CleanInv
  BY DEF RingInv, TypesInv
<1>1. /\ pc[p] = "stop" /\ Goto(p, "join")
      /\ UNCHANGED <<head, tail, slot, ticket, wpc, batch, written, missed, lost, filled>>
  BY DEF Stop, worker, history
<1>2. /\ SameStores /\ pc'[p] = "join" /\ \A q \in Producers : q # p => pc'[q] = pc[q]
      /\ \A q \in Producers : pc'[q] # "gone"
  BY <1>0, <1>1, GoingOn
<1>3. Vacated' = Vacated /\ Handled' = Handled
  BY <1>1, <1>2 DEF Vacated, Handled
<1>4. TypesInv'
  BY <1>0, StopTypes
<1>5. PlaceInv'
  BY <1>0, <1>1, <1>2, <1>3, PlaceSame
<1>6. LossInv' /\ CleanInv'
  BY <1>0, <1>1, <1>2, <1>3, LossSame
<1>7. QED
  BY <1>4, <1>5, <1>6 DEF RingInv, TypesInv

LEMMA JoinStep == ASSUME RingInv, ~Exited, NEW p \in Producers, Join(p) PROVE RingInv'
<1>0. TypesInv /\ PlaceInv /\ LossInv /\ CleanInv /\ TypeOK
  BY DEF RingInv, TypesInv
<1>1. /\ pc[p] = "join" /\ Goto(p, "drain") /\ Flush
      /\ UNCHANGED <<head, tail, slot, ticket, wpc, missed, lost, filled>>
  BY DEF Join, history
<1>2. /\ SameStores /\ pc'[p] = "drain" /\ \A q \in Producers : q # p => pc'[q] = pc[q]
      /\ \A q \in Producers : pc'[q] # "gone"
  BY <1>0, <1>1, GoingOn
<1>3. Vacated' = Vacated /\ Handled' = Handled
  BY <1>0, <1>1, <1>2, FlushHandles DEF Vacated
<1>4. TypesInv'
  BY <1>0, JoinTypes
<1>5. PlaceInv'
  BY <1>0, <1>1, <1>2, <1>3, PlaceSame
<1>6. LossInv' /\ CleanInv'
  BY <1>0, <1>1, <1>2, <1>3, LossSame
<1>7. QED
  BY <1>4, <1>5, <1>6 DEF RingInv, TypesInv

LEMMA DrainStep == ASSUME RingInv, ~Exited, NEW p \in Producers, Drain(p) PROVE RingInv'
<1>0. TypesInv /\ PlaceInv /\ LossInv /\ CleanInv
  BY DEF RingInv, TypesInv
<1>1. /\ pc[p] = "drain"
      /\ UNCHANGED <<head, slot, ticket, wpc, batch, written, missed, lost, filled>>
  BY DEF Drain, worker, history
<1>2. PICK place \in {"stop", "gone", "take"} :
        /\ Goto(p, place)
        /\ place = "take" => Advanced
        /\ place # "take" => NothingToPop /\ UNCHANGED tail
  BY DEF Drain, DrainEnds
<1>3. /\ SameStores /\ pc'[p] = place /\ \A q \in Producers : q # p => pc'[q] = pc[q]
      /\ \A q \in Producers : pc'[q] = "gone" => place = "gone"
  BY <1>0, <1>1, <1>2, GoingOn
<1>4. Vacated = tail /\ tail \in Nat
  BY <1>0, <1>1, VacatedAtRest, VacatedTypes
<1>5. Handled' = Handled
  BY <1>1 DEF Handled
<1>6. \A q \in Producers : q # p => pc[q] # "take"
  BY <1>0, <1>1 DEF TypesInv, ExitInv, Exiting0
<1>7. wpc # "take"
  BY <1>0, <1>1 DEF TypesInv, ExitInv
<1>8. ~filled => Vacated' = Vacated
  <2>1. CASE place = "take"
    <3>1. ~filled => tail' = tail + 1
      BY <1>0, <1>2, <1>4, <2>1, NothingSkipped
    <3>2. Vacated' = tail' - 1
      BY <1>3, <2>1 DEF Vacated
    <3>3. QED
      BY <1>4, <3>1, <3>2
  <2>2. CASE place # "take"
    <3>1. Vacated' = tail'
      BY <1>1, <1>3, <1>6, <1>7, <2>2 DEF Vacated
    <3>2. QED
      BY <1>2, <1>4, <2>2, <3>1
  <2>3. QED
    BY <2>1, <2>2
<1>9. \A q \in Producers : pc'[q] = "gone" => filled \/ Vacated = head
  BY <1>0, <1>2, <1>3, <1>4, NothingSkipped
<1>10. TypesInv'
  BY <1>0, DrainTypes
<1>11. PlaceInv'
  BY <1>0, <1>1, <1>3, <1>5, PlaceSame
<1>12. LossInv' /\ CleanInv'
  BY <1>0, <1>1, <1>3, <1>5, <1>8, <1>9, LossSame
<1>13. QED
  BY <1>10, <1>11, <1>12 DEF RingInv, TypesInv

LEMMA DrainTakeStep == ASSUME RingInv, ~Exited, NEW p \in Producers, DrainTake(p) PROVE RingInv'
<1>0. TypesInv /\ PlaceInv /\ LossInv /\ CleanInv
  BY DEF RingInv, TypesInv
<1>1. /\ pc[p] = "take" /\ Vacate /\ NoteMissed
      /\ UNCHANGED <<head, tail, ticket, wpc, lost, filled>>
  BY DEF DrainTake, worker
<1>2. PICK place \in {"stop", "gone", "drain"} :
        Goto(p, place) /\ (place # "drain" => Popped = Empty)
  BY DEF DrainTake, DrainEnds
<1>3. /\ SameStores /\ pc'[p] = place /\ \A q \in Producers : q # p => pc'[q] = pc[q]
      /\ \A q \in Producers : pc'[q] = "gone" => place = "gone"
  BY <1>0, <1>1, <1>2, GoingOn
<1>4. HandlesPopped /\ tail >= 1
  BY <1>0, DrainTakeHandles
<1>5. wpc # "take" /\ \A q \in Producers : q # p => pc[q] # "take"
  BY <1>0, <1>1 DEF TypesInv, ExitInv, Exiting0
<1>6. Vacated = tail - 1 /\ Vacated' = tail
  BY <1>1, <1>3, <1>5 DEF Vacated
<1>7. TypesInv'
  BY <1>0, DrainTakeTypes
<1>8. PlaceInv'
  BY <1>0, <1>1, <1>3, <1>4, PlacePopped
<1>9. LossInv' /\ CleanInv'
  BY <1>0, <1>1, <1>2, <1>3, <1>4, <1>6, LossPopped
<1>10. QED
  BY <1>7, <1>8, <1>9 DEF RingInv, TypesInv

LEMMA RingStutter == ASSUME RingInv, UNCHANGED vars PROVE RingInv'
<1>0. TypesInv /\ PlaceInv
  BY DEF RingInv, TypesInv
<1>1. TypesInv'
  BY <1>0, StutterTypes
<1>2. SameStores /\ Handled' = Handled
  BY DEF SameStores, Handled, vars, producers, worker
<1>3. PlaceInv'
  BY <1>0, <1>2, PlaceSame DEF vars, history
<1>4. Vacated' = Vacated /\ Storing' = Storing
  BY DEF Vacated, Storing, vars, producers, worker
<1>5. LossInv'
  BY <1>2, <1>4 DEF RingInv, LossInv, SlotOf, vars, history
<1>6. CleanInv'
  BY <1>2, <1>4 DEF RingInv, CleanInv, vars, producers, history
<1>7. QED
  BY <1>1, <1>3, <1>5, <1>6 DEF RingInv, TypesInv

LEMMA RingKept == RingInv /\ [Next]_vars => RingInv'
  BY ClaimStep, StoreStep, CheckStep, TurnStep, TakeStep, LastFlushStep, StopStep, JoinStep, DrainStep,
     DrainTakeStep, RingStutter DEF Next, Step, Worker, Push, Exiting

LEMMA RingInvHolds == Spec => []RingInv
  BY RingInit, RingKept, PTL DEF Spec

-----------------------------------------------------------------------------
\* What the invariant says of the properties.

\* A set that another can be counted with is no smaller.
LEMMA CountedWith ==
  ASSUME NEW S, NEW T, IsFiniteSet(S), IsFiniteSet(T), NEW f \in [S -> T],
         \A x, y \in S : f[x] = f[y] => x = y
  PROVE  Cardinality(S) <= Cardinality(T)
<1>1. ~(Cardinality(T) < Cardinality(S))
  BY FS_PigeonHole
<1>2. Cardinality(S) \in Nat /\ Cardinality(T) \in Nat
  BY FS_CardinalityType
<1>3. QED
  BY <1>1, <1>2

LEMMA CountedApart ==
  ASSUME NEW S, NEW T, IsFiniteSet(S), IsFiniteSet(T), S \cap T = {}
  PROVE  Cardinality(S \cup T) = Cardinality(S) + Cardinality(T)
<1>1. Cardinality(S \cup T) = Cardinality(S) + Cardinality(T) - Cardinality(S \cap T)
  BY FS_Union
<1>2. Cardinality(S \cap T) = 0
  BY FS_EmptySet
<1>3. Cardinality(S) \in Nat /\ Cardinality(T) \in Nat
  BY FS_CardinalityType
<1>4. QED
  BY <1>1, <1>2, <1>3

LEMMA OncePlaced == RingInv => EachEntryOnce
  BY DEF RingInv, PlaceInv, EachEntryOnce

\* The entries being stored, in the ring, handled and lost are no more than the
\* tickets taken.
LEMMA Accounted ==
  ASSUME RingInv
  PROVE  LET here == Storing \cup InRing
         IN  /\ IsFiniteSet(here) /\ Cardinality(here) \in Nat /\ Cardinality(lost) \in Nat
             /\ Cardinality(here) + Len(Handled) + Cardinality(lost) <= head
<1> DEFINE here == Storing \cup InRing
           done == Elements(Handled)
           all == 0..(head - 1)
<1>1. /\ all = (here \cup done) \cup lost
      /\ (here \cup done) \cap lost = {} /\ here \cap done = {}
  BY DEF RingInv, PlaceInv
<1>2. head \in Nat /\ Handled \in Seq(Tickets) /\ Len(Handled) \in Nat
  BY VacatedTypes, HandledTypes DEF RingInv, TypesInv
<1>3. IsFiniteSet(all) /\ Cardinality(all) = head
  <2> DEFINE a == 0
             b == head - 1
  <2>1. a \in Int /\ b \in Int /\ a = 0 /\ b + 1 = head /\ all = a..b
    BY <1>2
  <2> HIDE DEF a, b, all
  <2>2. IsFiniteSet(a..b) /\ Cardinality(a..b) = IF a > b THEN 0 ELSE b - a + 1
    BY <2>1, FS_Interval
  <2>3. Cardinality(a..b) = head
    BY <1>2, <2>1, <2>2
  <2>4. QED
    BY <2>1, <2>2, <2>3
<1> HIDE DEF all
<1>4. IsFiniteSet(here) /\ IsFiniteSet(done) /\ IsFiniteSet(lost) /\ IsFiniteSet(here \cup done)
  BY <1>1, <1>3, FS_Subset
<1>5. /\ Cardinality(here) \in Nat /\ Cardinality(done) \in Nat /\ Cardinality(lost) \in Nat
      /\ Cardinality(here \cup done) \in Nat
  BY <1>4, FS_CardinalityType
<1>6. Len(Handled) <= Cardinality(done)
  <2> DEFINE f == [i \in 1..Len(Handled) |-> Handled[i]]
             I == 1..Len(Handled)
  <2>1. f \in [I -> done]
    BY DEF Elements
  <2>2. \A i, j \in I : f[i] = f[j] => i = j
    BY DEF RingInv, PlaceInv
  <2>3. IsFiniteSet(I) /\ Cardinality(I) = Len(Handled)
    BY <1>2, FS_Interval
  <2> HIDE DEF f, I, done
  <2>4. Cardinality(I) <= Cardinality(done)
    BY <1>4, <2>1, <2>2, <2>3, CountedWith
  <2>5. QED
    BY <2>3, <2>4
<1> HIDE DEF here, done
<1>7. Cardinality(here \cup done) = Cardinality(here) + Cardinality(done)
  BY <1>1, <1>4, CountedApart
<1>8. head = Cardinality(here \cup done) + Cardinality(lost)
  BY <1>1, <1>3, <1>4, CountedApart
<1>9. Cardinality(here) + Len(Handled) + Cardinality(lost) <= head
  BY <1>2, <1>5, <1>6, <1>7, <1>8
<1>10. QED
  BY <1>4, <1>5, <1>9 DEF here

\* Every position not vacated yet has an entry of its own, being stored or in its slot.
LEMMA Occupied ==
  ASSUME RingInv, ~filled
  PROVE  head - Vacated <= Cardinality(Storing \cup InRing)
<1> DEFINE here == Storing \cup InRing
           waiting == Vacated..(head - 1)
           f == [t \in waiting |-> IF t \in Storing THEN t ELSE slot[SlotOf(t)]]
<1>1. /\ Vacated \in Nat /\ head \in Nat /\ head - Vacated < Slots
      /\ \A t \in waiting : t \in Storing \/ slot[SlotOf(t)] # Empty
      /\ TypeOK /\ Vacated <= head
  BY VacatedTypes DEF RingInv, TypesInv, LossInv
<1>2. ASSUME NEW t \in waiting, t \notin Storing
      PROVE  slot[SlotOf(t)] \in InRing /\ SlotOf(slot[SlotOf(t)]) = SlotOf(t)
  <2>1. t \in Nat
    BY <1>1
  <2>2. SlotOf(t) \in DOMAIN slot /\ slot[SlotOf(t)] # Empty
    BY <1>1, <1>2, <2>1, SlotRange DEF TypeOK
  <2>3. QED
    BY <2>2 DEF RingInv, PlaceInv, InRing
<1>3. f \in [waiting -> here]
  <2>1. \A t \in waiting : f[t] \in here
    BY <1>2
  <2> HIDE DEF here, waiting
  <2>2. QED
    BY <2>1
<1>4. ASSUME NEW t \in waiting, NEW u \in waiting, f[t] = f[u] PROVE t = u
  <2>1. t \in Nat /\ u \in Nat /\ t - u < Slots /\ u - t < Slots
    BY <1>1, LogRingAssumption
  <2>2. Storing \cap InRing = {}
    BY DEF RingInv, PlaceInv
  <2>3. CASE t \in Storing /\ u \in Storing
    BY <1>4, <2>3
  <2>4. CASE t \notin Storing /\ u \notin Storing
    <3>1. SlotOf(t) = SlotOf(u)
      BY <1>2, <1>4, <2>4
    <3>2. QED
      BY <2>1, <3>1, SlotsApart
  <2>5. CASE t \in Storing <=> u \notin Storing
    BY <1>2, <1>4, <2>2, <2>5
  <2>6. QED
    BY <2>3, <2>4, <2>5
<1>5. IsFiniteSet(waiting) /\ Cardinality(waiting) = head - Vacated
  <2>1. IsFiniteSet(waiting)
        /\ Cardinality(waiting) = IF Vacated > head - 1 THEN 0 ELSE (head - 1) - Vacated + 1
    BY <1>1, FS_Interval
  <2>2. QED
    BY <1>1, <2>1
<1>6. IsFiniteSet(here)
  BY Accounted
<1> HIDE DEF f, here, waiting
<1>7. Cardinality(waiting) <= Cardinality(here)
  BY <1>3, <1>4, <1>5, <1>6, CountedWith
<1>8. QED
  BY <1>5, <1>7 DEF here

LEMMA LossFollows == RingInv => LossExplained
<1> SUFFICES ASSUME RingInv PROVE LossExplained
  OBVIOUS
<1>1. LossHasCause
  <2> SUFFICES ASSUME ~filled PROVE Cardinality(lost) <= Cardinality(missed)
    BY DEF LossHasCause
  <2> DEFINE c == Cardinality(Storing \cup InRing)
  <2>1. /\ Vacated \in Nat /\ head \in Nat /\ Len(Handled) \in Nat
        /\ missed \subseteq 0..(Vacated - 1) /\ Vacated <= Cardinality(missed) + Len(Handled)
    BY VacatedTypes, HandledTypes DEF RingInv, TypesInv, LossInv
  <2>2. Cardinality(missed) \in Nat
    BY <2>1, CountMissed
  <2>3. head - Vacated <= c
    BY Occupied
  <2>4. c \in Nat /\ Cardinality(lost) \in Nat /\ c + Len(Handled) + Cardinality(lost) <= head
    BY Accounted
  <2> HIDE DEF c
  <2>5. QED
    BY <2>1, <2>2, <2>3, <2>4
<1>2. CleanRunComplete
  <2> SUFFICES ASSUME missed = {}, ~filled
               PROVE  /\ \A i, j \in 1..Len(Handled) : i < j => Handled[i] < Handled[j]
                      /\ Exited => 0..ticket[fatal] \subseteq Elements(written)
    BY DEF CleanRunComplete
  <2>1. /\ Len(Handled) = Vacated /\ \A i \in 1..Len(Handled) : Handled[i] = i - 1
        /\ \A p \in Producers : pc[p] = "gone" => Vacated = head
    BY DEF RingInv, CleanInv
  <2>2. \A i, j \in 1..Len(Handled) : i < j => Handled[i] < Handled[j]
    BY <2>1, VacatedTypes DEF RingInv, TypesInv
  <2>3. ASSUME Exited PROVE 0..ticket[fatal] \subseteq Elements(written)
    <3>1. PICK p \in Producers : pc[p] = "gone"
      BY <2>3 DEF Exited
    <3>2. fatal = p /\ wpc = "ended" /\ batch = <<>> /\ ticket[p] < head
      BY <3>1 DEF RingInv, ExitInv, Exiting0
    <3>3. Handled = written /\ head \in Nat /\ ticket[p] \in Nat
      BY <3>2, VacatedTypes DEF RingInv, TypesInv, TypeOK, Handled, Tickets
    <3>4. ASSUME NEW n \in 0..ticket[p] PROVE n \in Elements(written)
      <4>1. n + 1 \in 1..Len(Handled) /\ Handled[n + 1] = n
        BY <2>1, <3>1, <3>2, <3>3
      <4>2. QED
        BY <3>3, <4>1 DEF Elements
    <3>5. QED
      BY <3>2, <3>4
  <2>4. QED
    BY <2>2, <2>3
<1>3. QED
  BY <1>1, <1>2 DEF LossExplained

LEMMA LossFollowsNext == (RingInv => LossExplained)'
<1>1. RingInv => LossExplained
  BY LossFollows
<1>2. QED
  BY <1>1, PTL

\* Every reachable state of the logger is well typed; the second stopAndFlush (that
\* of ~Logger, after exit) is the last, and between two steps the batch holds fewer
\* than ENTRY_BATCH_SIZE entries.
THEOREM TypeCorrect == Spec => []TypeOK
  BY RingInvHolds, PTL DEF RingInv

\* No entry is written twice, written after it was overwritten, or vanishes, over
\* any number of laps, producers and early takes.
THEOREM EntriesAreWrittenOnce == Spec => []EachEntryOnce
  BY RingInvHolds, OncePlaced, PTL

\* On a ring that was never full at most as many entries are overwritten as the
\* worker took slots before their entries were stored; if it took none, entries are
\* written in order, and all up to the FATAL one when the process is gone.
THEOREM LossIsExplained == Spec => []LossExplained
  BY RingInvHolds, LossFollows, PTL

-----------------------------------------------------------------------------
\* The ring against EntryLog.

\* What is written is what was handled first.
LEMMA WrittenFirst ==
  TypeOK => /\ Len(written) \in Nat /\ Len(Handled) \in Nat /\ Len(written) <= Len(Handled)
            /\ \A i \in 1..Len(written) : written[i] = Handled[i]
<1> SUFFICES ASSUME TypeOK
             PROVE  /\ Len(written) \in Nat /\ Len(Handled) \in Nat
                    /\ Len(written) <= Len(Handled)
                    /\ \A i \in 1..Len(written) : written[i] = Handled[i]
  OBVIOUS
<1>1. written \in Seq(Tickets) /\ batch \in Seq(Tickets)
  BY DEF TypeOK
<1>2. Len(written \o batch) = Len(written) + Len(batch) /\ Len(written) \in Nat /\ Len(batch) \in Nat
  BY <1>1
<1>3. \A i \in 1..Len(written) : (written \o batch)[i] = written[i]
  BY <1>1
<1>4. QED
  BY <1>2, <1>3 DEF Handled

LEMMA WrittenFirstNext ==
  (TypeOK => /\ Len(written) \in Nat /\ Len(Handled) \in Nat /\ Len(written) <= Len(Handled)
             /\ \A i \in 1..Len(written) : written[i] = Handled[i])'
<1>1. TypeOK => /\ Len(written) \in Nat /\ Len(Handled) \in Nat /\ Len(written) <= Len(Handled)
                /\ \A i \in 1..Len(written) : written[i] = Handled[i]
  BY WrittenFirst
<1>2. QED
  BY <1>1, PTL

\* A step that hands the sinks more of what is handled.
LEMMA WritesOn ==
  ASSUME TypeOK, TypeOK', Len(written') >= Len(written)
  PROVE  Log!Written
<1>1. /\ Len(written) \in Nat /\ Len(written') \in Nat /\ Len(Handled') \in Nat
      /\ Len(written') <= Len(Handled')
      /\ \A i \in 1..Len(written') : written'[i] = Handled'[i]
  BY WrittenFirst, WrittenFirstNext
<1>2. QED
  BY <1>1 DEF Log!Written

LEMMA FlushWrites ==
  ASSUME TypeOK, Flush
  PROVE  Len(written') >= Len(written)
<1>1. written' = Handled
  BY DEF Flush, Handled
<1>2. QED
  BY <1>1, WrittenFirst

\* A step that pops nothing.
LEMMA LogSame ==
  ASSUME RingInv, RingInv', SameStores, UNCHANGED <<slot, head, filled, missed, lost>>,
         Handled' = Handled, Flush \/ UNCHANGED written
  PROVE  [Log!LogNext]_Log!logVars
<1>1. Storing' = Storing /\ InRing' = InRing
  BY SameStoring DEF InRing
<1>2. TypeOK /\ TypeOK'
  BY DEF RingInv
<1>3. Len(written') >= Len(written)
  BY <1>2, FlushWrites, WrittenFirst
<1>4. Log!Written
  BY <1>2, <1>3, WritesOn
<1>5. Log!Write
  BY <1>1, <1>4 DEF Log!Write
<1>6. QED
  BY <1>5 DEF Log!LogNext

LEMMA LogPopped ==
  ASSUME RingInv, RingInv', SameStores, UNCHANGED <<tail, head, filled, lost>>,
         tail >= 1, Vacate, NoteMissed, HandlesPopped, Len(written') >= Len(written),
         Popped = Empty => written' = written
  PROVE  [Log!LogNext]_Log!logVars
<1>0. TypesInv /\ TypeOK /\ TypeOK' /\ PlaceInv /\ CleanInv'
  BY DEF RingInv, TypesInv
<1>1. Storing' = Storing /\ InRing' = InRing \ {Popped}
  BY <1>0, PlacePopped, SameStoring
<1>2. CASE Popped = Empty
  <2>1. InRing' = InRing /\ Handled' = Handled /\ missed' = missed \cup {tail - 1}
    BY <1>1, <1>2 DEF InRing, HandlesPopped, NoteMissed
  <2>2. IsFiniteSet(missed)
    <3>1. IsFiniteSet(0..(MaxEntries - 1))
      BY LogRingAssumption, FS_Interval
    <3>2. QED
      BY <1>0, <3>1, FS_Subset DEF TypeOK, Tickets
  <2>3. CASE tail - 1 \in missed
    <3>1. missed' = missed
      BY <2>1, <2>3
    <3>2. QED
      BY <1>1, <1>2, <2>1, <3>1 DEF Log!logVars
  <2>4. CASE tail - 1 \notin missed
    <3>1. Cardinality(missed') = Cardinality(missed) + 1
      BY <2>1, <2>2, <2>4, FS_AddElement
    <3>2. Log!LookInVain
      BY <1>1, <1>2, <2>1, <3>1 DEF Log!LookInVain
    <3>3. QED
      BY <3>2 DEF Log!LogNext
  <2>5. QED
    BY <2>3, <2>4
<1>3. CASE Popped # Empty
  <2>1. Handled' = Append(Handled, Popped) /\ missed' = missed
    BY <1>3 DEF HandlesPopped, NoteMissed
  <2>2. Popped \in InRing /\ Popped \notin Storing /\ Popped \in Tickets
    <3>1. SlotOf(tail - 1) \in DOMAIN slot /\ Popped \in Tickets
      BY <1>0, <1>3, PopTypes DEF TypeOK
    <3>2. Popped \in InRing
      BY <1>3, <3>1 DEF InRing, Popped
    <3>3. QED
      BY <1>0, <3>1, <3>2 DEF PlaceInv
  <2>3. (Storing \cup InRing)' = (Storing \cup InRing) \ {Popped}
    BY <1>1, <2>2
  <2>4. Cardinality(missed) = 0 /\ ~filled => Popped = Len(Handled)
    <3> SUFFICES ASSUME Cardinality(missed) = 0, ~filled PROVE Popped = Len(Handled)
      OBVIOUS
    <3>1. IsFiniteSet(missed)
      <4>1. IsFiniteSet(0..(MaxEntries - 1))
        BY LogRingAssumption, FS_Interval
      <4>2. QED
        BY <1>0, <4>1, FS_Subset DEF TypeOK, Tickets
    <3>2. missed' = {} /\ ~filled'
      BY <2>1, <3>1, FS_EmptySet
    <3>3. /\ Len(Handled') = Len(Handled) + 1 /\ Len(Handled) \in Nat
          /\ Handled'[Len(Handled) + 1] = Popped
      BY <1>0, <2>1, <2>2, HandledTypes, OneMore
    <3>4. \A i \in 1..Len(Handled') : Handled'[i] = i - 1
      BY <1>0, <3>2 DEF CleanInv
    <3>5. QED
      BY <3>3, <3>4
  <2>5. Log!Written
    BY <1>0, WritesOn
  <2>6. Log!Take(Popped)
    BY <2>1, <2>3, <2>4, <2>5 DEF Log!Take
  <2>7. QED
    BY <2>2, <2>6 DEF Log!LogNext
<1>4. QED
  BY <1>2, <1>3

LEMMA LogClaimed ==
  ASSUME RingInv, NEW p \in Producers, Claim(p)
  PROVE  [Log!LogNext]_Log!logVars
<1>1. Storing' = Storing \cup {head} /\ TypeOK
  BY PlaceClaimed DEF RingInv, TypesInv
<1>2. /\ head' = head + 1 /\ filled' = (filled \/ head + 1 - Vacated >= Slots)
      /\ UNCHANGED <<slot, written, batch, missed, lost>>
  BY DEF Claim, Advance, worker
<1>3. InRing' = InRing /\ Handled' = Handled
  BY <1>2 DEF InRing, Handled
<1>4. filled' \in BOOLEAN /\ (filled => filled')
  <2>1. filled' = TRUE \/ filled' = FALSE
    BY <1>2
  <2>2. filled => filled'
    BY <1>2, Zenon
  <2>3. QED
    BY <2>1, <2>2
<1>5. Log!Arrive
  BY <1>1, <1>2, <1>3, <1>4 DEF Log!Arrive
<1>6. QED
  BY <1>5 DEF Log!LogNext

LEMMA LogStored ==
  ASSUME RingInv, RingInv', NEW p \in Producers, Store(p)
  PROVE  [Log!LogNext]_Log!logVars
<1> DEFINE t == ticket[p]
           old == slot[SlotOf(ticket[p])]
<1>1. /\ Storing' = Storing \ {t} /\ InRing' = (InRing \ {old}) \cup {t}
      /\ PlaceInv /\ TypeOK /\ TypeOK'
  BY PlaceStored DEF RingInv, TypesInv
<1>2. /\ pc[p] = "store" /\ lost' = lost \cup ({old} \ {Empty})
      /\ UNCHANGED <<head, missed, filled, written, batch>>
  BY DEF Store, worker
<1>3. t \in Storing /\ (old = Empty \/ old \in InRing) /\ Empty \notin InRing
  <2>1. t \in Storing
    BY <1>2 DEF Storing
  <2>2. SlotOf(t) \in DOMAIN slot
    <3>1. t \in Nat
      BY <1>1 DEF TypeOK, Tickets
    <3>2. QED
      BY <1>1, <3>1, SlotRange DEF TypeOK
  <2>3. QED
    BY <2>1, <2>2 DEF InRing
<1>4. Handled' = Handled
  BY <1>2 DEF Handled
<1> HIDE DEF t, old
<1>5. CASE old = Empty
  <2>1. (Storing \cup InRing)' = Storing \cup InRing /\ lost' = lost
    BY <1>1, <1>2, <1>3, <1>5
  <2>2. QED
    BY <1>2, <1>4, <2>1 DEF Log!logVars
<1>6. CASE old \in InRing
  <2>1. old \notin Storing /\ old \notin lost
    BY <1>1, <1>6 DEF PlaceInv
  <2>2. (Storing \cup InRing)' = (Storing \cup InRing) \ {old} /\ lost' = lost \cup {old}
    BY <1>1, <1>2, <1>3, <1>6, <2>1
  <2>3. /\ Cardinality(lost) \in Nat /\ Cardinality(missed) \in Nat
        /\ Cardinality(lost') = Cardinality(lost) + 1
    <3>1. IsFiniteSet(0..(MaxEntries - 1))
      BY LogRingAssumption, FS_Interval
    <3>2. IsFiniteSet(lost) /\ IsFiniteSet(missed)
      BY <1>1, <3>1, FS_Subset DEF TypeOK, Tickets
    <3>3. Cardinality(lost) \in Nat /\ Cardinality(missed) \in Nat
      BY <3>2, FS_CardinalityType
    <3>4. QED
      BY <2>1, <2>2, <3>2, <3>3, FS_AddElement
  <2>4. filled \/ Cardinality(lost) < Cardinality(missed)
    <3>1. filled' \/ Cardinality(lost') <= Cardinality(missed')
      BY LossFollowsNext DEF LossExplained, LossHasCause
    <3>2. QED
      BY <1>2, <2>3, <3>1
  <2>5. Log!Drop(old)
    BY <1>2, <1>4, <2>2, <2>3, <2>4 DEF Log!Drop
  <2>6. QED
    BY <1>6, <2>5 DEF Log!LogNext
<1>7. QED
  BY <1>3, <1>5, <1>6

\* Each step keeps the promise or leaves what it speaks of as it is.
LEMMA LogRefines == RingInv /\ RingInv' /\ [Next]_vars => [Log!LogNext]_Log!logVars
<1> SUFFICES ASSUME RingInv, RingInv', [Next]_vars PROVE [Log!LogNext]_Log!logVars
  OBVIOUS
<1>0. TypesInv /\ TypeOK
  BY DEF RingInv, TypesInv
<1>1. ASSUME NEW p \in Producers, Claim(p) PROVE [Log!LogNext]_Log!logVars
  BY <1>1, LogClaimed
<1>2. ASSUME NEW p \in Producers, Store(p) PROVE [Log!LogNext]_Log!logVars
  BY <1>2, LogStored
<1>3. CASE Check \/ Turn \/ LastFlush
  <2>1. /\ UNCHANGED <<head, slot, pc, ticket, missed, lost, filled>>
        /\ Flush \/ UNCHANGED <<written, batch>>
    BY <1>3 DEF Check, Turn, LastFlush, producers, history
  <2>2. Handled' = Handled
    <3>1. CASE Flush
      BY <1>0, <3>1, FlushHandles
    <3>2. CASE UNCHANGED <<written, batch>>
      BY <3>2 DEF Handled
    <3>3. QED
      BY <2>1, <3>1, <3>2
  <2>3. SameStores
    BY <2>1 DEF SameStores
  <2>4. QED
    BY <2>1, <2>2, <2>3, LogSame
<1>4. CASE Take
  <2>1. /\ Vacate /\ NoteMissed /\ UNCHANGED <<head, tail, pc, ticket, lost, filled>>
        /\ \/ written' = written \o Append(batch, Popped) /\ Popped # Empty
           \/ written' = written
    BY <1>4 DEF Take, producers
  <2>2. HandlesPopped /\ tail >= 1
    BY <1>0, <1>4, TakeHandles
  <2>3. SameStores
    BY <2>1 DEF SameStores
  <2>4. Len(written') >= Len(written)
    <3>1. written \in Seq(Tickets) /\ batch \in Seq(Tickets) /\ Popped \in Tickets \cup {Empty}
      BY <1>0, <2>2, PopTypes DEF TypeOK
    <3>2. CASE written' = written \o Append(batch, Popped) /\ Popped # Empty
      <4>1. Append(batch, Popped) \in Seq(Tickets)
        BY <3>1, <3>2
      <4>2. /\ Len(written') = Len(written) + Len(Append(batch, Popped))
            /\ Len(written) \in Nat /\ Len(Append(batch, Popped)) \in Nat
        BY <3>1, <3>2, <4>1
      <4>3. QED
        BY <4>2
    <3>3. CASE written' = written
      BY <3>1, <3>3
    <3>4. QED
      BY <2>1, <3>2, <3>3
  <2>5. Popped = Empty => written' = written
    BY <2>1
  <2>6. QED
    BY <2>1, <2>2, <2>3, <2>4, <2>5, LogPopped
<1>5. ASSUME NEW p \in Producers, Stop(p) \/ Join(p) \/ Drain(p), ~Exited
      PROVE  [Log!LogNext]_Log!logVars
  <2>1. /\ UNCHANGED <<head, slot, ticket, missed, lost, filled>>
        /\ Flush \/ UNCHANGED <<written, batch>>
        /\ pc[p] # "store"
    BY <1>5 DEF Stop, Join, Drain, worker, history
  <2>2. Handled' = Handled
    <3>1. CASE Flush
      BY <1>0, <3>1, FlushHandles
    <3>2. CASE UNCHANGED <<written, batch>>
      BY <3>2 DEF Handled
    <3>3. QED
      BY <2>1, <3>1, <3>2
  <2>3. PICK place \in {"join", "drain", "stop", "gone", "take"} : Goto(p, place)
    BY <1>5 DEF Stop, Join, Drain, DrainEnds
  <2>4. SameStores
    BY <1>0, <1>5, <2>1, <2>3, GoingOn
  <2>5. QED
    BY <2>1, <2>2, <2>4, LogSame
<1>6. ASSUME NEW p \in Producers, DrainTake(p), ~Exited
      PROVE  [Log!LogNext]_Log!logVars
  <2>1. /\ Vacate /\ NoteMissed /\ pc[p] = "take"
        /\ UNCHANGED <<head, tail, ticket, lost, filled>>
        /\ IF Popped = Empty THEN written' = written ELSE written' = Append(written, Popped)
    BY <1>6 DEF DrainTake
  <2>2. PICK place \in {"stop", "gone", "drain"} : Goto(p, place)
    BY <1>6 DEF DrainTake, DrainEnds
  <2>3. SameStores
    BY <1>0, <1>6, <2>1, <2>2, GoingOn
  <2>4. HandlesPopped /\ tail >= 1
    BY <1>0, <1>6, DrainTakeHandles
  <2>5. Len(written') >= Len(written)
    <3>1. written \in Seq(Tickets) /\ Popped \in Tickets \cup {Empty}
      BY <1>0, <2>4, PopTypes DEF TypeOK
    <3>2. CASE Popped = Empty
      BY <2>1, <3>1, <3>2
    <3>3. CASE Popped # Empty
      <4>1. Len(written') = Len(written) + 1 /\ Len(written) \in Nat
        BY <2>1, <3>1, <3>3, OneMore
      <4>2. QED
        BY <4>1
    <3>4. QED
      BY <3>2, <3>3
  <2>6. QED
    BY <2>1, <2>3, <2>4, <2>5, LogPopped
<1>7. CASE UNCHANGED vars
  <2>1. Storing' = Storing /\ InRing' = InRing /\ Handled' = Handled
    BY <1>7 DEF Storing, InRing, Handled, vars, producers, worker
  <2>2. QED
    BY <1>7, <2>1 DEF Log!logVars, vars, history
<1>8. QED
  BY <1>1, <1>2, <1>3, <1>4, <1>5, <1>6, <1>7 DEF Next, Step, Worker, Push, Exiting

\* The logger implements EntryLog: whatever producers, worker and the drain of
\* stopAndFlush do in between, what the sinks were given is never taken back, an
\* entry in the batch keeps its place, each entry is handled or overwritten once,
\* and each loss and each overtaking finds its cause when it happens
\* (logger.cpp:194-237).
THEOREM ImplementsEntryLog == Spec => Logs
<1>1. Init => Log!LogInit
  <2> SUFFICES ASSUME Init PROVE Log!LogInit
    OBVIOUS
  <2>1. Handled = <<>> /\ Storing = {} /\ InRing = {} /\ missed = {}
    BY DEF Init, Handled, Storing, InRing
  <2>2. Cardinality(missed) = 0 /\ Cardinality(lost) = 0
    BY <2>1, FS_EmptySet DEF Init
  <2>3. QED
    BY <2>1, <2>2 DEF Init, Log!LogInit
<1>2. QED
  BY <1>1, LogRefines, RingInvHolds, PTL DEF Spec, Logs, Log!LogSpec
=============================================================================
