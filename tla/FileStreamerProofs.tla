-------------------------- MODULE FileStreamerProofs --------------------------
(***************************************************************************)
(* Proofs about co_write_all, on its own and as the streamers call it, for *)
(* buffers and files of any length and any number of retries.              *)
(***************************************************************************)
EXTENDS FileResponse, FiniteSetTheorems, SequenceTheorems, TLAPS

-----------------------------------------------------------------------------
\* Sequences.

\* A sequence of consecutive numbers, the first of them after d.
Runs(s, d) == s \in Seq(Int) /\ \A i \in 1..Len(s) : s[i] = i + d

\* A run continued without a gap is a longer run.
LEMMA RunGrows ==
  ASSUME NEW d \in Int, NEW c, NEW s, NEW t, Runs(s, d), Runs(t, c), c = Len(s) + d
  PROVE  Len(s \o t) = Len(s) + Len(t) /\ Runs(s \o t, d)
<1> USE DEF Runs
<1>1. /\ s \o t \in Seq(Int) /\ Len(s \o t) = Len(s) + Len(t)
      /\ \A i \in 1..(Len(s) + Len(t)) :
           (s \o t)[i] = IF i <= Len(s) THEN s[i] ELSE t[i - Len(s)]
  BY ConcatProperties
<1>2. Len(s) \in Nat /\ Len(t) \in Nat
  OBVIOUS
<1>3. ASSUME NEW i \in 1..(Len(s) + Len(t)) PROVE (s \o t)[i] = i + d
  <2>1. CASE i <= Len(s)
    BY <1>1, <1>2, <2>1
  <2>2. CASE ~(i <= Len(s))
    <3>1. i - Len(s) \in 1..Len(t)
      BY <1>2, <2>2
    <3>2. t[i - Len(s)] = (i - Len(s)) + (Len(s) + d)
      BY <3>1
    <3>3. QED
      BY <1>1, <1>2, <2>2, <3>2
  <2>3. QED
    BY <2>1, <2>2
<1>4. QED
  BY <1>1, <1>3

\* A sequence is the function of its elements.
LEMMA RunAsFunction ==
  ASSUME NEW s \in Seq(Int)
  PROVE  /\ (\A i \in 1..Len(s) : s[i] = i) => s = [i \in 1..Len(s) |-> i]
         /\ (\A i \in 1..Len(s) : s[i] = i - 1) => s = [i \in 1..Len(s) |-> i - 1]
<1>1. s = [i \in 1..Len(s) |-> s[i]]
  BY LenProperties
<1>2. QED
  BY <1>1

-----------------------------------------------------------------------------
\* co_write_all.

\* While the loop runs its count is what the transport has; when it has returned
\* the count may lag behind, but success is complete and the report is sound.
Counts ==
  /\ WriteSound
  /\ Len(wire) <= total
  /\ pc # "done" => Len(wire) = sent /\ status = 0
  /\ pc = "backoff" => retry <= MAX_RETRIES
  /\ status = 200 => bytes = total \/ retry > MAX_RETRIES

WriteInv == TypeOK /\ Counts

\* Success is the class of no error only (http.h).
LEMMA ErrorClasses ==
  ASSUME NEW e
  PROVE  /\ ErrorToStatus(e) \in Statuses \ {0}
         /\ ErrorToStatus(e) = 200 => e = "none"
  BY DEF ErrorToStatus, Statuses, Pending, Disconnects, Permanent

\* What a write can have handed over fits what was left.
LEMMA OutcomeFits ==
  ASSUME WriteInv, sent < total, NEW o \in Outcomes
  PROVE  /\ o[2] \in 0..(total - sent)
         /\ o[1] = "none" => o[2] = total - sent
<1>1. sent \in Nat /\ total \in Nat /\ "none" \notin Errors /\ "none" \notin Disconnects
  BY WriteAllAssumption DEF WriteInv, TypeOK, Disconnects
<1>2. QED
  BY <1>1 DEF Outcomes

\* One write, whatever it returns, keeps the account of the bytes.
LEMMA WriteStep ==
  ASSUME WriteInv, Write
  PROVE  WriteInv'
<1>1. PICK o \in Outcomes :
        /\ Transmit(o[2])
        /\ \/ GivesUp(o[1]) /\ Return(ErrorToStatus(o[1]))
           \/ /\ ~GivesUp(o[1])
              /\ sent' = Counted(o[2])
              /\ pc' = IF o[1] \in Retryable THEN "backoff" ELSE "write"
              /\ UNCHANGED <<retry, status, bytes>>
  BY DEF Write
<1> DEFINE e == o[1]
           n == o[2]
<1>2. /\ pc = "write" /\ sent < total /\ turn' = 1 - turn
      /\ total' = total /\ peer' = peer
  BY DEF Write
<1>3. /\ total \in Nat /\ total <= MaxBytes /\ MaxBytes \in Nat
      /\ sent \in Nat /\ Len(wire) = sent /\ status = 0
      /\ wire \in Seq(1..MaxBytes) /\ wire = [i \in 1..Len(wire) |-> i]
      /\ bytes \in 0..total /\ retry \in 1..(MAX_RETRIES + 1) /\ MAX_RETRIES \in Nat
  BY <1>2, WriteAllAssumption DEF WriteInv, TypeOK, Counts, WriteSound, WireIsPrefix
<1>4. n \in Nat /\ sent + n <= total /\ (e = "none" => sent + n = total)
  BY <1>2, <1>3, OutcomeFits
<1>5. Runs(wire', 0) /\ Len(wire') = sent + n
  <2> DEFINE more == [i \in 1..n |-> sent + i]
             d == 0
  <2>1. d \in Int /\ Runs(wire, d)
    BY <1>3 DEF Runs
  <2>2. Runs(more, sent) /\ Len(more) = n /\ sent = Len(wire) + d
    BY <1>3, <1>4 DEF Runs
  <2>3. wire' = wire \o more
    BY <1>1 DEF Transmit
  <2> HIDE DEF n, more, d
  <2>4. Len(wire \o more) = Len(wire) + Len(more)
    BY <2>1, <2>2, RunGrows
  <2>5. Runs(wire \o more, d)
    BY <2>1, <2>2, RunGrows
  <2>6. QED
    BY <1>3, <2>2, <2>3, <2>4, <2>5 DEF d
<1>6. wire' \in Seq(1..MaxBytes)
  <2>1. wire' = [i \in 1..(sent + n) |-> i]
    BY <1>5, RunAsFunction DEF Runs
  <2>2. QED
    BY <1>3, <1>4, <2>1
<1>7. WireIsPrefix'
  BY <1>5, RunAsFunction DEF WireIsPrefix, Runs
<1>8. CASE GivesUp(e) /\ Return(ErrorToStatus(e))
  <2>1. /\ sent' = sent /\ retry' = retry /\ bytes' = sent /\ pc' = "done"
        /\ status' \in Statuses \ {0} /\ (status' = 200 => e = "none")
    BY <1>8, ErrorClasses DEF Return
  <2>2. status' = 200 => retry' > MAX_RETRIES
    BY <1>8, <2>1 DEF GivesUp, Permanent
  <2>3. TypeOK'
    BY <1>2, <1>3, <1>6, <2>1 DEF WriteInv, TypeOK
  <2> HIDE DEF e, n
  <2>4. QED
    BY <1>2, <1>3, <1>4, <1>5, <1>7, <2>1, <2>2, <2>3
       DEF WriteInv, Counts, WriteSound, SuccessIsComplete, ReportIsSound
<1>9. CASE /\ ~GivesUp(e)
           /\ sent' = Counted(n)
           /\ pc' = IF e \in Retryable THEN "backoff" ELSE "write"
           /\ UNCHANGED <<retry, status, bytes>>
  <2>1. /\ sent' = sent + n /\ pc' \in {"backoff", "write"}
        /\ retry' = retry /\ status' = 0 /\ bytes' = bytes
        /\ retry <= MAX_RETRIES
    BY <1>3, <1>9 DEF Counted, GivesUp
  <2>2. TypeOK'
    BY <1>2, <1>3, <1>4, <1>6, <2>1 DEF WriteInv, TypeOK
  <2> HIDE DEF e, n
  <2>3. QED
    BY <1>2, <1>3, <1>4, <1>5, <1>7, <2>1, <2>2
       DEF WriteInv, Counts, WriteSound, SuccessIsComplete, ReportIsSound
<1>10. QED
  BY <1>1, <1>8, <1>9

\* A turn of the loop, and a peer that leaves, keep the account.
LEMMA LoopStep == WriteInv /\ (Loop \/ PeerLeaves) => WriteInv'
<1> USE DEF WriteInv, Counts, WriteSound, WireIsPrefix, SuccessIsComplete, ReportIsSound
<1>1. ASSUME WriteInv, BackoffEnds PROVE WriteInv'
  BY <1>1, WriteAllAssumption DEF BackoffEnds, NextRetry, TypeOK
<1>2. ASSUME WriteInv, Finish PROVE WriteInv'
  BY <1>2, WriteAllAssumption DEF Finish, Return, TypeOK, Statuses, Pending
<1>3. ASSUME WriteInv, PeerLeaves PROVE WriteInv'
  BY <1>3 DEF PeerLeaves, TypeOK
<1>4. QED
  BY <1>1, <1>2, <1>3, WriteStep DEF Loop

\* Whoever calls it with a buffer it can hold, the loop starts sound.
LEMMA CallStarts ==
  ASSUME WriteInv, NEW n \in 0..MaxBytes, Call(n)
  PROVE  WriteInv'
<1>1. wire' = <<>> /\ Len(wire') = 0 /\ <<>> \in Seq(1..MaxBytes)
  BY DEF Call
<1>2. wire' = [i \in 1..0 |-> i]
  BY <1>1
<1>3. WireIsPrefix'
  BY <1>1, <1>2 DEF WireIsPrefix
<1>4. TypeOK'
  BY <1>1, WriteAllAssumption DEF WriteInv, TypeOK, Call, Statuses, Pending
<1>5. QED
  BY <1>1, <1>3, <1>4 DEF WriteInv, Counts, WriteSound, SuccessIsComplete, ReportIsSound, TypeOK, Call

-----------------------------------------------------------------------------
\* The streamers.

StreamTypeOK ==
  /\ caller \in {"get", "page"}
  /\ stage \in {"open", "head", "read", "body", "over"}
  /\ file_len \in Nat /\ size \in Nat
  /\ shrunk \in BOOLEAN /\ short \in BOOLEAN
  /\ filefd \in {"none", "open", "closed"}
  /\ pos \in Nat /\ base \in Nat /\ bytes_sent \in Nat
  /\ outcome \in Nat
  /\ peer \in {"up", "gone"} /\ turn \in {0, 1}

\* Where the parts of the response are: the descriptor has read what was handed
\* over, or is being, and the count is behind it only after a late success.
Positions ==
  /\ Runs(out, -1)
  /\ stage = "head" => out = <<>> /\ (total = 1 \/ (total = 0 /\ pc = "done" /\ status = 0))
  /\ stage = "open" => Len(out) <= 1 /\ file_len = 0 /\ (caller = "get" => Len(out) = 1)
                       /\ (caller = "page" => out = <<>> /\ total = 0 /\ pc = "done" /\ status = 0)
  /\ stage \in {"open", "head"} => pos = 0 /\ bytes_sent = 0 /\ short = FALSE
  /\ stage = "head" /\ caller = "get" => file_len = 0
  /\ stage = "read" => Len(out) = pos + 1 /\ bytes_sent <= pos
  /\ stage = "body" => Len(out) = base + 1 /\ bytes_sent <= base /\ pos = base + total

\* The count is exact and within the file unless a write succeeded too late.
CountExact ==
  ~short => /\ stage = "read" => bytes_sent = pos
            /\ stage = "body" => bytes_sent = base
            /\ stage \in {"read", "body"} => pos <= file_len
            /\ stage = "over" => Len(out) <= file_len + 1

\* What a streamer that has returned has handed over.
Ended ==
  /\ outcome = 200 => /\ stage = "over" /\ Len(out) >= 1
                      /\ bytes_sent <= Len(out) - 1
                      /\ short \/ bytes_sent = Len(out) - 1
                      /\ shrunk \/ Len(out) - 1 >= file_len
  /\ stage = "over" /\ filefd = "open" => file_len = 0
  /\ ~shrunk => size >= file_len

StreamInv == WriteInv /\ StreamTypeOK /\ Positions /\ CountExact /\ Ended

\* What the transport has is a run from the head on.
LEMMA SentShape ==
  ASSUME StreamInv
  PROVE  /\ Runs(Sent, -1)
         /\ stage \in {"head", "body"} => Len(Sent) = Len(out) + Len(wire)
         /\ stage \notin {"head", "body"} => Sent = out
<1>1. /\ Runs(out, -1) /\ wire \in Seq(1..MaxBytes) /\ total \in Nat /\ base \in Nat
      /\ Len(wire) \in Nat /\ Len(wire) <= total
      /\ \A i \in 1..Len(wire) : wire[i] = i
  <2>1. Runs(out, -1)
    BY DEF StreamInv, Positions
  <2>2. total \in Nat /\ base \in Nat
    BY WriteAllAssumption DEF StreamInv, StreamTypeOK, WriteInv, TypeOK
  <2>3. wire \in Seq(1..MaxBytes) /\ Len(wire) <= total /\ wire = [i \in 1..Len(wire) |-> i]
    BY DEF StreamInv, WriteInv, TypeOK, Counts, WriteSound, WireIsPrefix
  <2>4. Len(wire) \in Nat
    BY <2>3
  <2>5. \A i \in 1..Len(wire) : wire[i] = i
    BY <2>3, <2>4
  <2>6. QED
    BY <2>1, <2>2, <2>3, <2>4, <2>5
<1>2. stage \notin {"head", "body"} => Sent = out
  BY DEF Sent
<1> DEFINE d == -1
<1>3. CASE stage = "head"
  <2>1. out = <<>> /\ total <= 1
    BY <1>1, <1>3 DEF StreamInv, Positions
  <2>2. Current = [i \in 1..Len(wire) |-> 0]
    BY <1>3 DEF Current, HeadByte
  <2>3. Runs(Current, d) /\ Len(Current) = Len(wire)
    BY <1>1, <2>1, <2>2 DEF Runs
  <2>4. Sent = out \o Current /\ d \in Int /\ d = Len(out) + d /\ Runs(out, d)
    BY <1>1, <1>3, <2>1 DEF Sent
  <2> HIDE DEF d
  <2>5. Len(out \o Current) = Len(out) + Len(Current)
    BY <2>3, <2>4, RunGrows
  <2>6. Runs(out \o Current, d)
    BY <2>3, <2>4, RunGrows
  <2>7. QED
    BY <1>3, <2>3, <2>4, <2>5, <2>6 DEF d
<1>4. CASE stage = "body"
  <2>1. Len(out) = base + 1
    BY <1>4 DEF StreamInv, Positions
  <2>2. Current = [i \in 1..Len(wire) |-> base + wire[i]]
    BY <1>4 DEF Current
  <2>3. Runs(Current, base) /\ Len(Current) = Len(wire)
    BY <1>1, <2>2 DEF Runs
  <2>4. Sent = out \o Current /\ d \in Int /\ base = Len(out) + d /\ Runs(out, d)
    BY <1>1, <1>4, <2>1 DEF Sent
  <2> HIDE DEF d
  <2>5. Len(out \o Current) = Len(out) + Len(Current)
    BY <2>3, <2>4, RunGrows
  <2>6. Runs(out \o Current, d)
    BY <2>3, <2>4, RunGrows
  <2>7. QED
    BY <1>4, <2>3, <2>4, <2>5, <2>6 DEF d
<1>5. QED
  BY <1>1, <1>2, <1>3, <1>4

\* Nothing is handed over, counted or opened before the first step.
LEMMA StreamStarts == StreamInit => StreamInv
<1> SUFFICES ASSUME StreamInit PROVE StreamInv
  OBVIOUS
<1>1. wire = <<>> /\ out = <<>> /\ Len(wire) = 0 /\ Len(out) = 0
  BY DEF StreamInit, Idle
<1>2. wire = [i \in 1..0 |-> i] /\ wire \in Seq(1..MaxBytes)
  BY <1>1
<1>3. WriteInv
  BY <1>1, <1>2, WriteAllAssumption
     DEF StreamInit, Idle, WriteInv, TypeOK, Counts, WriteSound, WireIsPrefix, SuccessIsComplete,
         ReportIsSound, Statuses, Pending
<1>4. StreamTypeOK
  <2>1. size \in Nat
    BY FileStreamerAssumption DEF StreamInit
  <2>2. stage \in {"open", "head"}
    BY DEF StreamInit, FirstStage
  <2>3. QED
    BY <2>1, <2>2 DEF StreamInit, StreamTypeOK
<1>5. Positions
  BY <1>1 DEF StreamInit, Idle, Positions, FirstStage, Runs
<1>6. CountExact /\ Ended
  BY FileStreamerAssumption DEF StreamInit, FirstStage, CountExact, Ended
<1>7. QED
  BY <1>3, <1>4, <1>5, <1>6 DEF StreamInv

\* The loop's own variables when none of its actions is taken.
LEMMA WriteUnchanged == WriteInv /\ UNCHANGED vars => WriteInv'
<1> SUFFICES ASSUME WriteInv, UNCHANGED vars PROVE WriteInv'
  OBVIOUS
<1>1. UNCHANGED total /\ UNCHANGED sent /\ UNCHANGED retry /\ UNCHANGED pc
      /\ UNCHANGED status /\ UNCHANGED bytes /\ UNCHANGED peer /\ UNCHANGED wire /\ UNCHANGED turn
  BY DEF vars
<1>2. TypeOK'
  BY <1>1 DEF WriteInv, TypeOK
<1>3. WireIsPrefix' /\ SuccessIsComplete' /\ ReportIsSound'
  BY <1>1 DEF WriteInv, Counts, WriteSound, WireIsPrefix, SuccessIsComplete, ReportIsSound
<1>4. Counts'
  BY <1>1, <1>3 DEF WriteInv, Counts, WriteSound
<1>5. QED
  BY <1>2, <1>4 DEF WriteInv

\* A write in progress, or a change of the file, leaves what was handed over.
LEMMA OtherStep ==
  ASSUME StreamInv,
         \/ (Loop \/ PeerLeaves) /\ UNCHANGED <<file, stream>>
         \/ FileChanges
         \/ UNCHANGED streamVars
  PROVE  StreamInv'
<1> USE DEF file, stream
<1>1. ASSUME Loop \/ PeerLeaves, UNCHANGED <<file, stream>> PROVE StreamInv'
  <2>1. WriteInv'
    BY <1>1, LoopStep DEF StreamInv
  <2>2. /\ total' = total /\ (pc = "done" => pc' = "done" /\ status' = status)
        /\ peer' \in {"up", "gone"} /\ turn' \in {0, 1}
    BY <1>1 DEF Loop, Write, BackoffEnds, Finish, PeerLeaves, StreamInv, StreamTypeOK
  <2>3. StreamTypeOK'
    BY <1>1, <2>2 DEF StreamInv, StreamTypeOK
  <2>4. Positions'
    BY <1>1, <2>2 DEF StreamInv, Positions
  <2>5. CountExact' /\ Ended'
    BY <1>1 DEF StreamInv, CountExact, Ended
  <2>6. QED
    BY <2>1, <2>3, <2>4, <2>5 DEF StreamInv
<1>2. ASSUME FileChanges PROVE StreamInv'
  <2>1. /\ UNCHANGED <<vars, stream>> /\ size' \in Nat
        /\ shrunk' = (shrunk \/ size' < file_len) /\ stage # "over"
    BY <1>2, FileStreamerAssumption DEF FileChanges
  <2>2. WriteInv'
    BY <2>1, WriteUnchanged DEF StreamInv
  <2>3. StreamTypeOK'
    BY <2>1 DEF StreamInv, StreamTypeOK, vars
  <2>4. Positions' /\ CountExact'
    BY <2>1 DEF StreamInv, Positions, CountExact, vars
  <2>5. Ended'
    <3>1. UNCHANGED stream
      BY <2>1
    <3>2. ~shrunk' => size' >= file_len'
      <4>1. size' < file_len => shrunk'
        BY <2>1, Zenon
      <4>2. file_len' = file_len /\ file_len \in Nat /\ size' \in Nat
        BY <2>1, <3>1 DEF StreamInv, StreamTypeOK
      <4>3. QED
        BY <4>1, <4>2
    <3>3. stage # "over" /\ outcome # 200
      BY <2>1 DEF StreamInv, Ended
    <3>4. QED
      BY <3>1, <3>2, <3>3 DEF Ended
  <2>6. QED
    BY <2>2, <2>3, <2>4, <2>5 DEF StreamInv
<1>3. ASSUME UNCHANGED streamVars PROVE StreamInv'
  <2>1. UNCHANGED vars /\ UNCHANGED file /\ UNCHANGED stream
    BY <1>3 DEF streamVars
  <2>2. WriteInv'
    BY <2>1, WriteUnchanged DEF StreamInv
  <2>3. StreamTypeOK' /\ Positions'
    BY <2>1 DEF StreamInv, StreamTypeOK, Positions, vars
  <2>4. CountExact' /\ Ended'
    BY <2>1 DEF StreamInv, CountExact, Ended
  <2>5. QED
    BY <2>2, <2>3, <2>4 DEF StreamInv
<1>4. QED
  BY <1>1, <1>2, <1>3

\* What has been handed over at any time fits the file as it was found, but for
\* what a write that succeeded too late left uncounted.
LEMMA SentFits ==
  ASSUME StreamInv, ~short
  PROVE  Len(Sent) <= file_len + 1
<1>1. /\ Len(wire) \in Nat /\ Len(out) \in Nat /\ Len(wire) <= total /\ total \in Nat
      /\ file_len \in Nat /\ base \in Nat /\ pos \in Nat
  BY DEF StreamInv, StreamTypeOK, WriteInv, TypeOK, Counts, Positions, Runs
<1>2. CASE stage = "head"
  <2>1. Len(out) = 0 /\ total <= 1
    BY <1>2 DEF StreamInv, Positions
  <2>2. Len(Sent) = Len(out) + Len(wire)
    BY <1>2, SentShape
  <2>3. QED
    BY <1>1, <2>1, <2>2
<1>3. CASE stage = "body"
  <2>1. Len(out) = base + 1 /\ pos = base + total /\ pos <= file_len
    BY <1>3 DEF StreamInv, Positions, CountExact
  <2>2. Len(Sent) = Len(out) + Len(wire)
    BY <1>3, SentShape
  <2>3. Len(out) + Len(wire) <= base + 1 + total
    BY <1>1, <2>1
  <2>4. QED
    BY <1>1, <2>1, <2>2, <2>3
<1>4. CASE stage = "open"
  <2>1. Len(out) <= 1
    BY <1>4 DEF StreamInv, Positions
  <2>2. Sent = out
    BY <1>4, SentShape
  <2>3. QED
    BY <1>1, <2>1, <2>2
<1>5. CASE stage = "read"
  BY <1>1, <1>5, SentShape DEF StreamInv, Positions, CountExact
<1>6. CASE stage = "over"
  BY <1>1, <1>6, SentShape DEF StreamInv, CountExact
<1>7. QED
  BY <1>2, <1>3, <1>4, <1>5, <1>6 DEF StreamInv, StreamTypeOK

\* However a streamer ends, what it leaves behind agrees with the file; that it
\* returns is due to a file read to the length found, or cut since.
LEMMA EndStep ==
  ASSUME StreamInv, NEW o \in Nat, End(o), stage # "over",
         UNCHANGED <<vars, file, caller, file_len, pos, base, bytes_sent, short>>,
         o = 200 => stage = "read" /\ (shrunk \/ pos >= file_len)
  PROVE  StreamInv'
<1>1. /\ stage' = "over" /\ out' = Sent /\ outcome' = o
      /\ filefd' = (IF filefd = "open" THEN "closed" ELSE filefd)
  BY DEF End, CloseAtEnd
<1>2. WriteInv'
  BY WriteUnchanged DEF StreamInv
<1>3. StreamTypeOK'
  BY <1>1 DEF StreamInv, StreamTypeOK, vars, file
<1>4. Runs(out', -1) /\ Len(out') \in Nat
  BY <1>1, SentShape DEF Runs
<1>5. Positions'
  BY <1>1, <1>4 DEF Positions
<1>6. CountExact'
  BY <1>1, SentFits DEF CountExact
<1>7. Ended'
  <2>1. outcome' = 200 => /\ Len(out') >= 1
                          /\ bytes_sent <= Len(out') - 1
                          /\ short \/ bytes_sent = Len(out') - 1
                          /\ shrunk \/ Len(out') - 1 >= file_len
    <3> SUFFICES ASSUME o = 200 PROVE /\ Len(out') >= 1
                                      /\ bytes_sent <= Len(out') - 1
                                      /\ short \/ bytes_sent = Len(out') - 1
                                      /\ shrunk \/ Len(out') - 1 >= file_len
      BY <1>1
    <3>1. out' = out /\ Len(out) = pos + 1 /\ bytes_sent <= pos
      BY <1>1, SentShape DEF StreamInv, Positions
    <3>2. pos \in Nat /\ bytes_sent \in Nat /\ (short \/ bytes_sent = pos)
      BY DEF StreamInv, StreamTypeOK, CountExact
    <3>3. QED
      BY <3>1, <3>2
  <2>2. ~shrunk' => size' >= file_len'
    BY DEF StreamInv, Ended, file
  <2>3. QED
    BY <1>1, <2>1, <2>2 DEF Ended, file
<1>8. QED
  BY <1>2, <1>3, <1>5, <1>6, <1>7 DEF StreamInv

\* Each step of a streamer keeps the account of the response.
LEMMA StreamStep == StreamInv /\ [StreamNext]_streamVars => StreamInv'
<1> SUFFICES ASSUME StreamInv, [StreamNext]_streamVars PROVE StreamInv'
  OBVIOUS
<1>a. /\ StreamTypeOK /\ Positions /\ CountExact /\ Ended /\ WriteInv
      /\ BUFFER_SIZE \in 1..MaxBytes /\ MaxBytes \in Nat /\ MAX_RETRIES \in Nat
  BY FileStreamerAssumption, WriteAllAssumption DEF StreamInv
<1>1. ASSUME OpenFile PROVE StreamInv'
  <2>1. /\ stage = "open" /\ UNCHANGED <<vars, file, caller, pos, base, bytes_sent, out, short>>
        /\ Runs(out, -1)
    BY <1>a, <1>1 DEF OpenFile, Positions
  <2>2. WriteInv'
    BY <1>a, <2>1, WriteUnchanged
  <2>3. CASE /\ size > 0
             /\ filefd' = "open" /\ file_len' = size
             /\ stage' = AfterOpen(caller)
             /\ UNCHANGED outcome
    <3>1. \/ stage' = "read" /\ caller = "get"
          \/ stage' = "head" /\ caller = "page"
      BY <1>a, <2>3 DEF AfterOpen, StreamTypeOK
    <3>2. StreamTypeOK'
      BY <1>a, <2>1, <2>3, <3>1 DEF StreamTypeOK, file, vars
    <3>3. Positions'
      BY <1>a, <2>1, <2>3, <3>1 DEF Positions, StreamTypeOK, vars
    <3>4. CountExact'
      BY <1>a, <2>1, <2>3, <3>1 DEF CountExact, Positions, StreamTypeOK
    <3>5. Ended'
      BY <1>a, <2>1, <2>3, <3>1 DEF Ended, StreamTypeOK, file
    <3>6. QED
      BY <2>2, <3>2, <3>3, <3>4, <3>5 DEF StreamInv
  <2>4. CASE /\ filefd' \in {"open", filefd} /\ UNCHANGED file_len
             /\ stage' = "over" /\ outcome' = 404
    <3>1. StreamTypeOK'
      BY <1>a, <2>1, <2>4 DEF StreamTypeOK, file, vars
    <3>2. Positions'
      BY <1>a, <2>1, <2>4 DEF Positions
    <3>3. CountExact' /\ Ended'
      BY <1>a, <2>1, <2>4 DEF CountExact, Ended, Positions, file
    <3>4. QED
      BY <2>2, <3>1, <3>2, <3>3 DEF StreamInv
  <2>5. QED
    BY <1>1, <2>3, <2>4 DEF OpenFile
<1>2. ASSUME SendHead PROVE StreamInv'
  <2>1. /\ stage = "head" /\ Call(1) /\ UNCHANGED file /\ UNCHANGED stream
    BY <1>2 DEF SendHead
  <2>2. WriteInv'
    BY <1>a, <2>1, CallStarts
  <2>3. StreamTypeOK' /\ Positions'
    <3>1. StreamTypeOK'
      BY <1>a, <2>1 DEF StreamTypeOK, Call, file, stream
    <3>2. Positions'
      BY <1>a, <2>1 DEF Positions, Call, stream
    <3>3. QED
      BY <3>1, <3>2
  <2>4. CountExact' /\ Ended'
    BY <1>a, <2>1 DEF CountExact, Ended, file, stream
  <2>5. QED
    BY <2>2, <2>3, <2>4 DEF StreamInv
<1>3. ASSUME HeadSent PROVE StreamInv'
  <2>1. /\ stage = "head" /\ pc = "done" /\ status # 0 /\ status \in Statuses
        /\ UNCHANGED <<vars, file, caller, file_len, pos, base, bytes_sent, short>>
    BY <1>a, <1>3 DEF HeadSent, Returned, WriteInv, TypeOK
  <2>2. CASE ~IsSuccess(status)
    <3>1. End(status) /\ status \in Nat /\ status # 200
      BY <1>3, <2>1, <2>2 DEF HeadSent, IsSuccess, Statuses, Pending
    <3>2. QED
      BY <2>1, <3>1, EndStep
  <2>3. CASE IsSuccess(status)
    <3>1. /\ status = 200 /\ stage' = AfterHead(caller) /\ out' = Sent
          /\ UNCHANGED <<outcome, filefd>>
      BY <1>3, <2>1, <2>3 DEF HeadSent, IsSuccess, Statuses, Pending
    <3>2. Len(wire) = total /\ total = 1 /\ out = <<>>
      BY <1>a, <2>1, <3>1 DEF WriteInv, Counts, WriteSound, SuccessIsComplete, Positions
    <3>3. Runs(out', -1) /\ Len(out') = 1
      BY <2>1, <3>1, <3>2, SentShape
    <3>4. \/ stage' = "open" /\ caller = "get"
          \/ stage' = "read" /\ caller = "page"
      BY <1>a, <3>1 DEF AfterHead, StreamTypeOK
    <3>5. WriteInv'
      BY <1>a, <2>1, WriteUnchanged
    <3>6. StreamTypeOK'
      BY <1>a, <2>1, <3>1, <3>4 DEF StreamTypeOK, file, vars
    <3>7. Positions'
      BY <1>a, <2>1, <3>1, <3>3, <3>4 DEF Positions, StreamTypeOK
    <3>8. CountExact' /\ Ended'
      BY <1>a, <2>1, <3>1, <3>4 DEF CountExact, Ended, Positions, StreamTypeOK, file
    <3>9. QED
      BY <3>5, <3>6, <3>7, <3>8 DEF StreamInv
  <2>4. QED
    BY <2>2, <2>3
<1>4. ASSUME ReadChunk PROVE StreamInv'
  <2> DEFINE there == IF size > pos THEN size - pos ELSE 0
             n == Least(BytesToRead, there)
  <2>1. /\ stage = "read" /\ pos \in Nat /\ bytes_sent \in Nat /\ file_len \in Nat /\ size \in Nat
        /\ Len(out) = pos + 1 /\ bytes_sent <= pos /\ (short \/ bytes_sent = pos)
    BY <1>a, <1>4 DEF ReadChunk, Positions, CountExact, StreamTypeOK
  <2>2. UNCHANGED <<file, caller, file_len, bytes_sent, short>>
    BY <1>4 DEF ReadChunk
  <2>3. CASE \E o \in {200, 500} : /\ End(o) /\ UNCHANGED <<vars, pos, base>>
                                   /\ o = 200 => ~More \/ Eof(n)
    <3>1. PICK o \in {200, 500} : /\ End(o) /\ UNCHANGED <<vars, pos, base>>
                                  /\ o = 200 => ~More \/ Eof(n)
      BY <2>3
    <3>2. o = 200 => shrunk \/ pos >= file_len
      <4>1. More => (Eof(n) => size <= pos)
        BY <1>a, <2>1 DEF More, Eof, Least, BytesToRead
      <4>2. ~shrunk => size >= file_len
        BY <1>a DEF Ended
      <4>3. ~More => pos >= file_len
        BY <2>1 DEF More
      <4>4. QED
        BY <2>1, <3>1, <4>1, <4>2, <4>3
    <3>3. o \in Nat
      OBVIOUS
    <3>4. QED
      BY <2>1, <2>2, <3>1, <3>2, <3>3, EndStep
  <2>4. CASE /\ More /\ ~Eof(n)
             /\ Call(n) /\ base' = pos /\ pos' = pos + n /\ stage' = "body"
             /\ UNCHANGED <<filefd, out, outcome>>
    <3>1. n \in 1..MaxBytes /\ n <= file_len - bytes_sent
      BY <1>a, <2>1, <2>4 DEF More, Eof, Least, BytesToRead
    <3> HIDE DEF n
    <3>2. n \in 0..MaxBytes /\ Call(n) /\ total' = n
      BY <1>a, <2>4, <3>1 DEF Call
    <3>3. WriteInv'
      BY <1>a, <3>2, CallStarts
    <3>4. StreamTypeOK'
      BY <1>a, <2>1, <2>2, <2>4, <3>1, <3>2 DEF StreamTypeOK, Call, file
    <3>5. Positions'
      BY <1>a, <2>1, <2>2, <2>4, <3>2 DEF Positions
    <3>6. CountExact'
      BY <1>a, <2>1, <2>2, <2>4, <3>1, <3>2 DEF CountExact
    <3>7. Ended'
      BY <1>a, <2>1, <2>2, <2>4 DEF Ended, file
    <3>8. QED
      BY <3>3, <3>4, <3>5, <3>6, <3>7 DEF StreamInv
  <2>5. QED
    BY <1>4, <2>3, <2>4 DEF ReadChunk, Offset
<1>5. ASSUME ChunkSent PROVE StreamInv'
  <2>1. /\ stage = "body" /\ pc = "done" /\ status \in Statuses /\ bytes \in Nat
        /\ UNCHANGED <<vars, file, caller, file_len, pos, base>>
    BY <1>a, <1>5 DEF ChunkSent, Returned, WriteInv, TypeOK
  <2>2. CASE ~IsSuccess(status)
    <3>1. End(status) /\ status \in Nat /\ status # 200 /\ UNCHANGED <<bytes_sent, short>>
      BY <1>5, <2>1, <2>2 DEF ChunkSent, IsSuccess, Statuses, Pending
    <3>2. QED
      BY <2>1, <3>1, EndStep
  <2>3. CASE IsSuccess(status)
    <3>1. /\ status = 200 /\ stage' = "read" /\ out' = Sent
          /\ bytes_sent' = bytes_sent + bytes /\ short' = (short \/ Late)
          /\ UNCHANGED <<outcome, filefd>>
      BY <1>5, <2>1, <2>3 DEF ChunkSent, IsSuccess, Statuses, Pending
    <3>2. /\ Len(wire) = total /\ bytes <= total /\ (bytes = total \/ Late)
          /\ total \in Nat
      BY <1>a, <2>1, <3>1 DEF WriteInv, TypeOK, Counts, WriteSound, SuccessIsComplete, Late
    <3>3. Len(out) = base + 1 /\ bytes_sent <= base /\ pos = base + total
      BY <1>a, <2>1 DEF Positions
    <3>4. base \in Nat /\ bytes_sent \in Nat /\ pos \in Nat /\ file_len \in Nat
      BY <1>a DEF StreamTypeOK
    <3>5. Runs(out', -1)
      BY <3>1, SentShape
    <3>6. Len(out') = pos + 1
      BY <2>1, <3>1, <3>2, <3>3, <3>4, SentShape
    <3>7. short' \in BOOLEAN /\ (~short' => ~short /\ ~Late)
      BY <1>a, <3>1, Zenon DEF StreamTypeOK, Late
    <3>8. ~short => bytes_sent = base /\ pos <= file_len
      BY <1>a, <2>1 DEF CountExact
    <3>9. WriteInv'
      BY <1>a, <2>1, WriteUnchanged
    <3>10. StreamTypeOK'
      BY <1>a, <2>1, <3>1, <3>4, <3>7 DEF StreamTypeOK, file, vars
    <3>11. Positions'
      BY <2>1, <3>1, <3>2, <3>3, <3>4, <3>5, <3>6 DEF Positions
    <3>12. CountExact'
      BY <2>1, <3>1, <3>2, <3>3, <3>4, <3>7, <3>8 DEF CountExact
    <3>13. Ended'
      BY <1>a, <2>1, <3>1 DEF Ended, file
    <3>14. QED
      BY <3>9, <3>10, <3>11, <3>12, <3>13 DEF StreamInv
  <2>4. QED
    BY <2>2, <2>3
<1>6. QED
  BY <1>1, <1>2, <1>3, <1>4, <1>5, OtherStep DEF StreamNext, Progress

-----------------------------------------------------------------------------
\* The body on the wire is all that follows the head.
LEMMA BodyIsTheRest ==
  ASSUME StreamInv
  PROVE  /\ Len(Sent) \in Nat /\ BodyLength \in Nat
         /\ BodyLength = IF Len(Sent) = 0 THEN 0 ELSE Len(Sent) - 1
<1>1. Runs(Sent, -1)
  BY SentShape
<1> DEFINE n == Len(Sent)
<1>2. n \in Nat /\ \A i \in 1..n : Sent[i] = i - 1
  BY <1>1 DEF Runs
<1>3. {i \in 1..n : Sent[i] # HeadByte} = 2..n
  BY <1>2 DEF HeadByte
<1>4. Cardinality(2..n) = IF n = 0 THEN 0 ELSE n - 1
  <2> HIDE DEF n
  <2>1. CASE n < 2
    <3>1. 2..n = {} /\ (n = 0 \/ n = 1)
      BY <1>2, <2>1
    <3>2. Cardinality({}) = 0
      BY FS_EmptySet
    <3>3. QED
      BY <1>2, <3>1, <3>2
  <2>2. CASE ~(n < 2)
    <3>1. Cardinality(2..n) = IF 2 > n THEN 0 ELSE n - 2 + 1
      BY <1>2, FS_Interval
    <3>2. QED
      BY <1>2, <2>2, <3>1
  <2>3. QED
    BY <2>1, <2>2
<1>5. BodyLength = IF n = 0 THEN 0 ELSE n - 1
  BY <1>3, <1>4 DEF BodyLength
<1> HIDE DEF n
<1>6. QED
  BY <1>2, <1>5 DEF n

\* The loop on its own, from its start.
LEMMA WriteInvariant == Spec => []WriteInv
<1>1. Init => WriteInv
  <2> SUFFICES ASSUME Init PROVE WriteInv
    OBVIOUS
  <2>1. wire = <<>> /\ Len(wire) = 0 /\ wire \in Seq(1..MaxBytes)
    BY DEF Init
  <2>2. WireIsPrefix
    BY <2>1 DEF WireIsPrefix
  <2>3. TypeOK
    BY <2>1, WriteAllAssumption DEF Init, TypeOK, Statuses, Pending
  <2>4. QED
    BY <2>1, <2>2, <2>3
       DEF Init, WriteInv, TypeOK, Counts, WriteSound, SuccessIsComplete, ReportIsSound
<1>2. WriteInv /\ [Next]_vars => WriteInv'
  BY LoopStep, WriteUnchanged DEF Next, Done
<1>3. QED
  BY <1>1, <1>2, PTL DEF Spec

\* co_write_all, called by itself: its count never passes the buffer, its retries
\* never MAX_RETRIES by more than one, and however failures and partial writes
\* alternate the transport has a prefix of the buffer, success means all of it,
\* and no report exceeds it (http.cpp:512).
THEOREM WriteCorrect == Spec => [](TypeOK /\ WriteSound)
<1>1. WriteInv => TypeOK /\ WriteSound
  BY DEF WriteInv, Counts
<1>2. QED
  BY <1>1, WriteInvariant, PTL

LEMMA StreamInvariant == StreamSpec => []StreamInv
  BY StreamStarts, StreamStep, PTL DEF StreamSpec

\* The same for every call that a streamer makes, whatever the socket did to the
\* calls before it.
THEOREM CallsCorrect == StreamSpec => [](TypeOK /\ WriteSound)
<1>1. StreamInv => TypeOK /\ WriteSound
  BY DEF StreamInv, WriteInv, Counts
<1>2. QED
  BY <1>1, StreamInvariant, PTL

\* The client receives the head and then the file from its beginning, without a
\* gap, a repetition or a reordering: chunks, partial writes and retries fit
\* together (Streamer.cpp:41).
THEOREM ResponseIsInOrder == StreamSpec => []ResponseInOrder
<1>1. StreamInv => ResponseInOrder
  BY SentShape, RunAsFunction DEF Runs, ResponseInOrder
<1>2. QED
  BY <1>1, StreamInvariant, PTL

\* A response is complete unless the file was cut, no longer than it declared, and
\* the access log has its length; what a write that succeeds on its last retry
\* leaves uncounted is the only exception (http.cpp:512).
THEOREM BodyIsAsAnnounced == StreamSpec => []BodyAsAnnounced
<1>1. StreamInv => BodyAsAnnounced
  <2> SUFFICES ASSUME StreamInv PROVE BodyAsAnnounced
    OBVIOUS
  <2>1. /\ Len(Sent) \in Nat /\ BodyLength \in Nat
        /\ BodyLength = IF Len(Sent) = 0 THEN 0 ELSE Len(Sent) - 1
    BY BodyIsTheRest
  <2>2. /\ file_len \in Nat /\ bytes_sent \in Nat
        /\ outcome = 200 => /\ stage = "over" /\ Len(out) >= 1
                            /\ bytes_sent <= Len(out) - 1
                            /\ short \/ bytes_sent = Len(out) - 1
                            /\ shrunk \/ Len(out) - 1 >= file_len
    BY DEF StreamInv, StreamTypeOK, Ended
  <2>3. stage = "over" => Sent = out
    BY SentShape
  <2>4. CompleteUnlessShrunk
    BY <2>1, <2>2, <2>3 DEF CompleteUnlessShrunk
  <2>5. ~short => Len(Sent) <= file_len + 1
    BY SentFits
  <2>6. LengthHonest
    BY <2>1, <2>2, <2>3, <2>5 DEF LengthHonest
  <2>7. QED
    BY <2>4, <2>6 DEF BodyAsAnnounced
<1>2. QED
  BY <1>1, StreamInvariant, PTL

\* Return or throw, the descriptor is closed; only an empty file's stays open.
THEOREM FileIsClosed == StreamSpec => []FileClosed
<1>1. StreamInv => FileClosed
  BY DEF StreamInv, Ended, FileClosed
<1>2. QED
  BY <1>1, StreamInvariant, PTL

-----------------------------------------------------------------------------
\* The response as a whole, against Transfer.

\* Which calls a stage makes: the file is known to have bytes before any is
\* read, a call that is over has a status, a stream that is over an outcome.
Calls ==
  /\ stage \in {"read", "body"} \/ (stage = "head" /\ caller = "page") => file_len > 0
  /\ stage = "body" => total > 0
  /\ stage \notin {"head", "body"} => pc = "done"
  /\ total > 0 /\ pc = "done" => status # 0
  /\ outcome # 0 <=> stage = "over"
  /\ shrunk => file_len > 0

\* Each step keeps the account of the calls.
LEMMA CallsStep == StreamInv /\ Calls /\ [StreamNext]_streamVars => Calls'
<1> SUFFICES ASSUME StreamInv, Calls, [StreamNext]_streamVars PROVE Calls'
  OBVIOUS
<1> USE DEF file, stream
<1>a. /\ StreamTypeOK /\ Positions /\ total \in Nat /\ status \in Statuses
      /\ BUFFER_SIZE \in Nat /\ BUFFER_SIZE > 0
  BY FileStreamerAssumption, WriteAllAssumption DEF StreamInv, WriteInv, TypeOK
<1>1. ASSUME OpenFile PROVE Calls'
  BY <1>a, <1>1 DEF OpenFile, Calls, AfterOpen, StreamTypeOK, Positions, vars
<1>2. ASSUME SendHead PROVE Calls'
  BY <1>a, <1>2 DEF SendHead, Call, Calls
<1>3. ASSUME HeadSent PROVE Calls'
  <2>1. stage = "head" /\ total' = total /\ pc' = pc /\ status' = status /\ caller' = caller
        /\ file_len' = file_len /\ shrunk' = shrunk /\ status # 0 /\ pc = "done"
    BY <1>3 DEF HeadSent, Returned, vars
  <2>2. \/ stage' = "over" /\ outcome' = status
        \/ stage' = AfterHead(caller) /\ outcome' = outcome
    BY <1>3 DEF HeadSent, End
  <2>3. QED
    BY <1>a, <2>1, <2>2 DEF Calls, AfterHead, StreamTypeOK
<1>4. ASSUME ReadChunk PROVE Calls'
  <2> DEFINE n == Least(BytesToRead, IF size > pos THEN size - pos ELSE 0)
  <2>1. stage = "read" /\ file_len' = file_len /\ shrunk' = shrunk /\ caller' = caller
    BY <1>4 DEF ReadChunk
  <2>2. CASE \E o \in {200, 500} : End(o) /\ UNCHANGED vars
    BY <2>1, <2>2 DEF End, Calls, vars
  <2>3. CASE More /\ ~Eof(n) /\ Call(n) /\ stage' = "body" /\ outcome' = outcome
    <3>1. n > 0
      BY <1>a, <2>3 DEF More, Eof, Least, BytesToRead, StreamTypeOK
    <3> HIDE DEF n
    <3>2. QED
      BY <2>1, <2>3, <3>1 DEF Call, Calls
  <2>4. QED
    BY <1>4, <2>2, <2>3 DEF ReadChunk, Offset
<1>5. ASSUME ChunkSent PROVE Calls'
  <2>1. stage = "body" /\ total' = total /\ pc' = pc /\ status' = status /\ caller' = caller
        /\ file_len' = file_len /\ shrunk' = shrunk /\ pc = "done"
    BY <1>5 DEF ChunkSent, Returned, vars
  <2>2. \/ stage' = "over" /\ outcome' = status
        \/ stage' = "read" /\ outcome' = outcome
    BY <1>5 DEF ChunkSent, End
  <2>3. QED
    BY <2>1, <2>2 DEF Calls
<1>6. ASSUME Loop, UNCHANGED <<file, stream>> PROVE Calls'
  <2>1. total' = total /\ (pc' = "done" => status' # 0)
    <3>1. CASE Write
      <4>1. CASE pc' = "done"
        <5>1. \E e : status' = ErrorToStatus(e)
          BY <3>1, <4>1 DEF Write, Return
        <5>2. QED
          BY <3>1, <5>1, ErrorClasses DEF Write
      <4>2. QED
        BY <3>1, <4>1 DEF Write
    <3>2. CASE BackoffEnds \/ Finish
      BY <3>2 DEF BackoffEnds, Finish, Return
    <3>3. QED
      BY <1>6, <3>1, <3>2 DEF Loop
  <2>2. pc # "done"
    BY <1>6 DEF Loop, Write, BackoffEnds, Finish
  <2>3. QED
    BY <1>6, <2>1, <2>2 DEF Calls
<1>7. ASSUME PeerLeaves, UNCHANGED <<file, stream>> PROVE Calls'
  BY <1>7 DEF PeerLeaves, Calls
<1>8. ASSUME FileChanges PROVE Calls'
  <2>1. /\ UNCHANGED vars /\ UNCHANGED stream /\ size' \in Nat
        /\ shrunk' = (shrunk \/ size' < file_len)
    BY <1>8, FileStreamerAssumption DEF FileChanges
  <2>2. shrunk' => shrunk \/ size' < file_len
    BY <2>1, Zenon
  <2>3. size' < file_len => file_len > 0
    BY <1>a, <2>1 DEF StreamTypeOK
  <2>4. QED
    BY <2>1, <2>2, <2>3 DEF Calls, vars
<1>9. CASE UNCHANGED streamVars
  BY <1>9 DEF streamVars, vars, Calls
<1>10. QED
  BY <1>1, <1>2, <1>3, <1>4, <1>5, <1>6, <1>7, <1>8, <1>9 DEF StreamNext, Progress

LEMMA CallsHold == StreamSpec => []Calls
<1>1. StreamInit => Calls
  BY DEF StreamInit, Idle, FirstStage, Calls
<1>2. QED
  BY <1>1, CallsStep, StreamInvariant, PTL DEF StreamSpec

\* What has been handed over, as Transfer writes it.
LEMMA SentInOrder == StreamInv => Len(Sent) \in Nat /\ Sent = Response!InOrder(Len(Sent))
  BY SentShape, RunAsFunction DEF Runs, Response!InOrder

LEMMA SentInOrderNext ==
  (StreamInv => Len(Sent) \in Nat /\ Sent = Response!InOrder(Len(Sent)))'
<1>1. StreamInv => Len(Sent) \in Nat /\ Sent = Response!InOrder(Len(Sent))
  BY SentInOrder
<1>2. QED
  BY <1>1, PTL

LEMMA SentShapeNext ==
  (StreamInv /\ stage \in {"head", "body"} => Len(Sent) = Len(out) + Len(wire))'
<1>1. StreamInv /\ stage \in {"head", "body"} => Len(Sent) = Len(out) + Len(wire)
  BY SentShape
<1>2. QED
  BY <1>1, PTL

LEMMA SentFitsNext == (StreamInv /\ ~short => Len(Sent) <= file_len + 1)'
<1>1. StreamInv /\ ~short => Len(Sent) <= file_len + 1
  BY SentFits
<1>2. QED
  BY <1>1, PTL

\* Where nothing is written, nothing is handed over: neither by a call that
\* starts nor by a stage that ends.
LEMMA SentKept ==
  ASSUME StreamInv, StreamInv', Calls,
         \/ OpenFile \/ SendHead \/ HeadSent \/ ReadChunk \/ ChunkSent
         \/ UNCHANGED <<wire, base, stage, out>>
  PROVE  Sent' = Sent
<1>a. Len(wire) \in Nat /\ Len(wire) <= total /\ wire \in Seq(1..MaxBytes)
  BY DEF StreamInv, WriteInv, TypeOK, Counts
<1>b. out \in Seq(Int) /\ \A s : s \in Seq(Int) => s \o <<>> = s
  <2>1. Runs(out, -1)
    BY DEF StreamInv, Positions
  <2>2. out \in Seq(Int)
    BY <2>1 DEF Runs
  <2>3. QED
    BY <2>2
<1>c. ASSUME out' = out, wire' = <<>>, stage' \in {"head", "body"} PROVE Sent' = out
  <2>1. Len(wire') = 0
    BY <1>c
  <2>2. Current' = <<>>
    BY <2>1 DEF Current
  <2>3. Sent' = out' \o Current'
    BY <1>c DEF Sent
  <2>4. QED
    BY <1>b, <1>c, <2>2, <2>3
<1>1. CASE UNCHANGED <<wire, base, stage, out>>
  BY <1>1 DEF Sent, Current
<1>2. CASE OpenFile
  <2>1. /\ stage = "open" /\ wire' = wire /\ out' = out
        /\ stage' \in {"over", AfterOpen(caller)}
    BY <1>2 DEF OpenFile, vars
  <2>2. Sent = out
    BY <2>1 DEF Sent
  <2>3. CASE stage' = "head"
    <3>1. caller = "page"
      BY <2>1, <2>3 DEF AfterOpen, StreamInv, StreamTypeOK
    <3>2. total = 0
      BY <2>1, <3>1 DEF StreamInv, Positions
    <3>3. wire' = <<>>
      BY <1>a, <2>1, <3>2
    <3>4. QED
      BY <1>c, <2>1, <2>2, <2>3, <3>3
  <2>4. CASE stage' # "head"
    <3>1. stage' \notin {"head", "body"}
      BY <2>1, <2>4 DEF AfterOpen
    <3>2. QED
      BY <2>1, <2>2, <3>1 DEF Sent
  <2>5. QED
    BY <2>3, <2>4
<1>3. CASE SendHead
  <2>1. stage = "head" /\ pc = "done" /\ status = 0 /\ stage' = stage /\ out' = out /\ wire' = <<>>
    BY <1>3 DEF SendHead, Returned, Call, stream
  <2>2. total = 0
    BY <2>1 DEF Calls, StreamInv, WriteInv, TypeOK
  <2>3. wire = <<>>
    BY <1>a, <2>2
  <2>4. Len(wire) = 0
    BY <2>3
  <2>5. Current = <<>>
    BY <2>4 DEF Current
  <2>6. Sent = out
    BY <1>b, <2>1, <2>5 DEF Sent
  <2>7. QED
    BY <1>c, <2>1, <2>6
<1>4. CASE HeadSent \/ ChunkSent
  <2>1. out' = Sent /\ stage' \notin {"head", "body"}
    BY <1>4 DEF HeadSent, ChunkSent, End, AfterHead
  <2>2. QED
    BY <2>1 DEF Sent
<1>5. CASE ReadChunk
  <2>1. stage = "read" /\ Sent = out
    BY <1>5 DEF ReadChunk, Sent
  <2>2. CASE \E o \in {200, 500} : End(o)
    BY <2>2 DEF End, Sent
  <2>3. CASE out' = out /\ wire' = <<>> /\ stage' = "body"
    BY <1>c, <2>1, <2>3
  <2>4. QED
    BY <1>5, <2>2, <2>3 DEF ReadChunk, Call
<1>6. QED
  BY <1>1, <1>2, <1>3, <1>4, <1>5

\* A turn of co_write_all delivers what comes next, or nothing.
LEMMA WriteDelivers ==
  ASSUME StreamInv, StreamInv', Calls, Write, UNCHANGED <<file, stream>>
  PROVE  [Response!TransferNext]_Response!transferVars
<1> USE DEF file, stream
<1> DEFINE n == Len(Sent)
<1>1. n \in Nat /\ Sent = Response!InOrder(n) /\ n' \in Nat /\ Sent' = Response!InOrder(n')
  BY SentInOrder, SentInOrderNext DEF Response!InOrder
<1>2. PICK m \in Nat : wire' = wire \o [i \in 1..m |-> sent + i]
  <2>1. PICK o \in Outcomes : Transmit(o[2])
    BY DEF Write
  <2>2. o[2] \in Nat
    BY <2>1, OutcomeFits DEF Write, StreamInv, WriteInv, TypeOK
  <2>3. QED
    BY <2>1, <2>2 DEF Transmit
<1>3. /\ stage \in {"head", "body"} /\ total > 0 /\ total \in Nat
      /\ stage' = stage /\ out' = out /\ Len(wire) \in Nat /\ Len(out) \in Nat
  BY WriteAllAssumption DEF Write, StreamInv, WriteInv, TypeOK, Calls, Positions, Runs, StreamTypeOK
<1>4. Len(wire') = Len(wire) + m
  <2>1. wire \in Seq(1..MaxBytes) /\ sent \in Int
    BY WriteAllAssumption DEF StreamInv, WriteInv, TypeOK
  <2>2. [i \in 1..m |-> sent + i] \in Seq(Int) /\ Len([i \in 1..m |-> sent + i]) = m
    BY <2>1
  <2>3. wire \in Seq(Int)
    BY <1>2, <2>1, WriteAllAssumption
  <2>4. QED
    BY <1>2, <2>2, <2>3
<1>5. n = Len(out) + Len(wire)
  BY <1>3, SentShape
<1>6. n' = Len(out) + Len(wire')
  <2>1. Len(Sent)' = Len(out)' + Len(wire)'
    BY <1>3, SentShapeNext
  <2>2. QED
    BY <1>3, <2>1
<1>7. CASE m = 0
  <2>1. Sent' = Sent
    BY <1>1, <1>3, <1>4, <1>5, <1>6, <1>7
  <2>2. QED
    BY <2>1 DEF Response!transferVars
<1>8. CASE m > 0
  <2> DEFINE announced == file_len
  <2>1. n' > n
    BY <1>3, <1>4, <1>5, <1>6, <1>8
  <2>2. file_len = 0 => n' = 1
    <3> SUFFICES ASSUME file_len = 0 PROVE n' = 1
      OBVIOUS
    <3>1. stage = "head"
      BY <1>3 DEF Calls
    <3>2. out = <<>> /\ total = 1
      BY <1>3, <3>1 DEF StreamInv, Positions
    <3>3. Len(out) = 0 /\ Len(wire') <= 1
      BY <1>3, <3>2 DEF StreamInv, WriteInv, Counts, Write
    <3>4. QED
      BY <1>1, <1>3, <1>4, <1>5, <1>6, <2>1, <3>3
  <2>3. ~short => n' <= file_len + 1
    BY SentFitsNext
  <2>4. outcome = 0
    BY <1>3 DEF Calls
  <2>5. Response!Deliver
    BY <1>1, <2>1, <2>2, <2>3, <2>4 DEF Response!Deliver
  <2>6. QED
    BY <2>4, <2>5 DEF Response!TransferNext
<1>9. QED
  BY <1>2, <1>7, <1>8

\* How a streamer's end looks to the client: complete, or a failure.
LEMMA EndCompletes ==
  ASSUME StreamInv, StreamInv', Calls, Calls', Sent' = Sent, NEW o \in Nat, End(o),
         stage # "over", o # 0, o = 200 \/ ~IsSuccess(o), o = 200 => stage = "read",
         UNCHANGED <<file, file_len, bytes_sent, short>>
  PROVE  Response!TransferNext
<1>1. /\ outcome = 0 /\ outcome' = o /\ stage' = "over" /\ shrunk' = shrunk
  BY DEF End, Calls, file
<1>2. CASE ~IsSuccess(o)
  <2>1. outcome' \in Nat \ ({0} \cup Response!Success)
    BY <1>1, <1>2 DEF IsSuccess, Response!Success
  <2>2. outcome' # 200
    BY <1>1, <1>2 DEF IsSuccess
  <2>3. Response!Fail
    BY <1>1, <2>1, <2>2 DEF Response!Fail
  <2>4. QED
    BY <1>1, <2>3 DEF Response!TransferNext
<1>3. CASE o = 200
  <2>1. /\ Len(out') >= 1 /\ bytes_sent <= Len(out') - 1
        /\ short \/ bytes_sent = Len(out') - 1
        /\ shrunk \/ Len(out') - 1 >= file_len
    BY <1>1, <1>3 DEF StreamInv, Ended
  <2>2. out' = Sent /\ Len(Sent) \in Nat /\ bytes_sent \in Nat /\ file_len \in Nat
    BY SentInOrder DEF End, StreamInv, StreamTypeOK
  <2>3. file_len > 0
    <3>1. stage = "read"
      BY <1>3
    <3>2. QED
      BY <3>1 DEF Calls
  <2>4. Response!Complete
    BY <1>1, <1>3, <2>1, <2>2, <2>3 DEF Response!Complete
  <2>5. QED
    BY <1>1, <2>4 DEF Response!TransferNext
<1>4. QED
  BY <1>2, <1>3

\* Each step keeps the promise or leaves what it speaks of as it is.
LEMMA StreamRefines ==
  StreamInv /\ StreamInv' /\ Calls /\ Calls' /\ [StreamNext]_streamVars
    => [Response!TransferNext]_Response!transferVars
<1> SUFFICES ASSUME StreamInv, StreamInv', Calls, Calls', [StreamNext]_streamVars
             PROVE  [Response!TransferNext]_Response!transferVars
  OBVIOUS
<1> USE DEF file, stream
<1> DEFINE logged == IF outcome = 200 THEN bytes_sent ELSE 0
<1>a. /\ StreamTypeOK /\ Positions /\ Len(Sent) \in Nat
      /\ Runs(out, -1) /\ status \in Statuses
  BY SentInOrder DEF StreamInv, Positions, WriteInv, TypeOK
<1>b. ASSUME Sent' = Sent, UNCHANGED <<file_len, shrunk, short, outcome>>,
             bytes_sent' = bytes_sent \/ outcome = 0
      PROVE  UNCHANGED Response!transferVars
  <2>1. logged' = logged
    BY <1>b
  <2>2. QED
    BY <1>b, <2>1 DEF Response!transferVars
<1>1. ASSUME Write, UNCHANGED <<file, stream>>
      PROVE  [Response!TransferNext]_Response!transferVars
  BY <1>1, WriteDelivers
<1>2. CASE (BackoffEnds \/ Finish \/ PeerLeaves) /\ UNCHANGED <<file, stream>>
  <2>1. UNCHANGED <<wire, base, stage, out>>
    BY <1>2 DEF BackoffEnds, Finish, PeerLeaves
  <2>2. Sent' = Sent
    BY <2>1, SentKept
  <2>3. QED
    BY <1>2, <1>b, <2>2
<1>3. CASE OpenFile
  <2>1. Sent' = Sent
    BY <1>3, SentKept
  <2>2. /\ stage = "open" /\ outcome = 0 /\ file_len = 0
        /\ UNCHANGED <<shrunk, short, bytes_sent>>
    BY <1>a, <1>3 DEF OpenFile, Calls, Positions
  <2>3. Len(Sent) <= 1
    BY <1>a, <2>2 DEF Sent, Positions
  <2>4. CASE file_len' = size /\ size > 0 /\ outcome' = outcome
    <3>1. file_len' \in Nat \ {0}
      BY <1>a, <2>4 DEF StreamTypeOK
    <3>2. Response!Announce
      BY <2>1, <2>2, <2>3, <2>4, <3>1 DEF Response!Announce
    <3>3. QED
      BY <2>2, <3>2 DEF Response!TransferNext
  <2>5. CASE outcome' = 404 /\ file_len' = file_len
    <3>1. outcome' \in Nat \ ({0} \cup Response!Success)
      BY <2>5 DEF Response!Success
    <3>2. Response!Fail
      BY <2>1, <2>2, <2>5, <3>1 DEF Response!Fail
    <3>3. QED
      BY <2>2, <3>2 DEF Response!TransferNext
  <2>6. QED
    BY <1>3, <2>4, <2>5 DEF OpenFile
<1>4. CASE SendHead
  <2>1. Sent' = Sent
    BY <1>4, SentKept
  <2>2. QED
    BY <1>4, <1>b, <2>1 DEF SendHead
<1>5. CASE HeadSent
  <2>1. Sent' = Sent
    BY <1>5, SentKept
  <2>2. /\ stage = "head" /\ status # 0 /\ status \in Nat
        /\ UNCHANGED <<file, file_len, bytes_sent, short>>
    BY <1>a, <1>5 DEF HeadSent, Statuses, Pending
  <2>3. CASE IsSuccess(status)
    BY <1>5, <1>b, <2>1, <2>2, <2>3 DEF HeadSent
  <2>4. CASE ~IsSuccess(status)
    <3>1. End(status)
      BY <1>5, <2>4 DEF HeadSent
    <3>2. status # 200
      BY <2>4 DEF IsSuccess
    <3>3. Response!TransferNext
      BY <2>1, <2>2, <2>4, <3>1, <3>2, EndCompletes
    <3>4. QED
      BY <3>3
  <2>5. QED
    BY <2>3, <2>4
<1>6. CASE ReadChunk
  <2>1. Sent' = Sent
    BY <1>6, SentKept
  <2>2. stage = "read" /\ UNCHANGED <<file, file_len, bytes_sent, short>>
    BY <1>6 DEF ReadChunk
  <2>3. CASE End(200)
    <3>1. Response!TransferNext
      BY <2>1, <2>2, <2>3, EndCompletes
    <3>2. QED
      BY <3>1
  <2>4. CASE End(500)
    <3>1. ~IsSuccess(500)
      BY DEF IsSuccess
    <3>2. Response!TransferNext
      BY <2>1, <2>2, <2>4, <3>1, EndCompletes
    <3>3. QED
      BY <3>2
  <2>5. CASE outcome' = outcome
    BY <1>b, <2>1, <2>2, <2>5
  <2>6. QED
    BY <1>6, <2>3, <2>4, <2>5 DEF ReadChunk
<1>7. CASE ChunkSent
  <2>1. Sent' = Sent
    BY <1>7, SentKept
  <2>2. /\ stage = "body" /\ pc = "done" /\ status # 0 /\ status \in Nat
        /\ UNCHANGED <<file, file_len>>
    BY <1>a, <1>7 DEF ChunkSent, Returned, Calls, Statuses, Pending
  <2>3. CASE IsSuccess(status)
    <3>1. outcome = 0 /\ outcome' = 0 /\ short' = (short \/ Late) /\ UNCHANGED <<file_len, shrunk>>
      BY <1>7, <2>2, <2>3 DEF ChunkSent, Calls
    <3>2. CASE short' = short
      BY <1>b, <2>1, <3>1, <3>2
    <3>3. CASE short' # short
      <4>1. short = FALSE /\ short' = TRUE
        BY <1>a, <3>1, <3>3, Zenon DEF StreamTypeOK
      <4>2. file_len > 0
        BY <2>2 DEF Calls
      <4>3. Len(out) \in Nat /\ Len(out) > 0 /\ Len(wire) \in Nat
        <5>1. Len(out) = base + 1 /\ base \in Nat
          BY <1>a, <2>2, WriteAllAssumption DEF Positions, StreamTypeOK
        <5>2. wire \in Seq(1..MaxBytes)
          BY DEF StreamInv, WriteInv, TypeOK
        <5>3. Len(wire) \in Nat
          BY <5>2
        <5>4. QED
          BY <5>1, <5>3
      <4>4. Len(Sent) > 0
        BY <2>2, <4>3, SentShape
      <4>5. Sent # <<>>
        BY <4>4
      <4>6. Response!LoseCount
        BY <2>1, <3>1, <4>1, <4>2, <4>5 DEF Response!LoseCount
      <4>7. QED
        BY <3>1, <4>6 DEF Response!TransferNext
    <3>4. QED
      BY <3>2, <3>3
  <2>4. CASE ~IsSuccess(status)
    <3>1. End(status) /\ UNCHANGED <<bytes_sent, short>>
      BY <1>7, <2>4 DEF ChunkSent
    <3>2. status # 200
      BY <2>4 DEF IsSuccess
    <3>3. Response!TransferNext
      BY <2>1, <2>2, <2>4, <3>1, <3>2, EndCompletes
    <3>4. QED
      BY <3>3
  <2>5. QED
    BY <2>3, <2>4
<1>8. CASE FileChanges
  <2>1. /\ UNCHANGED <<wire, base, stage, out, file_len, short, outcome, bytes_sent>>
        /\ stage # "over" /\ shrunk' = (shrunk \/ size' < file_len)
    BY <1>8 DEF FileChanges, vars
  <2>2. Sent' = Sent
    BY <2>1, SentKept
  <2>3. outcome = 0 /\ outcome' = 0
    BY <2>1 DEF Calls
  <2>4. CASE shrunk' = shrunk
    BY <1>b, <2>1, <2>2, <2>4
  <2>5. CASE shrunk' # shrunk
    <3>1. shrunk = FALSE /\ shrunk' = TRUE
      BY <1>a, <2>1, <2>5, Zenon DEF StreamTypeOK
    <3>2. file_len > 0
      BY <2>1, <3>1 DEF Calls
    <3>3. Response!Truncate
      BY <2>1, <2>2, <2>3, <3>1, <3>2 DEF Response!Truncate
    <3>4. QED
      BY <2>3, <3>3 DEF Response!TransferNext
  <2>6. QED
    BY <2>4, <2>5
<1>9. CASE UNCHANGED streamVars
  <2>1. UNCHANGED <<wire, base, stage, out>>
    BY <1>9 DEF streamVars, vars
  <2>2. Sent' = Sent
    BY <2>1, SentKept
  <2>3. QED
    BY <1>9, <1>b, <2>2 DEF streamVars
<1>10. QED
  BY <1>1, <1>2, <1>3, <1>4, <1>5, <1>6, <1>7, <1>8, <1>9 DEF StreamNext, Progress, Loop

\* The streamers implement Transfer: partial writes, retries and a file that
\* changes between two reads never take anything back, never let success be
\* claimed for less than was announced, and never send after the end
\* (Streamer.cpp:41, http.cpp:512).
THEOREM ImplementsTransfer == StreamSpec => Transfers
<1>1. StreamInit => Response!TransferInit
  <2> SUFFICES ASSUME StreamInit PROVE Response!TransferInit
    OBVIOUS
  <2>1. out = <<>> /\ wire = <<>> /\ outcome = 0
    BY DEF StreamInit, Idle
  <2>2. Current = <<>>
    BY <2>1 DEF Current
  <2>3. Sent = <<>>
    BY <2>1, <2>2 DEF Sent
  <2>4. QED
    BY <2>1, <2>3 DEF StreamInit, Response!TransferInit
<1>2. QED
  BY <1>1, StreamRefines, StreamInvariant, CallsHold, PTL
     DEF StreamSpec, Transfers, Response!TransferSpec

-----------------------------------------------------------------------------
\* The streamers against the steps of Session.

\* A call that reports a failure has left something unsent.
FailsShort == status \notin {0, 200} => Len(wire) < total

LEMMA FailsShortStep == StreamInv /\ FailsShort /\ [StreamNext]_streamVars => FailsShort'
<1> SUFFICES ASSUME StreamInv, FailsShort, [StreamNext]_streamVars PROVE FailsShort'
  OBVIOUS
<1>a. /\ total \in Nat /\ sent \in Nat /\ Len(wire) \in Nat /\ sent <= total
      /\ pc # "done" => Len(wire) = sent /\ status = 0
  BY WriteAllAssumption DEF StreamInv, WriteInv, TypeOK, Counts
<1>1. CASE Write
  <2>1. PICK o \in Outcomes :
          /\ Transmit(o[2])
          /\ \/ Return(ErrorToStatus(o[1]))
             \/ UNCHANGED status
    BY <1>1 DEF Write
  <2>2. pc = "write" /\ sent < total /\ total' = total /\ status = 0
    BY <1>1, <1>a DEF Write
  <2>3. /\ o[2] \in Nat
        /\ o[1] # "none" => o[2] < total - sent
    BY <1>a, <2>2 DEF Outcomes
  <2>4. Len(wire') = sent + o[2]
    <3> DEFINE m == o[2]
    <3>1. m \in Nat /\ wire' = wire \o [i \in 1..m |-> sent + i]
      BY <2>1, <2>3 DEF Transmit
    <3> HIDE DEF m
    <3>2. wire \in Seq(1..MaxBytes) /\ sent \in Int
      BY <1>a DEF StreamInv, WriteInv, TypeOK
    <3>3. [i \in 1..m |-> sent + i] \in Seq(Int) /\ Len([i \in 1..m |-> sent + i]) = m
      BY <3>1, <3>2
    <3>4. wire \in Seq(Int)
      BY <3>2, WriteAllAssumption
    <3>5. Len(wire') = Len(wire) + m
      BY <3>1, <3>3, <3>4
    <3>6. QED
      BY <1>a, <2>2, <3>5 DEF m
  <2>5. status' \notin {0, 200} => o[1] # "none"
    BY <2>1, <2>2 DEF Return, ErrorToStatus, Disconnects, Permanent
  <2>6. QED
    BY <1>a, <2>2, <2>3, <2>4, <2>5 DEF FailsShort
<1>2. CASE BackoffEnds \/ Finish \/ PeerLeaves
  BY <1>2, <1>a DEF BackoffEnds, Finish, Return, PeerLeaves, FailsShort
<1>3. CASE \E n \in Int : Call(n)
  BY <1>3 DEF Call, FailsShort
<1>4. CASE UNCHANGED vars
  BY <1>4 DEF vars, FailsShort
<1>5. ReadChunk => UNCHANGED vars \/ \E n \in Int : Call(n)
  <2> DEFINE there == IF size > Offset THEN size - Offset ELSE 0
  <2>1. BytesToRead \in Int /\ there \in Int
    BY FileStreamerAssumption, WriteAllAssumption
       DEF BytesToRead, Least, Offset, StreamInv, StreamTypeOK
  <2>2. Least(BytesToRead, there) \in Int
    BY <2>1 DEF Least
  <2>3. ReadChunk => UNCHANGED vars \/ Call(Least(BytesToRead, there))
    BY DEF ReadChunk
  <2> HIDE DEF there
  <2>4. QED
    BY <2>2, <2>3
<1>6. SendHead => \E n \in Int : Call(n)
  BY DEF SendHead
<1>7. OpenFile \/ HeadSent \/ ChunkSent \/ FileChanges \/ UNCHANGED streamVars => UNCHANGED vars
  BY DEF OpenFile, HeadSent, ChunkSent, FileChanges, streamVars
<1>8. QED
  BY <1>1, <1>2, <1>3, <1>4, <1>5, <1>6, <1>7 DEF StreamNext, Progress, Loop

LEMMA FailsShortHolds == StreamSpec => []FailsShort
<1>1. StreamInit => FailsShort
  BY DEF StreamInit, Idle, FailsShort
<1>2. QED
  BY <1>1, FailsShortStep, StreamInvariant, PTL DEF StreamSpec

\* A write of the head that fails sends nothing, one that succeeds the head; from
\* then on some of the response is out.
LEMMA HeadOut ==
  ASSUME StreamInv, Calls, FailsShort
  PROVE  /\ stage = "head" /\ pc = "done" /\ status # 0 =>
              IF status = 200 THEN Sent # <<>> ELSE Sent = <<>>
         /\ stage \in {"read", "body"} => out # <<>> /\ Sent # <<>>
         /\ stage = "head" => out = <<>>
         /\ stage = "open" => (out = <<>> <=> caller = "page")
<1>1. /\ Len(wire) \in Nat /\ total \in Nat /\ base \in Nat /\ pos \in Nat
      /\ Len(wire) <= total /\ (status = 200 => Len(wire) = total)
      /\ Positions /\ caller \in {"get", "page"}
  BY WriteAllAssumption
     DEF StreamInv, StreamTypeOK, WriteInv, TypeOK, Counts, WriteSound, SuccessIsComplete
<1>2. out \in Seq(Int) /\ Sent \in Seq(Int)
  BY <1>1, SentShape DEF Positions, Runs
<1>3. /\ stage \in {"head", "body"} => Len(Sent) = Len(out) + Len(wire)
      /\ stage \notin {"head", "body"} => Sent = out
  BY SentShape
<1>4. ASSUME stage = "head", pc = "done", status # 0
      PROVE  IF status = 200 THEN Sent # <<>> ELSE Sent = <<>>
  <2>1. total = 1 /\ Len(out) = 0
    BY <1>1, <1>4 DEF Positions
  <2>2. Len(Sent) = Len(wire)
    BY <1>1, <1>3, <1>4, <2>1
  <2>3. CASE status = 200
    <3>1. Len(Sent) = 1
      BY <1>1, <2>1, <2>2, <2>3
    <3>2. QED
      BY <2>3, <3>1
  <2>4. CASE status # 200
    <3>1. Len(Sent) = 0
      BY <1>1, <1>4, <2>1, <2>2, <2>4 DEF FailsShort
    <3>2. QED
      BY <1>2, <2>4, <3>1
  <2>5. QED
    BY <2>3, <2>4
<1>5. ASSUME stage \in {"read", "body"} PROVE out # <<>> /\ Sent # <<>>
  <2>1. Len(out) > 0
    BY <1>1, <1>5 DEF Positions
  <2>2. Len(Sent) > 0
    BY <1>1, <1>2, <1>3, <1>5, <2>1
  <2>3. QED
    BY <2>1, <2>2
<1>6. stage = "head" => out = <<>>
  BY <1>1 DEF Positions
<1>7. stage = "open" => (out = <<>> <=> caller = "page")
  BY <1>1 DEF Positions
<1>8. QED
  BY <1>4, <1>5, <1>6, <1>7

\* What Session calls the rest of the transaction is not the streamers' matter.
LEMMA RestKept ==
  /\ UNCHANGED <<Pipeline!request, Pipeline!script, Pipeline!ending>>
  /\ UNCHANGED FALSE
  BY DEF Pipeline!request, Pipeline!script, Pipeline!ending, FileRoute

\* A write of one item or of two.
LEMMA ItemsWritten ==
  ASSUME NEW S, NEW a \in S, NEW b \in S
  PROVE  /\ <<a>> \o <<b>> = <<a, b>> /\ Append(<<a>>, b) = <<a, b>>
         /\ <<>> \o <<a, b>> = <<a, b>>
<1>1. <<a>> \in Seq(S) /\ <<b>> \in Seq(S) /\ <<a, b>> \in Seq(S)
  OBVIOUS
<1>2. Append(<<a>>, b) = <<a, b>>
  <2>1. Append(<<a>>, b) \in Seq(S) /\ Len(Append(<<a>>, b)) = Len(<<a, b>>)
    BY <1>1
  <2>2. Append(<<a>>, b)[1] = a /\ Append(<<a>>, b)[2] = b
    BY <1>1
  <2>3. \A i \in 1..Len(<<a, b>>) : Append(<<a>>, b)[i] = <<a, b>>[i]
    BY <2>2
  <2>4. QED
    BY <1>1, <2>1, <2>3, SeqEqual
<1>3. <<a>> \o <<b>> = Append(<<a>>, b)
  BY <1>1
<1>4. <<>> \o <<a, b>> = <<a, b>>
  BY <1>1
<1>5. QED
  BY <1>2, <1>3, <1>4

\* A streamer's end is the end of Session's step.
LEMMA EndServes ==
  ASSUME StreamInv, StreamInv', Calls, FailsShort, stage \in {"read", "body"}, caller' = caller,
         NEW o \in Statuses \ {0}, End(o), o = 200 \/ ~IsSuccess(o)
  PROVE  Pipeline!SendFile \/ Pipeline!CustomPage
<1>1. /\ outcome = 0 /\ outcome' = o /\ stage' = "over" /\ out' # <<>> /\ out # <<>>
      /\ o # 404 /\ caller \in {"get", "page"}
  BY HeadOut DEF End, Calls, Statuses, Pending, StreamInv, StreamTypeOK
<1>2. SessionWire' \in {<<SessionHead', Whole>>, <<SessionHead', Part>>}
      /\ (o # 200 => SessionWire' = <<SessionHead', Part>>)
  BY <1>1 DEF SessionWire
<1>3. SessionHead' = SessionHead
  BY DEF SessionHead
<1>4. CASE caller = "get"
  <2>1. /\ SessionStage = "file" /\ SessionWire = <<SessionHead>>
        /\ SessionResponse.status = 200
    BY <1>1, <1>4 DEF SessionStage, SessionWire, SessionResponse
  <2>2. \A x \in {Whole, Part} : /\ <<SessionHead>> \o <<x>> = <<SessionHead, x>>
                                 /\ Append(<<SessionHead>>, x) = <<SessionHead, x>>
    <3>1. \A x \in {Whole, Part} : SessionHead \in {SessionHead, x} /\ x \in {SessionHead, x}
      OBVIOUS
    <3>2. QED
      BY <3>1, ItemsWritten
  <2>3. CASE o = 200
    <3>1. SessionStage' = "log" /\ SessionResponse' = SessionResponse
      BY <1>1, <1>4, <2>3 DEF SessionStage, SessionResponse
    <3>2. Pipeline!Continue("log")
      BY <3>1 DEF Pipeline!Continue
    <3>3. Pipeline!Wrote(<<Pipeline!Body>>) \/ Pipeline!Wrote(<<Pipeline!Cut>>)
      BY <1>2, <1>3, <2>1, <2>2
         DEF Pipeline!Wrote, Pipeline!Body, Pipeline!Cut, Whole, Part
    <3>4. Pipeline!SendFile
      BY <2>1, <3>2, <3>3, RestKept DEF Pipeline!SendFile
    <3>5. QED
      BY <3>4
  <2>4. CASE o # 200
    <3>1. SessionStage' = "error" /\ SessionResponse' = [status |-> o, cookie |-> FALSE]
      BY <1>1, <1>4, <2>4 DEF SessionStage, SessionResponse
    <3>2. SessionWire' = Append(SessionWire, Pipeline!Cut)
      BY <1>2, <1>3, <2>1, <2>2, <2>4 DEF Pipeline!Cut, Part
    <3>3. Pipeline!Throw(o)
      BY <3>1 DEF Pipeline!Throw, Pipeline!ErrorResponse
    <3>4. Pipeline!WriteFails
      BY <2>4, <3>2, <3>3 DEF Pipeline!WriteFails
    <3>5. Pipeline!SendFile
      BY <2>1, <3>4, RestKept DEF Pipeline!SendFile
    <3>6. QED
      BY <3>5
  <2>5. QED
    BY <2>3, <2>4
<1>5. CASE caller = "page"
  <2>1. /\ SessionStage = "error" /\ SessionWire = <<>>
        /\ SessionResponse = [status |-> PageStatus, cookie |-> FALSE]
        /\ SessionResponse' = SessionResponse
        /\ SessionHead = Pipeline!HeadOf(SessionResponse)
    BY <1>1, <1>5
       DEF SessionStage, SessionWire, SessionResponse, SessionHead, Pipeline!HeadOf
  <2>2. \A x \in {Whole, Part} : <<>> \o <<SessionHead, x>> = <<SessionHead, x>>
    <3>1. \A x \in {Whole, Part} : SessionHead \in {SessionHead, x} /\ x \in {SessionHead, x}
      OBVIOUS
    <3>2. QED
      BY <3>1, ItemsWritten
  <2>3. \/ /\ SessionStage' = "log"
           /\ \E rest \in {Pipeline!Body, Pipeline!Cut} :
                Pipeline!Wrote(<<Pipeline!HeadOf(SessionResponse), rest>>)
        \/ /\ SessionStage' = "default"
           /\ Pipeline!Wrote(<<Pipeline!HeadOf(SessionResponse), Pipeline!Cut>>)
    <3>1. SessionStage' = IF o = 200 THEN "log" ELSE "default"
      BY <1>1, <1>5 DEF SessionStage
    <3>2. \A x \in {Whole, Part} : SessionWire' = <<SessionHead, x>>
                   => Pipeline!Wrote(<<Pipeline!HeadOf(SessionResponse), x>>)
      BY <2>1, <2>2 DEF Pipeline!Wrote
    <3>3. SessionWire' \in {<<SessionHead, Pipeline!Body>>, <<SessionHead, Pipeline!Cut>>}
          /\ (o # 200 => SessionWire' = <<SessionHead, Pipeline!Cut>>)
      BY <1>2, <1>3 DEF Pipeline!Body, Pipeline!Cut, Whole, Part
    <3>4. QED
      BY <3>1, <3>2, <3>3 DEF Pipeline!Body, Pipeline!Cut, Whole, Part
  <2>4. Pipeline!CustomPage
    BY <2>1, <2>3, RestKept DEF Pipeline!CustomPage, Pipeline!PageFails
  <2>5. QED
    BY <2>4
<1>6. QED
  BY <1>1, <1>4, <1>5

\* The head of a GET, sent or not.
LEMMA HeadServes ==
  ASSUME StreamInv, StreamInv', Calls, FailsShort, HeadSent
  PROVE  Pipeline!GetFile \/ Pipeline!CustomPage \/ UNCHANGED Pipeline!vars
<1>1. /\ stage = "head" /\ pc = "done" /\ status # 0 /\ status \in Statuses /\ outcome = 0
      /\ status # 404 /\ out = <<>> /\ caller' = caller /\ out' = Sent
      /\ caller \in {"get", "page"}
      /\ IF status = 200 THEN Sent # <<>> ELSE Sent = <<>>
      /\ IF status = 200 THEN stage' = AfterHead(caller) /\ outcome' = outcome
                         ELSE stage' = "over" /\ outcome' = status
  BY HeadOut DEF HeadSent, End, Returned, Calls, Statuses, Pending, IsSuccess,
                 StreamInv, StreamTypeOK, WriteInv, TypeOK
<1>2. CASE caller = "get"
  <2>1. /\ SessionStage = "handler" /\ SessionWire = <<>>
        /\ SessionResponse = [status |-> 200, cookie |-> FALSE]
        /\ Pipeline!Handles("GET") /\ ~FileRoute.script
    BY <1>1, <1>2 DEF SessionStage, SessionWire, SessionResponse, Pipeline!Handles, FileRoute
  <2>2. CASE status = 200
    <3>1. /\ SessionStage' = "file" /\ SessionWire' = <<SessionHead'>>
          /\ SessionResponse' = [status |-> 200, cookie |-> FALSE]
          /\ SessionHead' = Pipeline!HeadOf(SessionResponse')
      <4>1. stage' = "open" /\ caller' = "get" /\ outcome' = 0 /\ out' # <<>>
        BY <1>1, <1>2, <2>2 DEF AfterHead
      <4>2. SessionStage' = "file"
        BY <4>1 DEF SessionStage
      <4>3. SessionWire' = <<SessionHead'>>
        BY <4>1 DEF SessionWire
      <4>4. SessionResponse' = [status |-> 200, cookie |-> FALSE]
        BY <4>1 DEF SessionResponse
      <4>5. SessionHead' = [kind |-> "head", status |-> 200, cookie |-> FALSE]
        BY <4>1 DEF SessionHead
      <4>6. QED
        BY <4>2, <4>3, <4>4, <4>5 DEF Pipeline!HeadOf
    <3>2. SessionResponse' = [SessionResponse EXCEPT !.status = 200]
      BY <2>1, <3>1
    <3>3. <<>> \o <<SessionHead'>> = <<SessionHead'>>
      OBVIOUS
    <3>4. Pipeline!Wrote(<<Pipeline!HeadOf(SessionResponse')>>)
      BY <2>1, <3>1, <3>3 DEF Pipeline!Wrote
    <3>5. Pipeline!GetFile
      BY <2>1, <3>1, <3>2, <3>4, RestKept DEF Pipeline!GetFile
    <3>6. QED
      BY <3>5
  <2>3. CASE status # 200
    <3>1. /\ SessionStage' = "error" /\ SessionWire' = <<Part>>
          /\ SessionResponse' = [status |-> status, cookie |-> FALSE]
      BY <1>1, <1>2, <2>3 DEF SessionStage, SessionWire, SessionResponse
    <3>2. SessionWire' = Append(SessionWire, Pipeline!Cut)
      BY <2>1, <3>1 DEF Pipeline!Cut, Part
    <3>3. Pipeline!Throw(status)
      BY <3>1 DEF Pipeline!Throw, Pipeline!ErrorResponse
    <3>4. Pipeline!WriteFails
      BY <1>1, <2>3, <3>2, <3>3 DEF Pipeline!WriteFails
    <3>5. Pipeline!GetFile
      BY <2>1, <3>4, RestKept DEF Pipeline!GetFile
    <3>6. QED
      BY <3>5
  <2>4. QED
    BY <2>2, <2>3
<1>3. CASE caller = "page"
  <2>1. /\ SessionStage = "error" /\ SessionWire = <<>>
        /\ SessionResponse = [status |-> PageStatus, cookie |-> FALSE]
        /\ SessionResponse' = SessionResponse
    BY <1>1, <1>3 DEF SessionStage, SessionWire, SessionResponse
  <2>2. CASE status = 200
    <3>1. stage' # "over"
      BY <1>1, <1>3, <2>2 DEF AfterHead
    <3>2. SessionStage' = SessionStage /\ SessionWire' = SessionWire
      BY <1>1, <1>3, <2>1, <3>1 DEF SessionStage, SessionWire
    <3>3. UNCHANGED Pipeline!vars
      BY <2>1, <3>2, RestKept
         DEF Pipeline!vars, Pipeline!request, Pipeline!script, Pipeline!ending
    <3>4. QED
      BY <3>3
  <2>3. CASE status # 200
    <3>1. SessionStage' = "default" /\ SessionWire' = <<Part>>
      BY <1>1, <1>3, <2>3 DEF SessionStage, SessionWire
    <3>2. <<>> \o <<Part>> = <<Part>>
      OBVIOUS
    <3>3. Pipeline!Wrote(<<Pipeline!Cut>>)
      BY <2>1, <3>1, <3>2 DEF Pipeline!Wrote, Pipeline!Cut, Part
    <3>4. Pipeline!CustomPage
      BY <2>1, <3>1, <3>3, RestKept DEF Pipeline!CustomPage, Pipeline!PageFails
    <3>5. QED
      BY <3>4
  <2>4. QED
    BY <2>2, <2>3
<1>4. QED
  BY <1>1, <1>2, <1>3

\* A file that is opened, or is not there or empty.
LEMMA OpenServes ==
  ASSUME StreamInv, StreamInv', Calls, FailsShort, OpenFile
  PROVE  Pipeline!SendFile \/ Pipeline!CustomPage \/ UNCHANGED Pipeline!vars
<1>1. /\ stage = "open" /\ outcome = 0 /\ caller' = caller /\ out' = out
      /\ caller \in {"get", "page"} /\ (out = <<>> <=> caller = "page")
      /\ \/ stage' = AfterOpen(caller) /\ outcome' = outcome
         \/ stage' = "over" /\ outcome' = 404
  BY HeadOut DEF OpenFile, Calls, StreamInv, StreamTypeOK
<1>2. CASE stage' = AfterOpen(caller) /\ outcome' = outcome
  <2>1. /\ stage' # "over" /\ (caller = "get" => stage' # "head")
    BY <1>1, <1>2 DEF AfterOpen
  <2>2. /\ SessionStage' = SessionStage /\ SessionWire' = SessionWire
        /\ SessionResponse' = SessionResponse
    BY <1>1, <1>2, <2>1 DEF SessionStage, SessionWire, SessionResponse, SessionHead
  <2>3. UNCHANGED Pipeline!vars
    BY <2>2, RestKept
       DEF Pipeline!vars, Pipeline!request, Pipeline!script, Pipeline!ending
  <2>4. QED
    BY <2>3
<1>3. CASE caller = "get" /\ stage' = "over" /\ outcome' = 404
  <2>1. /\ SessionStage = "file" /\ SessionStage' = "error"
        /\ SessionWire' = SessionWire
        /\ SessionResponse' = [status |-> 404, cookie |-> FALSE]
    <3>1. SessionHead' = SessionHead
      BY <1>1 DEF SessionHead
    <3>2. SessionWire' = <<SessionHead'>> /\ SessionWire = <<SessionHead>>
      BY <1>1, <1>3 DEF SessionWire
    <3>3. SessionStage = "file" /\ SessionStage' = "error"
      BY <1>1, <1>3 DEF SessionStage
    <3>4. SessionResponse' = [status |-> 404, cookie |-> FALSE]
      BY <1>1, <1>3 DEF SessionResponse
    <3>5. QED
      BY <3>1, <3>2, <3>3, <3>4
  <2>2. Pipeline!Throw(404)
    BY <2>1 DEF Pipeline!Throw, Pipeline!ErrorResponse
  <2>3. Pipeline!SendFile
    BY <2>1, <2>2, RestKept DEF Pipeline!SendFile
  <2>4. QED
    BY <2>3
<1>4. CASE caller = "page" /\ stage' = "over" /\ outcome' = 404
  <2>1. /\ SessionStage = "error" /\ SessionStage' = "default"
        /\ SessionWire = <<>> /\ SessionWire' = <<>>
        /\ SessionResponse = [status |-> PageStatus, cookie |-> FALSE]
        /\ SessionResponse' = SessionResponse
    BY <1>1, <1>4 DEF SessionStage, SessionWire, SessionResponse
  <2>2. <<>> \o <<>> = <<>>
    OBVIOUS
  <2>3. Pipeline!Wrote(<<>>)
    BY <2>1, <2>2 DEF Pipeline!Wrote
  <2>4. Pipeline!CustomPage
    BY <2>1, <2>3, RestKept DEF Pipeline!CustomPage, Pipeline!PageFails
  <2>5. QED
    BY <2>4
<1>5. QED
  BY <1>1, <1>2, <1>3, <1>4

LEMMA StreamServes ==
  StreamInv /\ StreamInv' /\ Calls /\ FailsShort /\ [StreamNext]_streamVars
    => [Pipeline!GetFile \/ Pipeline!SendFile \/ Pipeline!CustomPage]_(Pipeline!vars)
<1> SUFFICES ASSUME StreamInv, StreamInv', Calls, FailsShort, [StreamNext]_streamVars
             PROVE  \/ Pipeline!GetFile \/ Pipeline!SendFile \/ Pipeline!CustomPage
                    \/ UNCHANGED Pipeline!vars
  OBVIOUS
<1>1. ASSUME UNCHANGED <<caller, out, outcome>>,
             \/ UNCHANGED <<stage, file_len>>
             \/ stage \notin {"over", "head"} /\ stage' \notin {"over", "head"}
      PROVE  UNCHANGED Pipeline!vars
  <2>1. SessionStage' = SessionStage /\ SessionHead' = SessionHead
        /\ SessionResponse' = SessionResponse
    BY <1>1 DEF SessionStage, SessionResponse, SessionHead
  <2>2. SessionWire' = SessionWire
    BY <1>1, <2>1 DEF SessionWire
  <2>3. QED
    BY <2>1, <2>2, RestKept
       DEF Pipeline!vars, Pipeline!request, Pipeline!script, Pipeline!ending
<1>2. CASE (Loop \/ PeerLeaves) /\ UNCHANGED <<file, stream>>
  BY <1>1, <1>2 DEF stream
<1>3. CASE FileChanges \/ SendHead \/ UNCHANGED streamVars
  BY <1>1, <1>3 DEF FileChanges, SendHead, streamVars, stream
<1>4. CASE OpenFile
  BY <1>4, OpenServes
<1>5. CASE HeadSent
  BY <1>5, HeadServes
<1>6. CASE ReadChunk
  <2>1. stage = "read" /\ caller' = caller
    BY <1>6 DEF ReadChunk
  <2>2. CASE \E o \in {200, 500} : End(o)
    <3>1. PICK o \in {200, 500} : End(o)
      BY <2>2
    <3>2. o \in Statuses \ {0} /\ (o = 200 \/ ~IsSuccess(o))
      BY <3>1 DEF Statuses, Pending, IsSuccess
    <3>3. QED
      BY <2>1, <3>1, <3>2, EndServes
  <2>3. CASE stage' = "body" /\ UNCHANGED <<out, outcome>>
    BY <1>1, <2>1, <2>3
  <2>4. QED
    BY <1>6, <2>2, <2>3 DEF ReadChunk
<1>7. CASE ChunkSent
  <2>1. /\ stage = "body" /\ pc = "done" /\ caller' = caller
        /\ status \in Statuses \ {0}
    BY <1>7 DEF ChunkSent, Returned, Calls, StreamInv, WriteInv, TypeOK
  <2>2. CASE End(status) /\ ~IsSuccess(status)
    BY <2>1, <2>2, EndServes
  <2>3. CASE stage' = "read" /\ out' = Sent /\ outcome' = outcome
    <3>1. out # <<>> /\ out' # <<>>
      BY <2>1, <2>3, HeadOut
    <3>2. /\ SessionStage' = SessionStage /\ SessionWire' = SessionWire
          /\ SessionResponse' = SessionResponse
      BY <2>1, <2>3, <3>1 DEF SessionStage, SessionWire, SessionResponse, SessionHead
    <3>3. UNCHANGED Pipeline!vars
      BY <3>2, RestKept
         DEF Pipeline!vars, Pipeline!request, Pipeline!script, Pipeline!ending
    <3>4. QED
      BY <3>3
  <2>4. QED
    BY <1>7, <2>2, <2>3 DEF ChunkSent
<1>8. QED
  BY <1>2, <1>3, <1>4, <1>5, <1>6, <1>7 DEF StreamNext, Progress

\* What Session takes for one or two steps of a handler or an error page is all
\* that the streamers ever do, whatever the socket and the file do meanwhile
\* (GetHandler.cpp:38-58, Router.cpp:142-160).
THEOREM ServesSession == StreamSpec => ServesAsSession
  BY StreamServes, StreamInvariant, CallsHold, FailsShortHolds, PTL DEF StreamSpec, ServesAsSession
=============================================================================
