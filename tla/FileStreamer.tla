----------------------------- MODULE FileStreamer -----------------------------
(***************************************************************************)
(* How a file reaches a client (src/src/Streamer.cpp): a head sent by a    *)
(* StringStreamer and the chunks of a FileStreamer, each through a call of *)
(* co_write_all (WriteAll), from a file that others may change meanwhile.  *)
(* GetHandler sends the head before it opens the file; an error page       *)
(* (Router::addErrorPage) opens first and declares the length it found.    *)
(*                                                                         *)
(* The head is one byte here, a file is its length, and a byte of the body *)
(* is its offset in the file.                                              *)
(***************************************************************************)
EXTENDS WriteAll, FiniteSets

CONSTANTS MaxFile,    \* bound: length of the file
          MaxChanges, \* bound: times it changes
          BUFFER_SIZE

ASSUME FileStreamerAssumption ==
  /\ MaxFile \in Nat /\ MaxChanges \in Nat
  /\ BUFFER_SIZE \in 1..MaxBytes

VARIABLES caller,   \* "get" or "page"
          stage,    \* "open", "head", "read", "body" or "over"
          file_len, \* the length found when the file was opened
          size,     \* the length of the file now
          changes,  \* history: how often it has changed
          shrunk,   \* history: whether it was ever shorter than file_len
          filefd,   \* "none", "open" or "closed"
          pos,      \* the descriptor's offset
          base,     \* the offset of the chunk in the buffer
          bytes_sent,
          out,      \* history: what earlier calls handed to the transport
          short,    \* history: a write succeeded after more than MAX_RETRIES pauses
          outcome   \* 0, 200 when the streamers returned, or what they threw

file   == <<size, changes, shrunk>>
stream == <<caller, stage, file_len, filefd, pos, base, bytes_sent, out, short, outcome>>
streamVars == <<vars, file, stream>>

HeadByte == 0  \* the head on the wire

FirstStage(c) == IF c = "get" THEN "head" ELSE "open"
AfterHead(c)  == IF c = "get" THEN "open" ELSE "read"
AfterOpen(c)  == IF c = "get" THEN "read" ELSE "head"

Idle == total = 0 /\ sent = 0 /\ retry = 1 /\ pc = "done" /\ status = 0 /\ bytes = 0 /\ wire = <<>>

StreamInit ==
  /\ Idle /\ peer = "up" /\ turn = 0
  /\ caller \in {"get", "page"}
  /\ stage = FirstStage(caller)
  /\ size \in 0..MaxFile
  /\ changes = 0
  /\ shrunk = FALSE
  /\ file_len = 0
  /\ filefd = "none"
  /\ pos = 0
  /\ base = 0
  /\ bytes_sent = 0
  /\ out = <<>>
  /\ short = FALSE
  /\ outcome = 0

-----------------------------------------------------------------------------
\* co_await co_write_all(n bytes): its variables start afresh.
Call(n) ==
  /\ total' = n /\ sent' = 0 /\ retry' = 1
  /\ pc' = "write" /\ status' = 0 /\ bytes' = 0 /\ wire' = <<>>
  /\ UNCHANGED <<peer, turn>>

Returned == pc = "done"

\* What the current call hands over, in terms of the response.
Current == [i \in 1..Len(wire) |-> IF stage = "head" THEN HeadByte ELSE base + wire[i]]
Sent == IF stage \in {"head", "body"} THEN out \o Current ELSE out

\* Slip: only a stream that ends well closes the file.
CloseIfDone(o) == IF o = 200 /\ filefd = "open" THEN "closed" ELSE filefd

\* ~FileStreamer, also on the way of an exception.
CloseAtEnd(o) == IF filefd = "open" THEN "closed" ELSE filefd

End(o) ==
  /\ outcome' = o
  /\ stage' = "over"
  /\ filefd' = CloseAtEnd(o)
  /\ out' = Sent

\* The constructor of FileStreamer.  An empty file is opened and refused: the
\* object was never complete, so no destructor closes the descriptor.
OpenFile ==
  /\ stage = "open"
  /\ \/ /\ size > 0
        /\ filefd' = "open" /\ file_len' = size
        /\ stage' = AfterOpen(caller)
        /\ UNCHANGED outcome
     \/ /\ size = 0
        /\ filefd' = "open"
        /\ stage' = "over" /\ outcome' = 404
        /\ UNCHANGED file_len
     \/ /\ stage' = "over" /\ outcome' = 404
        /\ UNCHANGED <<filefd, file_len>>
  /\ UNCHANGED <<vars, file, caller, pos, base, bytes_sent, out, short>>

SendHead ==
  /\ stage = "head" /\ Returned /\ status = 0
  /\ Call(1)
  /\ UNCHANGED <<file, stream>>

\* Slip: what the client does to the connection is no failure.
IsSuccessBelow500(s) == s >= 200 /\ s < 500

IsSuccess(s) == s >= 200 /\ s < 400

Late == retry > MAX_RETRIES

\* The write of the head has returned: on, or a throw.
HeadSent ==
  /\ stage = "head" /\ Returned /\ status # 0
  /\ IF IsSuccess(status)
     THEN /\ stage' = AfterHead(caller)
          /\ out' = Sent
          /\ UNCHANGED <<outcome, filefd>>
     ELSE End(status)
  /\ UNCHANGED <<vars, file, caller, file_len, pos, base, bytes_sent, short>>

\* Slip: one byte less than the file has.
MoreButOne == bytes_sent + 1 < file_len

More == bytes_sent < file_len

Least(a, b) == IF a < b THEN a ELSE b

\* Slip: a whole buffer is read whatever is left to send.
WholeBuffer == BUFFER_SIZE

BytesToRead == Least(BUFFER_SIZE, file_len - bytes_sent)

\* Slip: reading goes on where the count says, not where it stopped.
OffsetByCount == bytes_sent

Offset == pos

\* Slip: the end of the file does not end the loop.
EofGoesOn(n) == FALSE

Eof(n) == n = 0

\* One turn of the loop up to its write: the length is sent, read() fails, finds
\* the end of a file that has become shorter, or fills the buffer.
ReadChunk ==
  /\ stage = "read"
  /\ LET there == IF size > Offset THEN size - Offset ELSE 0
         n     == Least(BytesToRead, there)
     IN  IF ~More \/ Eof(n)
         THEN End(200) /\ UNCHANGED <<vars, pos, base>>
         ELSE \/ End(500) /\ UNCHANGED <<vars, pos, base>>
              \/ /\ Call(n)
                 /\ base' = Offset
                 /\ pos' = Offset + n
                 /\ stage' = "body"
                 /\ UNCHANGED <<filefd, out, outcome>>
  /\ UNCHANGED <<file, caller, file_len, bytes_sent, short>>

\* The write of a chunk has returned: counted as reported, or a throw.
ChunkSent ==
  /\ stage = "body" /\ Returned
  /\ IF IsSuccess(status)
     THEN /\ bytes_sent' = bytes_sent + bytes
          /\ short' = (short \/ Late)
          /\ stage' = "read"
          /\ out' = Sent
          /\ UNCHANGED <<filefd, outcome>>
     ELSE End(status) /\ UNCHANGED <<bytes_sent, short>>
  /\ UNCHANGED <<vars, file, caller, file_len, pos, base>>

\* Whoever deploys the site writes to the file.
FileChanges ==
  /\ changes < MaxChanges /\ stage # "over"
  /\ size' \in (0..MaxFile) \ {size}
  /\ changes' = changes + 1
  /\ shrunk' = (shrunk \/ size' < file_len)
  /\ UNCHANGED <<vars, stream>>

Progress == \/ Loop /\ UNCHANGED <<file, stream>>
            \/ OpenFile \/ SendHead \/ HeadSent \/ ReadChunk \/ ChunkSent

StreamNext == \/ Progress \/ FileChanges
              \/ PeerLeaves /\ UNCHANGED <<file, stream>>
              \/ stage = "over" /\ UNCHANGED streamVars

StreamSpec == StreamInit /\ [][StreamNext]_streamVars /\ WF_streamVars(Progress)
-----------------------------------------------------------------------------
\* The response as far as the transport has it: its head, then the file from its
\* beginning, without a gap, a repetition or a reordering, however the writes of
\* head and chunks were cut up and retried.
ResponseInOrder == Sent = [i \in 1..Len(Sent) |-> i - 1]

BodyLength == Cardinality({i \in 1..Len(Sent) : Sent[i] # HeadByte})

\* A streamer that returns has sent all that the file had when it was opened,
\* unless the file was shorter at some time since (Streamer.cpp:44).
CompleteUnlessShrunk == outcome = 200 /\ ~shrunk => BodyLength >= file_len

\* Never more than the Content-Length that an error page declares, also when the
\* file grows; and what is reported to the access log was sent.  Only a write
\* that succeeds on its last retry is not counted (http.cpp:512).
LengthHonest ==
  /\ ~short => BodyLength <= file_len
  /\ outcome = 200 => bytes_sent <= BodyLength /\ (short \/ bytes_sent = BodyLength)

\* The client gets the body it was announced, and the access log its length.
BodyAsAnnounced == CompleteUnlessShrunk /\ LengthHonest

\* However the response ends, the file is closed: but for an empty one, which
\* the constructor refuses after it has opened it (Streamer.cpp:27).
FileClosed == stage = "over" /\ filefd = "open" => file_len = 0

\* The chunks, their partial writes and the changes of the file together keep
\* the promise of Transfer: nothing is taken back or sent after the end, success
\* is claimed once and for all that was announced, and the log has its length
\* (Streamer.cpp:41, http.cpp:512).
Response == INSTANCE Transfer
              WITH received <- Sent, announced <- file_len, cut <- shrunk, uncounted <- short,
                   result <- outcome, logged <- IF outcome = 200 THEN bytes_sent ELSE 0
Transfers == Response!TransferSpec

\* A client that stays gets the response to its end, or the handler an error,
\* however many partial writes and retryable errors come: every turn of
\* co_write_all sends something or uses up a retry, and every turn of the
\* streamer reads on or ends.
StreamEnds == <>(stage = "over") \/ <>(peer = "gone")
=============================================================================
