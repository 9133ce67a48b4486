------------------------------- MODULE Scripts -------------------------------
(***************************************************************************)
(* Sessions that run scripts side by side (ScriptStreamer in               *)
(* src/src/Streamer.cpp): descriptor numbers, the ends of pipes and        *)
(* sockets they stand for, and what posix_spawn leaves open in a child.    *)
(*                                                                         *)
(* An end is a pair of a kind and the session that made it.  Each session  *)
(* is on an I/O thread of its own: between any two of its calls the others *)
(* may run.  Arguments come from one read of BUFSIZ bytes and fit a pipe;  *)
(* what the script writes is taken to fit one too.                         *)
(***************************************************************************)
EXTENDS Integers, Sequences, FiniteSets, FiniteSetsExt

CONSTANTS Sessions,
          Numbers     \* descriptor numbers the process may still use

PipeKinds == {"in_r", "in_w", "out_r", "out_w"}
Kinds == PipeKinds \cup {"sock"}
Ends  == Kinds \X Sessions

ASSUME ScriptsAssumption ==
  /\ IsFiniteSet(Sessions)
  /\ Numbers \subseteq Nat /\ IsFiniteSet(Numbers)

Free  == <<"free">>   \* what an unused number stands for
Unset == -1           \* an uninitialized stdin_pipe or stdout_pipe

VARIABLES fd,     \* the process's descriptor table: number to end
          num,    \* per session and kind: the number kept in its variables
          todo,   \* per session: its remaining calls, in order
          closed, \* history, per session: the kinds it has closed
          input,  \* per session: what became of the arguments of its script
          child,  \* per session: its script's process
          stdin,  \* per session: the end its script has as standard input
          holds,  \* per session: the ends its script keeps open
          full,   \* the pipes' reading ends with arguments to read
          killed  \* SIGPIPE has ended the server

vars == <<fd, num, todo, closed, input, child, stdin, holds, full, killed>>

processes == <<child, stdin, holds>>

-----------------------------------------------------------------------------
\* The calls of a session.  Those that close descriptors, and which: closes that
\* follow one another at once are one step.
Closes == [child_ends |-> {"in_r", "out_w"}, in_w |-> {"in_w"}, out_r |-> {"out_r"},
           destroy |-> PipeKinds, sock |-> {"sock"}]

\* ~ScriptStreamer closes all four, also those closed before.
Destructor == <<"destroy">>

\* The destructor of the asio descriptor on stdout_pipe[0], then the streamer's.
Unwind == <<"out_r">> \o Destructor

\* Slip: the end of file is signalled before the arguments are written.
PlanEofFirst == <<"accept", "pipe_in", "pipe_out", "spawn", "child_ends",
                  "in_w", "write", "read", "wait">> \o Unwind \o <<"sock">>

\* Slip: spawn closes the end it still reads from.
PlanWrongEnd == <<"accept", "pipe_in", "pipe_out", "spawn", "child_ends",
                  "write", "out_r", "read", "wait">> \o Unwind \o <<"sock">>

\* Slip: spawn does not signal the end of file.
PlanNoEof == <<"accept", "pipe_in", "pipe_out", "spawn", "child_ends",
               "write", "read", "wait">> \o Unwind \o <<"sock">>

\* From the accept of its socket to its close.
Plan == <<"accept", "pipe_in", "pipe_out", "spawn", "child_ends",
          "write", "in_w", "read", "wait">> \o Unwind \o <<"sock">>

Calls(s, c) == ~killed /\ todo[s] # <<>> /\ todo[s][1] = c
Return(s) == todo' = [todo EXCEPT ![s] = Tail(@)]

\* Slip: an exception skips the destructor.
ThrowForgets(s, unwinding) == todo' = [todo EXCEPT ![s] = <<"sock">>]

\* An exception unwinds the streamer; the error page is not modelled here.
Throw(s, unwinding) == todo' = [todo EXCEPT ![s] = unwinding \o <<"sock">>]

Held(e) == \/ \E n \in Numbers : fd[n] = e
           \/ \E t \in Sessions : e \in holds[t]

\* What a number in a session's variables stands for now.
At(s, k) == IF num[s][k] = Unset THEN Free ELSE fd[num[s][k]]
Owns(s, k) == At(s, k) = <<k, s>>

Reader(e) == <<IF e[1] = "in_w" THEN "in_r" ELSE "out_r", e[2]>>
Writer(e) == <<IF e[1] = "in_r" THEN "in_w" ELSE "out_w", e[2]>>

-----------------------------------------------------------------------------
Init ==
  /\ fd = [n \in Numbers |-> Free]
  /\ num = [s \in Sessions |-> [k \in Kinds |-> Unset]]
  /\ todo = [s \in Sessions |-> Plan]
  /\ closed = [s \in Sessions |-> {}]
  /\ input = [s \in Sessions |-> "unwritten"]
  /\ child = [s \in Sessions |-> "none"]
  /\ stdin = [s \in Sessions |-> Free]
  /\ holds = [s \in Sessions |-> {}]
  /\ full = {}
  /\ killed = FALSE

FreeNumbers == {n \in Numbers : fd[n] = Free}

\* The kernel gives the lowest free number to each new end in turn.
Allocate(s, kinds) ==
  LET n == Min(FreeNumbers)
      m == Min(FreeNumbers \ {n})
  IN  IF Len(kinds) = 1
      THEN /\ fd' = [fd EXCEPT ![n] = <<kinds[1], s>>]
           /\ num' = [num EXCEPT ![s][kinds[1]] = n]
      ELSE /\ fd' = [fd EXCEPT ![n] = <<kinds[1], s>>, ![m] = <<kinds[2], s>>]
           /\ num' = [num EXCEPT ![s][kinds[1]] = n, ![s][kinds[2]] = m]

Accept(s) ==
  /\ Calls(s, "accept")
  /\ FreeNumbers # {}
  /\ Allocate(s, <<"sock">>)
  /\ Return(s)
  /\ UNCHANGED <<closed, input, processes, full, killed>>

\* pipe() fails when the table is full.
Pipe(s, call, kinds) ==
  /\ Calls(s, call)
  /\ IF Cardinality(FreeNumbers) >= 2
     THEN Allocate(s, kinds) /\ Return(s)
     ELSE Throw(s, Destructor) /\ UNCHANGED <<fd, num>>
  /\ UNCHANGED <<closed, input, processes, full, killed>>

PipeIn(s)  == Pipe(s, "pipe_in", <<"in_r", "in_w">>)
PipeOut(s) == Pipe(s, "pipe_out", <<"out_r", "out_w">>)

\* No descriptor is opened close-on-exec: the child has everything the server
\* has, but for the two numbers the file actions close.
Inherited(s) ==
  {fd[n] : n \in Numbers \ {num[s]["in_w"], num[s]["out_r"]}} \ {Free}

\* posix_spawn may fail; dup2 of a number that is not open makes it fail.
Spawn(s) ==
  /\ Calls(s, "spawn")
  /\ \/ /\ Free \notin {At(s, "in_r"), At(s, "out_w")}
        /\ child' = [child EXCEPT ![s] = "reading"]
        /\ stdin' = [stdin EXCEPT ![s] = At(s, "in_r")]
        /\ holds' = [holds EXCEPT ![s] = Inherited(s)]
        /\ Return(s)
     \/ Throw(s, Destructor) /\ UNCHANGED processes
  /\ UNCHANGED <<fd, num, closed, input, full, killed>>

Release(ns) == fd' = [n \in Numbers |-> IF n \in ns THEN Free ELSE fd[n]]

\* A number that was never set is whatever the memory held: at worst any number.
\* Bound: of those of one session at most one strikes.
Strays(s, ks) ==
  {{}} \cup {{n} : n \in {m \in Numbers : \E k \in ks : num[s][k] = Unset}}

\* close(): the number is free again, whosever end it stands for now.
Close(s) ==
  /\ ~killed /\ todo[s] # <<>> /\ todo[s][1] \in DOMAIN Closes
  /\ LET ks == Closes[todo[s][1]]
     IN  /\ \E stray \in Strays(s, ks) : Release({num[s][k] : k \in ks} \cup stray)
         /\ closed' = [closed EXCEPT ![s] = @ \cup ks]
  /\ Return(s)
  /\ UNCHANGED <<num, input, processes, full, killed>>

Delivers(s, what, to) ==
  /\ input' = [input EXCEPT ![s] = what]
  /\ full' = full \cup to
  /\ Return(s)
  /\ UNCHANGED <<fd, killed>>

Fails(s) == Throw(s, Destructor) /\ UNCHANGED <<fd, input, full, killed>>

\* The kernel closes everything the server has.
SigPipe == killed' = TRUE /\ Release(Numbers) /\ UNCHANGED <<todo, input, full>>

\* The blocking write of the arguments.  With nobody left to read them it raises
\* SIGPIPE, which ends the server or, where the environment has it ignored,
\* leaves the error the code throws for.
WriteArgs(s) ==
  /\ Calls(s, "write")
  /\ LET e == At(s, "in_w")
         piped == e[1] \in {"in_w", "out_w"}
     IN  \/ Delivers(s, "empty", {})
         \/ piped /\ Held(Reader(e)) /\ Delivers(s, "written", {Reader(e)})
         \/ piped /\ ~Held(Reader(e)) /\ (Fails(s) \/ SigPipe)
         \/ ~piped /\ Fails(s)
         \/ e[1] = "sock" /\ Delivers(s, "written", {})
  /\ UNCHANGED <<num, closed, processes>>

\* async_read_some of the script's output, up to its end: once no process can
\* write there any more.
Read(s) ==
  /\ Calls(s, "read")
  /\ Owns(s, "out_r") /\ ~Held(<<"out_w", s>>)
  /\ Return(s)
  /\ UNCHANGED <<fd, num, closed, input, processes, full, killed>>

\* It may fail, and so may the callback that is input what was read.  A
\* descriptor that has become something else yields an error, even to the
\* constructor of the asio descriptor, or an end of file that is not its own.
ReadFails(s) ==
  /\ Calls(s, "read")
  /\ \/ Throw(s, Unwind)
     \/ ~Owns(s, "out_r") /\ (Throw(s, Destructor) \/ Return(s))
  /\ UNCHANGED <<fd, num, closed, input, processes, full, killed>>

\* Slip: waitpid is told not to wait.
WaitReturnsAtOnce(s) == TRUE

\* waitpid blocks until the script has ended.
WaitReturns(s) == child[s] = "exited"

Wait(s) ==
  /\ Calls(s, "wait")
  /\ WaitReturns(s)
  /\ child' = [child EXCEPT ![s] = "reaped"]
  /\ Return(s)
  /\ UNCHANGED <<fd, num, closed, input, stdin, holds, full, killed>>

-----------------------------------------------------------------------------
\* The script: it reads its standard input to the end or does not care for it,
\* writes, and exits.

server == <<fd, num, todo, closed, killed>>

ChildReads(s) ==
  /\ child[s] = "reading"
  /\ stdin[s] \in full
  /\ full' = full \ {stdin[s]}
  /\ input' = [input EXCEPT ![s] = IF stdin[s] = <<"in_r", s>> THEN "read" ELSE @]
  /\ UNCHANGED <<server, child, stdin, holds>>

ChildSeesEof(s) ==
  /\ child[s] = "reading"
  /\ stdin[s][1] \in {"in_r", "out_r"}
  /\ stdin[s] \notin full /\ ~Held(Writer(stdin[s]))
  /\ child' = [child EXCEPT ![s] = "fed"]
  /\ UNCHANGED <<server, stdin, holds, input, full>>

\* The ends it has are closed with it, whoever's they are.
Exit(s) ==
  /\ child' = [child EXCEPT ![s] = "exited"]
  /\ holds' = [holds EXCEPT ![s] = {}]
  /\ stdin' = [stdin EXCEPT ![s] = Free]
  /\ input' = [input EXCEPT ![s] = "unwritten"]
  /\ UNCHANGED <<server, full>>

ChildAnswers(s) == child[s] = "fed" /\ Exit(s)

ChildIgnoresInput(s) == child[s] = "reading" /\ Exit(s)

-----------------------------------------------------------------------------
ServerStep(s) == Accept(s) \/ PipeIn(s) \/ PipeOut(s) \/ Spawn(s) \/ Close(s)
                   \/ WriteArgs(s) \/ Read(s) \/ Wait(s)

ChildStep(s) == ChildReads(s) \/ ChildSeesEof(s) \/ ChildAnswers(s)

Next == \E s \in Sessions : \/ ServerStep(s) \/ ReadFails(s)
                            \/ ChildStep(s) \/ ChildIgnoresInput(s)

Spec == Init /\ [][Next]_vars

\* Threads and processes are scheduled and scripts answer once they can; nothing
\* need fail.
FairSpec ==
  Spec /\ \A s \in Sessions : WF_vars(ServerStep(s)) /\ WF_vars(ChildStep(s))

-----------------------------------------------------------------------------
TypeOK ==
  /\ fd \in [Numbers -> Ends \cup {Free}]
  /\ num \in [Sessions -> [Kinds -> Numbers \cup {Unset}]]
  /\ \A s \in Sessions : todo[s] \in Seq(DOMAIN Closes \cup {"accept", "pipe_in", "pipe_out", "spawn",
                                                   "write", "read", "wait"})
  /\ closed \in [Sessions -> SUBSET Kinds]
  /\ input \in [Sessions -> {"unwritten", "empty", "written", "read"}]
  /\ child \in [Sessions -> {"none", "reading", "fed", "exited", "reaped"}]
  /\ stdin \in [Sessions -> Ends \cup {Free}]
  /\ holds \in [Sessions -> SUBSET Ends]
  /\ \A s \in Sessions : child[s] \in {"none", "exited", "reaped"} => holds[s] = {}
  /\ full \subseteq {"in_r", "out_r"} \X Sessions
  /\ killed \in BOOLEAN

Destroyed(s) == Len(todo[s]) <= 1

\* n is among the numbers a destructor closes although its session no longer
\* has, or never had, the end behind it (Streamer.cpp:62-67).
StruckBy(s, n) == Destroyed(s) /\ \E k \in Kinds : num[s][k] \in {n, Unset}
Struck(n) == \E s \in Sessions : StruckBy(s, n)

Using(s, k) == num[s][k] # Unset /\ k \notin closed[s]

\* What a session has opened and not closed yet is still its own: its number
\* does not come to stand for another session's pipe or client.  The only way it
\* can is a destructor that closes numbers spawn closed before, or never set.
OwnsItsEnds ==
  ~killed => \A s \in Sessions, k \in Kinds :
                Using(s, k) => Owns(s, k) \/ Struck(num[s][k])

\* A script that reads its input to the end has been input all its arguments:
\* the end of file (Streamer.cpp:114) never comes before them, whatever other
\* sessions do to the descriptor table.
FedWhole ==
  \A s \in Sessions :
    child[s] = "fed" =>
      input[s] \in {"empty", "read"} \/ killed \/ \E k \in {"in_r", "in_w"} : Struck(num[s][k])

\* Whatever failed where, and whoever closed whose descriptor: when all sessions
\* are over nothing is left open.
NothingLeaks == (\A s \in Sessions : todo[s] = <<>>) => FreeNumbers = Numbers

\* Descriptors are accounted for, in use and in the end.
DescriptorsSound == OwnsItsEnds /\ NothingLeaks

\* Some scripts wait for the end of an input that one of them keeps open, only
\* because it was started at the wrong moment.
Circle ==
  \E group \in SUBSET Sessions \ {{}} :
    \A s \in group : /\ child[s] = "reading"
                     /\ \E t \in group : Writer(stdin[s]) \in holds[t]

Over(s) == todo[s] = <<>> /\ ~Held(<<"sock", s>>)

Robbed == \E s \in Sessions, k \in Kinds : Using(s, k) /\ ~Owns(s, k)

\* Every session ends and its client sees the connection close, although
\* another's script may have inherited any end of its pipes and its socket: all
\* that can prevent it is a descriptor taken away, or scripts that wait for one
\* another for ever.
EndsUnlessCircular ==
  <>((\A s \in Sessions : Over(s)) \/ killed \/ Robbed) \/ <>[]Circle

-----------------------------------------------------------------------------
\* What the repository says and the code does otherwise.

\* "signal eof to child" (Streamer.cpp:114): once the session has closed its end
\* of the input, a script that reads it to the end gets there.  (Descriptors
\* closed by a destructor are left out of the question.)
InputEnds ==
  LET struck == \E t \in Sessions : Destroyed(t)
  IN  \A s \in Sessions :
        ("in_w" \in closed[s] /\ child[s] = "reading" /\ ~struck)
          ~> (child[s] # "reading" \/ struck)
=============================================================================
