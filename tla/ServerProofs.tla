----------------------------- MODULE ServerProofs -----------------------------
(***************************************************************************)
(* Proofs about the running server, from the first section of its file on: *)
(* what the file says holds of it (StartupProofs), the endpoint map routes *)
(* every request as filed though it has no lock, and the acceptor gives up *)
(* only when it may.                                                       *)
(***************************************************************************)
EXTENDS Server, StartupProofs, FiniteSetTheorems

States == HoldsThread \cup {"idle", "waiting", "ready", "dead"}

SessionRecords ==
  [at : States, endpoint : Asked \cup {""}, search : 0..2,
   answer : {"", "filed", "default", "404"}]

ServerTypes ==
  /\ acceptor \in {"accepting", "sleeping", "exited"}
  /\ retries \in 0..(MAX_RETRIES + 1) /\ failures \in Nat
  /\ session \in [Sessions -> SessionRecords]
  /\ table \in [Asked -> {"filed", "default", "absent"}]
  /\ torn \subseteq Asked
  /\ exit \in ErrorClasses \cup {"none"}

\* Nothing is served before the file is loaded.
Quiet ==
  at # "serving" =>
    /\ acceptor = "accepting" /\ torn = {}
    /\ \A s \in Sessions : session[s] = Idle

\* What a session has learnt of its endpoint still stands, unless the endpoint is
\* torn: one it has missed is not configured, one it is about to insert is a
\* file, and its answer is the proper one.
Fits(r) ==
  /\ r.at \in HoldsThread => r.endpoint \in Asked
  /\ r.answer # "" => r.at = "routed"
  /\ r.at = "inserting" => r.endpoint \in doc.public
  /\ r.at \in {"missed", "inserting"} /\ r.endpoint \notin torn => r.endpoint \notin Configured
  /\ r.answer # "" /\ r.endpoint \notin torn => r.answer = Proper(r.endpoint)
  /\ r.answer = "default" => r.endpoint \in doc.public

\* An entry that is not torn is the proper one, and a configured one is there.
EntryFits(e) ==
  /\ table[e] = "default" => e \in doc.public
  /\ e \notin torn => table[e] \in {Proper(e), "absent"}
  /\ e \notin torn /\ e \in Configured => table[e] = "filed"

RouteInv ==
  at = "serving" =>
    /\ \A s \in Sessions : Fits(session[s])
    /\ \A e \in Asked : EntryFits(e)

Holds(s) == session[s].at \in HoldsThread

\* With one thread at most one session holds it, and none during the pause.
OneAtATime ==
  io = 1 => /\ torn = {}
            /\ \A s \in Sessions : Holds(s) => /\ acceptor # "sleeping"
                                               /\ \A o \in Sessions : Holds(o) => o = s

\* _retries counts the failures since the last success.
Retrying ==
  /\ retries = failures
  /\ acceptor = "exited" => exit = "permanent" \/ failures > MAX_RETRIES

ServeInv == ServerTypes /\ Quiet /\ RouteInv /\ OneAtATime /\ Retrying

-----------------------------------------------------------------------------
LEMMA ServeStarts == Init => ServeInv
<1> SUFFICES ASSUME Init PROVE ServeInv
  OBVIOUS
<1>1. /\ acceptor = "accepting" /\ retries = 0 /\ failures = 0
      /\ session = [s \in Sessions |-> Idle] /\ table = [e \in Asked |-> "absent"]
      /\ torn = {} /\ exit = "none" /\ at = "open"
  BY DEF Init, StartupInit
<1>2. Idle \in SessionRecords
  BY DEF Idle, SessionRecords, States
<1>3. ServerTypes
  <2>1. MAX_RETRIES \in Nat
    BY ServerAssumption
  <2>2. QED
    BY <1>1, <1>2, <2>1 DEF ServerTypes
<1>4. \A s \in Sessions : session[s] = Idle
  BY <1>1
<1>5. Quiet /\ RouteInv /\ Retrying
  BY <1>1, <1>4 DEF Quiet, RouteInv, Retrying
<1>6. OneAtATime
  BY <1>1, <1>4 DEF OneAtATime, Holds, Idle, HoldsThread
<1>7. QED
  BY <1>3, <1>5, <1>6 DEF ServeInv

\* A free thread, where there is only one: nobody holds it.
LEMMA OnlyThreadFree ==
  ASSUME ThreadFree, io = 1, acceptor \in {"accepting", "sleeping", "exited"}
  PROVE  acceptor # "sleeping" /\ \A s \in Sessions : ~Holds(s)
<1> DEFINE H == {s \in Sessions : session[s].at \in HoldsThread}
<1>1. IsFiniteSet(H)
  <2>1. IsFiniteSet(Sessions)
    BY ServerAssumption
  <2>2. H \subseteq Sessions
    OBVIOUS
  <2>3. QED
    BY <2>1, <2>2, FS_Subset
<1>2. Cardinality(H) \in Nat
  BY <1>1, FS_CardinalityType
<1>3. Cardinality(H) + (IF acceptor = "sleeping" THEN 1 ELSE 0) < 1
  BY DEF ThreadFree, Busy
<1>4. acceptor # "sleeping" /\ Cardinality(H) = 0
  <2> HIDE DEF H
  <2>1. QED
    BY <1>2, <1>3
<1>5. H = {}
  BY <1>1, <1>4, FS_EmptySet
<1>6. QED
  BY <1>4, <1>5 DEF Holds

-----------------------------------------------------------------------------
\* One session moves, as it may, and the map and the acceptor keep to what is
\* said of them.
LEMMA SessionMoves ==
  ASSUME ServeInv, UNCHANGED <<doc, at, io, routes>>, at = "serving",
         NEW s \in Sessions, NEW r \in SessionRecords, session' = [session EXCEPT ![s] = r],
         torn \subseteq torn', Fits(r)', \A e \in Asked : EntryFits(e)',
         io = 1 => torn' = {}, io = 1 /\ acceptor' = "sleeping" => acceptor = "sleeping",
         r.at \in HoldsThread => Holds(s) \/ ThreadFree
  PROVE  /\ session' \in [Sessions -> SessionRecords]
         /\ Quiet' /\ RouteInv' /\ OneAtATime'
<1>1. /\ session \in [Sessions -> SessionRecords] /\ session' \in [Sessions -> SessionRecords]
      /\ session'[s] = r
      /\ \A o \in Sessions \ {s} : session'[o] = session[o]
  BY DEF ServeInv, ServerTypes
<1>2. RouteInv'
  <2>1. ASSUME NEW o \in Sessions PROVE Fits(session[o])
    BY DEF ServeInv, RouteInv
  <2>2. ASSUME NEW o \in Sessions PROVE Fits(session[o])'
    <3>1. CASE o = s
      BY <1>1, <3>1 DEF Fits
    <3>2. CASE o # s
      BY <1>1, <2>1, <3>2 DEF Fits, Proper, Configured
    <3>3. QED
      BY <3>1, <3>2
  <2>3. QED
    BY <2>2 DEF RouteInv
<1>3. Quiet'
  BY DEF Quiet
<1>4. OneAtATime'
  <2> SUFFICES ASSUME io = 1, NEW o \in Sessions, Holds(o)'
               PROVE  /\ acceptor' # "sleeping"
                      /\ \A q \in Sessions : Holds(q)' => q = o
    BY DEF OneAtATime
  <2>1. Holds(o) \/ (o = s /\ ThreadFree)
    BY <1>1 DEF Holds
  <2>2. QED
    BY <1>1, <2>1, OnlyThreadFree DEF ServeInv, ServerTypes, OneAtATime, Holds
<1>5. QED
  BY <1>1, <1>2, <1>3, <1>4

\* An entry that is left alone still fits.
LEMMA EntriesKept ==
  ASSUME UNCHANGED <<doc, routes, table>>, torn \subseteq torn', RouteInv, at = "serving"
  PROVE  \A e \in Asked : EntryFits(e)'
<1>1. \A e \in Asked : EntryFits(e)
  BY DEF RouteInv
<1>2. QED
  BY <1>1 DEF EntryFits, Proper, Configured

\* A record of a session whose step and search change.
LEMMA RecordChanged ==
  ASSUME NEW r \in SessionRecords, NEW step \in States
  PROVE  /\ [r EXCEPT !.at = step] \in SessionRecords
         /\ [r EXCEPT !.at = step].at = step
         /\ [r EXCEPT !.at = step].endpoint = r.endpoint
         /\ [r EXCEPT !.at = step].answer = r.answer
<1>1. [r EXCEPT !.at = step] \in SessionRecords
  BY DEF SessionRecords
<1>2. QED
  BY <1>1 DEF SessionRecords

\* A session that has not read a request knows nothing of an endpoint.
LEMMA NothingKnown ==
  ASSUME NEW step \in {"waiting", "dead"}
  PROVE  /\ [Idle EXCEPT !.at = step] \in SessionRecords
         /\ [Idle EXCEPT !.at = step].at = step
         /\ [Idle EXCEPT !.at = step].answer = ""
<1>1. Idle \in SessionRecords /\ Idle.answer = "" /\ step \in States
  BY DEF Idle, SessionRecords, States
<1> HIDE DEF Idle
<1>2. QED
  BY <1>1, RecordChanged

\* The acceptor's steps.
LEMMA AcceptorKept ==
  ASSUME ServeInv,
         \/ \E s \in Sessions : Accept(s)
         \/ \E s \in Sessions, error \in ErrorClasses : AcceptFails(s, error)
         \/ \E error \in ErrorClasses : AcceptFatal(error)
         \/ Wake
  PROVE  ServeInv'
<1>a. at = "serving" /\ acceptor # "exited" /\ UNCHANGED <<doc, at, io, routes, table, torn>>
  BY DEF Accept, AcceptFails, AcceptFatal, Wake, Running, Others, startupVars, settings, accessVars
<1>b. /\ ServerTypes /\ Quiet /\ RouteInv /\ OneAtATime /\ Retrying /\ MAX_RETRIES \in Nat
  BY ServerAssumption DEF ServeInv
<1>c. \A e \in Asked : EntryFits(e)'
  BY <1>a, <1>b, EntriesKept
<1>d. io = 1 => torn' = {}
  BY <1>a, <1>b DEF OneAtATime
<1>1. ASSUME NEW s \in Sessions, Accept(s) PROVE ServeInv'
  <2> DEFINE r == [Idle EXCEPT !.at = "waiting"]
  <2>1. /\ ThreadFree /\ session[s] = Idle /\ retries' = 0 /\ failures' = 0
        /\ session' = [session EXCEPT ![s].at = "waiting"] /\ UNCHANGED <<acceptor, exit>>
    BY <1>1 DEF Accept, Spawned, RetriesAfterSuccess
  <2>2. session' = [session EXCEPT ![s] = r]
    BY <2>1
  <2>3. r \in SessionRecords /\ r.at = "waiting" /\ r.answer = ""
    BY NothingKnown
  <2> HIDE DEF r
  <2>4. r.at \notin HoldsThread
    BY <2>3 DEF HoldsThread
  <2>5. Fits(r)'
    <3>1. r' = r
      BY DEF r, Idle
    <3>2. QED
      BY <2>3, <3>1 DEF Fits, HoldsThread
  <2>6. session' \in [Sessions -> SessionRecords]
    BY <1>a, <1>c, <1>d, <2>1, <2>2, <2>3, <2>4, <2>5, SessionMoves
  <2>7. Quiet' /\ RouteInv' /\ OneAtATime'
    BY <1>a, <1>c, <1>d, <2>1, <2>2, <2>3, <2>4, <2>5, SessionMoves
  <2>8. ServerTypes' /\ Retrying'
    BY <1>a, <1>b, <2>1, <2>6 DEF ServerTypes, Retrying
  <2>9. QED
    BY <2>7, <2>8 DEF ServeInv
<1>2. ASSUME NEW s \in Sessions, NEW error \in ErrorClasses, AcceptFails(s, error) PROVE ServeInv'
  <2> DEFINE r == [Idle EXCEPT !.at = "dead"]
  <2>1. /\ acceptor = "accepting" /\ ThreadFree /\ session[s] = Idle
        /\ session' = [session EXCEPT ![s].at = "dead"] /\ UNCHANGED exit
        /\ ~(retries > MAX_RETRIES)
    BY <1>2 DEF AcceptFails, Fatal
  <2>2. \/ acceptor' = "sleeping" /\ retries' = retries + 1 /\ failures' = failures + 1
        \/ UNCHANGED <<acceptor, retries, failures>>
    BY <1>2 DEF AcceptFails
  <2>3. session' = [session EXCEPT ![s] = r]
    BY <2>1
  <2>4. r \in SessionRecords /\ r.at = "dead" /\ r.answer = ""
    BY NothingKnown
  <2> HIDE DEF r
  <2>5. r.at \notin HoldsThread
    BY <2>4 DEF HoldsThread
  <2>6. Fits(r)'
    <3>1. r' = r
      BY DEF r, Idle
    <3>2. QED
      BY <2>4, <3>1 DEF Fits, HoldsThread
  <2>7. session' \in [Sessions -> SessionRecords]
    <3>1. session \in [Sessions -> SessionRecords]
      BY <1>b DEF ServerTypes
    <3>2. QED
      BY <2>3, <2>4, <3>1
  <2>8. ServerTypes' /\ Retrying'
    BY <1>a, <1>b, <2>1, <2>2, <2>7 DEF ServerTypes, Retrying
  <2>9. Quiet' /\ RouteInv'
    <3>1. \A o \in Sessions : Fits(session[o])'
      <4>1. ASSUME NEW o \in Sessions PROVE Fits(session[o])
        BY <1>a, <1>b DEF RouteInv
      <4>2. ASSUME NEW o \in Sessions PROVE Fits(session[o])'
        <5>1. session'[o] = IF o = s THEN r ELSE session[o]
          BY <1>b, <2>3 DEF ServerTypes
        <5>2. CASE o = s
          BY <2>6, <5>1, <5>2 DEF Fits
        <5>3. CASE o # s
          BY <1>a, <4>1, <5>1, <5>3 DEF Fits, Proper, Configured
        <5>4. QED
          BY <5>2, <5>3
      <4>3. QED
        BY <4>2
    <3>2. QED
      BY <1>a, <1>c, <3>1 DEF Quiet, RouteInv
  <2>10. OneAtATime'
    <3> SUFFICES ASSUME io = 1
                 PROVE  \A o \in Sessions : ~Holds(o)'
      BY <1>a, <1>d DEF OneAtATime
    <3>1. \A o \in Sessions : ~Holds(o)
      BY <2>1, OnlyThreadFree
    <3>2. \A o \in Sessions : session'[o] = IF o = s THEN r ELSE session[o]
      BY <1>b, <2>3 DEF ServerTypes
    <3>3. QED
      BY <2>5, <3>1, <3>2 DEF Holds
  <2>11. QED
    BY <2>8, <2>9, <2>10 DEF ServeInv
<1>3. ASSUME (\E error \in ErrorClasses : AcceptFatal(error)) \/ Wake PROVE ServeInv'
  <2>1. /\ UNCHANGED <<retries, failures, session>> /\ acceptor' \in {"exited", "accepting"}
        /\ exit' \in ErrorClasses \cup {"none"}
        /\ acceptor' = "exited" => exit' = "permanent" \/ retries > MAX_RETRIES
    BY <1>3, <1>b DEF AcceptFatal, Wake, Fatal, ServerTypes
  <2>2. ServerTypes' /\ Retrying'
    BY <1>a, <1>b, <2>1 DEF ServerTypes, Retrying
  <2>3. RouteInv'
    <3>1. \A o \in Sessions : Fits(session[o])
      BY <1>a, <1>b DEF RouteInv
    <3>2. \A o \in Sessions : Fits(session[o])'
      BY <1>a, <2>1, <3>1 DEF Fits, Proper, Configured
    <3>3. QED
      BY <1>c, <3>2 DEF RouteInv
  <2>4. Quiet' /\ OneAtATime'
    BY <1>a, <1>b, <2>1 DEF Quiet, OneAtATime, Holds
  <2>5. QED
    BY <2>2, <2>3, <2>4 DEF ServeInv
<1>4. QED
  BY <1>1, <1>2, <1>3

-----------------------------------------------------------------------------
\* The record of a session that is answered.
LEMMA RecordRouted ==
  ASSUME NEW r \in SessionRecords, NEW a \in {"filed", "default", "404"}
  PROVE  /\ [r EXCEPT !.at = "routed", !.answer = a] \in SessionRecords
         /\ [r EXCEPT !.at = "routed", !.answer = a].at = "routed"
         /\ [r EXCEPT !.at = "routed", !.answer = a].answer = a
         /\ [r EXCEPT !.at = "routed", !.answer = a].endpoint = r.endpoint
<1> DEFINE n == [r EXCEPT !.at = "routed", !.answer = a]
<1>1. n \in SessionRecords
  BY DEF SessionRecords, States, HoldsThread
<1>2. n.at = "routed" /\ n.answer = a /\ n.endpoint = r.endpoint
  BY DEF SessionRecords
<1>3. QED
  BY <1>1, <1>2

\* The record that a search leaves behind.
LEMMA FoundRecord ==
  ASSUME NEW s, session[s] \in SessionRecords, NEW entry \in {"filed", "default"}
  PROVE  /\ Found(s, entry) \in SessionRecords
         /\ Found(s, entry).endpoint = Asks(s)
         /\ \/ Found(s, entry).at = "searching" /\ Found(s, entry).answer = session[s].answer
            \/ Found(s, entry).at = "routed" /\ Found(s, entry).answer = entry
<1> DEFINE r == session[s]
<1>1. r \in SessionRecords
  OBVIOUS
<1>2. Found(s, entry) = IF r.search = 1 THEN [r EXCEPT !.at = "searching", !.search = 2]
                        ELSE [r EXCEPT !.at = "routed", !.answer = entry]
  BY DEF Found
<1>3. Asks(s) = r.endpoint
  BY DEF Asks
<1> HIDE DEF r
<1>4. CASE r.search = 1
  <2> DEFINE n == [r EXCEPT !.at = "searching", !.search = 2]
  <2>1. n \in SessionRecords
    <3>1. "searching" \in States /\ 2 \in 0..2
      BY DEF States, HoldsThread
    <3>2. QED
      BY <1>1, <3>1 DEF SessionRecords
  <2>2. n.at = "searching" /\ n.answer = r.answer /\ n.endpoint = r.endpoint
    BY <1>1 DEF SessionRecords
  <2> HIDE DEF n
  <2>3. Found(s, entry) = n
    BY <1>2, <1>4 DEF n
  <2>4. QED
    BY <1>3, <2>1, <2>2, <2>3 DEF r
<1>5. CASE r.search # 1
  <2> DEFINE n == [r EXCEPT !.at = "routed", !.answer = entry]
  <2>1. entry \in {"filed", "default", "404"}
    OBVIOUS
  <2>2. n \in SessionRecords /\ n.at = "routed" /\ n.answer = entry /\ n.endpoint = r.endpoint
    BY <1>1, <2>1, RecordRouted
  <2> HIDE DEF n
  <2>3. Found(s, entry) = n
    BY <1>2, <1>5 DEF n
  <2>4. QED
    BY <1>3, <2>2, <2>3 DEF r
<1>6. QED
  BY <1>4, <1>5

\* A session's step that leaves the map alone, but for what it tears.
LEMMA SessionsKept ==
  ASSUME ServeInv, at = "serving", AcceptorStays,
         NEW s \in Sessions, NEW r \in SessionRecords, session' = [session EXCEPT ![s] = r],
         torn \subseteq torn', torn' \subseteq Asked, table' \in [Asked -> {"filed", "default", "absent"}],
         \A e \in Asked : EntryFits(e)',
         Fits(r)', io = 1 => torn' = {}, r.at \in HoldsThread => Holds(s) \/ ThreadFree
  PROVE  ServeInv'
<1>1. UNCHANGED <<doc, at, io, routes>> /\ UNCHANGED <<acceptor, retries, failures, exit>>
  BY DEF AcceptorStays, startupVars, settings, accessVars
<1>2. session' \in [Sessions -> SessionRecords]
  BY <1>1, SessionMoves
<1>3. Quiet' /\ RouteInv' /\ OneAtATime'
  BY <1>1, SessionMoves
<1>4. ServerTypes' /\ Retrying'
  BY <1>1, <1>2 DEF ServeInv, ServerTypes, Retrying
<1>5. QED
  BY <1>3, <1>4 DEF ServeInv

\* The steps of a session.
LEMMA SessionKept ==
  ASSUME ServeInv, NEW s \in Sessions,
         \/ Arrives(s) \/ Leaves(s) \/ Fail(s) \/ Receive(s)
         \/ Hit(s) \/ Miss(s) \/ Stat(s) \/ Insert(s) \/ Answer(s)
  PROVE  ServeInv'
<1>a. /\ at = "serving" /\ AcceptorStays /\ UNCHANGED <<doc, at, io, routes>>
  BY DEF Arrives, Leaves, Fail, Receive, Hit, Miss, Stat, Insert, Answer, Running, AcceptorStays,
         startupVars, settings, accessVars
<1>b. /\ ServerTypes /\ RouteInv /\ OneAtATime
      /\ session[s] \in SessionRecords /\ table \in [Asked -> {"filed", "default", "absent"}]
      /\ torn \subseteq Asked
      /\ Fits(session[s])
      /\ \A e \in Asked : EntryFits(e)
  BY <1>a DEF ServeInv, ServerTypes, RouteInv
<1>c. UNCHANGED table /\ torn \subseteq torn' => \A e \in Asked : EntryFits(e)'
  BY <1>a, <1>b, EntriesKept
<1>d. io = 1 => torn = {}
  BY <1>b DEF OneAtATime
<1>e. io = 1 /\ Holds(s) => ~Overlaps(s) /\ \A e : \A o \in Sessions \ {s} : ~Uses(o, e)
  BY <1>b DEF OneAtATime, Overlaps, Uses, Holds, HoldsThread
<1>1. CASE Fail(s) \/ Answer(s)
  <2>1. session' = [session EXCEPT ![s] = Idle] /\ UNCHANGED <<table, torn>>
    BY <1>1 DEF Fail, Answer
  <2>2. Idle \in SessionRecords /\ Idle.at = "idle" /\ Idle.answer = ""
    BY DEF Idle, SessionRecords, States
  <2>3. Fits(Idle)'
    BY DEF Fits, Idle, HoldsThread
  <2>4. Idle.at \notin HoldsThread
    BY <2>2 DEF HoldsThread
  <2> HIDE DEF Idle
  <2>5. QED
    BY <1>a, <1>b, <1>c, <1>d, <2>1, <2>2, <2>3, <2>4, SessionsKept
<1>2. CASE Receive(s)
  <2>1. PICK e \in Asked : session' = [session EXCEPT ![s] =
          [at |-> "searching", endpoint |-> e, search |-> 1, answer |-> ""]]
    BY <1>2 DEF Receive
  <2> DEFINE r == [at |-> "searching", endpoint |-> e, search |-> 1, answer |-> ""]
  <2>2. ThreadFree /\ UNCHANGED <<table, torn>> /\ session' = [session EXCEPT ![s] = r]
    BY <1>2, <2>1 DEF Receive
  <2>3. r \in SessionRecords
    <3>1. "searching" \in States /\ 1 \in 0..2 /\ "" \in {"", "filed", "default", "404"}
      BY DEF States, HoldsThread
    <3>2. QED
      BY <3>1 DEF SessionRecords
  <2>4. Fits(r)'
    BY DEF Fits
  <2> HIDE DEF r
  <2>5. QED
    BY <1>a, <1>b, <1>c, <1>d, <2>2, <2>3, <2>4, SessionsKept
<1>3. CASE Hit(s)
  <2>1. /\ session[s].at = "searching" /\ table[Asks(s)] # "absent"
        /\ session' = [session EXCEPT ![s] = Found(s, table[Asks(s)])] /\ UNCHANGED <<table, torn>>
    BY <1>3 DEF Hit
  <2>2. Asks(s) \in Asked /\ Holds(s) /\ session[s].answer = ""
    BY <1>b, <2>1 DEF Fits, Asks, Holds, HoldsThread
  <2>3. table[Asks(s)] \in {"filed", "default"} /\ EntryFits(Asks(s))
    BY <1>b, <2>1, <2>2
  <2>4. PICK r \in SessionRecords :
          /\ session' = [session EXCEPT ![s] = r]
          /\ r.endpoint = Asks(s)
          /\ \/ r.at = "searching" /\ r.answer = ""
             \/ r.at = "routed" /\ r.answer = table[Asks(s)]
    BY <1>b, <2>1, <2>2, <2>3, FoundRecord
  <2>5. Fits(r)'
    <3>1. Fits(r)
      BY <2>2, <2>3, <2>4 DEF Fits, EntryFits
    <3>2. QED
      BY <1>a, <2>1, <3>1 DEF Fits, Proper, Configured
  <2>6. QED
    BY <1>a, <1>b, <1>c, <1>d, <2>1, <2>2, <2>4, <2>5, SessionsKept
<1>4. CASE Miss(s)
  <2> DEFINE r == [session[s] EXCEPT !.at = "missed"]
  <2>1. /\ session[s].at = "searching" /\ UNCHANGED table
        /\ table[Asks(s)] = "absent" \/ Overlaps(s)
        /\ session' = [session EXCEPT ![s] = r]
        /\ torn' = torn \cup {e \in {Asks(s)} : table[e] # "absent"}
    BY <1>4 DEF Miss
  <2>2. Asks(s) \in Asked /\ Holds(s) /\ session[s].answer = ""
    BY <1>b, <2>1 DEF Fits, Asks, Holds, HoldsThread
  <2>3. torn \subseteq torn' /\ torn' \subseteq Asked
    BY <1>b, <2>1, <2>2
  <2>4. r \in SessionRecords /\ r.at = "missed" /\ r.endpoint = Asks(s) /\ r.answer = ""
    <3>1. "missed" \in States
      BY DEF States, HoldsThread
    <3>2. QED
      BY <1>b, <2>2, <3>1, RecordChanged DEF Asks
  <2> HIDE DEF r
  <2>5. PICK q \in SessionRecords : q = r
    BY <2>4
  <2>6. Asks(s) \notin torn' => Asks(s) \notin Configured
    BY <1>b, <2>1, <2>2 DEF EntryFits
  <2>7. Fits(q)'
    <3>1. /\ q.at = "missed" /\ q.endpoint = Asks(s) /\ q.answer = ""
          /\ UNCHANGED Configured
      BY <1>a, <2>4, <2>5 DEF Configured
    <3>2. QED
      BY <2>2, <2>6, <3>1 DEF Fits
  <2>8. io = 1 => torn' = {}
    <3>1. io = 1 => table[Asks(s)] = "absent"
      BY <1>e, <2>1, <2>2
    <3>2. QED
      BY <1>d, <2>1, <3>1
  <2>9. session' = [session EXCEPT ![s] = q] /\ table' \in [Asked -> {"filed", "default", "absent"}]
    BY <1>b, <2>1, <2>5
  <2>10. QED
    BY <1>a, <1>b, <1>c, <2>1, <2>2, <2>3, <2>7, <2>8, <2>9, SessionsKept
<1>5. CASE Stat(s)
  <2>1. /\ session[s].at = "missed" /\ UNCHANGED <<table, torn>>
        /\ session' = [session EXCEPT ![s] =
             IF FileExists(Asks(s)) THEN [session[s] EXCEPT !.at = "inserting"] ELSE NotFound(s)]
    BY <1>5 DEF Stat
  <2>2. Asks(s) \in Asked /\ Holds(s) /\ session[s].answer = ""
    BY <1>b, <2>1 DEF Fits, Asks, Holds, HoldsThread
  <2>3. Asks(s) \notin torn => Asks(s) \notin Configured
    BY <1>b, <2>1 DEF Fits, Asks
  <2>4. PICK r \in SessionRecords :
          /\ session' = [session EXCEPT ![s] = r]
          /\ r.endpoint = Asks(s)
          /\ \/ r.at = "inserting" /\ r.answer = "" /\ Asks(s) \in doc.public
             \/ r.at = "routed" /\ r.answer = "404" /\ Asks(s) \notin doc.public
    <3>1. CASE FileExists(Asks(s))
      <4> DEFINE n == [session[s] EXCEPT !.at = "inserting"]
      <4>1. n \in SessionRecords /\ n.at = "inserting" /\ n.endpoint = Asks(s) /\ n.answer = ""
        <5>1. "inserting" \in States
          BY DEF States, HoldsThread
        <5>2. QED
          BY <1>b, <2>2, <5>1, RecordChanged DEF Asks
      <4>2. session' = [session EXCEPT ![s] = n] /\ Asks(s) \in doc.public
        BY <2>1, <3>1 DEF FileExists
      <4> HIDE DEF n
      <4>3. QED
        BY <4>1, <4>2
    <3>2. CASE ~FileExists(Asks(s))
      <4> DEFINE n == [session[s] EXCEPT !.at = "routed", !.answer = "404"]
      <4>1. n \in SessionRecords /\ n.at = "routed" /\ n.endpoint = Asks(s) /\ n.answer = "404"
        BY <1>b, RecordRouted DEF Asks
      <4>2. session' = [session EXCEPT ![s] = n] /\ Asks(s) \notin doc.public
        BY <2>1, <3>2 DEF FileExists, NotFound
      <4> HIDE DEF n
      <4>3. QED
        BY <4>1, <4>2
    <3>3. QED
      BY <3>1, <3>2
  <2>5. Fits(r)'
    <3>1. Fits(r)
      BY <2>2, <2>3, <2>4 DEF Fits, Proper
    <3>2. QED
      BY <1>a, <2>1, <3>1 DEF Fits, Proper, Configured
  <2>6. QED
    BY <1>a, <1>b, <1>c, <1>d, <2>1, <2>2, <2>4, <2>5, SessionsKept
<1>6. CASE Insert(s)
  <2>1. PICK lost \in {{}} \cup {{e} : e \in IF Overlaps(s) THEN Asked ELSE {}} :
          /\ table' = [e \in Asked |-> IF e \in lost THEN "absent"
                                       ELSE IF e = Asks(s) THEN "default" ELSE table[e]]
          /\ torn' = torn \cup {e \in lost : e = Asks(s) \/ table[e] # "absent"}
                          \cup {e \in {Asks(s)} : \E o \in Sessions \ {s} : Uses(o, e)}
    BY <1>6 DEF Insert
  <2>2. session[s].at = "inserting" /\ session' = [session EXCEPT ![s] = Found(s, "default")]
    BY <1>6 DEF Insert
  <2>3. /\ Asks(s) \in Asked /\ Holds(s) /\ session[s].answer = "" /\ Asks(s) \in doc.public
        /\ Asks(s) \notin torn => Asks(s) \notin Configured
    BY <1>b, <2>2 DEF Fits, Asks, Holds, HoldsThread
  <2>4. lost \subseteq Asked /\ (~Overlaps(s) => lost = {})
    BY <2>1
  <2>5. torn \subseteq torn' /\ torn' \subseteq Asked
    BY <1>b, <2>1, <2>3, <2>4
  <2>6. table' \in [Asked -> {"filed", "default", "absent"}]
    BY <1>b, <2>1
  <2>7. PICK r \in SessionRecords :
          /\ session' = [session EXCEPT ![s] = r]
          /\ r.endpoint = Asks(s)
          /\ \/ r.at = "searching" /\ r.answer = ""
             \/ r.at = "routed" /\ r.answer = "default"
    BY <1>b, <2>2, <2>3, FoundRecord
  <2>8. UNCHANGED Configured /\ \A e : UNCHANGED Proper(e)
    BY <1>a DEF Configured, Proper
  <2>9. Asks(s) \notin torn' => Proper(Asks(s)) = "default"
    BY <2>3, <2>5 DEF Proper
  <2>10. Fits(r)'
    BY <1>a, <2>3, <2>7, <2>8, <2>9 DEF Fits
  <2>11. ASSUME NEW e \in Asked PROVE EntryFits(e)'
    <3>1. EntryFits(e)
      BY <1>b
    <3>2. CASE e \in lost
      <4>1. table'[e] = "absent" /\ (e \notin torn' => table[e] = "absent")
        BY <2>1, <3>2
      <4>2. QED
        BY <1>a, <2>5, <2>8, <3>1, <4>1 DEF EntryFits
    <3>3. CASE e \notin lost /\ e = Asks(s)
      <4>1. table'[e] = "default" /\ (e \notin torn' => Proper(e) = "default" /\ e \notin Configured)
        BY <2>1, <2>3, <2>5, <2>9, <3>3
      <4>2. QED
        BY <1>a, <2>3, <2>8, <3>3, <4>1 DEF EntryFits
    <3>4. CASE e \notin lost /\ e # Asks(s)
      <4>1. table'[e] = table[e]
        BY <2>1, <3>4
      <4>2. QED
        BY <1>a, <2>5, <2>8, <3>1, <4>1 DEF EntryFits
    <3>5. QED
      BY <3>2, <3>3, <3>4
  <2>12. io = 1 => torn' = {}
    <3>1. io = 1 => lost = {} /\ \A e : \A o \in Sessions \ {s} : ~Uses(o, e)
      BY <1>e, <2>3, <2>4
    <3>2. QED
      BY <1>d, <2>1, <3>1
  <2>13. QED
    BY <1>a, <2>3, <2>5, <2>6, <2>7, <2>10, <2>11, <2>12, SessionsKept
<1>7. CASE Arrives(s) \/ Leaves(s)
  <2>1. PICK step \in {"ready", "dead"} :
          session' = [session EXCEPT ![s] = [session[s] EXCEPT !.at = step]]
    BY <1>7, <1>b DEF Arrives, Leaves, SessionRecords
  <2> DEFINE r == [session[s] EXCEPT !.at = step]
  <2>2. session[s].at = "waiting" /\ UNCHANGED <<table, torn>> /\ session' = [session EXCEPT ![s] = r]
    BY <1>7, <2>1 DEF Arrives, Leaves
  <2>3. r \in SessionRecords /\ r.at = step /\ r.answer = session[s].answer
    BY <1>b DEF SessionRecords, States
  <2>4. r.at \notin HoldsThread /\ session[s].answer = ""
    BY <1>b, <2>2, <2>3 DEF Fits, HoldsThread
  <2> HIDE DEF r
  <2>5. PICK q \in SessionRecords : q = r
    BY <2>3
  <2>6. q.at = step /\ q.answer = "" /\ q.at \notin HoldsThread
    BY <2>3, <2>4, <2>5
  <2>7. Fits(q)'
    BY <2>6 DEF Fits, HoldsThread
  <2>8. QED
    BY <1>a, <1>b, <1>c, <1>d, <2>2, <2>5, <2>6, <2>7, SessionsKept
<1>8. QED
  BY <1>1, <1>2, <1>3, <1>4, <1>5, <1>6, <1>7

-----------------------------------------------------------------------------
\* The steps that leave the server's own state alone.
LEMMA ServerStays ==
  ASSUME ServeInv, UNCHANGED serverVars, UNCHANGED io,
         \/ UNCHANGED <<doc, at, routes>>
         \/ at # "serving" /\ at' # "serving"
  PROVE  ServeInv'
<1>1. UNCHANGED <<acceptor, retries, failures, session, table, torn, exit, io>>
  BY DEF serverVars
<1>2. ServerTypes' /\ Retrying' /\ OneAtATime'
  BY <1>1 DEF ServeInv, ServerTypes, Retrying, OneAtATime, Holds
<1>3. Quiet'
  BY <1>1 DEF ServeInv, Quiet
<1>4. CASE UNCHANGED <<doc, at, routes>>
  <2>1. RouteInv'
    BY <1>1, <1>4 DEF ServeInv, RouteInv, Fits, EntryFits, Proper, Configured
  <2>2. QED
    BY <1>2, <1>3, <2>1 DEF ServeInv
<1>5. CASE at # "serving" /\ at' # "serving"
  <2>1. RouteInv'
    BY <1>5 DEF RouteInv
  <2>2. QED
    BY <1>2, <1>3, <2>1 DEF ServeInv
<1>6. QED
  BY <1>4, <1>5

\* The server starts with every configured endpoint in its map.
LEMMA StartKept == ServeInv /\ Start => ServeInv'
<1> SUFFICES ASSUME ServeInv, Start PROVE ServeInv'
  OBVIOUS
<1>1. /\ at = "launch" /\ UNCHANGED <<acceptor, retries, failures, session, torn, exit, routes, doc>>
      /\ table' = [e \in Asked |-> IF e \in Configured THEN "filed" ELSE "absent"]
  BY DEF Start, Launch, Sections, accessVars
<1>2. /\ acceptor = "accepting" /\ torn = {}
      /\ \A s \in Sessions : session[s].at = "idle" /\ session[s].answer = ""
  <2>1. Idle.at = "idle" /\ Idle.answer = ""
    BY DEF Idle
  <2>2. QED
    BY <1>1, <2>1 DEF ServeInv, Quiet
<1>3. ServerTypes' /\ Retrying'
  BY <1>1 DEF ServeInv, ServerTypes, Retrying
<1>4. Quiet'
  BY <1>1 DEF ServeInv, Quiet
<1>5. OneAtATime'
  BY <1>1, <1>2 DEF OneAtATime, Holds, HoldsThread
<1>6. RouteInv'
  <2>1. \A s \in Sessions : Fits(session[s])'
    BY <1>1, <1>2 DEF Fits, HoldsThread
  <2>2. \A e \in Asked : EntryFits(e)'
    BY <1>1 DEF EntryFits, Proper, Configured
  <2>3. QED
    BY <2>1, <2>2 DEF RouteInv
<1>7. QED
  BY <1>3, <1>4, <1>5, <1>6 DEF ServeInv

\* Loading neither starts nor stops the server.
LEMMA LoadingKept == ServeInv /\ Loading => ServeInv'
<1> SUFFICES ASSUME ServeInv, Loading PROVE ServeInv'
  OBVIOUS
<1>1. UNCHANGED io
  BY DEF Loading, Load, Open, LoadJWTSecret, LoadPort, LoadThreads, LoadErrorPage, ErrorPagesLoaded,
         LoadNextRole, RolesLoaded, LoadSSL, LoadNextRoute, RoutesLoaded, LoadHostIP,
         InstallPipeline, settings
<1>2. at # "serving" /\ at' # "serving"
  BY DEF Loading, Load, Open, LoadJWTSecret, LoadPort, LoadThreads, LoadErrorPage, ErrorPagesLoaded,
         LoadNextRole, RolesLoaded, LoadSSL, LoadNextRoute, RoutesLoaded, LoadHostIP, InstallPipeline
<1>3. QED
  BY <1>1, <1>2, ServerStays DEF Loading

LEMMA ServeKept == ServeInv /\ [Next]_vars => ServeInv'
<1> SUFFICES ASSUME ServeInv, [Next]_vars PROVE ServeInv'
  OBVIOUS
<1>1. CASE Loading
  BY <1>1, LoadingKept
<1>2. CASE Start
  BY <1>2, StartKept
<1>3. CASE Serving
  BY <1>3, AcceptorKept, SessionKept DEF Serving
<1>4. CASE LimitedRequest
  BY <1>4, ServerStays DEF LimitedRequest, settings, accessVars
<1>5. CASE UNCHANGED vars
  BY <1>5, ServerStays DEF vars, startupVars, settings, accessVars
<1>6. QED
  BY <1>1, <1>2, <1>3, <1>4, <1>5 DEF Next, Stopped

LEMMA FileKept == LoadInv /\ [Next]_vars => LoadInv'
<1> SUFFICES ASSUME LoadInv, [Next]_vars PROVE LoadInv'
  OBVIOUS
<1>1. CASE Serving
  <2>1. UNCHANGED startupVars
    BY <1>1 DEF Serving, Accept, AcceptFails, AcceptFatal, Wake, Arrives, Leaves, Fail, Receive, Hit, Miss, Stat,
                Insert, Answer, Others, AcceptorStays
  <2>2. QED
    BY <2>1, LoadKept DEF LoadStep
<1>2. CASE Loading \/ Start \/ LimitedRequest \/ UNCHANGED vars
  BY <1>2, LoadKept DEF LoadStep, Loading, Start, LimitedRequest, vars
<1>3. QED
  BY <1>1, <1>2 DEF Next, Stopped

-----------------------------------------------------------------------------
\* The server as it runs keeps to its file: it is up only if the file is sound,
\* with the settings, the grants and the guarded routes written there, and with the
\* limiter as far as its window fits an int.
THEOREM FileIsObeyed ==
  Spec => [](/\ ServesExactlySound /\ SettingsAsWritten
             /\ GrantsAsWritten /\ RoutesGuardedAsWritten /\ LimiterAsConfigured)
<1>1. Init => LoadInv
  BY StartStarts DEF Init
<1>2. QED
  BY <1>1, FileKept, LoadedAsWritten, PTL DEF Spec

\* Config::loadRoutes, in the server that runs: an endpoint and method is guarded
\* as the last route element that names them says, whatever came before it.
THEOREM RoutesAreGuarded == Spec => []RoutesGuardedAsWritten
  BY FileIsObeyed, PTL

\* Config::initialize, loadSSL, loadThreads, loadJWTSecret, loadErrorPages: a server
\* that is up has the port, threads, secret and error pages of its file.
THEOREM SettingsAreObeyed == Spec => []SettingsAsWritten
  BY FileIsObeyed, PTL

\* Every variable keeps its type.
THEOREM TypeCorrect == Spec => []TypeOK
<1>1. LoadInv /\ ServeInv => TypeOK
  <2> SUFFICES ASSUME LoadInv, ServeInv PROVE TypeOK
    OBVIOUS
  <2>1. AccessTypeOK
    <3>1. AccessTypes /\ titles \in Seq(RoleElements) /\ filed \in Seq(RouteElements)
      BY DEF LoadInv, AccessInv, AccessTypes
    <3>2. Len(titles) <= Len(doc.roles) /\ Len(filed) <= Len(doc.routes)
      BY DEF LoadInv, StartInv, ElementsSoFar
    <3>3. /\ doc.roles \in Seq(RoleElements) /\ doc.routes \in Seq(RouteElements)
          /\ Len(doc.roles) <= MaxRoles /\ Len(doc.routes) <= MaxRoutes
      BY DocumentType DEF LoadInv
    <3>4. MaxRoles \in Nat /\ MaxRoutes \in Nat
      BY AccessConfigAssumption
    <3>5. Len(titles) <= MaxRoles /\ Len(filed) <= MaxRoutes
      BY <3>1, <3>2, <3>3, <3>4
    <3>6. QED
      BY <3>1, <3>5 DEF AccessTypes, AccessTypeOK
  <2>2. \A s \in Sessions : session[s] \in SessionRecords
    BY DEF ServeInv, ServerTypes
  <2>3. QED
    BY <2>1, <2>2 DEF ServeInv, ServerTypes, TypeOK, SessionRecords, States
<1>2. Init => LoadInv
  BY StartStarts DEF Init
<1>3. QED
  BY <1>1, <1>2, FileKept, ServeStarts, ServeKept, PTL DEF Spec

\* The map without a lock: every request is routed as filed but for torn entries,
\* and with one thread nothing is ever torn.
THEOREM RoutedCorrectly == Spec => []RoutedSoundly
<1>1. ServeInv => RoutedSoundly
  <2> SUFFICES ASSUME ServeInv PROVE RoutedSoundly
    OBVIOUS
  <2>1. ServedAsFiled
    BY DEF ServeInv, RouteInv, Fits, EntryFits, ServedAsFiled, Asks
  <2>2. SafeOnOneThread
    BY DEF ServeInv, OneAtATime, SafeOnOneThread
  <2>3. QED
    BY <2>1, <2>2 DEF RoutedSoundly
<1>2. QED
  BY <1>1, ServeStarts, ServeKept, PTL DEF Spec

\* The acceptor exits for a permanent error or after MAX_RETRIES + 1 failures.
THEOREM ExitIsJustified == Spec => []ExitJustified
<1>1. ServeInv => ExitJustified
  BY DEF ServeInv, Retrying, ExitJustified
<1>2. QED
  BY <1>1, ServeStarts, ServeKept, PTL DEF Spec
=============================================================================
