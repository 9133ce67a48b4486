-------------------------------- MODULE Server --------------------------------
(***************************************************************************)
(* The running server (src/src/Server.cpp): threads that share one         *)
(* io_context, the coroutine that accepts connections and the sessions it  *)
(* spawns, as far as they meet in Router::endpoints (src/src/Router.cpp),  *)
(* a map that requests search and change without a lock.                   *)
(*                                                                         *)
(* A search and what follows up to the answer does not suspend, so it      *)
(* keeps its thread; so does the acceptor's pause after a failed accept.   *)
(* A search that overlaps another session's insertion is a data race: here *)
(* it may miss an entry that is there, and of two insertions that overlap  *)
(* either may lose one (a crash is left out).                              *)
(***************************************************************************)
EXTENDS Startup, FiniteSets

CONSTANTS Sessions,     \* bound: connections at one time
          Asked,        \* endpoints that requests name
          MAX_RETRIES,  \* Server.h:14
          Served,       \* bound: the documents whose server is run,
          Limited       \* and those whose global limiter gets requests

ASSUME ServerAssumption ==
  /\ MAX_RETRIES \in Nat /\ IsFiniteSet(Sessions)
  /\ Served \subseteq Documents /\ Limited \subseteq Documents

VARIABLES acceptor, \* "accepting", "sleeping" or "exited"
          retries,  \* _retries
          failures, \* history: accepts that failed for now since the last success
          session,  \* by session: its step, the endpoint it asks for, which of its
                    \* two searches it is at, and what it was answered
          table,    \* Router::endpoints: "filed", "default" or "absent"
          torn,     \* history: endpoints whose entry was missed though it was there,
                    \* was lost, or was replaced while another session used it
          exit      \* history: the error that ended the process

serverVars == <<acceptor, retries, failures, session, table, torn, exit>>
vars == <<startupVars, serverVars>>

Idle == [at |-> "idle", endpoint |-> "", search |-> 0, answer |-> ""]

Init ==
  /\ StartupInit
  /\ acceptor = "accepting" /\ retries = 0 /\ failures = 0
  /\ session = [s \in Sessions |-> Idle]
  /\ table = [e \in Asked |-> "absent"]
  /\ torn = {} /\ exit = "none"

Running == at = "serving" /\ doc \in Served /\ acceptor # "exited"
Others == UNCHANGED <<startupVars, table, torn>>
AcceptorStays == UNCHANGED <<startupVars, acceptor, retries, failures, exit>>

Configured == {id[1] : id \in DOMAIN routes}

\* The server starts with the endpoints that the file and the Router filed.
Start ==
  /\ Launch
  /\ table' = [e \in Asked |-> IF e \in Configured THEN "filed" ELSE "absent"]
  /\ UNCHANGED <<acceptor, retries, failures, session, torn, exit>>

-----------------------------------------------------------------------------
\* Threads.
HoldsThread == {"searching", "missed", "inserting", "routed"}
Busy == Cardinality({s \in Sessions : session[s].at \in HoldsThread})
          + (IF acceptor = "sleeping" THEN 1 ELSE 0)

\* Slip: there is always another thread.
AlwaysFree == TRUE

ThreadFree == Busy < io

-----------------------------------------------------------------------------
\* The acceptor.
Spawned(s) == session' = [session EXCEPT ![s].at = "waiting"]

\* Slip: a success leaves the count of retries.
RetriesKept == retries

RetriesAfterSuccess == 0

Accept(s) ==
  /\ Running /\ acceptor = "accepting" /\ ThreadFree
  /\ session[s] = Idle
  /\ retries' = RetriesAfterSuccess /\ failures' = 0
  /\ Spawned(s)
  /\ UNCHANGED <<acceptor, exit>> /\ Others

\* isError: bad_descriptor and the like are permanent; would_block and the like
\* are worth a pause; any other error (too many open files) is passed over.
ErrorClasses == {"permanent", "transient", "other"}

\* Slip: the retries are not limited.
FatalNever(error) == error = "permanent"

\* isError lets the process exit.
Fatal(error) == retries > MAX_RETRIES \/ error = "permanent"

AcceptFatal(error) ==
  /\ Running /\ acceptor = "accepting" /\ ThreadFree
  /\ Fatal(error)
  /\ acceptor' = "exited" /\ exit' = error
  /\ UNCHANGED <<retries, failures, session>> /\ Others

\* After an error that is not fatal run() goes on as if there were a connection:
\* it spawns a session with a socket that is not open, which reads in vain.
AcceptFails(s, error) ==
  /\ Running /\ acceptor = "accepting" /\ ThreadFree
  /\ session[s] = Idle
  /\ ~Fatal(error)
  /\ IF error = "transient"
     THEN acceptor' = "sleeping" /\ retries' = retries + 1 /\ failures' = failures + 1
     ELSE UNCHANGED <<acceptor, retries, failures>>
  /\ session' = [session EXCEPT ![s].at = "dead"]
  /\ UNCHANGED exit /\ Others

\* The pause ends; the coroutine has kept its thread for it.
Wake ==
  /\ Running /\ acceptor = "sleeping"
  /\ acceptor' = "accepting"
  /\ UNCHANGED <<retries, failures, session, exit>> /\ Others

-----------------------------------------------------------------------------
\* Sessions.

\* The client of a session, which waits in co_read for as long as it takes: it
\* sends its request, or it goes away; or it does neither.
Arrives(s) ==
  /\ Running
  /\ session[s].at = "waiting"
  /\ session' = [session EXCEPT ![s].at = "ready"]
  /\ UNCHANGED <<table, torn>> /\ AcceptorStays

Leaves(s) ==
  /\ Running
  /\ session[s].at = "waiting"
  /\ session' = [session EXCEPT ![s].at = "dead"]
  /\ UNCHANGED <<table, torn>> /\ AcceptorStays

\* A session whose client has left, or whose socket was never open: the read
\* fails, and with it the answer.
Fail(s) ==
  /\ Running /\ ThreadFree
  /\ session[s].at = "dead"
  /\ session' = [session EXCEPT ![s] = Idle]
  /\ UNCHANGED <<table, torn>> /\ AcceptorStays

\* The request is read: Parser calls getEndpoint, and later getEndpointMethod.
Receive(s) ==
  /\ Running /\ ThreadFree
  /\ session[s].at = "ready"
  /\ \E e \in Asked : session' = [session EXCEPT ![s] =
       [at |-> "searching", endpoint |-> e, search |-> 1, answer |-> ""]]
  /\ UNCHANGED <<table, torn>> /\ AcceptorStays

Asks(s) == session[s].endpoint

Overlaps(s) == \E o \in Sessions \ {s} : session[o].at = "inserting"

\* The request has an endpoint, then a route.
Found(s, entry) ==
  IF session[s].search = 1
  THEN [session[s] EXCEPT !.at = "searching", !.search = 2]
  ELSE [session[s] EXCEPT !.at = "routed", !.answer = entry]

\* getEndpoint: find.
Hit(s) ==
  /\ Running /\ session[s].at = "searching"
  /\ table[Asks(s)] # "absent"
  /\ session' = [session EXCEPT ![s] = Found(s, table[Asks(s)])]
  /\ UNCHANGED <<table, torn>> /\ AcceptorStays

Miss(s) ==
  /\ Running /\ session[s].at = "searching"
  /\ table[Asks(s)] = "absent" \/ Overlaps(s)
  /\ session' = [session EXCEPT ![s].at = "missed"]
  /\ torn' = torn \cup {e \in {Asks(s)} : table[e] # "absent"}
  /\ UNCHANGED table /\ AcceptorStays

\* Slip: an endpoint without a file is searched again.
NotFoundRetried(s) == [session[s] EXCEPT !.at = "searching"]

NotFound(s) == [session[s] EXCEPT !.at = "routed", !.answer = "404"]

\* Slip: whatever is asked for is taken for a file.
AnyFile(e) == TRUE

FileExists(e) == e \in doc.public

\* getEndpoint's check: without a public file the request is answered with 404.
Stat(s) ==
  /\ Running /\ session[s].at = "missed"
  /\ session' = [session EXCEPT ![s] =
       IF FileExists(Asks(s)) THEN [@ EXCEPT !.at = "inserting"] ELSE NotFound(s)]
  /\ UNCHANGED <<table, torn>> /\ AcceptorStays

\* A session uses the endpoint or the route it has found.
Uses(o, e) ==
  /\ Asks(o) = e
  /\ \/ session[o].at = "routed" /\ session[o].answer # "404"
     \/ session[o].at = "searching" /\ session[o].search = 2

\* endpoints[endpoint] = ep, which replaces an entry that is there by now.
Insert(s) ==
  /\ Running /\ session[s].at = "inserting"
  /\ \E lost \in {{}} \cup {{e} : e \in IF Overlaps(s) THEN Asked ELSE {}} :
       /\ table' = [e \in Asked |-> IF e \in lost THEN "absent"
                                    ELSE IF e = Asks(s) THEN "default" ELSE table[e]]
       /\ torn' = torn \cup {e \in lost : e = Asks(s) \/ table[e] # "absent"}
                       \cup {e \in {Asks(s)} : \E o \in Sessions \ {s} : Uses(o, e)}
  /\ session' = [session EXCEPT ![s] = Found(s, "default")]
  /\ AcceptorStays

\* The route is used up to the answer; the client may be refused before, and then
\* the socket is closed.
Answer(s) ==
  /\ Running
  /\ session[s].at = "routed" \/ (session[s].at = "searching" /\ session[s].search = 2)
  /\ session' = [session EXCEPT ![s] = Idle]
  /\ UNCHANGED <<table, torn>> /\ AcceptorStays

Serving == \/ \E s \in Sessions : Accept(s)
           \/ \E s \in Sessions, error \in ErrorClasses : AcceptFails(s, error)
           \/ \E error \in ErrorClasses : AcceptFatal(error)
           \/ Wake
           \/ \E s \in Sessions : \/ Arrives(s) \/ Leaves(s)
                                  \/ Fail(s) \/ Receive(s) \/ Hit(s) \/ Miss(s)
                                  \/ Stat(s) \/ Insert(s) \/ Answer(s)

\* One session's step that does not wait for a thread.
Lookup(s) == Hit(s) \/ Miss(s) \/ Stat(s) \/ Insert(s) \/ Answer(s)

Loading == Load /\ UNCHANGED serverVars

\* A request that only meets the global limiter.
LimitedRequest ==
  /\ at = "serving" /\ doc \in Limited
  /\ Limit
  /\ UNCHANGED <<doc, at, settings, accessVars, serverVars>>

Stopped ==
  /\ at \in Final \/ acceptor = "exited"
  /\ UNCHANGED vars

Next == Loading \/ Start \/ Serving \/ LimitedRequest \/ Stopped

\* Loading is one thread's work, a session's steps run as soon as it has a
\* thread, a pause ends; and asio takes what waits for a thread in order, so none
\* waits while others come again and again.  Nothing is assumed of clients, which
\* may send nothing and stay (no fairness on Arrives and Leaves), nor that an
\* accept succeeds.
Fairness ==
  /\ WF_vars(Loading \/ Start)
  /\ WF_vars(Wake)
  /\ \A s \in Sessions : WF_vars(Lookup(s)) /\ SF_vars(Fail(s)) /\ SF_vars(Receive(s))

Spec == Init /\ [][Next]_vars /\ Fairness

-----------------------------------------------------------------------------
TypeOK ==
  /\ AccessTypeOK
  /\ acceptor \in {"accepting", "sleeping", "exited"}
  /\ retries \in 0..(MAX_RETRIES + 1) /\ failures \in Nat
  /\ \A s \in Sessions : session[s] \in
       [at : HoldsThread \cup {"idle", "waiting", "ready", "dead"}, endpoint : Asked \cup {""},
        search : 0..2, answer : {"", "filed", "default", "404"}]
  /\ table \in [Asked -> {"filed", "default", "absent"}]
  /\ torn \subseteq Asked
  /\ exit \in ErrorClasses \cup {"none"}

\* What the file and the public directory say of an endpoint.
Proper(e) ==
  IF e \in Configured THEN "filed"
  ELSE IF e \in doc.public THEN "default" ELSE "404"

\* A configured endpoint is served as configured, be there a public file of its
\* name or not, and every other one by its file: requests that fill the map never
\* change that, unless an entry was missed, lost or replaced in use by overlapping
\* operations on it.  Without a public file nothing is ever served that the file
\* of configuration does not have.
ServedAsFiled ==
  at = "serving" =>
    /\ \A s \in Sessions :
         LET a == session[s].answer IN
         /\ a # "" /\ Asks(s) \notin torn => a = Proper(Asks(s))
         /\ a = "default" => Asks(s) \in doc.public
    /\ \A e \in Asked \ torn : table[e] \in {Proper(e), "absent"}

\* With one thread for sessions (<Threads>2</Threads>) the map is safe: requests
\* cannot overlap between their first search and their answer, and the acceptor's
\* pause holds them all.
SafeOnOneThread == io = 1 => torn = {}

\* The endpoint map does its work although it has no lock, as far as it can.
RoutedSoundly == ServedAsFiled /\ SafeOnOneThread

\* The server gives up for an error that no later accept can be spared, or after
\* MAX_RETRIES + 1 failures that were worth a pause, with no success in between.
ExitJustified ==
  acceptor = "exited" => exit = "permanent" \/ failures > MAX_RETRIES

\* Every session whose client has sent its request or left gets a thread and
\* comes to its end, however often accepts fail and hold a thread, unless the
\* process exits.  One whose client does neither waits for ever: the read has no
\* timeout (Middleware.cpp:52).
Stirred(s) == session[s].at \notin {"idle", "waiting"}

SessionsEnd ==
  \A s \in Sessions : Stirred(s) ~> (session[s] = Idle \/ acceptor = "exited")

\* Loading ends, and so does every session that has something to read.
EverythingEnds == StartupEnds /\ SessionsEnd
=============================================================================
