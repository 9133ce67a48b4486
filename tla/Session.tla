------------------------------- MODULE Session -------------------------------
(***************************************************************************)
(* One connection from Session::start to the close of its socket: the      *)
(* middleware pipeline (src/src/Middleware.cpp, ordered in config.cpp),    *)
(* the method handlers, the streamers and the error pages (Router.cpp).    *)
(* The pipeline nests: Logger around ErrorHandler around the rest, and the *)
(* handler of the route is run by ErrorHandler after the rest returned.    *)
(*                                                                         *)
(* Abstracted: what a limiter decides (TokenBucket, FixedWindow), how a    *)
(* write proceeds (WriteAll: here it completes or fails with a status),    *)
(* the text of responses (a head is its status and whether it sets a       *)
(* cookie).  The client stays connected until the server closes.           *)
(***************************************************************************)
EXTENDS Request, FiniteSets

CONSTANTS Buffers,      \* what one read may deliver
          GlobalLimiters, \* where a configuration may put the global limiter
          ErrorPages,   \* statuses with a configured page
          ScriptRuns,   \* what a script may write: sequences of chunks
          WriteErrors   \* statuses a failed write reports

\* A chunk is what one read of the script's pipe delivers: the status that
\* extract_status_code makes of it (502 when there is no number to read), or
NoSpace  == 0  \* no space at all, for which extract_status_code says 400
Unparsed == 1  \* a number, but no blank line: extract_body or extract_headers throws
\* The numbers themselves; negative ones are left out.
Statuses == Nat \ {NoSpace, Unparsed}
Chunks   == {NoSpace, Unparsed} \cup Statuses

\* A failed write reports no success (is_success_code, Streamer.cpp:6).
ASSUME SessionAssumption ==
  /\ GlobalLimiters \subseteq {"none", "ip", "parsed"}
  /\ WriteErrors \subseteq 400..599
  /\ ScriptRuns \subseteq Seq(Chunks)
  /\ \A b \in Buffers : b.form \in Forms /\ b.method \in Methods /\ b.body \in Seq(STRING)

VARIABLES limiter,  \* loadPipeline: no global limiter ("none"), one before the
                    \* parser ("ip") or one after it ("parsed")
          pc,       \* the stage the session is in
          cred,     \* the credential in the request's Cookie header
          buffer,   \* the bytes read, as in Request
          route,    \* request.route
          args,     \* request.args, what a script is given on its standard input
          response, \* txn->response: its status and whether it has Set-Cookie
          child,    \* the script's process: "none", "running" or "reaped"
          run,      \* history: everything the script writes
          output,   \* what of it is still to be read from the pipe
          refused,  \* history: some limiter answered 429
          wire,     \* what was written to the socket
          sock,     \* "open" or "closed"
          log       \* statuses handed to LOG_SESSION

vars == <<limiter, pc, cred, buffer, route, args, response, child, run, output,
          refused, wire, sock, log>>

\* Every token that is missing, forged or expired is refused alike: "none".
Credentials == {"none", "insufficient", "sufficient"}
NoBuffer == [form |-> "none"]
NoRoute == [endpoint |-> "none"]

Fresh == [status |-> 200, cookie |-> FALSE]

HeadOf(r) == [kind |-> "head", status |-> r.status, cookie |-> r.cookie]
Body     == [kind |-> "body"]
Cut      == [kind |-> "cut"]  \* some of what was to be written

IsSuccess(s) == s >= 200 /\ s < 400

-----------------------------------------------------------------------------
Init ==
  /\ limiter \in GlobalLimiters
  /\ pc = "handshake"
  /\ cred \in Credentials
  /\ buffer = NoBuffer
  /\ route = NoRoute
  /\ args = <<>>
  /\ response = Fresh
  /\ child = "none"
  /\ run = <<>>
  /\ output = <<>>
  /\ refused = FALSE
  /\ wire = <<>>
  /\ sock = "open"
  /\ log = <<>>

request == <<limiter, cred, buffer, route, args>>
script  == <<child, run, output>>
ending  == <<sock, log>>

\* An HTTPException or other exception reaches ErrorHandler, which replaces
\* the response; nothing of the old one is kept.
ErrorResponse(s) == [status |-> s, cookie |-> FALSE]

Throw(s) ==
  /\ response' = ErrorResponse(s)
  /\ pc' = "error"

Continue(stage) == pc' = stage /\ UNCHANGED response

\* co_write_all: everything, or a part and a status that is thrown.
Wrote(items) == wire' = wire \o items
WriteFails == wire' = Append(wire, Cut) /\ \E s \in WriteErrors : Throw(s)

-----------------------------------------------------------------------------
\* The pipeline.

StageAfterHandshake == IF limiter = "ip" THEN "global" ELSE "read"

StageAfterParser    == IF limiter = "parsed" THEN "global" ELSE "route"
StageAfterGlobal    == IF limiter = "ip" THEN "read" ELSE "route"

\* storeIP may throw and an HTTPS handshake may fail: the session is gone.
Handshake ==
  /\ pc = "handshake"
  /\ \/ pc' = StageAfterHandshake /\ sock' = sock
     \/ pc' = "dropped" /\ sock' = "closed"
  /\ UNCHANGED <<request, response, script, refused, wire, log>>

\* Slip: the 429 is prepared but the pipeline goes on.
LimiterFallsThrough(next, keyed) ==
  \/ Continue(next) /\ UNCHANGED refused
  \/ Continue(next) /\ refused' = TRUE
  \/ keyed /\ Throw(400) /\ UNCHANGED refused

\* TokenBucketLimiter or FixedWindowLimiter: on, 429, or no key for it (400).
Limiter(next, keyed) ==
  \/ Continue(next) /\ UNCHANGED refused
  \/ Throw(429) /\ refused' = TRUE
  \/ keyed /\ Throw(400) /\ UNCHANGED refused

GlobalLimit ==
  /\ pc = "global"
  /\ Limiter(StageAfterGlobal, limiter = "parsed")
  /\ UNCHANGED <<request, script, wire, ending>>

\* Parser: one read, then everything the request needs.
Parser ==
  /\ pc = "read"
  /\ \/ \E s \in {499, 500} : Throw(s) /\ UNCHANGED <<buffer, route, args>>
     \/ \E b \in Buffers :
          /\ buffer' = b
          /\ IF Parse(b).status = 200
             THEN /\ route' = RouteOf(b) /\ args' = Parse(b).value
                  /\ Continue(StageAfterParser)
             ELSE Throw(Parse(b).status) /\ UNCHANGED <<route, args>>
  /\ UNCHANGED <<limiter, cred, script, refused, wire, ending>>

\* RateLimiter: the limiter of the route, when it has one.
RouteLimit ==
  /\ pc = "route"
  /\ IF route.limited THEN Limiter("auth", TRUE) ELSE Continue("auth") /\ UNCHANGED refused
  /\ UNCHANGED <<request, script, wire, ending>>

\* Slip: the role in the token is not compared with access_role.
ValidWithAnyToken == ~route.protected \/ cred \in {"sufficient", "insufficient"}

\* Authenticator::validate
Valid == ~route.protected \/ cred = "sufficient"

\* Slip: is_authenticator is not looked at.
WithCookieAlways(r) == [r EXCEPT !.cookie = TRUE]

\* The rest of Authenticator::process.  It is the last middleware: next() does
\* nothing, and the response is still the one the transaction began with.
WithCookie(r) == IF route.authenticator THEN [r EXCEPT !.cookie = TRUE] ELSE r

Authenticate ==
  /\ pc = "auth"
  /\ IF ~Valid THEN Throw(401)
     ELSE IF route.authenticator /\ ~IsSuccess(response.status) THEN Throw(response.status)
     ELSE response' = WithCookie(response) /\ pc' = "handler"
  /\ UNCHANGED <<request, script, refused, wire, ending>>

-----------------------------------------------------------------------------
\* The handlers.

Handles(m) == pc = "handler" /\ route.method = m

\* GET of a script, POST, HEAD of a script: which handlers accept the route.
RunsScript == pc = "handler" /\ route.script /\ route.method \in {"GET", "POST"}
Unserved   == \/ Handles("POST") /\ ~route.script
              \/ Handles("HEAD") /\ route.script

RefuseRoute ==
  /\ Unserved
  /\ Throw(503)
  /\ UNCHANGED <<request, script, refused, wire, ending>>

\* GetHandler::handleFile up to the head, sent before the file is opened.
GetFile ==
  /\ Handles("GET") /\ ~route.script
  /\ \/ Throw(403) /\ UNCHANGED wire
     \/ /\ response' = [response EXCEPT !.status = 200]
        /\ Wrote(<<HeadOf(response')>>)
        /\ pc' = "file"
     \/ WriteFails
  /\ UNCHANGED <<request, script, refused, ending>>

\* FileStreamer: the file may be missing or empty, a read or a write may fail,
\* and a file that shrinks meanwhile ends the body early without an error.
SendFile ==
  /\ pc = "file"
  /\ \/ Throw(404) /\ UNCHANGED wire
     \/ Throw(500) /\ (UNCHANGED wire \/ Wrote(<<Cut>>))
     \/ WriteFails
     \/ Continue("log") /\ (Wrote(<<Body>>) \/ Wrote(<<Cut>>))
  /\ UNCHANGED <<request, script, refused, ending>>

\* HeadHandler: the file is examined before the head is sent.
HeadFile ==
  /\ Handles("HEAD") /\ ~route.script
  /\ \/ \E s \in {403, 404} : Throw(s) /\ UNCHANGED wire
     \/ /\ response' = [response EXCEPT !.status = 200]
        /\ Wrote(<<HeadOf(response')>>)
        /\ pc' = "log"
     \/ WriteFails
  /\ UNCHANGED <<request, script, refused, ending>>

\* OptionsHandler: one plain write whose result nobody looks at.
Options ==
  /\ Handles("OPTIONS")
  /\ \/ Wrote(<<HeadOf(response)>>)
     \/ Wrote(<<Cut>>)
  /\ Continue("log")
  /\ UNCHANGED <<request, script, refused, ending>>

\* ScriptStreamer::spawn: pipes, posix_spawn, and the arguments written to the
\* child, which may already have closed its end: where SIGPIPE is ignored that
\* throws while the child runs (where it is not, see Scripts).
Spawn ==
  /\ RunsScript
  /\ \/ Throw(500) /\ UNCHANGED script
     \/ Throw(500) /\ child' = "running" /\ UNCHANGED <<run, output>>
     \/ /\ child' = "running"
        /\ run' \in ScriptRuns
        /\ output' = run'
        /\ Continue("script")
  /\ UNCHANGED <<request, refused, wire, ending>>

\* Slip: the script's status is used whatever it is.
RejectsNothing(c) == FALSE

\* The chunk callback of GetHandler and PostHandler.  first_read is captured
\* by value and never cleared: every chunk is taken for a whole response.
Rejected(c) == c \in {NoSpace, 400}

Chunk ==
  /\ pc = "script" /\ output # <<>>
  /\ output' = Tail(output)
  /\ LET c == output[1]
     IN  \/ Rejected(c) /\ Throw(502) /\ UNCHANGED wire
         \/ c = Unparsed /\ Throw(400) /\ UNCHANGED wire
         \/ /\ ~Rejected(c) /\ c # Unparsed
            /\ \/ /\ response' = [response EXCEPT !.status = c]
                  /\ Wrote(<<HeadOf(response'), Body>>)
                  /\ UNCHANGED pc
               \/ WriteFails
  /\ UNCHANGED <<request, child, run, refused, ending>>

\* A read of the pipe fails, or reaches its end and the child is waited for.
ScriptEnds ==
  /\ pc = "script"
  /\ \/ Throw(500) /\ UNCHANGED child
     \/ output = <<>> /\ child' = "reaped" /\ Continue("log")
  /\ UNCHANGED <<request, run, output, refused, wire, ending>>

-----------------------------------------------------------------------------
\* ErrorHandler after a catch: the page of the status, logging, closing.

\* Slip: a page that fails is given up, and nothing is sent in its place.
PageFailsForGood == pc' = "log"

PageFails == pc' = "default"

\* A configured page: opened, its head sent, its file sent, less of it when it
\* shrinks meanwhile; whatever fails, the default page is sent after it.
CustomPage ==
  /\ pc = "error" /\ response.status \in ErrorPages
  /\ \/ pc' = "log" /\ \E rest \in {Body, Cut} : Wrote(<<HeadOf(response), rest>>)
     \/ PageFails /\ \E sent \in {<<>>, <<Cut>>, <<HeadOf(response), Cut>>} : Wrote(sent)
  /\ UNCHANGED <<request, response, script, refused, ending>>

\* DEFAULT_ERROR_PAGE: a failed write is only reported in the log.
DefaultPage ==
  /\ \/ pc = "default"
     \/ pc = "error" /\ response.status \notin ErrorPages
  /\ \/ Wrote(<<HeadOf(response)>>)
     \/ Wrote(<<Cut>>)
  /\ pc' = "log"
  /\ UNCHANGED <<request, response, script, refused, ending>>

\* Slip: the entry keeps the status the transaction began with.
LoggedAtStart == Append(log, Fresh.status)

\* Logger after next().
Logged == Append(log, response.status)

LogSession ==
  /\ pc = "log"
  /\ log' = Logged
  /\ pc' = "close"
  /\ UNCHANGED <<request, response, script, refused, wire, sock>>

Close ==
  /\ pc = "close"
  /\ sock' = "closed"
  /\ pc' = "end"
  /\ UNCHANGED <<request, response, script, refused, wire, log>>

Ended == pc \in {"end", "dropped"} /\ UNCHANGED vars

Step == Handshake \/ GlobalLimit \/ Parser \/ RouteLimit \/ Authenticate
          \/ RefuseRoute \/ GetFile \/ SendFile \/ HeadFile \/ Options
          \/ Spawn \/ Chunk \/ ScriptEnds
          \/ CustomPage \/ DefaultPage \/ LogSession \/ Close

Next == Step \/ Ended

Spec == Init /\ [][Next]_vars

-----------------------------------------------------------------------------
Stages == {"handshake", "global", "read", "route", "auth", "handler", "file", "script",
           "error", "default", "log", "close", "end", "dropped"}

TypeOK ==
  /\ limiter \in GlobalLimiters
  /\ pc \in Stages
  /\ cred \in Credentials
  /\ buffer \in Buffers \cup {NoBuffer}
  /\ route = NoRoute \/ route \in EndpointRoutes(buffer.endpoint)
  /\ Len(args) <= 1
  /\ response \in [status : Statuses, cookie : BOOLEAN]
  /\ child \in {"none", "running", "reaped"}
  /\ refused \in BOOLEAN
  /\ \A i \in 1..Len(wire) : wire[i].kind \in {"head", "body", "cut"}
  /\ sock \in {"open", "closed"}
  /\ log \in Seq(Nat)

Heads == {i \in 1..Len(wire) : wire[i].kind = "head"}
LastHead == wire[CHOOSE i \in Heads : \A j \in Heads : j <= i]

\* A handler has acted for the client: a script was started, or a response that
\* is not an error was sent.
Served == child # "none" \/ \E i \in Heads : IsSuccess(wire[i].status)

\* "Restricts access to the endpoint to only the access_role field" (README.md:167):
\* on a protected route nothing is run or sent without a sufficient role, on no
\* path through the pipeline, the handlers and the error pages.
ProtectedOnly == Served => route # NoRoute /\ (route.protected => cred = "sufficient")

\* A request that some limiter refuses never reaches a handler, wherever in the
\* pipeline that limiter stands, and the client is told 429.
RefusedIsUnserved ==
  refused => /\ ~Served
             /\ response.status = 429
             /\ \A i \in Heads : wire[i].status = 429

\* Nobody is served who is not entitled to be.
NobodyUnentitled == ProtectedOnly /\ RefusedIsUnserved

\* The last thing the client was sent is a part of the answer to it: of an error
\* page of status s or, when there was nothing before it, of the OPTIONS answer,
\* whose write nobody looks at.
EndsCut(s) ==
  /\ wire # <<>> /\ wire[Len(wire)] = Cut
  /\ s >= 400 \/ (Heads = {} /\ route # NoRoute /\ route.method = "OPTIONS")

\* A script that wrote nothing is waited for, and passes for a success.
Silent(s) == wire = <<>> /\ child = "reaped" /\ run = <<>> /\ s = 200

\* Every session that got past the handshake is logged exactly once, before its
\* socket is closed, with the status of the last response head the client was
\* sent, whatever failed or was cut short before that head.  Only when that last
\* answer itself is cut short may the head be missing and the log know better:
\* then it says the error that was to be told, never a success but for OPTIONS.
\* An answer without a head at all is that of a script which wrote nothing.
LoggedOutcome ==
  /\ pc = "end" => Len(log) = 1
  /\ sock = "closed" => pc \in {"end", "dropped"}
  /\ log # <<>> => \/ Heads # {} /\ LastHead.status = log[1]
                   \/ EndsCut(log[1])
                   \/ Silent(log[1])

\* The cookie with the role of auth_role is sent only by an authenticator route,
\* to a client that passed its protection and, but for OPTIONS, which runs none,
\* had its script started; an error page never carries it (the exception's
\* response replaces the transaction's, Middleware.cpp:34).
CookieOnlyByAuthenticator ==
  /\ \A i \in Heads : wire[i].cookie =>
       /\ route.authenticator
       /\ route.protected => cred = "sufficient"
       /\ route.script /\ route.method # "OPTIONS" => child # "none"
  /\ pc \in {"error", "default"} => ~response.cookie

\* The arguments a route's args attribute promises its script (README.md:176-185),
\* for bodies of one line, stated without the order of the parser's calls.
Promised(wanted, v) ==
  LET whole == v = buffer.body
      bodyOk(t, valid) == buffer.ctype = t => v \in valid
      forwarded == whole /\ bodyOk(Json, JsonBodies) /\ bodyOk(UrlForm, FormBodies)
  IN  \/ wanted = "none" /\ v = <<>>
      \/ wanted \in {"query", "any"} /\ buffer.query # "" /\ v = <<buffer.query>>
      \/ wanted = "json" /\ whole /\ buffer.ctype = Json /\ v \in JsonBodies
      \/ wanted = "url" /\ whole /\ buffer.ctype = UrlForm /\ v \in FormBodies
      \/ wanted = "body" /\ forwarded
      \/ wanted = "any" /\ buffer.query = "" /\ forwarded

\* "If this argument type is not provided, the server will return status 400 or
\* 419" (README.md:177): not for args="query".  extract_query_string returns
\* nothing where there is none (http.cpp:173-181), and extract_args passes that
\* on (http.cpp:498): the script runs without arguments.
QueryMissing == route.args = "query" /\ buffer.query = "" /\ args = <<>>

\* Whenever a request is accepted, it was whole, named a method its endpoint has,
\* and its script is given exactly the arguments its route's args attribute
\* promises; the one exception, against the documentation, is a missing query.
AcceptedAsPromised ==
  route # NoRoute /\ Len(buffer.body) <= 1 =>
    /\ buffer.form = "good"
    /\ MethodFound(buffer.endpoint, buffer.method)
    /\ Promised(route.args, args) \/ QueryMissing

\* A request the parser refuses is answered for a real fault of it, whatever
\* else is wrong with it and whichever of the parser's checks met it first; and
\* the answer stays the same through the error pages up to the log.  A wrong
\* Content-Type is answered 415, where README.md:177 says 419.
RefusedWithReason ==
  buffer # NoBuffer /\ route = NoRoute =>
    LET found  == EndpointFound(buffer.endpoint)
        method == MethodFound(buffer.endpoint, buffer.method)
        wanted == RouteOf(buffer).args
    IN  \/ response.status = 404 /\ ~found
        \/ response.status = 405 /\ found /\ ~method
        \/ /\ response.status = 415
           /\ \/ wanted = "json" /\ buffer.ctype # Json
              \/ wanted = "url" /\ buffer.ctype # UrlForm
        \/ /\ response.status = 400
           /\ \/ buffer.form # "good"
              \/ Len(buffer.body) > 1
              \/ /\ wanted \in {"json", "url", "body", "any"}
                 /\ wanted = "any" => buffer.query = ""
                 /\ ~Promised(wanted, buffer.body)

\* Requests are accepted, or refused, as the documentation of routes promises, but
\* for a missing query and the number of one refusal.
ParsedAsPromised == AcceptedAsPromised /\ RefusedWithReason

-----------------------------------------------------------------------------
\* What the repository says and the code does otherwise.

\* "The role the client will receive in their JWT upon the script returning a
\* success" (README.md:171): a cookie is sent with a success only.
CookieUponSuccess == \A i \in Heads : wire[i].cookie => IsSuccess(wire[i].status)
=============================================================================
