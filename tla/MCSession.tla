------------------------------ MODULE MCSession ------------------------------
(***************************************************************************)
(* TLC instances of Session.                                               *)
(***************************************************************************)
EXTENDS Session

Endpoint(e, m, a, s, p, c, l) ==
  [endpoint |-> e, method |-> m, args |-> a, script |-> s, protected |-> p,
   authenticator |-> c, limited |-> l]

\* A page, its protected variant, a script for each kind of arguments, and
\* routes the handlers refuse (HEAD of a script, POST without one).
MCRoutes ==
  { Endpoint("/page", "GET", "none", FALSE, FALSE, FALSE, FALSE),
    Endpoint("/page", "OPTIONS", "none", FALSE, FALSE, FALSE, TRUE),
    Endpoint("/private", "GET", "none", FALSE, TRUE, FALSE, TRUE),
    Endpoint("/private", "HEAD", "none", FALSE, TRUE, FALSE, FALSE),
    Endpoint("/private", "OPTIONS", "none", FALSE, TRUE, FALSE, FALSE),
    Endpoint("/api", "GET", "query", TRUE, TRUE, FALSE, TRUE),
    Endpoint("/api", "HEAD", "none", TRUE, FALSE, FALSE, FALSE),
    Endpoint("/login", "POST", "json", TRUE, FALSE, TRUE, TRUE),
    Endpoint("/login", "OPTIONS", "none", TRUE, FALSE, TRUE, FALSE),
    Endpoint("/sudo", "POST", "json", TRUE, TRUE, TRUE, FALSE),
    Endpoint("/form", "POST", "url", TRUE, FALSE, FALSE, FALSE),
    Endpoint("/body", "POST", "body", TRUE, FALSE, FALSE, FALSE),
    Endpoint("/any", "POST", "any", TRUE, FALSE, FALSE, FALSE),
    Endpoint("/odd", "POST", "none", FALSE, FALSE, FALSE, FALSE) }

\* "{}" is JSON in one line and <<"{", "}">> the same value in two lines.
MCJsonBodies == {<<"{}">>, <<"{", "}">>}
MCFormBodies == {<<"a=b">>}
MCBodies == MCJsonBodies \cup MCFormBodies \cup {<<>>, <<"x y">>, <<"x y", "z">>}

MCEndpoints == {r.endpoint : r \in MCRoutes} \cup {"/file", "/none"}

Buffer(e, m) == [form |-> "good", endpoint |-> e, method |-> m, query |-> "",
                 ctype |-> Json, body |-> <<"{}">>]

\* Every endpoint with every method; every body for every kind of arguments, in
\* every content type; a malformed request line or header for three endpoints.
MCBodyBuffers ==
  {[Buffer(e, "POST") EXCEPT !.ctype = t, !.body = y] :
     e \in {"/login", "/form", "/body", "/any"}, t \in {"", Json, UrlForm}, y \in MCBodies}
MCBuffers ==
  {Buffer(e, m) : e \in MCEndpoints, m \in Methods} \cup MCBodyBuffers
    \cup {[Buffer("/api", "GET") EXCEPT !.query = "q=1"]}
    \cup {[b EXCEPT !.query = "q=1"] : b \in {c \in MCBodyBuffers : c.endpoint = "/any"}}
    \cup {[Buffer(e, m) EXCEPT !.form = f] :
             e \in {"/login", "/page", "/none"}, m \in {"GET", "POST"}, f \in Forms}

\* Success, failure and redirect responses, a 400, output that cannot be
\* parsed, nothing at all, and each again in two chunks.
MCFirst == {200, 302, 500, 400, NoSpace, Unparsed}
MCScriptRuns == {<<>>} \cup {<<c>> : c \in MCFirst}
                  \cup {<<c, d>> : c \in {200, 500}, d \in {200, NoSpace}}
MCWhole == {<<200>>, <<500>>}

MCEverywhere == {"none", "ip", "parsed"}
MCPublicFiles == {"/file"}
MCErrorPages == {404, 500, 401}
MCWriteErrors == {500, 503}
\* Routes without files: what the file handlers do is not in question.
MCScriptRoutes == {r \in MCRoutes : r.script}
MCScriptBuffers == {Buffer(r.endpoint, r.method) : r \in MCScriptRoutes}
=============================================================================
