------------------------------- MODULE Request -------------------------------
(***************************************************************************)
(* How mw::Parser makes a request of the bytes of one read: the extract_*  *)
(* functions of src/src/http.cpp and the lookups of src/src/Router.cpp, in *)
(* the order in which the parser calls them, the first failure deciding    *)
(* the status.                                                             *)
(*                                                                         *)
(* A buffer is abstracted to                                               *)
(*   form     "blank" (no request target), "noline" (no CRLF), "nohead"    *)
(*            (no blank line), "lfhead" (a blank line with bare LFs),      *)
(*            "badheader" (a header without ': '), or "good"               *)
(*   endpoint, method, query ("" when there is none)                       *)
(*   ctype    the Content-Type header, "" when there is none               *)
(*   body     the lines that follow the blank line                         *)
(***************************************************************************)
EXTENDS Integers, Sequences

CONSTANTS Routes,      \* configured routes: records [endpoint, method, args, ...]
          PublicFiles, \* endpoints without a route that name a file in public/
          JsonBodies,  \* bodies nlohmann::json accepts
          FormBodies   \* bodies is_valid_url_form accepts

Methods == {"GET", "HEAD", "POST", "OPTIONS", "NOT_ALLOWED"}
Forms == {"blank", "noline", "nohead", "lfhead", "badheader", "good"}
ArgTypes == {"none", "query", "json", "url", "body", "any"}

\* loadRoutes files no route without a method (config.cpp:364); "none" stands for
\* no endpoint.
ASSUME RequestAssumption ==
  /\ "none" \notin PublicFiles
  /\ \A r \in Routes :
       /\ r.endpoint # "none"
       /\ r.method \in Methods \ {"NOT_ALLOWED"} /\ r.args \in ArgTypes
       /\ {r.script, r.protected, r.authenticator, r.limited} \subseteq BOOLEAN

Json == "application/json"
UrlForm == "application/x-www-form-urlencoded"

-----------------------------------------------------------------------------
\* Router: a route for the endpoint, or the GET and HEAD that getEndpoint adds
\* for a file under public/ (create_default_endpoint_method).
DefaultRoute(e, m) ==
  [endpoint |-> e, method |-> m, args |-> "none", script |-> FALSE,
   protected |-> FALSE, authenticator |-> FALSE, limited |-> FALSE]

EndpointRoutes(e) ==
  LET configured == {r \in Routes : r.endpoint = e}
  IN  IF configured = {} /\ e \in PublicFiles
      THEN {DefaultRoute(e, "GET"), DefaultRoute(e, "HEAD")}
      ELSE configured

EndpointFound(e) == EndpointRoutes(e) # {}

RoutesFor(e, m) == {r \in EndpointRoutes(e) : r.method = m}

MethodFound(e, m) == RoutesFor(e, m) # {}

RouteOf(b) == CHOOSE r \in RoutesFor(b.endpoint, b.method) : TRUE

-----------------------------------------------------------------------------
\* Results of the extract functions: a status (200: no exception) and a value.
Ok(v) == [status |-> 200, value |-> v]
Fails(s) == [status |-> s, value |-> <<>>]

\* extract_body: from the blank line to the next line end.
ExtractBody(b) ==
  IF b.form = "nohead" THEN Fails(400)
  ELSE Ok(IF b.body = <<>> THEN <<>> ELSE <<b.body[1]>>)

\* get_args with the filter for one content type.
TypedArgs(b, desired, valid) ==
  LET body == ExtractBody(b)
  IN  IF body.status # 200 THEN body
      ELSE IF b.ctype # desired THEN Fails(415)
      ELSE IF body.value \notin valid THEN Fails(400) ELSE body

\* Slip: the body is not validated against its content type.
AnyBodyUnchecked(b) == ExtractBody(b)

\* body_any: only JSON and URL forms are validated.
AnyBody(b) ==
  LET body == ExtractBody(b)
      invalid == \/ b.ctype = Json /\ body.value \notin JsonBodies
                 \/ b.ctype = UrlForm /\ body.value \notin FormBodies
  IN  IF body.status = 200 /\ invalid THEN Fails(400) ELSE body

QueryArgs(b) == Ok(IF b.query = "" THEN <<>> ELSE <<b.query>>)

\* Slip: "any" looks at the body although there is a query.
ExtractArgsBodyFirst(b, args) ==
  CASE args = "none"  -> Ok(<<>>)
    [] args = "query" -> QueryArgs(b)
    [] args = "json"  -> TypedArgs(b, Json, JsonBodies)
    [] args = "url"   -> TypedArgs(b, UrlForm, FormBodies)
    [] args = "body"  -> AnyBody(b)
    [] args = "any"   -> AnyBody(b)

\* extract_args
ExtractArgs(b, args) ==
  CASE args = "none"  -> Ok(<<>>)
    [] args = "query" -> QueryArgs(b)
    [] args = "json"  -> TypedArgs(b, Json, JsonBodies)
    [] args = "url"   -> TypedArgs(b, UrlForm, FormBodies)
    [] args = "body"  -> AnyBody(b)
    [] args = "any"   -> IF b.query # "" THEN QueryArgs(b) ELSE AnyBody(b)

\* extract_headers and extract_body, called once more for the request itself.
HeadersFail(b) == b.form \in {"nohead", "lfhead", "badheader"}

\* Parser::process from extract_endpoint to getEndpointMethod.
Parse(b) ==
  IF b.form = "blank" THEN Fails(400)
  ELSE IF ~EndpointFound(b.endpoint) THEN Fails(404)
  ELSE IF b.form = "noline" THEN Fails(400)
  ELSE IF ~MethodFound(b.endpoint, b.method) THEN Fails(405)
  ELSE LET args == ExtractArgs(b, RouteOf(b).args)
       IN  IF args.status = 200 /\ HeadersFail(b) THEN Fails(400) ELSE args
=============================================================================
