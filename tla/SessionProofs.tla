----------------------------- MODULE SessionProofs -----------------------------
(***************************************************************************)
(* Proofs about a session, for every configuration, request, script and    *)
(* failure: nobody is served who is not entitled, requests are parsed as   *)
(* promised, the log tells the outcome, and the login cookie goes only     *)
(* where it may.                                                           *)
(***************************************************************************)
EXTENDS Session, TLAPS

\* The stages, by what has happened before them.
Unread  == pc \in {"handshake", "read"} \/ (pc = "global" /\ limiter = "ip")
Checked == pc \in {"route", "auth"} \/ (pc = "global" /\ limiter # "ip")
Handled == pc \in {"handler", "file", "script"}
Failed  == pc \in {"error", "default"}
Done    == pc \in {"log", "close", "end"}

Responses == [status : Statuses, cookie : BOOLEAN]
HeadItems == [kind : {"head"}, status : Statuses, cookie : BOOLEAN]
Items == HeadItems \cup {Body, Cut}

SessionTypes ==
  /\ limiter \in GlobalLimiters /\ pc \in Stages /\ cred \in Credentials
  /\ buffer \in Buffers \cup {NoBuffer}
  /\ response \in Responses
  /\ child \in {"none", "running", "reaped"}
  /\ output \in Seq(Chunks)
  /\ refused \in BOOLEAN
  /\ wire \in Seq(Items)

\* A request is the parser's verdict on the buffer, and stays it: a route and its
\* arguments, or a status that is kept up to the end.
RequestInv ==
  /\ Unread => buffer = NoBuffer
  /\ buffer = NoBuffer => route = NoRoute /\ args = <<>>
  /\ Checked \/ Handled => route # NoRoute
  /\ route # NoRoute =>
       Parse(buffer).status = 200 /\ route = RouteOf(buffer) /\ args = Parse(buffer).value
  /\ buffer # NoBuffer /\ route = NoRoute =>
       /\ Parse(buffer).status # 200 /\ response.status = Parse(buffer).status /\ args = <<>>
       /\ Failed \/ Done

\* The client may have what the route offers.
Entitled ==
  route # NoRoute /\ (route.protected => cred = "sufficient") /\ ~refused

CookieAllowed ==
  /\ route.authenticator
  /\ route.protected => cred = "sufficient"
  /\ route.script /\ route.method # "OPTIONS" => child # "none"

\* What a head on the wire says of the session.
HeadFits(item) ==
  item.kind = "head" =>
    /\ IsSuccess(item.status) => Entitled
    /\ refused => item.status = 429
    /\ item.cookie => CookieAllowed

HeadsFit == \A i \in 1..Len(wire) : HeadFits(wire[i])

\* Nothing is sent or run before the last check, and an error takes the place of
\* the response it interrupts.
ServedInv ==
  /\ Unread \/ Checked \/ pc = "dropped" =>
       wire = <<>> /\ child = "none" /\ response = Fresh /\ ~refused
  /\ pc = "handler" => wire = <<>> /\ child = "none" /\ response.status = 200
  /\ pc = "file" => ~route.script
  /\ pc = "script" => child # "none"
  /\ Handled => Entitled /\ (response.cookie => route.authenticator)
  /\ Failed => response.status >= 400 /\ ~response.cookie
  /\ refused => (Failed \/ Done) /\ response.status = 429
  /\ child # "none" => Entitled
  /\ HeadsFit

\* The last head of a written sequence has the status.
LastIs(w, s) ==
  \E i \in 1..Len(w) : /\ w[i].kind = "head" /\ w[i].status = s
                       /\ \A j \in 1..Len(w) : w[j].kind = "head" => j <= i

\* What the wire tells of the response, stage by stage: nothing while an error is
\* on its way to the client.
StageTells ==
  /\ pc = "file" => LastIs(wire, response.status)
  /\ pc = "script" => \/ LastIs(wire, response.status)
                      \/ wire = <<>> /\ response.status = 200 /\ output = run
  /\ Done => \/ LastIs(wire, response.status)
             \/ EndsCut(response.status) \/ Silent(response.status)

LogInv ==
  /\ log = IF pc \in {"close", "end"} THEN <<response.status>> ELSE <<>>
  /\ sock = "closed" <=> pc \in {"end", "dropped"}
  /\ sock \in {"open", "closed"}
  /\ StageTells

SessionInv == SessionTypes /\ RequestInv /\ ServedInv /\ LogInv

-----------------------------------------------------------------------------
\* The parser.

LEMMA RouteFacts ==
  ASSUME NEW e, NEW r \in EndpointRoutes(e)
  PROVE  /\ r.endpoint # "none" /\ r # NoRoute
         /\ r.args \in ArgTypes /\ r.method \in Methods \ {"NOT_ALLOWED"}
         /\ r.script \in BOOLEAN /\ r.protected \in BOOLEAN
         /\ r.authenticator \in BOOLEAN /\ r.limited \in BOOLEAN
<1>1. CASE r \in Routes
  <2>1. /\ r.endpoint # "none" /\ r.args \in ArgTypes /\ r.method \in Methods \ {"NOT_ALLOWED"}
        /\ r.script \in BOOLEAN /\ r.protected \in BOOLEAN
        /\ r.authenticator \in BOOLEAN /\ r.limited \in BOOLEAN
    BY <1>1, RequestAssumption
  <2>2. r # NoRoute
    BY <2>1 DEF NoRoute
  <2>3. QED
    BY <2>1, <2>2
<1>2. CASE r \notin Routes
  <2>1. e \in PublicFiles /\ r \in {DefaultRoute(e, "GET"), DefaultRoute(e, "HEAD")}
    BY <1>2 DEF EndpointRoutes
  <2>2. /\ r.endpoint = e /\ r.args = "none" /\ r.method \in {"GET", "HEAD"}
        /\ r.script = FALSE /\ r.protected = FALSE /\ r.authenticator = FALSE /\ r.limited = FALSE
    BY <2>1 DEF DefaultRoute
  <2>3. e # "none"
    BY <2>1, RequestAssumption
  <2>4. r # NoRoute
    BY <2>2, <2>3 DEF NoRoute
  <2>5. QED
    BY <2>2, <2>3, <2>4 DEF ArgTypes, Methods
<1>3. QED
  BY <1>1, <1>2

LEMMA RouteChosen ==
  ASSUME NEW b, MethodFound(b.endpoint, b.method)
  PROVE  RouteOf(b) \in EndpointRoutes(b.endpoint) /\ RouteOf(b).method = b.method
<1>1. \E r : r \in RoutesFor(b.endpoint, b.method)
  BY DEF MethodFound
<1>2. RouteOf(b) \in RoutesFor(b.endpoint, b.method)
  BY <1>1 DEF RouteOf
<1>3. QED
  BY <1>2 DEF RoutesFor

\* The body that is taken is the whole body when that has one line.
LEMMA BodyTaken ==
  ASSUME NEW b \in Buffers
  PROVE  /\ b.form = "nohead" => ExtractBody(b).status = 400
         /\ b.form # "nohead" => /\ ExtractBody(b).status = 200
                                 /\ Len(b.body) <= 1 => ExtractBody(b).value = b.body
         /\ ExtractBody(b).value = <<>> \/ \E x : ExtractBody(b).value = <<x>>
<1>1. b.body \in Seq(STRING)
  BY SessionAssumption
<1>2. CASE b.form = "nohead"
  <2>1. ExtractBody(b) = Fails(400)
    BY <1>2 DEF ExtractBody
  <2>2. QED
    BY <1>2, <2>1 DEF Fails
<1>3. CASE b.form # "nohead"
  <2> DEFINE v == IF b.body = <<>> THEN <<>> ELSE <<b.body[1]>>
  <2>1. ExtractBody(b) = Ok(v)
    BY <1>3 DEF ExtractBody
  <2>2. v = <<>> \/ \E x : v = <<x>>
    OBVIOUS
  <2>3. Len(b.body) <= 1 => v = b.body
    BY <1>1
  <2> HIDE DEF v
  <2>4. ExtractBody(b).status = 200 /\ ExtractBody(b).value = v
    BY <2>1 DEF Ok
  <2>5. QED
    BY <1>3, <2>2, <2>3, <2>4
<1>4. QED
  BY <1>2, <1>3

\* What the arguments are, or why they are refused, kind by kind.
LEMMA TypedTaken ==
  ASSUME NEW b \in Buffers, NEW desired, NEW valid
  PROVE  LET t == TypedArgs(b, desired, valid)
             v == ExtractBody(b).value
         IN  \/ t.status = 200 /\ t.value = v /\ b.form # "nohead" /\ b.ctype = desired /\ v \in valid
             \/ t.status = 400 /\ (b.form = "nohead" \/ (b.ctype = desired /\ v \notin valid))
             \/ t.status = 415 /\ b.ctype # desired
  BY BodyTaken DEF TypedArgs, Fails

LEMMA AnyTaken ==
  ASSUME NEW b \in Buffers
  PROVE  LET t == AnyBody(b)
             v == ExtractBody(b).value
             fits == (b.ctype = Json => v \in JsonBodies) /\ (b.ctype = UrlForm => v \in FormBodies)
         IN  \/ t.status = 200 /\ t.value = v /\ b.form # "nohead" /\ fits
             \/ t.status = 400 /\ (b.form = "nohead" \/ ~fits)
  BY BodyTaken DEF AnyBody, Fails

\* The parser's checks in their order: what it makes of a buffer.
LEMMA ParseCases ==
  ASSUME NEW b
  PROVE  LET args0 == ExtractArgs(b, RouteOf(b).args)
         IN  \/ Parse(b).status = 400 /\ b.form # "good"
             \/ Parse(b).status = 404 /\ ~EndpointFound(b.endpoint)
             \/ Parse(b).status = 405 /\ EndpointFound(b.endpoint) /\ ~MethodFound(b.endpoint, b.method)
             \/ /\ EndpointFound(b.endpoint) /\ MethodFound(b.endpoint, b.method)
                /\ b.form \notin {"blank", "noline"}
                /\ args0.status = 200 => ~HeadersFail(b)
                /\ Parse(b) = args0
  BY DEF Parse, Fails, HeadersFail

\* Arguments that are accepted are those promised, and a refusal has a reason.
FaultOfType(wanted) ==
  (wanted = "json" /\ buffer.ctype # Json) \/ (wanted = "url" /\ buffer.ctype # UrlForm)

FaultOfBody(wanted) ==
  \/ buffer.form # "good"
  \/ Len(buffer.body) > 1
  \/ /\ wanted \in {"json", "url", "body", "any"}
     /\ wanted = "any" => buffer.query = ""
     /\ ~Promised(wanted, buffer.body)

\* There is no query for a script that wants one.
NoQuery(wanted, v) == wanted = "query" /\ buffer.query = "" /\ v = <<>>

Reasoned(wanted, a) ==
  \/ /\ a.status = 200
     /\ a.value = <<>> \/ \E x : a.value = <<x>>
     /\ buffer.form # "nohead" /\ Len(buffer.body) <= 1 =>
          Promised(wanted, a.value) \/ NoQuery(wanted, a.value)
  \/ a.status = 415 /\ FaultOfType(wanted)
  \/ a.status = 400 /\ FaultOfBody(wanted)

FitsType(v) ==
  (buffer.ctype = Json => v \in JsonBodies) /\ (buffer.ctype = UrlForm => v \in FormBodies)

LEMMA ArgumentsReasoned ==
  ASSUME buffer \in Buffers, NEW wanted \in ArgTypes
  PROVE  Reasoned(wanted, ExtractArgs(buffer, wanted))
<1> DEFINE a == ExtractArgs(buffer, wanted)
           v == ExtractBody(buffer).value
<1>1. /\ buffer.form # "nohead" /\ Len(buffer.body) <= 1 => v = buffer.body
      /\ v = <<>> \/ \E x : v = <<x>>
      /\ Len(buffer.body) \in Nat
  BY BodyTaken, SessionAssumption
<1>2. CASE wanted = "none" \/ wanted = "query" \/ (wanted = "any" /\ buffer.query # "")
  <2> DEFINE q == IF wanted = "none" \/ buffer.query = "" THEN <<>> ELSE <<buffer.query>>
  <2>1. a = Ok(q)
    BY <1>2 DEF ExtractArgs, QueryArgs
  <2>2. q = <<>> \/ \E x : q = <<x>>
    OBVIOUS
  <2>3. Promised(wanted, q) \/ NoQuery(wanted, q)
    BY <1>2 DEF Promised, NoQuery
  <2> HIDE DEF q
  <2>4. a.status = 200 /\ a.value = q
    BY <2>1 DEF Ok
  <2>5. QED
    BY <2>2, <2>3, <2>4 DEF Reasoned
<1>3. CASE wanted = "json"
  <2>1. a = TypedArgs(buffer, Json, JsonBodies)
    BY <1>3 DEF ExtractArgs
  <2>2. \/ a.status = 200 /\ a.value = v /\ buffer.form # "nohead" /\ buffer.ctype = Json /\ v \in JsonBodies
        \/ a.status = 400 /\ (buffer.form = "nohead" \/ (buffer.ctype = Json /\ v \notin JsonBodies))
        \/ a.status = 415 /\ buffer.ctype # Json
    BY <2>1, TypedTaken
  <2> HIDE DEF a, v
  <2>3. a.status = 400 => FaultOfBody(wanted)
    BY <1>1, <1>3, <2>2 DEF FaultOfBody, Promised
  <2>4. a.status = 200 /\ buffer.form # "nohead" /\ Len(buffer.body) <= 1 => Promised(wanted, a.value)
    BY <1>1, <1>3, <2>2 DEF Promised
  <2>5. QED
    BY <1>1, <1>3, <2>2, <2>3, <2>4 DEF Reasoned, FaultOfType, a
<1>4. CASE wanted = "url"
  <2>1. a = TypedArgs(buffer, UrlForm, FormBodies)
    BY <1>4 DEF ExtractArgs
  <2>2. \/ a.status = 200 /\ a.value = v /\ buffer.form # "nohead" /\ buffer.ctype = UrlForm /\ v \in FormBodies
        \/ a.status = 400 /\ (buffer.form = "nohead" \/ (buffer.ctype = UrlForm /\ v \notin FormBodies))
        \/ a.status = 415 /\ buffer.ctype # UrlForm
    BY <2>1, TypedTaken
  <2> HIDE DEF a, v
  <2>3. a.status = 400 => FaultOfBody(wanted)
    BY <1>1, <1>4, <2>2 DEF FaultOfBody, Promised
  <2>4. a.status = 200 /\ buffer.form # "nohead" /\ Len(buffer.body) <= 1 => Promised(wanted, a.value)
    BY <1>1, <1>4, <2>2 DEF Promised
  <2>5. QED
    BY <1>1, <1>4, <2>2, <2>3, <2>4 DEF Reasoned, FaultOfType, a
<1>5. CASE wanted = "body" \/ (wanted = "any" /\ buffer.query = "")
  <2>1. a = AnyBody(buffer)
    BY <1>5 DEF ExtractArgs
  <2>2. \/ a.status = 200 /\ a.value = v /\ buffer.form # "nohead" /\ FitsType(v)
        \/ a.status = 400 /\ (buffer.form = "nohead" \/ ~FitsType(v))
    BY <2>1, AnyTaken DEF FitsType
  <2>3. ASSUME NEW x PROVE Promised(wanted, x) <=> x = buffer.body /\ FitsType(x)
    BY <1>5 DEF Promised, FitsType
  <2> HIDE DEF a, v
  <2>4. a.status = 400 => FaultOfBody(wanted)
    <3> SUFFICES ASSUME a.status = 400, buffer.form = "good", ~(Len(buffer.body) > 1)
                 PROVE  ~Promised(wanted, buffer.body)
      BY <1>5 DEF FaultOfBody
    <3>1. v = buffer.body /\ ~FitsType(v)
      BY <1>1, <2>2
    <3>2. QED
      BY <2>3, <3>1
  <2>5. a.status = 200 /\ buffer.form # "nohead" /\ Len(buffer.body) <= 1 => Promised(wanted, a.value)
    BY <1>1, <2>2, <2>3
  <2>6. a.status = 200 => a.value = <<>> \/ \E x : a.value = <<x>>
    BY <1>1, <2>2
  <2>7. Reasoned(wanted, a)
    BY <2>2, <2>4, <2>5, <2>6 DEF Reasoned
  <2>8. QED
    BY <2>7 DEF a
<1>6. QED
  BY <1>2, <1>3, <1>4, <1>5 DEF ArgTypes

\* The same of the whole parser.
LEMMA ParseAccepted ==
  ASSUME buffer \in Buffers, Parse(buffer).status = 200
  PROVE  /\ MethodFound(buffer.endpoint, buffer.method)
         /\ Parse(buffer).value = <<>> \/ \E x : Parse(buffer).value = <<x>>
         /\ buffer.form = "good"
         /\ Len(buffer.body) <= 1 =>
              \/ Promised(RouteOf(buffer).args, Parse(buffer).value)
              \/ NoQuery(RouteOf(buffer).args, Parse(buffer).value)
<1> DEFINE args0 == ExtractArgs(buffer, RouteOf(buffer).args)
<1>1. /\ MethodFound(buffer.endpoint, buffer.method) /\ Parse(buffer) = args0
      /\ buffer.form \notin {"blank", "noline"} /\ ~HeadersFail(buffer)
  BY ParseCases
<1>2. buffer.form = "good"
  BY <1>1, SessionAssumption DEF Forms, HeadersFail
<1>3. RouteOf(buffer).args \in ArgTypes
  BY <1>1, RouteChosen, RouteFacts
<1>4. Reasoned(RouteOf(buffer).args, args0)
  BY <1>3, ArgumentsReasoned
<1> HIDE DEF args0
<1>5. QED
  BY <1>1, <1>2, <1>4 DEF Reasoned

LEMMA ParseRefused ==
  ASSUME buffer \in Buffers, Parse(buffer).status # 200
  PROVE  LET s == Parse(buffer).status
             wanted == RouteOf(buffer).args
         IN  \/ s = 404 /\ ~EndpointFound(buffer.endpoint)
             \/ s = 405 /\ EndpointFound(buffer.endpoint)
                        /\ ~MethodFound(buffer.endpoint, buffer.method)
             \/ s = 415 /\ FaultOfType(wanted)
             \/ s = 400 /\ FaultOfBody(wanted)
<1> DEFINE args0 == ExtractArgs(buffer, RouteOf(buffer).args)
           wanted == RouteOf(buffer).args
<1>1. CASE Parse(buffer).status = 400 /\ buffer.form # "good"
  BY <1>1 DEF FaultOfBody
<1>2. CASE MethodFound(buffer.endpoint, buffer.method) /\ Parse(buffer) = args0
  <2>1. wanted \in ArgTypes
    BY <1>2, RouteChosen, RouteFacts
  <2>2. Reasoned(wanted, args0)
    BY <2>1, ArgumentsReasoned
  <2> HIDE DEF args0, wanted
  <2>3. \/ Parse(buffer).status = 415 /\ FaultOfType(wanted)
        \/ Parse(buffer).status = 400 /\ FaultOfBody(wanted)
    BY <1>2, <2>2 DEF Reasoned
  <2>4. QED
    BY <2>3 DEF wanted
<1>3. QED
  BY <1>1, <1>2, ParseCases

LEMMA ParseStatus ==
  ASSUME NEW b \in Buffers
  PROVE  Parse(b).status \in {200, 400, 404, 405, 415}
<1> DEFINE wanted == RouteOf(b).args
<1>1. CASE MethodFound(b.endpoint, b.method) /\ Parse(b) = ExtractArgs(b, wanted)
  <2>1. wanted \in ArgTypes
    BY <1>1, RouteChosen, RouteFacts
  <2>2. \A d, valid : TypedArgs(b, d, valid).status \in {200, 400, 415}
    BY TypedTaken
  <2>3. AnyBody(b).status \in {200, 400}
    BY AnyTaken
  <2>4. QueryArgs(b).status = 200 /\ Ok(<<>>).status = 200
    BY DEF QueryArgs, Ok
  <2> DEFINE a == ExtractArgs(b, wanted)
  <2> HIDE DEF wanted
  <2>5. a.status \in {200, 400, 415}
    <3>1. CASE wanted = "none"
      BY <2>4, <3>1 DEF ExtractArgs
    <3>2. CASE wanted = "query"
      BY <2>4, <3>2 DEF ExtractArgs
    <3>3. CASE wanted = "json"
      BY <2>2, <3>3 DEF ExtractArgs
    <3>4. CASE wanted = "url"
      BY <2>2, <3>4 DEF ExtractArgs
    <3>5. CASE wanted = "body"
      BY <2>3, <3>5 DEF ExtractArgs
    <3>6. CASE wanted = "any"
      <4>1. a = QueryArgs(b) \/ a = AnyBody(b)
        BY <3>6 DEF ExtractArgs
      <4>2. QED
        BY <2>3, <2>4, <4>1
    <3>7. QED
      BY <2>1, <3>1, <3>2, <3>3, <3>4, <3>5, <3>6 DEF ArgTypes
  <2>6. QED
    BY <1>1, <2>5
<1>2. QED
  BY <1>1, ParseCases

-----------------------------------------------------------------------------
\* What is written to the socket.

LEMMA ItemKinds ==
  /\ Body \in Items /\ Body.kind = "body" /\ Cut \in Items /\ Cut.kind = "cut"
  /\ \A h \in HeadItems : h \in Items /\ h.kind = "head"
  BY DEF Items, HeadItems, Body, Cut

LEMMA HeadOfResponse ==
  ASSUME NEW r \in Responses
  PROVE  /\ HeadOf(r) \in HeadItems
         /\ HeadOf(r).status = r.status /\ HeadOf(r).cookie = r.cookie
  BY DEF HeadOf, HeadItems, Responses

LEMMA ResponseChanged ==
  ASSUME NEW r \in Responses
  PROVE  /\ LET c == [r EXCEPT !.cookie = TRUE]
            IN  c \in Responses /\ c.status = r.status /\ c.cookie = TRUE
         /\ \A s \in Statuses : LET c == [r EXCEPT !.status = s]
                                IN  c \in Responses /\ c.status = s /\ c.cookie = r.cookie
  BY DEF Responses

\* One more item, and two more.
LEMMA OneWritten ==
  ASSUME NEW S, NEW w \in Seq(S), NEW x \in S
  PROVE  /\ w \o <<x>> = Append(w, x) /\ Append(w, x) \in Seq(S)
         /\ Len(Append(w, x)) = Len(w) + 1 /\ Len(w) \in Nat
         /\ Append(w, x)[Len(w) + 1] = x
         /\ \A i \in 1..Len(w) : Append(w, x)[i] = w[i]
         /\ \A i \in 1..Len(Append(w, x)) : i = Len(w) + 1 \/ i \in 1..Len(w)
<1>1. w \o <<x>> = Append(w, x) /\ Append(w, x) \in Seq(S)
  OBVIOUS
<1>2. /\ Len(Append(w, x)) = Len(w) + 1 /\ Len(w) \in Nat
      /\ Append(w, x)[Len(w) + 1] = x
      /\ \A i \in 1..Len(w) : Append(w, x)[i] = w[i]
  OBVIOUS
<1>3. \A i \in 1..Len(Append(w, x)) : i = Len(w) + 1 \/ i \in 1..Len(w)
  BY <1>2
<1>4. QED
  BY <1>1, <1>2, <1>3

LEMMA TwoWritten ==
  ASSUME NEW S, NEW w \in Seq(S), NEW x \in S, NEW y \in S
  PROVE  w \o <<x, y>> = Append(Append(w, x), y)
  OBVIOUS

\* The last head of a sequence that grows by a head, or by something else; and what
\* there is of a sequence that ends in a part.
LEMMA HeadWritten ==
  ASSUME NEW w \in Seq(Items), NEW h \in HeadItems
  PROVE  LastIs(Append(w, h), h.status)
<1>1. h \in Items /\ h.kind = "head"
  BY ItemKinds
<1> DEFINE n == Append(w, h)
<1>2. /\ Len(n) = Len(w) + 1 /\ Len(w) \in Nat /\ n[Len(w) + 1] = h
      /\ \A i \in 1..Len(n) : i = Len(w) + 1 \/ i \in 1..Len(w)
  BY <1>1, OneWritten
<1> HIDE DEF n
<1>3. LastIs(n, h.status)
  BY <1>1, <1>2 DEF LastIs
<1>4. QED
  BY <1>3 DEF n

LEMMA RestWritten ==
  ASSUME NEW w \in Seq(Items), NEW s, LastIs(w, s), NEW x \in {Body, Cut}
  PROVE  LastIs(Append(w, x), s)
<1> DEFINE n == Append(w, x)
<1>1. x \in Items /\ x.kind # "head"
  BY ItemKinds
<1>2. /\ Len(n) = Len(w) + 1 /\ Len(w) \in Nat /\ n[Len(w) + 1] = x
      /\ \A i \in 1..Len(w) : n[i] = w[i]
      /\ \A i \in 1..Len(n) : i = Len(w) + 1 \/ i \in 1..Len(w)
  BY <1>1, OneWritten
<1> HIDE DEF n
<1>3. LastIs(n, s)
  BY <1>1, <1>2 DEF LastIs
<1>4. QED
  BY <1>3 DEF n

LEMMA CutWritten ==
  ASSUME NEW w \in Seq(Items)
  PROVE  LET n == Append(w, Cut)
         IN  /\ n # <<>> /\ n[Len(n)] = Cut
             /\ w = <<>> => \A i \in 1..Len(n) : n[i].kind # "head"
<1> DEFINE n == Append(w, Cut)
<1>1. /\ Len(n) = Len(w) + 1 /\ Len(w) \in Nat /\ n[Len(w) + 1] = Cut
      /\ \A i \in 1..Len(n) : i = Len(w) + 1 \/ i \in 1..Len(w)
      /\ Cut.kind # "head"
  BY ItemKinds, OneWritten
<1> HIDE DEF n, Cut
<1>2. n # <<>> /\ n[Len(n)] = Cut
  BY <1>1
<1>3. w = <<>> => \A i \in 1..Len(n) : n[i].kind # "head"
  BY <1>1
<1>4. QED
  BY <1>2, <1>3 DEF n

\* What holds of every item goes on to hold.
LEMMA FitsWritten ==
  ASSUME NEW w \in Seq(Items), NEW x \in Items,
         \A i \in 1..Len(w) : HeadFits(w[i]), HeadFits(x)
  PROVE  \A i \in 1..Len(Append(w, x)) : HeadFits(Append(w, x)[i])
<1> DEFINE n == Append(w, x)
<1>1. /\ Len(n) = Len(w) + 1 /\ n[Len(w) + 1] = x
      /\ \A i \in 1..Len(w) : n[i] = w[i]
      /\ \A i \in 1..Len(n) : i = Len(w) + 1 \/ i \in 1..Len(w)
  BY OneWritten
<1> HIDE DEF n
<1>2. \A i \in 1..Len(n) : HeadFits(n[i])
  BY <1>1
<1>3. QED
  BY <1>2 DEF n

LEMMA HeadsKept ==
  ASSUME HeadsFit, UNCHANGED <<cred, route, refused, wire>>,
         child' = child \/ child' # "none"
  PROVE  HeadsFit'
  BY DEF HeadsFit, HeadFits, Entitled, CookieAllowed

LEMMA HeadsGrown ==
  ASSUME SessionTypes, HeadsFit, NEW x \in Items, HeadFits(x),
         UNCHANGED <<cred, route, refused, child>>, wire' = Append(wire, x)
  PROVE  HeadsFit' /\ wire' \in Seq(Items)
<1>1. wire \in Seq(Items)
  BY DEF SessionTypes
<1>2. \A i \in 1..Len(wire') : HeadFits(wire'[i])
  BY <1>1, FitsWritten DEF HeadsFit
<1>3. HeadsFit'
  BY <1>2 DEF HeadsFit, HeadFits, Entitled, CookieAllowed
<1>4. QED
  BY <1>1, <1>3, OneWritten

LEMMA HeadsGrownTwice ==
  ASSUME SessionTypes, HeadsFit, NEW x \in Items, HeadFits(x), NEW y \in Items, HeadFits(y),
         UNCHANGED <<cred, route, refused, child>>, wire' = wire \o <<x, y>>
  PROVE  HeadsFit' /\ wire' \in Seq(Items)
<1> DEFINE n == Append(wire, x)
<1>1. wire \in Seq(Items)
  BY DEF SessionTypes
<1>2. \A i \in 1..Len(n) : HeadFits(n[i])
  BY <1>1, FitsWritten DEF HeadsFit
<1>n. n \in Seq(Items)
  BY <1>1, OneWritten
<1>3. wire' = Append(n, y)
  BY <1>1, TwoWritten
<1> HIDE DEF n
<1>4. \A i \in 1..Len(wire') : HeadFits(wire'[i])
  BY <1>2, <1>n, <1>3, FitsWritten
<1>5. HeadsFit'
  BY <1>4 DEF HeadsFit, HeadFits, Entitled, CookieAllowed
<1>6. Append(n, y) \in Seq(Items)
  BY <1>n, OneWritten
<1>7. QED
  BY <1>3, <1>5, <1>6, Zenon

LEMMA BodyAndCutFit == HeadFits(Body) /\ HeadFits(Cut)
  BY ItemKinds DEF HeadFits

-----------------------------------------------------------------------------
\* The steps.

LEMMA SessionStarts == Init => SessionInv
<1> SUFFICES ASSUME Init PROVE SessionInv
  OBVIOUS
<1>1. SessionTypes
  <2>1. Fresh \in Responses
    BY DEF Fresh, Responses, Statuses, NoSpace, Unparsed
  <2>2. <<>> \in Seq(Chunks) /\ <<>> \in Seq(Items)
    OBVIOUS
  <2>3. QED
    BY <2>1, <2>2 DEF Init, SessionTypes, Stages
<1>2. RequestInv
  BY DEF Init, RequestInv, Checked, Handled
<1>3. ServedInv
  BY DEF Init, ServedInv, HeadsFit, Handled, Failed, Done
<1>4. LogInv
  BY DEF Init, LogInv, StageTells, Done
<1>5. QED
  BY <1>1, <1>2, <1>3, <1>4 DEF SessionInv

LEMMA ThrowSets ==
  ASSUME NEW s \in Statuses, Throw(s)
  PROVE  /\ pc' = "error" /\ response' \in Responses
         /\ response'.status = s /\ response'.cookie = FALSE
  BY DEF Throw, ErrorResponse, Responses

\* An exception, wherever the session is before its handler has returned.
LEMMA Thrown ==
  ASSUME SessionInv, Unread \/ Checked \/ Handled, route # NoRoute,
         NEW s \in 400..599, Throw(s),
         UNCHANGED <<limiter, cred, buffer, route, args, refused, sock, log>>,
         wire' = wire \/ wire' = Append(wire, Cut),
         output' \in Seq(Chunks),
         child' = child \/ (Handled /\ child' = "running")
  PROVE  SessionInv'
<1>1. /\ pc' = "error" /\ response' \in Responses
      /\ response'.status = s /\ response'.cookie = FALSE
  BY DEF Throw, ErrorResponse, Responses, Statuses, NoSpace, Unparsed
<1>2. HeadsFit' /\ wire' \in Seq(Items)
  <2>1. HeadsFit /\ wire \in Seq(Items)
    BY DEF SessionInv, ServedInv, SessionTypes
  <2>2. CASE wire' = wire
    BY <2>1, <2>2, HeadsKept
  <2>3. CASE wire' = Append(wire, Cut) /\ child' = child
    BY <2>1, <2>3, HeadsGrown, BodyAndCutFit, ItemKinds DEF SessionInv
  <2>4. CASE wire' = Append(wire, Cut) /\ child' # child
    <3>1. wire' \in Seq(Items) /\ \A i \in 1..Len(wire') : HeadFits(wire'[i])
      BY <2>1, <2>4, FitsWritten, OneWritten, BodyAndCutFit, ItemKinds DEF HeadsFit
    <3>2. QED
      BY <2>4, <3>1 DEF HeadsFit, HeadFits, Entitled, CookieAllowed
  <2>5. QED
    BY <2>2, <2>3, <2>4
<1>3. SessionTypes'
  BY <1>1, <1>2 DEF SessionInv, SessionTypes, Stages
<1>4. RequestInv'
  BY <1>1 DEF SessionInv, RequestInv, Unread, Checked, Handled, Failed, Done
<1>5. ~refused
  BY DEF SessionInv, ServedInv, Entitled
<1>6. child' # "none" => Entitled'
  BY DEF SessionInv, ServedInv, Entitled
<1>7. ServedInv'
  BY <1>1, <1>2, <1>5, <1>6 DEF ServedInv, Unread, Checked, Handled, Failed, Done
<1>8. LogInv'
  BY <1>1 DEF SessionInv, LogInv, StageTells, Unread, Checked, Handled, Done
<1>9. QED
  BY <1>3, <1>4, <1>7, <1>8 DEF SessionInv

LEMMA HandshakeStep == SessionInv /\ Handshake => SessionInv'
<1> SUFFICES ASSUME SessionInv, Handshake PROVE SessionInv'
  OBVIOUS
<1>1. /\ pc = "handshake" /\ UNCHANGED <<request, response, script, refused, wire, log>>
      /\ \/ pc' \in {"global", "read"} /\ (pc' = "global" => limiter = "ip") /\ sock' = sock
         \/ pc' = "dropped" /\ sock' = "closed"
  BY DEF Handshake, StageAfterHandshake
<1>2. SessionTypes'
  BY <1>1 DEF SessionInv, SessionTypes, Stages, request, script
<1>3. RequestInv'
  BY <1>1 DEF SessionInv, RequestInv, Unread, Checked, Handled, Failed, Done, request
<1>4. HeadsFit'
  BY <1>1, HeadsKept DEF SessionInv, ServedInv, request, script
<1>5. ServedInv'
  BY <1>1, <1>4 DEF SessionInv, ServedInv, Unread, Checked, Handled, Failed, Done, request, script
<1>6. LogInv'
  BY <1>1 DEF SessionInv, LogInv, StageTells, Done
<1>7. QED
  BY <1>2, <1>3, <1>5, <1>6 DEF SessionInv

\* A limiter before the handler: the 429, and everything it may do.
LEMMA Limited ==
  ASSUME SessionInv, Unread \/ Checked, Throw(429), refused' = TRUE,
         UNCHANGED <<request, script, wire, ending>>
  PROVE  SessionInv'
<1>1. /\ pc' = "error" /\ response' \in Responses
      /\ response'.status = 429 /\ response'.cookie = FALSE
  BY DEF Throw, ErrorResponse, Responses, Statuses, NoSpace, Unparsed
<1>2. wire = <<>> /\ wire' = wire /\ child' = "none"
  BY DEF SessionInv, ServedInv, script
<1>3. HeadsFit'
  BY <1>2 DEF HeadsFit
<1>4. SessionTypes'
  BY <1>1 DEF SessionInv, SessionTypes, Stages, request, script
<1>5. RequestInv'
  BY <1>1 DEF SessionInv, RequestInv, Unread, Checked, Handled, Failed, Done, request
<1>6. ServedInv'
  BY <1>1, <1>2, <1>3 DEF ServedInv, Unread, Checked, Handled, Failed
<1>7. LogInv'
  BY <1>1 DEF SessionInv, LogInv, StageTells, Unread, Checked, Done, ending
<1>8. QED
  BY <1>4, <1>5, <1>6, <1>7 DEF SessionInv

\* On to the next check.
LEMMA Passed ==
  ASSUME SessionInv, pc' \in {"read", "route", "auth"}, Unread \/ Checked,
         pc' = "read" => Unread, pc' # "read" => Checked,
         UNCHANGED <<request, response, script, refused, wire, ending>>
  PROVE  SessionInv'
<1>1. HeadsFit'
  BY HeadsKept DEF SessionInv, ServedInv, request, script
<1>2. SessionTypes'
  BY DEF SessionInv, SessionTypes, Stages, request, script
<1>3. RequestInv'
  BY DEF SessionInv, RequestInv, Unread, Checked, Handled, Failed, Done, request
<1>4. ServedInv'
  BY <1>1 DEF SessionInv, ServedInv, Unread, Checked, Handled, Failed, Done, request, script
<1>5. LogInv'
  BY DEF SessionInv, LogInv, StageTells, Unread, Checked, Done, ending
<1>6. QED
  BY <1>2, <1>3, <1>4, <1>5 DEF SessionInv

LEMMA NoKey ==
  ASSUME SessionInv, Checked, Throw(400),
         UNCHANGED <<refused, request, script, wire, ending>>
  PROVE  SessionInv'
<1>1. route # NoRoute /\ output \in Seq(Chunks)
  BY DEF SessionInv, RequestInv, SessionTypes
<1> DEFINE s == 400
<1>2. s \in 400..599
  OBVIOUS
<1>3. Throw(s)
  OBVIOUS
<1> HIDE DEF s
<1>4. QED
  BY <1>1, <1>2, <1>3, Thrown DEF request, script, ending

LEMMA GlobalLimitStep == SessionInv /\ GlobalLimit => SessionInv'
<1> SUFFICES ASSUME SessionInv, GlobalLimit PROVE SessionInv'
  OBVIOUS
<1>1. pc = "global" /\ UNCHANGED <<request, script, wire, ending>> /\ (Unread \/ Checked)
  BY DEF GlobalLimit, Unread, Checked
<1>2. CASE Continue(StageAfterGlobal) /\ UNCHANGED refused
  <2>1. /\ pc' \in {"read", "route"} /\ UNCHANGED response
        /\ pc' = "read" => Unread
        /\ pc' # "read" => Checked
    BY <1>1, <1>2 DEF Continue, StageAfterGlobal, Unread, Checked
  <2>2. QED
    BY <1>1, <1>2, <2>1, Passed
<1>3. CASE Throw(429) /\ refused' = TRUE
  BY <1>1, <1>3, Limited
<1>4. CASE limiter = "parsed" /\ Throw(400) /\ UNCHANGED refused
  BY <1>1, <1>4, NoKey DEF Checked
<1>5. QED
  BY <1>2, <1>3, <1>4 DEF GlobalLimit, Limiter

LEMMA RouteLimitStep == SessionInv /\ RouteLimit => SessionInv'
<1> SUFFICES ASSUME SessionInv, RouteLimit PROVE SessionInv'
  OBVIOUS
<1>1. pc = "route" /\ UNCHANGED <<request, script, wire, ending>> /\ Checked
  BY DEF RouteLimit, Checked
<1>2. CASE Continue("auth") /\ UNCHANGED refused
  BY <1>1, <1>2, Passed DEF Continue
<1>3. CASE Throw(429) /\ refused' = TRUE
  BY <1>1, <1>3, Limited
<1>4. CASE Throw(400) /\ UNCHANGED refused
  BY <1>1, <1>4, NoKey
<1>5. QED
  BY <1>2, <1>3, <1>4 DEF RouteLimit, Limiter

LEMMA ParserStep == SessionInv /\ Parser => SessionInv'
<1> SUFFICES ASSUME SessionInv, Parser PROVE SessionInv'
  OBVIOUS
<1>1. /\ pc = "read" /\ UNCHANGED <<limiter, cred, script, refused, wire, ending>>
      /\ buffer = NoBuffer /\ route = NoRoute /\ args = <<>>
      /\ wire = <<>> /\ child = "none" /\ response = Fresh /\ ~refused
      /\ log = <<>> /\ sock = "open"
  BY DEF Parser, SessionInv, RequestInv, ServedInv, LogInv, Unread
<1>2. HeadsFit'
  BY <1>1 DEF HeadsFit
<1>3. Fresh.status = 200 /\ Fresh.cookie = FALSE
  BY DEF Fresh
<1>4. ASSUME pc' = "error", response'.status >= 400, response'.cookie = FALSE
      PROVE  ServedInv' /\ LogInv'
  <2>1. ServedInv'
    BY <1>1, <1>2, <1>4 DEF ServedInv, Unread, Checked, Handled, Failed, script
  <2>2. LogInv'
    BY <1>1, <1>4 DEF LogInv, StageTells, Done, ending
  <2>3. QED
    BY <2>1, <2>2
<1>5. CASE \E s \in {499, 500} : Throw(s) /\ UNCHANGED <<buffer, route, args>>
  <2>1. PICK s \in {499, 500} : Throw(s) /\ UNCHANGED <<buffer, route, args>>
    BY <1>5
  <2>r. /\ pc' = "error" /\ response' \in Responses
        /\ response'.status = s /\ response'.cookie = FALSE
    BY <2>1 DEF Throw, ErrorResponse, Responses, Statuses, NoSpace, Unparsed
  <2>s. response'.status >= 400
    BY <2>1, <2>r
  <2>2. pc' = "error" /\ response' \in Responses /\ ServedInv' /\ LogInv'
    BY <1>4, <2>r, <2>s, Zenon
  <2>3. SessionTypes'
    BY <1>1, <2>1, <2>2 DEF SessionInv, SessionTypes, Stages, script
  <2>4. RequestInv'
    BY <1>1, <2>1, <2>2 DEF RequestInv, Unread, Checked, Handled
  <2>5. QED
    BY <2>2, <2>3, <2>4 DEF SessionInv
<1>6. ASSUME NEW b \in Buffers, buffer' = b,
             IF Parse(b).status = 200
             THEN /\ route' = RouteOf(b) /\ args' = Parse(b).value
                  /\ Continue(StageAfterParser)
             ELSE Throw(Parse(b).status) /\ UNCHANGED <<route, args>>
      PROVE  SessionInv'
  <2>1. b # NoBuffer
    BY SessionAssumption DEF NoBuffer, Forms
  <2>2. CASE Parse(b).status = 200
    <3>1. /\ route' = RouteOf(b) /\ args' = Parse(b).value /\ UNCHANGED response
          /\ pc' = "route" \/ (pc' = "global" /\ limiter # "ip")
      BY <1>6, <2>2 DEF Continue, StageAfterParser
    <3>2. MethodFound(b.endpoint, b.method)
      BY <2>2, ParseCases
    <3>3. route' # NoRoute
      BY <3>1, <3>2, RouteChosen, RouteFacts
    <3>4. SessionTypes'
      BY <1>1, <1>6, <3>1 DEF SessionInv, SessionTypes, Stages, script
    <3>5. RequestInv'
      BY <1>1, <1>6, <2>1, <2>2, <3>1, <3>3 DEF RequestInv, Unread
    <3>6. ServedInv'
      BY <1>1, <1>2, <3>1 DEF ServedInv, Handled, Failed, script
    <3>7. LogInv'
      BY <1>1, <3>1 DEF LogInv, StageTells, Done, ending
    <3>8. QED
      BY <3>4, <3>5, <3>6, <3>7 DEF SessionInv
  <2>3. CASE Parse(b).status # 200
    <3> DEFINE s == Parse(b).status
    <3>1. s \in {400, 404, 405, 415} /\ Throw(s) /\ UNCHANGED <<route, args>>
      BY <1>6, <2>3, ParseStatus
    <3>2. /\ pc' = "error" /\ response' \in Responses /\ response'.status = Parse(b).status
          /\ ServedInv' /\ LogInv'
      <4> HIDE DEF s
      <4>1. /\ pc' = "error" /\ response' \in Responses
            /\ response'.status = s /\ response'.cookie = FALSE
        BY <3>1 DEF Throw, ErrorResponse, Responses, Statuses, NoSpace, Unparsed
      <4>2. response'.status >= 400
        BY <3>1, <4>1
      <4>3. ServedInv' /\ LogInv'
        BY <1>4, <4>1, <4>2, Zenon
      <4>4. QED
        BY <4>1, <4>3 DEF s
    <3>3. SessionTypes'
      BY <1>1, <1>6, <3>2 DEF SessionInv, SessionTypes, Stages, script
    <3>4. RequestInv'
      BY <1>1, <1>6, <2>1, <2>3, <3>1, <3>2 DEF RequestInv, Unread, Checked, Handled, Failed
    <3>5. QED
      BY <3>2, <3>3, <3>4 DEF SessionInv
  <2>4. QED
    BY <2>2, <2>3
<1>7. QED
  BY <1>5, <1>6 DEF Parser

LEMMA AuthenticateStep == SessionInv /\ Authenticate => SessionInv'
<1> SUFFICES ASSUME SessionInv, Authenticate PROVE SessionInv'
  OBVIOUS
<1>1. /\ pc = "auth" /\ UNCHANGED <<request, script, refused, wire, ending>>
      /\ Checked /\ route # NoRoute /\ output \in Seq(Chunks)
      /\ wire = <<>> /\ child = "none" /\ response = Fresh /\ ~refused
  BY DEF Authenticate, SessionInv, RequestInv, ServedInv, SessionTypes, Checked
<1>2. CASE ~Valid
  <2> DEFINE s == 401
  <2>1. s \in 400..599 /\ Throw(s)
    BY <1>2 DEF Authenticate
  <2> HIDE DEF s
  <2>2. QED
    BY <1>1, <2>1, Thrown DEF request, script, ending
<1>3. CASE Valid
  <2>1. IsSuccess(response.status)
    BY <1>1 DEF Fresh, IsSuccess
  <2>2. pc' = "handler" /\ response' = WithCookie(Fresh)
    BY <1>1, <1>3, <2>1 DEF Authenticate
  <2>3. /\ response' \in Responses /\ response'.status = 200
        /\ response'.cookie => route.authenticator
    <3>1. CASE route.authenticator
      <4>1. response' = [Fresh EXCEPT !.cookie = TRUE]
        BY <2>2, <3>1 DEF WithCookie
      <4>2. Fresh \in Responses /\ Fresh.status = 200
        BY DEF Fresh, Responses, Statuses, NoSpace, Unparsed
      <4>3. QED
        BY <3>1, <4>1, <4>2, ResponseChanged
    <3>2. CASE ~route.authenticator
      <4>1. response' = Fresh
        BY <2>2, <3>2 DEF WithCookie
      <4>2. QED
        BY <4>1 DEF Fresh, Responses, Statuses, NoSpace, Unparsed
    <3>3. QED
      BY <3>1, <3>2
  <2>4. Entitled'
    BY <1>1, <1>3 DEF Valid, Entitled, request
  <2>5. SessionTypes'
    BY <1>1, <2>2, <2>3 DEF SessionInv, SessionTypes, Stages, request, script
  <2>6. RequestInv'
    BY <1>1, <2>2 DEF SessionInv, RequestInv, Unread, Checked, Handled, request
  <2>7. HeadsFit'
    BY <1>1 DEF HeadsFit
  <2>8. ServedInv'
    BY <1>1, <2>2, <2>3, <2>4, <2>7 DEF ServedInv, Unread, Checked, Handled, Failed, request, script
  <2>9. LogInv'
    BY <1>1, <2>2 DEF SessionInv, LogInv, StageTells, Checked, Done, ending
  <2>10. QED
    BY <2>5, <2>6, <2>8, <2>9 DEF SessionInv
<1>4. QED
  BY <1>2, <1>3

\* The head a handler begins its answer with.
LEMMA HeadFitsEntitled ==
  ASSUME SessionInv, Handled, NEW r \in Responses, r.cookie => response.cookie,
         route.script /\ route.method # "OPTIONS" => child # "none"
  PROVE  HeadOf(r) \in Items /\ HeadFits(HeadOf(r))
<1>1. HeadOf(r) \in Items /\ HeadOf(r).cookie = r.cookie
  BY HeadOfResponse, ItemKinds
<1>2. Entitled /\ (response.cookie => route.authenticator)
  BY DEF SessionInv, ServedInv
<1>3. ~refused /\ (r.cookie => CookieAllowed)
  BY <1>2 DEF Entitled, CookieAllowed
<1>4. HeadFits(HeadOf(r))
  BY <1>1, <1>2, <1>3 DEF HeadFits
<1>5. QED
  BY <1>1, <1>4

\* The head of a refusal.
LEMMA HeadFitsFailed ==
  ASSUME SessionInv, Failed
  PROVE  HeadOf(response) \in Items /\ HeadFits(HeadOf(response))
<1>1. response \in Responses /\ response.status >= 400 /\ ~response.cookie
      /\ (refused => response.status = 429)
  BY DEF SessionInv, SessionTypes, ServedInv
<1>2. /\ HeadOf(response) \in Items /\ HeadOf(response).status = response.status
      /\ HeadOf(response).cookie = response.cookie
  BY <1>1, HeadOfResponse, ItemKinds
<1>3. ~IsSuccess(HeadOf(response).status)
  BY <1>1, <1>2 DEF IsSuccess, Responses, Statuses, NoSpace, Unparsed
<1>4. HeadFits(HeadOf(response))
  BY <1>1, <1>2, <1>3 DEF HeadFits
<1>5. QED
  BY <1>2, <1>4

\* A handler that throws, whatever it has written or started.
LEMMA HandlerThrows ==
  ASSUME SessionInv, Handled, \E s \in 400..599 : Throw(s),
         UNCHANGED <<request, refused, ending>>,
         wire' = wire \/ wire' = Append(wire, Cut),
         output' \in Seq(Chunks),
         child' = child \/ child' = "running"
  PROVE  SessionInv'
<1>1. route # NoRoute
  BY DEF SessionInv, RequestInv
<1>2. PICK s \in 400..599 : Throw(s)
  OBVIOUS
<1>3. UNCHANGED <<limiter, cred, buffer, route, args, refused, sock, log>>
  BY DEF request, ending
<1>4. child' = child \/ (Handled /\ child' = "running")
  OBVIOUS
<1>5. /\ SessionInv /\ (Unread \/ Checked \/ Handled)
      /\ wire' = wire \/ wire' = Append(wire, Cut)
      /\ output' \in Seq(Chunks)
  OBVIOUS
<1>6. QED
  BY ONLY <1>1, <1>2, <1>3, <1>4, <1>5, Thrown

LEMMA WriteBreaks ==
  ASSUME SessionInv, Handled, WriteFails, output' \in Seq(Chunks), child' = child,
         UNCHANGED <<request, refused, ending>>
  PROVE  SessionInv'
<1>1. PICK s \in WriteErrors : Throw(s)
  BY DEF WriteFails
<1>2. s \in 400..599 /\ wire' = Append(wire, Cut)
  BY SessionAssumption DEF WriteFails
<1>3. QED
  BY <1>1, <1>2, HandlerThrows

\* A handler goes on, to its next stage or to the end, having written something.
LEMMA HandlerGoesOn ==
  ASSUME SessionInv, Handled, UNCHANGED <<request, refused, ending>>,
         pc' \in {"file", "script", "log"}, pc' = "file" => ~route.script,
         pc' = "script" => child' # "none",
         child' \in {"none", "running", "reaped"}, child' = child \/ child' # "none",
         output' \in Seq(Chunks),
         response' \in Responses, response'.cookie = response.cookie,
         wire' \in Seq(Items), HeadsFit', StageTells'
  PROVE  SessionInv'
<1>1. SessionTypes'
  BY DEF SessionInv, SessionTypes, Stages, request
<1>2. RequestInv'
  BY DEF SessionInv, RequestInv, Unread, Checked, Handled, Done, request
<1>3. Entitled' /\ ~refused' /\ (response.cookie => route.authenticator)
  BY DEF SessionInv, ServedInv, Entitled, request
<1>4. ServedInv'
  BY <1>3 DEF ServedInv, Unread, Checked, Handled, Failed, request
<1>5. LogInv'
  BY DEF SessionInv, LogInv, Handled, Done, ending
<1>6. QED
  BY <1>1, <1>2, <1>4, <1>5 DEF SessionInv

\* What the log may say after a head, after a head and all or a part of its body,
\* after more of a body, and after a part of an answer.
LEMMA LastTells ==
  ASSUME LastIs(wire', response'.status)
  PROVE  StageTells'
  BY DEF StageTells

LEMMA TellsAfterHead ==
  ASSUME SessionTypes, response' \in Responses, wire' = wire \o <<HeadOf(response')>>
  PROVE  StageTells'
<1> DEFINE h == HeadOf(response')
<1>1. h \in HeadItems /\ h.status = response'.status
  BY HeadOfResponse
<1>2. wire \in Seq(Items) /\ h \in Items
  BY <1>1, ItemKinds DEF SessionTypes
<1> HIDE DEF h
<1>3. wire' = Append(wire, h)
  BY <1>2, OneWritten DEF h
<1>4. LastIs(wire', response'.status)
  BY <1>1, <1>2, <1>3, HeadWritten
<1>5. QED
  BY <1>4, LastTells

LEMMA TellsAfterBody ==
  ASSUME SessionTypes, response' \in Responses, NEW x \in {Body, Cut},
         wire' = wire \o <<HeadOf(response'), x>>
  PROVE  StageTells'
<1> DEFINE h == HeadOf(response')
           n == Append(wire, h)
<1>1. h \in HeadItems /\ h.status = response'.status
  BY HeadOfResponse
<1>2. wire \in Seq(Items) /\ h \in Items
  BY <1>1, ItemKinds DEF SessionTypes
<1> HIDE DEF h
<1>3. n \in Seq(Items) /\ LastIs(n, response'.status)
  BY <1>1, <1>2, OneWritten, HeadWritten
<1>4. wire' = Append(n, x)
  BY <1>2, TwoWritten, ItemKinds DEF h
<1> HIDE DEF n
<1>5. LastIs(wire', response'.status)
  BY <1>3, <1>4, RestWritten
<1>6. QED
  BY <1>5, LastTells

LEMMA TellsAfterMore ==
  ASSUME SessionTypes, LastIs(wire, response.status), UNCHANGED response,
         NEW x \in {Body, Cut}, wire' = Append(wire, x)
  PROVE  StageTells'
<1>1. LastIs(wire', response'.status)
  BY RestWritten DEF SessionTypes
<1>2. QED
  BY <1>1, LastTells

LEMMA TellsAfterCut ==
  ASSUME SessionTypes, wire' = Append(wire, Cut), pc' = "log",
         \/ response'.status >= 400
         \/ wire = <<>> /\ route' # NoRoute /\ route'.method = "OPTIONS"
  PROVE  StageTells'
<1>1. /\ wire' # <<>> /\ wire'[Len(wire')] = Cut
      /\ wire = <<>> => \A i \in 1..Len(wire') : wire'[i].kind # "head"
  BY CutWritten DEF SessionTypes
<1>2. EndsCut(response.status)'
  BY <1>1 DEF EndsCut, Heads
<1>3. QED
  BY <1>2 DEF StageTells

LEMMA RefuseRouteStep == SessionInv /\ RefuseRoute => SessionInv'
<1> SUFFICES ASSUME SessionInv, RefuseRoute PROVE SessionInv'
  OBVIOUS
<1>1. Handled /\ Throw(503) /\ UNCHANGED <<request, script, refused, wire, ending>>
  BY DEF RefuseRoute, Unserved, Handles, Handled
<1>2. output' \in Seq(Chunks)
  BY <1>1 DEF SessionInv, SessionTypes, script
<1>3. \E s \in 400..599 : Throw(s)
  BY <1>1
<1>4. QED
  BY <1>1, <1>2, <1>3, HandlerThrows DEF script

\* What GetFile and HeadFile share.
LEMMA HeadSent ==
  ASSUME SessionInv, Handled, ~route.script,
         response' = [response EXCEPT !.status = 200], Wrote(<<HeadOf(response')>>),
         pc' \in {"file", "log"}, UNCHANGED <<request, script, refused, ending>>
  PROVE  SessionInv'
<1>1. response \in Responses /\ 200 \in Statuses
  BY DEF SessionInv, SessionTypes, Statuses, NoSpace, Unparsed
<1>2. response' \in Responses /\ response'.cookie = response.cookie
  <2>1. LET r == [response EXCEPT !.status = 200]
        IN  r \in Responses /\ r.cookie = response.cookie
    BY ONLY <1>1, ResponseChanged, ZenonT(30)
  <2>2. response' = [response EXCEPT !.status = 200]
    OBVIOUS
  <2>3. QED
    BY ONLY <2>1, <2>2
<1> DEFINE h == HeadOf(response')
<1>3. h \in Items /\ HeadFits(h)
  BY <1>2, HeadFitsEntitled
<1>4. StageTells'
  BY <1>2, TellsAfterHead DEF SessionInv, Wrote
<1> HIDE DEF h
<1>5. wire' = Append(wire, h)
  BY <1>3, OneWritten DEF SessionInv, SessionTypes, Wrote, h
<1>6. HeadsFit' /\ wire' \in Seq(Items)
  BY <1>3, <1>5, HeadsGrown DEF SessionInv, ServedInv, request, script
<1>7. output' \in Seq(Chunks) /\ child' = child /\ child \in {"none", "running", "reaped"}
  BY DEF SessionInv, SessionTypes, script
<1>8. QED
  BY <1>2, <1>4, <1>6, <1>7, HandlerGoesOn

LEMMA GetFileStep == SessionInv /\ GetFile => SessionInv'
<1> SUFFICES ASSUME SessionInv, GetFile PROVE SessionInv'
  OBVIOUS
<1>1. Handled /\ ~route.script /\ UNCHANGED <<request, script, refused, ending>>
  BY DEF GetFile, Handles, Handled
<1>2. output' \in Seq(Chunks) /\ child' = child
  BY <1>1 DEF SessionInv, SessionTypes, script
<1>3. CASE Throw(403) /\ UNCHANGED wire
  <2>1. \E s \in 400..599 : Throw(s)
    BY <1>3
  <2>2. QED
    BY <1>1, <1>2, <1>3, <2>1, HandlerThrows
<1>4. CASE /\ response' = [response EXCEPT !.status = 200]
           /\ Wrote(<<HeadOf(response')>>) /\ pc' = "file"
  BY <1>1, <1>4, HeadSent
<1>5. CASE WriteFails
  BY <1>1, <1>2, <1>5, WriteBreaks
<1>6. QED
  BY <1>3, <1>4, <1>5 DEF GetFile

LEMMA HeadFileStep == SessionInv /\ HeadFile => SessionInv'
<1> SUFFICES ASSUME SessionInv, HeadFile PROVE SessionInv'
  OBVIOUS
<1>1. Handled /\ ~route.script /\ UNCHANGED <<request, script, refused, ending>>
  BY DEF HeadFile, Handles, Handled
<1>2. output' \in Seq(Chunks) /\ child' = child
  BY <1>1 DEF SessionInv, SessionTypes, script
<1>3. CASE \E s \in {403, 404} : Throw(s) /\ UNCHANGED wire
  <2>1. (\E s \in 400..599 : Throw(s)) /\ UNCHANGED wire
    BY <1>3
  <2>2. QED
    BY <1>1, <1>2, <2>1, HandlerThrows
<1>4. CASE /\ response' = [response EXCEPT !.status = 200]
           /\ Wrote(<<HeadOf(response')>>) /\ pc' = "log"
  BY <1>1, <1>4, HeadSent
<1>5. CASE WriteFails
  BY <1>1, <1>2, <1>5, WriteBreaks
<1>6. QED
  BY <1>3, <1>4, <1>5 DEF HeadFile

LEMMA SendFileStep == SessionInv /\ SendFile => SessionInv'
<1> SUFFICES ASSUME SessionInv, SendFile PROVE SessionInv'
  OBVIOUS
<1>1. pc = "file" /\ Handled /\ UNCHANGED <<request, script, refused, ending>>
  BY DEF SendFile, Handled
<1>2. output' \in Seq(Chunks) /\ child' = child /\ SessionTypes /\ HeadsFit
      /\ LastIs(wire, response.status)
  BY <1>1 DEF SessionInv, SessionTypes, ServedInv, LogInv, StageTells, script
<1>3. CASE (Throw(404) \/ Throw(500)) /\ (UNCHANGED wire \/ Wrote(<<Cut>>))
  <2>1. \E s \in 400..599 : Throw(s)
    BY <1>3
  <2>2. wire' = wire \/ wire' = Append(wire, Cut)
    BY <1>2, <1>3, OneWritten, ItemKinds DEF Wrote, SessionTypes
  <2>3. QED
    BY <1>1, <1>2, <2>1, <2>2, HandlerThrows
<1>4. CASE WriteFails
  BY <1>1, <1>2, <1>4, WriteBreaks
<1>5. CASE Continue("log") /\ (Wrote(<<Body>>) \/ Wrote(<<Cut>>))
  <2>1. PICK x \in {Body, Cut} : Wrote(<<x>>)
    BY <1>5
  <2>2. x \in Items /\ HeadFits(x)
    BY <2>1, ItemKinds, BodyAndCutFit
  <2>3. wire' = Append(wire, x)
    BY <1>2, <2>1, <2>2, OneWritten DEF Wrote, SessionTypes
  <2>4. HeadsFit' /\ wire' \in Seq(Items)
    BY <1>1, <1>2, <2>2, <2>3, HeadsGrown DEF request, script
  <2>5. StageTells'
    BY <1>2, <1>5, <2>1, <2>3, TellsAfterMore DEF Continue
  <2>6. /\ pc' = "log" /\ response' = response /\ response \in Responses
        /\ child \in {"none", "running", "reaped"}
    BY <1>2, <1>5 DEF Continue, SessionTypes
  <2>7. QED
    BY <1>1, <1>2, <2>4, <2>5, <2>6, HandlerGoesOn
<1>6. QED
  BY <1>3, <1>4, <1>5 DEF SendFile

LEMMA OptionsStep == SessionInv /\ Options => SessionInv'
<1> SUFFICES ASSUME SessionInv, Options PROVE SessionInv'
  OBVIOUS
<1>1. /\ Handled /\ route.method = "OPTIONS" /\ pc' = "log" /\ response' = response
      /\ UNCHANGED <<request, script, refused, ending>>
  BY DEF Options, Handles, Handled, Continue
<1>2. /\ output' \in Seq(Chunks) /\ child' = child /\ child \in {"none", "running", "reaped"}
      /\ SessionTypes /\ HeadsFit /\ response \in Responses
      /\ wire = <<>> /\ route # NoRoute
  BY <1>1 DEF SessionInv, SessionTypes, ServedInv, RequestInv, Options, Handles, script
<1>3. PICK x \in {HeadOf(response), Cut} : Wrote(<<x>>)
  BY DEF Options
<1>4. x \in Items /\ HeadFits(x)
  BY <1>1, <1>2, <1>3, HeadFitsEntitled, ItemKinds, BodyAndCutFit
<1>5. wire' = Append(wire, x)
  BY <1>2, <1>3, <1>4, OneWritten DEF Wrote, SessionTypes
<1>6. HeadsFit' /\ wire' \in Seq(Items)
  BY <1>1, <1>2, <1>4, <1>5, HeadsGrown DEF request, script
<1>7. StageTells'
  <2>1. CASE x = HeadOf(response')
    BY <1>1, <1>2, <1>3, <2>1, TellsAfterHead DEF Wrote
  <2>2. CASE x = Cut
    BY <1>1, <1>2, <1>5, <2>2, TellsAfterCut DEF request
  <2>3. QED
    BY <1>1, <1>3, <2>1, <2>2
<1>8. QED
  BY <1>1, <1>2, <1>6, <1>7, HandlerGoesOn

LEMMA SpawnStep == SessionInv /\ Spawn => SessionInv'
<1> SUFFICES ASSUME SessionInv, Spawn PROVE SessionInv'
  OBVIOUS
<1>1. pc = "handler" /\ Handled /\ UNCHANGED <<request, refused, wire, ending>>
  BY DEF Spawn, RunsScript, Handled
<1>2. /\ output \in Seq(Chunks) /\ child = "none" /\ wire = <<>> /\ HeadsFit
      /\ response \in Responses /\ response.status = 200
  BY <1>1 DEF SessionInv, SessionTypes, ServedInv
<1>3. CASE Throw(500) /\ UNCHANGED output /\ (child' = child \/ child' = "running")
  <2>1. \E s \in 400..599 : Throw(s)
    BY <1>3
  <2>2. QED
    BY <1>1, <1>2, <1>3, <2>1, HandlerThrows
<1>4. CASE child' = "running" /\ run' \in ScriptRuns /\ output' = run' /\ Continue("script")
  <2>1. output' \in Seq(Chunks)
    BY <1>4, SessionAssumption
  <2>2. HeadsFit' /\ wire' \in Seq(Items)
    BY <1>1, <1>2 DEF HeadsFit
  <2>3. pc' = "script" /\ response' = response
    BY <1>4 DEF Continue
  <2>4. StageTells'
    BY <1>1, <1>2, <1>4, <2>3 DEF StageTells, Done
  <2>5. QED
    BY <1>1, <1>2, <1>4, <2>1, <2>2, <2>3, <2>4, HandlerGoesOn
<1>5. QED
  BY <1>3, <1>4 DEF Spawn, script

LEMMA ChunkStep == SessionInv /\ Chunk => SessionInv'
<1> SUFFICES ASSUME SessionInv, Chunk PROVE SessionInv'
  OBVIOUS
<1>1. /\ pc = "script" /\ Handled /\ output # <<>> /\ output' = Tail(output)
      /\ UNCHANGED <<request, child, run, refused, ending>>
  BY DEF Chunk, Handled
<1>2. /\ SessionTypes /\ output \in Seq(Chunks) /\ child # "none" /\ HeadsFit
      /\ response \in Responses /\ child \in {"none", "running", "reaped"}
  BY <1>1 DEF SessionInv, SessionTypes, ServedInv
<1>3. output' \in Seq(Chunks) /\ output[1] \in Chunks
  BY <1>1, <1>2
<1>4. CASE (Throw(502) \/ Throw(400)) /\ UNCHANGED wire
  <2>1. \E s \in 400..599 : Throw(s)
    BY <1>4
  <2>2. QED
    BY <1>1, <1>3, <1>4, <2>1, HandlerThrows
<1>5. CASE WriteFails
  BY <1>1, <1>3, <1>5, WriteBreaks
<1>6. CASE /\ ~Rejected(output[1]) /\ output[1] # Unparsed
           /\ response' = [response EXCEPT !.status = output[1]]
           /\ Wrote(<<HeadOf(response'), Body>>) /\ UNCHANGED pc
  <2>1. output[1] \in Statuses
    BY <1>3, <1>6 DEF Chunks, Rejected
  <2>2. response' \in Responses /\ response'.cookie = response.cookie
    BY <1>2, <1>6, <2>1, ResponseChanged
  <2> DEFINE h == HeadOf(response')
  <2>3. h \in Items /\ HeadFits(h)
    BY <1>1, <1>2, <2>2, HeadFitsEntitled
  <2>4. StageTells'
    BY <1>2, <1>6, <2>2, TellsAfterBody DEF Wrote
  <2>5. wire' = wire \o <<h, Body>>
    BY <1>6 DEF Wrote
  <2> HIDE DEF h
  <2>6. HeadsFit' /\ wire' \in Seq(Items)
    BY <1>1, <1>2, <2>3, <2>5, HeadsGrownTwice, ItemKinds, BodyAndCutFit DEF request
  <2>7. QED
    BY <1>1, <1>2, <1>3, <1>6, <2>2, <2>4, <2>6, HandlerGoesOn
<1>7. QED
  BY <1>4, <1>5, <1>6 DEF Chunk

LEMMA ScriptEndsStep == SessionInv /\ ScriptEnds => SessionInv'
<1> SUFFICES ASSUME SessionInv, ScriptEnds PROVE SessionInv'
  OBVIOUS
<1>1. /\ pc = "script" /\ Handled /\ output' = output /\ run' = run
      /\ UNCHANGED <<request, refused, wire, ending>>
  BY DEF ScriptEnds, Handled
<1>2. /\ output \in Seq(Chunks) /\ child # "none" /\ HeadsFit
      /\ response \in Responses /\ wire \in Seq(Items)
      /\ \/ LastIs(wire, response.status)
         \/ wire = <<>> /\ response.status = 200 /\ output = run
  BY <1>1 DEF SessionInv, SessionTypes, ServedInv, LogInv, StageTells
<1>3. CASE Throw(500) /\ UNCHANGED child
  <2>1. \E s \in 400..599 : Throw(s)
    BY <1>3
  <2>2. QED
    BY <1>1, <1>2, <1>3, <2>1, HandlerThrows
<1>4. CASE output = <<>> /\ child' = "reaped" /\ Continue("log")
  <2>1. pc' = "log" /\ response' = response
    BY <1>4 DEF Continue
  <2>2. HeadsFit'
    BY <1>1, <1>2, <1>4, HeadsKept DEF request
  <2>3. StageTells'
    <3>1. CASE LastIs(wire, response.status)
      BY <1>1, <2>1, <3>1, LastTells
    <3>2. CASE wire = <<>> /\ response.status = 200 /\ output = run
      <4>1. Silent(response.status)'
        BY <1>1, <1>4, <2>1, <3>2 DEF Silent
      <4>2. QED
        BY <2>1, <4>1 DEF StageTells
    <3>3. QED
      BY <1>2, <3>1, <3>2
  <2>4. QED
    BY <1>1, <1>2, <1>4, <2>1, <2>2, <2>3, HandlerGoesOn
<1>5. QED
  BY <1>3, <1>4 DEF ScriptEnds

\* An error page was sent, whole or in part.
LEMMA PageSent ==
  ASSUME SessionInv, Failed, pc' \in {"log", "default"},
         UNCHANGED <<request, response, script, refused, ending>>,
         wire' \in Seq(Items), HeadsFit', pc' = "log" => StageTells'
  PROVE  SessionInv'
<1>1. SessionTypes'
  BY DEF SessionInv, SessionTypes, Stages, request, script
<1>2. RequestInv'
  BY DEF SessionInv, RequestInv, Unread, Checked, Handled, Failed, Done, request
<1>3. child # "none" => Entitled'
  BY DEF SessionInv, ServedInv, Entitled, request
<1>4. ServedInv'
  BY <1>3 DEF SessionInv, ServedInv, Unread, Checked, Handled, Failed, Done, request, script
<1>t. StageTells'
  BY DEF StageTells, Done
<1>5. LogInv'
  BY <1>t DEF SessionInv, LogInv, Failed, Done, ending
<1>6. QED
  BY <1>1, <1>2, <1>4, <1>5 DEF SessionInv

LEMMA CustomPageStep == SessionInv /\ CustomPage => SessionInv'
<1> SUFFICES ASSUME SessionInv, CustomPage PROVE SessionInv'
  OBVIOUS
<1>1. Failed /\ UNCHANGED <<request, response, script, refused, ending>>
  BY DEF CustomPage, Failed
<1>2. SessionTypes /\ HeadsFit /\ wire \in Seq(Items) /\ response \in Responses
  BY DEF SessionInv, SessionTypes, ServedInv
<1> DEFINE h == HeadOf(response)
<1>3. h \in Items /\ HeadFits(h) /\ {Body, Cut} \subseteq Items /\ HeadFits(Body) /\ HeadFits(Cut)
  BY <1>1, HeadFitsFailed, ItemKinds, BodyAndCutFit
<1>4. CASE wire' = wire \o <<h, Body>> /\ pc' = "log"
  <2>1. StageTells'
    BY <1>1, <1>2, <1>4, TellsAfterBody
  <2> HIDE DEF h
  <2>2. HeadsFit' /\ wire' \in Seq(Items)
    BY <1>1, <1>2, <1>3, <1>4, HeadsGrownTwice DEF request, script
  <2>3. QED
    BY <1>1, <1>4, <2>1, <2>2, PageSent
<1> HIDE DEF h
<1>5. CASE pc' = "default" /\ wire' = wire \o <<>>
  <2>1. wire' = wire
    BY <1>2, <1>5
  <2>2. HeadsFit'
    BY <1>1, <1>2, <2>1, HeadsKept DEF request, script
  <2>3. QED
    BY <1>1, <1>2, <1>5, <2>1, <2>2, PageSent
<1>6. CASE pc' = "default" /\ wire' = wire \o <<Cut>>
  <2>1. wire' = Append(wire, Cut)
    BY <1>2, <1>3, <1>6, OneWritten
  <2>2. HeadsFit' /\ wire' \in Seq(Items)
    BY <1>1, <1>2, <1>3, <2>1, HeadsGrown DEF request, script
  <2>3. QED
    BY <1>1, <1>6, <2>2, PageSent
<1>7. CASE pc' \in {"log", "default"} /\ wire' = wire \o <<h, Cut>>
  <2>1. HeadsFit' /\ wire' \in Seq(Items)
    BY <1>1, <1>2, <1>3, <1>7, HeadsGrownTwice DEF request, script
  <2>2. StageTells'
    BY <1>1, <1>2, <1>7, TellsAfterBody DEF h
  <2>3. QED
    BY <1>1, <1>7, <2>1, <2>2, PageSent
<1>8. QED
  BY <1>4, <1>5, <1>6, <1>7 DEF CustomPage, Wrote, PageFails, h

LEMMA DefaultPageStep == SessionInv /\ DefaultPage => SessionInv'
<1> SUFFICES ASSUME SessionInv, DefaultPage PROVE SessionInv'
  OBVIOUS
<1>1. Failed /\ pc' = "log" /\ UNCHANGED <<request, response, script, refused, ending>>
  BY DEF DefaultPage, Failed
<1>2. SessionTypes /\ HeadsFit /\ wire \in Seq(Items) /\ response \in Responses
  BY DEF SessionInv, SessionTypes, ServedInv
<1>3. PICK x \in {HeadOf(response), Cut} : wire' = wire \o <<x>>
  BY DEF DefaultPage, Wrote
<1>4. x \in Items /\ HeadFits(x)
  BY <1>1, <1>3, HeadFitsFailed, ItemKinds, BodyAndCutFit
<1>5. wire' = Append(wire, x)
  BY <1>2, <1>3, <1>4, OneWritten
<1>6. HeadsFit' /\ wire' \in Seq(Items)
  BY <1>1, <1>2, <1>4, <1>5, HeadsGrown DEF request, script
<1>7. StageTells'
  <2>1. CASE x = HeadOf(response')
    BY <1>1, <1>2, <1>3, <2>1, TellsAfterHead
  <2>2. CASE x = Cut
    <3>1. response'.status >= 400
      BY <1>1 DEF SessionInv, ServedInv
    <3>2. QED
      BY <1>1, <1>2, <1>5, <2>2, <3>1, TellsAfterCut
  <2>3. QED
    BY <1>1, <1>3, <2>1, <2>2
<1>8. QED
  BY <1>1, <1>6, <1>7, PageSent

LEMMA LogStep == SessionInv /\ (LogSession \/ Close) => SessionInv'
<1> SUFFICES ASSUME SessionInv, LogSession \/ Close PROVE SessionInv'
  OBVIOUS
<1>1. /\ UNCHANGED <<request, response, script, refused, wire>> /\ Done
      /\ \/ pc = "log" /\ pc' = "close" /\ sock' = sock /\ log' = Append(log, response.status)
         \/ pc = "close" /\ pc' = "end" /\ sock' = "closed" /\ log' = log
  BY DEF LogSession, Close, Logged, Done
<1>2. SessionTypes'
  BY <1>1 DEF SessionInv, SessionTypes, Stages, request, script
<1>3. RequestInv'
  BY <1>1 DEF SessionInv, RequestInv, Unread, Checked, Handled, Failed, Done, request
<1>4. HeadsFit'
  BY <1>1, HeadsKept DEF SessionInv, ServedInv, request, script
<1>5. child # "none" => Entitled'
  BY <1>1 DEF SessionInv, ServedInv, Entitled, request
<1>6. ServedInv'
  BY <1>1, <1>4, <1>5 DEF SessionInv, ServedInv, Unread, Checked, Handled, Failed, Done, request, script
<1>7. LogInv'
  <2>1. StageTells'
    BY <1>1 DEF SessionInv, LogInv, StageTells, Done, EndsCut, Silent, Heads, request, script
  <2>2. log' = <<response'.status>>
    BY <1>1 DEF SessionInv, LogInv
  <2>3. sock' \in {"open", "closed"} /\ (sock' = "closed" <=> pc' \in {"end", "dropped"})
    BY <1>1 DEF SessionInv, LogInv
  <2>4. QED
    BY <1>1, <2>1, <2>2, <2>3 DEF LogInv
<1>8. QED
  BY <1>2, <1>3, <1>6, <1>7 DEF SessionInv

LEMMA NothingHappens == SessionInv /\ UNCHANGED vars => SessionInv'
<1> SUFFICES ASSUME SessionInv, UNCHANGED vars PROVE SessionInv'
  OBVIOUS
<1>1. SessionTypes'
  BY DEF SessionInv, SessionTypes, vars
<1>2. RequestInv'
  BY DEF SessionInv, RequestInv, Unread, Checked, Handled, Failed, Done, vars
<1>3. ServedInv'
  BY HeadsKept DEF SessionInv, ServedInv, Unread, Checked, Handled, Failed, Done, Entitled, vars
<1>4. LogInv'
  BY DEF SessionInv, LogInv, StageTells, Done, EndsCut, Silent, Heads, vars
<1>5. QED
  BY <1>1, <1>2, <1>3, <1>4 DEF SessionInv

LEMMA SessionInvKept == SessionInv /\ [Next]_vars => SessionInv'
  BY HandshakeStep, GlobalLimitStep, ParserStep, RouteLimitStep, AuthenticateStep,
     RefuseRouteStep, GetFileStep, SendFileStep, HeadFileStep, OptionsStep, SpawnStep,
     ChunkStep, ScriptEndsStep, CustomPageStep, DefaultPageStep, LogStep, NothingHappens
     DEF Next, Step, Ended

LEMMA SessionInvHolds == Spec => []SessionInv
  BY SessionStarts, SessionInvKept, PTL DEF Spec

-----------------------------------------------------------------------------
\* What the invariant says of the properties.

LEMMA RouteKnown ==
  ASSUME SessionInv, route # NoRoute
  PROVE  /\ buffer \in Buffers /\ Parse(buffer).status = 200
         /\ route = RouteOf(buffer) /\ args = Parse(buffer).value
         /\ MethodFound(buffer.endpoint, buffer.method)
         /\ route \in EndpointRoutes(buffer.endpoint)
<1>1. /\ buffer \in Buffers /\ Parse(buffer).status = 200
      /\ route = RouteOf(buffer) /\ args = Parse(buffer).value
  BY DEF SessionInv, SessionTypes, RequestInv
<1>2. MethodFound(buffer.endpoint, buffer.method)
  BY <1>1, ParseAccepted
<1>3. QED
  BY <1>1, <1>2, RouteChosen

LEMMA TypesFollow == SessionInv => TypeOK
<1> SUFFICES ASSUME SessionInv PROVE TypeOK
  OBVIOUS
<1>1. SessionTypes
  BY DEF SessionInv
<1>2. route = NoRoute \/ route \in EndpointRoutes(buffer.endpoint)
  BY RouteKnown
<1>3. Len(args) <= 1
  <2>1. CASE route = NoRoute
    <3>1. args = <<>>
      BY <2>1 DEF SessionInv, RequestInv
    <3>2. QED
      BY <3>1
  <2>2. CASE route # NoRoute
    <3> DEFINE v == Parse(buffer).value
    <3>a. buffer \in Buffers /\ Parse(buffer).status = 200 /\ args = v
      BY <2>2, RouteKnown
    <3>b. v = <<>> \/ \E x : v = <<x>>
      BY <3>a, ParseAccepted
    <3> HIDE DEF v
    <3>1. args = <<>> \/ \E x : args = <<x>>
      BY <3>a, <3>b
    <3>2. CASE args = <<>>
      BY <3>2
    <3>3. ASSUME NEW x, args = <<x>> PROVE Len(args) <= 1
      BY <3>3
    <3>4. QED
      BY <3>1, <3>2, <3>3
  <2>3. QED
    BY <2>1, <2>2
<1>4. \A i \in 1..Len(wire) : wire[i].kind \in {"head", "body", "cut"}
  <2>1. ASSUME NEW x \in Items PROVE x.kind \in {"head", "body", "cut"}
    BY ItemKinds, <2>1 DEF Items
  <2>2. wire \in Seq(Items)
    BY <1>1 DEF SessionTypes
  <2>3. QED
    BY <2>1, <2>2
<1>5. log \in Seq(Nat) /\ sock \in {"open", "closed"}
  <2>s. response.status \in Statuses
    BY <1>1 DEF SessionTypes, Responses
  <2>1. response.status \in Nat
    BY <2>s DEF Statuses, NoSpace, Unparsed
  <2>2. QED
    BY <2>1 DEF SessionInv, LogInv
<1>6. QED
  BY <1>1, <1>2, <1>3, <1>4, <1>5 DEF TypeOK, SessionTypes, Responses

LEMMA EntitlementFollows == SessionInv => NobodyUnentitled
<1> SUFFICES ASSUME SessionInv PROVE NobodyUnentitled
  OBVIOUS
<1>1. \A i \in Heads : HeadFits(wire[i]) /\ wire[i].kind = "head"
  BY DEF SessionInv, ServedInv, HeadsFit, Heads
<1>2. Served => Entitled
  BY <1>1 DEF SessionInv, ServedInv, Served, HeadFits
<1>3. ProtectedOnly
  BY <1>2 DEF ProtectedOnly, Entitled
<1>4. RefusedIsUnserved
  <2>1. refused => response.status = 429
    BY DEF SessionInv, ServedInv
  <2>2. QED
    BY <1>1, <1>2, <2>1 DEF RefusedIsUnserved, Entitled, HeadFits
<1>5. QED
  BY <1>3, <1>4 DEF NobodyUnentitled

LEMMA PromiseFollows == SessionInv => ParsedAsPromised
<1> SUFFICES ASSUME SessionInv PROVE ParsedAsPromised
  OBVIOUS
<1>1. AcceptedAsPromised
  BY RouteKnown, ParseAccepted DEF AcceptedAsPromised, QueryMissing, NoQuery
<1>2. RefusedWithReason
  <2> SUFFICES ASSUME buffer # NoBuffer, route = NoRoute PROVE RefusedWithReason
    BY DEF RefusedWithReason
  <2>1. /\ buffer \in Buffers /\ Parse(buffer).status # 200
        /\ response.status = Parse(buffer).status
    BY DEF SessionInv, SessionTypes, RequestInv
  <2>2. \/ response.status = 404 /\ ~EndpointFound(buffer.endpoint)
        \/ /\ response.status = 405 /\ EndpointFound(buffer.endpoint)
           /\ ~MethodFound(buffer.endpoint, buffer.method)
        \/ response.status = 415 /\ FaultOfType(RouteOf(buffer).args)
        \/ response.status = 400 /\ FaultOfBody(RouteOf(buffer).args)
    BY <2>1, ParseRefused
  <2>3. QED
    BY <2>2 DEF RefusedWithReason, FaultOfType, FaultOfBody
<1>3. QED
  BY <1>1, <1>2 DEF ParsedAsPromised

LEMMA OutcomeFollows == SessionInv => LoggedOutcome
<1> SUFFICES ASSUME SessionInv PROVE LoggedOutcome
  OBVIOUS
<1>1. log = IF pc \in {"close", "end"} THEN <<response.status>> ELSE <<>>
  BY DEF SessionInv, LogInv
<1>2. pc = "end" => Len(log) = 1
  BY <1>1
<1>3. sock = "closed" => pc \in {"end", "dropped"}
  BY DEF SessionInv, LogInv
<1>t. ASSUME log # <<>>
      PROVE  /\ log[1] = response.status
             /\ LastIs(wire, response.status) \/ EndsCut(log[1]) \/ Silent(log[1])
  BY <1>1, <1>t DEF SessionInv, LogInv, StageTells, Done
<1>4. ASSUME log # <<>>, LastIs(wire, response.status)
      PROVE  Heads # {} /\ LastHead.status = log[1]
  <2>1. log[1] = response.status
    BY <1>4, <1>t
  <2>3. PICK i \in Heads : wire[i].status = response.status /\ \A j \in Heads : j <= i
    BY <1>4 DEF LastIs, Heads
  <2> DEFINE k == CHOOSE n \in Heads : \A j \in Heads : j <= n
  <2>4. k \in Heads /\ \A j \in Heads : j <= k
    BY <2>3
  <2>5. Heads \subseteq Int
    BY DEF Heads
  <2> HIDE DEF k
  <2>6. k = i
    BY <2>3, <2>4, <2>5
  <2>7. wire[k].status = log[1]
    BY <2>1, <2>3, <2>6
  <2>8. QED
    BY <2>3, <2>7 DEF LastHead, k
<1>5. QED
  BY <1>2, <1>3, <1>t, <1>4 DEF LoggedOutcome

LEMMA CookieFollows == SessionInv => CookieOnlyByAuthenticator
<1> SUFFICES ASSUME SessionInv PROVE CookieOnlyByAuthenticator
  OBVIOUS
<1>1. \A i \in Heads : wire[i].cookie => CookieAllowed
  BY DEF SessionInv, ServedInv, HeadsFit, HeadFits, Heads
<1>2. pc \in {"error", "default"} => ~response.cookie
  BY DEF SessionInv, ServedInv, Failed
<1>3. QED
  BY <1>1, <1>2 DEF CookieOnlyByAuthenticator, CookieAllowed

\* Every reachable state of a session is well typed: the route is one the buffer's
\* endpoint has, at most one argument is passed on, and the log holds statuses.
THEOREM TypeCorrect == Spec => []TypeOK
  BY SessionInvHolds, TypesFollow, PTL

\* Whatever the configuration, the request, the script and the failures: a handler
\* acts for nobody who lacks the role of a protected route (README.md:167) or whom
\* some limiter of the pipeline refused, and the latter is told 429 alone.
THEOREM NobodyIsServedUnentitled == Spec => []NobodyUnentitled
  BY SessionInvHolds, EntitlementFollows, PTL

\* A request the parser accepts was whole and its script gets the arguments its
\* route promises (README.md:176-185), but that a missing query, which README.md:177
\* says is refused, is accepted as no arguments; one it refuses is answered to the
\* end for a fault it has, whichever of the parser's checks came first.
THEOREM RequestsAreParsedAsPromised == Spec => []ParsedAsPromised
  BY SessionInvHolds, PromiseFollows, PTL

\* Each session past the handshake is logged once, before its socket closes, with
\* the status of the last head its client was sent, whatever failed before that head
\* and whatever of the body after it; only where the last answer itself was cut
\* short, or a script answered nothing, may the wire say something else.
THEOREM OutcomeIsLogged == Spec => []LoggedOutcome
  BY SessionInvHolds, OutcomeFollows, PTL

\* The login cookie leaves only through an authenticator route the client passed,
\* never with an error page.
THEOREM CookieIsGuarded == Spec => []CookieOnlyByAuthenticator
  BY SessionInvHolds, CookieFollows, PTL
=============================================================================
