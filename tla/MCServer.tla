------------------------------- MODULE MCServer -------------------------------
(***************************************************************************)
(* TLC instances of Server: documents that vary one part of the file       *)
(* through everything it may say while the rest is plain, and the servers  *)
(* of two documents run with their sessions.                               *)
(***************************************************************************)
EXTENDS Server

\* Roles and routes; "owner" may be defined by a Role element or only be named.
MCNames == {"viewer", "user", "admin", "owner"}

MCIncludes == {<<>>, <<"*">>, <<"user">>, <<"owner">>, <<"admin">>,
               <<"owner", "*">>, <<"*", "admin">>, <<"user", "owner">>}

MCRoleElements == [title : {"user", "admin", "owner", ""}, includes : MCIncludes]

MCRouteElements ==
  [endpoint : {"", "/a"}, method : {"GET", "NOT_ALLOWED"}, protected : {"", "true", "True"},
   access_role : {"", "owner"}]

UpTo2(S) == {<<>>} \cup {<<a>> : a \in S} \cup {<<a, b>> : a \in S, b \in S}

\* The global limiter.  An int has 2^24 values here: 120 days and 140000 minutes
\* wrap to a negative number of seconds, 4194304 minutes to none at all.
NoKey == [type |-> "absent", name |-> "", fallback |-> "absent"]
NoTime == [form |-> "none", n |-> 0, unit |-> "", slash |-> FALSE]

MCKeyElems ==
  [type : {"absent", "ip", "header", "xff", "query", "other"}, name : {"", "x-api-key", "X-Api-Key"},
   fallback : {"absent", "ip", "error", "other"}]

MCNumbers == {<<>>, <<-1>>, <<5>>}
MCTimes ==
  [form : {"number"}, n : {0, 1, 59, 60, 90, 120}, slash : BOOLEAN,
   unit : {"", "s", "m", "M", "h", "d", "other"}]
  \cup [form : {"none", "huge"}, n : {0}, slash : BOOLEAN, unit : {"", "m"}]
  \cup [form : {"number"}, n : {140000, 4194304}, slash : {TRUE}, unit : {"", "m", "M"}]

MCBase ==
  [disable |-> FALSE, algorithm |-> "absent", max_requests |-> <<>>, window |-> NoTime,
   capacity |-> <<>>, refill_rate |-> NoTime, key |-> NoKey]

MCRates ==
  {[MCBase EXCEPT !.algorithm = a, !.max_requests = n, !.window = t] :
     a \in {"absent", "fixed", "other"}, n \in MCNumbers, t \in MCTimes}
  \cup {[MCBase EXCEPT !.algorithm = "bucket", !.capacity = n, !.refill_rate = t] :
     n \in MCNumbers, t \in MCTimes}
  \cup {[MCBase EXCEPT !.algorithm = a, !.key = k] :
     a \in {"absent", "bucket", "other"}, k \in MCKeyElems}
  \cup {[MCBase EXCEPT !.disable = TRUE]}

NoRate == [has_rate |-> FALSE, rate |-> MCBase]
MCConfigs == {NoRate} \cup [has_rate : {TRUE}, rate : MCRates]

\* The same header in two spellings.
MCParts == {"x-api-key", "X-Api-Key", "X-Forwarded-For", "query"}

MCRequests ==
  {r \in [MCParts -> {"", "v", "blank first"}] :
     \A p \in MCParts : r[p] = "blank first" => p = "X-Forwarded-For"}

\* Documents.
Page(code, file) == [code |-> code, file |-> file]

Guarded == [endpoint |-> "/a", method |-> "GET", protected |-> "true", access_role |-> "owner"]

Plain ==
  [opens |-> TRUE, host |-> "given", logs |-> TRUE, resolves |-> TRUE, binds |-> TRUE,
   jwt |-> [file |-> "absent", text |-> "given", generate |-> "absent"],
   port |-> Absent, threads |-> Absent, ssl |-> "absent",
   pages |-> <<>>, stray |-> FALSE, stray_page |-> Page(Bad, ""),
   roles |-> <<>>, routes |-> <<Guarded>>, rate |-> NoRate, public |-> {"/a", "/b"}]

WithRoles  == {[Plain EXCEPT !.roles = r] : r \in UpTo2(MCRoleElements)}
WithRoutes == {[Plain EXCEPT !.routes = r, !.roles = o] :
                 r \in UpTo2(MCRouteElements),
                 o \in {<<>>, <<[title |-> "owner", includes |-> <<"user">>]>>}}
WithRate   == {[Plain EXCEPT !.rate = r] : r \in MCConfigs}
WithPages  == {[Plain EXCEPT !.pages = p, !.stray = s, !.stray_page = q] :
                 p \in UpTo2({Page(404, "lost"), Page(500, ""), Page(Bad, "x"), Page(404, "old")}),
                 s \in BOOLEAN, q \in {Page(404, "stray"), Page(Bad, "")}}
WithJwt    == {[Plain EXCEPT !.jwt = j, !.opens = o, !.host = h, !.logs = l] :
                 j \in [file : {"absent", "unreadable", "good"}, text : {"absent", "empty", "given"},
                        generate : {"absent", "off", "on", "bad"}],
                 o \in BOOLEAN, h \in {"absent", "empty", "given"}, l \in BOOLEAN}
WithNumbers == {[Plain EXCEPT !.port = p, !.threads = t, !.ssl = s, !.resolves = r, !.binds = b] :
                 p \in {Absent, Bad, 0, 80, 8080, 65616}, t \in {Absent, Bad, 0, 1, 2, 3, 6},
                 s \in {"absent", "incomplete", "blank", "unusable", "usable"},
                 r \in BOOLEAN, b \in BOOLEAN}

\* "/a" is configured and a public file too, "/b" only a file, "/c" is neither.
MCAsked  == {"/a", "/b", "/c"}
MCServed == {[Plain EXCEPT !.threads = t] : t \in {2, 3}}

MCDocuments == WithRoles \cup WithRoutes \cup WithRate \cup WithPages \cup WithJwt
                 \cup WithNumbers \cup MCServed
=============================================================================
