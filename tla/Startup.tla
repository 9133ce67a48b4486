------------------------------- MODULE Startup -------------------------------
(***************************************************************************)
(* From main to the first accept: Config::initialize reads one section of  *)
(* the file after another (src/src/config.cpp), roles and routes as in     *)
(* AccessConfig and the global limiter as in RateConfig, then main makes a *)
(* Server and starts its threads (src/src/main.cpp, Server.cpp).           *)
(*                                                                         *)
(* It can end in four ways besides serving: a FATAL exits, an exception    *)
(* that initialize lets out terminates, one that main catches returns, and *)
(* a loop over error pages may never end.                                  *)
(***************************************************************************)
EXTENDS AccessConfig, RateConfig

CONSTANTS Documents, \* configuration files, with what the system answers to them
          Hardware   \* hardware_concurrency(), 0 when it cannot tell

\* In place of a number, which is never negative here.
Absent == -1  \* no such element
Bad    == -2  \* its text is no number

ASSUME StartupAssumption ==
  /\ Hardware \in Nat
  /\ \A d \in Documents :
       /\ d.roles \in Seq(RoleElements) /\ d.routes \in Seq(RouteElements)
       /\ Len(d.roles) <= MaxRoles /\ Len(d.routes) <= MaxRoutes
       /\ d.rate \in Configs
       /\ d.pages \in Seq([code : Nat \cup {Bad}, file : STRING])
       /\ {d.port, d.threads} \subseteq Nat \cup {Absent, Bad}
       /\ d.jwt.file \in {"absent", "unreadable", "good"}
       /\ d.jwt.text \in {"absent", "empty", "given"}
       /\ d.jwt.generate \in {"absent", "off", "on", "bad"}
       /\ d.ssl \in {"absent", "incomplete", "blank", "unusable", "usable"}

VARIABLES doc,     \* the file, fixed
          at,      \* the section that is loaded next, or how it ended
          secret,  \* where the JWT secret comes from, "" when there is none
          port,
          threads, \* thread_count
          cursor,  \* error_pg: "first", "stray" or "none"
          pages,   \* Router::error_pages: file by status
          ssl,     \* ssl.active
          io,      \* threads that run the io_context
          listens  \* the port of the acceptor

settings    == <<secret, port, threads, cursor, pages, ssl, io, listens>>
startupVars == <<doc, at, settings, accessVars, rateVars>>

Final == {"serving", "exited", "terminated", "returned"}

StartupInit ==
  /\ doc \in Documents
  /\ at = "open"
  /\ secret = "" /\ port = 0 /\ threads = 0 /\ ssl = FALSE /\ io = 0 /\ listens = 0
  /\ cursor = "first"
  /\ pages = <<>>
  /\ AccessInit
  /\ config = doc.rate /\ RateInit

Sections == UNCHANGED <<doc, accessVars, rateVars>>

-----------------------------------------------------------------------------
\* The document, its ServerConfig and WebDirectory, and chdir; then the Host,
\* whose missing text is assigned to a string, and the log directory, which
\* create_directories makes or throws.
Open ==
  /\ at = "open"
  /\ at' = IF ~doc.opens THEN "exited"
           ELSE IF doc.host = "empty" \/ ~doc.logs THEN "terminated" ELSE "secret"
  /\ UNCHANGED settings /\ Sections

\* loadJWTSecret: the first of three elements decides alone; a length that is no
\* number throws.
SecretOf(jwt) ==
  IF jwt.file # "absent" THEN IF jwt.file = "good" THEN "file" ELSE "exit"
  ELSE IF jwt.text # "absent" THEN IF jwt.text = "given" THEN "text" ELSE "exit"
  ELSE CASE jwt.generate = "bad" -> "throw"
         [] jwt.generate = "on"  -> "generated"
         [] OTHER                -> ""

LoadJWTSecret ==
  /\ at = "secret"
  /\ at' = CASE SecretOf(doc.jwt) = "exit"  -> "exited"
             [] SecretOf(doc.jwt) = "throw" -> "terminated"
             [] OTHER                       -> "port"
  /\ secret' = SecretOf(doc.jwt)
  /\ UNCHANGED <<port, threads, cursor, pages, ssl, io, listens>> /\ Sections

LoadPort ==
  /\ at = "port"
  /\ at' = IF doc.port = Bad THEN "terminated" ELSE "threads"
  /\ port' = IF doc.port = Absent THEN 80 ELSE doc.port
  /\ UNCHANGED <<secret, threads, cursor, pages, ssl, io, listens>> /\ Sections

Fallback == 4

\* loadThreads
ThreadsOf(n) ==
  CASE n = Absent     -> IF Hardware = 0 THEN Fallback ELSE Hardware
    [] n \in {Bad, 0} -> Fallback
    [] OTHER          -> n

LoadThreads ==
  /\ at = "threads"
  /\ threads' = ThreadsOf(doc.threads)
  /\ at' = "pages"
  /\ UNCHANGED <<secret, port, cursor, pages, ssl, io, listens>> /\ Sections

\* Slip: the loop stays at its element.
NextPageSame == cursor

\* loadErrorPages goes on with the siblings of <ErrorPages>, not of the page: a
\* stray <ErrorPage> there is its own successor.
NextPage == IF doc.stray THEN "stray" ELSE "none"

\* One turn of the loop; a page without a known code or a file is skipped.
LoadErrorPage ==
  /\ at = "pages" /\ doc.pages # <<>> /\ cursor # "none"
  /\ LET page == IF cursor = "first" THEN doc.pages[1] ELSE doc.stray_page
     IN  pages' = IF page.code = Bad \/ page.file = "" THEN pages
                  ELSE Put(pages, page.code, page.file)
  /\ cursor' = NextPage
  /\ UNCHANGED <<at, secret, port, threads, ssl, io, listens>> /\ Sections

ErrorPagesLoaded ==
  /\ at = "pages" /\ (doc.pages = <<>> \/ cursor = "none")
  /\ at' = "roles"
  /\ UNCHANGED settings /\ Sections

\* loadRoles, one element after another; one without a title is FATAL.
LoadNextRole ==
  /\ at = "roles" /\ Len(titles) < Len(doc.roles)
  /\ LoadRole(doc.roles[Len(titles) + 1])
  /\ at' = IF phase' = "exited" THEN "exited" ELSE at
  /\ UNCHANGED <<doc, settings, rateVars>>

RolesLoaded ==
  /\ at = "roles" /\ Len(titles) = Len(doc.roles)
  /\ ExpandStars
  /\ at' = "ssl"
  /\ UNCHANGED <<doc, settings, rateVars>>

\* Slip: TLS is always served on its own port.
HttpsPortAlways(p) == 443

HttpsPort(p) == IF p = 80 THEN 443 ELSE p

\* loadSSL: the default port becomes the one of HTTPS, named or not.  Of the
\* certificate and the key the first without an element is FATAL, the first
\* without a text ("blank") throws.
LoadSSL ==
  /\ at = "ssl"
  /\ at' = CASE doc.ssl = "incomplete" -> "exited"
             [] doc.ssl = "blank"      -> "terminated"
             [] OTHER                  -> "routes"
  /\ ssl' = (doc.ssl # "absent")
  /\ port' = IF ssl' THEN HttpsPort(port) ELSE port
  /\ UNCHANGED <<secret, threads, cursor, pages, io, listens>> /\ Sections

LoadNextRoute ==
  /\ at = "routes" /\ Len(filed) < Len(doc.routes)
  /\ LoadRoute(doc.routes[Len(filed) + 1])
  /\ UNCHANGED <<doc, at, settings, rateVars>>

RoutesLoaded ==
  /\ at = "routes" /\ Len(filed) = Len(doc.routes)
  /\ Serve
  /\ at' = "address"
  /\ UNCHANGED <<doc, settings, rateVars>>

\* loadHostIP: a host name that does not resolve throws.
LoadHostIP ==
  /\ at = "address"
  /\ at' = IF doc.resolves THEN "pipeline" ELSE "terminated"
  /\ UNCHANGED settings /\ Sections

InstallPipeline ==
  /\ at = "pipeline"
  /\ LoadPipeline
  /\ at' = "launch"
  /\ UNCHANGED <<doc, settings, accessVars>>

\* Slip: the logger's thread is not counted.
ExtraThreadsAll == threads - 1

\* Server::start: besides the thread of main and the logger's.
ExtraThreads == threads - 2

PortNumbers == 2^16

\* The int is narrowed to an unsigned short; 0 lets the system choose a port.
AcceptorPort(p) == p % PortNumbers

\* Server's constructor binds the port and loads the certificate; the number of
\* threads is unsigned, and a vector cannot reserve 2^64 - 1.
Launch ==
  /\ at = "launch"
  /\ listens' = AcceptorPort(port)
  /\ IF ~doc.binds \/ doc.ssl = "unusable" \/ ExtraThreads < 0
     THEN at' = "returned" /\ UNCHANGED io
     ELSE at' = "serving" /\ io' = ExtraThreads + 1
  /\ UNCHANGED <<secret, port, threads, cursor, pages, ssl>> /\ Sections

Load == \/ Open \/ LoadJWTSecret \/ LoadPort \/ LoadThreads
        \/ LoadErrorPage \/ ErrorPagesLoaded \/ LoadNextRole \/ RolesLoaded
        \/ LoadSSL \/ LoadNextRoute \/ RoutesLoaded \/ LoadHostIP
        \/ InstallPipeline

-----------------------------------------------------------------------------
HasStray == doc.stray /\ doc.pages # <<>>

\* What a document has to be like for the server to come up, said of the file
\* alone and not in the order in which its sections are read.
Sound(d) ==
  /\ d.opens /\ d.host # "empty" /\ d.logs /\ d.resolves /\ d.binds
  /\ d.jwt.file # "unreadable"
  /\ d.jwt.file = "absent" => d.jwt.text # "empty"
  /\ d.jwt.file = "absent" /\ d.jwt.text = "absent" => d.jwt.generate # "bad"
  /\ d.port # Bad
  /\ d.threads # 1 /\ (d.threads = Absent => Hardware # 1)
  /\ \A i \in DOMAIN d.roles : d.roles[i].title # ""
  /\ d.ssl \in {"absent", "usable"}

\* Exactly the sound documents are served: no fault of a section is passed over,
\* and none is found where there is none, whichever section comes first.
ServesExactlySound == at \in Final => (at = "serving" <=> Sound(doc))

\* The error pages of the file are its first one, if that has a known code and a
\* file: the loop never comes to the others (config.cpp:572).
FirstPage ==
  IF doc.pages = <<>> THEN {}
  ELSE {page \in {doc.pages[1]} : page.code # Bad /\ page.file # ""}

PagesAsRead ==
  /\ DOMAIN pages = {page.code : page \in FirstPage}
  /\ \A page \in FirstPage : pages[page.code] = page.file

\* A server that runs has the settings of its file: it listens on the port the
\* file names, if there is one of that number (65616 is 80 to the acceptor,
\* Server.cpp:12), it has as many threads as the file names (the logger's among
\* them) and the secret the file prefers, and of its error pages the first.
SettingsAsWritten ==
  at = "serving" =>
    /\ doc.port \in 1..(PortNumbers - 1) /\ ~(doc.port = 80 /\ ssl) => listens = doc.port
    /\ doc.port = Absent => listens = (IF doc.ssl = "absent" THEN 80 ELSE 443)
    /\ doc.threads > 0 => io + 1 = doc.threads
    /\ doc.jwt.file = "good" => secret = "file"
    /\ doc.jwt.file = "absent" /\ doc.jwt.text = "given" => secret = "text"
    /\ PagesAsRead

\* Loading a file comes to an end: but for one with an <ErrorPage> beside its
\* <ErrorPages> (config.cpp:572).
StartupEnds == <>(at \in Final) \/ HasStray
=============================================================================
