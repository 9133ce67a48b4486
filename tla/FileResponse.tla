----------------------------- MODULE FileResponse -----------------------------
(***************************************************************************)
(* FileStreamer as the steps of Session it stands for: the many steps of a *)
(* file's streamers are the two of a GET (handleFile of                    *)
(* src/src/GetHandler.cpp) or the one of an error page (addErrorPage of    *)
(* src/src/Router.cpp), which Session takes without looking inside.        *)
(***************************************************************************)
EXTENDS FileStreamer

PageStatus == 404  \* of the error the page is for

FileRoute == [endpoint |-> "file", method |-> "GET", args |-> "none", script |-> FALSE,
              protected |-> FALSE, authenticator |-> FALSE, limited |-> FALSE]

\* Where the session is meanwhile.
SessionStage ==
  IF stage # "over"
  THEN IF caller = "page" THEN "error" ELSE IF stage = "head" THEN "handler" ELSE "file"
  ELSE IF outcome = 200 THEN "log" ELSE IF caller = "page" THEN "default" ELSE "error"

\* The response that is being sent or, after an exception of GET, the error's.
SessionResponse ==
  [status |-> IF caller = "page" THEN PageStatus
              ELSE IF outcome = 0 THEN 200 ELSE outcome,
   cookie |-> FALSE]

SessionHead == [kind   |-> "head",
                status |-> IF caller = "page" THEN PageStatus ELSE 200,
                cookie |-> FALSE]

Whole == [kind |-> "body"]
Part  == [kind |-> "cut"]

\* What was written, in the units of Session: a page is one of its steps, so it
\* has written nothing before it is over.
SessionWire ==
  IF stage # "over"
  THEN IF caller = "page" \/ out = <<>> THEN <<>> ELSE <<SessionHead>>
  ELSE IF out = <<>>
  THEN IF outcome = 404 THEN <<>> ELSE <<Part>>
  ELSE IF outcome = 404 THEN <<SessionHead>>
  ELSE <<SessionHead, IF outcome = 200 /\ Len(out) > file_len THEN Whole ELSE Part>>

Pipeline == INSTANCE Session
  WITH Routes <- {FileRoute}, PublicFiles <- {}, JsonBodies <- {}, FormBodies <- {},
       Buffers <- {}, GlobalLimiters <- {"none"}, ErrorPages <- {PageStatus},
       ScriptRuns <- {}, WriteErrors <- Statuses \ {0, 200},
       limiter <- "none", pc <- SessionStage, cred <- "none", buffer <- [form |-> "none"],
       route <- FileRoute, args <- <<>>, response <- SessionResponse, child <- "none",
       run <- <<>>, output <- <<>>, refused <- FALSE, wire <- SessionWire,
       sock <- "open", log <- <<>>

\* However the file changes and the writes go, the streamers do what Session says
\* a handler does, and nothing else: for GET the head, then the body or an error
\* that reaches ErrorHandler; for an error page its head and body, or a failure
\* after which the default page follows (Router.cpp:150-157).
ServesAsSession ==
  [][Pipeline!GetFile \/ Pipeline!SendFile \/ Pipeline!CustomPage]_(Pipeline!vars)
=============================================================================
