--------------------------- MODULE MCFileStreamer ---------------------------
(***************************************************************************)
(* TLC instances of WriteAll and of FileStreamer on top of it.             *)
(***************************************************************************)
EXTENDS FileResponse

\* Codes of the classes the loop treats, retried or permanent, among them those
\* error_to_status singles out.  A code of neither class is written on for as
\* long as the socket returns it.
MCClassified == {"bad_descriptor", "try_again", "timed_out", "no_buffer_space"}
=============================================================================
