CONSTANTS
  Routes <- MCRoutes
  Buffers <- MCBuffers
  PublicFiles <- MCPublicFiles
  JsonBodies <- MCJsonBodies
  FormBodies <- MCFormBodies
  GlobalLimiters <- MCEverywhere
  ErrorPages <- MCErrorPages
  ScriptRuns <- MCScriptRuns
  WriteErrors <- MCWriteErrors
SPECIFICATION Spec
INVARIANTS
  TypeOK
  NobodyUnentitled
  ParsedAsPromised
  LoggedOutcome
  CookieOnlyByAuthenticator
