CONSTANTS
  Routes <- MCScriptRoutes
  Buffers <- MCScriptBuffers
  PublicFiles <- MCPublicFiles
  JsonBodies <- MCJsonBodies
  FormBodies <- MCFormBodies
  GlobalLimiters <- MCEverywhere
  ErrorPages <- MCErrorPages
  ScriptRuns <- MCWhole
  WriteErrors <- MCWriteErrors
SPECIFICATION Spec
INVARIANT CookieUponSuccess
