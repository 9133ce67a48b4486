CONSTANTS
  Names <- MCNames
  RoleElements <- MCRoleElements
  MaxRoles = 2
  RouteElements <- MCRouteElements
  MaxRoutes = 2
  Configs <- MCConfigs
  Parts <- MCParts
  Requests <- MCRequests
  INT_RANGE = 16777216
  Documents <- MCDocuments
  Hardware = 4
  Sessions = {s1, s2}
  Asked <- MCAsked
  MAX_RETRIES = 1
  Served <- MCServed
  Limited <- WithRate
SPECIFICATION Spec
INVARIANTS
  TypeOK
  GrantsAsWritten
  LimiterAsConfigured
  RoutedSoundly
  RoutesGuardedAsWritten
  
  SettingsAsWritten
  ExitJustified
 
