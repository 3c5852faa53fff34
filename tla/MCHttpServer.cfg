\* Two requests among registrations and shutdowns; handlers and sinks may throw.
SPECIFICATION FairSpec
CONSTANTS
  Listener = {l1}
  None = None
  Path = {"GET /health", "GET /x"}
  Pattern = {"GET /health", "GET /:name"}
  Matches <- MCMatches
  Request = {r1, r2}
  Global = {"log", "headers"}
  RouteChain <- MCRouteChain
  MaxRoutes = 2
  MaxGlobal = 1
INVARIANTS HandlerIsGuarded RepliesAreComplete
PROPERTIES RegistrationIsStable ShutdownDrains
CHECK_DEADLOCK FALSE
