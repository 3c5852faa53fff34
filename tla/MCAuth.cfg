\* Two requests through a chain of two guards or behind a broken one, while tokens are signed.
SPECIFICATION FairSpec
CONSTANTS
  Service = {api, web, broken}
  Config <- MCConfig
  Pair = {rsa}
  Claims = {user, admin}
  Validator = {known, strict}
  Accepts <- MCAccepts
  Chain <- MCChain
  Missing = Missing
  Corrupt = Corrupt
  Absent = Absent
  Malformed = Malformed
  Request = {r1, r2}
  Issuer = {i}
  MaxIssued = 2
  api = api
  web = web
  broken = broken
  rsa = rsa
  user = user
  admin = admin
  known = known
  strict = strict
PROPERTIES ImplementsGate RequestsEnd
CHECK_DEADLOCK FALSE
