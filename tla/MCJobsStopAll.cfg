\* The default instance leaves the registry and is used again.
SPECIFICATION Spec
CONSTANTS
  Instance = {dflt}
  Default = dflt
  Id = {a}
  Control = {c1, c2}
  Cron = {}
  None = None
  MaxAbandoned = 1
INVARIANT StopAllReachesEveryInstance
