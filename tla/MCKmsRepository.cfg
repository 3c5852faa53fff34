\* Two concurrent calls over an adapter of either kind; each call is made once and must end.
SPECIFICATION KmsFairSpec
CONSTANTS
  Call = {c1, c2}
  Key = {k}
  Providers = {"aws", "gcp"}
  None = None
  Injected = Injected
INVARIANTS ResolvedMeansDone ListenerIsCurrent
PROPERTIES SettledForGood LazyAdapter CallsEnd
CHECK_DEADLOCK FALSE
