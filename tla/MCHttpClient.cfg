\* Two requests of a client with a default timeout, over servers that may never answer.
SPECIFICATION ClientFairSpec
CONSTANTS
  Call = {r1, r2}
  DefaultTimeout = 5
  Timeouts = {0, 1}
  Omitted = Omitted
INVARIANT ClientTypeOK
PROPERTY TimedRequestsEnd
