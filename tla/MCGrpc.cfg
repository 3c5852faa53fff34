\* Two concurrent calls, hanging handlers, broken connections and both shutdowns.
SPECIFICATION FairSpec
CONSTANTS
  Call = {c1, c2}
  Method = {m}
  None = None
  ServerChain <- MCServerChain
  ServiceChain <- MCServiceChain
INVARIANTS AnswersAreTrue CallsAreLogged CodesArrive
PROPERTIES DeadlinesBound
CHECK_DEADLOCK FALSE
