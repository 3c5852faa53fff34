\* Two runs, one after the other or at once; a directory "old" from before.
SPECIFICATION CliSpec
CONSTANTS
  Process = {p1, p2}
  Nobody = Nobody
  Text <- MCText
  Line <- MCLine
  Parsed <- MCParsed
  ProjectName = {"svc", "api", "old"}
  GoodBits = {"2048"}
  GoodCurve = {"P-256"}
  PathOf <- MCPathOf
  Present <- MCPresent
INVARIANTS ExitCodeTells ParseMeetsReference
PROPERTIES UnforcedKeepsWhatItFound
SYMMETRY Symmetry
CHECK_DEADLOCK FALSE
