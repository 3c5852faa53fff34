\* Two loggers; values one step deeper than the sanitizer goes.
SPECIFICATION Spec
CONSTANTS
  LoggerId = {l1, l2}
  Name = {pass}
  Key = {password, user}
  Matching <- MCMatching
  MaxDepth = 3
  MaxSteps = 3
  Sanitizer <- MCSanitizer
  BaseAttrs <- MCBaseAttrs
  CallAttrs <- MCCallAttrs
  None = None
  password = password
  user = user
INVARIANTS SecretsHidden NothingElseLost
CHECK_DEADLOCK FALSE
