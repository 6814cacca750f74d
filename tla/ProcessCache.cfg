SPECIFICATION Spec
CONSTANTS
  Pid = {p, q}
  Exes = {sh, curl}
  TTL = 2
  Nothing = Nothing
  MaxTime = 3
INVARIANT
  AnswerIsFresh
