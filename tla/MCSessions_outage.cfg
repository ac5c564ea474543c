CONSTANTS
  Logins = {s1}
  Requests = {r1, r2}
  MaxTokens = 2

SPECIFICATION Spec
INVARIANTS OutageIsNotAnEmptyWiki
CHECK_DEADLOCK FALSE
