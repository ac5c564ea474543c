CONSTANTS
  Logins = {s1}
  Requests = {r1, r2, r3}
  MaxTokens = 3

SPECIFICATION FairSpec
INVARIANTS CodeIsExchangedOnce NoRefreshTokenReplay StoredTokenWorks SignOutRevokesLatest
PROPERTIES RequestsEnd
CHECK_DEADLOCK FALSE
