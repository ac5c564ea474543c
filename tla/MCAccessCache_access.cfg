CONSTANTS
  N = 2
  PageSize = 1
  Callers = {r1, r2}
  Ttl = 2
  Timeout = 1
  MaxTime = 7
  MaxChanges = 2

SPECIFICATION CacheSpec
SYMMETRY SameCallers
INVARIANTS RevokedAccessEnds SettledAccessIsExact
CHECK_DEADLOCK FALSE
