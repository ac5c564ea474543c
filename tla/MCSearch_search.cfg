CONSTANTS
  d1 = d1
  d2 = d2
  c1 = c1
  q1 = q1
  q2 = q2
  w1 = w1
  w2 = w2
  m1 = m1
  m2 = m2
  Local = Local
  Unknown = Unknown
  NoModel = NoModel
  NoOne = NoOne
  Docs = {d1, d2}
  Versions = {1, 2, 3}
  DocOf <- MCDocOf
  Size = 2
  Home <- MCHome
  Collections = {c1}
  Models = {m1, m2}
  Workers = {w1, w2}
  Requests = {q1}
  ModelOf <- MCModelOf
  Queries = {1}
  Nearer <- MCNearer
  Matching <- MCMatching
  Fitter <- MCFitter
  Scopes <- MCScopes
  TopK = 2
  Multiplier = 1
  Minimum = 3
  RrfK = 60
  MaxMoves = 1

SPECIFICATION FairSpec
INVARIANTS AnswersWereTrue SlotsAreNotWasted OneVersionPerModel FusionRespectsBothArms EmptySearchIsExplained ContextIsOfTheHit
PROPERTIES SearchesEnd
CHECK_DEADLOCK FALSE
