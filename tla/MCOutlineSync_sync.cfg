CONSTANTS
  Docs = {d1, d2}
  Texts = {b1, b2}
  NoText = NoText
  Bodies = {b1, b2, NoText}
  Collections = {c1, c2}
  Scope = {c1}
  PageSize = 1
  Tasks = {t1}
  MaxChanges = 2
  MaxFailures = 1

SPECIFICATION FairSpec
INVARIANTS TimeTellsBody
PROPERTIES CalmBackfillRepairs EventuallyInSync
