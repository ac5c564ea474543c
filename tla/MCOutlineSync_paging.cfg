CONSTANTS
  Docs = {d1, d2}
  Texts = {b1, b2}
  NoText = NoText
  Bodies = {b1, b2}
  Collections = {c1}
  Scope = {}
  PageSize = 1
  Tasks = {t1}
  MaxChanges = 1
  MaxFailures = 0

SPECIFICATION Spec
PROPERTIES PruneSparesListed
