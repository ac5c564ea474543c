CONSTANTS
  NoDoc = NoDoc
  NoBody = NoBody
  b1 = b1
  b2 = b2
  x = x
  y = y
  w1 = w1
  m1 = m1
  Docs = {d1}
  Bodies = {b1, b2}
  Chunks = {x, y}
  Models = {m1}
  Content <- MCContent
  Workers = {w1}
  ModelOf <- MCModelOf
  Retirers = {r1}
  Writers = {i1, i2}
  MaxVersion = 2
  FirstBody <- MCFirstBody
  MaxChanges = 2
  MayFail = TRUE
  MayCrash = FALSE

SPECIFICATION FairPageSpec
INVARIANTS UnchangedIsServed
PROPERTIES PagesAreServed
CHECK_DEADLOCK FALSE
