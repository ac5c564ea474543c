CONSTANTS
  NoDoc = NoDoc
  NoBody = NoBody
  b1 = b1
  b2 = b2
  x = x
  y = y
  z = z
  w1 = w1
  w2 = w2
  m1 = m1
  m2 = m2
  i1 = i1
  i2 = i2
  Docs = {d1}
  Bodies = {b1, b2}
  Chunks = {x, y, z}
  Models = {m1, m2}
  Content <- MCContent
  Workers = {w1}
  ModelOf <- MCOneWorker
  Retirers = {}
  Writers = {i1}
  MaxVersion = 1
  MayFail = TRUE
  MayCrash = FALSE

SPECIFICATION Spec
INVARIANTS PartialIndexIsHidden

