CONSTANTS
  x = x
  y = y
  z = z
  Hashes = {x, y, z}
  Models = {m1, m2}
  Contents <- MCContents
  MaxVersion = 3

SPECIFICATION Spec
INVARIANTS VectorsAreGenuine
PROPERTIES CompletedRunIsWhole UnchangedIsNotEmbedded RetiredCountIsLoss
