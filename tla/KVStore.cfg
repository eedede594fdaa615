CONSTANTS
  Calls = {c1, c2}
  Keys = {k1}
  AllHosts = {h1, h2, h3}
  Shards = {1, 2}
  M = 1
  P = 2
  Size = 1
  Exclusive = TRUE
  NoKey = NoKey
  MaxChunks = 2
  MaxShards = 4
SPECIFICATION Spec
SYMMETRY Symmetry
INVARIANTS
  ValueSurvives
  GCSparesValues
