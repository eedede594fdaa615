SPECIFICATION Spec
CONSTANTS
  WordBytes = 4
  SegmentsPerSector = 8
  RootsPerCall = 2
  FeePerInput = 2
  Counts = {0, 1, 2}
  Lengths = {0, 1, 64, 5000}
  Descriptions = {0, 20, 4029, 4030, 4031, 4032, 4045}
  MaxRoots = 10
  MaxEdited = 4
  MaxActions = 3
  Values = {1, 3, 4, 8}
  MaxInputs = 4
  MaxAmount = 12
INVARIANTS RoundTrips ProofsVerify ProofsBind DeletesExactly CoinsSuffice
CHECK_DEADLOCK FALSE
