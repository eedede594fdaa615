CONSTANTS
  Capacity = 2
  MaxChunks = 4
  P = 3
  Ask = "any"
SPECIFICATION FairSpec
CHECK_DEADLOCK FALSE
INVARIANTS
  OutputInOrder
  CompleteOnSuccess
  ServesRange
PROPERTIES
  DownloadReturns
