SPECIFICATION Spec
CONSTANTS
  None = None
  Unknown = Unknown
  Names = {a, b}
  Hosts = {h1, h2}
  SegmentSize = 2
  SegmentsPerSector = 4
  SegmentCounts = 64
  MinShards = 1
  WriteLens = {1, 8}
  TruncateLens = {3}
  Anywhere = TRUE
  MaxCalls = 5
  MaxSectors = 3
  MaxSize = 9
  MaxFaults = 0
INVARIANT ReadsBack
SYMMETRY Symmetry
CHECK_DEADLOCK FALSE
