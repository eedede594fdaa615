CONSTANTS
  Hosts = {h1, h2}
  Workers = {w1, w2}
  Nobody = Nobody
SPECIFICATION FairSpec
CHECK_DEADLOCK FALSE
INVARIANTS
  SessionHeld
PROPERTIES
  LocksSpec
  AcquireReturns
  CloseReturns
