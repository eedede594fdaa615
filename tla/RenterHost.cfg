CONSTANTS
  Sectors = {x, y}
  MaxSectors = 2
  MaxNum = 4
  BaseRPCPrice = 1
  Prices = {2}
  Collaterals = {2}
  RenterPayout = 9
  HostPayout = 1
  Sessions = {s1, s2}
  ExclusiveLock = TRUE
SPECIFICATION FairSpec
INVARIANTS
  SignaturesCoverRevision
  RevisionIsMostRecent
  PayoutsConserved
PROPERTIES
  RPCReturns
  LockReleased
  LedgerSpec
