CONSTANTS
  SiafundCount = 3
  Fee = 5
  Calls = {c1, c2}
  Sectors = {x}
  MaxSectors = 1
  MaxNum = 3
  BaseRPCPrice = 1
  Prices = {2}
  Collaterals = {2}
  MaxContracts = 3
  RenterPayouts = {0, 100}
  Blocks = {2, 3}
  Settings <- MCSettings
  Wallets <- MCWallets
SPECIFICATION Spec
SYMMETRY Symmetry
CHECK_DEADLOCK FALSE
INVARIANTS
  OneHome
  RenewsCurrent
  Reachable
  Balanced
PROPERTY
  ClearedFairly
