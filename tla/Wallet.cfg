SPECIFICATION Spec
CONSTANTS
  Txn <- MCTxn
  Genesis = "genesis"
  MaxAddr = 2
  Threads = {p, q}
  Nobody = Nobody
  Delay = 1
  MaxLog = 4
  MaxReorg = 1
  MaxCalls = 3
INVARIANTS OutputsMatchChain HistoryMatchesChain StoresAgree LimboSpendsOnce
PROPERTIES FreshAddress
SYMMETRY Symmetry
CHECK_DEADLOCK FALSE
