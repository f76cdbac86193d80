SPECIFICATION WatchSpec
CONSTANTS
  MaxHeight = 3
  TxCounts = {0, 2, 3}
  MaxLag = 1
  txPageLimit = 2
INVARIANTS
  AllTxsPrinted
CHECK_DEADLOCK FALSE
