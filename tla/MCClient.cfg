SPECIFICATION ClientSpec
CONSTANTS
  Runs = {r1, r2, r3}
  ChainID = lumiwave
  ChainIDs = {lumiwave, other}
  NoFlag = NoFlag
  Amount = 2
  Fee = 1
  InitialFunds = 7
  MaxHeight = 3
  TxCounts = {0, 2, 3}
  MaxLag = 1
  txPageLimit = 2
INVARIANTS
  TypeOK
  SequencePaysOnce
  FundsAccounted
  OnlyReleasedPays
  HeightsIncrease
  SnapshotCoherent
PROPERTIES
  CatchesUp
CHECK_DEADLOCK FALSE
