SPECIFICATION Spec
CONSTANTS
  infinite = infinite
  NoLimit = infinite
  BeforeSendHookGasLimit = 4
  MaxStepGas = 2
  MaxCoins = 2
  MaxTransfers = 1
  TxGasLimits <- MCTxGasLimits
INVARIANTS
  GasConserved
  NestingBounded
  ModuleSendNotBlocked
