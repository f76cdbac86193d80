SPECIFICATION Spec
CONSTANTS
  alice = alice
  bob = bob
  tokenfactory = tokenfactory
  distribution = distribution
  gov = gov
  wasm = wasm
  stake = stake
  sub = sub
  hookContract = hookContract
  TokenFactoryAcc = tokenfactory
  DistributionAcc = distribution
  Native = stake
  Nobody = Nobody
  NoHook = NoHook
  GenesisHolder = alice
  MaxAmount = 1
  MaxSupply = 1
  Accounts = {alice}
  Modules = {tokenfactory, distribution, wasm}
  Blocked = {tokenfactory, distribution}
  LateModules = {}
  AddrStrings <- MCAddrStrings
  SenderStrings <- MCAliceStrings
  Subdenoms = {sub}
  GenesisDenoms = {}
  Contracts = {}
  ContractKeeper = "zero"
  FeeChoices = {0}
  NativeSupply = 0
PROPERTIES
  ExportImportLossless
