SPECIFICATION Spec
VIEW ChainState
CONSTANTS
  alice = alice
  bob = bob
  tokenfactory = tokenfactory
  distribution = distribution
  gov = gov
  wasm = wasm
  stake = stake
  sub = sub
  hookContract = hookContract
  TokenFactoryAcc = tokenfactory
  DistributionAcc = distribution
  Native = stake
  Nobody = Nobody
  NoHook = NoHook
  GenesisHolder = alice
  MaxAmount = 1
  MaxSupply = 1
  Accounts = {alice, bob}
  Modules = {tokenfactory, distribution, wasm}
  Blocked = {tokenfactory, distribution}
  LateModules = {}
  AddrStrings <- MCAddrStrings
  SenderStrings <- MCSenderStrings
  Subdenoms = {sub}
  GenesisDenoms <- MCGenesisDenoms
  Contracts = {}
  ContractKeeper = "zero"
  FeeChoices = {0, 1}
  NativeSupply = 1
INVARIANTS
  TypeOK
  SupplyBacked
  ModuleAccountEmpty
  RegistryCoherent
PROPERTIES
  AuthorityRespected
  ImplementsLedger
