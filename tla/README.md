# A TLA+ verification of the LumiWave protocol

LumiWave is a Cosmos-SDK chain (SDK 0.53, wasmd 0.60, ibc-go v10). Two modules
are its own: `x/lumiwaveprotocol`, which drives the mint module along a yearly
inflation schedule, and `x/tokenfactory`, which lets any account create, mint,
burn and move its own denominations. `app/` wires them with the SDK, CosmWasm
and IBC; `cmd/` is the node binary; `examples/go-client` is a gRPC client.

## Inventory

| Component | State | Operations | What is hard | What makes it correct |
|---|---|---|---|---|
| Inflation controller (`x/lumiwaveprotocol/module`) | none of its own; writes x/mint `Params` and `Minter` | `BeginBlock` | order against mint's begin blocker, governance changes between blocks, int64 doubling, restart at height 0 | every block mints within its own year's cap; stored parameters stay valid; the cap never rises; when the chain can halt |
| Token factory messages (`x/tokenfactory/keeper`) | authority metadata, creator index, hooks; bank balances, supply, metadata | `CreateDenom`, `Mint`, `Burn`, `ForceTransfer`, `ChangeAdmin`, `SetDenomMetadata`, `SetBeforeSendHook` | three records of one denom, two-step mint and burn, two spellings of an address, module accounts | only the admin acts on a denom, no coins stay in the module account, the records agree, native coins are untouched |
| Token factory genesis | same | `InitGenesis`, `ExportGenesis` | restart from an export | the restarted chain has the same registry and admins |
| Before-send listener (`before_send.go`) | parent gas meter, results of contract calls | `TrackBeforeSend`, `BlockBeforeSend` | panics inside contract calls, gas limits, several coins | gas is charged, module sends are not blocked by contracts |
| Upgrades (`app/upgrades`) | upgrade-info.json, stores, handlers | `Setup`, handlers, store loader | crash between writing the file and the first block | the new store is added once, params are initialized |
| Application wiring (`app/`, `cmd/.../commands.go`) | keepers, store keys, loaded stores | `New`, `registerIBCModules`, `registerWasmModules`, `appExport` | build order: keepers copied by value | every keeper is built before it is copied; stores are complete when loaded and loaded when read |
| Chain export (`app/export.go`) | staking, distribution, slashing records | `ExportAppStateAndValidators` | zero-height rewrite: ignored errors, records deleted and written anew | no coins lost, no panic, exact records, schedule and registry after the restart |
| Client block watcher (`examples/go-client/chain_watch.go`) | last height, snapshot being collected | poll, collect, print | the chain moves between calls, answers may lag | heights increase, a snapshot is of one block, the watcher catches up |
| Client sender and ante handler (`tx_send.go`, `tx.go`, `app/ante.go`) | account sequence read, signed bytes; sequence and funds on chain | `tx send`, `tx send-privkey`, `tx broadcast`, the ante decorators | overlapping runs, lost answers, re-broadcast bytes | a sequence pays once, fees and payments add up, a simulation does not pay |
| Protobuf codec (`x/*/types/*.pb.go`) | the buffer, the slice and the index of the calls in progress | `Marshal`, `Size`, `Unmarshal`, `skipTx` and its copies | lengths that overflow, groups, a size computed apart from what is written, cut or joined bytes | what is written is read back, nothing is indexed out of bounds, half a field is refused, decoding ends |
| multi-node command (`cmd/.../testnet_multi_node.go`) | the output directory | `initTestnetFiles`, `initGenFiles`, `collectGenFiles` | runs over what earlier, killed or larger runs left | a success is one complete network |
| in-place-testnet command (`cmd/.../testnet.go`) | staking and slashing stores, Comet's validator set | `initAppForTestnet` | several stores name a validator; no commit of its own | the chain goes on with the new validator alone |
| Queries, CLI, other node commands, gateways | none | read-only or registration | - | - |

The application calls the controller first among the begin blockers, x/mint
second; governance executes passed proposals in its end blocker, so parameter
changes land between two controller runs. Token factory messages call the bank
synchronously inside one transaction, which rolls back as a whole on an error
or a panic; genesis export and import connect both modules to a restarted chain.
Messages reach the application, and state its stores, through the generated
codec. The two testnet commands and `start` and `export` are what an operator
runs on a node; they share the application that `New` builds.

## Modules

| Module | Models | Extends |
|---|---|---|
| `InflationController` | `x/lumiwaveprotocol/module/module.go`, begin- and end-blocker order of `app_config.go`, x/mint's rate step (external), zero-height restart | Integers, Sequences |
| `InflationControllerProofs` | theorems about it | InflationController, TLAPS |
| `MCInflationController` | instance for TLC | InflationController |
| `TokenFactory` | message server, bank actions, denoms, genesis, parameters of `x/tokenfactory`; bank transfers (external) | Integers, FiniteSets, Functions |
| `TokenFactoryProofs` | theorems about it and its refinement of the ledger | TokenFactoryLedger, SumTheorems |
| `TokenLedger` | abstract specification: a ledger of denoms with owners | Integers |
| `TokenFactoryLedger` | the refinement mapping from the token factory to the ledger | TokenFactory; INSTANCE TokenLedger |
| `MCTokenFactory` | instances for TLC | TokenFactoryLedger |
| `BeforeSendListener`, `MCBeforeSendListener` | `callBeforeSendListener` and its two entries, gas meters (external), hook contracts that transfer coins | Integers, SequencesExt |
| `BeforeSendListenerProofs` | theorems about it | BeforeSendListener, SumTheorems, SequenceTheorems |
| `Upgrades`, `MCUpgrades` | `app/upgrades`, the start-up order of `app.New`, x/upgrade's pre-blocker (external), operators and crashes | Integers |
| `TxSend` | the sender commands of the client and the ante handler | Integers, FiniteSets, Functions |
| `BlockWatch`, `MCBlockWatch` | the client's block watcher | Integers, SequencesExt |
| `MCClient` | composition of the two: one command per behaviour | TxSend, BlockWatch |
| `ClientProofs` | theorems about the sender and the watcher | TxSend, BlockWatch, SumTheorems |
| `ZeroHeightExport`, `MCZeroHeightExport` | `prepForZeroHeightGenesis` of `app/export.go`, x/distribution's records (external) | Integers, FiniteSets, Functions |
| `ZeroHeightExportProofs` | theorems about it | ZeroHeightExport, SumTheorems |
| `AppBuild`, `MCAppBuild` | `New`, `registerIBCModules`, `registerWasmModules`, `newApp`, `appExport` | Naturals, Sequences |
| `TestnetFiles` | `testnet_multi_node.go`, genutil's collection of gentxs (external) | Naturals, Sequences |
| `InPlaceTestnet` | `testnet.go`, the blocks that follow (external) | Naturals |
| `MCNodeCommands` | composition of the three modules above: what an operator may run | MCAppBuild, TestnetFiles, InPlaceTestnet |
| `NodeProofs` | theorems about what a node's operator runs: the testnet commands, `New` and the upgrades | InPlaceTestnet, TestnetFiles, AppBuild, Upgrades, TLAPS |
| `ProtoMessages` | the switch of every `Unmarshal` and the writes of every `MarshalToSizedBuffer` | Integers, Sequences |
| `ProtoUnmarshal` | the loop around the switch, varints, nested calls, `skipTx` | ProtoMessages, FiniteSetsExt, Functions |
| `ProtoUnmarshalProofs` | theorems about it | ProtoUnmarshal, SumTheorems, SequenceTheorems |
| `ProtoMarshal` | `Size`, `encodeVarintTx`, the backwards writes | ProtoMessages, SequencesExt |
| `ProtoCodec`, `MCProtoCodec` | composition: sender, bytes on their way, receiver | ProtoMarshal, ProtoUnmarshal |
| `SumTheorems` | lemmas about the sums of `Functions`, used by five of the proof modules | Functions, FiniteSetTheorems, TLAPS |

### InflationController

A block is a sequence of steps: `StartBlock`, one step per begin blocker in the
order of `BeginBlockers`, then `EndBlock` or `EndBlockGovUpdate`. `slot` is the
next begin blocker. `BeginBlock` translates the whole handler: year from
height, target from the schedule, the parameter write, the clipping of the
minter. The error for `blocks_per_year = 0` cannot occur because x/mint's own
validation excludes it. Only the first two of the ten begin blockers touch
inflation; the others are left out. Rates are integers in units of
`1/Precision` basis point, `Quo` rounds half to even like `LegacyDec.Quo`, and
`denominator` doubles an int64 of `WordBits` bits: negative at `WordBits - 1`
doublings, zero afterwards, when the division panics (`BeginBlockPanics`) and
every later attempt at the block panics again. `RestartForZeroHeight` is an
export with `forZeroHeight` and a new genesis: mint parameters and minter
survive, the height starts again. Variants named in the comments
(`BeginBlockersMintFirst`, `RoundUp`, ...) are plausible mistakes used to
confirm that the properties notice them; `Spec` does not use them. The same
holds for the definitions marked "variant" in the other modules. `provisions`
is the rate behind `Minter.AnnualProvisions`, which decides what a block mints.

### TokenFactory

One action per message; `Message` chooses its inputs as `ValidateBasic` admits
them. A rejected message is a stuttering step because the transaction rolls
back. An address string is a pair of holder and spelling: bech32 accepts an
upper-case spelling, sender and admin are compared as strings, and
`DeconstructDenom` returns the lower-case one. `accKind` is what the auth
module stores at a module's address: `ForceTransfer` fetches every module
account, creating missing ones and panicking on an ordinary account that a
plain transfer left there. `ContractKeeper` is what `SetContractKeeper` stored;
in this application it is `"zero"`, because `app/ibc.go:117` copies the wasm
keeper before `app/wasm.go:42` builds it. `signer` is a history variable used
by the properties only. Gas (`DenomCreationGasConsume`), events and metadata
contents are left out. `RestartFromExport` is `ExportGenesis` followed by
`InitGenesis`. `AddrStrings` are the strings anybody may name, `SenderStrings`
those somebody signs with.

`TokenLedger` says what all of this amounts to: denoms with at most one owner,
who issues, destroys and seizes the coins of its denom outside module accounts,
while everybody else moves only what is theirs. `TokenFactoryLedger` maps the
factory to it (issued: in the creator index; owner: the admin), so
`ImplementsLedger` relates every message, including the two-step mint and burn,
the fee and a restart, to one step of the ledger. It includes that the native
denom, which has no owner, keeps its supply.

### BeforeSendListener

`frames` is the stack of listener calls and `meters` the stack of gas meters: a
hook contract may transfer coins with hooks of their own, so the loop over the
coins is re-entered while it runs. A contract gets the lesser of the fixed limit
and the gas its caller has left; its consumption is charged by a deferred
function whatever its outcome. If that charge itself runs out of gas, its panic
skips the inner recovery and reaches the outer one, which reports an error even
to a module account (`ContractEnds`, first case). Its second case returns out of
the loop, so the hooks of the remaining coins are not called. One gas unit stands for a
transfer and one for a hook lookup; contracts burn up to `MaxStepGas` at the
end of a call. The module does not depend on which contract keeper is wired; in
the application as it stands every call would end in the `"panic"` outcome, and
nothing registers `Hooks` with the bank, so the module describes the listener as
a bank with these hooks runs it.

### Upgrades

`chain` is the committed state as far as the upgrade touches it, `block` the
block in execution, `disk` the file `upgrade-info.json`, `node` the running
binary. `Start` is `app.New`: `Setup` registers handlers and chooses a store
loader, then the stores are mounted, and a store that is neither committed nor
added makes `New` panic. `PreBlock*` are the cases of x/upgrade's pre-blocker.
A crash drops the open block. "old" stands for any release without
tokenfactory.

`account` is what the auth module stores at tokenfactory's address. On the old
binary a plain transfer leaves an ordinary account there (`AccountAfter`); this
binary blocks the address. `CreateModuleAccount` is `GetModuleAccount`, which
panics on an ordinary account, so from then on every attempt at the upgrade
panics (`PreBlockPanics`), whether in `InitGenesis` or in v0.0.10's own
`postMigrate`, and only a skip gets past the height. `UpgradeCompletes` names
that case; the safety properties hold in it too, because the block is lost as a
whole.

### TxSend

A run of a send command reads the sequence from the last commit, signs and
broadcasts or simulates. CheckTx and gossip are left open: whatever reached the
network may be included in any later block, any number of times, so the checks
do not lean on a mempool's memory. The ante handler passes as a whole or
changes nothing, which is why the order of the decorators inside it does not
matter here. The decorators left out may reject a transfer too (a long memo, too
little gas), which is a transaction that is not delivered. A message may fail
after the ante handler for want of funds or gas or because the recipient is
blocked (`DeliverTx` with `fails`): fee and sequence are spent and nothing is
paid.

### BlockWatch

Each call of a poll is a step. The endpoint may answer `GetLatestBlock` up to
`MaxLag` blocks late. `GetBlockWithTxs` of the node (external, SDK 0.53) pages
by offset: it ignores the key of a request and returns no next key, so
`fetchAllBlockTxs` gets the first page (`PageSize`) and ends (`NextKey`).
`SnapshotCoherent` says what the watcher prints nevertheless, and
`AllTxsPrinted` what the comment on that function promises.
`-interval` must be positive, so the ticker fires.

### ZeroHeightExport

One step per pass of a loop of `prepForZeroHeightGenesis`, in any order of its
elements. `outstanding`, `commission` and `pending` are what validators owe,
`balance` the coins that back it, in half coins. `refs` counts the references
to each historical reward record, which x/distribution panics on when it takes
one too many; the model lets a count go out of range and `HooksNeverPanic`
forbids it. A withdrawal that fails changes nothing, because its checks precede
its writes and its recipients are never blocked accounts. `SetUpdateFails` is
the staking keeper's refusal of a jailed validator in the power index, which an
allow list runs into whenever it leaves out a validator that was not jailed.

### AppBuild

`New` is a sequence of statements; each assigns components, copies some and
dereferences pointers. `ver` counts assignments (0 is Go's zero value), and a
copy remembers the version it was made of. Pointers to fields of `App` are not
copies. Statements that touch no keeper or store (the simulation manager, the
init chainer, size limits) are left out. That a store cannot be read before a
version is loaded is the multistore's behaviour (external). The zero contract
keeper that `EveryCopyBuilt` finds is the constant `ContractKeeper = "zero"` of
`TokenFactory`'s instances.

### TestnetFiles

The output directory outlives the command, so the module runs the command again
and again, with another number of validators each time, and lets every run
fail or be killed at any step. Each write of a file is a step. `id` stands for
the node and consensus keys, which `InitializeNodeValidatorFiles` keeps if they
are there, `account` for the keyring's key, which every run replaces, and a
gentx is a pair of both, in a file named after the first. `CollectTxs` reads
every file of the directory and refuses a gentx of an account the genesis does
not know (external). Three kinds of error remove the whole output directory
(`FailAndRemoveAll`); all others, and a kill, leave it as it is. Ports, stakes
and the other lines of the configuration files are left out, and so is a
write that is killed half-way: the next run replaces each such file, or fails
on a broken key, which is `FailAndRemoveAll`.

### InPlaceTestnet

The stores of staking and slashing that name a validator: the records, the
index by power, the last validators, the unbonding queue, the index by
consensus address and the signing information. The command starts from any
consistent combination, and the operator it is given may be new or one of the
old validators. Its statements are steps (`Changes`); they change `working`,
and only a block of the new chain makes them `committed`. `Proceeds` lists what
a block of the SDK relies on, taken from its panics and errors (external).
`strings.Split` yields at least one account to fund, without the flag the empty
string, which ends the command (`FundAccount`) before anything is committed.
Distribution's records, delegations and the bank's coins are left out.

### The codec

The generated files repeat one loop per message with another switch.
`ProtoMessages` has the switches and the writes, one pair of definitions per
message; the loop is `ProtoUnmarshal` and the buffer is `ProtoMarshal`, mapped to
`MsgMint` and `Params`, which between them have every kind of field. A nested
message is a call on a slice, so both keep a stack of frames. A read outside a
slice is the result `"panic"`. `Width` and `TagWidth` are the 64 bits of int and
the 32 of a field number and a uint32: at 15 and 8 bits a varint still takes several bytes,
may exceed the word, and lengths turn negative or make `postIndex` overflow.
Bank's `Coin`, `DenomUnit` and `Metadata` and math's `Int` are external and
modelled from the same generator's code. An `Int` is its decimal text with an
optional minus sign, the one text `Marshal` writes for it; the other spellings
`math.Int` would accept (a plus sign, other bases) and its limit of 256 bits are
left out. `ProtoMarshal` declares a recursive
operator (`Size`); `ProtoUnmarshal` does not, and has a specification of its own
(`DecodeSpec`: one call on any bytes that an int can count, as Go's `len`
guarantees) that the theorems are about. A receiver of `ProtoCodec` starts as
`DecodeInit` says, on bytes from `Inputs`, and takes the same `UnmarshalNext`.

## Runs

| Run | Checks | Shows |
|---|---|---|
| `inflation` | TypeOK, ParamsStayValid, ScheduleEnforced, HaltOnlyOnOverflow, CapNeverRises | 11-bit word, heights to 30, one or three blocks per year (or 1030, negative as int64): table, all halvings, the negative (year 25) and the zero (year 27) denominator, governance and restarts at any point |
| `tokenfactory_users` | TypeOK, SupplyBacked, ModuleAccountEmpty, RegistryCoherent, AuthorityRespected, ImplementsLedger | two users, one under both spellings of its address, a module account outside the blocked list, a changing fee, genesis denoms, restarts |
| `tokenfactory_export` | ExportImportLossless (violated) | the first finding below |
| `listener` | GasConserved, NestingBounded, ModuleSendNotBlocked | two coins, contracts with four units of gas, transactions with three, six or unlimited gas |
| `upgrades` | TokenFactoryReady, StoreAddedOnce, CustomParamsKept, UpgradeCompletes | chains that began on either binary, plans v0.0.9 and v0.0.10 at any height, any skip height, two crashes, four blocks, a transfer to the module's address at any time before it is a module account |
| `client` | TypeOK, SequencePaysOnce, FundsAccounted, OnlyReleasedPays; HeightsIncrease, SnapshotCoherent, CatchesUp | three overlapping runs of the sender with funds for two transfers and one more fee, messages that fail, right and wrong chain ids; a watcher of three blocks of none, two or three transactions, pages of two, answers one block late, all options |
| `block_watch_pages` | AllTxsPrinted (violated) | the fourth finding below |
| `zero_height_export` | RewardsConserved, HooksNeverPanic, ReferencesExact, FreshStart | two validators, three delegations with one and a half coins each, four periods, slash events and jailed validators in any mix, one allowed validator |
| `node_commands` | CopiesFinal, LoadsComplete; NetworkComplete, RefusedOnlyWhenSmaller; TestnetGoesOn, OnlyNewValidator | start, export, export at each of three heights, a failure of each statement; three runs of multi-node with up to three validators each; two runs of in-place-testnet on every state of three operators |
| `proto_codec` | InBounds, RoundTrip, ConcatenationMerges, TruncationDetected, Progress | every message type with empty, short and 128-byte strings, every cut of messages up to 16 bytes, pairs of messages, all strings of up to five bytes over seven |
| `app_build_copies` | EveryCopyBuilt (violated) | the second finding below |
| `app_build_export` | ExportWorks (violated) | the third finding below |

Bounds. The word width is the smallest for which the base rate survives all
halvings with a non-zero quotient before the overflow, so every branch of the
schedule occurs. Amounts and supplies are at most one: the properties compare
balances before and after a step and never two different amounts. Two users
suffice to tell holder, admin and recipient apart in pairs; one user with two
spellings to tell strings and addresses apart. Governance as a signer (by
proposal) is not in these instances; the proofs cover every set of signers.

Four units of contract gas allow two nested calls and running out of gas on
every level; a third level differs from the second in nothing. Four blocks let
a plan be scheduled, reached, applied and followed by a later start with the
stale file; two crashes allow one before and one after the upgrade. Three runs
of the sender give a race of two and a later use of the next sequence. Three
blocks let the watcher skip one and be answered with an earlier one. Two
delegations to one validator make the withdrawals and hooks of one validator
follow each other, and half a coin is left over by every withdrawal; four
periods leave room for both delegations and a slash event.

`tokenfactory_users` uses a view that leaves out `signer`: it records who sent
the last message, no action reads it and the properties read only its new value,
so states that differ in it alone have the same successors and the same checks.

Three runs of multi-node give a finished or broken network, a run that changes
it and one that meets both; three validators let a network shrink by one and by
two. Two runs of in-place-testnet let the second meet what the first left,
committed or not. The alphabet of `proto_codec` has a field number that is
known and one that is not for each kind of field, both group delimiters, a
fixed-size element, the largest one-byte length and a continuation byte; five
bytes hold a tag with a three-byte length, or a group around an element. Raw
bytes are decoded as a message without fields, one with strings and a nested
message, and one with a list and a number two levels deep. Of messages with many
strings, those are sent in which at most one is empty or at most one is not, and
the widest types are not sent in pairs. That decoding ends
is an action property (`Progress`: every step ends it or lowers a measure)
rather than a liveness property: it needs no fairness, since a function call
either returns or loops.

Two runs assume fairness. In `upgrades` a running node makes and commits blocks
(WF) and an operator who finds the node stopped keeps trying each binary without
skip flags (SF on both starts, because a wrong try takes the node up and down
again in between); crashes, skips and governance are not fair. In `client` the
watcher's process keeps running (WF on its steps); the chain owes it no block,
and no call is promised to succeed, since an error ends the watcher. Behaviours
that only send never take a step of the watcher, so they are not fair and count
for the invariants alone.

The type invariants of `BeforeSendListener`, `Upgrades` and `BlockWatch` are
proved and not part of a run.

Deadlock is checked except in these two and in `block_watch_pages`: the node stops
at the height bound, and the commands of the client end.

## Proofs

Every invariant below is proved as `Spec => []Inv` for every value of the
constants that satisfies the module's named assumptions. Each proof module
defines the inductive invariant of its component, shows that the initial states
have it and that each action keeps it, one lemma per action, and derives the
properties. TLC checked the invariants, types aside, on the instances of the runs
before they were proved.

Assumptions on constants are what the code gives: sets of accounts, runs,
validators and delegations are finite, limits and bounds are natural numbers,
a delegation is to a validator, an address string denotes a holder. Facts about
powers (`PowersOfTwo` of the controller, `PowersAssumption` of the codec) are
assumptions too: they are arithmetic that the provers do not compute, and TLC
evaluates them.

**Sums.** Money and gas are sums over sets. `SumFunctionOnSet` is a fold whose
definition is a recursive function on subsets with a `CHOOSE`, and the library's
induction theorems cannot be instantiated here. `SumTheorems` goes round
induction: the number of units of the summands (a set of pairs, counted by
`Cardinality`) solves the equation of the fold; two solutions agree because
a smallest subset on which they differ, which exists since cardinalities are
natural numbers, is neither empty nor has an element. What the others cite
is that a sum changes by what one summand changes, and that moves keep it.

**`InflationControllerProofs`**: `TypeCorrect`, `ParamsAlwaysValid`,
`ScheduleAlwaysEnforced`, `HaltNeedsOverflow`, `CapNeverEverRises`. The
invariant adds that the schedule holds already between the two begin blockers
(`ControllerRan`) and that a halt happens only while the controller runs. A base
rate below half of the largest denominator rounds to zero when the denominator
has wrapped to the most negative word, so the cap never turns negative. That the
cap never rises is the monotonicity of the year in the height and of the cap in
the year: the table falls, the first halving is below its last entry, and
rounding half to even does not raise a quotient whose divisor doubles
(`DoublingLowers`, by cases on the remainder).

**`TokenFactoryProofs`**: `TypeCorrect`, `ModuleAccountAlwaysEmpty`,
`RegistryAlwaysCoherent`, `AuthorityAlwaysRespected`, `SupplyAlwaysBacked`,
`FactoryImplementsLedger`. The invariant is the conjunction of the first three:
coherence is what makes authority inductive, because a denom that is not listed
has no admin, and re-creation is stopped by metadata exactly when the denom is
listed. For the supply every change of the balances is a move (sum kept), a mint
or a burn (sum and supply change alike). The refinement maps the initial states
and then every message: the two transfers of a mint or burn through the module
account collapse to one step of the ledger since that account is empty before
and after, and a transfer to oneself cancels out.

**`BeforeSendListenerProofs`**: `TypeCorrect`, `NestingAlwaysBounded`,
`ModuleSendNeverBlocked`, `GasAlwaysConserved`. The invariant says that a meter
a listener runs on has paid for the transfer and, while it waits, for the lookup
(`ListenerMetersPaid`), so each level has two units less than the one below
(`LimitsShrink`), which bounds the depth; and that a waiting listener still has
its coin (`WaitingHasCoin`).

**`NodeProofs`, upgrades**: `TypeCorrect`, `TokenFactoryAlwaysReady`,
`StoreAlwaysAddedOnce`, `CustomParamsAlwaysKept`. The invariant relates the
committed chain, the file, the process and the open block: a file about the next
height names the pending plan, and only for a chain without the store if it is
v0.0.10 (`DiskCoherent`); a new binary on such a chain is about to execute that
plan (`NodeCoherent`); a block that will commit the store has initialized it
(`BlockCoherent`). A panic of the handler loses the block, so an ordinary account
at the module's address needs no case of its own there.

**`ClientProofs`**: for the sender `TypeCorrect`, `SequenceAlwaysPaysOnce`,
`OnlyReleasedEverPays`, `FundsAlwaysAccounted`. The invariant adds that bytes on
the network or printed belong to a finished run, so their sequence is fixed, and
that a transaction that paid carries a sequence below the account's. For the
watcher `WatchTypeCorrect`, `HeightsAlwaysIncrease`, `SnapshotsAlwaysCoherent`:
what is collected is the first page of one block that the chain cannot change any
more (`CollectionSound`) and nothing above `lastHeight` was printed
(`ReportSound`).

**`ZeroHeightExportProofs`**: `RewardsAlwaysConserved`, `HooksNeverEverPanic`,
`ReferencesAlwaysExact`, `FreshStartAlways`. At every step a validator owes its
commission and its delegations' rewards (`DebtExact`), so a withdrawal never
takes more than is owed. `CountsExact` says what each reference count is at every
step, old records and new ones alike: one for the current period, one for the
delegation that starts there, one for a slash event, where a validator or
delegation counts only while its record is there (`Current`, `Counted`). It is
inductive because starts are past periods and no two delegations of a validator
share one (`StartsSound`): the record of a period that ends is always a new one.
`PeriodsBounded` leaves room for it. The bound of three references and the exact
counts of the export both follow.

**`NodeProofs`, testnets**: `TestnetAlwaysGoesOn`, `OnlyNewValidatorBonded` for
in-place-testnet: after each statement the stores rewritten so far hold the new
validator or nothing (`IndexesRewritten`, `ValidatorsRewritten`, `NewKeyKnown`),
whatever they held before. `NetworkAlwaysComplete`, `RefusedOnlyOnSmaller` for
multi-node: what any earlier runs left is sound (`DirsSound`: a gentx was made
for a node whose directory still has that id), what this run has written is
still there (`RunKept`) and it has written nothing else (`RunExact`).

**`NodeProofs`, application**: `CopiesAlwaysFinal`, `AlwaysLoadsComplete`. The
invariant says what `New` has done at each statement: a component's version is
zero exactly while nothing before `pc` assigned it, and one where a single
statement assigns it (`VersionsCounted`); a copy of a built component has its
present version, and no later statement assigns that component
(`CopiesSettled`). The rest are facts about the list of statements itself, of
which component is assigned, taken and loaded where (`Assigns`, `TakenAt`,
`AssignedOnce`, `LoadAt`), so a reordering of `New` that breaks one of them
breaks its lemma.

**`ProtoUnmarshalProofs`**: `AlwaysInBounds`, `AlwaysProgress`, for every width of
int and of field numbers, every message type and all bytes. The invariant says
that the frames tile the input, each in the part of its caller's slice that the
caller has passed (`Framed`), and that a skip works on the rest of the top
frame's slice (`SkipOK`); the index of a skip may leave its slice, by a
fixed-size element or a length, but never the range of int, which is what makes
the caller's check of `iNdEx + skippy` sufficient. The arithmetic is in two
lemmas: a uint64 becomes itself or a negative int (`ToIntOf`), and a sum of two
ints is their sum or negative (`AddOf`), so one comparison with zero finds
every overflow. For progress the measure is a pair: twice the bytes left in all
frames, a unit per frame and one unless a skip is running; then the bytes left
in the skip. A nested call consumes a header of two bytes at least and adds one unit
for its frame; a skip that begins gives its unit back when it returns, by when its
tag has been consumed.

Only model-checked:

- liveness: `UpgradeCompletes` and `CatchesUp`;
- `RoundTrip`, `ConcatenationMerges` and `TruncationDetected` of the codec: what
  is written is a recursion over the fields of a message, so they would need
  induction over data, and `ProtoCodec` reaches a RECURSIVE operator.

## Findings

`tokenfactory_export`: a denom created under an upper-case spelling of its
creator is filed under that spelling, but `InitGenesis` files it under the
lower-case one, so the store of a chain restarted from its own export differs,
which `app/sim_test.go:276` excludes. Exported hooks would be lost too
(`ExportGenesis` does not list them), once the contract keeper is wired.

`app_build_copies`: `app/ibc.go:117` hands the token factory a copy of the wasm
keeper before `app/wasm.go:42` builds it; `keeper.go:90` says the call sets the
wasm keeper.

`app_build_export`: `appExport` asks `New` not to load the stores when it was
given a height, but `New` reads the pinned codes anyway (`app/app.go:232`), so
the export panics; `commands.go:133` promises an export "optionally at a given
height".

`block_watch_pages`: `fetchAllBlockTxs` follows next keys that the node never
returns (`chain_watch.go:364`), so of a block with more transactions than
`-tx-page-limit` only the first page is printed, and `TxCount` is the length of
that page; `chain_watch.go:340` says it "paginates all txs in a block".

## Plan

1. Denom syntax: lengths and characters against `DeconstructDenom`.
2. Delegations and distribution's records in `InPlaceTestnet`.

## Not modelled

- Queries, the CLI of both modules and module glue: read-only, or registration.
- The HTTP gateways, service descriptors and accessors among the generated
  code, and the module configuration under `api/`: no state, no decisions.
- Command-line flags and the registration of commands (`root.go`, `config.go`).
- The parameters of `x/lumiwaveprotocol`: the record is empty; its codec is in
  `ProtoMessages`.
- The wallet and the single queries of the example client.
- Lengths and characters of a subdenom (`denoms.go`), of which `TokenFactory`
  keeps the construction and the normalization of the creator.
