------------------------------- MODULE Upgrades -------------------------------
(***************************************************************************)
(* A node taking its chain through a planned upgrade: Setup, the upgrade   *)
(* definitions and handlers of app/upgrades, and the start-up order of     *)
(* app.New, around the pre-blocker of x/upgrade.  The node may crash at    *)
(* any time; the committed state and upgrade-info.json survive.            *)
(*                                                                         *)
(* "new" is this repository's binary, "old" a release before tokenfactory. *)
(***************************************************************************)
EXTENDS Integers

CONSTANTS
  PlanNames,    \* upgrade names governance may schedule
  OldHandlers,  \* upgrade names the old binary has handlers for
  NoPlan,       \* no plan scheduled; no upgrade-info.json
  MaxHeight,    \* bound on the block height
  MaxCrashes    \* bound on crashes

nameV1UpgradeLumiwaveProtocol == "v1-upgrade-lumiwaveprotocol"
nameV009 == "v0.0.9"
nameV0010 == "v0.0.10"
tokenfactory == "tokenfactory"

\* Names Setup registers handlers for.
definitions == {nameV1UpgradeLumiwaveProtocol, nameV009, nameV0010}

storeUpgradesMissing(name) == {}  \* variant: no store upgrade is declared

\* Stores an upgrade adds.
storeUpgrades(name) == IF name = nameV0010 THEN {tokenfactory} ELSE {}

Handlers(binary) == IF binary = "new" THEN definitions ELSE OldHandlers

\* Stores the binary mounts, as far as the two differ.
Mounted(binary) == IF binary = "new" THEN {tokenfactory} ELSE {}

ASSUME UpgradesAssumption ==
  /\ MaxHeight \in Nat \ {0} /\ MaxCrashes \in Nat
  /\ nameV0010 \notin OldHandlers

VARIABLES
  chain,    \* committed state
  block,    \* state of the block being executed; NoBlock between blocks
  disk,     \* upgrade-info.json: a plan or NoPlan
  node,     \* the running binary and its skip height, or Down
  added,    \* stores the running process's store loader has added
  crashes   \* crashes so far

vars == <<chain, block, disk, node, added, crashes>>

Plans == [ name : PlanNames, height : 1..MaxHeight ]

\* born: the binary the chain began on; stores: stores of the multistore;
\* versionMap: modules of the version map;
\* params: tokenfactory's parameters; account: what the auth module stores at
\* its module address, an ordinary account if anybody paid in before the module
\* account was made;
\* done: names of applied upgrades; last: the one applied last.
ChainStates ==
  [ born : {"old", "new"}, height : 0..MaxHeight, plan : Plans \cup {NoPlan},
    stores : SUBSET {tokenfactory}, versionMap : SUBSET {tokenfactory},
    params : {"unset", "default", "custom"}, account : {"none", "base", "module"},
    done : SUBSET PlanNames, last : PlanNames \cup {NoPlan} ]

NoBlock == [ height |-> 0 ]
Down == [ binary |-> "down", skip |-> 0 ]

\* A chain that began on the old binary, or one that began on this one.
Init ==
  /\ \E born \in {"old", "new"} :
       chain = [ born |-> born, height |-> 0, plan |-> NoPlan,
                 stores |-> Mounted(born), versionMap |-> Mounted(born),
                 params |-> IF born = "new" THEN "default" ELSE "unset",
                 account |-> IF born = "new" THEN "module" ELSE "none",
                 done |-> {}, last |-> NoPlan ]
  /\ block = NoBlock
  /\ disk = NoPlan
  /\ node = Down
  /\ added = {}
  /\ crashes = 0

-----------------------------------------------------------------------------
(* Start-up: Setup chooses the store loader, Load mounts the stores.       *)

\* Variant: Setup does not look at the skip heights.
SetsStoreLoaderAnyway(binary, skip) ==
  binary = "new" /\ disk # NoPlan /\ disk.name \in definitions

\* Setup sets an upgrade store loader for the plan in upgrade-info.json,
\* unless the operator skips its height.
SetsStoreLoader(binary, skip) ==
  /\ binary = "new"
  /\ disk # NoPlan
  /\ disk.name \in definitions
  /\ skip # disk.height

LoaderIsDueAlways(height) == TRUE  \* variant: the plan's height is not passed on

\* UpgradeStoreLoader acts only right before the height it was given.
LoaderIsDue(height) == height = chain.height + 1

AddedAtStart(binary, skip) ==
  IF SetsStoreLoader(binary, skip) /\ LoaderIsDue(disk.height)
    THEN storeUpgrades(disk.name)
    ELSE {}

(* The operator starts a binary.  Every mounted store must be in the last  *)
(* commit or be added: otherwise Load fails, New panics and the node stays *)
(* down.  A chain that began on this binary has no older release.          *)
Start(binary, skip) ==
  /\ node = Down
  /\ binary = "old" => chain.born = "old"
  /\ Mounted(binary) \subseteq chain.stores \cup AddedAtStart(binary, skip)
  /\ node' = [binary |-> binary, skip |-> skip]
  /\ added' = AddedAtStart(binary, skip)
  /\ UNCHANGED <<chain, block, disk, crashes>>

-----------------------------------------------------------------------------
(* The handlers of this binary.                                            *)

CreateModuleAccount(s) == [s EXCEPT !.account = "module"]

\* RunMigrations: InitGenesis with the default genesis for a new module.
RunMigrations(s) ==
  IF tokenfactory \in s.versionMap
    THEN s
    ELSE [CreateModuleAccount(s) EXCEPT !.versionMap = {tokenfactory},
                                        !.params = "default"]

\* Variant: default parameters whatever there is.
postMigrateOverwrites(s, name) ==
  IF name = nameV0010 THEN [CreateModuleAccount(s) EXCEPT !.params = "default"] ELSE s

\* postMigrate of v0.0.10: the module account, and default parameters if some
\* are missing.  The other definitions have none.
postMigrate(s, name) ==
  IF name = nameV0010
    THEN [CreateModuleAccount(s) EXCEPT
            !.params = IF @ = "unset" THEN "default" ELSE @]
    ELSE s

UpgradeHandler(binary, s, name) ==
  IF binary = "new" THEN postMigrate(RunMigrations(s), name) ELSE s

\* GetModuleAccount, which is all that CreateModuleAccount calls, panics on an
\* ordinary account; InitGenesis and v0.0.10's postMigrate call it.
HandlerPanics(binary, s, name) ==
  /\ binary = "new"
  /\ tokenfactory \notin s.versionMap \/ name = nameV0010
  /\ s.account = "base"

-----------------------------------------------------------------------------
(* Blocks: the pre-blocker of x/upgrade, then the rest of the block.       *)

Height == chain.height + 1
ShouldExecute == chain.plan # NoPlan /\ chain.plan.height <= Height
Skips == node.skip = Height
HasHandler == chain.plan.name \in Handlers(node.binary)

\* The binary does not know the upgrade applied last, or knows a pending one.
WrongBinary ==
  \/ /\ ~ShouldExecute \/ Skips
     /\ chain.last # NoPlan /\ chain.last \notin Handlers(node.binary)
  \/ /\ chain.plan # NoPlan /\ ~ShouldExecute
     /\ HasHandler

BeginsBlock == node # Down /\ block = NoBlock /\ chain.height < MaxHeight

Executing(state) == block' = [height |-> Height, state |-> state]

PreBlockPlain ==
  /\ BeginsBlock
  /\ ~ShouldExecute
  /\ ~WrongBinary
  /\ Executing(chain)
  /\ UNCHANGED <<chain, disk, node, added, crashes>>

\* --unsafe-skip-upgrades: the plan is dropped.
PreBlockSkip ==
  /\ BeginsBlock
  /\ ShouldExecute
  /\ Skips
  /\ ~WrongBinary
  /\ Executing([chain EXCEPT !.plan = NoPlan])
  /\ UNCHANGED <<chain, disk, node, added, crashes>>

PreBlockApply ==
  LET name == chain.plan.name
  IN  /\ BeginsBlock
      /\ ShouldExecute
      /\ ~Skips
      /\ HasHandler
      /\ ~HandlerPanics(node.binary, chain, name)
      /\ Executing([ UpgradeHandler(node.binary, chain, name)
                       EXCEPT !.plan = NoPlan, !.done = @ \cup {name},
                              !.last = name ])
      /\ UNCHANGED <<chain, disk, node, added, crashes>>

\* A panic of the handler stops the node; nothing of the block remains.
PreBlockPanics ==
  /\ BeginsBlock
  /\ ShouldExecute
  /\ ~Skips
  /\ HasHandler
  /\ HandlerPanics(node.binary, chain, chain.plan.name)
  /\ node' = Down
  /\ added' = {}
  /\ UNCHANGED <<chain, block, disk, crashes>>

\* "UPGRADE NEEDED": upgrade-info.json is written and the node stops.
PreBlockStops ==
  /\ BeginsBlock
  /\ ShouldExecute
  /\ ~Skips
  /\ ~HasHandler
  /\ disk' = [chain.plan EXCEPT !.height = Height]
  /\ node' = Down
  /\ added' = {}
  /\ UNCHANGED <<chain, block, crashes>>

\* The wrong binary for this height: the block fails and the node stops.
PreBlockFails ==
  /\ BeginsBlock
  /\ WrongBinary
  /\ node' = Down
  /\ added' = {}
  /\ UNCHANGED <<chain, block, disk, crashes>>

\* Governance keeps, cancels or schedules a plan in the rest of the block.
PlanAfter(plan) ==
  \/ plan \in {block.state.plan, NoPlan}
  \/ /\ plan # NoPlan
     /\ plan.height > Height
     /\ plan.name \notin block.state.done

\* Governance may change tokenfactory's parameters once there are some.
ParamsAfter(params) ==
  \/ params = block.state.params
  \/ block.state.params # "unset" /\ params = "custom"

\* A transfer to an address nobody has used makes an ordinary account there.  To
\* this binary the module's address is a blocked one.
AccountAfter(account) ==
  \/ account = block.state.account
  \/ node.binary = "old" /\ block.state.account = "none" /\ account = "base"

\* The block is committed, with the stores the process has mounted.
Commit(plan, params, account) ==
  /\ block # NoBlock
  /\ PlanAfter(plan)
  /\ ParamsAfter(params)
  /\ AccountAfter(account)
  /\ chain' = [ block.state EXCEPT !.height = Height, !.plan = plan,
                  !.params = params, !.account = account,
                  !.stores = @ \cup Mounted(node.binary) ]
  /\ block' = NoBlock
  /\ UNCHANGED <<disk, node, added, crashes>>

\* The process dies; the block being executed is lost.
Crash ==
  /\ node # Down
  /\ crashes < MaxCrashes
  /\ crashes' = crashes + 1
  /\ node' = Down
  /\ block' = NoBlock
  /\ added' = {}
  /\ UNCHANGED <<chain, disk>>

PreBlock ==
  \/ PreBlockPlain \/ PreBlockSkip \/ PreBlockApply
  \/ PreBlockPanics \/ PreBlockStops \/ PreBlockFails

CommitBlock ==
  \E plan \in Plans \cup {NoPlan}, params \in {"unset", "default", "custom"},
     account \in {"none", "base", "module"} :
    Commit(plan, params, account)

Next ==
  \/ \E binary \in {"old", "new"}, skip \in 0..MaxHeight : Start(binary, skip)
  \/ PreBlock
  \/ CommitBlock
  \/ Crash

(* A running node makes blocks, and an operator who restarts a stopped     *)
(* node eventually tries each binary without skipping: x/upgrade tells     *)
(* which one is needed.                                                    *)
Fairness ==
  /\ WF_vars(PreBlock)
  /\ WF_vars(CommitBlock)
  /\ SF_vars(Start("old", 0))
  /\ SF_vars(Start("new", 0))

Spec == Init /\ [][Next]_vars /\ Fairness

-----------------------------------------------------------------------------
(* Properties.                                                             *)

\* Every variable keeps its type.
TypeOK ==
  /\ chain \in ChainStates
  /\ block = NoBlock \/ block \in [height : 1..MaxHeight, state : ChainStates]
  /\ disk \in Plans \cup {NoPlan}
  /\ node = Down \/ node \in [binary : {"old", "new"}, skip : 0..MaxHeight]
  /\ added \in SUBSET {tokenfactory}
  /\ crashes \in 0..MaxCrashes

\* Wherever the tokenfactory store is committed, its parameters and its module
\* account are too, so CreateDenom can read them: no crash, skip or binary
\* change around the upgrade height leaves a store without them.
TokenFactoryReady ==
  tokenfactory \in chain.stores =>
    /\ chain.params # "unset"
    /\ chain.account = "module"
    /\ tokenfactory \in chain.versionMap

\* The store loader never adds a store the chain already has, although
\* upgrade-info.json stays on disk for every later start.
StoreAddedOnce ==
  [][ added' # added => added' \cap chain.stores = {} ]_vars

\* Parameters governance has set survive every upgrade.
CustomParamsKept ==
  [][ chain.params = "custom" => chain'.params = "custom" ]_vars

\* On a chain without tokenfactory a scheduled v0.0.10 is eventually applied,
\* skipped or replaced, whatever crashes and wrong binaries come in between,
\* unless somebody has paid in to the module's address before: then
\* CreateModuleAccount panics in every attempt and only a skip gets past it.
UpgradeCompletes ==
  (chain.stores = {} /\ chain.plan # NoPlan /\ chain.plan.name = nameV0010)
    ~> \/ chain.plan = NoPlan \/ chain.plan.name # nameV0010
       \/ chain.account = "base"
=============================================================================
