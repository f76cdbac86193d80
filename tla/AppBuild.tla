------------------------------ MODULE AppBuild ------------------------------
(***************************************************************************)
(* app.New with registerIBCModules and registerWasmModules, and the two    *)
(* commands that call it: start and export.  Keepers are fields of App;    *)
(* most of them are structs that are copied into whoever takes them, so a  *)
(* copy keeps what the field held at that moment.  A pointer to a field    *)
(* (&app.WasmKeeper) follows the field and is not a copy.                  *)
(*                                                                         *)
(* ver[c] counts the assignments to component c: 0 is Go's zero value.     *)
(* Store keys are components too: GetKey returns nil before they are       *)
(* registered.  "injected" is what depinject builds in one call.           *)
(***************************************************************************)
EXTENDS Naturals, Sequences

CONSTANTS Commands,  \* "start", "export", "exportAtHeight"
          Latest     \* height of the last commit

ASSUME BuildAssumption ==
  /\ Commands \subseteq {"start", "export", "exportAtHeight"}
  /\ Latest \in Nat \ {0}

VARIABLES command,      \* what the operator runs, and the height it names
          target,
          snapshots,    \* whether there is a snapshot manager
          pc,           \* next statement of New
          ver, copies,  \* [by, of, version]: who copied what, and when
          loaded,       \* height of the loaded stores; 0: not loaded
          outcome       \* running, failed (an error), panicked, built, done

buildVars == <<command, target, snapshots, pc, ver, copies, loaded, outcome>>

-----------------------------------------------------------------------------
(* Statements.  Each assigns components, takes copies of some, and         *)
(* dereferences pointers; an error of a fallible one ends New.             *)

Statement(name, assigns, takes, derefs, fallible) ==
  [name |-> name, assigns |-> assigns, takes |-> takes, derefs |-> derefs,
   fallible |-> fallible]

IBCStores == {"ibcStore", "transferStore", "icahostStore",
              "icacontrollerStore", "tokenfactoryStore"}

AppStores == IBCStores \cup {"wasmStore"}

Stores == << Statement("RegisterStores", IBCStores, {}, {}, TRUE) >>

NewIBCKeeper ==
  << Statement("IBCKeeper", {"IBCKeeper"}, {"ibcStore", "injected"}, {}, FALSE) >>

\* The keepers that take the channel keeper out of the IBC keeper.
ChannelUsers ==
  << Statement("TransferKeeper", {"TransferKeeper"},
       {"transferStore", "injected"}, {"IBCKeeper"}, FALSE),
     Statement("ICAHostKeeper", {"ICAHostKeeper"},
       {"icahostStore", "injected"}, {"IBCKeeper"}, FALSE),
     Statement("ICAControllerKeeper", {"ICAControllerKeeper"},
       {"icacontrollerStore"}, {"IBCKeeper"}, FALSE) >>

IBCKeepers == NewIBCKeeper \o ChannelUsers

NewTokenFactoryKeeper ==
  << Statement("TokenFactoryKeeper", {"TokenFactoryKeeper"},
       {"tokenfactoryStore", "injected"}, {}, FALSE) >>

SetContractKeeper ==
  << Statement("SetContractKeeper", {"TokenFactoryKeeper"}, {"WasmKeeper"}, {}, FALSE) >>

IBCStacks ==
  << Statement("IBCStacks", {"IBCStacks"},
       {"TransferKeeper", "ICAControllerKeeper", "ICAHostKeeper"}, {}, FALSE) >>

registerWasmModules ==
  << Statement("RegisterWasmStore", {"wasmStore"}, {}, {}, TRUE),
     Statement("ReadNodeConfig", {"wasmConfig"}, {}, {}, TRUE),
     Statement("WasmKeeper", {"WasmKeeper"},
       {"wasmStore", "injected", "TransferKeeper", "wasmConfig"}, {"IBCKeeper"}, FALSE),
     Statement("WasmModule", {}, {"injected"}, {}, TRUE),
     Statement("AnteHandler", {"AnteHandler"},
       {"wasmStore", "injected", "IBCKeeper", "wasmConfig"}, {}, TRUE),
     Statement("SnapshotExtension", {}, {}, {}, TRUE),
     Statement("PostHandlerAndAnnotations", {}, {}, {}, TRUE),
     Statement("wasmStack", {"wasmStack"}, {"WasmKeeper"}, {"IBCKeeper"}, FALSE) >>

SetRouters ==
  << Statement("SetRouter", {"router"}, {"IBCStacks", "wasmStack"}, {"IBCKeeper"}, FALSE) >>

IBCModules ==
  << Statement("RegisterModules", {},
       {"IBCKeeper", "TransferKeeper", "TokenFactoryKeeper", "injected"}, {}, TRUE) >>

\* Variant: the contract keeper is set once everything is registered.
registerIBCModulesWiredLast ==
  Stores \o IBCKeepers \o NewTokenFactoryKeeper \o IBCStacks
    \o registerWasmModules \o SetRouters \o IBCModules \o SetContractKeeper

registerIBCModules ==
  Stores \o IBCKeepers \o NewTokenFactoryKeeper \o SetContractKeeper \o IBCStacks
    \o registerWasmModules \o SetRouters \o IBCModules

setupUpgradeHandlers ==
  << Statement("setupUpgradeHandlers", {"storeLoader"},
       {"TokenFactoryKeeper", "injected"}, {}, TRUE) >>

Load == << Statement("Load", {}, {}, {}, TRUE) >>

LoadFirst == Load \o setupUpgradeHandlers  \* variant: stores loaded too early
HandlersAndLoad == setupUpgradeHandlers \o Load

New ==
  << Statement("Inject", {"injected"}, {}, {}, TRUE),
     Statement("Build", {"baseapp"}, {"injected"}, {}, FALSE) >>
    \o registerIBCModules
    \o HandlersAndLoad
    \o << Statement("InitializePinnedCodes", {}, {}, {}, TRUE) >>

Components == UNION {New[i].assigns \cup New[i].takes : i \in 1..Len(New)}

BuildInit ==
  /\ command \in Commands
  /\ target \in (IF command = "exportAtHeight" THEN 1..Latest ELSE {Latest})
  /\ snapshots \in BOOLEAN
  /\ pc = 1
  /\ ver = [c \in Components |-> 0]
  /\ copies = {}
  /\ loaded = 0
  /\ outcome = "running"

-----------------------------------------------------------------------------
(* Execution.                                                              *)

Current == New[pc]
Building == outcome = "running" /\ pc <= Len(New)

\* Only "export --height" asks New not to load the last commit.
loadLatest == command # "exportAtHeight"

\* A nil pointer, or a store read before any version has been loaded.
Panics ==
  \/ \E c \in Current.derefs : ver[c] = 0
  \/ Current.name = "InitializePinnedCodes" /\ loaded = 0

Execute ==
  /\ Building
  /\ ~Panics
  /\ ver' = [c \in Components |-> ver[c] + (IF c \in Current.assigns THEN 1 ELSE 0)]
  /\ copies' = copies \cup
       {[by |-> Current.name, of |-> c, version |-> ver[c]] : c \in Current.takes}
  /\ loaded' = IF Current.name = "Load" /\ loadLatest THEN Latest ELSE loaded
  /\ pc' = pc + 1
  /\ outcome' = IF pc = Len(New) THEN "built" ELSE "running"
  /\ UNCHANGED <<command, target, snapshots>>

ExecutePanics ==
  /\ Building
  /\ Panics
  /\ outcome' = "panicked"
  /\ UNCHANGED <<command, target, snapshots, pc, ver, copies, loaded>>

\* New panics with the error of the statement.  A failure of the first one stands
\* for appExport's refusal of its options as well.
ExecuteFails ==
  /\ Building
  /\ Current.fallible
  /\ Current.name = "SnapshotExtension" => snapshots
  /\ ~Panics
  /\ outcome' = "failed"
  /\ UNCHANGED <<command, target, snapshots, pc, ver, copies, loaded>>

\* The node starts serving, or the export loads the height it was asked for (the
\* last one is loaded already) and writes the state.
Finish ==
  /\ outcome = "built"
  /\ loaded' = IF loadLatest THEN loaded ELSE target
  /\ outcome' = "done"
  /\ UNCHANGED <<command, target, snapshots, pc, ver, copies>>

Ended == outcome \in {"failed", "panicked", "done"} /\ UNCHANGED buildVars

BuildNext == Execute \/ ExecutePanics \/ ExecuteFails \/ Finish \/ Ended

BuildSpec == BuildInit /\ [][BuildNext]_buildVars

-----------------------------------------------------------------------------
(* Properties.                                                             *)

\* No component changes after a built one has been copied: the message server
\* and the upgrade handlers work with the same token factory keeper as the app.
CopiesFinal ==
  outcome \in {"built", "done"} =>
    \A c \in copies : c.version \in {0, ver[c.of]}

\* Stores are loaded once every store of a keeper is registered and the upgrade
\* handlers have had their chance to choose the store loader.
LoadsComplete ==
  loaded # 0 => \A c \in AppStores \cup {"storeLoader"} : ver[c] = 1

\* "Set the wasm keeper" (SetContractKeeper): whatever is copied has been built.
EveryCopyBuilt == \A c \in copies : c.version # 0

\* "appExport creates a new app (optionally at a given height) and exports
\* state": it does not panic where no statement of New has failed.
ExportWorks == command # "start" => outcome # "panicked"
=============================================================================
