---------------------------- MODULE TokenFactory ----------------------------
(***************************************************************************)
(* x/tokenfactory on top of the bank module: every message of its message  *)
(* server, the bank calls each one makes, plain bank transfers, a          *)
(* governance change of the creation fee, and a restart of the chain from  *)
(* an exported genesis.  A message either runs to its end or is rolled     *)
(* back by the transaction, so a rejected message is a stuttering step.    *)
(*                                                                         *)
(* An address string is <<holder, spelling>>: bech32 accepts an all-lower  *)
(* and an all-upper spelling of the same address, and AccAddress.String()  *)
(* always gives the lower one.  The empty string is Nobody.                *)
(***************************************************************************)
EXTENDS Integers, FiniteSets, Functions

CONSTANTS
  Accounts,      \* user accounts
  Modules,       \* module accounts of the keeper's permission map
  Blocked,       \* module accounts the bank refuses as recipients
  LateModules,   \* module accounts no InitGenesis creates
  TokenFactoryAcc, DistributionAcc,
  AddrStrings,   \* address strings in use
  SenderStrings, \* those that sign messages (users; gov by proposal)
  Subdenoms,     \* subdenoms in messages
  Native,        \* a denom of the chain itself
  GenesisDenoms, \* factory denoms a genesis file may list
  Contracts,     \* instantiated CosmWasm contracts
  Nobody,        \* the empty address string
  NoHook,        \* no before-send hook
  ContractKeeper,\* "unset", "zero" or "wired": what SetContractKeeper stored
  FeeChoices,    \* creation fees governance may set, in Native
  GenesisHolder, \* the user holding all Native coins at genesis
  NativeSupply,  \* supply of Native
  MaxAmount,     \* bound on the amount of one message
  MaxSupply      \* bound on the supply of a factory denom

Holders == Accounts \cup Modules
AccAddress(s) == s[1]
String(addr) == <<addr, "lower">>

\* factory/{creator}/{subdenom}, the creator as the message spells it.
GetTokenDenom(creator, subdenom) == <<"factory", creator, subdenom>>

FactoryDenoms ==
  { GetTokenDenom(c, s) : c \in SenderStrings, s \in Subdenoms }
Denoms == FactoryDenoms \cup {Native}

\* DeconstructDenom fails on every other denom and normalizes the creator.
Deconstructs(denom) == denom \in FactoryDenoms
CreatorOf(denom) == String(AccAddress(denom[2]))

MetadataValues == {"none", "default", "custom"}
AccountKinds == {"absent", "base", "module"}

ASSUME HoldersAssumption ==
  /\ Blocked \subseteq Modules /\ LateModules \subseteq Modules
  /\ {TokenFactoryAcc, DistributionAcc} \subseteq Modules
  /\ TokenFactoryAcc \in Blocked /\ TokenFactoryAcc # DistributionAcc
  /\ Accounts \cap Modules = {} /\ GenesisHolder \in Accounts
  /\ IsFiniteSet(Holders)

ASSUME StringsAssumption ==
  /\ AddrStrings \subseteq Holders \X {"lower", "upper"}
  /\ Holders \X {"lower"} \subseteq AddrStrings
  /\ SenderStrings \subseteq AddrStrings
  /\ \A s \in SenderStrings : AccAddress(s) # TokenFactoryAcc

ASSUME NamesAssumption ==
  /\ Native \notin FactoryDenoms
  /\ Nobody \notin AddrStrings
  /\ NoHook \notin Contracts
  /\ GenesisDenoms \subseteq FactoryDenoms

ASSUME BoundsAssumption ==
  /\ FeeChoices \subseteq Nat /\ 0 \in FeeChoices
  /\ NativeSupply \in Nat /\ MaxAmount \in Nat /\ MaxSupply \in Nat

VARIABLES
  bal,          \* bank balances, by holder and denom
  supply,       \* bank supply, by denom
  metadata,     \* bank denom metadata, by denom
  admin,        \* authority metadata, by denom; a missing entry reads Nobody
  creatorIndex, \* pairs <<creator string, denom>>
  hook,         \* before-send hook contract, by denom
  fee,          \* params.DenomCreationFee
  accKind,      \* what the auth module stores at a module address
  signer        \* sender string of the last message; Nobody for other steps

bankVars == <<bal, supply, metadata>>
storeVars == <<admin, creatorIndex, hook>>
vars == <<bankVars, storeVars, fee, accKind, signer>>

-----------------------------------------------------------------------------
(* Bank and keeper helpers.                                                *)

HasSupply(denom) == denom \in Denoms /\ supply[denom] > 0

Move(b, from, to, denom, n) ==
  LET paid == [b EXCEPT ![from][denom] = @ - n]
  IN  [paid EXCEPT ![to][denom] = @ + n]

MintCoins(b, denom, n) == [b EXCEPT ![TokenFactoryAcc][denom] = @ + n]
BurnCoins(b, denom, n) == [b EXCEPT ![TokenFactoryAcc][denom] = @ - n]

IsModuleAccBlockedOnly(addr) == addr \in Blocked  \* variant

IsModuleAcc(addr) == addr \in Modules

\* Variant: mint to the module account only.
MintedNotSent(b, addr, denom, n) == MintCoins(b, denom, n)

\* mintTo: coins are created in the module account, then sent on.
MintedTo(b, addr, denom, n) ==
  Move(MintCoins(b, denom, n), TokenFactoryAcc, addr, denom, n)

\* Variants: destroy coins that were not collected; collect without destroying.
BurnedNotCollected(b, addr, denom, n) == BurnCoins(b, denom, n)
CollectedNotBurned(b, addr, denom, n) == Move(b, addr, TokenFactoryAcc, denom, n)

\* burnFrom: coins are collected in the module account, then destroyed.
BurnedFrom(b, addr, denom, n) ==
  BurnCoins(Move(b, addr, TokenFactoryAcc, denom, n), denom, n)

\* An optional address field of a message defaults to the sender.
OrSender(address, sender) == IF address = Nobody THEN sender ELSE address

\* chargeForCreateDenom funds the community pool.
Charged(b, payer) == Move(b, payer, DistributionAcc, Native, fee)

IsAdmin(sender, denom) == sender = admin[denom]

-----------------------------------------------------------------------------
(* Genesis.                                                                *)

\* createDenomAfterValidation files the denom under its normalized creator.
GenesisIndex(S) == { <<CreatorOf(d), d>> : d \in S }

\* Variant: the admin stays the creator createDenomAfterValidation wrote.
GenesisAdminCreator(S, adm) ==
  [d \in Denoms |-> IF d \in S THEN CreatorOf(d) ELSE Nobody]

\* The genesis file's authority metadata replaces the creator as admin.
GenesisAdmin(S, adm) == [d \in Denoms |-> IF d \in S THEN adm[d] ELSE Nobody]

\* Bank genesis runs first; missing metadata of a listed denom is added.
GenesisMetadata(S, before) ==
  [d \in Denoms |-> IF d \in S /\ before[d] = "none" THEN "default"
                                                     ELSE before[d]]

\* ExportGenesis walks the creator index.
ExportedDenoms == { e[2] : e \in creatorIndex }

Init ==
  \E S \in SUBSET GenesisDenoms :
  \E adm \in [S -> SenderStrings \cup {Nobody}] :
  \E nativeMetadata \in {"none", "default"} :
    /\ bal = [h \in Holders |-> [d \in Denoms |->
                IF h = GenesisHolder /\ d = Native THEN NativeSupply ELSE 0]]
    /\ supply = [d \in Denoms |-> IF d = Native THEN NativeSupply ELSE 0]
    /\ metadata = GenesisMetadata(S, [d \in Denoms |->
                    IF d = Native THEN nativeMetadata ELSE "none"])
    /\ admin = GenesisAdmin(S, adm)
    /\ creatorIndex = GenesisIndex(S)
    /\ hook = [d \in Denoms |-> NoHook]
    /\ fee \in FeeChoices
    /\ accKind = [m \in Modules |-> IF m \in LateModules THEN "absent"
                                                         ELSE "module"]
    /\ signer = Nobody

-----------------------------------------------------------------------------
(* Messages.                                                               *)

DenomIsFreeAlways(denom) == TRUE  \* variant: the existence check is dropped

\* validateCreateDenom takes bank metadata as the sign of an existing denom.
DenomIsFree(denom) == metadata[denom] = "none"

NotAdded(creator, denom) == creatorIndex  \* variant

addDenomFromCreator(creator, denom) == creatorIndex \cup {<<creator, denom>>}

CreateDenom(sender, subdenom) ==
  LET denom == GetTokenDenom(sender, subdenom)
      payer == AccAddress(sender)
  IN  /\ ~HasSupply(subdenom)
      /\ DenomIsFree(denom)
      /\ bal[payer][Native] >= fee
      /\ bal' = Charged(bal, payer)
      /\ metadata' = [metadata EXCEPT ![denom] = "default"]
      /\ admin' = [admin EXCEPT ![denom] = sender]
      /\ creatorIndex' = addDenomFromCreator(sender, denom)
      /\ signer' = sender
      /\ UNCHANGED <<supply, hook, fee, accKind>>

Mint(sender, denom, n, mintTo) ==
  LET addr == AccAddress(OrSender(mintTo, sender))
  IN  /\ metadata[denom] # "none"
      /\ IsAdmin(sender, denom)
      /\ Deconstructs(denom)
      /\ ~IsModuleAcc(addr)
      /\ addr \notin Blocked
      /\ supply[denom] + n <= MaxSupply
      /\ bal' = MintedTo(bal, addr, denom, n)
      /\ supply' = [supply EXCEPT ![denom] = @ + n]
      /\ signer' = sender
      /\ UNCHANGED <<metadata, storeVars, fee, accKind>>

(* The account lookup before burnFrom uses the bytes of the address string *)
(* as an address and finds nothing; IsModuleAcc decides.                   *)
Burn(sender, denom, n, burnFrom) ==
  LET addr == AccAddress(OrSender(burnFrom, sender))
  IN  /\ IsAdmin(sender, denom)
      /\ Deconstructs(denom)
      /\ ~IsModuleAcc(addr)
      /\ bal[addr][denom] >= n
      /\ supply[denom] >= n  \* bank panics below zero
      /\ bal' = BurnedFrom(bal, addr, denom, n)
      /\ supply' = [supply EXCEPT ![denom] = @ - n]
      /\ signer' = sender
      /\ UNCHANGED <<metadata, storeVars, fee, accKind>>

(* The loop over the permission map fetches every module account, which    *)
(* creates the missing ones and panics on an address that already holds an *)
(* ordinary account.  An amount of zero is accepted.                       *)
ForceTransfer(sender, denom, n, from, to) ==
  LET src == AccAddress(from)
      dst == AccAddress(to)
  IN  /\ IsAdmin(sender, denom)
      /\ Deconstructs(denom)
      /\ \A m \in Modules : accKind[m] # "base" /\ m # src /\ m # dst
      /\ bal[src][denom] >= n
      /\ bal' = Move(bal, src, dst, denom, n)
      /\ accKind' = [m \in Modules |-> "module"]
      /\ signer' = sender
      /\ UNCHANGED <<supply, metadata, storeVars, fee>>

ChangeAdmin(sender, denom, newAdmin) ==
  /\ Deconstructs(denom)
  /\ IsAdmin(sender, denom)
  /\ admin' = [admin EXCEPT ![denom] = newAdmin]
  /\ signer' = sender
  /\ UNCHANGED <<bankVars, creatorIndex, hook, fee, accKind>>

SetDenomMetadata(sender, denom) ==
  /\ Deconstructs(denom)
  /\ IsAdmin(sender, denom)
  /\ metadata' = [metadata EXCEPT ![denom] = "custom"]
  /\ signer' = sender
  /\ UNCHANGED <<bal, supply, storeVars, fee, accKind>>

\* An unset keeper is an error, a zero keeper panics in Sudo, and a wired one
\* rejects only addresses without a contract.
setBeforeSendHookAccepts(cosmwasmAddress) ==
  \/ cosmwasmAddress = NoHook
  \/ ContractKeeper = "wired" /\ cosmwasmAddress \in Contracts

SetBeforeSendHook(sender, denom, cosmwasmAddress) ==
  /\ Deconstructs(denom)
  /\ IsAdmin(sender, denom)
  /\ setBeforeSendHookAccepts(cosmwasmAddress)
  /\ hook' = [hook EXCEPT ![denom] = cosmwasmAddress]
  /\ signer' = sender
  /\ UNCHANGED <<bankVars, admin, creatorIndex, fee, accKind>>

-----------------------------------------------------------------------------
(* The rest of the chain.                                                  *)

\* MsgSend of the bank; an unknown recipient gets an ordinary account.
BankSend(from, to, denom, n) ==
  LET src == AccAddress(from)
      dst == AccAddress(to)
  IN  /\ dst \notin Blocked
      /\ bal[src][denom] >= n
      /\ bal' = Move(bal, src, dst, denom, n)
      /\ accKind' = [m \in Modules |-> IF m = dst /\ accKind[m] = "absent"
                                         THEN "base" ELSE accKind[m]]
      /\ signer' = from
      /\ UNCHANGED <<supply, metadata, storeVars, fee>>

\* A passed parameter-change proposal.
GovSetFee(newFee) ==
  /\ fee' = newFee
  /\ signer' = Nobody
  /\ UNCHANGED <<bankVars, storeVars, accKind>>

(* Export, then InitGenesis on an empty store: bank and auth state return  *)
(* as they were, the tokenfactory store only as far as its genesis goes.   *)
RestartFromExport ==
  /\ metadata' = GenesisMetadata(ExportedDenoms, metadata)
  /\ admin' = GenesisAdmin(ExportedDenoms, admin)
  /\ creatorIndex' = GenesisIndex(ExportedDenoms)
  /\ hook' = [d \in Denoms |-> NoHook]
  /\ signer' = Nobody
  /\ UNCHANGED <<bal, supply, fee, accKind>>

Message ==
  \E sender \in SenderStrings, denom \in Denoms :
    \/ \E n \in 1..MaxAmount, to \in AddrStrings \cup {Nobody} :
         Mint(sender, denom, n, to) \/ Burn(sender, denom, n, to)
    \/ \E n \in 0..MaxAmount, from, to \in AddrStrings :
         ForceTransfer(sender, denom, n, from, to)
    \/ \E newAdmin \in AddrStrings : ChangeAdmin(sender, denom, newAdmin)
    \/ SetDenomMetadata(sender, denom)
    \/ \E c \in Contracts \cup {NoHook} : SetBeforeSendHook(sender, denom, c)
    \/ \E n \in 1..MaxAmount, to \in AddrStrings : BankSend(sender, to, denom, n)

Next ==
  \/ \E sender \in SenderStrings, s \in Subdenoms : CreateDenom(sender, s)
  \/ Message
  \/ \E newFee \in FeeChoices : GovSetFee(newFee)
  \/ RestartFromExport

Spec == Init /\ [][Next]_vars

-----------------------------------------------------------------------------
(* Properties.                                                             *)

\* Every variable keeps its type; in particular no balance, supply or
\* metadata operation leaves the naturals.
TypeOK ==
  /\ bal \in [Holders -> [Denoms -> Nat]]
  /\ supply \in [Denoms -> Nat]
  /\ metadata \in [Denoms -> MetadataValues]
  /\ admin \in [Denoms -> AddrStrings \cup {Nobody}]
  /\ creatorIndex \subseteq AddrStrings \X FactoryDenoms
  /\ hook \in [Denoms -> Contracts \cup {NoHook}]
  /\ fee \in FeeChoices
  /\ accKind \in [Modules -> AccountKinds]
  /\ signer \in SenderStrings \cup {Nobody}

\* The module account "isn't intended to store any coins": between messages
\* it holds none, of any denom, whoever sends, mints, burns or force-transfers.
ModuleAccountEmpty == \A d \in Denoms : bal[TokenFactoryAcc][d] = 0

\* Bank keeps the books: the balances of every denom add up to its supply,
\* through mint, burn, forced and plain transfers.
SupplyBacked ==
  \A d \in Denoms : SumFunction([h \in Holders |-> bal[h][d]]) = supply[d]

\* The three records of a factory denom agree: it has bank metadata exactly if
\* the creator index lists it, it is listed once and under a spelling of its
\* creator, and a denom that is not listed has no admin, hook or supply.
RegistryCoherent ==
  /\ \A d \in FactoryDenoms : metadata[d] # "none" <=> d \in ExportedDenoms
  /\ \A e \in creatorIndex : AccAddress(e[1]) = AccAddress(e[2][2])
  /\ \A e, f \in creatorIndex : e[2] = f[2] => e = f
  /\ \A d \in Denoms \ ExportedDenoms :
       admin[d] = Nobody /\ hook[d] = NoHook /\ (d # Native => supply[d] = 0)

ByAdmin(d) == signer' # Nobody /\ signer' = admin[d]
ByHolder(h) == signer' # Nobody /\ AccAddress(signer') = h

AuthorityStep ==
  \A d \in ExportedDenoms :
    /\ \/ ByAdmin(d)
       \/ /\ supply'[d] = supply[d]
          /\ admin'[d] = admin[d]
          /\ metadata'[d] = metadata[d]
    /\ ByAdmin(d) \/ hook'[d] = hook[d] \/ signer' = Nobody
    /\ \A h \in Holders : bal'[h][d] < bal[h][d] =>
         ByHolder(h) \/ (ByAdmin(d) /\ h \notin Modules)

\* Only the admin acts on an existing denom: its supply, admin, hook and
\* metadata change only in a message whose sender string is the admin's, and
\* a balance shrinks only by the holder's own message or, unless the holder is
\* a module account, by the admin's.  A restart changes nothing but hooks, and
\* with no admin nobody may mint, burn or move other people's coins.
AuthorityRespected == [][AuthorityStep]_vars

\* A chain restarted from its own export has the tokenfactory store it had.
ExportImportLossless ==
  [][ RestartFromExport => UNCHANGED <<metadata, storeVars>> ]_vars
=============================================================================
