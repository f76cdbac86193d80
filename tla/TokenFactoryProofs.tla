-------------------------- MODULE TokenFactoryProofs --------------------------
(***************************************************************************)
(* Tokenfactory's state stays typed, its module account stays empty, its   *)
(* three records of a denom agree and balances add up to the supply, for   *)
(* any accounts, modules, denoms, spellings and bounds; and the factory    *)
(* implements the ledger of TokenLedger.                                   *)
(***************************************************************************)
EXTENDS TokenFactoryLedger, SumTheorems

Balances == [Holders -> [Denoms -> Nat]]

\* Address strings parse to holders, and an omitted address to the sender's.
LEMMA AddressFacts ==
  /\ SenderStrings \subseteq AddrStrings
  /\ \A s \in AddrStrings : AccAddress(s) \in Holders
  /\ \A s \in AddrStrings \cup {Nobody}, t \in SenderStrings :
       OrSender(s, t) \in AddrStrings
  /\ \A h \in Holders : String(h) \in AddrStrings /\ AccAddress(String(h)) = h
BY StringsAssumption DEF AccAddress, OrSender, String

\* A factory denom carries its creator; a denom of genesis is filed under it.
LEMMA DenomFacts ==
  /\ FactoryDenoms \subseteq Denoms /\ Native \in Denoms
  /\ \A c \in SenderStrings, s \in Subdenoms :
       GetTokenDenom(c, s) \in FactoryDenoms /\ GetTokenDenom(c, s)[2] = c
  /\ \A d \in FactoryDenoms :
       /\ d[2] \in SenderStrings
       /\ CreatorOf(d) \in AddrStrings
       /\ AccAddress(CreatorOf(d)) = AccAddress(d[2])
<1>1. \A c \in SenderStrings, s \in Subdenoms :
        GetTokenDenom(c, s) \in FactoryDenoms /\ GetTokenDenom(c, s)[2] = c
  BY DEF FactoryDenoms, GetTokenDenom
<1>2. ASSUME NEW d \in FactoryDenoms PROVE d[2] \in SenderStrings
  <2>1. PICK c \in SenderStrings, s \in Subdenoms : d = GetTokenDenom(c, s)
    BY DEF FactoryDenoms
  <2> QED BY <1>1, <2>1
<1>3. ASSUME NEW d \in FactoryDenoms
      PROVE  CreatorOf(d) \in AddrStrings /\ AccAddress(CreatorOf(d)) = AccAddress(d[2])
  BY <1>2, AddressFacts DEF CreatorOf
<1> QED BY <1>1, <1>2, <1>3 DEF Denoms

\* A covered transfer keeps balances natural and touches two entries.
LEMMA MoveFacts ==
  ASSUME NEW b \in Balances, NEW from \in Holders, NEW to \in Holders,
         NEW denom \in Denoms, NEW n \in Nat, b[from][denom] >= n
  PROVE  /\ Move(b, from, to, denom, n) \in Balances
         /\ \A h \in Holders, d \in Denoms :
              (h # from /\ h # to) \/ d # denom \/ n = 0 =>
                Move(b, from, to, denom, n)[h][d] = b[h][d]
         /\ from # to =>
              /\ Move(b, from, to, denom, n)[from][denom] = b[from][denom] - n
              /\ Move(b, from, to, denom, n)[to][denom] = b[to][denom] + n
         /\ \A h \in Holders, d \in Denoms :
              h # from => Move(b, from, to, denom, n)[h][d] >= b[h][d]
<1> DEFINE c == [b EXCEPT ![from][denom] = @ - n]
           m == Move(b, from, to, denom, n)
<1>1. b[from][denom] \in Nat /\ b[from][denom] - n \in Nat BY DEF Balances
<1>2. c \in Balances BY <1>1 DEF Balances
<1>3. c[to][denom] + n \in Nat BY <1>2 DEF Balances
<1>4. m = [c EXCEPT ![to][denom] = @ + n] BY DEF Move
<1>5. m \in Balances
  <2> HIDE DEF c, m
  <2> QED BY <1>2, <1>3, <1>4 DEF Balances
<1>6. ASSUME NEW h \in Holders, NEW d \in Denoms,
             (h # from /\ h # to) \/ d # denom \/ n = 0
      PROVE  m[h][d] = b[h][d]
  <2>1. c[h][d] = b[h][d] BY <1>1, <1>6 DEF Balances
  <2>2. m[h][d] = c[h][d] BY <1>2, <1>3, <1>4, <1>6 DEF Balances
  <2> QED BY <2>1, <2>2
<1>7. ASSUME from # to
      PROVE  m[from][denom] = b[from][denom] - n /\ m[to][denom] = b[to][denom] + n
  <2>1. c[from][denom] = b[from][denom] - n BY <1>1 DEF Balances
  <2>2. m[from][denom] = c[from][denom] BY <1>2, <1>3, <1>4, <1>7 DEF Balances
  <2>3. c[to][denom] = b[to][denom] BY <1>7 DEF Balances
  <2>4. m[to][denom] = c[to][denom] + n BY <1>2, <1>3, <1>4 DEF Balances
  <2> QED BY <2>1, <2>2, <2>3, <2>4
<1>8. ASSUME NEW h \in Holders, NEW d \in Denoms, h # from
      PROVE  m[h][d] >= b[h][d]
  <2>1. c[h][d] = b[h][d] BY <1>8 DEF Balances
  <2>2. c[h][d] \in Nat BY <1>2 DEF Balances
  <2>3. m[h][d] = c[h][d] \/ m[h][d] = c[h][d] + n
    BY <1>2, <1>3, <1>4 DEF Balances
  <2> HIDE DEF c, m
  <2> QED BY <2>1, <2>2, <2>3
<1> QED BY <1>5, <1>6, <1>7, <1>8

\* Minting through the module account leaves that account as it was.
LEMMA MintedToFacts ==
  ASSUME NEW b \in Balances, NEW addr \in Holders, addr # TokenFactoryAcc,
         NEW denom \in Denoms, NEW n \in Nat
  PROVE  /\ MintedTo(b, addr, denom, n) \in Balances
         /\ \A d \in Denoms :
              MintedTo(b, addr, denom, n)[TokenFactoryAcc][d] = b[TokenFactoryAcc][d]
         /\ \A h \in Holders, d \in Denoms :
              h # addr \/ d # denom => MintedTo(b, addr, denom, n)[h][d] = b[h][d]
<1> DEFINE c == MintCoins(b, denom, n)
<1>1. TokenFactoryAcc \in Holders BY HoldersAssumption DEF Holders
<1>2. b[TokenFactoryAcc][denom] \in Nat BY <1>1 DEF Balances
<1>3. c \in Balances BY <1>1, <1>2 DEF Balances, MintCoins
<1>4. c[TokenFactoryAcc][denom] = b[TokenFactoryAcc][denom] + n
  BY <1>1 DEF Balances, MintCoins
<1>5. \A d \in Denoms : d # denom => c[TokenFactoryAcc][d] = b[TokenFactoryAcc][d]
  BY <1>1 DEF Balances, MintCoins
<1> DEFINE m == Move(c, TokenFactoryAcc, addr, denom, n)
<1>6. MintedTo(b, addr, denom, n) = m BY DEF MintedTo
<1> HIDE DEF c
<1>7. c[TokenFactoryAcc][denom] >= n BY <1>2, <1>4
<1>8. m \in Balances BY <1>1, <1>3, <1>7, MoveFacts
<1>9. m[TokenFactoryAcc][denom] = c[TokenFactoryAcc][denom] - n
  BY <1>1, <1>3, <1>7, MoveFacts
<1>10. \A d \in Denoms : d # denom => m[TokenFactoryAcc][d] = c[TokenFactoryAcc][d]
  BY <1>1, <1>3, <1>7, MoveFacts
<1> HIDE DEF m
<1>11. m[TokenFactoryAcc][denom] = b[TokenFactoryAcc][denom] BY <1>2, <1>4, <1>9
<1>12. ASSUME NEW h \in Holders, NEW d \in Denoms, h # addr \/ d # denom
       PROVE  m[h][d] = b[h][d]
  <2>1. CASE h = TokenFactoryAcc BY <2>1, <1>5, <1>10, <1>11
  <2>2. CASE h # TokenFactoryAcc
    <3>1. c[h][d] = b[h][d] BY <1>1, <2>2 DEF Balances, MintCoins, c
    <3>2. m[h][d] = c[h][d] BY <1>1, <1>3, <1>7, <1>12, <2>2, MoveFacts DEF m
    <3> QED BY <3>1, <3>2
  <2> QED BY <2>1, <2>2
<1> QED BY <1>5, <1>6, <1>8, <1>10, <1>11, <1>12

\* Burning through the module account leaves that account as it was.
LEMMA BurnedFromFacts ==
  ASSUME NEW b \in Balances, NEW addr \in Holders, addr # TokenFactoryAcc,
         NEW denom \in Denoms, NEW n \in Nat, b[addr][denom] >= n
  PROVE  /\ BurnedFrom(b, addr, denom, n) \in Balances
         /\ \A d \in Denoms :
              BurnedFrom(b, addr, denom, n)[TokenFactoryAcc][d] = b[TokenFactoryAcc][d]
         /\ \A h \in Holders, d \in Denoms :
              h # addr \/ d # denom => BurnedFrom(b, addr, denom, n)[h][d] = b[h][d]
<1> DEFINE paid == [b EXCEPT ![addr][denom] = @ - n]
           m == Move(b, addr, TokenFactoryAcc, denom, n)
           r == BurnedFrom(b, addr, denom, n)
<1>1. TokenFactoryAcc \in Holders BY HoldersAssumption DEF Holders
<1>2. b[TokenFactoryAcc][denom] \in Nat BY <1>1 DEF Balances
<1>3. m \in Balances BY <1>1, MoveFacts
<1>4. m[TokenFactoryAcc][denom] = b[TokenFactoryAcc][denom] + n
  <2>1. paid \in Balances BY DEF Balances
  <2>2. paid[TokenFactoryAcc][denom] = b[TokenFactoryAcc][denom] BY <1>1 DEF Balances
  <2>3. m = [paid EXCEPT ![TokenFactoryAcc][denom] = @ + n] BY DEF Move
  <2> HIDE DEF paid, m
  <2> QED BY <1>1, <2>1, <2>2, <2>3 DEF Balances
<1>5. \A d \in Denoms : d # denom => m[TokenFactoryAcc][d] = b[TokenFactoryAcc][d]
  BY <1>1, MoveFacts
<1>6. r = [m EXCEPT ![TokenFactoryAcc][denom] = @ - n] BY DEF BurnedFrom, BurnCoins
<1> HIDE DEF m, r
<1>7. m[TokenFactoryAcc][denom] - n \in Nat BY <1>2, <1>4
<1>8. r \in Balances BY <1>1, <1>3, <1>6, <1>7 DEF Balances
<1>9. r[TokenFactoryAcc][denom] = m[TokenFactoryAcc][denom] - n
  BY <1>1, <1>3, <1>6 DEF Balances
<1>10. \A d \in Denoms : d # denom => r[TokenFactoryAcc][d] = m[TokenFactoryAcc][d]
  BY <1>1, <1>3, <1>6 DEF Balances
<1>11. r[TokenFactoryAcc][denom] = b[TokenFactoryAcc][denom] BY <1>2, <1>4, <1>9
<1>12. ASSUME NEW h \in Holders, NEW d \in Denoms, h # addr \/ d # denom
       PROVE  r[h][d] = b[h][d]
  <2>1. CASE h = TokenFactoryAcc BY <2>1, <1>5, <1>10, <1>11
  <2>2. CASE h # TokenFactoryAcc
    <3>1. m[h][d] = b[h][d] BY <1>1, <1>12, <2>2, MoveFacts DEF m
    <3>2. r[h][d] = m[h][d] BY <1>1, <1>3, <1>6, <2>2 DEF Balances
    <3> QED BY <3>1, <3>2
  <2> QED BY <2>1, <2>2
<1> QED BY <1>5, <1>8, <1>10, <1>11, <1>12 DEF r

-----------------------------------------------------------------------------
(* The inductive invariant: an empty module account needs typed balances,  *)
(* and that only existing denoms are minted, described or hooked needs     *)
(* that a denom outside the registry has no admin.                         *)

IInv ==
  /\ TypeOK
  /\ ModuleAccountEmpty
  /\ RegistryCoherent

\* An admin of a denom exists only for a listed factory denom.
LEMMA AdminMeansListed ==
  ASSUME IInv, NEW sender \in SenderStrings, NEW denom \in Denoms,
         IsAdmin(sender, denom)
  PROVE  denom \in ExportedDenoms
<1>1. sender # Nobody BY AddressFacts, NamesAssumption
<1> QED BY <1>1 DEF IInv, RegistryCoherent, IsAdmin

\* Listed denoms are factory denoms.
LEMMA ListedAreFactory ==
  ASSUME TypeOK
  PROVE  ExportedDenoms \subseteq FactoryDenoms
BY DEF TypeOK, ExportedDenoms

\* A genesis index lists the denoms it was built from.
LEMMA GenesisIndexLists ==
  ASSUME NEW S PROVE { e[2] : e \in GenesisIndex(S) } = S
<1>1. ASSUME NEW d \in S PROVE d \in { e[2] : e \in GenesisIndex(S) }
  <2>1. <<CreatorOf(d), d>> \in GenesisIndex(S) BY DEF GenesisIndex
  <2>2. <<CreatorOf(d), d>>[2] = d OBVIOUS
  <2> QED BY <2>1, <2>2
<1>2. ASSUME NEW e \in GenesisIndex(S) PROVE e[2] \in S
  <2>1. PICK d \in S : e = <<CreatorOf(d), d>> BY DEF GenesisIndex
  <2> QED BY <2>1
<1> QED BY <1>1, <1>2

\* A genesis state satisfies the invariant.
LEMMA InitIInv == Init => IInv
<1> SUFFICES ASSUME Init PROVE IInv OBVIOUS
<1>0. PICK S \in SUBSET GenesisDenoms :
        \E adm \in [S -> SenderStrings \cup {Nobody}] :
        \E nativeMetadata \in {"none", "default"} :
          /\ metadata = GenesisMetadata(S, [d \in Denoms |->
                          IF d = Native THEN nativeMetadata ELSE "none"])
          /\ admin = GenesisAdmin(S, adm)
          /\ creatorIndex = GenesisIndex(S)
  BY DEF Init
<1>1. PICK adm \in [S -> SenderStrings \cup {Nobody}],
           nativeMetadata \in {"none", "default"} :
        /\ metadata = GenesisMetadata(S, [d \in Denoms |->
                        IF d = Native THEN nativeMetadata ELSE "none"])
        /\ admin = GenesisAdmin(S, adm)
        /\ creatorIndex = GenesisIndex(S)
  BY <1>0
<1>2. S \subseteq FactoryDenoms BY NamesAssumption
<1>3. ExportedDenoms = S
  BY <1>1, GenesisIndexLists DEF ExportedDenoms
<1>4. /\ bal = [h \in Holders |-> [d \in Denoms |->
                 IF h = GenesisHolder /\ d = Native THEN NativeSupply ELSE 0]]
      /\ supply = [d \in Denoms |-> IF d = Native THEN NativeSupply ELSE 0]
      /\ hook = [d \in Denoms |-> NoHook]
      /\ fee \in FeeChoices
      /\ accKind = [m \in Modules |-> IF m \in LateModules THEN "absent" ELSE "module"]
      /\ signer = Nobody
  BY DEF Init
<1>5. TypeOK
  <2>1. bal \in [Holders -> [Denoms -> Nat]] /\ supply \in [Denoms -> Nat]
    BY <1>4, BoundsAssumption
  <2>2. metadata \in [Denoms -> MetadataValues]
    BY <1>1 DEF GenesisMetadata, MetadataValues
  <2>3. admin \in [Denoms -> AddrStrings \cup {Nobody}]
    BY <1>1, AddressFacts DEF GenesisAdmin
  <2>4. creatorIndex \subseteq AddrStrings \X FactoryDenoms
    BY <1>1, <1>2, DenomFacts DEF GenesisIndex
  <2>5. /\ hook \in [Denoms -> Contracts \cup {NoHook}]
        /\ accKind \in [Modules -> AccountKinds]
    BY <1>4 DEF AccountKinds
  <2> QED BY <2>1, <2>2, <2>3, <2>4, <2>5, <1>4 DEF TypeOK
<1>6. ModuleAccountEmpty
  BY <1>4, HoldersAssumption DEF ModuleAccountEmpty, Holders
<1>7. RegistryCoherent
  <2>1. \A d \in FactoryDenoms : metadata[d] # "none" <=> d \in S
    BY <1>1, DenomFacts, NamesAssumption DEF GenesisMetadata
  <2>2. \A e \in creatorIndex : \E d \in S : e = <<CreatorOf(d), d>>
    BY <1>1 DEF GenesisIndex
  <2>3. \A e \in creatorIndex : AccAddress(e[1]) = AccAddress(e[2][2])
    BY <1>2, <2>2, DenomFacts
  <2>4. \A e, f \in creatorIndex : e[2] = f[2] => e = f BY <2>2
  <2>5. \A d \in Denoms \ S :
          admin[d] = Nobody /\ hook[d] = NoHook /\ (d # Native => supply[d] = 0)
    BY <1>1, <1>4 DEF GenesisAdmin
  <2> QED BY <1>3, <2>1, <2>3, <2>4, <2>5 DEF RegistryCoherent
<1> QED BY <1>5, <1>6, <1>7 DEF IInv

\* Balances after a step: typed, with the module account still empty.
SafeBalances(b) == b \in Balances /\ \A d \in Denoms : b[TokenFactoryAcc][d] = 0

\* A covered transfer between other accounts keeps balances safe.
LEMMA MoveSafe ==
  ASSUME SafeBalances(bal), NEW from \in Holders, NEW to \in Holders,
         from # TokenFactoryAcc, to # TokenFactoryAcc,
         NEW denom \in Denoms, NEW n \in Nat, bal[from][denom] >= n
  PROVE  SafeBalances(Move(bal, from, to, denom, n))
<1>1. TokenFactoryAcc \in Holders BY HoldersAssumption DEF Holders
<1> QED BY <1>1, MoveFacts DEF SafeBalances

\* A pair added to the creator index lists its denom.
LEMMA AddDenomLists ==
  ASSUME NEW creator, NEW denom,
         creatorIndex' = creatorIndex \cup {<<creator, denom>>}
  PROVE  ExportedDenoms' = ExportedDenoms \cup {denom}
<1>1. ASSUME NEW d \in ExportedDenoms' PROVE d \in ExportedDenoms \cup {denom}
  <2>1. PICK e \in creatorIndex \cup {<<creator, denom>>} : d = e[2]
    BY DEF ExportedDenoms
  <2> QED BY <2>1 DEF ExportedDenoms
<1>2. ASSUME NEW d \in ExportedDenoms PROVE d \in ExportedDenoms'
  BY DEF ExportedDenoms
<1>3. denom \in ExportedDenoms'
  <2>1. <<creator, denom>> \in creatorIndex' OBVIOUS
  <2>2. <<creator, denom>>[2] = denom OBVIOUS
  <2> QED BY <2>1, <2>2 DEF ExportedDenoms
<1> QED BY <1>1, <1>2, <1>3

\* Creating a denom adds exactly one fresh entry to all three records.
LEMMA CreateDenomIInv ==
  ASSUME IInv, NEW sender \in SenderStrings, NEW subdenom \in Subdenoms,
         CreateDenom(sender, subdenom)
  PROVE  IInv'
<1> DEFINE denom == GetTokenDenom(sender, subdenom)
<1> USE DEF IInv
<1>1. denom \in FactoryDenoms /\ denom[2] = sender /\ denom \in Denoms
  BY DenomFacts
<1>2. sender \in AddrStrings BY AddressFacts
<1> HIDE DEF denom
<1>3. /\ metadata[denom] = "none"
      /\ bal[AccAddress(sender)][Native] >= fee
      /\ bal' = Move(bal, AccAddress(sender), DistributionAcc, Native, fee)
      /\ metadata' = [metadata EXCEPT ![denom] = "default"]
      /\ admin' = [admin EXCEPT ![denom] = sender]
      /\ creatorIndex' = creatorIndex \cup {<<sender, denom>>}
      /\ signer' = sender
      /\ UNCHANGED <<supply, hook, fee, accKind>>
  BY DEF CreateDenom, DenomIsFree, Charged, addDenomFromCreator, denom
<1>4. SafeBalances(bal')
  <2>1. AccAddress(sender) \in Holders /\ AccAddress(sender) # TokenFactoryAcc
    BY AddressFacts, StringsAssumption
  <2>2. /\ AccAddress(sender) \in Holders /\ DistributionAcc \in Holders
        /\ AccAddress(sender) # TokenFactoryAcc /\ DistributionAcc # TokenFactoryAcc
    BY <2>1, HoldersAssumption DEF Holders
  <2>3. fee \in Nat BY BoundsAssumption DEF TypeOK
  <2>4. SafeBalances(bal) BY DEF SafeBalances, TypeOK, ModuleAccountEmpty, Balances
  <2> QED BY <1>3, <2>2, <2>3, <2>4, DenomFacts, MoveSafe
<1>5. ExportedDenoms' = ExportedDenoms \cup {denom} BY <1>3, AddDenomLists
<1>6. denom \notin ExportedDenoms BY <1>1, <1>3 DEF RegistryCoherent
<1>7. TypeOK'
  BY <1>1, <1>2, <1>3, <1>4 DEF TypeOK, SafeBalances, Balances, MetadataValues
<1>8. ModuleAccountEmpty' BY <1>4 DEF ModuleAccountEmpty, SafeBalances
<1>9. RegistryCoherent'
  <2>1. (\A d \in FactoryDenoms : metadata[d] # "none" <=> d \in ExportedDenoms)'
    BY <1>1, <1>3, <1>5, DenomFacts DEF RegistryCoherent, TypeOK
  <2>2. (\A e \in creatorIndex : AccAddress(e[1]) = AccAddress(e[2][2]))'
    BY <1>1, <1>3 DEF RegistryCoherent
  <2>3. (\A e, f \in creatorIndex : e[2] = f[2] => e = f)'
    BY <1>3, <1>6 DEF RegistryCoherent, ExportedDenoms
  <2>4. (\A d \in Denoms \ ExportedDenoms :
           admin[d] = Nobody /\ hook[d] = NoHook /\ (d # Native => supply[d] = 0))'
    BY <1>1, <1>3, <1>5 DEF RegistryCoherent, TypeOK
  <2> QED BY <2>1, <2>2, <2>3, <2>4 DEF RegistryCoherent
<1> QED BY <1>7, <1>8, <1>9

\* The registry depends on the supply only through its zeroes.
LEMMA SupplyStep ==
  ASSUME IInv, NEW denom \in ExportedDenoms, NEW n \in Nat,
         supply' = [supply EXCEPT ![denom] = n],
         UNCHANGED <<metadata, storeVars>>
  PROVE  RegistryCoherent' /\ supply' \in [Denoms -> Nat]
<1>1. denom \in Denoms BY ListedAreFactory, DenomFacts DEF IInv
<1>2. ExportedDenoms' = ExportedDenoms BY DEF ExportedDenoms, storeVars
<1>3. (\A d \in Denoms \ ExportedDenoms :
         admin[d] = Nobody /\ hook[d] = NoHook /\ (d # Native => supply[d] = 0))'
  BY <1>1, <1>2 DEF IInv, RegistryCoherent, TypeOK, storeVars
<1>4. supply' \in [Denoms -> Nat] BY <1>1 DEF IInv, TypeOK
<1> QED BY <1>2, <1>3, <1>4 DEF IInv, RegistryCoherent, storeVars

\* Minting keeps the invariant.
LEMMA MintIInv ==
  ASSUME IInv, NEW sender \in SenderStrings, NEW denom \in Denoms,
         NEW n \in 1..MaxAmount, NEW mintTo \in AddrStrings \cup {Nobody},
         Mint(sender, denom, n, mintTo)
  PROVE  IInv'
<1> DEFINE addr == AccAddress(OrSender(mintTo, sender))
<1>1. denom \in ExportedDenoms BY AdminMeansListed DEF Mint
<1>2. addr \in Holders BY AddressFacts
<1>3. /\ addr \notin Modules
      /\ bal' = MintedTo(bal, addr, denom, n)
      /\ supply' = [supply EXCEPT ![denom] = @ + n]
      /\ signer' = sender
      /\ UNCHANGED <<metadata, storeVars, fee, accKind>>
  BY DEF Mint, IsModuleAcc
<1> HIDE DEF addr
<1>4. n \in Nat /\ supply[denom] + n \in Nat
  BY BoundsAssumption DEF IInv, TypeOK
<1>5. bal \in Balances BY DEF IInv, TypeOK, Balances
<1>6. addr # TokenFactoryAcc BY <1>3, HoldersAssumption
<1>7. /\ bal' \in Balances
      /\ \A d \in Denoms : bal'[TokenFactoryAcc][d] = bal[TokenFactoryAcc][d]
  BY <1>2, <1>3, <1>4, <1>5, <1>6, MintedToFacts
<1>8. RegistryCoherent' /\ supply' \in [Denoms -> Nat]
  BY <1>1, <1>3, <1>4, SupplyStep
<1>9. TypeOK' BY <1>3, <1>7, <1>8 DEF IInv, TypeOK, Balances, storeVars
<1>10. ModuleAccountEmpty' BY <1>7 DEF IInv, ModuleAccountEmpty
<1> QED BY <1>8, <1>9, <1>10 DEF IInv

\* Burning keeps the invariant.
LEMMA BurnIInv ==
  ASSUME IInv, NEW sender \in SenderStrings, NEW denom \in Denoms,
         NEW n \in 1..MaxAmount, NEW burnFrom \in AddrStrings \cup {Nobody},
         Burn(sender, denom, n, burnFrom)
  PROVE  IInv'
<1> DEFINE addr == AccAddress(OrSender(burnFrom, sender))
<1>1. denom \in ExportedDenoms BY AdminMeansListed DEF Burn
<1>2. addr \in Holders BY AddressFacts
<1>3. /\ addr \notin Modules
      /\ bal[addr][denom] >= n /\ supply[denom] >= n
      /\ bal' = BurnedFrom(bal, addr, denom, n)
      /\ supply' = [supply EXCEPT ![denom] = @ - n]
      /\ signer' = sender
      /\ UNCHANGED <<metadata, storeVars, fee, accKind>>
  BY DEF Burn, IsModuleAcc
<1> HIDE DEF addr
<1>4. n \in Nat /\ supply[denom] - n \in Nat
  BY <1>3, BoundsAssumption DEF IInv, TypeOK
<1>5. bal \in Balances BY DEF IInv, TypeOK, Balances
<1>6. addr # TokenFactoryAcc BY <1>3, HoldersAssumption
<1>7. /\ bal' \in Balances
      /\ \A d \in Denoms : bal'[TokenFactoryAcc][d] = bal[TokenFactoryAcc][d]
  BY <1>2, <1>3, <1>4, <1>5, <1>6, BurnedFromFacts
<1>8. RegistryCoherent' /\ supply' \in [Denoms -> Nat]
  BY <1>1, <1>3, <1>4, SupplyStep
<1>9. TypeOK' BY <1>3, <1>7, <1>8 DEF IInv, TypeOK, Balances, storeVars
<1>10. ModuleAccountEmpty' BY <1>7 DEF IInv, ModuleAccountEmpty
<1> QED BY <1>8, <1>9, <1>10 DEF IInv

\* A step that moves coins between holders other than the module account and
\* leaves the registry alone keeps the invariant.
LEMMA TransferIInv ==
  ASSUME IInv, NEW from \in Holders, NEW to \in Holders,
         from # TokenFactoryAcc, to # TokenFactoryAcc,
         NEW denom \in Denoms, NEW n \in Nat, bal[from][denom] >= n,
         bal' = Move(bal, from, to, denom, n),
         accKind' \in [Modules -> AccountKinds], signer' \in SenderStrings,
         UNCHANGED <<supply, metadata, storeVars, fee>>
  PROVE  IInv'
<1>1. SafeBalances(bal)
  BY DEF IInv, SafeBalances, TypeOK, ModuleAccountEmpty, Balances
<1>2. SafeBalances(bal') BY <1>1, MoveSafe
<1>3. TypeOK' BY <1>2 DEF IInv, TypeOK, SafeBalances, Balances, storeVars
<1>4. ModuleAccountEmpty' BY <1>2 DEF ModuleAccountEmpty, SafeBalances
<1>5. RegistryCoherent'
  BY DEF IInv, RegistryCoherent, ExportedDenoms, storeVars
<1> QED BY <1>3, <1>4, <1>5 DEF IInv

\* A forced transfer keeps the invariant: no module account takes part.
LEMMA ForceTransferIInv ==
  ASSUME IInv, NEW sender \in SenderStrings, NEW denom \in Denoms,
         NEW n \in 0..MaxAmount, NEW from \in AddrStrings, NEW to \in AddrStrings,
         ForceTransfer(sender, denom, n, from, to)
  PROVE  IInv'
<1>1. AccAddress(from) \in Holders /\ AccAddress(to) \in Holders BY AddressFacts
<1>2. TokenFactoryAcc \in Modules BY HoldersAssumption
<1>3. AccAddress(from) # TokenFactoryAcc /\ AccAddress(to) # TokenFactoryAcc
  BY <1>2 DEF ForceTransfer
<1>4. accKind' \in [Modules -> AccountKinds] BY DEF ForceTransfer, AccountKinds
<1>5. n \in Nat BY BoundsAssumption
<1>6. /\ bal[AccAddress(from)][denom] >= n
      /\ bal' = Move(bal, AccAddress(from), AccAddress(to), denom, n)
      /\ signer' \in SenderStrings
      /\ UNCHANGED <<supply, metadata, storeVars, fee>>
  BY DEF ForceTransfer
<1> QED BY <1>1, <1>3, <1>4, <1>5, <1>6, TransferIInv

\* A bank send keeps the invariant: the module account is blocked and never
\* signs.
LEMMA BankSendIInv ==
  ASSUME IInv, NEW sender \in SenderStrings, NEW denom \in Denoms,
         NEW n \in 1..MaxAmount, NEW to \in AddrStrings,
         BankSend(sender, to, denom, n)
  PROVE  IInv'
<1>1. AccAddress(sender) \in Holders /\ AccAddress(to) \in Holders BY AddressFacts
<1>2. SenderStrings \subseteq AddrStrings BY AddressFacts
<1>3. AccAddress(sender) # TokenFactoryAcc BY StringsAssumption
<1>4. AccAddress(to) # TokenFactoryAcc BY HoldersAssumption DEF BankSend
<1>5. accKind' \in [Modules -> AccountKinds]
  BY DEF BankSend, IInv, TypeOK, AccountKinds
<1>6. n \in Nat BY BoundsAssumption
<1>7. /\ bal[AccAddress(sender)][denom] >= n
      /\ bal' = Move(bal, AccAddress(sender), AccAddress(to), denom, n)
      /\ signer' \in SenderStrings
      /\ UNCHANGED <<supply, metadata, storeVars, fee>>
  BY DEF BankSend
<1> QED BY <1>1, <1>3, <1>4, <1>5, <1>6, <1>7, TransferIInv

\* Admin, metadata and hook messages keep the invariant: they reach only
\* listed denoms.
LEMMA AdminStepIInv ==
  ASSUME IInv, NEW denom \in ExportedDenoms,
         admin' \in [Denoms -> AddrStrings \cup {Nobody}],
         hook' \in [Denoms -> Contracts \cup {NoHook}],
         metadata' \in [Denoms -> MetadataValues],
         metadata[denom] # "none" => metadata'[denom] # "none",
         \A d \in Denoms : d # denom =>
           admin'[d] = admin[d] /\ hook'[d] = hook[d] /\ metadata'[d] = metadata[d],
         signer' \in SenderStrings,
         UNCHANGED <<bal, supply, creatorIndex, fee, accKind>>
  PROVE  IInv'
<1>1. denom \in FactoryDenoms BY ListedAreFactory DEF IInv
<1>2. ExportedDenoms' = ExportedDenoms BY DEF ExportedDenoms
<1>3. TypeOK' BY DEF IInv, TypeOK
<1>4. ModuleAccountEmpty' BY DEF IInv, ModuleAccountEmpty
<1>5. RegistryCoherent'
  <2>1. (\A d \in FactoryDenoms : metadata[d] # "none" <=> d \in ExportedDenoms)'
    BY <1>1, <1>2, DenomFacts DEF IInv, RegistryCoherent
  <2>2. (\A d \in Denoms \ ExportedDenoms :
           admin[d] = Nobody /\ hook[d] = NoHook /\ (d # Native => supply[d] = 0))'
    BY <1>2 DEF IInv, RegistryCoherent
  <2> QED BY <2>1, <2>2 DEF IInv, RegistryCoherent
<1> QED BY <1>3, <1>4, <1>5 DEF IInv

\* Handing a denom to a new admin keeps the invariant.
LEMMA ChangeAdminIInv ==
  ASSUME IInv, NEW sender \in SenderStrings, NEW denom \in Denoms,
         NEW newAdmin \in AddrStrings, ChangeAdmin(sender, denom, newAdmin)
  PROVE  IInv'
<1>1. denom \in ExportedDenoms BY AdminMeansListed DEF ChangeAdmin
<1>2. /\ admin' = [admin EXCEPT ![denom] = newAdmin] /\ signer' = sender
      /\ UNCHANGED <<bal, supply, metadata, creatorIndex, hook, fee, accKind>>
  BY DEF ChangeAdmin, bankVars
<1>3. admin' \in [Denoms -> AddrStrings \cup {Nobody}] BY <1>2 DEF IInv, TypeOK
<1>4. \A d \in Denoms : d # denom => admin'[d] = admin[d]
  BY <1>2 DEF IInv, TypeOK
<1>5. hook' \in [Denoms -> Contracts \cup {NoHook}] /\ metadata' \in [Denoms -> MetadataValues]
  BY <1>2 DEF IInv, TypeOK
<1> QED BY <1>1, <1>2, <1>3, <1>4, <1>5, AdminStepIInv

\* Overwriting bank metadata keeps the invariant.
LEMMA SetDenomMetadataIInv ==
  ASSUME IInv, NEW sender \in SenderStrings, NEW denom \in Denoms,
         SetDenomMetadata(sender, denom)
  PROVE  IInv'
<1>1. denom \in ExportedDenoms BY AdminMeansListed DEF SetDenomMetadata
<1>2. /\ metadata' = [metadata EXCEPT ![denom] = "custom"] /\ signer' = sender
      /\ UNCHANGED <<bal, supply, admin, creatorIndex, hook, fee, accKind>>
  BY DEF SetDenomMetadata, storeVars
<1>3. metadata' \in [Denoms -> MetadataValues] /\ metadata'[denom] # "none"
  BY <1>2 DEF IInv, TypeOK, MetadataValues
<1>4. \A d \in Denoms : d # denom => metadata'[d] = metadata[d]
  BY <1>2 DEF IInv, TypeOK
<1>5. /\ hook' \in [Denoms -> Contracts \cup {NoHook}]
      /\ admin' \in [Denoms -> AddrStrings \cup {Nobody}]
  BY <1>2 DEF IInv, TypeOK
<1> QED BY <1>1, <1>2, <1>3, <1>4, <1>5, AdminStepIInv

\* Setting or deleting a hook keeps the invariant.
LEMMA SetBeforeSendHookIInv ==
  ASSUME IInv, NEW sender \in SenderStrings, NEW denom \in Denoms,
         NEW c \in Contracts \cup {NoHook}, SetBeforeSendHook(sender, denom, c)
  PROVE  IInv'
<1>1. denom \in ExportedDenoms BY AdminMeansListed DEF SetBeforeSendHook
<1>2. /\ hook' = [hook EXCEPT ![denom] = c] /\ signer' = sender
      /\ UNCHANGED <<bal, supply, metadata, admin, creatorIndex, fee, accKind>>
  BY DEF SetBeforeSendHook, bankVars
<1>3. hook' \in [Denoms -> Contracts \cup {NoHook}] BY <1>2 DEF IInv, TypeOK
<1>4. \A d \in Denoms : d # denom => hook'[d] = hook[d]
  BY <1>2 DEF IInv, TypeOK
<1>5. /\ metadata' \in [Denoms -> MetadataValues]
      /\ admin' \in [Denoms -> AddrStrings \cup {Nobody}]
  BY <1>2 DEF IInv, TypeOK
<1> QED BY <1>1, <1>2, <1>3, <1>4, <1>5, AdminStepIInv

\* A restart lists the same denoms under the same admins, each with the
\* metadata it had.
LEMMA RestartKeeps ==
  ASSUME IInv, RestartFromExport
  PROVE  /\ ExportedDenoms' = ExportedDenoms
         /\ admin' = admin
         /\ metadata' = metadata
<1>1. ExportedDenoms' = ExportedDenoms
  BY GenesisIndexLists DEF RestartFromExport, ExportedDenoms
<1>2. admin' = admin
  BY DEF RestartFromExport, GenesisAdmin, IInv, RegistryCoherent, TypeOK
<1>3. metadata' = metadata
  <2>1. \A d \in ExportedDenoms : metadata[d] # "none"
    BY ListedAreFactory DEF IInv, RegistryCoherent
  <2>2. metadata' = [d \in Denoms |-> metadata[d]]
    BY <2>1 DEF RestartFromExport, GenesisMetadata
  <2> QED BY <2>2 DEF IInv, TypeOK
<1> QED BY <1>1, <1>2, <1>3

\* A restart from the exported genesis keeps the invariant.
LEMMA RestartIInv ==
  ASSUME IInv, RestartFromExport
  PROVE  IInv'
<1>1. ExportedDenoms' = ExportedDenoms /\ admin' = admin /\ metadata' = metadata
  BY RestartKeeps
<1>2. /\ creatorIndex' = GenesisIndex(ExportedDenoms)
      /\ hook' = [d \in Denoms |-> NoHook] /\ signer' = Nobody
      /\ UNCHANGED <<bal, supply, fee, accKind>>
  BY DEF RestartFromExport
<1>3. ExportedDenoms \subseteq FactoryDenoms BY ListedAreFactory DEF IInv
<1>4. \A e \in creatorIndex' : \E d \in ExportedDenoms : e = <<CreatorOf(d), d>>
  BY <1>2 DEF GenesisIndex
<1>5. TypeOK'
  <2>1. creatorIndex' \subseteq AddrStrings \X FactoryDenoms
    BY <1>3, <1>4, DenomFacts
  <2> QED BY <1>1, <1>2, <2>1 DEF IInv, TypeOK
<1>6. ModuleAccountEmpty' BY <1>2 DEF IInv, ModuleAccountEmpty
<1>7. RegistryCoherent'
  <2>1. (\A d \in FactoryDenoms : metadata[d] # "none" <=> d \in ExportedDenoms)'
    BY <1>1 DEF IInv, RegistryCoherent
  <2>2. (\A e \in creatorIndex : AccAddress(e[1]) = AccAddress(e[2][2]))'
    BY <1>3, <1>4, DenomFacts
  <2>3. (\A e, f \in creatorIndex : e[2] = f[2] => e = f)' BY <1>4
  <2>4. (\A d \in Denoms \ ExportedDenoms :
           admin[d] = Nobody /\ hook[d] = NoHook /\ (d # Native => supply[d] = 0))'
    BY <1>1, <1>2 DEF IInv, RegistryCoherent
  <2> QED BY <2>1, <2>2, <2>3, <2>4 DEF RegistryCoherent
<1> QED BY <1>5, <1>6, <1>7 DEF IInv

\* Every step preserves the invariant.
LEMMA NextIInv == IInv /\ [Next]_vars => IInv'
<1> SUFFICES ASSUME IInv, [Next]_vars PROVE IInv' OBVIOUS
<1>1. ASSUME NEW sender \in SenderStrings, NEW s \in Subdenoms, CreateDenom(sender, s)
      PROVE  IInv'
  BY <1>1, CreateDenomIInv
<1>2. CASE Message
  <2>1. PICK sender \in SenderStrings, denom \in Denoms :
          \/ \E n \in 1..MaxAmount, to \in AddrStrings \cup {Nobody} :
               Mint(sender, denom, n, to) \/ Burn(sender, denom, n, to)
          \/ \E n \in 0..MaxAmount, from, to \in AddrStrings :
               ForceTransfer(sender, denom, n, from, to)
          \/ \E newAdmin \in AddrStrings : ChangeAdmin(sender, denom, newAdmin)
          \/ SetDenomMetadata(sender, denom)
          \/ \E c \in Contracts \cup {NoHook} : SetBeforeSendHook(sender, denom, c)
          \/ \E n \in 1..MaxAmount, to \in AddrStrings : BankSend(sender, to, denom, n)
    BY <1>2 DEF Message
  <2> QED BY <2>1, MintIInv, BurnIInv, ForceTransferIInv, ChangeAdminIInv,
             SetDenomMetadataIInv, SetBeforeSendHookIInv, BankSendIInv
<1>3. ASSUME NEW newFee \in FeeChoices, GovSetFee(newFee) PROVE IInv'
  BY <1>3 DEF GovSetFee, IInv, TypeOK, ModuleAccountEmpty, RegistryCoherent,
              ExportedDenoms, bankVars, storeVars
<1>4. CASE RestartFromExport BY <1>4, RestartIInv
<1>5. CASE UNCHANGED vars
  BY <1>5 DEF vars, IInv, TypeOK, ModuleAccountEmpty, RegistryCoherent,
              ExportedDenoms, bankVars, storeVars
<1> QED BY <1>1, <1>2, <1>3, <1>4, <1>5 DEF Next

-----------------------------------------------------------------------------
(* Theorems.                                                               *)

\* Every reachable state satisfies the inductive invariant.
THEOREM Invariance == Spec => []IInv
BY InitIInv, NextIInv, PTL DEF Spec

\* The state stays typed: no balance or supply ever goes below zero.
THEOREM TypeCorrect == Spec => []TypeOK
<1>1. IInv => TypeOK BY DEF IInv
<1> QED BY Invariance, <1>1, PTL

\* The tokenfactory module account never keeps a coin.
THEOREM ModuleAccountAlwaysEmpty == Spec => []ModuleAccountEmpty
<1>1. IInv => ModuleAccountEmpty BY DEF IInv
<1> QED BY Invariance, <1>1, PTL

\* Bank metadata, authority metadata and creator index always agree, through
\* any sequence of messages and restarts.
THEOREM RegistryAlwaysCoherent == Spec => []RegistryCoherent
<1>1. IInv => RegistryCoherent BY DEF IInv
<1> QED BY Invariance, <1>1, PTL

-----------------------------------------------------------------------------
(* Authority.                                                              *)

\* A listed denom is not the chain's own.
LEMMA ListedDenom ==
  ASSUME IInv, NEW d \in ExportedDenoms
  PROVE  d \in Denoms /\ d # Native /\ d \in FactoryDenoms
BY ListedAreFactory, DenomFacts, NamesAssumption DEF IInv

\* The records of denom d are left alone by a step.
KeepsRecords(d) ==
  supply'[d] = supply[d] /\ admin'[d] = admin[d]
    /\ metadata'[d] = metadata[d] /\ hook'[d] = hook[d]

\* The admin of denom changes records of that denom only, and takes coins only
\* of that denom and only from ordinary accounts.
LEMMA AdminAuthority ==
  ASSUME IInv, NEW sender \in SenderStrings, NEW denom \in Denoms,
         IsAdmin(sender, denom), signer' = sender,
         \A d \in Denoms : d # denom => KeepsRecords(d),
         \A h \in Holders, d \in Denoms :
           h \in Modules \/ d # denom => ~(bal'[h][d] < bal[h][d])
  PROVE  AuthorityStep
<1>1. sender # Nobody BY AddressFacts, NamesAssumption
<1>2. ASSUME NEW d \in ExportedDenoms PROVE ByAdmin(d) \/ KeepsRecords(d)
  BY <1>1, ListedDenom DEF ByAdmin, IsAdmin
<1>3. ASSUME NEW d \in ExportedDenoms, NEW h \in Holders, bal'[h][d] < bal[h][d]
      PROVE  ByAdmin(d) /\ h \notin Modules
  BY <1>1, <1>3, ListedDenom DEF ByAdmin, IsAdmin
<1> QED BY <1>2, <1>3, Zenon DEF AuthorityStep, KeepsRecords

\* Every step respects the admin's authority.
LEMMA NextAuthority == IInv /\ [Next]_vars => [AuthorityStep]_vars
<1> SUFFICES ASSUME IInv, Next PROVE AuthorityStep OBVIOUS
<1>0. bal \in Balances BY DEF IInv, TypeOK, Balances
<1>n. \A h \in Holders, d \in Denoms : bal[h][d] \in Nat BY <1>0 DEF Balances
<1>1. ASSUME NEW sender \in SenderStrings, NEW s \in Subdenoms, CreateDenom(sender, s)
      PROVE  AuthorityStep
  <2> DEFINE denom == GetTokenDenom(sender, s)
  <2> SUFFICES ASSUME NEW d \in ExportedDenoms
               PROVE  KeepsRecords(d) /\ \A h \in Holders : bal'[h][d] = bal[h][d]
    <3>1. \A d \in ExportedDenoms, h \in Holders : bal[h][d] \in Nat
      BY <1>n, ListedDenom
    <3> QED BY <3>1 DEF AuthorityStep, KeepsRecords
  <2>1. d \in Denoms /\ d # Native /\ d \in FactoryDenoms BY ListedDenom
  <2>2. denom # d
    <3>1. metadata[denom] = "none" BY <1>1 DEF CreateDenom, DenomIsFree
    <3>2. metadata[d] # "none" BY <2>1 DEF IInv, RegistryCoherent
    <3> QED BY <3>1, <3>2
  <2>3. KeepsRecords(d) BY <1>1, <2>1, <2>2 DEF CreateDenom, KeepsRecords, IInv, TypeOK
  <2>4. \A h \in Holders : bal'[h][d] = bal[h][d]
    <3>1. /\ bal[AccAddress(sender)][Native] >= fee
          /\ bal' = Move(bal, AccAddress(sender), DistributionAcc, Native, fee)
      BY <1>1 DEF CreateDenom, Charged
    <3>2. AccAddress(sender) \in Holders BY AddressFacts
    <3>3. DistributionAcc \in Holders BY HoldersAssumption DEF Holders
    <3>4. fee \in Nat BY BoundsAssumption DEF IInv, TypeOK
    <3> QED BY <1>0, <2>1, <3>1, <3>2, <3>3, <3>4, DenomFacts, MoveFacts
  <2> QED BY <2>3, <2>4
<1>2. ASSUME NEW sender \in SenderStrings, NEW denom \in Denoms,
             NEW n \in 1..MaxAmount, NEW to \in AddrStrings \cup {Nobody},
             Mint(sender, denom, n, to)
      PROVE  AuthorityStep
  <2> DEFINE addr == AccAddress(OrSender(to, sender))
  <2>1. addr \in Holders /\ addr \notin Modules
    BY <1>2, AddressFacts DEF Mint, IsModuleAcc
  <2>2. addr # TokenFactoryAcc /\ n \in Nat
    BY <2>1, HoldersAssumption, BoundsAssumption
  <2>3. IsAdmin(sender, denom) /\ signer' = sender /\ bal' = MintedTo(bal, addr, denom, n)
    BY <1>2 DEF Mint
  <2>4. \A d \in Denoms : d # denom => KeepsRecords(d)
    BY <1>2 DEF Mint, KeepsRecords, IInv, TypeOK, storeVars
  <2> HIDE DEF addr
  <2>5. \A h \in Holders, d \in Denoms : h # addr \/ d # denom => bal'[h][d] = bal[h][d]
    BY <1>0, <2>1, <2>2, <2>3, MintedToFacts
  <2>6. \A h \in Holders, d \in Denoms :
          h \in Modules \/ d # denom => ~(bal'[h][d] < bal[h][d])
    BY <1>n, <2>1, <2>5
  <2> QED BY <2>3, <2>4, <2>6, AdminAuthority
<1>3. ASSUME NEW sender \in SenderStrings, NEW denom \in Denoms,
             NEW n \in 1..MaxAmount, NEW from \in AddrStrings \cup {Nobody},
             Burn(sender, denom, n, from)
      PROVE  AuthorityStep
  <2> DEFINE addr == AccAddress(OrSender(from, sender))
  <2>1. addr \in Holders /\ addr \notin Modules
    BY <1>3, AddressFacts DEF Burn, IsModuleAcc
  <2>2. addr # TokenFactoryAcc /\ n \in Nat
    BY <2>1, HoldersAssumption, BoundsAssumption
  <2>3. /\ IsAdmin(sender, denom) /\ signer' = sender
        /\ bal[addr][denom] >= n /\ bal' = BurnedFrom(bal, addr, denom, n)
    BY <1>3 DEF Burn
  <2>4. \A d \in Denoms : d # denom => KeepsRecords(d)
    BY <1>3 DEF Burn, KeepsRecords, IInv, TypeOK, storeVars
  <2> HIDE DEF addr
  <2>5. \A h \in Holders, d \in Denoms : h # addr \/ d # denom => bal'[h][d] = bal[h][d]
    BY <1>0, <2>1, <2>2, <2>3, BurnedFromFacts
  <2>6. \A h \in Holders, d \in Denoms :
          h \in Modules \/ d # denom => ~(bal'[h][d] < bal[h][d])
    BY <1>n, <2>1, <2>5
  <2> QED BY <2>3, <2>4, <2>6, AdminAuthority
<1>4. ASSUME NEW sender \in SenderStrings, NEW denom \in Denoms,
             NEW n \in 0..MaxAmount, NEW from \in AddrStrings, NEW to \in AddrStrings,
             ForceTransfer(sender, denom, n, from, to)
      PROVE  AuthorityStep
  <2> DEFINE src == AccAddress(from)
             dst == AccAddress(to)
  <2>1. src \in Holders /\ dst \in Holders /\ n \in Nat
    BY AddressFacts, BoundsAssumption
  <2>2. src \notin Modules /\ dst \notin Modules BY <1>4 DEF ForceTransfer
  <2>3. /\ IsAdmin(sender, denom) /\ signer' = sender
        /\ bal[src][denom] >= n /\ bal' = Move(bal, src, dst, denom, n)
    BY <1>4 DEF ForceTransfer
  <2>4. \A d \in Denoms : d # denom => KeepsRecords(d)
    BY <1>4 DEF ForceTransfer, KeepsRecords, storeVars
  <2> HIDE DEF src, dst
  <2>5. \A h \in Holders, d \in Denoms :
          (h # src /\ h # dst) \/ d # denom => bal'[h][d] = bal[h][d]
    BY <1>0, <2>1, <2>3, MoveFacts
  <2>6. \A h \in Holders, d \in Denoms :
          h \in Modules \/ d # denom => ~(bal'[h][d] < bal[h][d])
    BY <1>n, <2>2, <2>5
  <2> QED BY <2>3, <2>4, <2>6, AdminAuthority
<1>5. ASSUME NEW sender \in SenderStrings, NEW denom \in Denoms,
             IsAdmin(sender, denom), signer' = sender, bal' = bal,
             \A d \in Denoms : d # denom => KeepsRecords(d)
      PROVE  AuthorityStep
  BY <1>n, <1>5, AdminAuthority
<1>6. ASSUME NEW sender \in SenderStrings, NEW denom \in Denoms, NEW a \in AddrStrings,
             ChangeAdmin(sender, denom, a)
      PROVE  AuthorityStep
  <2>1. \A d \in Denoms : d # denom => KeepsRecords(d)
    BY <1>6 DEF ChangeAdmin, KeepsRecords, IInv, TypeOK, bankVars
  <2> QED BY <1>5, <1>6, <2>1 DEF ChangeAdmin, bankVars
<1>7. ASSUME NEW sender \in SenderStrings, NEW denom \in Denoms,
             SetDenomMetadata(sender, denom)
      PROVE  AuthorityStep
  <2>1. \A d \in Denoms : d # denom => KeepsRecords(d)
    BY <1>7 DEF SetDenomMetadata, KeepsRecords, IInv, TypeOK, storeVars
  <2> QED BY <1>5, <1>7, <2>1 DEF SetDenomMetadata
<1>8. ASSUME NEW sender \in SenderStrings, NEW denom \in Denoms,
             NEW c \in Contracts \cup {NoHook}, SetBeforeSendHook(sender, denom, c)
      PROVE  AuthorityStep
  <2>1. \A d \in Denoms : d # denom => KeepsRecords(d)
    BY <1>8 DEF SetBeforeSendHook, KeepsRecords, IInv, TypeOK, bankVars
  <2> QED BY <1>5, <1>8, <2>1 DEF SetBeforeSendHook, bankVars
<1>9. ASSUME NEW sender \in SenderStrings, NEW denom \in Denoms,
             NEW n \in 1..MaxAmount, NEW to \in AddrStrings,
             BankSend(sender, to, denom, n)
      PROVE  AuthorityStep
  <2> DEFINE src == AccAddress(sender)
             dst == AccAddress(to)
  <2>1. src \in Holders /\ dst \in Holders /\ n \in Nat
    BY AddressFacts, BoundsAssumption
  <2>2. sender # Nobody BY AddressFacts, NamesAssumption
  <2>3. /\ signer' = sender /\ bal[src][denom] >= n
        /\ bal' = Move(bal, src, dst, denom, n)
    BY <1>9 DEF BankSend
  <2>4. \A d : KeepsRecords(d) BY <1>9 DEF BankSend, KeepsRecords, storeVars
  <2>5. \A h \in Holders : h = src => ByHolder(h) BY <2>2, <2>3 DEF ByHolder
  <2> HIDE DEF src, dst
  <2>6. bal' \in Balances /\ \A h \in Holders, d \in Denoms :
          h # src => bal'[h][d] >= bal[h][d]
    BY <1>0, <2>1, <2>3, MoveFacts
  <2>7. \A h \in Holders, d \in Denoms : bal'[h][d] \in Nat BY <2>6 DEF Balances
  <2>8. \A h \in Holders, d \in Denoms : bal'[h][d] < bal[h][d] => ByHolder(h)
    BY <1>n, <2>5, <2>6, <2>7
  <2> QED BY <2>4, <2>8, ListedDenom DEF AuthorityStep, KeepsRecords
<1>10. CASE Message
  BY <1>10, <1>2, <1>3, <1>4, <1>6, <1>7, <1>8, <1>9 DEF Message
<1>11. ASSUME NEW newFee \in FeeChoices, GovSetFee(newFee) PROVE AuthorityStep
  BY <1>n, <1>11, ListedDenom DEF GovSetFee, AuthorityStep, bankVars, storeVars
<1>12. CASE RestartFromExport
  <2>1. admin' = admin /\ metadata' = metadata BY <1>12, RestartKeeps
  <2> QED BY <1>n, <1>12, <2>1, ListedDenom DEF RestartFromExport, AuthorityStep
<1> QED BY <1>1, <1>10, <1>11, <1>12 DEF Next

\* Nobody but the admin changes a denom's supply, admin, metadata or hook, and
\* nobody but a holder or the admin takes its coins; a restart hands no denom
\* to anyone.
THEOREM AuthorityAlwaysRespected == Spec => AuthorityRespected
<1>1. IInv /\ [Next]_vars => [AuthorityStep]_vars BY NextAuthority
<1> QED BY Invariance, <1>1, PTL DEF Spec, AuthorityRespected

-----------------------------------------------------------------------------
(* Balances as a whole: what the bank's entries amount to.                 *)

\* Two tables of balances with the same entries are the same.
LEMMA SameBalances ==
  ASSUME NEW b \in Balances, NEW c \in Balances,
         \A h \in Holders, d \in Denoms : b[h][d] = c[h][d]
  PROVE  b = c
<1>1. ASSUME NEW h \in Holders PROVE b[h] = c[h]
  <2>1. b[h] \in [Denoms -> Nat] /\ c[h] \in [Denoms -> Nat] BY DEF Balances
  <2> QED BY <2>1
<1> QED BY <1>1 DEF Balances

\* A transfer to oneself changes nothing.
LEMMA MoveToSelf ==
  ASSUME NEW b \in Balances, NEW addr \in Holders,
         NEW denom \in Denoms, NEW n \in Nat, b[addr][denom] >= n
  PROVE  Move(b, addr, addr, denom, n) = b
<1> DEFINE c == [b EXCEPT ![addr][denom] = @ - n]
           m == Move(b, addr, addr, denom, n)
<1>1. b[addr][denom] \in Nat /\ b[addr][denom] - n \in Nat BY DEF Balances
<1>2. c \in Balances BY <1>1 DEF Balances
<1>3. m \in Balances BY MoveFacts
<1>4. ASSUME NEW h \in Holders, NEW d \in Denoms PROVE m[h][d] = b[h][d]
  <2>1. CASE h # addr \/ d # denom BY <2>1, MoveFacts
  <2>2. CASE h = addr /\ d = denom
    <3>1. c[addr][denom] = b[addr][denom] - n BY DEF Balances
    <3>2. m = [c EXCEPT ![addr][denom] = @ + n] BY DEF Move
    <3> HIDE DEF c, m
    <3>3. m[addr][denom] = c[addr][denom] + n BY <1>2, <3>2 DEF Balances
    <3> QED BY <1>1, <2>2, <3>1, <3>3
  <2> QED BY <2>1, <2>2
<1> HIDE DEF m
<1>5. m = b BY <1>3, <1>4, SameBalances
<1> QED BY <1>5 DEF m

\* The bank's two entries for a transfer, one after the other, are the
\* ledger's; to oneself they cancel out.
LEMMA MoveIsMoved ==
  ASSUME bal \in Balances, NEW from \in Holders, NEW to \in Holders,
         NEW denom \in Denoms, NEW n \in Nat, bal[from][denom] >= n,
         bal' = Move(bal, from, to, denom, n)
  PROVE  Ledger!Moved(denom, from, to, n)
<1>1. CASE from # to
  BY <1>1 DEF Ledger!Moved, Move
<1>2. CASE from = to BY <1>2, MoveToSelf DEF Ledger!Moved
<1> QED BY <1>1, <1>2

\* Coins appear in the receiver's account only: the module account they pass
\* through ends as it began.
LEMMA MintedToIsIssued ==
  ASSUME NEW b \in Balances, NEW addr \in Holders, addr # TokenFactoryAcc,
         NEW denom \in Denoms, NEW n \in Nat
  PROVE  MintedTo(b, addr, denom, n) = [b EXCEPT ![addr][denom] = @ + n]
<1> DEFINE c == MintCoins(b, denom, n)
           paid == [c EXCEPT ![TokenFactoryAcc][denom] = @ - n]
           m == MintedTo(b, addr, denom, n)
           r == [b EXCEPT ![addr][denom] = @ + n]
<1>1. TokenFactoryAcc \in Holders BY HoldersAssumption DEF Holders
<1>2. b[TokenFactoryAcc][denom] \in Nat /\ b[addr][denom] \in Nat BY <1>1 DEF Balances
<1>3. r \in Balances BY <1>2 DEF Balances
<1>4. m \in Balances /\ \A h \in Holders, d \in Denoms :
        h # addr \/ d # denom => m[h][d] = b[h][d]
  BY MintedToFacts
<1>5. m[addr][denom] = b[addr][denom] + n
  <2>1. c \in Balances /\ c[addr][denom] = b[addr][denom]
        /\ c[TokenFactoryAcc][denom] = b[TokenFactoryAcc][denom] + n
    BY <1>1, <1>2 DEF Balances, MintCoins
  <2>2. paid \in Balances /\ paid[addr][denom] = b[addr][denom]
    <3> HIDE DEF c
    <3>1. c[TokenFactoryAcc][denom] - n \in Nat BY <1>2, <2>1
    <3> QED BY <1>1, <2>1, <3>1 DEF Balances
  <2>3. m = [paid EXCEPT ![addr][denom] = @ + n] BY DEF MintedTo, Move
  <2> HIDE DEF paid, m
  <2> QED BY <2>2, <2>3 DEF Balances
<1>6. \A h \in Holders, d \in Denoms :
        r[h][d] = IF h = addr /\ d = denom THEN b[addr][denom] + n ELSE b[h][d]
  BY DEF Balances
<1> HIDE DEF m, r
<1>7. \A h \in Holders, d \in Denoms : m[h][d] = r[h][d] BY <1>4, <1>5, <1>6
<1>8. m = r BY <1>3, <1>4, <1>7, SameBalances
<1> QED BY <1>8 DEF m, r

\* Coins disappear from the holder's account only.
LEMMA BurnedFromIsDestroyed ==
  ASSUME NEW b \in Balances, NEW addr \in Holders, addr # TokenFactoryAcc,
         NEW denom \in Denoms, NEW n \in Nat, b[addr][denom] >= n
  PROVE  BurnedFrom(b, addr, denom, n) = [b EXCEPT ![addr][denom] = @ - n]
<1> DEFINE c == Move(b, addr, TokenFactoryAcc, denom, n)
           m == BurnedFrom(b, addr, denom, n)
           r == [b EXCEPT ![addr][denom] = @ - n]
<1>1. TokenFactoryAcc \in Holders BY HoldersAssumption DEF Holders
<1>2. b[addr][denom] \in Nat /\ b[addr][denom] - n \in Nat BY DEF Balances
<1>3. r \in Balances BY <1>2 DEF Balances
<1>4. m \in Balances /\ \A h \in Holders, d \in Denoms :
        h # addr \/ d # denom => m[h][d] = b[h][d]
  BY BurnedFromFacts
<1>5. m[addr][denom] = b[addr][denom] - n
  <2>1. c \in Balances /\ c[addr][denom] = b[addr][denom] - n BY <1>1, MoveFacts
  <2>2. m = [c EXCEPT ![TokenFactoryAcc][denom] = @ - n]
    BY DEF BurnedFrom, BurnCoins
  <2> HIDE DEF c, m
  <2> QED BY <1>1, <2>1, <2>2 DEF Balances
<1>6. \A h \in Holders, d \in Denoms :
        r[h][d] = IF h = addr /\ d = denom THEN b[addr][denom] - n ELSE b[h][d]
  BY DEF Balances
<1> HIDE DEF m, r
<1>7. \A h \in Holders, d \in Denoms : m[h][d] = r[h][d] BY <1>4, <1>5, <1>6
<1>8. m = r BY <1>3, <1>4, <1>7, SameBalances
<1> QED BY <1>8 DEF m, r

-----------------------------------------------------------------------------
(* The books.                                                              *)

\* The balances of one denom.
Column(b, d) == [h \in Holders |-> b[h][d]]

\* A column of typed balances is a function to the naturals.
LEMMA ColumnFacts ==
  ASSUME NEW b \in Balances, NEW d \in Denoms
  PROVE  /\ Column(b, d) \in [Holders -> Nat]
         /\ \A h \in Holders : Column(b, d)[h] = b[h][d]
BY DEF Balances, Column

\* A transfer keeps the sum of every denom's balances.
LEMMA MoveKeepsSums ==
  ASSUME NEW b \in Balances, NEW from \in Holders, NEW to \in Holders,
         NEW denom \in Denoms, NEW n \in Nat, b[from][denom] >= n,
         NEW d \in Denoms
  PROVE  SumFunction(Column(Move(b, from, to, denom, n), d)) = SumFunction(Column(b, d))
<1> DEFINE m == Move(b, from, to, denom, n)
<1>1. m \in Balances BY MoveFacts
<1>2. CASE d # denom \/ from = to
  <2>1. \A h \in Holders : m[h][d] = b[h][d] BY <1>2, MoveFacts, MoveToSelf
  <2>2. Column(m, d) = Column(b, d) BY <2>1 DEF Column
  <2> QED BY <2>2
<1>3. CASE d = denom /\ from # to
  <2>1. m[from][d] = b[from][d] - n /\ m[to][d] = b[to][d] + n BY <1>3, MoveFacts
  <2>2. \A h \in Holders : h # from /\ h # to => m[h][d] = b[h][d] BY MoveFacts
  <2> HIDE DEF m
  <2>3. /\ Column(b, d) \in [Holders -> Nat] /\ Column(m, d) \in [Holders -> Nat]
        /\ \A h \in Holders : Column(b, d)[h] = b[h][d] /\ Column(m, d)[h] = m[h][d]
    BY <1>1, ColumnFacts
  <2>4. IsFiniteSet(Holders) BY HoldersAssumption
  <2>5. /\ Column(m, d)[from] = Column(b, d)[from] - n
        /\ Column(m, d)[to] = Column(b, d)[to] + n
        /\ \A h \in Holders : h # from /\ h # to => Column(m, d)[h] = Column(b, d)[h]
    BY <2>1, <2>2, <2>3
  <2>6. SumFunction(Column(m, d)) = SumFunction(Column(b, d))
    BY ONLY <1>3, <2>3, <2>4, <2>5, from \in Holders, to \in Holders, n \in Nat,
            FunctionSumMove
  <2> QED BY <2>6 DEF m
<1> QED BY <1>2, <1>3

\* A change of one balance changes the sum of its denom by as much, and no
\* other.
LEMMA EntrySums ==
  ASSUME NEW b \in Balances, NEW m \in Balances, NEW addr \in Holders,
         NEW denom \in Denoms, NEW d \in Denoms,
         \A h \in Holders, e \in Denoms : h # addr \/ e # denom => m[h][e] = b[h][e]
  PROVE  /\ d = denom => SumFunction(Column(m, d))
                           = SumFunction(Column(b, d)) - b[addr][d] + m[addr][d]
         /\ d # denom => SumFunction(Column(m, d)) = SumFunction(Column(b, d))
<1>1. /\ Column(b, d) \in [Holders -> Nat] /\ Column(m, d) \in [Holders -> Nat]
      /\ \A h \in Holders : Column(b, d)[h] = b[h][d] /\ Column(m, d)[h] = m[h][d]
  BY ColumnFacts
<1>2. IsFiniteSet(Holders) BY HoldersAssumption
<1>3. ASSUME d = denom
      PROVE  SumFunction(Column(m, d)) = SumFunction(Column(b, d)) - b[addr][d] + m[addr][d]
  <2>1. \A h \in Holders : h # addr => Column(m, d)[h] = Column(b, d)[h] BY <1>1
  <2>2. SumFunction(Column(m, d))
          = SumFunction(Column(b, d)) - Column(b, d)[addr] + Column(m, d)[addr]
    BY <1>1, <1>2, <2>1, FunctionSumUpdate
  <2> QED BY <1>1, <2>2
<1>4. ASSUME d # denom PROVE SumFunction(Column(m, d)) = SumFunction(Column(b, d))
  <2>1. Column(m, d) = Column(b, d) BY <1>4 DEF Column
  <2> QED BY <2>1
<1> QED BY <1>3, <1>4

\* At genesis one user holds the whole native supply and there is nothing else.
LEMMA InitSupplyBacked == Init => SupplyBacked
<1> SUFFICES ASSUME Init, NEW d \in Denoms
             PROVE  SumFunction(Column(bal, d)) = supply[d]
  BY DEF SupplyBacked, Column
<1> DEFINE zero == [h \in Holders |-> 0]
           c == Column(bal, d)
<1>1. IsFiniteSet(Holders) /\ GenesisHolder \in Holders
  BY HoldersAssumption DEF Holders
<1>2. zero \in [Holders -> Nat] /\ SumFunction(zero) = 0 BY <1>1, FunctionSumZero
<1>3. bal \in Balances BY InitIInv DEF IInv, TypeOK, Balances
<1>4. c \in [Holders -> Nat] /\ \A h \in Holders : c[h] = bal[h][d]
  BY <1>3, ColumnFacts
<1>5. \A h \in Holders : c[h] = IF h = GenesisHolder THEN supply[d] ELSE 0
  BY <1>4 DEF Init
<1>6. supply[d] \in Nat BY InitIInv DEF IInv, TypeOK
<1>7. \A h \in Holders : zero[h] = 0 OBVIOUS
<1> HIDE DEF zero, c
<1>8. SumFunction(c) = SumFunction(zero) - zero[GenesisHolder] + c[GenesisHolder]
  BY <1>1, <1>2, <1>4, <1>5, <1>7, FunctionSumUpdate
<1>9. SumFunction(c) = supply[d] BY <1>1, <1>2, <1>5, <1>6, <1>7, <1>8
<1> QED BY <1>9 DEF c

\* Every step keeps the books.
LEMMA NextSupplyBacked == IInv /\ SupplyBacked /\ [Next]_vars => SupplyBacked'
<1> SUFFICES ASSUME IInv, SupplyBacked, [Next]_vars PROVE SupplyBacked' OBVIOUS
<1>0. bal \in Balances BY DEF IInv, TypeOK, Balances
<1>b. \A d \in Denoms : SumFunction(Column(bal, d)) = supply[d] /\ supply[d] \in Nat
  BY DEF SupplyBacked, Column, IInv, TypeOK
<1>s. ASSUME \A d \in Denoms : SumFunction(Column(bal', d)) = supply'[d]
      PROVE  SupplyBacked'
  BY <1>s DEF SupplyBacked, Column
<1>1. ASSUME NEW from \in Holders, NEW to \in Holders, NEW denom \in Denoms,
             NEW n \in Nat, bal[from][denom] >= n,
             bal' = Move(bal, from, to, denom, n), supply' = supply
      PROVE  SupplyBacked'
  BY <1>0, <1>1, <1>b, <1>s, MoveKeepsSums
<1>2. ASSUME NEW sender \in SenderStrings, NEW s \in Subdenoms, CreateDenom(sender, s)
      PROVE  SupplyBacked'
  <2>1. AccAddress(sender) \in Holders BY AddressFacts
  <2>2. DistributionAcc \in Holders BY HoldersAssumption DEF Holders
  <2>3. fee \in Nat BY BoundsAssumption DEF IInv, TypeOK
  <2> QED BY <1>1, <1>2, <2>1, <2>2, <2>3, DenomFacts DEF CreateDenom, Charged
<1>3. ASSUME NEW sender \in SenderStrings, NEW denom \in Denoms,
             NEW n \in 1..MaxAmount, NEW to \in AddrStrings \cup {Nobody},
             Mint(sender, denom, n, to)
      PROVE  SupplyBacked'
  <2> DEFINE addr == AccAddress(OrSender(to, sender))
  <2>1. /\ addr \in Holders /\ addr # TokenFactoryAcc /\ n \in Nat
        /\ bal' = MintedTo(bal, addr, denom, n)
        /\ supply' = [supply EXCEPT ![denom] = @ + n]
    BY <1>3, AddressFacts, HoldersAssumption, BoundsAssumption DEF Mint, IsModuleAcc
  <2> HIDE DEF addr
  <2>2. bal' = [bal EXCEPT ![addr][denom] = @ + n]
    BY <1>0, <2>1, MintedToIsIssued
  <2>3. bal[addr][denom] \in Nat /\ bal'[addr][denom] = bal[addr][denom] + n
    BY <1>0, <2>1, <2>2 DEF Balances
  <2>4. \A d \in Denoms : supply'[d] = IF d = denom THEN supply[d] + n ELSE supply[d]
    BY <2>1 DEF IInv, TypeOK
  <2>5. /\ bal' \in Balances
        /\ \A h \in Holders, d \in Denoms : h # addr \/ d # denom => bal'[h][d] = bal[h][d]
    BY <1>0, <2>1, MintedToFacts
  <2>6. ASSUME NEW d \in Denoms PROVE SumFunction(Column(bal', d)) = supply'[d]
    <3>1. CASE d = denom
      <4>1. SumFunction(Column(bal', d))
              = SumFunction(Column(bal, d)) - bal[addr][d] + bal'[addr][d]
        BY <1>0, <2>1, <2>5, <3>1, EntrySums
      <4> QED BY <1>b, <2>1, <2>3, <2>4, <3>1, <4>1
    <3>2. CASE d # denom
      <4>1. SumFunction(Column(bal', d)) = SumFunction(Column(bal, d))
        BY <1>0, <2>1, <2>5, <3>2, EntrySums, SMTT(40)
      <4> QED BY <1>b, <2>4, <3>2, <4>1
    <3> QED BY <3>1, <3>2
  <2> QED BY <1>s, <2>6
<1>4. ASSUME NEW sender \in SenderStrings, NEW denom \in Denoms,
             NEW n \in 1..MaxAmount, NEW from \in AddrStrings \cup {Nobody},
             Burn(sender, denom, n, from)
      PROVE  SupplyBacked'
  <2> DEFINE addr == AccAddress(OrSender(from, sender))
  <2>0. addr \in Holders /\ addr # TokenFactoryAcc /\ n \in Nat
    BY <1>4, AddressFacts, HoldersAssumption, BoundsAssumption DEF Burn, IsModuleAcc
  <2>1. /\ addr \in Holders /\ addr # TokenFactoryAcc /\ n \in Nat
        /\ bal[addr][denom] >= n
        /\ bal' = BurnedFrom(bal, addr, denom, n)
        /\ supply' = [supply EXCEPT ![denom] = @ - n]
    BY <1>4, <2>0 DEF Burn
  <2> HIDE DEF addr
  <2>2. bal' = [bal EXCEPT ![addr][denom] = @ - n]
    BY <1>0, <2>1, BurnedFromIsDestroyed
  <2>3. bal[addr][denom] \in Nat /\ bal'[addr][denom] = bal[addr][denom] - n
    BY <1>0, <2>1, <2>2 DEF Balances
  <2>4. \A d \in Denoms : supply'[d] = IF d = denom THEN supply[d] - n ELSE supply[d]
    BY <2>1 DEF IInv, TypeOK
  <2>5. /\ bal' \in Balances
        /\ \A h \in Holders, d \in Denoms : h # addr \/ d # denom => bal'[h][d] = bal[h][d]
    BY <1>0, <2>1, BurnedFromFacts
  <2>6. ASSUME NEW d \in Denoms PROVE SumFunction(Column(bal', d)) = supply'[d]
    <3>1. CASE d = denom
      <4>1. SumFunction(Column(bal', d))
              = SumFunction(Column(bal, d)) - bal[addr][d] + bal'[addr][d]
        BY <1>0, <2>1, <2>5, <3>1, EntrySums
      <4> QED BY <1>b, <2>1, <2>3, <2>4, <3>1, <4>1
    <3>2. CASE d # denom
      <4>1. SumFunction(Column(bal', d)) = SumFunction(Column(bal, d))
        BY <1>0, <2>1, <2>5, <3>2, EntrySums, SMTT(40)
      <4> QED BY <1>b, <2>4, <3>2, <4>1
    <3> QED BY <3>1, <3>2
  <2> QED BY <1>s, <2>6
<1>5. ASSUME NEW sender \in SenderStrings, NEW denom \in Denoms,
             NEW n \in 0..MaxAmount, NEW from \in AddrStrings, NEW to \in AddrStrings,
             ForceTransfer(sender, denom, n, from, to)
      PROVE  SupplyBacked'
  BY <1>1, <1>5, AddressFacts, BoundsAssumption DEF ForceTransfer
<1>6. ASSUME NEW sender \in SenderStrings, NEW denom \in Denoms,
             NEW n \in 1..MaxAmount, NEW to \in AddrStrings,
             BankSend(sender, to, denom, n)
      PROVE  SupplyBacked'
  BY <1>1, <1>6, AddressFacts, BoundsAssumption DEF BankSend
<1>7. ASSUME UNCHANGED <<bal, supply>> PROVE SupplyBacked'
  BY <1>7 DEF SupplyBacked
<1>8. CASE Message
  BY <1>3, <1>4, <1>5, <1>6, <1>7, <1>8
     DEF Message, ChangeAdmin, SetDenomMetadata, SetBeforeSendHook, bankVars
<1> QED BY <1>2, <1>7, <1>8 DEF Next, GovSetFee, RestartFromExport, vars, bankVars

\* The balances of every denom always add up to its supply, for any finite set
\* of holders.
THEOREM SupplyAlwaysBacked == Spec => []SupplyBacked
BY Invariance, InitSupplyBacked, NextSupplyBacked, PTL DEF Spec

-----------------------------------------------------------------------------
(* The token factory implements TokenLedger: its initial states are        *)
(* ledgers, and each of its steps is one step of the ledger or hidden.     *)
(* The inductive invariant says what a step needs: a sender that is an     *)
(* admin owns an issued denom, and a fresh denom is not issued.            *)

\* A genesis is a ledger without coins of its denoms; an unlisted denom has no
\* owner.
LEMMA InitIsLedger == Init => Ledger!Init
<1> SUFFICES ASSUME Init PROVE Ledger!Init OBVIOUS
<1>1. IInv BY InitIInv
<1>2. ExportedDenoms \subseteq Denoms \ {Native} BY <1>1, ListedDenom
<1>3. \A d \in Denoms : d \notin ExportedDenoms => admin[d] = Nobody
  BY <1>1 DEF IInv, RegistryCoherent
<1>4. \A d \in Denoms \ {Native} : supply[d] = 0 /\ \A h \in Holders : bal[h][d] = 0
  BY DEF Init
<1>5. signer = Nobody BY DEF Init
<1> QED BY <1>2, <1>3, <1>4, <1>5 DEF Ledger!Init

\* A sender that is admin is an owner in the sense of the ledger.
LEMMA AdminIsOwner ==
  ASSUME IInv, NEW sender \in SenderStrings, NEW denom \in Denoms,
         IsAdmin(sender, denom), signer' = sender
  PROVE  Ledger!IsOwner(denom)
<1>1. sender # Nobody BY AddressFacts, NamesAssumption
<1> QED BY <1>1, AdminMeansListed DEF Ledger!IsOwner, IsAdmin

\* A new denom is issued to its creator, for the fee.
LEMMA CreateDenomIsCreate ==
  ASSUME IInv, NEW sender \in SenderStrings, NEW subdenom \in Subdenoms,
         CreateDenom(sender, subdenom)
  PROVE  \E d \in Denoms \ {Native}, f \in FeeChoices : Ledger!Create(d, f)
<1> DEFINE denom == GetTokenDenom(sender, subdenom)
<1>1. denom \in FactoryDenoms /\ denom[2] = sender /\ denom \in Denoms \ {Native}
  BY DenomFacts, NamesAssumption
<1> HIDE DEF denom
<1>2. /\ metadata[denom] = "none"
      /\ bal[AccAddress(sender)][Native] >= fee
      /\ bal' = Move(bal, AccAddress(sender), DistributionAcc, Native, fee)
      /\ admin' = [admin EXCEPT ![denom] = sender]
      /\ creatorIndex' = creatorIndex \cup {<<sender, denom>>}
      /\ signer' = sender
      /\ UNCHANGED supply
  BY DEF CreateDenom, DenomIsFree, Charged, addDenomFromCreator, denom
<1>3. denom \notin ExportedDenoms BY <1>1, <1>2 DEF IInv, RegistryCoherent
<1>4. ExportedDenoms' = ExportedDenoms \cup {denom} BY <1>2, AddDenomLists
<1>5. Ledger!Moved(Native, AccAddress(sender), DistributionAcc, fee)
  <2>1. AccAddress(sender) \in Holders BY AddressFacts
  <2>2. DistributionAcc \in Holders BY HoldersAssumption DEF Holders
  <2>3. fee \in Nat /\ bal \in Balances
    BY BoundsAssumption DEF IInv, TypeOK, Balances
  <2> QED BY <1>2, <2>1, <2>2, <2>3, DenomFacts, MoveIsMoved
<1>6. [d \in FactoryDenoms |-> d[2]][denom] = sender BY <1>1
<1>7. Ledger!Create(denom, fee)
  BY <1>2, <1>3, <1>4, <1>5, <1>6 DEF Ledger!Create, Ledger!Account, AccAddress
<1>8. fee \in FeeChoices BY DEF IInv, TypeOK
<1> QED BY <1>1, <1>7, <1>8

\* A mint message is an issue by the owner to an account that is no module.
LEMMA MintIsIssue ==
  ASSUME IInv, NEW sender \in SenderStrings, NEW denom \in Denoms,
         NEW n \in 1..MaxAmount, NEW mintTo \in AddrStrings \cup {Nobody},
         Mint(sender, denom, n, mintTo)
  PROVE  \E to \in Holders : Ledger!Issue(denom, to, n)
<1> DEFINE addr == AccAddress(OrSender(mintTo, sender))
<1>1. addr \in Holders BY AddressFacts
<1>2. /\ IsAdmin(sender, denom) /\ addr \notin Modules
      /\ bal' = MintedTo(bal, addr, denom, n)
      /\ supply' = [supply EXCEPT ![denom] = @ + n]
      /\ signer' = sender
      /\ UNCHANGED storeVars
  BY DEF Mint, IsModuleAcc
<1> HIDE DEF addr
<1>3. addr # TokenFactoryAcc /\ n \in Nat
  BY <1>2, HoldersAssumption, BoundsAssumption
<1>4. bal \in Balances BY DEF IInv, TypeOK, Balances
<1>5. bal' = [bal EXCEPT ![addr][denom] = @ + n]
  BY <1>1, <1>2, <1>3, <1>4, MintedToIsIssued
<1>6. Ledger!IsOwner(denom) BY <1>2, AdminIsOwner
<1>7. UNCHANGED <<ExportedDenoms, admin>> BY <1>2 DEF storeVars, ExportedDenoms
<1>8. Ledger!Issue(denom, addr, n)
  BY <1>2, <1>5, <1>6, <1>7 DEF Ledger!Issue
<1> QED BY <1>1, <1>8

\* A burn message is a destruction by the owner.
LEMMA BurnIsDestroy ==
  ASSUME IInv, NEW sender \in SenderStrings, NEW denom \in Denoms,
         NEW n \in 1..MaxAmount, NEW burnFrom \in AddrStrings \cup {Nobody},
         Burn(sender, denom, n, burnFrom)
  PROVE  \E from \in Holders : Ledger!Destroy(denom, from, n)
<1> DEFINE addr == AccAddress(OrSender(burnFrom, sender))
<1>1. addr \in Holders BY AddressFacts
<1>2. /\ IsAdmin(sender, denom) /\ addr \notin Modules
      /\ bal[addr][denom] >= n
      /\ bal' = BurnedFrom(bal, addr, denom, n)
      /\ supply' = [supply EXCEPT ![denom] = @ - n]
      /\ signer' = sender
      /\ UNCHANGED storeVars
  BY DEF Burn, IsModuleAcc
<1> HIDE DEF addr
<1>3. addr # TokenFactoryAcc /\ n \in Nat
  BY <1>2, HoldersAssumption, BoundsAssumption
<1>4. bal \in Balances BY DEF IInv, TypeOK, Balances
<1>5. bal' = [bal EXCEPT ![addr][denom] = @ - n]
  BY <1>1, <1>2, <1>3, <1>4, BurnedFromIsDestroyed
<1>6. Ledger!IsOwner(denom) BY <1>2, AdminIsOwner
<1>7. UNCHANGED <<ExportedDenoms, admin>> BY <1>2 DEF storeVars, ExportedDenoms
<1>8. Ledger!Destroy(denom, addr, n)
  BY <1>2, <1>5, <1>6, <1>7 DEF Ledger!Destroy
<1> QED BY <1>1, <1>8

\* A forced transfer is a seizure by the owner; one of nothing is hidden.
LEMMA ForceTransferIsSeize ==
  ASSUME IInv, NEW sender \in SenderStrings, NEW denom \in Denoms,
         NEW n \in 0..MaxAmount, NEW from \in AddrStrings, NEW to \in AddrStrings,
         ForceTransfer(sender, denom, n, from, to)
  PROVE  \/ Ledger!Elsewhere
         \/ n \in 1..MaxAmount /\ \E src, dst \in Holders : Ledger!Seize(denom, src, dst, n)
<1> DEFINE src == AccAddress(from)
           dst == AccAddress(to)
<1>1. src \in Holders /\ dst \in Holders /\ n \in Nat
  BY AddressFacts, BoundsAssumption
<1>2. src \notin Modules /\ dst \notin Modules BY DEF ForceTransfer
<1>3. /\ IsAdmin(sender, denom) /\ signer' = sender
      /\ bal[src][denom] >= n /\ bal' = Move(bal, src, dst, denom, n)
      /\ UNCHANGED <<supply, storeVars>>
  BY DEF ForceTransfer
<1> HIDE DEF src, dst
<1>4. bal \in Balances BY DEF IInv, TypeOK, Balances
<1>5. UNCHANGED <<supply, ExportedDenoms, admin>>
  BY <1>3 DEF storeVars, ExportedDenoms
<1>6. CASE n = 0
  <2>1. bal' \in Balances /\ \A h \in Holders, d \in Denoms : bal'[h][d] = bal[h][d]
    BY <1>1, <1>3, <1>4, <1>6, MoveFacts
  <2>2. bal' = bal BY <1>4, <2>1, SameBalances
  <2> QED BY <1>5, <2>2 DEF Ledger!Elsewhere
<1>7. CASE n # 0
  <2>1. Ledger!Moved(denom, src, dst, n) BY <1>1, <1>3, <1>4, MoveIsMoved
  <2>2. Ledger!IsOwner(denom) BY <1>3, AdminIsOwner
  <2>3. {src, dst} \cap Modules = {} BY <1>2
  <2>4. Ledger!Seize(denom, src, dst, n)
    BY <1>5, <2>1, <2>2, <2>3 DEF Ledger!Seize
  <2>5. n \in 1..MaxAmount BY <1>7, BoundsAssumption
  <2> QED BY <1>1, <2>4, <2>5
<1> QED BY <1>6, <1>7

\* A bank transfer is a send by the holder.
LEMMA BankSendIsSend ==
  ASSUME IInv, NEW sender \in SenderStrings, NEW denom \in Denoms,
         NEW n \in 1..MaxAmount, NEW to \in AddrStrings,
         BankSend(sender, to, denom, n)
  PROVE  \E dst \in Holders : Ledger!Send(denom, dst, n)
<1> DEFINE src == AccAddress(sender)
           dst == AccAddress(to)
<1>1. src \in Holders /\ dst \in Holders /\ n \in Nat
  BY AddressFacts, BoundsAssumption
<1>2. sender # Nobody BY AddressFacts, NamesAssumption
<1>3. /\ signer' = sender /\ dst \notin Blocked
      /\ bal[src][denom] >= n /\ bal' = Move(bal, src, dst, denom, n)
      /\ UNCHANGED <<supply, storeVars>>
  BY DEF BankSend
<1>4. bal \in Balances BY DEF IInv, TypeOK, Balances
<1>5. UNCHANGED <<supply, ExportedDenoms, admin>>
  BY <1>3 DEF storeVars, ExportedDenoms
<1>6. src = Ledger!Account(signer') BY <1>3 DEF Ledger!Account, AccAddress
<1> HIDE DEF src, dst
<1>7. Ledger!Moved(denom, src, dst, n) BY <1>1, <1>3, <1>4, MoveIsMoved
<1>8. Ledger!Send(denom, dst, n)
  BY <1>2, <1>3, <1>5, <1>6, <1>7 DEF Ledger!Send
<1> QED BY <1>1, <1>8

\* Every step of the token factory is a step of the ledger or hidden in it.
LEMMA NextIsLedger == IInv /\ [Next]_vars => [Ledger!Next]_(Ledger!vars)
<1> SUFFICES ASSUME IInv, Next PROVE Ledger!Next
  <2>1. ASSUME UNCHANGED vars PROVE UNCHANGED Ledger!vars
    BY <2>1 DEF vars, bankVars, storeVars, Ledger!vars, ExportedDenoms
  <2> QED BY <2>1
<1>1. signer' \in AddrStrings \cup {Nobody}
  BY NextIInv, AddressFacts DEF IInv, TypeOK
<1>2. ASSUME NEW sender \in SenderStrings, NEW s \in Subdenoms, CreateDenom(sender, s)
      PROVE  Ledger!Next
  BY <1>1, <1>2, CreateDenomIsCreate DEF Ledger!Next
<1>3. ASSUME NEW sender \in SenderStrings, NEW denom \in Denoms,
             NEW n \in 1..MaxAmount, NEW to \in AddrStrings \cup {Nobody},
             Mint(sender, denom, n, to)
      PROVE  Ledger!Next
  BY <1>1, <1>3, MintIsIssue DEF Ledger!Next
<1>4. ASSUME NEW sender \in SenderStrings, NEW denom \in Denoms,
             NEW n \in 1..MaxAmount, NEW from \in AddrStrings \cup {Nobody},
             Burn(sender, denom, n, from)
      PROVE  Ledger!Next
  BY <1>1, <1>4, BurnIsDestroy DEF Ledger!Next
<1>5. ASSUME NEW sender \in SenderStrings, NEW denom \in Denoms,
             NEW n \in 0..MaxAmount, NEW from \in AddrStrings, NEW to \in AddrStrings,
             ForceTransfer(sender, denom, n, from, to)
      PROVE  Ledger!Next
  BY <1>1, <1>5, ForceTransferIsSeize DEF Ledger!Next
<1>6. ASSUME NEW sender \in SenderStrings, NEW denom \in Denoms, NEW a \in AddrStrings,
             ChangeAdmin(sender, denom, a)
      PROVE  Ledger!Next
  <2>1. Ledger!IsOwner(denom) BY <1>6, AdminIsOwner DEF ChangeAdmin
  <2>2. Ledger!HandOver(denom, a)
    BY <1>6, <2>1 DEF ChangeAdmin, Ledger!HandOver, bankVars, ExportedDenoms
  <2> QED BY <1>1, <2>2 DEF Ledger!Next
<1>7. ASSUME NEW sender \in SenderStrings, NEW denom \in Denoms,
             SetDenomMetadata(sender, denom)
      PROVE  Ledger!Next
  BY <1>1, <1>7 DEF SetDenomMetadata, storeVars, ExportedDenoms,
                    Ledger!Next, Ledger!Elsewhere
<1>8. ASSUME NEW sender \in SenderStrings, NEW denom \in Denoms,
             NEW c \in Contracts \cup {NoHook}, SetBeforeSendHook(sender, denom, c)
      PROVE  Ledger!Next
  BY <1>1, <1>8 DEF SetBeforeSendHook, bankVars, ExportedDenoms,
                    Ledger!Next, Ledger!Elsewhere
<1>9. ASSUME NEW sender \in SenderStrings, NEW denom \in Denoms,
             NEW n \in 1..MaxAmount, NEW to \in AddrStrings,
             BankSend(sender, to, denom, n)
      PROVE  Ledger!Next
  BY <1>1, <1>9, BankSendIsSend DEF Ledger!Next
<1>10. CASE Message
  BY <1>10, <1>3, <1>4, <1>5, <1>6, <1>7, <1>8, <1>9 DEF Message
<1>11. ASSUME NEW newFee \in FeeChoices, GovSetFee(newFee) PROVE Ledger!Next
  BY <1>1, <1>11 DEF GovSetFee, bankVars, storeVars, ExportedDenoms,
                     Ledger!Next, Ledger!Elsewhere
<1>12. CASE RestartFromExport
  BY <1>1, <1>12, RestartKeeps DEF RestartFromExport, Ledger!Next, Ledger!Elsewhere
<1> QED BY <1>2, <1>10, <1>11, <1>12 DEF Next

\* The token factory implements the ledger, for any accounts, modules, address
\* spellings, denoms and bounds: minting, burning and forced transfers are the
\* owner's alone and spare module accounts, coins move otherwise only by their
\* holder's message, and a restart from an export is invisible.
THEOREM FactoryImplementsLedger == Spec => ImplementsLedger
BY Invariance, InitIsLedger, NextIsLedger, PTL
   DEF Spec, ImplementsLedger, Ledger!Spec
=============================================================================
