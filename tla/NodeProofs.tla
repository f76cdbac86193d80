------------------------------ MODULE NodeProofs ------------------------------
(***************************************************************************)
(* Theorems about a node and its operator's commands: InPlaceTestnet, for  *)
(* any set of operators and any state of the real chain; TestnetFiles, for *)
(* any number of validators and of runs; AppBuild, for any latest height;  *)
(* and Upgrades, for any plan names, any handlers of the old binary        *)
(* without v0.0.10's, any height and any number of crashes.                *)
(***************************************************************************)
EXTENDS Integers, InPlaceTestnet, TestnetFiles, AppBuild, Upgrades, TLAPS

-----------------------------------------------------------------------------
(* In-place testnets.                                                      *)

Keys == { KeyOf(op) : op \in Operators } \cup { <<"new", n>> : n \in Nat } \cup {<<>>}

StoreRecords ==
  [ validators : [ Operators -> [ status : Statuses, key : Keys ] ],
    power : SUBSET Operators, last : SUBSET Operators, queue : SUBSET Operators,
    cons : SUBSET (Keys \X Operators), signing : SUBSET Keys ]

InPlaceTypeOK ==
  /\ committed \in StoreRecords
  /\ working \in StoreRecords
  /\ launch \in Nat
  /\ doing \in { "RemovePower", "RemoveLast", "RemoveValidators",
                 "RemoveQueue", "SetValidator", "SetValidatorByConsAddr",
                 "SetValidatorByPowerIndex", "SetLastValidatorPower",
                 "SetValidatorSigningInfo", "fund", "serving", "down" }

\* The indexes are emptied and then hold the new validator only.
IndexesRewritten ==
  /\ doing \in { "RemoveLast", "RemoveValidators", "RemoveQueue", "SetValidator",
                 "SetValidatorByConsAddr", "SetValidatorByPowerIndex" }
       => working.power = {}
  /\ doing \in { "SetLastValidatorPower", "SetValidatorSigningInfo", "fund", "serving" }
       => working.power = {NewOperator}
  /\ doing \in { "RemoveValidators", "RemoveQueue", "SetValidator",
                 "SetValidatorByConsAddr", "SetValidatorByPowerIndex",
                 "SetLastValidatorPower" }
       => working.last = {}
  /\ doing \in { "SetValidatorSigningInfo", "fund", "serving" }
       => working.last = {NewOperator}
  /\ doing \in { "SetValidator", "SetValidatorByConsAddr", "SetValidatorByPowerIndex",
                 "SetLastValidatorPower", "SetValidatorSigningInfo", "fund", "serving" }
       => working.queue = {}

\* So are the records of the validators.
ValidatorsRewritten ==
  /\ doing \in { "RemoveQueue", "SetValidator" }
       => working.validators = [ op \in Operators |-> Absent ]
  /\ doing \in { "SetValidatorByConsAddr", "SetValidatorByPowerIndex",
                 "SetLastValidatorPower", "SetValidatorSigningInfo", "fund", "serving" }
       => working.validators = [ op \in Operators |->
                                   IF op = NewOperator THEN NewValidator ELSE Absent ]

\* The new key is found where slashing looks for it.
NewKeyKnown ==
  /\ doing \in { "SetValidatorByPowerIndex", "SetLastValidatorPower",
                 "SetValidatorSigningInfo", "fund", "serving" }
       => <<NewKey, NewOperator>> \in working.cons
  /\ doing \in { "fund", "serving" } => NewKey \in working.signing
  /\ doing = "serving" => comet = {NewKey}

InPlaceIInv ==
  /\ InPlaceTypeOK
  /\ IndexesRewritten
  /\ ValidatorsRewritten
  /\ NewKeyKnown

\* A chain's stores have their type.
LEMMA ChainStoresTyped == ChainStores \subseteq StoreRecords
<1> SUFFICES ASSUME NEW status \in [Operators -> Statuses], NEW idle \in SUBSET Operators
             PROVE  ChainStore(status, idle) \in StoreRecords
  BY DEF ChainStores
<1> DEFINE exist == { op \in Operators : status[op] # "absent" }
           bonded == { op \in Operators : status[op] = "bonded" }
<1>1. \A op \in Operators : KeyOf(op) \in Keys
  BY DEF Keys
<1>2. Absent \in [ status : Statuses, key : Keys ]
  BY DEF Absent, Statuses, Keys
<1>3. [ op \in Operators |->
          IF op \in exist THEN [ status |-> status[op], key |-> KeyOf(op) ] ELSE Absent ]
        \in [ Operators -> [ status : Statuses, key : Keys ] ]
  BY <1>1, <1>2
<1>4. /\ { <<KeyOf(op), op>> : op \in exist } \in SUBSET (Keys \X Operators)
      /\ { KeyOf(op) : op \in bonded } \in SUBSET Keys
  BY <1>1
<1>5. bonded \cup (idle \cap exist) \in SUBSET Operators
      /\ { op \in Operators : status[op] = "unbonding" } \in SUBSET Operators
  OBVIOUS
<1> QED
  BY <1>3, <1>4, <1>5 DEF ChainStore, StoreRecords

\* Nothing has been rewritten while the node is down.
LEMMA InPlaceInitIInv == InPlaceInit => InPlaceIInv
BY ChainStoresTyped
DEF InPlaceInit, InPlaceIInv, InPlaceTypeOK, IndexesRewritten, ValidatorsRewritten,
    NewKeyKnown

\* The new validator's key and record have their types.
LEMMA NewKeyTyped ==
  ASSUME InPlaceIInv
  PROVE  /\ NewKey \in Keys /\ NewOperator \in Operators
         /\ NewValidator \in [ status : Statuses, key : Keys ]
         /\ Absent \in [ status : Statuses, key : Keys ]
<1>1. NewKey \in Keys
  BY DEF InPlaceIInv, InPlaceTypeOK, NewKey, Keys
<1>2. Absent \in [ status : Statuses, key : Keys ]
  BY DEF Absent, Statuses, Keys
<1> QED
  BY <1>1, <1>2, InPlaceAssumption DEF NewValidator, Statuses

\* Each statement of initAppForTestnet rewrites its part of the stores and
\* leaves what earlier ones have rewritten.
LEMMA RewriteIInv == ASSUME InPlaceIInv, initAppForTestnet PROVE InPlaceIInv'
<1> USE NewKeyTyped
<1>1. PICK s \in Changes : doing = s.name /\ working' = s.stores /\ doing' = s.then
  BY DEF initAppForTestnet
<1>2. UNCHANGED <<committed, launch, funding, comet>>
  BY DEF initAppForTestnet
<1>3. working \in StoreRecords /\ committed \in StoreRecords /\ launch \in Nat
  BY DEF InPlaceIInv, InPlaceTypeOK
<1>4. NewKey' = NewKey /\ NewValidator' = NewValidator
  BY <1>2 DEF NewKey, NewValidator
<1> USE DEF InPlaceIInv, InPlaceTypeOK, IndexesRewritten, ValidatorsRewritten, NewKeyKnown
<1>5. CASE s = Step("RemovePower", "RemoveLast", RemovePower(working))
  <2>1. doing = "RemovePower" /\ doing' = "RemoveLast" /\ working' = RemovePower(working)
    BY <1>1, <1>5 DEF Step
  <2>2. working' \in StoreRecords /\ working'.power = {}
    BY <1>3, <2>1 DEF RemovePower, StoreRecords
  <2> QED
    BY <1>2, <1>3, <2>1, <2>2
<1>6. CASE s = Step("RemoveLast", "RemoveValidators", RemoveLast(working))
  <2>1. doing = "RemoveLast" /\ doing' = "RemoveValidators" /\ working' = RemoveLast(working)
    BY <1>1, <1>6 DEF Step
  <2>2. working' \in StoreRecords /\ working'.power = working.power /\ working'.last = {}
    BY <1>3, <2>1 DEF RemoveLast, StoreRecords
  <2> QED
    BY <1>2, <1>3, <2>1, <2>2
<1>7. CASE s = Step("RemoveValidators", "RemoveQueue", RemoveValidators(working))
  <2>1. /\ doing = "RemoveValidators" /\ doing' = "RemoveQueue"
        /\ working' = RemoveValidators(working)
    BY <1>1, <1>7 DEF Step
  <2>2. /\ working' \in StoreRecords
        /\ working'.power = working.power /\ working'.last = working.last
        /\ working'.validators = [ op \in Operators |-> Absent ]
    BY <1>3, <2>1 DEF RemoveValidators, StoreRecords
  <2> QED
    BY <1>2, <1>3, <2>1, <2>2
<1>8. CASE s = Step("RemoveQueue", "SetValidator", RemoveQueue(working))
  <2>1. doing = "RemoveQueue" /\ doing' = "SetValidator" /\ working' = RemoveQueue(working)
    BY <1>1, <1>8 DEF Step
  <2>2. /\ working' \in StoreRecords /\ working'.queue = {}
        /\ working'.power = working.power /\ working'.last = working.last
        /\ working'.validators = working.validators
    BY <1>3, <2>1 DEF RemoveQueue, StoreRecords
  <2> QED
    BY <1>2, <1>3, <2>1, <2>2
<1>9. CASE s = Step("SetValidator", "SetValidatorByConsAddr", SetValidator(working))
  <2>1. /\ doing = "SetValidator" /\ doing' = "SetValidatorByConsAddr"
        /\ working' = SetValidator(working)
    BY <1>1, <1>9 DEF Step
  <2>2. /\ working' \in StoreRecords /\ working'.queue = working.queue
        /\ working'.power = working.power /\ working'.last = working.last
        /\ working'.validators = [ working.validators EXCEPT ![NewOperator] = NewValidator ]
    BY <1>3, <2>1 DEF SetValidator, StoreRecords
  <2>3. working'.validators =
          [ op \in Operators |-> IF op = NewOperator THEN NewValidator' ELSE Absent ]
    BY <1>4, <2>1, <2>2
  <2> QED
    BY <1>2, <1>3, <2>1, <2>2, <2>3
<1>10. CASE s = Step("SetValidatorByConsAddr", "SetValidatorByPowerIndex",
                     SetValidatorByConsAddr(working))
  <2>1. /\ doing = "SetValidatorByConsAddr" /\ doing' = "SetValidatorByPowerIndex"
        /\ working' = SetValidatorByConsAddr(working)
    BY <1>1, <1>10 DEF Step
  <2>2. /\ working' \in StoreRecords /\ working'.queue = working.queue
        /\ working'.power = working.power /\ working'.last = working.last
        /\ working'.validators = working.validators
        /\ <<NewKey, NewOperator>> \in working'.cons
    BY <1>3, <2>1 DEF SetValidatorByConsAddr, StoreRecords
  <2> QED
    BY <1>2, <1>3, <1>4, <2>1, <2>2
<1>11. CASE s = Step("SetValidatorByPowerIndex", "SetLastValidatorPower",
                     SetValidatorByPowerIndex(working))
  <2>1. /\ doing = "SetValidatorByPowerIndex" /\ doing' = "SetLastValidatorPower"
        /\ working' = SetValidatorByPowerIndex(working)
    BY <1>1, <1>11 DEF Step
  <2>2. /\ working' \in StoreRecords /\ working'.queue = working.queue
        /\ working'.power = working.power \cup {NewOperator}
        /\ working'.last = working.last
        /\ working'.validators = working.validators /\ working'.cons = working.cons
    BY <1>3, <2>1 DEF SetValidatorByPowerIndex, StoreRecords
  <2> QED
    BY <1>2, <1>3, <1>4, <2>1, <2>2
<1>12. CASE s = Step("SetLastValidatorPower", "SetValidatorSigningInfo",
                     SetLastValidatorPower(working))
  <2>1. /\ doing = "SetLastValidatorPower" /\ doing' = "SetValidatorSigningInfo"
        /\ working' = SetLastValidatorPower(working)
    BY <1>1, <1>12 DEF Step
  <2>2. /\ working' \in StoreRecords /\ working'.queue = working.queue
        /\ working'.power = working.power
        /\ working'.last = working.last \cup {NewOperator}
        /\ working'.validators = working.validators /\ working'.cons = working.cons
    BY <1>3, <2>1 DEF SetLastValidatorPower, StoreRecords
  <2> QED
    BY <1>2, <1>3, <1>4, <2>1, <2>2
<1>13. CASE s = Step("SetValidatorSigningInfo", "fund", SetValidatorSigningInfo(working))
  <2>1. /\ doing = "SetValidatorSigningInfo" /\ doing' = "fund"
        /\ working' = SetValidatorSigningInfo(working)
    BY <1>1, <1>13 DEF Step
  <2>2. /\ working' \in StoreRecords /\ working'.queue = working.queue
        /\ working'.power = working.power /\ working'.last = working.last
        /\ working'.validators = working.validators /\ working'.cons = working.cons
        /\ NewKey \in working'.signing
    BY <1>3, <2>1 DEF SetValidatorSigningInfo, StoreRecords
  <2> QED
    BY <1>2, <1>3, <1>4, <2>1, <2>2
<1> QED
  BY <1>1, <1>5, <1>6, <1>7, <1>8, <1>9, <1>10, <1>11, <1>12, <1>13 DEF Changes

\* The stores the command leaves stop no block, and a block leaves them as they
\* are: the new validator stays the only one.
LEMMA BlockFacts ==
  ASSUME InPlaceIInv, doing = "serving", NEW mature \in SUBSET working.queue
  PROVE  /\ Proceeds(working, mature)
         /\ AfterBlock(working, mature) = working
         /\ { working.validators[op].key : op \in Leaving(working) } = {}
         /\ { working.validators[op].key : op \in working.power } = {NewKey}
         /\ comet = {NewKey}
<1> USE NewKeyTyped
<1>1. /\ working \in StoreRecords
      /\ working.power = {NewOperator} /\ working.last = {NewOperator}
      /\ working.queue = {}
      /\ working.validators = [ op \in Operators |->
                                  IF op = NewOperator THEN NewValidator ELSE Absent ]
      /\ <<NewKey, NewOperator>> \in working.cons
      /\ NewKey \in working.signing
      /\ comet = {NewKey}
  BY DEF InPlaceIInv, InPlaceTypeOK, IndexesRewritten, ValidatorsRewritten, NewKeyKnown
<1>2. mature = {} /\ Leaving(working) = {}
  BY <1>1 DEF Leaving
<1>3. /\ working.validators[NewOperator] = NewValidator
      /\ NewValidator.status = "bonded" /\ NewValidator.key = NewKey
  BY <1>1 DEF NewValidator
<1>4. Proceeds(working, mature)
  BY <1>1, <1>2, <1>3 DEF Proceeds, Exists
<1>5. AfterBlock(working, mature) = working
  <2> DEFINE w == working.validators
             after == [ op \in Operators |->
                 CASE op \in working.power -> [ w[op] EXCEPT !.status = "bonded" ]
                   [] op \in Leaving(working) -> [ w[op] EXCEPT !.status = "unbonding" ]
                   [] op \in mature -> [ w[op] EXCEPT !.status = "unbonded" ]
                   [] OTHER -> w[op] ]
  <2>1. [ w[NewOperator] EXCEPT !.status = "bonded" ] = w[NewOperator]
    BY <1>3 DEF NewValidator
  <2>2. ASSUME NEW op \in Operators PROVE after[op] = w[op]
    <3>1. CASE op = NewOperator
      <4>1. op \in working.power /\ op \notin Leaving(working) /\ op \notin mature
        BY <1>1, <1>2, <3>1
      <4> HIDE DEF w
      <4>2. after[op] = [ w[op] EXCEPT !.status = "bonded" ]
        BY <4>1
      <4> QED
        BY <2>1, <3>1, <4>2
    <3>2. CASE op # NewOperator
      <4>1. op \notin working.power /\ op \notin Leaving(working) /\ op \notin mature
        BY <1>1, <1>2, <3>2
      <4> HIDE DEF w
      <4> QED
        BY <4>1
    <3> QED
      BY <3>1, <3>2
  <2>3. after = w
    BY <1>1, <2>2 DEF StoreRecords
  <2>4. ((working.queue \ mature) \cup Leaving(working)) \ working.power = working.queue
    BY <1>1, <1>2
  <2>5. AfterBlock(working, mature)
          = [ working EXCEPT !.validators = after, !.last = working.power,
                !.queue = ((@ \ mature) \cup Leaving(working)) \ working.power ]
    BY DEF AfterBlock
  <2> HIDE DEF after, w
  <2>6. AfterBlock(working, mature)
          = [ working EXCEPT !.validators = w, !.last = working.last,
                             !.queue = working.queue ]
    BY <1>1, <2>3, <2>4, <2>5
  <2> QED
    BY <1>1, <2>6 DEF w, StoreRecords
<1> QED
  BY <1>1, <1>2, <1>3, <1>4, <1>5

\* Every step keeps the invariant.
LEMMA InPlaceNextIInv == InPlaceIInv /\ [InPlaceNext]_inPlaceVars => InPlaceIInv'
<1> SUFFICES ASSUME InPlaceIInv, [InPlaceNext]_inPlaceVars
             PROVE  InPlaceIInv'
  OBVIOUS
<1>0. ASSUME NEW accounts, newTestnetApp(accounts) PROVE launch' \in Nat
  <2>1. launch \in Nat /\ launch' = launch + 1
    BY <1>0 DEF newTestnetApp, InPlaceIInv, InPlaceTypeOK
  <2> QED
    BY <2>1
<1> USE DEF InPlaceIInv, InPlaceTypeOK, IndexesRewritten, ValidatorsRewritten,
            NewKeyKnown, NewKey, NewValidator
<1>1. ASSUME NEW accounts \in SUBSET (Accounts \cup {NotAnAddress}),
             newTestnetApp(accounts)
      PROVE  InPlaceIInv'
  <2>1. /\ doing' = "RemovePower" /\ working' = committed /\ committed' = committed
        /\ launch' = launch + 1
    BY <1>1 DEF newTestnetApp
  <2>2. launch' \in Nat
    BY <1>0, <1>1
  <2> QED
    BY <2>1, <2>2
<1>2. CASE initAppForTestnet
  BY <1>2, RewriteIInv
<1>3. CASE FundAccount
  <2>1. /\ doing = "fund" /\ doing' \in {"fund", "down"}
        /\ UNCHANGED <<committed, working, launch, comet>>
    BY <1>3 DEF FundAccount
  <2> QED
    BY <2>1
<1>4. CASE Serve
  BY <1>4 DEF Serve
<1>5. CASE Killed
  BY <1>5 DEF Killed
<1>6. CASE Block
  <2>1. PICK mature \in SUBSET working.queue :
          IF Proceeds(working, mature)
            THEN /\ working' = AfterBlock(working, mature)
                 /\ committed' = working'
                 /\ comet' = (comet \ { working.validators[op].key : op \in Leaving(working) })
                               \cup { working.validators[op].key : op \in working.power }
                 /\ doing' = doing
            ELSE doing' = "halted" /\ UNCHANGED <<committed, working, comet>>
    BY <1>6 DEF Block
  <2>2. doing = "serving" /\ UNCHANGED launch
    BY <1>6 DEF Block
  <2>3. working' = working /\ committed' = working /\ comet' = comet /\ doing' = doing
    BY <2>1, <2>2, BlockFacts
  <2> QED
    BY <2>2, <2>3
<1>7. CASE UNCHANGED inPlaceVars
  BY <1>7 DEF inPlaceVars
<1> QED
  BY <1>1, <1>2, <1>3, <1>4, <1>5, <1>6, <1>7 DEF InPlaceNext

\* Every reachable state satisfies the invariant, from whatever state of the
\* real chain and however often the command is killed and run again.
THEOREM InPlaceInvariance == InPlaceSpec => []InPlaceIInv
  BY InPlaceInitIInv, InPlaceNextIInv, PTL DEF InPlaceSpec

\* No record the command leaves behind or forgets to write stops a block.
THEOREM TestnetAlwaysGoesOn == InPlaceSpec => []TestnetGoesOn
<1>1. InPlaceIInv => TestnetGoesOn
  BY DEF InPlaceIInv, InPlaceTypeOK, TestnetGoesOn
<1> QED
  BY <1>1, InPlaceInvariance, PTL

\* Once a block has ended only the new validator is bonded, and Comet and the
\* application agree on it.
THEOREM OnlyNewValidatorBonded == InPlaceSpec => []OnlyNewValidator
<1>1. InPlaceIInv => OnlyNewValidator
  <2> SUFFICES ASSUME InPlaceIInv, doing = "serving", committed = working
               PROVE  /\ comet = {NewKey}
                      /\ { op \in Operators : committed.validators[op].status = "bonded" }
                           = {NewOperator}
                      /\ { committed.validators[op].key : op \in committed.last } = comet
    BY DEF OnlyNewValidator
  <2>1. /\ committed.last = {NewOperator} /\ comet = {NewKey}
        /\ committed.validators = [ op \in Operators |->
                                    IF op = NewOperator THEN NewValidator ELSE Absent ]
    BY DEF InPlaceIInv, IndexesRewritten, ValidatorsRewritten, NewKeyKnown
  <2>2. /\ NewValidator.status = "bonded" /\ NewValidator.key = NewKey
        /\ Absent.status = "absent"
    BY DEF NewValidator, Absent
  <2>3. \A op \in Operators : committed.validators[op].status = "bonded" <=> op = NewOperator
    BY <2>1, <2>2
  <2>4. { op \in Operators : committed.validators[op].status = "bonded" } = {NewOperator}
    BY <2>3, NewKeyTyped
  <2>5. committed.validators[NewOperator].key = NewKey
    BY <2>1, <2>2, NewKeyTyped
  <2>6. { committed.validators[op].key : op \in committed.last } = {NewKey}
    <3>1. committed.last = {NewOperator}
      BY <2>1
    <3> QED
      BY ONLY <2>5, <3>1
  <2> QED
    BY <2>1, <2>4, <2>6
<1> QED
  BY <1>1, InPlaceInvariance, PTL

-----------------------------------------------------------------------------
(* The files of a local testnet.                                           *)

Pairs == Nodes \X Nat
Gentxs == [ id : Pairs, account : Pairs ]
Geneses == [ chain : Nat, accounts : SUBSET Pairs, gentxs : SUBSET Gentxs ]
Dirs == [ id : Pairs \cup {None}, account : Pairs \cup {None},
          gentx : SUBSET Gentxs, genesis : Geneses, peers : SUBSET Pairs ]

\* The loops stay within the validators that were asked for.
FilesTypeOK ==
  /\ dir \in [ Nodes -> Dirs ]
  /\ ids \in [ Nodes -> Pairs \cup {None} ]
  /\ run \in Nat /\ numValidators \in 0..MaxValidators
  /\ i \in Nat /\ file \in Nat
  /\ at \in { "idle", "nodeFiles", "key", "gentx", "genesis", "copy", "collect" }
  /\ at \in { "key", "gentx", "genesis", "copy", "collect" } => i < numValidators
  /\ at = "copy" => file < numValidators
  /\ at \notin { "idle", "copy" } => file = 0
  /\ report = "running" <=> at # "idle"

\* What every run finds: ids name their node, a file name belongs to one gentx,
\* and a gentx was made by an earlier run, or this one, for a node whose
\* directory still has its id.
DirsSound ==
  /\ \A n \in Nodes : dir[n].id # None => dir[n].id[1] = n
  /\ \A n \in Nodes : \A g, h \in dir[n].gentx : g.id = h.id => g = h
  /\ \A n \in Nodes : \A g \in dir[n].gentx :
       g.account[2] <= run /\ \E k \in Nodes : dir[k].id = g.id

\* How far the run is with node n.
Later == at \in { "genesis", "copy", "collect" }
HasId(n) == n < i \/ (n = i /\ at # "nodeFiles") \/ Later
HasAccount(n) == n < i \/ (n = i /\ at = "gentx") \/ Later
HasGentx(n) == n < i \/ Later
HasGenesis(n) == (at = "genesis" /\ n < i) \/ at \in { "copy", "collect" }
HasCopy(n, f) == at = "collect" \/ (at = "copy" /\ (n < i \/ (n = i /\ f < file)))
IsCollected(n) == at = "collect" /\ n < i

RunAccounts == { <<k, run>> : k \in Validators }
RunGentxs == { GentxOf(k) : k \in Validators }

\* What the run has done so far is still there.
RunKept ==
  \A n \in Validators :
    /\ HasId(n) => ids[n] # None /\ ids[n] = dir[n].id
    /\ HasAccount(n) => dir[n].account = <<n, run>>
    /\ HasGentx(n) => GentxOf(n) \in dir[n].gentx
    /\ HasGenesis(n) => dir[n].genesis.chain = run /\ dir[n].genesis.accounts = RunAccounts
    /\ \A f \in Validators : HasCopy(n, f) => GentxOf(f) \in dir[n].gentx
    /\ IsCollected(n) => /\ dir[n].genesis.gentxs = RunGentxs
                         /\ dir[n].peers = { ids[k] : k \in Validators }

\* The run has made nothing else.
RunExact ==
  /\ \A n \in Nodes : \A g \in dir[n].gentx :
       g.account[2] = run => \E k \in Validators : HasId(k) /\ g = GentxOf(k)
  /\ appState = IF at = "collect" /\ i > 0 THEN <<RunGentxs>> ELSE None

FilesIInv ==
  /\ FilesTypeOK
  /\ DirsSound
  /\ at # "idle" => RunKept /\ RunExact
  /\ NetworkComplete
  /\ RefusedOnlyWhenSmaller

\* An id is not the missing one.
LEMMA PairFacts ==
  ASSUME NEW p \in Pairs
  PROVE  p # None /\ p[1] \in Nodes /\ p[2] \in Nat
<1>1. p[1] \in Nodes /\ p[2] \in Nat /\ p = <<p[1], p[2]>>
  BY DEF Pairs
<1>2. Len(<<p[1], p[2]>>) = 2 /\ Len(<<>>) = 0
  OBVIOUS
<1>3. <<p[1], p[2]>> # <<>>
  BY ONLY <1>2
<1> QED
  BY <1>1, <1>3, Zenon DEF None

\* Nodes that were asked for are nodes.
LEMMA ValidatorFacts ==
  ASSUME FilesTypeOK
  PROVE  /\ \A n \in Validators : n \in Nodes /\ n \in Nat /\ n < numValidators
         /\ \A n \in Nat : n < numValidators => n \in Validators
         /\ \A n \in Nodes : n \in Nat
BY FilesAssumption DEF FilesTypeOK, Validators, Nodes

\* A file of that name is replaced, the others stay.
LEMMA PutFacts ==
  ASSUME NEW files \in SUBSET Gentxs, NEW t \in Gentxs
  PROVE  /\ Put(files, t) \in SUBSET Gentxs
         /\ t \in Put(files, t)
         /\ \A g \in Put(files, t) : g = t \/ (g \in files /\ g.id # t.id)
         /\ \A g \in files : g.id # t.id => g \in Put(files, t)
BY DEF Put

\* A directory has its fields.
LEMMA DirFacts ==
  ASSUME FilesTypeOK, NEW n \in Nodes
  PROVE  /\ dir[n] \in Dirs
         /\ dir[n].id \in Pairs \cup {None} /\ dir[n].gentx \in SUBSET Gentxs
         /\ dir[n].genesis \in Geneses /\ dir[n].peers \in SUBSET Pairs
         /\ ids[n] \in Pairs \cup {None}
BY DEF FilesTypeOK, Dirs

\* Nothing is claimed of a run that has neither succeeded nor been refused.
LEMMA NothingClaimed ==
  ASSUME report \notin {"ok", "refused"}
  PROVE  NetworkComplete /\ RefusedOnlyWhenSmaller
BY DEF NetworkComplete, RefusedOnlyWhenSmaller

\* An empty output directory.
LEMMA FilesInitIInv == FilesInit => FilesIInv
<1> SUFFICES ASSUME FilesInit PROVE FilesIInv
  OBVIOUS
<1>1. NoDir \in Dirs
  BY DEF NoDir, NoGenesis, Dirs, Geneses
<1>2. FilesTypeOK
  BY <1>1, FilesAssumption DEF FilesInit, FilesTypeOK
<1>3. DirsSound
  BY DEF FilesInit, DirsSound, NoDir
<1> QED
  BY <1>2, <1>3, NothingClaimed DEF FilesInit, FilesIInv

\* A run starts: everything that is there was made by earlier ones.
LEMMA MultiNodeIInv ==
  ASSUME FilesIInv, NEW v \in 0..MaxValidators, MultiNode(v)
  PROVE  FilesIInv'
<1>1. /\ at' = "nodeFiles" /\ i' = 0 /\ file' = 0 /\ run' = run + 1
      /\ numValidators' = v /\ dir' = dir /\ ids' = [ n \in Nodes |-> None ]
      /\ appState' = None /\ report' = "running"
  BY DEF MultiNode
<1>2. FilesTypeOK /\ DirsSound
  BY DEF FilesIInv
<1>3. run \in Nat /\ run' \in Nat
  BY <1>1, <1>2 DEF FilesTypeOK
<1>4. FilesTypeOK'
  BY <1>1, <1>2, <1>3 DEF FilesTypeOK
<1>5. ASSUME NEW n \in Nodes, NEW g \in dir[n].gentx
      PROVE  g.account[2] <= run /\ g.account[2] \in Nat
  <2>1. g \in Gentxs
    BY <1>2, DirFacts
  <2>2. g.account \in Pairs
    BY <2>1 DEF Gentxs
  <2> QED
    BY <1>2, <2>2, PairFacts DEF DirsSound
<1>6. DirsSound'
  <2>1. \A n \in Nodes : \A g \in dir[n].gentx : g.account[2] <= run'
    BY <1>1, <1>3, <1>5
  <2> QED
    BY <1>1, <1>2, <2>1 DEF DirsSound
<1>7. RunKept'
  <2>1. \A n \in Validators' : n \in Nat
    BY <1>1 DEF Validators
  <2> QED
    BY <1>1, <2>1 DEF RunKept, HasId, HasAccount, HasGentx, HasGenesis, HasCopy,
                      IsCollected, Later
<1>8. RunExact'
  <2>1. \A n \in Nodes : \A g \in dir[n].gentx : g.account[2] # run'
    BY <1>1, <1>3, <1>5
  <2> QED
    BY <1>1, <2>1 DEF RunExact
<1> QED
  BY <1>1, <1>4, <1>6, <1>7, <1>8, NothingClaimed DEF FilesIInv, NetworkComplete,
     RefusedOnlyWhenSmaller

\* A step of the loops leaves the run as it is and claims nothing yet.
Running == at # "idle" /\ at' # "idle" /\ Stays

\* Such a step keeps the invariant if it keeps its four parts.
LEMMA RunningIInv ==
  ASSUME FilesIInv, Running, FilesTypeOK', DirsSound', RunKept', RunExact'
  PROVE  FilesIInv'
<1>1. report' = "running"
  BY DEF Running, Stays, FilesIInv, FilesTypeOK
<1>2. NetworkComplete' /\ RefusedOnlyWhenSmaller'
  BY <1>1 DEF NetworkComplete, RefusedOnlyWhenSmaller
<1> QED
  BY <1>2 DEF FilesIInv

\* Keys that are there are kept, and a new id names its node and its run.
LEMMA InitializeIInv ==
  ASSUME FilesIInv, InitializeNodeValidatorFiles
  PROVE  FilesIInv'
<1> DEFINE id == IF dir[i].id = None THEN <<i, run>> ELSE dir[i].id
<1>1. /\ at = "nodeFiles" /\ at' = "key" /\ i < numValidators
      /\ dir' = [ dir EXCEPT ![i].id = id ]
      /\ ids' = [ ids EXCEPT ![i] = id ]
      /\ UNCHANGED <<i, file, appState>> /\ Stays
  BY DEF InitializeNodeValidatorFiles
<1>2. FilesTypeOK /\ DirsSound /\ RunKept /\ RunExact
  BY <1>1 DEF FilesIInv
<1>3. UNCHANGED <<i, file, appState, run, numValidators, report>>
  BY <1>1 DEF Stays
<1>4. i \in Validators /\ i \in Nodes /\ i \in Nat /\ run \in Nat
  BY <1>1, <1>2, ValidatorFacts DEF FilesTypeOK
<1>5. id \in Pairs /\ id # None /\ id[1] = i
  <2>1. CASE dir[i].id = None
    <3>1. <<i, run>> \in Pairs
      BY <1>4 DEF Pairs
    <3> QED
      BY <2>1, <3>1, PairFacts
  <2>2. CASE dir[i].id # None
    BY <1>2, <1>4, <2>2, DirFacts DEF DirsSound
  <2> QED
    BY <2>1, <2>2
<1>6. dir[i].id # None => id = dir[i].id
  OBVIOUS
<1> HIDE DEF id
<1>7. /\ dir' \in [ Nodes -> Dirs ] /\ ids' \in [ Nodes -> Pairs \cup {None} ]
      /\ dir'[i].id = id /\ ids'[i] = id
      /\ \A n \in Nodes : n # i => dir'[n] = dir[n] /\ ids'[n] = ids[n]
      /\ \A n \in Nodes : /\ dir'[n].gentx = dir[n].gentx
                          /\ dir'[n].account = dir[n].account
  BY <1>1, <1>2, <1>4, <1>5 DEF FilesTypeOK, Dirs
<1>8. FilesTypeOK'
  BY <1>1, <1>2, <1>3, <1>7 DEF FilesTypeOK
<1>9. DirsSound'
  <2>1. \A n \in Nodes : dir'[n].id # None => dir'[n].id[1] = n
    BY <1>2, <1>4, <1>5, <1>7 DEF DirsSound
  <2>2. ASSUME NEW n \in Nodes, NEW g \in dir[n].gentx
        PROVE  \E k \in Nodes : dir'[k].id = g.id
    <3>1. PICK k \in Nodes : dir[k].id = g.id
      BY <1>2 DEF DirsSound
    <3>2. g.id \in Pairs
      BY <1>2, DirFacts DEF Gentxs
    <3>3. g.id # None
      BY <3>2, PairFacts
    <3> QED
      BY <1>6, <1>7, <3>1, <3>3
  <2> QED
    BY <1>2, <1>3, <1>7, <2>1, <2>2 DEF DirsSound
<1>10. RunKept'
  <2> SUFFICES ASSUME NEW n \in Validators
               PROVE  /\ HasId(n)' => ids'[n] # None /\ ids'[n] = dir'[n].id
                      /\ HasAccount(n)' => dir'[n].account = <<n, run>>
                      /\ HasGentx(n)' => GentxOf(n)' \in dir'[n].gentx
                      /\ ~HasGenesis(n)' /\ ~IsCollected(n)'
                      /\ \A f \in Validators : ~HasCopy(n, f)'
    BY <1>3 DEF RunKept, Validators
  <2>1. n \in Nodes /\ n \in Nat
    BY <1>2, ValidatorFacts
  <2>2. ~Later' /\ ~HasGenesis(n)' /\ ~IsCollected(n)' /\ \A f \in Validators : ~HasCopy(n, f)'
    BY <1>1 DEF Later, HasGenesis, IsCollected, HasCopy
  <2>3. HasId(n)' => ids'[n] # None /\ ids'[n] = dir'[n].id
    <3>1. CASE n = i
      BY <1>5, <1>7, <3>1
    <3>2. CASE n # i
      BY <1>1, <1>2, <1>3, <1>4, <1>7, <2>1, <2>2, <3>2 DEF RunKept, HasId
    <3> QED
      BY <3>1, <3>2
  <2>4. HasAccount(n)' => dir'[n].account = <<n, run>>
    BY <1>1, <1>2, <1>3, <1>7, <2>1, <2>2 DEF RunKept, HasAccount
  <2>5. HasGentx(n)' => GentxOf(n)' \in dir'[n].gentx
    <3> HAVE HasGentx(n)'
    <3>1. n < i
      BY <1>3, <2>2 DEF HasGentx
    <3>2. GentxOf(n)' = GentxOf(n)
      BY <1>3, <1>4, <1>7, <2>1, <3>1 DEF GentxOf
    <3> QED
      BY <1>2, <1>7, <2>1, <3>1, <3>2 DEF RunKept, HasGentx
  <2> QED
    BY <2>2, <2>3, <2>4, <2>5
<1>11. RunExact'
  <2>1. ASSUME NEW n \in Nodes, NEW g \in dir'[n].gentx, g.account[2] = run
        PROVE  \E k \in Validators : HasId(k)' /\ g = GentxOf(k)'
    <3>1. PICK k \in Validators : HasId(k) /\ g = GentxOf(k)
      BY <1>2, <1>7, <2>1 DEF RunExact
    <3>2. k < i /\ k \in Nodes /\ k \in Nat
      BY <1>1, <1>2, <3>1, ValidatorFacts DEF HasId, Later
    <3>3. GentxOf(k)' = GentxOf(k)
      BY <1>3, <1>4, <1>7, <3>2 DEF GentxOf
    <3> QED
      BY <1>3, <3>1, <3>2, <3>3 DEF HasId
  <2>2. appState' = None
    BY <1>1, <1>2, <1>3 DEF RunExact
  <2> QED
    BY <1>1, <1>3, <2>1, <2>2 DEF RunExact, Validators
<1>12. Running
  BY <1>1 DEF Running
<1> QED
  BY <1>8, <1>9, <1>10, <1>11, <1>12, RunningIInv

\* What a gentx of the run is depends on the ids only.
LEMMA GentxStable ==
  ASSUME UNCHANGED <<run, numValidators, ids>>
  PROVE  /\ \A k : GentxOf(k)' = GentxOf(k)
         /\ Validators' = Validators /\ RunAccounts' = RunAccounts
         /\ RunGentxs' = RunGentxs
BY DEF GentxOf, Validators, RunAccounts, RunGentxs

\* A gentx of the run is one.
LEMMA GentxTyped ==
  ASSUME FilesTypeOK, RunKept, NEW k \in Validators, HasId(k)
  PROVE  GentxOf(k) \in Gentxs /\ GentxOf(k).id = dir[k].id
         /\ GentxOf(k).account = <<k, run>>
<1>1. k \in Nodes /\ run \in Nat
  BY ValidatorFacts DEF FilesTypeOK
<1>2. ids[k] \in Pairs /\ ids[k] = dir[k].id
  BY <1>1, DirFacts DEF RunKept
<1>3. <<k, run>> \in Pairs
  BY <1>1 DEF Pairs
<1> QED
  BY <1>2, <1>3 DEF GentxOf, Gentxs

\* Different nodes have different ids, and so their gentxs have different names.
LEMMA GentxDistinct ==
  ASSUME FilesTypeOK, DirsSound, RunKept, NEW k \in Validators, NEW f \in Validators,
         HasId(k), HasId(f), k # f
  PROVE  GentxOf(k).id # GentxOf(f).id
<1>1. k \in Nodes /\ f \in Nodes
  BY ValidatorFacts
<1>2. /\ dir[k].id # None /\ dir[f].id # None
      /\ GentxOf(k).id = dir[k].id /\ GentxOf(f).id = dir[f].id
  BY GentxTyped DEF RunKept
<1> QED
  BY <1>1, <1>2 DEF DirsSound

\* Every run makes the account's key anew.
LEMMA GenerateIInv == ASSUME FilesIInv, GenerateSaveCoinKey PROVE FilesIInv'
<1>1. /\ at = "key" /\ at' = "gentx"
      /\ dir' = [ dir EXCEPT ![i].account = <<i, run>> ]
      /\ UNCHANGED <<i, file, ids, appState, run, numValidators, report>> /\ Stays
  BY DEF GenerateSaveCoinKey, Stays
<1>2. FilesTypeOK /\ DirsSound /\ RunKept /\ RunExact
  BY <1>1 DEF FilesIInv
<1>3. i \in Validators /\ i \in Nodes /\ i \in Nat /\ run \in Nat /\ i < numValidators
  BY <1>1, <1>2, ValidatorFacts DEF FilesTypeOK
<1>4. <<i, run>> \in Pairs
  BY <1>3 DEF Pairs
<1>5. /\ dir' \in [ Nodes -> Dirs ]
      /\ dir'[i].account = <<i, run>>
      /\ \A n \in Nodes : dir'[n].id = dir[n].id /\ dir'[n].gentx = dir[n].gentx
      /\ \A n \in Nodes : n # i => dir'[n] = dir[n]
  BY <1>1, <1>2, <1>3, <1>4 DEF FilesTypeOK, Dirs
<1>6. FilesTypeOK'
  BY <1>1, <1>2, <1>3, <1>5 DEF FilesTypeOK
<1>7. DirsSound'
  BY <1>1, <1>2, <1>5 DEF DirsSound
<1>8. RunKept'
  <2> SUFFICES ASSUME NEW n \in Validators
               PROVE  /\ HasId(n)' => ids[n] # None /\ ids[n] = dir'[n].id
                      /\ HasAccount(n)' => dir'[n].account = <<n, run>>
                      /\ HasGentx(n)' => GentxOf(n) \in dir'[n].gentx
                      /\ ~HasGenesis(n)' /\ ~IsCollected(n)'
                      /\ \A f \in Validators : ~HasCopy(n, f)'
    BY <1>1, GentxStable DEF RunKept
  <2>1. n \in Nodes /\ n \in Nat
    BY <1>2, ValidatorFacts
  <2>2. ~Later' /\ ~HasGenesis(n)' /\ ~IsCollected(n)' /\ \A f \in Validators : ~HasCopy(n, f)'
    BY <1>1 DEF Later, HasGenesis, IsCollected, HasCopy
  <2>3. HasId(n)' => ids[n] # None /\ ids[n] = dir'[n].id
    BY <1>1, <1>2, <1>5, <2>1, <2>2 DEF RunKept, HasId
  <2>4. HasAccount(n)' => dir'[n].account = <<n, run>>
    BY <1>1, <1>2, <1>3, <1>5, <2>1, <2>2 DEF RunKept, HasAccount
  <2>5. HasGentx(n)' => GentxOf(n) \in dir'[n].gentx
    BY <1>1, <1>2, <1>5, <2>1, <2>2 DEF RunKept, HasGentx
  <2> QED
    BY <2>2, <2>3, <2>4, <2>5
<1>9. RunExact'
  <2>1. \A k \in Validators : HasId(k) => HasId(k)'
    BY <1>1 DEF HasId, Later
  <2> QED
    BY <1>1, <1>2, <1>5, <2>1, GentxStable DEF RunExact
<1>10. Running
  BY <1>1 DEF Running
<1> QED
  BY <1>6, <1>7, <1>8, <1>9, <1>10, RunningIInv

\* What writing a gentx of the run into a directory does to what is kept there.
LEMMA PutKeeps ==
  ASSUME FilesTypeOK, DirsSound, RunKept, RunExact,
         NEW to \in Nodes, NEW f \in Validators, HasId(f),
         dir' = [ dir EXCEPT ![to].gentx = Put(@, GentxOf(f)) ],
         UNCHANGED <<run, numValidators, ids>>
  PROVE  /\ dir' \in [ Nodes -> Dirs ]
         /\ \A n \in Nodes : /\ dir'[n].id = dir[n].id
                             /\ dir'[n].account = dir[n].account
                             /\ dir'[n].genesis = dir[n].genesis
                             /\ dir'[n].peers = dir[n].peers
         /\ GentxOf(f) \in dir'[to].gentx
         /\ \A n \in Nodes, k \in Validators :
              HasId(k) /\ GentxOf(k) \in dir[n].gentx => GentxOf(k) \in dir'[n].gentx
         /\ DirsSound'
         /\ \A n \in Nodes : \A g \in dir'[n].gentx :
              g.account[2] = run => \E k \in Validators : HasId(k) /\ g = GentxOf(k)
<1> DEFINE t == GentxOf(f)
<1>1. t \in Gentxs /\ t.id = dir[f].id /\ t.account = <<f, run>> /\ f \in Nodes /\ run \in Nat
  BY GentxTyped, ValidatorFacts DEF FilesTypeOK
<1> DEFINE p == Put(dir[to].gentx, t)
<1>2. dir[to].gentx \in SUBSET Gentxs
  BY DirFacts
<1>3. /\ p \in SUBSET Gentxs /\ t \in p
      /\ \A g \in p : g = t \/ (g \in dir[to].gentx /\ g.id # t.id)
      /\ \A g \in dir[to].gentx : g.id # t.id => g \in p
  BY <1>1, <1>2, PutFacts
<1>4. dir' = [ dir EXCEPT ![to].gentx = p ]
  OBVIOUS
<1> HIDE DEF p
<1>5. /\ dir' \in [ Nodes -> Dirs ] /\ dir'[to].gentx = p
      /\ \A n \in Nodes : n # to => dir'[n] = dir[n]
      /\ \A n \in Nodes : /\ dir'[n].id = dir[n].id
                          /\ dir'[n].account = dir[n].account
                          /\ dir'[n].genesis = dir[n].genesis
                          /\ dir'[n].peers = dir[n].peers
  BY <1>3, <1>4 DEF FilesTypeOK, Dirs
<1>6. ASSUME NEW n \in Nodes, NEW k \in Validators, HasId(k), GentxOf(k) \in dir[n].gentx
      PROVE  GentxOf(k) \in dir'[n].gentx
  <2>1. CASE n # to
    BY <1>5, <1>6, <2>1
  <2>2. CASE n = to /\ k = f
    BY <1>3, <1>5, <2>2
  <2>3. CASE n = to /\ k # f
    BY <1>3, <1>5, <1>6, <2>3, GentxDistinct
  <2> QED
    BY <2>1, <2>2, <2>3
<1> HIDE DEF t
<1>7. ASSUME NEW n \in Nodes, NEW g \in dir'[n].gentx
      PROVE  (n = to /\ g = t) \/ g \in dir[n].gentx
  BY <1>3, <1>5
<1>8. \A n \in Nodes : \A g, h \in dir'[n].gentx : g.id = h.id => g = h
  <2> TAKE n \in Nodes
  <2>1. CASE n = to
    BY <1>3, <1>5, <2>1 DEF DirsSound
  <2>2. CASE n # to
    BY <1>5, <2>2 DEF DirsSound
  <2> QED
    BY <2>1, <2>2
<1>9. ASSUME NEW n \in Nodes, NEW g \in dir'[n].gentx
      PROVE  g.account[2] <= run /\ \E k \in Nodes : dir'[k].id = g.id
  <2>1. CASE g = t
    BY <1>1, <1>5, <2>1
  <2>2. CASE g \in dir[n].gentx
    BY <1>5, <2>2 DEF DirsSound
  <2> QED
    BY <1>7, <2>1, <2>2
<1>10. DirsSound'
  BY <1>5, <1>8, <1>9 DEF DirsSound
<1>11. ASSUME NEW n \in Nodes, NEW g \in dir'[n].gentx, g.account[2] = run
       PROVE  \E k \in Validators : HasId(k) /\ g = GentxOf(k)
  BY <1>7, <1>11 DEF RunExact, t
<1> QED
  BY <1>3, <1>5, <1>6, <1>10, <1>11 DEF t

\* The run's gentx of a node replaces one of an earlier run.
LEMMA WriteIInv == ASSUME FilesIInv, WriteGentx PROVE FilesIInv'
<1>1. /\ at = "gentx"
      /\ dir' = [ dir EXCEPT ![i].gentx = Put(@, GentxOf(i)) ]
      /\ UNCHANGED <<file, ids, appState, run, numValidators, report>> /\ Stays
  BY DEF WriteGentx, Stays
<1>2. FilesTypeOK /\ DirsSound /\ RunKept /\ RunExact
  BY <1>1 DEF FilesIInv
<1>3. /\ i \in Validators /\ i \in Nodes /\ i \in Nat /\ i < numValidators
      /\ numValidators \in Nat /\ file = 0
  BY <1>1, <1>2, ValidatorFacts DEF FilesTypeOK
<1>4. \/ i + 1 < numValidators /\ i' = i + 1 /\ at' = "nodeFiles"
      \/ i + 1 = numValidators /\ i' = 0 /\ at' = "genesis"
  BY <1>3 DEF WriteGentx
<1>5. HasId(i) /\ \A n \in Validators : HasId(n) <=> n <= i
  <2>1. \A n \in Validators : n \in Nat
    BY <1>2, ValidatorFacts
  <2> QED
    BY <1>1, <1>3, <2>1 DEF HasId, Later
<1>6. /\ dir' \in [ Nodes -> Dirs ]
      /\ \A n \in Nodes : dir'[n].id = dir[n].id /\ dir'[n].account = dir[n].account
      /\ GentxOf(i) \in dir'[i].gentx
      /\ \A n \in Nodes, k \in Validators :
           HasId(k) /\ GentxOf(k) \in dir[n].gentx => GentxOf(k) \in dir'[n].gentx
      /\ DirsSound'
      /\ \A n \in Nodes : \A g \in dir'[n].gentx :
           g.account[2] = run => \E k \in Validators : HasId(k) /\ g = GentxOf(k)
  BY <1>1, <1>2, <1>3, <1>5, PutKeeps
<1>7. FilesTypeOK'
  BY <1>1, <1>2, <1>3, <1>4, <1>6 DEF FilesTypeOK
<1>8. \A n \in Validators : n <= i <=> HasId(n)'
  <2>1. \A n \in Validators : n \in Nat /\ n < numValidators
    BY <1>2, ValidatorFacts
  <2> QED
    BY <1>3, <1>4, <2>1 DEF HasId, Later
<1>9. RunKept'
  <2> SUFFICES ASSUME NEW n \in Validators
               PROVE  /\ HasId(n)' => ids[n] # None /\ ids[n] = dir'[n].id
                      /\ HasAccount(n)' => dir'[n].account = <<n, run>>
                      /\ HasGentx(n)' => GentxOf(n) \in dir'[n].gentx
                      /\ ~HasGenesis(n)' /\ ~IsCollected(n)'
                      /\ \A f \in Validators : ~HasCopy(n, f)'
    BY <1>1, GentxStable DEF RunKept
  <2>1. n \in Nodes /\ n \in Nat /\ n < numValidators
    BY <1>2, ValidatorFacts
  <2>2. ~HasGenesis(n)' /\ ~IsCollected(n)' /\ \A f \in Validators : ~HasCopy(n, f)'
    BY <1>4, <2>1 DEF HasGenesis, IsCollected, HasCopy
  <2>3. HasId(n)' => ids[n] # None /\ ids[n] = dir'[n].id
    BY <1>2, <1>5, <1>6, <1>8, <2>1 DEF RunKept
  <2>4. HasAccount(n)' => dir'[n].account = <<n, run>>
    <3>1. HasAccount(n)' => HasAccount(n)
      BY <1>1, <1>3, <1>4, <2>1 DEF HasAccount, Later
    <3> QED
      BY <1>2, <1>6, <2>1, <3>1 DEF RunKept
  <2>5. HasGentx(n)' => GentxOf(n) \in dir'[n].gentx
    <3> HAVE HasGentx(n)'
    <3>1. n = i \/ n < i
      BY <1>3, <1>4, <2>1 DEF HasGentx, Later
    <3>2. CASE n < i
      <4>1. HasId(n) /\ GentxOf(n) \in dir[n].gentx
        BY <1>2, <3>2 DEF RunKept, HasGentx, HasId
      <4> QED
        BY <1>6, <2>1, <4>1
    <3> QED
      BY <1>6, <3>1, <3>2
  <2> QED
    BY <2>2, <2>3, <2>4, <2>5
<1>10. RunExact'
  <2>1. \A k \in Validators : HasId(k) => HasId(k)'
    BY <1>5, <1>8
  <2>2. appState = None
    BY <1>1, <1>2 DEF RunExact
  <2> QED
    BY <1>1, <1>4, <1>6, <2>1, <2>2, GentxStable DEF RunExact
<1>11. Running
  BY <1>1, <1>4 DEF Running
<1> QED
  BY <1>6, <1>7, <1>9, <1>10, <1>11, RunningIInv

\* A loop's end, in numbers.
LEMMA NextNodeFacts ==
  ASSUME FilesTypeOK, i < numValidators, NEW step, NextNode(step)
  PROVE  /\ \/ i + 1 < numValidators /\ i' = i + 1 /\ at' = at
            \/ i + 1 = numValidators /\ i' = 0 /\ at' = step
         /\ i' \in Nat /\ i' < numValidators
BY DEF FilesTypeOK, NextNode

\* A new genesis replaces that of an earlier run.
LEMMA SaveGenesisIInv == ASSUME FilesIInv, SaveGenesis PROVE FilesIInv'
<1> DEFINE genesis == [ chain |-> run, accounts |-> RunAccounts, gentxs |-> {} ]
<1>1. /\ at = "genesis"
      /\ dir' = [ dir EXCEPT ![i].genesis = genesis ]
      /\ NextNode("copy")
      /\ UNCHANGED <<file, ids, appState, run, numValidators, report>> /\ Stays
  BY DEF SaveGenesis, Stays, RunAccounts
<1>2. FilesTypeOK /\ DirsSound /\ RunKept /\ RunExact
  BY <1>1 DEF FilesIInv
<1>3. /\ i \in Validators /\ i \in Nodes /\ i \in Nat /\ i < numValidators
      /\ numValidators \in Nat /\ file = 0 /\ run \in Nat
  BY <1>1, <1>2, ValidatorFacts DEF FilesTypeOK
<1>4. /\ \/ i + 1 < numValidators /\ i' = i + 1 /\ at' = "genesis"
         \/ i + 1 = numValidators /\ i' = 0 /\ at' = "copy"
      /\ i' \in Nat /\ i' < numValidators
  BY <1>1, <1>2, <1>3, NextNodeFacts
<1>5. genesis \in Geneses /\ genesis.chain = run /\ genesis.accounts = RunAccounts
  <2>1. RunAccounts \in SUBSET Pairs
    BY <1>2, <1>3, ValidatorFacts DEF RunAccounts, Pairs
  <2> QED
    BY <1>3, <2>1 DEF Geneses
<1> HIDE DEF genesis
<1>6. /\ dir' \in [ Nodes -> Dirs ] /\ dir'[i].genesis = genesis
      /\ \A n \in Nodes : /\ dir'[n].id = dir[n].id /\ dir'[n].gentx = dir[n].gentx
                          /\ dir'[n].account = dir[n].account
      /\ \A n \in Nodes : n # i => dir'[n] = dir[n]
  BY <1>1, <1>2, <1>3, <1>5 DEF FilesTypeOK, Dirs
<1>7. FilesTypeOK'
  BY <1>1, <1>2, <1>3, <1>4, <1>6 DEF FilesTypeOK
<1>8. DirsSound'
  BY <1>1, <1>2, <1>6 DEF DirsSound
<1>9. Later /\ Later'
  BY <1>1, <1>4 DEF Later
<1>10. RunKept'
  <2> SUFFICES ASSUME NEW n \in Validators
               PROVE  /\ ids[n] # None /\ ids[n] = dir'[n].id
                      /\ dir'[n].account = <<n, run>>
                      /\ GentxOf(n) \in dir'[n].gentx
                      /\ HasGenesis(n)' => /\ dir'[n].genesis.chain = run
                                           /\ dir'[n].genesis.accounts = RunAccounts
                      /\ ~IsCollected(n)' /\ \A f \in Validators : ~HasCopy(n, f)'
    BY <1>1, GentxStable DEF RunKept
  <2>1. n \in Nodes /\ n \in Nat /\ n < numValidators
    BY <1>2, ValidatorFacts
  <2>2. /\ ids[n] # None /\ ids[n] = dir'[n].id /\ dir'[n].account = <<n, run>>
        /\ GentxOf(n) \in dir'[n].gentx
    BY <1>2, <1>6, <1>9, <2>1 DEF RunKept, HasId, HasAccount, HasGentx
  <2>3. ~IsCollected(n)' /\ \A f \in Validators : ~HasCopy(n, f)'
    <3>1. \A f \in Validators : f \in Nat
      BY <1>2, ValidatorFacts
    <3> QED
      BY <1>1, <1>3, <1>4, <2>1, <3>1 DEF IsCollected, HasCopy
  <2>4. HasGenesis(n)' => /\ dir'[n].genesis.chain = run
                          /\ dir'[n].genesis.accounts = RunAccounts
    <3> HAVE HasGenesis(n)'
    <3>1. n = i \/ n < i
      BY <1>3, <1>4, <2>1 DEF HasGenesis
    <3>2. CASE n < i
      BY <1>1, <1>2, <1>6, <2>1, <3>2 DEF RunKept, HasGenesis
    <3> QED
      BY <1>5, <1>6, <3>1, <3>2
  <2> QED
    BY <2>2, <2>3, <2>4
<1>11. RunExact'
  <2>1. \A k \in Validators : HasId(k)'
    BY <1>9 DEF HasId
  <2>2. appState = None
    BY <1>1, <1>2 DEF RunExact
  <2> QED
    BY <1>1, <1>2, <1>4, <1>6, <2>1, <2>2, GentxStable DEF RunExact
<1>12. Running
  BY <1>1, <1>4 DEF Running
<1> QED
  BY <1>7, <1>8, <1>10, <1>11, <1>12, RunningIInv

\* A gentx of the run replaces the copy an earlier run left; a node's own one
\* is there already.
LEMMA CopyGentxIInv == ASSUME FilesIInv, CopyGentx PROVE FilesIInv'
<1>1. /\ at = "copy"
      /\ dir' = IF file # i THEN [ dir EXCEPT ![i].gentx = Put(@, GentxOf(file)) ] ELSE dir
      /\ UNCHANGED <<ids, appState, run, numValidators, report>> /\ Stays
  BY DEF CopyGentx, Copied, Stays
<1>2. FilesTypeOK /\ DirsSound /\ RunKept /\ RunExact
  BY <1>1 DEF FilesIInv
<1>3. /\ i \in Validators /\ i \in Nodes /\ i \in Nat /\ i < numValidators
      /\ file \in Validators /\ file \in Nat /\ file < numValidators
      /\ numValidators \in Nat
  BY <1>1, <1>2, ValidatorFacts DEF FilesTypeOK
<1>4. /\ \/ file + 1 < numValidators /\ file' = file + 1 /\ i' = i /\ at' = "copy"
         \/ /\ file + 1 = numValidators /\ file' = 0
            /\ i + 1 < numValidators /\ i' = i + 1 /\ at' = "copy"
         \/ /\ file + 1 = numValidators /\ file' = 0
            /\ i + 1 = numValidators /\ i' = 0 /\ at' = "collect"
      /\ i' \in Nat /\ i' < numValidators /\ file' \in Nat /\ file' < numValidators
  <2>1. CASE file + 1 < numValidators
    <3>1. file' = file + 1 /\ i' = i /\ at' = "copy"
      BY <1>1, <2>1 DEF CopyGentx
    <3> QED
      BY ONLY <1>3, <2>1, <3>1
  <2>2. CASE ~(file + 1 < numValidators)
    <3>1. file' = 0 /\ NextNode("collect")
      BY <1>1, <2>2 DEF CopyGentx
    <3>2. /\ \/ i + 1 < numValidators /\ i' = i + 1 /\ at' = at
             \/ i + 1 = numValidators /\ i' = 0 /\ at' = "collect"
          /\ i' \in Nat /\ i' < numValidators
      BY <1>2, <1>3, <3>1, NextNodeFacts
    <3> QED
      BY ONLY <1>1, <1>3, <2>2, <3>1, <3>2
  <2> QED
    BY <2>1, <2>2
<1>5. Later /\ Later' /\ (\A k \in Validators : HasId(k) /\ HasId(k)')
  BY <1>1, <1>4 DEF Later, HasId
<1>6. /\ dir' \in [ Nodes -> Dirs ]
      /\ \A n \in Nodes : /\ dir'[n].id = dir[n].id
                          /\ dir'[n].account = dir[n].account
                          /\ dir'[n].genesis = dir[n].genesis
      /\ GentxOf(file) \in dir'[i].gentx
      /\ \A n \in Nodes, k \in Validators :
           GentxOf(k) \in dir[n].gentx => GentxOf(k) \in dir'[n].gentx
      /\ DirsSound'
      /\ \A n \in Nodes : \A g \in dir'[n].gentx :
           g.account[2] = run => \E k \in Validators : g = GentxOf(k)
  <2>1. CASE file = i
    <3>1. dir' = dir
      BY <1>1, <2>1
    <3>2. DirsSound'
      BY <1>1, <1>2, <3>1 DEF DirsSound
    <3>3. GentxOf(i) \in dir[i].gentx
      BY <1>2, <1>3, <1>5 DEF RunKept, HasGentx
    <3>4. dir \in [ Nodes -> Dirs ]
      BY <1>2 DEF FilesTypeOK
    <3>5. \A n \in Nodes : \A g \in dir[n].gentx :
           g.account[2] = run => \E k \in Validators : g = GentxOf(k)
      BY <1>2 DEF RunExact
    <3> QED
      BY <2>1, <3>1, <3>2, <3>3, <3>4, <3>5
  <2>2. CASE file # i
    <3>1. dir' = [ dir EXCEPT ![i].gentx = Put(@, GentxOf(file)) ]
      BY <1>1, <2>2
    <3> QED
      BY <1>1, <1>2, <1>3, <1>5, <3>1, PutKeeps
  <2> QED
    BY <2>1, <2>2
<1>7. FilesTypeOK'
  BY <1>1, <1>2, <1>3, <1>4, <1>6 DEF FilesTypeOK
<1>8. RunKept'
  <2> SUFFICES ASSUME NEW n \in Validators
               PROVE  /\ ids[n] # None /\ ids[n] = dir'[n].id
                      /\ dir'[n].account = <<n, run>>
                      /\ GentxOf(n) \in dir'[n].gentx
                      /\ dir'[n].genesis.chain = run
                      /\ dir'[n].genesis.accounts = RunAccounts
                      /\ \A f \in Validators : HasCopy(n, f)' => GentxOf(f) \in dir'[n].gentx
                      /\ ~IsCollected(n)'
    BY <1>1, GentxStable DEF RunKept
  <2>1. n \in Nodes /\ n \in Nat /\ n < numValidators
    BY <1>2, ValidatorFacts
  <2>2. /\ ids[n] # None /\ ids[n] = dir'[n].id /\ dir'[n].account = <<n, run>>
        /\ GentxOf(n) \in dir'[n].gentx
    BY <1>2, <1>5, <1>6, <2>1 DEF RunKept, HasId, HasAccount, HasGentx
  <2>3. dir'[n].genesis.chain = run /\ dir'[n].genesis.accounts = RunAccounts
    BY <1>1, <1>2, <1>6, <2>1 DEF RunKept, HasGenesis
  <2>4. ~IsCollected(n)'
    BY <1>4, <2>1 DEF IsCollected
  <2>5. ASSUME NEW f \in Validators, HasCopy(n, f)'
        PROVE  GentxOf(f) \in dir'[n].gentx
    <3>1. f \in Nat /\ f < numValidators
      BY <1>2, ValidatorFacts
    <3>2. n < i \/ (n = i /\ f < file) \/ (n = i /\ f = file)
      BY <1>3, <1>4, <2>1, <2>5, <3>1 DEF HasCopy
    <3>3. CASE n < i \/ (n = i /\ f < file)
      BY <1>1, <1>2, <1>6, <2>1, <3>3 DEF RunKept, HasCopy
    <3>4. CASE n = i /\ f = file
      BY <1>6, <3>4
    <3> QED
      BY <3>2, <3>3, <3>4
  <2> QED
    BY <2>2, <2>3, <2>4, <2>5
<1>9. RunExact'
  <2>1. appState = None
    BY <1>1, <1>2 DEF RunExact
  <2>2. ~(at' = "collect" /\ i' > 0)
    BY <1>4
  <2> QED
    BY <1>1, <1>5, <1>6, <2>1, <2>2, GentxStable DEF RunExact
<1>10. Running
  BY <1>1, <1>4 DEF Running
<1> QED
  BY <1>6, <1>7, <1>8, <1>9, <1>10, RunningIInv

\* A node with nothing but gentxs of known accounts has exactly the run's: the
\* first one's are what every node gets.
LEMMA CanonicalFacts ==
  ASSUME FilesIInv, at = "collect", Collects(i)
  PROVE  Canonical = RunGentxs
<1>1. FilesTypeOK /\ DirsSound /\ RunKept /\ RunExact
  BY DEF FilesIInv
<1>2. i \in Validators /\ i \in Nodes /\ i \in Nat
  BY <1>1, ValidatorFacts DEF FilesTypeOK
<1>3. CASE i = 0
  <2>1. ASSUME NEW g \in dir[i].gentx
        PROVE  g \in RunGentxs
    <3>1. g.account \in RunAccounts
      BY <1>1, <1>2 DEF Collects, CollectTxs, RunKept, HasGenesis
    <3>2. g.account[2] = run
      BY <3>1 DEF RunAccounts
    <3> QED
      BY <1>1, <1>2, <3>2 DEF RunExact, RunGentxs
  <2>2. ASSUME NEW g \in RunGentxs
        PROVE  g \in dir[i].gentx
    <3>1. PICK k \in Validators : g = GentxOf(k)
      BY DEF RunGentxs
    <3> QED
      BY <1>1, <1>2, <3>1 DEF RunKept, HasCopy
  <2>3. dir[i].gentx = RunGentxs
    BY <2>1, <2>2
  <2> QED
    BY <1>1, <1>3, <2>3 DEF Canonical, CollectTxs, RunExact
<1>4. CASE i > 0
  <2>1. appState = <<RunGentxs>>
    BY <1>1, <1>4 DEF RunExact
  <2>2. Head(<<RunGentxs>>) = RunGentxs /\ Len(<<RunGentxs>>) = 1 /\ Len(<<>>) = 0
    OBVIOUS
  <2>3. <<RunGentxs>> # <<>>
    BY ONLY <2>2
  <2> QED
    BY <2>1, <2>2, <2>3 DEF Canonical, None
<1> QED
  BY <1>2, <1>3, <1>4

\* What collecting a node's gentxs writes.
LEMMA CollectFacts ==
  ASSUME FilesIInv, CollectGenFiles
  PROVE  /\ dir' \in [ Nodes -> Dirs ]
         /\ \A n \in Nodes : /\ dir'[n].id = dir[n].id /\ dir'[n].gentx = dir[n].gentx
                             /\ dir'[n].account = dir[n].account
                             /\ dir'[n].genesis.chain = dir[n].genesis.chain
                             /\ dir'[n].genesis.accounts = dir[n].genesis.accounts
         /\ \A n \in Nodes : n # i => dir'[n] = dir[n]
         /\ dir'[i].genesis.gentxs = RunGentxs
         /\ dir'[i].peers = { ids[k] : k \in Validators }
         /\ \A n \in Nodes : dir'[n].genesis \in Geneses
<1> DEFINE peers == { ids[k] : k \in Validators }
<1>1. at = "collect" /\ Collects(i)
  BY DEF CollectGenFiles
<1>2. FilesTypeOK /\ RunKept
  BY <1>1 DEF FilesIInv
<1>3. dir' = [ dir EXCEPT ![i].genesis.gentxs = RunGentxs, ![i].peers = peers ]
  BY <1>1, CanonicalFacts DEF CollectGenFiles
<1>4. i \in Nodes /\ dir[i] \in Dirs /\ dir[i].genesis \in Geneses
  BY <1>1, <1>2, ValidatorFacts, DirFacts DEF FilesTypeOK
<1>5. \A k \in Validators : HasId(k)
  BY <1>1 DEF HasId, Later
<1>6. RunGentxs \in SUBSET Gentxs
  BY <1>2, <1>5, GentxTyped DEF RunGentxs
<1>7. peers \in SUBSET Pairs
  <2>1. ASSUME NEW k \in Validators
        PROVE  ids[k] \in Pairs
    BY <1>2, <1>5, ValidatorFacts, DirFacts DEF RunKept
  <2> QED
    BY <2>1
<1> HIDE DEF peers
<1> DEFINE genesis == [ dir[i].genesis EXCEPT !.gentxs = RunGentxs ]
<1>8. /\ genesis \in Geneses /\ genesis.gentxs = RunGentxs
      /\ genesis.chain = dir[i].genesis.chain
      /\ genesis.accounts = dir[i].genesis.accounts
  BY <1>4, <1>6 DEF Geneses
<1> DEFINE d == [ dir[i] EXCEPT !.genesis = genesis, !.peers = peers ]
<1>9. dir' = [ dir EXCEPT ![i] = d ]
  BY <1>2, <1>3, <1>4 DEF FilesTypeOK, Dirs
<1> HIDE DEF genesis
<1>10. /\ d \in Dirs /\ d.genesis = genesis /\ d.peers = peers
       /\ d.id = dir[i].id /\ d.gentx = dir[i].gentx /\ d.account = dir[i].account
  BY <1>4, <1>7, <1>8 DEF Dirs
<1> HIDE DEF d
<1>11. dir' \in [ Nodes -> Dirs ] /\ dir'[i] = d /\ \A n \in Nodes : n # i => dir'[n] = dir[n]
  BY <1>2, <1>4, <1>9, <1>10 DEF FilesTypeOK
<1>12. \A n \in Nodes : dir'[n].genesis \in Geneses
  BY <1>11 DEF Dirs
<1> QED
  BY <1>8, <1>10, <1>11, <1>12 DEF peers

\* Another node has what the first one collected; after the last one the
\* network is complete.
LEMMA CollectIInv == ASSUME FilesIInv, CollectGenFiles PROVE FilesIInv'
<1>1. /\ at = "collect" /\ Collects(i) /\ appState' = <<Canonical>>
      /\ UNCHANGED <<run, numValidators, file, ids>>
  BY DEF CollectGenFiles
<1>2. FilesTypeOK /\ DirsSound /\ RunKept /\ RunExact
  BY <1>1 DEF FilesIInv
<1>3. /\ i \in Validators /\ i \in Nodes /\ i \in Nat /\ i < numValidators
      /\ numValidators \in Nat /\ file = 0
  BY <1>1, <1>2, ValidatorFacts DEF FilesTypeOK
<1>4. appState' = <<RunGentxs>>
  BY <1>1, CanonicalFacts
<1>5. /\ dir' \in [ Nodes -> Dirs ]
      /\ \A n \in Nodes : /\ dir'[n].id = dir[n].id /\ dir'[n].gentx = dir[n].gentx
                          /\ dir'[n].account = dir[n].account
                          /\ dir'[n].genesis.chain = dir[n].genesis.chain
                          /\ dir'[n].genesis.accounts = dir[n].genesis.accounts
      /\ \A n \in Nodes : n # i => dir'[n] = dir[n]
      /\ dir'[i].genesis.gentxs = RunGentxs
      /\ dir'[i].peers = { ids[k] : k \in Validators }
      /\ \A n \in Nodes : dir'[n].genesis \in Geneses
  BY CollectFacts
<1>6. DirsSound'
  BY <1>1, <1>2, <1>5 DEF DirsSound
<1>7. \A k \in Validators : HasId(k)
  BY <1>1 DEF HasId, Later
<1>8. ASSUME NEW n \in Validators
      PROVE  /\ ids[n] # None /\ ids[n] = dir'[n].id
             /\ dir'[n].account = <<n, run>>
             /\ GentxOf(n) \in dir'[n].gentx
             /\ dir'[n].genesis.chain = run /\ dir'[n].genesis.accounts = RunAccounts
             /\ \A f \in Validators : GentxOf(f) \in dir'[n].gentx
             /\ n <= i => /\ dir'[n].genesis.gentxs = RunGentxs
                          /\ dir'[n].peers = { ids[k] : k \in Validators }
  <2>1. n \in Nodes /\ n \in Nat
    BY <1>2, ValidatorFacts
  <2>2. /\ ids[n] # None /\ ids[n] = dir'[n].id /\ dir'[n].account = <<n, run>>
        /\ GentxOf(n) \in dir'[n].gentx
    BY <1>1, <1>2, <1>5, <2>1 DEF RunKept, HasId, HasAccount, HasGentx, Later
  <2>3. dir'[n].genesis.chain = run /\ dir'[n].genesis.accounts = RunAccounts
    BY <1>1, <1>2, <1>5, <2>1 DEF RunKept, HasGenesis
  <2>4. \A f \in Validators : GentxOf(f) \in dir'[n].gentx
    BY <1>1, <1>2, <1>5, <2>1 DEF RunKept, HasCopy
  <2>5. CASE n = i
    BY <1>5, <2>2, <2>3, <2>4, <2>5
  <2>6. CASE n < i
    <3>1. dir'[n] = dir[n]
      BY <1>3, <1>5, <2>1, <2>6
    <3>2. /\ dir[n].genesis.gentxs = RunGentxs
          /\ dir[n].peers = { ids[k] : k \in Validators }
      BY <1>1, <1>2, <2>6 DEF RunKept, IsCollected
    <3> QED
      BY <2>2, <2>3, <2>4, <3>1, <3>2
  <2>7. CASE n > i
    <3>1. ~(n <= i)
      BY <1>3, <2>1, <2>7
    <3> QED
      BY <2>2, <2>3, <2>4, <3>1
  <2>8. n = i \/ n < i \/ n > i
    BY <1>3, <2>1
  <2> QED
    BY <2>5, <2>6, <2>7, <2>8
<1>9. CASE i + 1 < numValidators
  <2>1. i' = i + 1 /\ at' = at /\ report' = report
    BY <1>9 DEF CollectGenFiles
  <2>2. FilesTypeOK'
    BY <1>1, <1>2, <1>3, <1>5, <1>9, <2>1 DEF FilesTypeOK
  <2>3. RunKept'
    <3>1. \A n \in Validators : n < i' => n <= i
      BY <1>2, <1>3, <2>1, ValidatorFacts
    <3> QED
      BY <1>1, <1>8, <3>1, GentxStable DEF RunKept, IsCollected
  <2>4. RunExact'
    <3>1. i' > 0
      BY <1>3, <2>1
    <3>2. \A k \in Validators : HasId(k)'
      BY <1>1, <2>1 DEF HasId, Later
    <3> QED
      BY <1>1, <1>2, <1>4, <1>5, <2>1, <3>1, <3>2, GentxStable DEF RunExact
  <2>5. Running
    BY <1>1, <2>1 DEF Running, Stays
  <2> QED
    BY <1>6, <2>2, <2>3, <2>4, <2>5, RunningIInv
<1>10. CASE ~(i + 1 < numValidators)
  <2>1. i' = 0 /\ at' = "idle" /\ report' = "ok"
    BY <1>10 DEF CollectGenFiles
  <2>2. FilesTypeOK'
    BY <1>1, <1>2, <1>3, <1>5, <2>1 DEF FilesTypeOK
  <2>3. \A n \in Validators : n <= i
    BY <1>2, <1>3, <1>10, ValidatorFacts
  <2>4. RunAccounts = { dir'[k].account : k \in Validators }
    BY <1>8 DEF RunAccounts
  <2>5. RunGentxs = { [ id |-> dir'[k].id, account |-> dir'[k].account ] : k \in Validators }
    <3>1. \A k \in Validators :
            GentxOf(k) = [ id |-> dir'[k].id, account |-> dir'[k].account ]
      BY <1>8 DEF GentxOf
    <3> QED
      BY <3>1, Zenon DEF RunGentxs
  <2>6. { ids[k] : k \in Validators } = { dir'[k].id : k \in Validators }
    BY <1>8
  <2>7. ASSUME NEW n \in Validators
        PROVE  dir'[n].genesis = [ chain |-> run, accounts |-> RunAccounts,
                                   gentxs |-> RunGentxs ]
    <3>1. n \in Nodes
      BY <1>2, ValidatorFacts
    <3>2. dir'[n].genesis \in Geneses
      BY <1>5, <3>1
    <3> QED
      BY <1>8, <2>3, <3>2 DEF Geneses
  <2>8. NetworkComplete'
    <3>1. ASSUME NEW n \in Validators
          PROVE  /\ dir'[n].account = <<n, run>>
                 /\ dir'[n].genesis =
                      [ chain |-> run,
                        accounts |-> { dir'[k].account : k \in Validators },
                        gentxs |-> { [ id |-> dir'[k].id, account |-> dir'[k].account ] :
                                       k \in Validators } ]
                 /\ dir'[n].peers = { dir'[k].id : k \in Validators }
      BY <1>8, <2>3, <2>4, <2>5, <2>6, <2>7
    <3> QED
      BY <1>1, <3>1, GentxStable DEF NetworkComplete
  <2> QED
    BY <1>6, <2>1, <2>2, <2>8 DEF FilesIInv, RefusedOnlyWhenSmaller
<1> QED
  BY <1>9, <1>10

\* The gentx that is refused is of no node that was asked for: theirs were all
\* replaced.
LEMMA RefusesIInv == ASSUME FilesIInv, CollectRefuses PROVE FilesIInv'
<1>1. /\ at = "collect" /\ ~Collects(i) /\ at' = "idle" /\ report' = "refused"
      /\ UNCHANGED <<dir, run, numValidators, i, file, ids, appState>>
  BY DEF CollectRefuses
<1>2. FilesTypeOK /\ DirsSound /\ RunKept
  BY <1>1 DEF FilesIInv
<1>3. i \in Validators /\ i \in Nodes
  BY <1>1, <1>2, ValidatorFacts DEF FilesTypeOK
<1>4. PICK g \in dir[i].gentx : g.account \notin RunAccounts
  BY <1>1, <1>2, <1>3 DEF Collects, CollectTxs, RunKept, HasGenesis
<1>5. PICK k \in Nodes : dir[k].id = g.id
  BY <1>2, <1>3 DEF DirsSound
<1>6. g.id \in Pairs
  BY <1>2, <1>3, DirFacts DEF Gentxs
<1>7. dir[k].id # None
  BY <1>5, <1>6, PairFacts
<1>8. k \notin Validators
  <2> SUFFICES ASSUME k \in Validators PROVE FALSE
    OBVIOUS
  <2>1. HasId(k) /\ HasCopy(i, k)
    BY <1>1 DEF HasId, HasCopy, Later
  <2>2. GentxOf(k) \in dir[i].gentx
    BY <1>2, <1>3, <2>1 DEF RunKept
  <2>3. GentxOf(k).id = g.id /\ GentxOf(k).account = <<k, run>>
    BY <1>2, <1>5, <2>1, GentxTyped
  <2>4. g = GentxOf(k)
    BY <1>2, <1>3, <2>2, <2>3 DEF DirsSound
  <2> QED
    BY <1>4, <2>3, <2>4 DEF RunAccounts
<1>9. RefusedOnlyWhenSmaller'
  BY <1>1, <1>4, <1>5, <1>7, <1>8 DEF RefusedOnlyWhenSmaller, Validators
<1>10. FilesTypeOK' /\ DirsSound'
  BY <1>1, <1>2 DEF FilesTypeOK, DirsSound
<1> QED
  BY <1>1, <1>9, <1>10 DEF FilesIInv, NetworkComplete

\* A run that ends early says nothing about the files it leaves, and the next
\* one can start from them.
LEMMA StopsIInv ==
  ASSUME FilesIInv, NothingToDo \/ FailAndRemoveAll \/ Interrupted
  PROVE  FilesIInv'
<1>1. FilesTypeOK /\ DirsSound
  BY DEF FilesIInv
<1>2. CASE NothingToDo
  <2>1. /\ numValidators = 0 /\ at' = "idle" /\ report' = "ok"
        /\ UNCHANGED <<dir, run, numValidators, i, file, ids, appState>>
    BY <1>2 DEF NothingToDo
  <2>2. FilesTypeOK' /\ DirsSound'
    BY <1>1, <2>1 DEF FilesTypeOK, DirsSound
  <2>3. Validators' = {}
    BY <2>1 DEF Validators
  <2> QED
    BY <2>1, <2>2, <2>3 DEF FilesIInv, NetworkComplete, RefusedOnlyWhenSmaller
<1>3. CASE FailAndRemoveAll
  <2>1. /\ dir' = [ n \in Nodes |-> NoDir ] /\ at' = "idle" /\ report' = "stopped"
        /\ UNCHANGED <<run, numValidators, i, file, ids, appState>>
    BY <1>3 DEF FailAndRemoveAll
  <2>2. NoDir \in Dirs
    BY DEF NoDir, NoGenesis, Dirs, Geneses
  <2>3. FilesTypeOK'
    BY <1>1, <2>1, <2>2 DEF FilesTypeOK
  <2>4. DirsSound'
    BY <2>1 DEF DirsSound, NoDir
  <2> QED
    BY <2>1, <2>3, <2>4 DEF FilesIInv, NetworkComplete, RefusedOnlyWhenSmaller
<1>4. CASE Interrupted
  <2>1. /\ at' = "idle" /\ report' = "stopped"
        /\ UNCHANGED <<dir, run, numValidators, i, file, ids, appState>>
    BY <1>4 DEF Interrupted
  <2>2. FilesTypeOK' /\ DirsSound'
    BY <1>1, <2>1 DEF FilesTypeOK, DirsSound
  <2> QED
    BY <2>1, <2>2 DEF FilesIInv, NetworkComplete, RefusedOnlyWhenSmaller
<1> QED
  BY <1>2, <1>3, <1>4

\* Every step keeps the invariant.
LEMMA FilesNextIInv == FilesIInv /\ [FilesNext]_filesVars => FilesIInv'
<1> SUFFICES ASSUME FilesIInv, [FilesNext]_filesVars PROVE FilesIInv'
  OBVIOUS
<1>1. CASE UNCHANGED filesVars
  <2>1. UNCHANGED <<dir, run, numValidators, at, i, file, ids, appState, report>>
    BY <1>1 DEF filesVars
  <2>2. FilesTypeOK' <=> FilesTypeOK
    BY <2>1 DEF FilesTypeOK
  <2>3. DirsSound' <=> DirsSound
    BY <2>1 DEF DirsSound
  <2>4. at # "idle" => RunKept' /\ RunExact'
    <3> SUFFICES ASSUME RunKept, RunExact PROVE RunKept' /\ RunExact'
      BY DEF FilesIInv
    <3>1. \A n : /\ HasId(n)' <=> HasId(n)
                 /\ HasAccount(n)' <=> HasAccount(n)
                 /\ HasGentx(n)' <=> HasGentx(n)
                 /\ HasGenesis(n)' <=> HasGenesis(n)
                 /\ IsCollected(n)' <=> IsCollected(n)
      BY <2>1 DEF HasId, HasAccount, HasGentx, HasGenesis, IsCollected, Later
    <3>2. \A n, f : HasCopy(n, f)' <=> HasCopy(n, f)
      BY <2>1 DEF HasCopy
    <3>3. RunKept'
      BY <2>1, <3>1, <3>2, GentxStable DEF RunKept
    <3>4. RunExact'
      BY <2>1, <3>1, GentxStable DEF RunExact
    <3> QED
      BY <3>3, <3>4
  <2>5. /\ NetworkComplete' <=> NetworkComplete
        /\ RefusedOnlyWhenSmaller' <=> RefusedOnlyWhenSmaller
    BY <2>1 DEF NetworkComplete, RefusedOnlyWhenSmaller, Validators
  <2> QED
    BY <2>1, <2>2, <2>3, <2>4, <2>5 DEF FilesIInv
<1>2. CASE FilesNext
  BY <1>2, MultiNodeIInv, InitializeIInv, GenerateIInv, WriteIInv, SaveGenesisIInv,
     CopyGentxIInv, CollectIInv, RefusesIInv, StopsIInv DEF FilesNext
<1> QED
  BY <1>1, <1>2

\* The inductive invariant of the multi-node command holds in every state of
\* every sequence of runs, errors and kills.
THEOREM FilesInvariance == FilesSpec => []FilesIInv
  BY FilesInitIInv, FilesNextIInv, PTL DEF FilesSpec

\* Whatever earlier runs left in the output directory, a run of
\* initTestnetFiles that succeeds leaves one network.
THEOREM NetworkAlwaysComplete == FilesSpec => []NetworkComplete
<1>1. FilesIInv => NetworkComplete
  BY DEF FilesIInv
<1> QED
  BY <1>1, FilesInvariance, PTL

\* collectGenFiles refuses only the gentxs of a larger network.
THEOREM RefusedOnlyOnSmaller == FilesSpec => []RefusedOnlyWhenSmaller
<1>1. FilesIInv => RefusedOnlyWhenSmaller
  BY DEF FilesIInv
<1> QED
  BY <1>1, FilesInvariance, PTL

-----------------------------------------------------------------------------
(* Building the application.  The list of statements is fixed, so what is  *)
(* true of every prefix of it is an invariant: what has a version, and     *)
(* that a copy of it is never outdated.                                    *)

\* New, once its parts are joined.
LEMMA Joined ==
  /\ Len(New) = 23
  /\ New[1] = Statement("Inject", {"injected"}, {}, {}, TRUE)
  /\ New[2] = Statement("Build", {"baseapp"}, {"injected"}, {}, FALSE)
  /\ New[3] = Stores[1] /\ New[4] = NewIBCKeeper[1]
  /\ New[5] = ChannelUsers[1] /\ New[6] = ChannelUsers[2] /\ New[7] = ChannelUsers[3]
  /\ New[8] = NewTokenFactoryKeeper[1] /\ New[9] = SetContractKeeper[1]
  /\ New[10] = IBCStacks[1]
  /\ New[11] = registerWasmModules[1] /\ New[12] = registerWasmModules[2]
  /\ New[13] = registerWasmModules[3] /\ New[14] = registerWasmModules[4]
  /\ New[15] = registerWasmModules[5] /\ New[16] = registerWasmModules[6]
  /\ New[17] = registerWasmModules[7] /\ New[18] = registerWasmModules[8]
  /\ New[19] = SetRouters[1] /\ New[20] = IBCModules[1]
  /\ New[21] = setupUpgradeHandlers[1] /\ New[22] = Load[1]
  /\ New[23] = Statement("InitializePinnedCodes", {}, {}, {}, TRUE)
<1> DEFINE a == Statement("Inject", {"injected"}, {}, {}, TRUE)
           b == Statement("Build", {"baseapp"}, {"injected"}, {}, FALSE)
           z == Statement("InitializePinnedCodes", {}, {}, {}, TRUE)
           C(x) == ChannelUsers[x]
           W(x) == registerWasmModules[x]
           n == << a, b >>
                  \o (<< Stores[1] >> \o (<< NewIBCKeeper[1] >> \o << C(1), C(2), C(3) >>)
                      \o << NewTokenFactoryKeeper[1] >> \o << SetContractKeeper[1] >>
                      \o << IBCStacks[1] >>
                      \o << W(1), W(2), W(3), W(4), W(5), W(6), W(7), W(8) >>
                      \o << SetRouters[1] >> \o << IBCModules[1] >>)
                  \o (<< setupUpgradeHandlers[1] >> \o << Load[1] >>) \o << z >>
<1>1. /\ Stores = << Stores[1] >> /\ NewIBCKeeper = << NewIBCKeeper[1] >>
      /\ ChannelUsers = << C(1), C(2), C(3) >>
      /\ NewTokenFactoryKeeper = << NewTokenFactoryKeeper[1] >>
      /\ SetContractKeeper = << SetContractKeeper[1] >>
      /\ IBCStacks = << IBCStacks[1] >>
      /\ registerWasmModules = << W(1), W(2), W(3), W(4), W(5), W(6), W(7), W(8) >>
      /\ SetRouters = << SetRouters[1] >> /\ IBCModules = << IBCModules[1] >>
      /\ setupUpgradeHandlers = << setupUpgradeHandlers[1] >> /\ Load = << Load[1] >>
  BY DEF Stores, NewIBCKeeper, ChannelUsers, NewTokenFactoryKeeper, SetContractKeeper,
         IBCStacks, registerWasmModules, SetRouters, IBCModules, setupUpgradeHandlers, Load
<1>2. New = n BY <1>1, Zenon DEF New, registerIBCModules, HandlersAndLoad, IBCKeepers
<1> HIDE DEF a, b, z, C, W
<1>3. /\ Len(n) = 23 /\ n[1] = a /\ n[2] = b /\ n[3] = Stores[1] /\ n[4] = NewIBCKeeper[1]
      /\ n[5] = C(1) /\ n[6] = C(2) /\ n[7] = C(3) /\ n[8] = NewTokenFactoryKeeper[1]
      /\ n[9] = SetContractKeeper[1] /\ n[10] = IBCStacks[1]
      /\ n[11] = W(1) /\ n[12] = W(2) /\ n[13] = W(3) /\ n[14] = W(4)
      /\ n[15] = W(5) /\ n[16] = W(6) /\ n[17] = W(7) /\ n[18] = W(8)
      /\ n[19] = SetRouters[1] /\ n[20] = IBCModules[1]
      /\ n[21] = setupUpgradeHandlers[1] /\ n[22] = Load[1] /\ n[23] = z
  OBVIOUS
<1> HIDE DEF n
<1> QED BY <1>2, <1>3 DEF a, b, z, C, W

\* What each statement of New assigns.
LEMMA Assigns ==
  /\ New[1].assigns = {"injected"} /\ New[2].assigns = {"baseapp"}
  /\ New[3].assigns = IBCStores /\ New[4].assigns = {"IBCKeeper"}
  /\ New[5].assigns = {"TransferKeeper"} /\ New[6].assigns = {"ICAHostKeeper"}
  /\ New[7].assigns = {"ICAControllerKeeper"}
  /\ New[8].assigns = {"TokenFactoryKeeper"} /\ New[9].assigns = {"TokenFactoryKeeper"}
  /\ New[10].assigns = {"IBCStacks"} /\ New[11].assigns = {"wasmStore"}
  /\ New[12].assigns = {"wasmConfig"} /\ New[13].assigns = {"WasmKeeper"}
  /\ New[14].assigns = {} /\ New[15].assigns = {"AnteHandler"}
  /\ New[16].assigns = {} /\ New[17].assigns = {} /\ New[18].assigns = {"wasmStack"}
  /\ New[19].assigns = {"router"} /\ New[20].assigns = {}
  /\ New[21].assigns = {"storeLoader"} /\ New[22].assigns = {} /\ New[23].assigns = {}
BY Joined DEF Statement, Stores, NewIBCKeeper, ChannelUsers, NewTokenFactoryKeeper,
   SetContractKeeper, IBCStacks, registerWasmModules, SetRouters, IBCModules,
   setupUpgradeHandlers, Load

\* The stores are loaded by the last statement but one.
LEMMA LoadAt == ASSUME NEW j \in 1..23, New[j].name = "Load" PROVE j = 22
BY Joined DEF Statement, Stores, NewIBCKeeper, ChannelUsers, NewTokenFactoryKeeper,
   SetContractKeeper, IBCStacks, registerWasmModules, SetRouters, IBCModules,
   setupUpgradeHandlers, Load

\* Nobody takes the token factory keeper before the last assignment to it.
LEMMA TakenAt == ASSUME NEW j \in 1..23, "TokenFactoryKeeper" \in New[j].takes PROVE j > 9
BY Joined DEF Statement, Stores, NewIBCKeeper, ChannelUsers, NewTokenFactoryKeeper,
   SetContractKeeper

\* No two statements assign the same component, except to it.
LEMMA AssignedOnce ==
  ASSUME NEW j \in 1..23, NEW k \in 1..23, NEW c \in New[j].assigns, c \in New[k].assigns
  PROVE  j = k \/ (c = "TokenFactoryKeeper" /\ j <= 9 /\ k <= 9)
BY Assigns DEF IBCStores

\* The statements of New have been executed up to pc.
AssignedBefore(c) == \E j \in 1..pc - 1 : c \in New[j].assigns
AssignedLater(c) == \E j \in pc..Len(New) : c \in New[j].assigns

\* Versions count the assignments that have been made, of which only the token
\* factory keeper gets more than one.
VersionsCounted ==
  /\ ver \in [Components -> Nat]
  /\ \A c \in Components : ver[c] = 0 <=> ~AssignedBefore(c)
  /\ \A c \in Components : c # "TokenFactoryKeeper" => ver[c] <= 1

\* A copy of something built is one of its last version.
CopiesSettled ==
  \A c \in copies :
    /\ c.of \in Components
    /\ c.version # 0 => c.version = ver[c.of] /\ ~AssignedLater(c.of)

BuildInv ==
  /\ pc \in 1..Len(New) + 1
  /\ VersionsCounted
  /\ CopiesSettled
  /\ loaded # 0 => pc > 22
  /\ outcome \in {"built", "done"} => pc = Len(New) + 1

\* Nothing is assigned before the first statement.
LEMMA BuildInitOK == BuildInit => BuildInv
<1> SUFFICES ASSUME BuildInit PROVE BuildInv OBVIOUS
<1>1. /\ pc = 1 /\ ver = [c \in Components |-> 0] /\ copies = {} /\ loaded = 0
      /\ outcome = "running"
  BY DEF BuildInit
<1>2. Len(New) = 23 BY Joined
<1>3. \A c : ~AssignedBefore(c) BY <1>1 DEF AssignedBefore
<1>4. VersionsCounted BY <1>1, <1>3 DEF VersionsCounted
<1> QED BY <1>1, <1>2, <1>4 DEF BuildInv, CopiesSettled

\* One statement: what it assigns was not assigned before or is the token
\* factory keeper, and what it takes is not assigned again.
LEMMA ExecuteOK == ASSUME BuildInv, Execute PROVE BuildInv'
<1>1. Len(New) = 23 BY Joined
<1>2. /\ pc \in 1..23 /\ pc' = pc + 1
      /\ ver' = [c \in Components |-> ver[c] + (IF c \in New[pc].assigns THEN 1 ELSE 0)]
      /\ copies' = copies \cup
           {[by |-> New[pc].name, of |-> c, version |-> ver[c]] : c \in New[pc].takes}
      /\ loaded' = IF New[pc].name = "Load" /\ loadLatest THEN Latest ELSE loaded
      /\ outcome' = IF pc = 23 THEN "built" ELSE "running"
  BY <1>1 DEF BuildInv, Execute, Building, Current
<1>3. VersionsCounted /\ CopiesSettled BY DEF BuildInv
<1>4. New[pc].assigns \subseteq Components /\ New[pc].takes \subseteq Components
  BY <1>1, <1>2 DEF Components
<1>5. \A c : AssignedBefore(c)' <=> AssignedBefore(c) \/ c \in New[pc].assigns
  BY <1>2 DEF AssignedBefore
<1>6. \A c : AssignedLater(c) <=> AssignedLater(c)' \/ c \in New[pc].assigns
  BY <1>1, <1>2 DEF AssignedLater
<1>7. \A c \in Components : ver[c] \in Nat BY <1>3 DEF VersionsCounted
<1>8. VersionsCounted'
  <2>1. ver' \in [Components -> Nat] BY <1>2, <1>7
  <2>2. ASSUME NEW c \in Components PROVE ver'[c] = 0 <=> ~AssignedBefore(c)'
    <3>1. ver'[c] = ver[c] + (IF c \in New[pc].assigns THEN 1 ELSE 0) BY <1>2
    <3>2. ver[c] = 0 <=> ~AssignedBefore(c) BY <1>3 DEF VersionsCounted
    <3>3. ver'[c] = 0 <=> ver[c] = 0 /\ c \notin New[pc].assigns BY <1>7, <3>1
    <3> QED BY <1>5, <3>2, <3>3
  <2>3. ASSUME NEW c \in Components, c # "TokenFactoryKeeper" PROVE ver'[c] <= 1
    <3>1. ver'[c] = ver[c] + (IF c \in New[pc].assigns THEN 1 ELSE 0) BY <1>2
    <3>2. CASE c \in New[pc].assigns
      <4>1. ~AssignedBefore(c)
        <5> SUFFICES ASSUME NEW j \in 1..pc - 1, c \in New[j].assigns PROVE FALSE
          BY DEF AssignedBefore
        <5>1. j \in 1..23 /\ j # pc BY <1>2
        <5> QED BY <1>2, <2>3, <3>2, <5>1, AssignedOnce
      <4>2. ver[c] = 0 BY <1>3, <4>1 DEF VersionsCounted
      <4> QED BY <3>1, <3>2, <4>2
    <3>3. CASE c \notin New[pc].assigns BY <1>3, <1>7, <2>3, <3>1, <3>3 DEF VersionsCounted
    <3> QED BY <3>2, <3>3
  <2> QED BY <2>1, <2>2, <2>3 DEF VersionsCounted
<1>9. CopiesSettled'
  <2> SUFFICES ASSUME NEW c \in copies'
               PROVE  /\ c.of \in Components
                      /\ c.version # 0 => c.version = ver'[c.of] /\ ~AssignedLater(c.of)'
    BY DEF CopiesSettled, Components
  <2>1. /\ c.of \in Components
        /\ c.version # 0 => c.version = ver[c.of] /\ ~AssignedLater(c.of)
    <3>1. CASE c \in copies BY <1>3, <3>1 DEF CopiesSettled
    <3>2. CASE c \notin copies
      <4>1. PICK d \in New[pc].takes :
              c = [by |-> New[pc].name, of |-> d, version |-> ver[d]]
        BY <1>2, <3>2
      <4>2. c.of = d /\ c.version = ver[d] /\ d \in Components BY <1>4, <4>1
      <4>3. ASSUME ver[d] # 0 PROVE ~AssignedLater(d)
        <5>1. PICK b \in 1..pc - 1 : d \in New[b].assigns
          BY <1>3, <4>2, <4>3 DEF VersionsCounted, AssignedBefore
        <5> SUFFICES ASSUME NEW k \in pc..23, d \in New[k].assigns PROVE FALSE
          BY <1>1 DEF AssignedLater
        <5>2. b \in 1..23 /\ k \in 1..23 /\ b # k BY <1>2
        <5>3. d = "TokenFactoryKeeper" /\ k <= 9 BY <5>1, <5>2, AssignedOnce
        <5>4. pc > 9 BY <1>2, <4>1, <5>3, TakenAt
        <5> QED BY <1>2, <5>3, <5>4
      <4> QED BY <4>2, <4>3
    <3> QED BY <3>1, <3>2
  <2>2. ASSUME c.version # 0 PROVE c.version = ver'[c.of] /\ ~AssignedLater(c.of)'
    <3>1. c.of \notin New[pc].assigns /\ ~AssignedLater(c.of)' BY <1>6, <2>1, <2>2
    <3>2. ver'[c.of] = ver[c.of] BY <1>2, <1>7, <2>1, <3>1
    <3> QED BY <2>1, <2>2, <3>1, <3>2
  <2> QED BY <2>1, <2>2
<1>10. loaded' # 0 => pc' > 22
  <2>1. New[pc].name = "Load" => pc = 22 BY <1>2, LoadAt
  <2>2. loaded # 0 => pc > 22 BY DEF BuildInv
  <2> QED BY <1>2, <2>1, <2>2
<1>11. outcome' \in {"built", "done"} => pc' = 24 BY <1>2
<1> QED BY <1>1, <1>2, <1>8, <1>9, <1>10, <1>11 DEF BuildInv

\* The invariant is inductive.
LEMMA BuildNextOK == ASSUME BuildInv, [BuildNext]_buildVars PROVE BuildInv'
<1>1. CASE Execute BY <1>1, ExecuteOK
<1>2. CASE ExecutePanics \/ ExecuteFails
  <2>1. /\ pc' = pc /\ ver' = ver /\ copies' = copies /\ loaded' = loaded
        /\ outcome' \in {"panicked", "failed"}
    BY <1>2 DEF ExecutePanics, ExecuteFails
  <2> QED BY <2>1 DEF BuildInv, VersionsCounted, CopiesSettled, AssignedBefore, AssignedLater
<1>3. CASE Finish
  <2>1. /\ pc' = pc /\ ver' = ver /\ copies' = copies /\ outcome = "built"
    BY <1>3 DEF Finish
  <2>2. pc = 24 BY <2>1, Joined DEF BuildInv
  <2> QED BY <2>1, <2>2 DEF BuildInv, VersionsCounted, CopiesSettled, AssignedBefore, AssignedLater
<1>4. CASE Ended \/ UNCHANGED buildVars
  <2>1. /\ pc' = pc /\ ver' = ver /\ copies' = copies /\ loaded' = loaded
        /\ outcome' = outcome
    BY <1>4 DEF Ended, buildVars
  <2> QED BY <2>1 DEF BuildInv, VersionsCounted, CopiesSettled, AssignedBefore, AssignedLater
<1> QED BY <1>1, <1>2, <1>3, <1>4 DEF BuildNext

\* Whoever takes a built component from the app works with what the app itself
\* ends up with: New and its helpers assign nothing they have handed out.
THEOREM CopiesAlwaysFinal == BuildSpec => []CopiesFinal
<1>1. BuildInit => BuildInv BY BuildInitOK
<1>2. BuildInv /\ [BuildNext]_buildVars => BuildInv' BY BuildNextOK
<1>3. BuildInv => CopiesFinal BY DEF BuildInv, CopiesSettled, CopiesFinal
<1> QED BY <1>1, <1>2, <1>3, PTL DEF BuildSpec

\* New loads the stores, and a command uses loaded stores, only with every
\* keeper's store registered and the upgrade's store loader chosen.
THEOREM AlwaysLoadsComplete == BuildSpec => []LoadsComplete
<1>1. BuildInit => BuildInv BY BuildInitOK
<1>2. BuildInv /\ [BuildNext]_buildVars => BuildInv' BY BuildNextOK
<1>3. BuildInv => LoadsComplete
  <2> SUFFICES ASSUME BuildInv, loaded # 0, NEW c \in AppStores \cup {"storeLoader"}
               PROVE  ver[c] = 1
    BY DEF LoadsComplete
  <2>1. pc \in 1..24 /\ pc > 22 /\ Len(New) = 23 BY Joined DEF BuildInv
  <2>2. PICK j \in {3, 11, 21} : c \in New[j].assigns BY Assigns DEF AppStores
  <2>3. j \in 1..pc - 1 /\ j \in 1..Len(New) BY <2>1
  <2>4. c \in Components /\ AssignedBefore(c) BY <2>2, <2>3 DEF Components, AssignedBefore
  <2>5. c # "TokenFactoryKeeper" BY DEF AppStores, IBCStores
  <2>6. ver[c] \in Nat /\ ver[c] # 0 /\ ver[c] <= 1
    BY <2>4, <2>5 DEF BuildInv, VersionsCounted
  <2> QED BY <2>6
<1> QED BY <1>1, <1>2, <1>3, PTL DEF BuildSpec

-----------------------------------------------------------------------------
(* Upgrades.  A chain taken through its upgrades never commits a           *)
(* tokenfactory store without parameters and module account, never adds    *)
(* the store twice and never loses parameters governance has set.          *)


\* The tokenfactory of a state can be used.
Ready(s) == s.params # "unset" /\ s.account = "module" /\ tokenfactory \in s.versionMap

\* A state has parameters only of an initialized module, and a pending plan
\* was not applied before.
StateCoherent(s) ==
  /\ s.params # "unset" => tokenfactory \in s.versionMap
  /\ s.plan # NoPlan => s.plan.name \notin s.done

\* A chain that began without tokenfactory got it by v0.0.10.
GotByUpgrade(s) == s.born = "old" => nameV0010 \in s.done

ChainCoherent ==
  /\ StateCoherent(chain)
  /\ TokenFactoryReady
  /\ tokenfactory \in chain.stores => GotByUpgrade(chain)

\* upgrade-info.json is about a past height or about the plan the next block
\* has to execute; then, if that is v0.0.10, the store is not there yet.
DiskCoherent ==
  disk # NoPlan =>
    /\ disk.height <= chain.height + 1
    /\ disk.height = chain.height + 1 =>
         /\ chain.plan # NoPlan
         /\ chain.plan.name = disk.name
         /\ chain.plan.height <= disk.height
         /\ disk.name = nameV0010 => tokenfactory \notin chain.stores

\* A running binary of this repository has its store, or is about to execute
\* the upgrade that brings it and does not skip it.
NodeCoherent ==
  /\ node.binary = "old" => chain.born = "old"
  /\ node.binary = "new" /\ tokenfactory \notin chain.stores =>
       /\ disk # NoPlan
       /\ disk.name = nameV0010
       /\ disk.height = chain.height + 1
       /\ node.skip # disk.height

\* The state of the block being executed: if the process commits the store,
\* the block has made the tokenfactory ready.
BlockCoherent ==
  block # NoBlock =>
    /\ node # Down
    /\ chain.height < MaxHeight
    /\ block.state.stores = chain.stores
    /\ block.state.born = chain.born
    /\ StateCoherent(block.state)
    /\ chain.params = "custom" => block.state.params = "custom"
    /\ tokenfactory \in chain.stores \/ node.binary = "new" =>
         Ready(block.state) /\ GotByUpgrade(block.state)

IInv ==
  /\ TypeOK
  /\ ChainCoherent
  /\ DiskCoherent
  /\ NodeCoherent
  /\ BlockCoherent

\* What a state of the chain consists of.
LEMMA ChainStateFacts ==
  ASSUME NEW s \in ChainStates
  PROVE  /\ s.born \in {"old", "new"} /\ s.height \in 0..MaxHeight
         /\ s.plan \in Plans \cup {NoPlan}
         /\ s.plan # NoPlan => s.plan.name \in PlanNames /\ s.plan.height \in 1..MaxHeight
         /\ s.stores \in SUBSET {tokenfactory}
         /\ s.versionMap \in SUBSET {tokenfactory}
         /\ s.params \in {"unset", "default", "custom"}
         /\ s.account \in {"none", "base", "module"}
         /\ s.done \in SUBSET PlanNames
         /\ s.last \in PlanNames \cup {NoPlan}
BY DEF ChainStates, Plans

\* A new chain satisfies the invariant.
LEMMA InitIInv == Init => IInv
<1> SUFFICES ASSUME Init PROVE IInv OBVIOUS
<1>1. PICK born \in {"old", "new"} :
        chain = [ born |-> born, height |-> 0, plan |-> NoPlan,
                  stores |-> Mounted(born), versionMap |-> Mounted(born),
                  params |-> IF born = "new" THEN "default" ELSE "unset",
                  account |-> IF born = "new" THEN "module" ELSE "none",
                  done |-> {}, last |-> NoPlan ]
  BY DEF Init
<1>2. block = NoBlock /\ disk = NoPlan /\ node = Down /\ added = {} /\ crashes = 0
  BY DEF Init
<1>3. chain \in ChainStates
  <2>1. 0 \in 0..MaxHeight BY UpgradesAssumption
  <2> QED BY <1>1, <2>1 DEF ChainStates, Mounted
<1>4. TypeOK BY <1>2, <1>3, UpgradesAssumption DEF TypeOK
<1>5. ChainCoherent
  BY <1>1 DEF ChainCoherent, StateCoherent, TokenFactoryReady, GotByUpgrade, Mounted
<1>6. DiskCoherent /\ BlockCoherent BY <1>2 DEF DiskCoherent, BlockCoherent
<1>7. NodeCoherent BY <1>2 DEF NodeCoherent, Down
<1> QED BY <1>4, <1>5, <1>6, <1>7 DEF IInv

-----------------------------------------------------------------------------
(* Start-up.                                                               *)

\* The store loader adds the tokenfactory store only to a chain without it,
\* right before the block that executes v0.0.10, and only if that height is
\* not skipped.
LEMMA LoaderFacts ==
  ASSUME IInv, NEW binary \in {"old", "new"}, NEW skip \in 0..MaxHeight
  PROVE  /\ AddedAtStart(binary, skip) \in SUBSET {tokenfactory}
         /\ AddedAtStart(binary, skip) \cap chain.stores = {}
         /\ AddedAtStart(binary, skip) # {} =>
              /\ disk # NoPlan
              /\ disk.name = nameV0010
              /\ disk.height = chain.height + 1
              /\ skip # disk.height
<1> USE DEF AddedAtStart, SetsStoreLoader, LoaderIsDue, storeUpgrades
<1>1. AddedAtStart(binary, skip) \in SUBSET {tokenfactory} OBVIOUS
<1>2. ASSUME AddedAtStart(binary, skip) # {}
      PROVE  disk # NoPlan /\ disk.name = nameV0010
             /\ disk.height = chain.height + 1 /\ skip # disk.height
  BY <1>2
<1>3. AddedAtStart(binary, skip) \cap chain.stores = {}
  <2>1. CASE AddedAtStart(binary, skip) = {} BY <2>1
  <2>2. CASE AddedAtStart(binary, skip) # {}
    <3>1. tokenfactory \notin chain.stores
      BY <1>2, <2>2 DEF IInv, DiskCoherent
    <3> QED BY <1>1, <3>1
  <2> QED BY <2>1, <2>2
<1> QED BY <1>1, <1>2, <1>3

\* Starting a binary keeps the invariant.
LEMMA StartIInv ==
  ASSUME IInv, NEW binary \in {"old", "new"}, NEW skip \in 0..MaxHeight,
         Start(binary, skip)
  PROVE  IInv'
<1>1. /\ binary = "old" => chain.born = "old"
      /\ Mounted(binary) \subseteq chain.stores \cup AddedAtStart(binary, skip)
      /\ node' = [binary |-> binary, skip |-> skip]
      /\ added' = AddedAtStart(binary, skip)
      /\ UNCHANGED <<chain, block, disk, crashes>>
      /\ node = Down
  BY DEF Start
<1>2. TypeOK' BY <1>1, LoaderFacts DEF IInv, TypeOK
<1>3. ChainCoherent' /\ DiskCoherent'
  BY <1>1 DEF IInv, ChainCoherent, DiskCoherent, TokenFactoryReady
<1>4. NodeCoherent'
  <2>1. node'.binary = binary /\ node'.skip = skip BY <1>1
  <2>2. ASSUME binary = "new", tokenfactory \notin chain.stores
        PROVE  AddedAtStart(binary, skip) # {}
    BY <1>1, <2>2 DEF Mounted
  <2> QED BY <1>1, <2>1, <2>2, LoaderFacts DEF NodeCoherent
<1>5. BlockCoherent' BY <1>1 DEF IInv, BlockCoherent
<1> QED BY <1>2, <1>3, <1>4, <1>5 DEF IInv

-----------------------------------------------------------------------------
(* Blocks.                                                                 *)

\* A running node of this repository has a ready tokenfactory, or has to
\* execute v0.0.10 now.
LEMMA NewBinaryFacts ==
  ASSUME IInv, node.binary = "new", tokenfactory \notin chain.stores
  PROVE  /\ ShouldExecute
         /\ ~Skips
         /\ chain.plan.name = nameV0010
         /\ HasHandler
<1>1. /\ disk # NoPlan /\ disk.name = nameV0010
      /\ disk.height = chain.height + 1 /\ node.skip # disk.height
  BY DEF IInv, NodeCoherent
<1>2. /\ chain.plan # NoPlan /\ chain.plan.name = disk.name
      /\ chain.plan.height <= disk.height
  BY <1>1 DEF IInv, DiskCoherent
<1> QED BY <1>1, <1>2 DEF ShouldExecute, Skips, HasHandler, Height, Handlers, definitions

\* A pre-blocker that leaves chain and node alone keeps the invariant if the
\* block's state is coherent.
LEMMA ExecutingIInv ==
  ASSUME IInv, BeginsBlock, NEW s \in ChainStates, Executing(s),
         UNCHANGED <<chain, disk, node, added, crashes>>,
         s.stores = chain.stores, s.born = chain.born,
         StateCoherent(s), chain.params = "custom" => s.params = "custom",
         tokenfactory \in chain.stores \/ node.binary = "new" =>
           Ready(s) /\ GotByUpgrade(s)
  PROVE  IInv'
<1>1. chain.height \in 0..MaxHeight /\ chain.height < MaxHeight /\ node # Down
  BY ChainStateFacts DEF IInv, TypeOK, BeginsBlock
<1>2. block' = [height |-> chain.height + 1, state |-> s] BY DEF Executing, Height
<1>3. chain.height + 1 \in 1..MaxHeight BY <1>1, UpgradesAssumption
<1>4. TypeOK' BY <1>2, <1>3 DEF IInv, TypeOK
<1>5. ChainCoherent' /\ DiskCoherent' /\ NodeCoherent'
  BY DEF IInv, ChainCoherent, DiskCoherent, NodeCoherent, TokenFactoryReady
<1>6. block'.state = s BY <1>2
<1>7. BlockCoherent' BY <1>1, <1>6 DEF BlockCoherent
<1> QED BY <1>4, <1>5, <1>7 DEF IInv

\* A block without an upgrade keeps the invariant.
LEMMA PreBlockPlainIInv == ASSUME IInv, PreBlockPlain PROVE IInv'
<1>1. chain \in ChainStates BY DEF IInv, TypeOK
<1>2. tokenfactory \in chain.stores \/ node.binary = "new" => tokenfactory \in chain.stores
  BY NewBinaryFacts DEF PreBlockPlain
<1>3. tokenfactory \in chain.stores => Ready(chain) /\ GotByUpgrade(chain)
  BY DEF IInv, ChainCoherent, TokenFactoryReady, Ready
<1>4. StateCoherent(chain) BY DEF IInv, ChainCoherent
<1>5. /\ BeginsBlock /\ Executing(chain)
      /\ UNCHANGED <<chain, disk, node, added, crashes>>
  BY DEF PreBlockPlain
<1> QED BY <1>1, <1>2, <1>3, <1>4, <1>5, ExecutingIInv

\* A skipped upgrade keeps the invariant: a node that has just added the store
\* does not skip.
LEMMA PreBlockSkipIInv == ASSUME IInv, PreBlockSkip PROVE IInv'
<1> DEFINE s == [chain EXCEPT !.plan = NoPlan]
<1>1. chain \in ChainStates BY DEF IInv, TypeOK
<1>2. /\ s \in ChainStates /\ s.stores = chain.stores /\ s.born = chain.born
      /\ s.params = chain.params /\ s.account = chain.account
      /\ s.versionMap = chain.versionMap /\ s.done = chain.done /\ s.plan = NoPlan
  BY <1>1 DEF ChainStates
<1>3. tokenfactory \in chain.stores \/ node.binary = "new" => tokenfactory \in chain.stores
  BY NewBinaryFacts DEF PreBlockSkip
<1>4. /\ BeginsBlock /\ Executing(s)
      /\ UNCHANGED <<chain, disk, node, added, crashes>>
  BY DEF PreBlockSkip
<1> HIDE DEF s
<1>5. tokenfactory \in chain.stores => Ready(s) /\ GotByUpgrade(s)
  BY <1>2 DEF IInv, ChainCoherent, TokenFactoryReady, Ready, GotByUpgrade
<1>6. StateCoherent(s) BY <1>2 DEF IInv, ChainCoherent, StateCoherent
<1> QED BY <1>2, <1>3, <1>4, <1>5, <1>6, ExecutingIInv

\* What the handlers do: they touch only the version map, the parameters and
\* the account; v0.0.10's leaves the tokenfactory ready, no handler of this
\* binary makes a ready one unready, and custom parameters stay.
LEMMA HandlerFacts ==
  ASSUME NEW s \in ChainStates, StateCoherent(s), NEW name,
         NEW binary \in {"old", "new"}
  PROVE  LET r == UpgradeHandler(binary, s, name)
         IN  /\ r \in ChainStates
             /\ r.stores = s.stores /\ r.born = s.born /\ r.done = s.done
             /\ r.params # "unset" => tokenfactory \in r.versionMap
             /\ s.params = "custom" => r.params = "custom"
             /\ Ready(s) => Ready(r)
             /\ binary = "new" /\ name = nameV0010 => Ready(r)
<1> DEFINE m == RunMigrations(s)
           p == postMigrate(m, name)
           r == UpgradeHandler(binary, s, name)
<1>1. /\ m \in ChainStates
      /\ m.stores = s.stores /\ m.born = s.born /\ m.done = s.done
      /\ tokenfactory \in m.versionMap
      /\ s.params = "custom" => m.params = "custom"
      /\ Ready(s) => Ready(m)
  <2>1. CASE tokenfactory \in s.versionMap
    BY <2>1 DEF RunMigrations
  <2>2. CASE tokenfactory \notin s.versionMap
    <3>1. m = [s EXCEPT !.account = "module", !.versionMap = {tokenfactory},
                        !.params = "default"]
      BY <2>2 DEF RunMigrations, CreateModuleAccount, ChainStates
    <3>2. s.params = "unset" BY <2>2 DEF StateCoherent
    <3>3. ~Ready(s) BY <2>2 DEF Ready
    <3>4. m \in ChainStates BY <3>1 DEF ChainStates
    <3>5. /\ m.stores = s.stores /\ m.born = s.born /\ m.done = s.done
          /\ m.versionMap = {tokenfactory}
      BY <3>1 DEF ChainStates
    <3> QED BY <3>2, <3>3, <3>4, <3>5
  <2> QED BY <2>1, <2>2
<1> HIDE DEF m
<1>2. /\ p \in ChainStates
      /\ p.stores = s.stores /\ p.born = s.born /\ p.done = s.done
      /\ tokenfactory \in p.versionMap
      /\ s.params = "custom" => p.params = "custom"
      /\ Ready(s) => Ready(p)
      /\ name = nameV0010 => Ready(p)
  <2>1. CASE name # nameV0010 BY <1>1, <2>1 DEF postMigrate
  <2>2. CASE name = nameV0010
    <3>1. p = [m EXCEPT !.account = "module",
                        !.params = IF @ = "unset" THEN "default" ELSE @]
      BY <1>1, <2>2 DEF postMigrate, CreateModuleAccount, ChainStates
    <3>2. p \in ChainStates BY <1>1, <3>1 DEF ChainStates
    <3>3. /\ p.stores = m.stores /\ p.born = m.born /\ p.done = m.done
          /\ p.versionMap = m.versionMap
          /\ p.params = IF m.params = "unset" THEN "default" ELSE m.params
      BY <1>1, <3>1 DEF ChainStates
    <3>4. p.account = "module" BY <1>1, <3>1 DEF ChainStates
    <3>5. Ready(p) BY <1>1, <3>3, <3>4 DEF Ready
    <3> QED BY <1>1, <3>2, <3>3, <3>5
  <2> QED BY <2>1, <2>2
<1> HIDE DEF p
<1>3. CASE binary = "new"
  <2>1. r = p BY <1>3 DEF UpgradeHandler, p, m
  <2> QED BY <1>2, <1>3, <2>1
<1>4. CASE binary = "old"
  <2>1. r = s BY <1>4 DEF UpgradeHandler
  <2> QED BY <1>4, <2>1 DEF StateCoherent
<1> QED BY <1>3, <1>4

\* An executed upgrade keeps the invariant: a node without the store executes
\* v0.0.10, whose handler initializes the module.
LEMMA PreBlockApplyIInv == ASSUME IInv, PreBlockApply PROVE IInv'
<1> DEFINE name == chain.plan.name
           r == UpgradeHandler(node.binary, chain, name)
           s == [r EXCEPT !.plan = NoPlan, !.done = @ \cup {name}, !.last = name]
<1>1. chain \in ChainStates /\ StateCoherent(chain) BY DEF IInv, TypeOK, ChainCoherent
<1>2. /\ BeginsBlock /\ ShouldExecute /\ HasHandler /\ Executing(s)
      /\ UNCHANGED <<chain, disk, node, added, crashes>>
  BY DEF PreBlockApply
<1>3. node.binary \in {"old", "new"} BY <1>2 DEF IInv, TypeOK, BeginsBlock
<1>4. name \in PlanNames BY <1>1, <1>2, ChainStateFacts DEF ShouldExecute
<1>5. /\ r \in ChainStates
      /\ r.stores = chain.stores /\ r.born = chain.born /\ r.done = chain.done
      /\ r.params # "unset" => tokenfactory \in r.versionMap
      /\ chain.params = "custom" => r.params = "custom"
      /\ Ready(chain) => Ready(r)
      /\ node.binary = "new" /\ name = nameV0010 => Ready(r)
  BY <1>1, <1>3, HandlerFacts
<1> HIDE DEF name, r
<1>6. s \in ChainStates
  <2>1. r.done \cup {name} \in SUBSET PlanNames BY <1>4, <1>5, ChainStateFacts
  <2> QED BY <1>4, <1>5, <2>1 DEF ChainStates
<1>7. /\ s.stores = r.stores /\ s.born = r.born /\ s.params = r.params
      /\ s.account = r.account /\ s.versionMap = r.versionMap
      /\ s.plan = NoPlan /\ s.done = r.done \cup {name}
  BY <1>5 DEF ChainStates
<1> HIDE DEF s
<1>8. StateCoherent(s) BY <1>5, <1>7 DEF StateCoherent
<1>9. tokenfactory \in chain.stores \/ node.binary = "new" => Ready(r)
  <2>1. tokenfactory \in chain.stores => Ready(chain)
    BY DEF IInv, ChainCoherent, TokenFactoryReady, Ready
  <2>2. node.binary = "new" /\ tokenfactory \notin chain.stores => name = nameV0010
    BY NewBinaryFacts DEF name
  <2> QED BY <1>5, <2>1, <2>2
<1>10. Ready(r) => Ready(s) BY <1>7 DEF Ready
<1>11. tokenfactory \in chain.stores \/ node.binary = "new" => GotByUpgrade(s)
  <2>1. tokenfactory \in chain.stores => GotByUpgrade(chain) BY DEF IInv, ChainCoherent
  <2>2. node.binary = "new" /\ tokenfactory \notin chain.stores => name = nameV0010
    BY NewBinaryFacts DEF name
  <2> QED BY <1>5, <1>7, <2>1, <2>2 DEF GotByUpgrade
<1> QED BY <1>2, <1>5, <1>6, <1>7, <1>8, <1>9, <1>10, <1>11, ExecutingIInv

\* A node that is not running satisfies every clause about it.
LEMMA DownFacts ==
  ASSUME node' = Down, block' = NoBlock PROVE NodeCoherent' /\ BlockCoherent'
BY DEF NodeCoherent, BlockCoherent, Down

\* Stopping for an upgrade keeps the invariant: only the old binary stops for
\* v0.0.10, so the chain began on it, and a plan that is pending was not
\* applied, so the store is not there.
LEMMA PreBlockStopsIInv == ASSUME IInv, PreBlockStops PROVE IInv'
<1>1. /\ BeginsBlock /\ ShouldExecute /\ ~HasHandler
      /\ disk' = [chain.plan EXCEPT !.height = Height]
      /\ node' = Down /\ added' = {} /\ UNCHANGED <<chain, block, crashes>>
  BY DEF PreBlockStops
<1>2. chain \in ChainStates BY DEF IInv, TypeOK
<1>3. chain.plan \in Plans /\ chain.plan # NoPlan /\ chain.plan.height <= chain.height + 1
  BY <1>1, <1>2, ChainStateFacts DEF ShouldExecute, Height
<1>4. chain.height + 1 \in 1..MaxHeight
  <2>1. chain.height \in 0..MaxHeight /\ chain.height < MaxHeight
    BY <1>1, <1>2, ChainStateFacts DEF BeginsBlock
  <2> QED BY <2>1, UpgradesAssumption
<1>5. disk' \in Plans /\ disk'.name = chain.plan.name /\ disk'.height = chain.height + 1
  BY <1>1, <1>3, <1>4 DEF Plans, Height
<1>6. block = NoBlock BY <1>1 DEF BeginsBlock
<1>7. TypeOK' BY <1>1, <1>5 DEF IInv, TypeOK
<1>8. ChainCoherent' BY <1>1 DEF IInv, ChainCoherent, TokenFactoryReady
<1>9. chain.plan.name = nameV0010 => tokenfactory \notin chain.stores
  <2> SUFFICES ASSUME chain.plan.name = nameV0010, tokenfactory \in chain.stores
               PROVE  FALSE
    OBVIOUS
  <2>1. node.binary # "new" BY <1>1 DEF HasHandler, Handlers, definitions
  <2>2. node.binary = "old" BY <1>1, <2>1 DEF IInv, TypeOK, BeginsBlock
  <2>3. chain.born = "old" BY <2>2 DEF IInv, NodeCoherent
  <2>4. nameV0010 \in chain.done BY <2>3 DEF IInv, ChainCoherent, GotByUpgrade
  <2> QED BY <1>3, <2>4 DEF IInv, ChainCoherent, StateCoherent
<1>10. DiskCoherent'
  <2>1. chain.height \in Nat BY <1>2, ChainStateFacts
  <2> QED BY <1>1, <1>3, <1>5, <1>9, <2>1 DEF DiskCoherent
<1> QED BY <1>1, <1>6, <1>7, <1>8, <1>10, DownFacts DEF IInv

\* A node that goes down without a trace keeps the invariant.
LEMMA GoesDownIInv ==
  ASSUME IInv, node' = Down, block' = NoBlock, added' = {},
         crashes' \in 0..MaxCrashes, UNCHANGED <<chain, disk>>
  PROVE  IInv'
<1>1. TypeOK' BY DEF IInv, TypeOK
<1>2. ChainCoherent' /\ DiskCoherent'
  BY DEF IInv, ChainCoherent, DiskCoherent, TokenFactoryReady
<1> QED BY <1>1, <1>2, DownFacts DEF IInv

\* Committing a block keeps the invariant: the store is committed with what
\* the block has made of the module, and upgrade-info.json is about the past.
LEMMA CommitIInv ==
  ASSUME IInv, NEW plan \in Plans \cup {NoPlan},
         NEW params \in {"unset", "default", "custom"},
         NEW account \in {"none", "base", "module"}, Commit(plan, params, account)
  PROVE  IInv' /\ (chain.params = "custom" => chain'.params = "custom")
<1> DEFINE s == block.state
           stores == s.stores \cup Mounted(node.binary)
<1>1. /\ block # NoBlock /\ PlanAfter(plan) /\ ParamsAfter(params) /\ AccountAfter(account)
      /\ chain' = [s EXCEPT !.height = Height, !.plan = plan,
                            !.params = params, !.account = account,
                            !.stores = stores]
      /\ block' = NoBlock
      /\ UNCHANGED <<disk, node, added, crashes>>
  BY DEF Commit
<1>2. s \in ChainStates BY <1>1 DEF IInv, TypeOK
<1>3. /\ node # Down /\ s.stores = chain.stores /\ s.born = chain.born
      /\ chain.height < MaxHeight /\ StateCoherent(s)
      /\ chain.params = "custom" => s.params = "custom"
      /\ tokenfactory \in chain.stores \/ node.binary = "new" =>
           Ready(s) /\ GotByUpgrade(s)
  BY <1>1 DEF IInv, BlockCoherent
<1>4. /\ s.params # "unset" => tokenfactory \in s.versionMap
      /\ s.plan # NoPlan => s.plan.name \notin s.done
  BY <1>3 DEF StateCoherent
<1>5. /\ plan # NoPlan => plan.name \notin s.done
      /\ params = s.params \/ (s.params # "unset" /\ params = "custom")
      /\ s.account = "module" => account = "module"
  BY <1>1, <1>4 DEF PlanAfter, ParamsAfter, AccountAfter
<1>6. node.binary \in {"old", "new"} BY <1>3 DEF IInv, TypeOK
<1>7. stores \in SUBSET {tokenfactory} BY <1>2, <1>6, ChainStateFacts DEF Mounted
<1>8. tokenfactory \in stores <=> tokenfactory \in chain.stores \/ node.binary = "new"
  BY <1>3, <1>6 DEF Mounted
<1>9. Height \in 0..MaxHeight /\ Height = chain.height + 1 /\ chain.height \in Nat
  <2>1. chain.height \in 0..MaxHeight BY ChainStateFacts DEF IInv, TypeOK
  <2> QED BY <1>3, <2>1, UpgradesAssumption DEF Height
<1> HIDE DEF s, stores
<1>10. chain' \in ChainStates BY <1>1, <1>2, <1>7, <1>9 DEF ChainStates
<1>11. /\ chain'.height = Height /\ chain'.plan = plan /\ chain'.params = params
       /\ chain'.stores = stores /\ chain'.born = s.born
       /\ chain'.versionMap = s.versionMap /\ chain'.done = s.done
       /\ chain'.account = account
  BY <1>1, <1>2 DEF ChainStates
<1>12. TypeOK' BY <1>1, <1>10 DEF IInv, TypeOK
<1>13. ChainCoherent'
  <2>1. StateCoherent(chain)' BY <1>4, <1>5, <1>11 DEF StateCoherent
  <2>2. TokenFactoryReady'
    BY <1>3, <1>5, <1>8, <1>11 DEF TokenFactoryReady, Ready
  <2>3. (tokenfactory \in chain.stores => GotByUpgrade(chain))'
    BY <1>3, <1>8, <1>11 DEF GotByUpgrade
  <2> QED BY <2>1, <2>2, <2>3 DEF ChainCoherent
<1>14. DiskCoherent'
  <2>1. disk # NoPlan => disk.height <= chain.height + 1 /\ disk.height \in Int
    BY DEF IInv, TypeOK, DiskCoherent, Plans
  <2> QED BY <1>1, <1>9, <1>11, <2>1 DEF DiskCoherent
<1>15. NodeCoherent'
  BY <1>1, <1>3, <1>8, <1>11 DEF IInv, NodeCoherent
<1>16. BlockCoherent' BY <1>1 DEF BlockCoherent
<1>17. chain.params = "custom" => chain'.params = "custom" BY <1>3, <1>5, <1>11
<1> QED BY <1>12, <1>13, <1>14, <1>15, <1>16, <1>17 DEF IInv

\* Every step preserves the invariant.
LEMMA NextIInv == IInv /\ [Next]_vars => IInv'
<1> SUFFICES ASSUME IInv, [Next]_vars PROVE IInv' OBVIOUS
<1>1. ASSUME NEW binary \in {"old", "new"}, NEW skip \in 0..MaxHeight,
             Start(binary, skip)
      PROVE  IInv'
  BY <1>1, StartIInv
<1>2. CASE PreBlock
  <2>1. CASE PreBlockFails \/ PreBlockPanics
    BY <2>1, GoesDownIInv DEF PreBlockFails, PreBlockPanics, BeginsBlock, IInv, TypeOK
  <2> QED BY <1>2, <2>1, PreBlockPlainIInv, PreBlockSkipIInv, PreBlockApplyIInv,
             PreBlockStopsIInv DEF PreBlock
<1>3. CASE CommitBlock BY <1>3, CommitIInv DEF CommitBlock
<1>4. CASE Crash
  <2>1. crashes' \in 0..MaxCrashes
    BY <1>4, UpgradesAssumption DEF Crash, IInv, TypeOK
  <2> QED BY <1>4, <2>1, GoesDownIInv DEF Crash
<1>5. CASE UNCHANGED vars
  BY <1>5 DEF vars, IInv, TypeOK, ChainCoherent, DiskCoherent, NodeCoherent,
              BlockCoherent, TokenFactoryReady
<1> QED BY <1>1, <1>2, <1>3, <1>4, <1>5 DEF Next

-----------------------------------------------------------------------------
(* Theorems.                                                               *)

\* Every reachable state satisfies the inductive invariant.
THEOREM Invariance == Spec => []IInv
BY InitIInv, NextIInv, PTL DEF Spec

\* The state stays typed.
THEOREM TypeCorrect == Spec => []TypeOK
<1>1. IInv => TypeOK BY DEF IInv
<1> QED BY Invariance, <1>1, PTL

\* Wherever the tokenfactory store is committed, its parameters, its module
\* account and its entry in the version map are too: whatever crashes, skips
\* and changes of binary surround the upgrade.
THEOREM TokenFactoryAlwaysReady == Spec => []TokenFactoryReady
<1>1. IInv => TokenFactoryReady BY DEF IInv, ChainCoherent
<1> QED BY Invariance, <1>1, PTL

\* No start adds the store to a chain that has it, however long
\* upgrade-info.json stays on disk.
THEOREM StoreAlwaysAddedOnce == Spec => StoreAddedOnce
<1> DEFINE A == added' # added => added' \cap chain.stores = {}
<1>1. IInv /\ [Next]_vars => [A]_vars
  <2> SUFFICES ASSUME IInv, Next PROVE A OBVIOUS
  <2>1. ASSUME NEW binary \in {"old", "new"}, NEW skip \in 0..MaxHeight,
               Start(binary, skip)
        PROVE  A
    BY <2>1, LoaderFacts DEF Start
  <2>2. CASE PreBlock
    BY <2>2 DEF PreBlock, PreBlockPlain, PreBlockSkip, PreBlockApply,
                PreBlockPanics, PreBlockStops, PreBlockFails
  <2>3. CASE CommitBlock BY <2>3 DEF CommitBlock, Commit
  <2>4. CASE Crash BY <2>4 DEF Crash
  <2> QED BY <2>1, <2>2, <2>3, <2>4 DEF Next
<1> QED BY Invariance, <1>1, PTL DEF Spec, StoreAddedOnce

\* Parameters governance has set survive every block, upgrade and restart.
THEOREM CustomParamsAlwaysKept == Spec => CustomParamsKept
<1> DEFINE A == chain.params = "custom" => chain'.params = "custom"
<1>1. IInv /\ [Next]_vars => [A]_vars
  <2> SUFFICES ASSUME IInv, Next PROVE A OBVIOUS
  <2>1. ASSUME NEW binary \in {"old", "new"}, NEW skip \in 0..MaxHeight,
               Start(binary, skip)
        PROVE  A
    BY <2>1 DEF Start
  <2>2. CASE PreBlock
    BY <2>2 DEF PreBlock, PreBlockPlain, PreBlockSkip, PreBlockApply,
                PreBlockPanics, PreBlockStops, PreBlockFails
  <2>3. CASE CommitBlock BY <2>3, CommitIInv DEF CommitBlock
  <2>4. CASE Crash BY <2>4 DEF Crash
  <2> QED BY <2>1, <2>2, <2>3, <2>4 DEF Next
<1> QED BY Invariance, <1>1, PTL DEF Spec, CustomParamsKept
=============================================================================
