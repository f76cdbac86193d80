--------------------------- MODULE InPlaceTestnet ---------------------------
(***************************************************************************)
(* The in-place-testnet command: newTestnetApp and initAppForTestnet turn  *)
(* the stores of a node of the real chain into those of a chain with one   *)
(* new validator.  The changes go straight to the working stores and are   *)
(* kept only by the commit of the first block; a failing step exits, and a *)
(* kill can come at any time.  The blocks that follow are the SDK's: what  *)
(* staking and slashing do with the stores the command leaves.             *)
(*                                                                         *)
(* Validators are in the stores under their operator, with the key of the  *)
(* consensus node.  Tokens and powers are left out: whoever is in the      *)
(* power index when a block ends is bonded.                                *)
(***************************************************************************)
EXTENDS Naturals

CONSTANTS Operators,    \* operator addresses
          NewOperator,  \* the one the command is given, in use or not
          Accounts,     \* what --accounts-to-fund may list: accounts,
          NotAnAddress, \* and a string that is no address ("" by default)
          MaxLaunches   \* bound on runs of the command

ASSUME InPlaceAssumption ==
  /\ NewOperator \in Operators
  /\ NotAnAddress \notin Accounts
  /\ MaxLaunches \in Nat

VARIABLES committed,  \* the stores as of the last commit
          working,    \* the stores in use
          launch,     \* number of the command's run: the key it is given
          funding,    \* accounts it still has to fund
          doing,      \* its next step; "serving", "down" or "halted"
          comet       \* keys of Comet's validator set

inPlaceVars == <<committed, working, launch, funding, doing, comet>>

-----------------------------------------------------------------------------
(* The stores *)

Absent == [ status |-> "absent", key |-> <<>> ]
KeyOf(op) == <<"old", op>>
NewKey == <<"new", launch>>

\* A bonded validator is in the index of powers and among the last validators,
\* one that is unbonding in the queue; both others may be in the power index.
\* Keys are found by consensus address, and have signing information.
ChainStore(status, idle) ==
  LET exist == { op \in Operators : status[op] # "absent" }
      bonded == { op \in Operators : status[op] = "bonded" }
  IN  [ validators |->
          [ op \in Operators |->
              IF op \in exist THEN [ status |-> status[op], key |-> KeyOf(op) ]
                              ELSE Absent ],
        power |-> bonded \cup (idle \cap exist),
        last |-> bonded,
        queue |-> { op \in Operators : status[op] = "unbonding" },
        cons |-> { <<KeyOf(op), op>> : op \in exist },
        signing |-> { KeyOf(op) : op \in bonded } ]

Statuses == {"absent", "bonded", "unbonding", "unbonded"}

\* At least one validator of the real chain is bonded.
ChainStores ==
  { ChainStore(chain[1], chain[2]) :
      chain \in { c \in [ Operators -> Statuses ] \X SUBSET Operators :
                    \E op \in Operators : c[1][op] = "bonded" } }

InPlaceInit ==
  /\ committed \in ChainStores
  /\ working = committed
  /\ launch = 0 /\ funding = {}
  /\ doing = "down"
  /\ comet = { committed.validators[op].key : op \in committed.last }

-----------------------------------------------------------------------------
(* initAppForTestnet *)

\* What one step changes in the stores c, and the step that follows it.
Step(name, then, c) == [ name |-> name, then |-> then, stores |-> c ]

NewValidator == [ status |-> "bonded", key |-> NewKey ]

RemovePower(c) == [ c EXCEPT !.power = {} ]
RemoveLast(c) == [ c EXCEPT !.last = {} ]

KeepValidators(c) == c  \* variant: the records of the old validators stay
RemoveValidators(c) == [ c EXCEPT !.validators = [ op \in Operators |-> Absent ] ]

KeepQueue(c) == c  \* variant: the unbonding queue is forgotten
RemoveQueue(c) == [ c EXCEPT !.queue = {} ]

SetValidator(c) == [ c EXCEPT !.validators[NewOperator] = NewValidator ]
SetValidatorByConsAddr(c) ==
  [ c EXCEPT !.cons = { p \in @ : p[1] # NewKey } \cup {<<NewKey, NewOperator>>} ]
SetValidatorByPowerIndex(c) == [ c EXCEPT !.power = @ \cup {NewOperator} ]
SetLastValidatorPower(c) == [ c EXCEPT !.last = @ \cup {NewOperator} ]
SetValidatorSigningInfo(c) == [ c EXCEPT !.signing = @ \cup {NewKey} ]

\* The statements in their order.  Distribution's records are left out.
Changes ==
  { Step("RemovePower", "RemoveLast", RemovePower(working)),
    Step("RemoveLast", "RemoveValidators", RemoveLast(working)),
    Step("RemoveValidators", "RemoveQueue", RemoveValidators(working)),
    Step("RemoveQueue", "SetValidator", RemoveQueue(working)),
    Step("SetValidator", "SetValidatorByConsAddr", SetValidator(working)),
    Step("SetValidatorByConsAddr", "SetValidatorByPowerIndex",
         SetValidatorByConsAddr(working)),
    Step("SetValidatorByPowerIndex", "SetLastValidatorPower",
         SetValidatorByPowerIndex(working)),
    Step("SetLastValidatorPower", "SetValidatorSigningInfo",
         SetLastValidatorPower(working)),
    Step("SetValidatorSigningInfo", "fund", SetValidatorSigningInfo(working)) }

\* The command is run on a node that is down: the application is built from
\* the last commit and the arguments are read.
newTestnetApp(accounts) ==
  /\ doing = "down" /\ launch < MaxLaunches
  /\ accounts # {}  \* strings.Split returns at least one string
  /\ launch' = launch + 1
  /\ funding' = accounts
  /\ working' = committed
  /\ doing' = "RemovePower"
  /\ UNCHANGED <<committed, comet>>

initAppForTestnet ==
  \E s \in Changes :
    /\ doing = s.name
    /\ working' = s.stores
    /\ doing' = s.then
    /\ UNCHANGED <<committed, launch, funding, comet>>

\* The bank's coins are left out; a string that is no address ends the command.
FundAccount ==
  /\ doing = "fund"
  /\ \E account \in funding :
       /\ funding' = funding \ {account}
       /\ doing' = IF account = NotAnAddress THEN "down" ELSE doing
  /\ UNCHANGED <<committed, working, launch, comet>>

\* The server gives Comet the new validator set and starts the node.
Serve ==
  /\ doing = "fund" /\ funding = {}
  /\ comet' = {NewKey}
  /\ doing' = "serving"
  /\ UNCHANGED <<committed, working, launch, funding>>

\* The process ends: a kill, or an error of any call of the command.
Killed ==
  /\ doing \notin {"down", "halted"}
  /\ doing' = "down"
  /\ UNCHANGED <<committed, working, launch, funding, comet>>

-----------------------------------------------------------------------------
(* A block of the testnet, by the SDK's staking and slashing *)

Leaving(c) == c.last \ c.power
Exists(c, op) == c.validators[op].status # "absent"

\* Slashing's BeginBlock finds the signing information and the validator of
\* everybody who voted.  Staking's EndBlock finds every validator of the index
\* and of the last block, demotes only bonded ones and lets only those that
\* are unbonding leave the queue; Comet knows every key it is to remove.
Proceeds(c, mature) ==
  /\ \A key \in comet :
       key \in c.signing /\ \E op \in Operators : <<key, op>> \in c.cons /\ Exists(c, op)
  /\ \A op \in c.power : Exists(c, op)
  /\ \A op \in Leaving(c) :
       c.validators[op].status = "bonded" /\ c.validators[op].key \in comet
  /\ \A op \in mature : c.validators[op].status = "unbonding"
  /\ c.power # {}

\* Validators whose time in the queue is over leave it.
AfterBlock(c, mature) ==
  [ c EXCEPT
      !.validators = [ op \in Operators |->
        CASE op \in c.power -> [ @[op] EXCEPT !.status = "bonded" ]
          [] op \in Leaving(c) -> [ @[op] EXCEPT !.status = "unbonding" ]
          [] op \in mature -> [ @[op] EXCEPT !.status = "unbonded" ]
          [] OTHER -> @[op] ],
      !.last = c.power,
      !.queue = ((@ \ mature) \cup Leaving(c)) \ c.power ]

Block ==
  /\ doing = "serving"
  /\ \E mature \in SUBSET working.queue :
       IF Proceeds(working, mature)
         THEN /\ working' = AfterBlock(working, mature)
              /\ committed' = working'
              /\ comet' = (comet \ { working.validators[op].key : op \in Leaving(working) })
                            \cup { working.validators[op].key : op \in working.power }
              /\ doing' = doing
         ELSE doing' = "halted" /\ UNCHANGED <<committed, working, comet>>
  /\ UNCHANGED <<launch, funding>>

InPlaceNext ==
  \/ \E accounts \in SUBSET (Accounts \cup {NotAnAddress}) : newTestnetApp(accounts)
  \/ initAppForTestnet \/ FundAccount \/ Serve \/ Killed
  \/ Block

InPlaceSpec == InPlaceInit /\ [][InPlaceNext]_inPlaceVars

-----------------------------------------------------------------------------
(* Properties *)

\* The testnet goes on, whatever the validators of the real chain were doing
\* and whoever the operator was: no record that the command leaves behind, and
\* none that it forgets to write, stops a block.
TestnetGoesOn == doing # "halted"

\* "removing the old validator set and introducing a new set": once a block
\* has ended, nobody but the new validator is bonded, and Comet's validator
\* set and the application's are the same.
OnlyNewValidator ==
  doing = "serving" /\ committed = working =>
    /\ comet = {NewKey}
    /\ { op \in Operators : committed.validators[op].status = "bonded" }
         = {NewOperator}
    /\ { committed.validators[op].key : op \in committed.last } = comet
=============================================================================
