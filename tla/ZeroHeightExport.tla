-------------------------- MODULE ZeroHeightExport --------------------------
(***************************************************************************)
(* prepForZeroHeightGenesis of app/export.go: the rewrite of distribution, *)
(* staking and slashing records that makes an export start at height zero. *)
(* Withdrawals may fail and their errors are ignored; iteration orders are *)
(* left open.                                                              *)
(*                                                                         *)
(* x/distribution (external) is kept as far as the rewrite depends on it:  *)
(* what each validator owes, and the reference counts of its historical    *)
(* reward records, one record per period.  A record is referenced by the   *)
(* current period, by delegations that start at it and by slash events.    *)
(* Rewards are in half coins: only whole coins are paid out.               *)
(***************************************************************************)
EXTENDS Integers, FiniteSets, Functions

CONSTANTS
  Validators,
  Delegations,     \* records with fields delegator and validator
  Rewards,         \* amounts a delegation or a commission may have accrued
  InitialPeriods,  \* bound on the period of a validator before the export
  Allowed          \* jailAllowedAddrs

MaxPeriod == InitialPeriods + Cardinality(Delegations) + 1
Periods == 0..MaxPeriod

ASSUME ExportAssumption ==
  /\ IsFiniteSet(Validators) /\ IsFiniteSet(Delegations)
  /\ \A del \in Delegations : del.validator \in Validators
  /\ Rewards \subseteq Nat /\ InitialPeriods \in Nat \ {0}
  /\ Allowed \subseteq Validators

VARIABLES
  stage,        \* how far the rewrite is
  todo,         \* what the loop of this stage has left
  outstanding,  \* rewards each validator owes
  commission,   \* its part of them
  pending,      \* the delegations' parts
  pool,         \* community pool
  balance,      \* coins of the distribution module account
  period,       \* current period of each validator
  refs,         \* reference counts; 0: no such record
  start,        \* period each delegation starts at
  startHeight,  \* and the height of that record
  slashes,      \* periods with a slash event
  jailed,       \* jailed validators
  heights       \* unbonding entries, validators and signing infos

rewardVars == <<outstanding, commission, pending, pool, balance>>
periodVars == <<period, refs, start, startHeight, slashes>>
vars == <<stage, todo, rewardVars, periodVars, jailed, heights>>

DelegationsOf(v) == {del \in Delegations : del.validator = v}

\* The count a record has to have.
References(v, p) ==
  (IF p = period[v] - 1 THEN 1 ELSE 0)
    + Cardinality({del \in DelegationsOf(v) : start[del] = p})
    + (IF p \in slashes[v] THEN 1 ELSE 0)

\* A running chain: every delegation and every slash event has opened a period.
Init ==
  /\ stage = "commission"
  /\ todo = Validators
  /\ commission \in [Validators -> Rewards]
  /\ pending \in [Delegations -> Rewards]
  /\ outstanding = [v \in Validators |->
       commission[v] + SumFunctionOnSet(pending, DelegationsOf(v))]
  /\ pool = 0
  /\ balance = SumFunction(outstanding)
  /\ period \in [Validators -> 1..InitialPeriods]
  /\ start \in [Delegations -> 1..InitialPeriods]
  /\ slashes \in [Validators -> SUBSET (1..InitialPeriods)]
  /\ \A del \in Delegations :
       /\ start[del] < period[del.validator]
       /\ start[del] \notin slashes[del.validator]
       /\ \A other \in DelegationsOf(del.validator) \ {del} : start[other] # start[del]
  /\ \A v \in Validators : \A p \in slashes[v] : p < period[v]
  /\ refs = [v \in Validators |-> [p \in Periods |-> References(v, p)]]
  /\ startHeight = [del \in Delegations |-> "old"]
  /\ jailed \in SUBSET Validators
  /\ heights = [entries |-> "old", validators |-> "old", signingInfos |-> "old"]

-----------------------------------------------------------------------------
(* x/distribution.                                                         *)

WholeCoins(amount) == 2 * (amount \div 2)

\* Reference counts when a period of v ends: the record before it loses the
\* reference of the current period, a new record takes it.
RefsAfterIncrement(v) ==
  [refs[v] EXCEPT ![period[v] - 1] = @ - 1, ![period[v]] = 1]

-----------------------------------------------------------------------------
(* The stages.                                                             *)

\* The loop goes on, or the next stage begins with its own work.
Continue(item, next, work) ==
  \/ /\ todo # {item}
     /\ todo' = todo \ {item}
     /\ UNCHANGED stage
  \/ /\ todo = {item}
     /\ todo' = work
     /\ stage' = next

WithdrawValidatorCommission(v, fails) ==
  LET coins == IF fails THEN 0 ELSE WholeCoins(commission[v])
  IN  /\ stage = "commission"
      /\ v \in todo
      /\ commission' = [commission EXCEPT ![v] = @ - coins]
      /\ outstanding' = [outstanding EXCEPT ![v] = @ - coins]
      /\ balance' = balance - coins
      /\ Continue(v, "rewards", Delegations)
      /\ UNCHANGED <<pending, pool, periodVars, jailed, heights>>

\* A withdrawal that fails changes nothing (its checks precede its writes); the
\* error is ignored.
WithdrawFails(del) ==
  /\ stage = "rewards"
  /\ del \in todo
  /\ Continue(del, "clear", {"records"})
  /\ UNCHANGED <<rewardVars, periodVars, jailed, heights>>

\* The validator's period ends, whole coins are paid out, the rest goes to the
\* community pool and the delegation starts anew.
WithdrawDelegationRewards(del) ==
  LET v == del.validator
      coins == WholeCoins(pending[del])
      ended == [RefsAfterIncrement(v) EXCEPT ![start[del]] = @ - 1]
  IN  /\ stage = "rewards"
      /\ del \in todo
      /\ outstanding' = [outstanding EXCEPT ![v] = @ - pending[del]]
      /\ pending' = [pending EXCEPT ![del] = 0]
      /\ pool' = pool + pending[del] - coins
      /\ balance' = balance - coins
      /\ refs' = [refs EXCEPT ![v] = [ended EXCEPT ![period[v]] = @ + 1]]
      /\ start' = [start EXCEPT ![del] = period[v]]
      /\ period' = [period EXCEPT ![v] = @ + 1]
      /\ Continue(del, "clear", {"records"})
      /\ UNCHANGED <<commission, startHeight, slashes, jailed, heights>>

HistoricalRewardsKept == refs  \* variant: the records are not deleted
HistoricalRewardsDeleted == [v \in Validators |-> [p \in Periods |-> 0]]

\* DeleteAllValidatorSlashEvents and DeleteAllValidatorHistoricalRewards.
ClearRecords ==
  /\ stage = "clear"
  /\ slashes' = [v \in Validators |-> {}]
  /\ refs' = HistoricalRewardsDeleted
  /\ stage' = "validators"
  /\ todo' = Validators
  /\ UNCHANGED <<rewardVars, period, start, startHeight, jailed, heights>>

NothingDonated(v) == pool  \* variant: what is left is not donated

\* What could not be withdrawn goes to the community pool.
Donated(v) == pool + outstanding[v]

PeriodNotReset(v) == period[v]  \* variant: AfterValidatorCreated is not called

\* AfterValidatorCreated starts the validator's records anew at period one.
InitialPeriod(v) == 1

ReinitValidator(v) ==
  /\ stage = "validators"
  /\ v \in todo
  /\ pool' = Donated(v)
  /\ outstanding' = [outstanding EXCEPT ![v] = 0]
  /\ commission' = [commission EXCEPT ![v] = 0]
  /\ pending' = [del \in Delegations |-> IF del.validator = v THEN 0 ELSE pending[del]]
  /\ period' = [period EXCEPT ![v] = InitialPeriod(v)]
  /\ refs' = [refs EXCEPT ![v][0] = 1]
  /\ Continue(v, "delegations", Delegations)
  /\ UNCHANGED <<balance, start, startHeight, slashes, jailed, heights>>

ExportHeight == "old"   \* variant: the context keeps its height
ContextHeight == "zero"

\* BeforeDelegationCreated and AfterDelegationModified, at height zero.
ReinitDelegation(del) ==
  LET v == del.validator
  IN  /\ stage = "delegations"
      /\ del \in todo
      /\ refs' = [refs EXCEPT ![v] =
                    [RefsAfterIncrement(v) EXCEPT ![period[v]] = @ + 1]]
      /\ start' = [start EXCEPT ![del] = period[v]]
      /\ startHeight' = [startHeight EXCEPT ![del] = ContextHeight]
      /\ period' = [period EXCEPT ![v] = @ + 1]
      /\ Continue(del, "entries", {"entries"})
      /\ UNCHANGED <<rewardVars, slashes, jailed, heights>>

\* Redelegations and unbonding delegations.
ResetEntries ==
  /\ stage = "entries"
  /\ heights' = [heights EXCEPT !.entries = "zero"]
  /\ stage' = "staking"
  /\ todo' = Validators
  /\ UNCHANGED <<rewardVars, periodVars, jailed>>

\* Validators that are not on a non-empty list of allowed ones are jailed.
JailedByList == IF Allowed = {} THEN {} ELSE Validators \ Allowed

\* The validator set update refuses a jailed validator that is still in the power
\* index; the loop below jails validators without taking them out of it.  Every
\* validator is taken to be within the maximal number of bonded ones.
SetUpdateFails == JailedByList \ jailed # {}

\* The loop over the validators, its iterator, the validator set update, whose
\* error is a panic, and the signing infos.  If closing the iterator fails, the
\* rest is skipped.
ResetStaking(closeFails) ==
  LET outcome == IF closeFails THEN "cutShort"
                 ELSE IF SetUpdateFails THEN "panicked" ELSE "done"
  IN  /\ stage = "staking"
      /\ jailed' = jailed \cup JailedByList
      /\ heights' = [heights EXCEPT !.validators = "zero",
                       !.signingInfos = IF outcome = "done" THEN "zero" ELSE @]
      /\ stage' = outcome
      /\ todo' = {}
      /\ UNCHANGED <<rewardVars, periodVars>>

Ended == stage \in {"done", "cutShort", "panicked"} /\ UNCHANGED vars

Next ==
  \/ \E v \in Validators :
       \/ \E fails \in BOOLEAN : WithdrawValidatorCommission(v, fails)
       \/ ReinitValidator(v)
  \/ \E del \in Delegations :
       WithdrawFails(del) \/ WithdrawDelegationRewards(del) \/ ReinitDelegation(del)
  \/ ClearRecords
  \/ ResetEntries
  \/ \E closeFails \in BOOLEAN : ResetStaking(closeFails)
  \/ Ended

Spec == Init /\ [][Next]_vars

-----------------------------------------------------------------------------
(* Properties.                                                             *)

\* No coins are created or lost: the module account holds what the validators
\* owe and the community pool, whichever withdrawals fail.
RewardsConserved ==
  balance = pool + SumFunction(outstanding)

\* "never called": no hook or withdrawal panics on a count, which x/distribution
\* does when it takes a reference from a missing record or adds a fourth one.
\* It depends on the records being deleted after the last withdrawal and
\* written anew, with their periods, before the first delegation is.
HooksNeverPanic == \A v \in Validators : \A p \in Periods : refs[v][p] \in 0..3

\* The counts of the exported records are exact, as x/distribution requires of a
\* genesis: one reference per current period and per delegation, no record is
\* left over from the old chain and no slash event refers to one.
ReferencesExact ==
  stage \in {"done", "cutShort"} =>
    \A v \in Validators : \A p \in Periods : refs[v][p] = References(v, p)

\* "prepares for fresh start at zero height": nothing is owed and no height of
\* the old chain is left, although the delegations' records are written with
\* the height of a context that is set to zero and back.
FreshStart ==
  stage = "done" =>
    /\ \A v \in Validators : outstanding[v] = 0 /\ commission[v] = 0
    /\ \A del \in Delegations : startHeight[del] = "zero"
    /\ heights = [entries |-> "zero", validators |-> "zero", signingInfos |-> "zero"]
=============================================================================
