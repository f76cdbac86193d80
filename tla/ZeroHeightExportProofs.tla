----------------------- MODULE ZeroHeightExportProofs -----------------------
(***************************************************************************)
(* Theorems about ZeroHeightExport, for any finite sets of validators and  *)
(* delegations, any rewards, periods, slash events and jailed validators,  *)
(* any order of the loops and any failures of withdrawals.                 *)
(***************************************************************************)
EXTENDS ZeroHeightExport, SumTheorems

Final == {"done", "cutShort", "panicked"}
Later == {"delegations", "entries", "staking"} \cup Final

\* The records are those of the old chain.
Old == stage \in {"commission", "rewards", "clear"}

\* What the rewrite has written anew.
ValidatorRenewed(v) == stage \in Later \/ (stage = "validators" /\ v \notin todo)
DelegationRenewed(del) ==
  stage \in Later /\ (stage = "delegations" => del \notin todo)

\* Validators whose current period has its record, and delegations whose start
\* is one.
Current(v) == Old \/ ValidatorRenewed(v)
Counted(del) == Old \/ DelegationRenewed(del)

Heights == {"old", "zero"}

ExportTypeOK ==
  /\ stage \in {"commission", "rewards", "clear", "validators"} \cup Later
  /\ stage \in {"commission", "validators"} => todo \subseteq Validators
  /\ stage \in {"rewards", "delegations"} => todo \subseteq Delegations
  /\ outstanding \in [ Validators -> Nat ] /\ commission \in [ Validators -> Nat ]
  /\ pending \in [ Delegations -> Nat ]
  /\ pool \in Nat /\ balance \in Int
  /\ period \in [ Validators -> Nat \ {0} ]
  /\ refs \in [ Validators -> [ Periods -> Int ] ]
  /\ start \in [ Delegations -> Nat ]
  /\ startHeight \in [ Delegations -> Heights ]
  /\ slashes \in [ Validators -> SUBSET Nat ]
  /\ heights \in [ entries : Heights, validators : Heights, signingInfos : Heights ]

\* A validator owes its commission and the rewards of its delegations.
DebtExact ==
  \A v \in Validators :
    outstanding[v] = commission[v] + SumFunctionOnSet(pending, DelegationsOf(v))

\* A withdrawal or a hook always finds room for the record of the next period.
PeriodsBounded ==
  \A v \in Validators :
    /\ period[v] <= MaxPeriod
    /\ stage = "commission" => period[v] <= InitialPeriods
    /\ stage = "rewards" =>
         period[v] + Cardinality(todo) <= InitialPeriods + Cardinality(Delegations)
    /\ stage = "validators" /\ v \notin todo => period[v] = 1
    /\ stage = "delegations" =>
         period[v] + Cardinality(todo) <= 1 + Cardinality(Delegations)

\* Starts are past periods, each of one delegation; slash events are of the
\* old chain.
StartsSound ==
  /\ \A del \in Delegations : Counted(del) => start[del] < period[del.validator]
  /\ \A del, other \in Delegations :
       /\ Counted(del) /\ Counted(other)
       /\ del.validator = other.validator /\ start[del] = start[other]
       => del = other
  /\ \A v \in Validators :
       /\ ~Old => slashes[v] = {}
       /\ \A p \in slashes[v] : p < period[v]

\* One if the condition holds.
Unit(condition) == IF condition THEN 1 ELSE 0

\* A delegation of v starts at period p.
StartsAt(v, p) == \E del \in DelegationsOf(v) : Counted(del) /\ start[del] = p

\* Every record has the references it needs at every step.
CountsExact ==
  \A v \in Validators : \A p \in Periods :
    refs[v][p] = Unit(Current(v) /\ p = period[v] - 1)
                   + Unit(StartsAt(v, p)) + Unit(p \in slashes[v])

\* What was written anew is fresh.
RenewedFresh ==
  /\ \A v \in Validators :
       ValidatorRenewed(v) => outstanding[v] = 0 /\ commission[v] = 0
  /\ \A del \in Delegations : DelegationRenewed(del) => startHeight[del] = "zero"
  /\ stage \in {"staking"} \cup Final => heights.entries = "zero"
  /\ stage \in Final => heights.validators = "zero"
  /\ stage = "done" => heights.signingInfos = "zero"

IInv ==
  /\ ExportTypeOK
  /\ DebtExact
  /\ RewardsConserved
  /\ PeriodsBounded
  /\ StartsSound
  /\ CountsExact
  /\ RenewedFresh

-----------------------------------------------------------------------------
(* Constants and loops.                                                    *)

LEMMA ConstantFacts ==
  /\ Cardinality(Delegations) \in Nat /\ InitialPeriods \in Nat \ {0}
  /\ MaxPeriod \in Nat /\ MaxPeriod = InitialPeriods + Cardinality(Delegations) + 1
  /\ 0 \in Periods /\ \A p \in Periods : p \in Nat /\ p <= MaxPeriod
  /\ \A p \in Nat : p <= MaxPeriod => p \in Periods
<1>1. Cardinality(Delegations) \in Nat
  BY ExportAssumption, FS_CardinalityType
<1>2. InitialPeriods \in Nat \ {0}
  BY ExportAssumption
<1>3. MaxPeriod \in Nat /\ MaxPeriod = InitialPeriods + Cardinality(Delegations) + 1
  BY <1>1, <1>2 DEF MaxPeriod
<1> QED
  BY <1>1, <1>2, <1>3 DEF Periods

\* The delegations of a validator.
LEMMA DelegationFacts ==
  /\ \A v : DelegationsOf(v) \subseteq Delegations /\ IsFiniteSet(DelegationsOf(v))
  /\ \A v : \A del \in DelegationsOf(v) : del.validator = v
  /\ \A del \in Delegations :
       del.validator \in Validators /\ del \in DelegationsOf(del.validator)
<1>1. \A v : DelegationsOf(v) \subseteq Delegations
  BY DEF DelegationsOf
<1>2. \A v : IsFiniteSet(DelegationsOf(v))
  BY <1>1, ExportAssumption, FS_Subset
<1> QED
  BY <1>1, <1>2, ExportAssumption DEF DelegationsOf

\* A pass of a loop leaves one element less, or begins the next stage.
LEMMA ContinueFacts ==
  ASSUME NEW S, IsFiniteSet(S), todo \subseteq S, NEW item \in todo, NEW next, NEW work,
         Continue(item, next, work)
  PROVE  /\ \/ stage' = stage /\ todo' = todo \ {item} /\ todo # {item}
            \/ stage' = next /\ todo' = work /\ todo = {item}
         /\ Cardinality(todo) \in Nat /\ Cardinality(todo \ {item}) \in Nat
         /\ Cardinality(todo \ {item}) = Cardinality(todo) - 1
<1>1. IsFiniteSet(todo)
  BY FS_Subset
<1> QED
  BY <1>1, FS_RemoveElement, FS_CardinalityType DEF Continue

-----------------------------------------------------------------------------
(* Coins.                                                                  *)

\* The sums a validator's debt is made of.
LEMMA DebtFacts ==
  ASSUME ExportTypeOK, DebtExact, NEW v \in Validators
  PROVE  /\ SumFunctionOnSet(pending, DelegationsOf(v)) \in Nat
         /\ outstanding[v] \in Nat /\ commission[v] \in Nat
         /\ outstanding[v] = commission[v] + SumFunctionOnSet(pending, DelegationsOf(v))
         /\ SumFunction(outstanding) \in Nat
         /\ \A del \in DelegationsOf(v) :
              pending[del] \in Nat /\ pending[del] <= outstanding[v]
<1>1. \A del \in DelegationsOf(v) : pending[del] \in Nat
  BY DelegationFacts DEF ExportTypeOK
<1>2. IsFiniteSet(DelegationsOf(v))
  BY DelegationFacts
<1>3. SumFunctionOnSet(pending, DelegationsOf(v)) \in Nat
  BY <1>1, <1>2, SumNat
<1>4. outstanding[v] \in Nat /\ commission[v] \in Nat
      /\ outstanding[v] = commission[v] + SumFunctionOnSet(pending, DelegationsOf(v))
  BY DEF ExportTypeOK, DebtExact
<1>5. SumFunction(outstanding) \in Nat
  BY ExportAssumption, FunctionSumNat DEF ExportTypeOK
<1>6. ASSUME NEW del \in DelegationsOf(v)
      PROVE  pending[del] <= outstanding[v]
  <2> DEFINE R == DelegationsOf(v) \ {del}
  <2>1. IsFiniteSet(R) /\ \A x \in R : pending[x] \in Nat
    BY <1>1, <1>2, FS_RemoveElement
  <2>2. SumFunctionOnSet(pending, R) \in Nat
    BY <2>1, SumNat
  <2>3. SumFunctionOnSet(pending, DelegationsOf(v)) = pending[del] + SumFunctionOnSet(pending, R)
    BY <1>1, <1>2, SumRemove
  <2> HIDE DEF R
  <2> QED
    BY <1>1, <1>4, <2>2, <2>3
<1> QED
  BY <1>1, <1>3, <1>4, <1>5, <1>6

\* A validator's debt falls by an amount.
LEMMA DebtFalls ==
  ASSUME ExportTypeOK, NEW v \in Validators, NEW n \in Nat, n <= outstanding[v],
         outstanding' = [ outstanding EXCEPT ![v] = @ - n ]
  PROVE  /\ outstanding' \in [ Validators -> Nat ]
         /\ outstanding'[v] = outstanding[v] - n
         /\ \A w \in Validators : w # v => outstanding'[w] = outstanding[w]
         /\ SumFunction(outstanding') = SumFunction(outstanding) - n
<1>1. outstanding \in [ Validators -> Nat ]
  BY DEF ExportTypeOK
<1>2. /\ outstanding' \in [ Validators -> Nat ]
      /\ outstanding'[v] = outstanding[v] - n
      /\ \A w \in Validators : w # v => outstanding'[w] = outstanding[w]
  BY <1>1
<1>3. SumFunction(outstanding')
        = SumFunction(outstanding) - outstanding[v] + outstanding'[v]
  <2>1. IsFiniteSet(Validators)
    BY ExportAssumption
  <2> QED
    BY ONLY <1>1, <1>2, <2>1, v \in Validators, FunctionSumUpdate
<1>4. SumFunction(outstanding) \in Nat
  BY <1>1, ExportAssumption, FunctionSumNat
<1> QED
  BY <1>1, <1>2, <1>3, <1>4

\* Whole coins are part of an amount.
LEMMA WholeCoinsFacts ==
  ASSUME NEW amount \in Nat
  PROVE  WholeCoins(amount) \in Nat /\ WholeCoins(amount) <= amount
BY DEF WholeCoins

-----------------------------------------------------------------------------
(* Steps that leave the records alone.                                     *)

LEMMA RecordsKept ==
  ASSUME IInv, UNCHANGED periodVars, Old' <=> Old,
         \A v \in Validators : Current(v)' <=> Current(v),
         \A del \in Delegations : Counted(del)' <=> Counted(del)
  PROVE  StartsSound' /\ CountsExact'
<1>1. UNCHANGED <<period, refs, start, slashes>>
  BY DEF periodVars
<1>2. StartsSound'
  BY <1>1 DEF IInv, StartsSound
<1>3. \A v \in Validators, p \in Periods : StartsAt(v, p)' <=> StartsAt(v, p)
  BY <1>1, DelegationFacts DEF StartsAt
<1>4. CountsExact'
  BY <1>1, <1>3 DEF IInv, CountsExact, Unit
<1> QED
  BY <1>2, <1>4

\* At most one delegation starts at a period.
LEMMA CountOne ==
  ASSUME StartsSound, \A del \in Delegations : Counted(del), NEW v \in Validators, NEW p
  PROVE  Cardinality({del \in DelegationsOf(v) : start[del] = p}) = Unit(StartsAt(v, p))
<1> DEFINE S == {del \in DelegationsOf(v) : start[del] = p}
<1>1. CASE StartsAt(v, p)
  <2>1. PICK del \in DelegationsOf(v) : start[del] = p
    BY <1>1 DEF StartsAt
  <2>2. ASSUME NEW other \in DelegationsOf(v), start[other] = p PROVE other = del
    BY <2>1, <2>2, DelegationFacts DEF StartsSound
  <2>3. S = {del}
    BY <2>1, <2>2
  <2> QED
    BY <1>1, <2>3, FS_Singleton DEF Unit
<1>2. CASE ~StartsAt(v, p)
  <2>1. S = {}
    BY <1>2, DelegationFacts DEF StartsAt
  <2> QED
    BY <1>2, <2>1, FS_EmptySet DEF Unit
<1> QED
  BY <1>1, <1>2

\* A running chain.
LEMMA InitIInv == Init => IInv
<1> SUFFICES ASSUME Init PROVE IInv
  OBVIOUS
<1>1. /\ stage = "commission" /\ todo = Validators
      /\ commission \in [Validators -> Nat] /\ pending \in [Delegations -> Nat]
      /\ period \in [Validators -> Nat \ {0}] /\ start \in [Delegations -> Nat]
      /\ slashes \in [Validators -> SUBSET Nat]
      /\ \A v \in Validators : period[v] <= InitialPeriods
  BY ExportAssumption DEF Init
<1>2. Old /\ \A del \in Delegations : Counted(del)
  BY <1>1 DEF Old, Counted
<1>3. \A v \in Validators : Current(v) /\ ~ValidatorRenewed(v)
  BY <1>1 DEF Old, Current, ValidatorRenewed, Later, Final
<1>4. \A del \in Delegations : ~DelegationRenewed(del)
  BY <1>1 DEF DelegationRenewed, Later, Final
<1>5. outstanding = [v \in Validators |->
        commission[v] + SumFunctionOnSet(pending, DelegationsOf(v))]
  BY DEF Init
<1>6. ASSUME NEW v \in Validators
      PROVE  SumFunctionOnSet(pending, DelegationsOf(v)) \in Nat
  <2>1. \A del \in DelegationsOf(v) : pending[del] \in Nat
    BY <1>1, DelegationFacts
  <2> QED
    BY <2>1, DelegationFacts, SumNat
<1>7. outstanding \in [Validators -> Nat]
  BY <1>1, <1>5, <1>6
<1>8. SumFunction(outstanding) \in Nat
  BY <1>7, ExportAssumption, FunctionSumNat
<1>9. DebtExact
  BY <1>5 DEF DebtExact
<1>10. RewardsConserved
  BY <1>8 DEF Init, RewardsConserved
<1>11. PeriodsBounded
  BY <1>1, ConstantFacts DEF PeriodsBounded
<1>12. StartsSound
  <2>1. \A del \in Delegations : start[del] < period[del.validator]
    BY DEF Init
  <2>2. ASSUME NEW del \in Delegations, NEW other \in Delegations,
               del.validator = other.validator, start[del] = start[other]
        PROVE  del = other
    BY <2>2 DEF Init, DelegationsOf
  <2>3. \A v \in Validators : \A p \in slashes[v] : p < period[v]
    BY DEF Init
  <2> QED
    BY <1>2, <2>1, <2>2, <2>3 DEF StartsSound
<1>13. refs = [v \in Validators |-> [p \in Periods |-> References(v, p)]]
  BY DEF Init
<1>14. ASSUME NEW v \in Validators, NEW p \in Periods
       PROVE  refs[v][p] = Unit(Current(v) /\ p = period[v] - 1)
                             + Unit(StartsAt(v, p)) + Unit(p \in slashes[v])
  <2>1. refs[v][p] = References(v, p)
    BY <1>13
  <2>2. Cardinality({del \in DelegationsOf(v) : start[del] = p}) = Unit(StartsAt(v, p))
    BY <1>2, <1>12, CountOne
  <2> QED
    BY <1>3, <2>1, <2>2 DEF References, Unit
<1>15. CountsExact
  BY <1>14 DEF CountsExact
<1>16. refs \in [Validators -> [Periods -> Int]]
  <2>1. \A v \in Validators, p \in Periods : refs[v][p] \in Int
    BY <1>14 DEF Unit
  <2> QED
    BY <1>13, <2>1
<1>17. ExportTypeOK
  BY <1>1, <1>7, <1>8, <1>16 DEF Init, ExportTypeOK, Heights, Later, Final
<1>18. RenewedFresh
  BY <1>1, <1>3, <1>4 DEF RenewedFresh, Final
<1> QED
  BY <1>9, <1>10, <1>11, <1>12, <1>15, <1>17, <1>18 DEF IInv

-----------------------------------------------------------------------------
(* The stages.                                                             *)

\* Coins leave the module account and the debt alike.
LEMMA CommissionIInv ==
  ASSUME IInv, NEW v \in Validators, NEW fails \in BOOLEAN,
         WithdrawValidatorCommission(v, fails)
  PROVE  IInv'
<1> DEFINE coins == IF fails THEN 0 ELSE WholeCoins(commission[v])
<1>1. /\ stage = "commission" /\ v \in todo
      /\ commission' = [commission EXCEPT ![v] = @ - coins]
      /\ outstanding' = [outstanding EXCEPT ![v] = @ - coins]
      /\ balance' = balance - coins
      /\ Continue(v, "rewards", Delegations)
      /\ UNCHANGED <<pending, pool, periodVars, jailed, heights>>
  BY DEF WithdrawValidatorCommission
<1>2. ExportTypeOK /\ DebtExact /\ RewardsConserved /\ PeriodsBounded
  BY DEF IInv
<1>3. coins \in Nat /\ coins <= commission[v]
  BY <1>2, WholeCoinsFacts DEF ExportTypeOK
<1> HIDE DEF coins
<1>4. /\ \/ stage' = "commission" /\ todo' = todo \ {v}
         \/ stage' = "rewards" /\ todo' = Delegations
      /\ todo \subseteq Validators
  BY <1>1, <1>2, ExportAssumption, ContinueFacts DEF ExportTypeOK
<1>5. Old /\ Old'
  BY <1>1, <1>4 DEF Old
<1>6. coins <= outstanding[v] /\ commission[v] \in Nat /\ outstanding[v] \in Nat
  BY <1>2, <1>3, DebtFacts
<1>7. /\ outstanding' \in [ Validators -> Nat ]
      /\ outstanding'[v] = outstanding[v] - coins
      /\ \A w \in Validators : w # v => outstanding'[w] = outstanding[w]
      /\ SumFunction(outstanding') = SumFunction(outstanding) - coins
  BY <1>1, <1>2, <1>3, <1>6, DebtFalls
<1>8. /\ commission' \in [ Validators -> Nat ]
      /\ commission'[v] = commission[v] - coins
      /\ \A w \in Validators : w # v => commission'[w] = commission[w]
  BY <1>1, <1>2, <1>3, <1>6 DEF ExportTypeOK
<1>9. DebtExact'
  <2>1. ASSUME NEW w \in Validators
        PROVE  outstanding'[w] = commission'[w] + SumFunctionOnSet(pending, DelegationsOf(w))
    BY <1>2, <1>3, <1>7, <1>8, DebtFacts
  <2>2. pending' = pending
    BY <1>1
  <2> QED
    BY <2>1, <2>2 DEF DebtExact
<1>10. RewardsConserved'
  BY <1>1, <1>2, <1>3, <1>7, DebtFacts DEF RewardsConserved, ExportTypeOK
<1>11. PeriodsBounded'
  <2>1. period' = period /\ \A w \in Validators : period[w] <= InitialPeriods /\ period[w] <= MaxPeriod
        /\ period[w] \in Nat
    BY <1>1, <1>2 DEF PeriodsBounded, periodVars, ExportTypeOK
  <2> QED
    BY <1>4, <2>1, ConstantFacts DEF PeriodsBounded
<1>12. ExportTypeOK'
  BY <1>1, <1>2, <1>3, <1>4, <1>7, <1>8 DEF ExportTypeOK, periodVars
<1>13. StartsSound' /\ CountsExact'
  BY <1>1, <1>5, RecordsKept DEF Current, Counted
<1>14. RenewedFresh'
  BY <1>4 DEF RenewedFresh, ValidatorRenewed, DelegationRenewed, Later, Final
<1> QED
  BY <1>9, <1>10, <1>11, <1>12, <1>13, <1>14 DEF IInv

\* The loop over the delegations of the old chain.
LEMMA RewardsLoop ==
  ASSUME IInv, stage = "rewards", NEW del \in Delegations, del \in todo,
         Continue(del, "clear", {"records"})
  PROVE  /\ \/ stage' = "rewards" /\ todo' = todo \ {del}
            \/ stage' = "clear"
         /\ todo \subseteq Delegations /\ Old /\ Old' /\ RenewedFresh'
         /\ Cardinality(todo) \in Nat
         /\ Cardinality(todo \ {del}) = Cardinality(todo) - 1
         /\ \A v \in Validators :
              period[v] + Cardinality(todo) <= InitialPeriods + Cardinality(Delegations)
<1>1. ExportTypeOK /\ PeriodsBounded
  BY DEF IInv
<1>2. todo \subseteq Delegations /\ IsFiniteSet(Delegations)
  BY <1>1, ExportAssumption DEF ExportTypeOK
<1>3. /\ \/ stage' = "rewards" /\ todo' = todo \ {del}
         \/ stage' = "clear"
      /\ Cardinality(todo) \in Nat
      /\ Cardinality(todo \ {del}) = Cardinality(todo) - 1
  BY <1>2, ContinueFacts
<1>4. Old /\ Old'
  BY <1>3 DEF Old
<1>5. RenewedFresh'
  BY <1>3 DEF RenewedFresh, ValidatorRenewed, DelegationRenewed, Later, Final
<1> QED
  BY <1>1, <1>2, <1>3, <1>4, <1>5 DEF PeriodsBounded

\* Nothing changes but the loop.
LEMMA FailsIInv ==
  ASSUME IInv, NEW del \in Delegations, WithdrawFails(del) PROVE IInv'
<1>1. /\ stage = "rewards" /\ del \in todo /\ Continue(del, "clear", {"records"})
      /\ UNCHANGED <<rewardVars, periodVars, jailed, heights>>
  BY DEF WithdrawFails
<1>2. /\ \/ stage' = "rewards" /\ todo' = todo \ {del}
         \/ stage' = "clear"
      /\ todo \subseteq Delegations /\ Old /\ Old' /\ RenewedFresh'
      /\ Cardinality(todo) \in Nat
      /\ Cardinality(todo \ {del}) = Cardinality(todo) - 1
      /\ \A v \in Validators :
           period[v] + Cardinality(todo) <= InitialPeriods + Cardinality(Delegations)
  BY <1>1, RewardsLoop
<1>3. ExportTypeOK /\ DebtExact /\ RewardsConserved /\ PeriodsBounded
  BY DEF IInv
<1>4. ExportTypeOK'
  BY <1>1, <1>2, <1>3 DEF ExportTypeOK, rewardVars, periodVars, Later
<1>5. DebtExact' /\ RewardsConserved'
  BY <1>1, <1>3 DEF DebtExact, RewardsConserved, rewardVars
<1>6. PeriodsBounded'
  <2>1. period' = period /\ \A v \in Validators : period[v] <= MaxPeriod /\ period[v] \in Nat
    BY <1>1, <1>3 DEF PeriodsBounded, periodVars, ExportTypeOK
  <2> QED
    BY <1>2, <2>1, ConstantFacts DEF PeriodsBounded
<1>7. StartsSound' /\ CountsExact'
  BY <1>1, <1>2, RecordsKept DEF Current, Counted
<1> QED
  BY <1>2, <1>4, <1>5, <1>6, <1>7 DEF IInv

\* The current period of a delegation's validator ends, and the delegation starts
\* at the record it leaves behind.
Restarts(del, n) ==
  /\ n = period[del.validator]
  /\ Old' <=> Old
  /\ slashes' = slashes
  /\ \A v \in Validators : Current(v) /\ Current(v)'
  /\ \A other \in Delegations : other # del => (Counted(other)' <=> Counted(other))
  /\ Counted(del)'
  /\ start' = [start EXCEPT ![del] = n]
  /\ period' = [period EXCEPT ![del.validator] = @ + 1]

\* Starts stay past periods, each of one delegation.
LEMMA StartMoves ==
  ASSUME IInv, NEW del \in Delegations, NEW n, Restarts(del, n)
  PROVE  /\ start' \in [Delegations -> Nat] /\ period' \in [Validators -> Nat \ {0}]
         /\ n \in Nat \ {0} /\ n \notin slashes[del.validator]
         /\ period'[del.validator] = n + 1
         /\ \A v \in Validators : v # del.validator => period'[v] = period[v]
         /\ StartsSound'
         /\ \A v \in Validators, p \in Periods : v # del.validator =>
              (StartsAt(v, p)' <=> StartsAt(v, p))
         /\ StartsAt(del.validator, n)'
         /\ \A p \in Periods : p # n =>
              (StartsAt(del.validator, p)' <=>
                 StartsAt(del.validator, p) /\ ~(Counted(del) /\ start[del] = p))
<1> DEFINE w == del.validator
<1>1. w \in Validators /\ del \in DelegationsOf(w)
  BY DelegationFacts
<1>2. ExportTypeOK /\ StartsSound
  BY DEF IInv
<1>3. n \in Nat \ {0} /\ start \in [Delegations -> Nat] /\ period \in [Validators -> Nat \ {0}]
  BY <1>1, <1>2 DEF ExportTypeOK, Restarts
<1>4. /\ n = period[w] /\ slashes' = slashes /\ Counted(del)'
       /\ start' = [start EXCEPT ![del] = n] /\ period' = [period EXCEPT ![w] = @ + 1]
  BY DEF Restarts
<1>5. Old' <=> Old
  BY DEF Restarts
<1> HIDE DEF w
<1>6. /\ start' \in [Delegations -> Nat] /\ start'[del] = n
      /\ \A other \in Delegations : other # del => start'[other] = start[other]
  BY <1>3, <1>4
<1>7. /\ period' \in [Validators -> Nat \ {0}] /\ period'[w] = n + 1
      /\ \A v \in Validators : v # w => period'[v] = period[v]
  BY <1>1, <1>3, <1>4
<1>8. \A other \in Delegations : other # del => (Counted(other)' <=> Counted(other))
  BY DEF Restarts
<1>9. n \notin slashes[w]
  BY <1>1, <1>2, <1>3, <1>4 DEF StartsSound
<1>10. ASSUME NEW other \in Delegations, other # del, Counted(other), other.validator = w
      PROVE  start[other] < n
  BY <1>2, <1>10, <1>4 DEF StartsSound
<1>11. StartsSound'
  <2>1. ASSUME NEW d \in Delegations, Counted(d)'
        PROVE  start'[d] < period'[d.validator]
    <3>1. CASE d = del
      BY <1>3, <1>6, <1>7, <3>1 DEF w
    <3>2. CASE d # del
      <4>1. start'[d] = start[d] /\ start[d] < period[d.validator]
        BY <1>2, <1>6, <1>8, <2>1, <3>2 DEF StartsSound
      <4>2. d.validator \in Validators
        BY DelegationFacts
      <4>3. period'[d.validator] = period[d.validator]
            \/ (d.validator = w /\ period'[d.validator] = n + 1 /\ period[d.validator] = n)
        BY <1>7, <1>4, <4>2
      <4>4. start[d] \in Nat
        BY <1>3
      <4> QED
        BY <1>3, <4>1, <4>3, <4>4
    <3> QED
      BY <3>1, <3>2
  <2>2. ASSUME NEW d \in Delegations, NEW e \in Delegations, Counted(d)', Counted(e)',
               d.validator = e.validator, start'[d] = start'[e]
        PROVE  d = e
    <3>1. CASE d # del /\ e # del
      BY <1>2, <1>6, <1>8, <2>2, <3>1 DEF StartsSound
    <3>2. CASE d = del /\ e # del
      <4>1. start[e] < n /\ start[e] = n
        BY <1>6, <1>8, <1>10, <2>2, <3>2 DEF w
      <4> QED
        BY <1>3, <4>1
    <3>3. CASE d # del /\ e = del
      <4>1. start[d] < n /\ start[d] = n
        BY <1>6, <1>8, <1>10, <2>2, <3>3 DEF w
      <4> QED
        BY <1>3, <4>1
    <3> QED
      BY <3>1, <3>2, <3>3
  <2>3. ASSUME NEW v \in Validators
        PROVE  (~Old' => slashes'[v] = {}) /\ \A p \in slashes'[v] : p < period'[v]
    <3>1. (~Old => slashes[v] = {}) /\ \A p \in slashes[v] : p < period[v] /\ p \in Nat
      BY <1>2 DEF StartsSound, ExportTypeOK
    <3>2. period'[v] = period[v] \/ (period[v] = n /\ period'[v] = n + 1)
      BY <1>7, <1>4
    <3> QED
      BY <1>3, <1>4, <1>5, <3>1, <3>2
  <2> QED
    BY <2>1, <2>2, <2>3 DEF StartsSound
<1>12. ASSUME NEW v \in Validators, NEW p \in Periods, v # w
       PROVE  StartsAt(v, p)' <=> StartsAt(v, p)
  <2>1. \A d \in DelegationsOf(v) : d \in Delegations /\ d # del
    BY <1>12, DelegationFacts DEF w
  <2>2. \A d \in DelegationsOf(v) :
          (Counted(d)' <=> Counted(d)) /\ start'[d] = start[d]
    BY <1>6, <1>8, <2>1
  <2> QED
    BY <2>2 DEF StartsAt
<1>13. StartsAt(w, n)'
  BY <1>1, <1>6, <1>4 DEF StartsAt
<1>14. ASSUME NEW p \in Periods, p # n
       PROVE  StartsAt(w, p)' <=> StartsAt(w, p) /\ ~(Counted(del) /\ start[del] = p)
  <2>1. \A d \in DelegationsOf(w) : d \in Delegations /\ d.validator = w
    BY DelegationFacts
  <2>2. ASSUME StartsAt(w, p)'
        PROVE  StartsAt(w, p) /\ ~(Counted(del) /\ start[del] = p)
    <3>1. PICK d \in DelegationsOf(w) : Counted(d)' /\ start'[d] = p
      BY <2>2 DEF StartsAt
    <3>2. d # del /\ d \in Delegations
      BY <1>6, <1>14, <2>1, <3>1
    <3>3. Counted(d) /\ start[d] = p
      BY <1>6, <1>8, <3>1, <3>2
    <3>4. ~(Counted(del) /\ start[del] = p)
      BY <1>2, <2>1, <3>2, <3>3 DEF StartsSound, w
    <3> QED
      BY <3>3, <3>4 DEF StartsAt
  <2>3. ASSUME StartsAt(w, p), ~(Counted(del) /\ start[del] = p)
        PROVE  StartsAt(w, p)'
    <3>1. PICK d \in DelegationsOf(w) : Counted(d) /\ start[d] = p
      BY <2>3 DEF StartsAt
    <3>2. d # del /\ d \in Delegations
      BY <2>1, <2>3, <3>1
    <3>3. Counted(d)' /\ start'[d] = p
      BY <1>6, <1>8, <3>1, <3>2
    <3> QED
      BY <3>3 DEF StartsAt
  <2> QED
    BY <2>2, <2>3
<1> QED
  BY <1>3, <1>6, <1>7, <1>9, <1>11, <1>12, <1>13, <1>14 DEF w

\* The counts follow: the new record has two references, the record before it
\* and the one the delegation started at lose one each.
RefsMove(del, n) ==
  /\ refs' \in [Validators -> [Periods -> Int]]
  /\ \A v \in Validators : v # del.validator => refs'[v] = refs[v]
  /\ \A p \in Periods :
       refs'[del.validator][p] =
         IF p = n THEN 2
         ELSE refs[del.validator][p] - Unit(p = n - 1) - Unit(Counted(del) /\ start[del] = p)

LEMMA CountsMove ==
  ASSUME IInv, NEW del \in Delegations, NEW n, Restarts(del, n), RefsMove(del, n)
  PROVE  CountsExact'
<1> DEFINE w == del.validator
<1>1. w \in Validators /\ del \in DelegationsOf(w)
  BY DelegationFacts
<1>2. /\ n \in Nat \ {0} /\ n \notin slashes[w] /\ period'[w] = n + 1
      /\ \A v \in Validators : v # w => period'[v] = period[v]
      /\ \A v \in Validators, p \in Periods : v # w => (StartsAt(v, p)' <=> StartsAt(v, p))
      /\ StartsAt(w, n)'
      /\ \A p \in Periods : p # n =>
           (StartsAt(w, p)' <=> StartsAt(w, p) /\ ~(Counted(del) /\ start[del] = p))
  BY StartMoves
<1>3. ExportTypeOK /\ CountsExact
  BY DEF IInv
<1>4. \A v \in Validators : v # w => refs'[v] = refs[v]
  BY DEF RefsMove
<1>5. \A v \in Validators : Current(v) /\ Current(v)'
  BY DEF Restarts
<1>6. n = period[w] /\ slashes' = slashes
  BY DEF Restarts
<1>7. \A p \in Periods : p \in Nat
  BY ConstantFacts
<1>8. \A p \in Periods :
        refs'[w][p] = IF p = n THEN 2
                      ELSE refs[w][p] - Unit(p = n - 1) - Unit(Counted(del) /\ start[del] = p)
  BY DEF RefsMove
<1> HIDE DEF w
<1>9. ASSUME NEW v \in Validators, NEW p \in Periods
       PROVE  refs'[v][p] = Unit(Current(v)' /\ p = period'[v] - 1)
                              + Unit(StartsAt(v, p)') + Unit(p \in slashes'[v])
  <2>1. refs[v][p] = Unit(Current(v) /\ p = period[v] - 1)
                       + Unit(StartsAt(v, p)) + Unit(p \in slashes[v])
    BY <1>3 DEF CountsExact
  <2>2. CASE v # w
    BY <1>2, <1>4, <1>5, <1>6, <2>1, <2>2 DEF Unit
  <2>3. CASE v = w /\ p = n
    <3>1. refs'[v][p] = 2 /\ p = period'[v] - 1
      BY <1>2, <1>4, <1>8, <2>3
    <3>2. StartsAt(v, p)' /\ p \notin slashes'[v]
      BY <1>2, <1>6, <2>3
    <3> QED
      BY <1>5, <3>1, <3>2 DEF Unit
  <2>4. CASE v = w /\ p # n
    <3>1. refs'[v][p] = refs[v][p] - Unit(p = n - 1) - Unit(Counted(del) /\ start[del] = p)
      BY <1>4, <1>8, <2>4
    <3>2. StartsAt(v, p)' <=> StartsAt(v, p) /\ ~(Counted(del) /\ start[del] = p)
      BY <1>2, <2>4
    <3>3. Counted(del) /\ start[del] = p => StartsAt(v, p)
      BY <1>1, <2>4 DEF StartsAt
    <3>4. p # period'[v] - 1
      BY <1>2, <1>7, <2>4
    <3>5. refs[v][p] = Unit(p = n - 1) + Unit(StartsAt(v, p)) + Unit(p \in slashes[v])
      BY <1>5, <1>6, <2>1, <2>4 DEF Unit
    <3>6. Unit(StartsAt(v, p)')
            = Unit(StartsAt(v, p)) - Unit(Counted(del) /\ start[del] = p)
      BY <3>2, <3>3 DEF Unit
    <3>7. Unit(Current(v)' /\ p = period'[v] - 1) = 0 /\ slashes'[v] = slashes[v]
      BY <1>6, <3>4 DEF Unit
    <3>8. \A c : Unit(c) \in Int
      BY DEF Unit
    <3> QED
      BY ONLY <3>1, <3>5, <3>6, <3>7, <3>8
  <2> QED
    BY <2>2, <2>3, <2>4
<1> QED
  BY <1>9 DEF CountsExact

\* The rewards of a delegation are paid in whole coins, the rest is donated.
LEMMA RewardsPaid ==
  ASSUME IInv, NEW del \in Delegations, WithdrawDelegationRewards(del)
  PROVE  /\ outstanding' \in [ Validators -> Nat ] /\ pending' \in [ Delegations -> Nat ]
         /\ pool' \in Nat /\ balance' \in Int
         /\ DebtExact' /\ RewardsConserved'
<1> DEFINE w == del.validator
           coins == WholeCoins(pending[del])
<1>1. ExportTypeOK /\ DebtExact /\ RewardsConserved
  BY DEF IInv
<1>2. /\ outstanding' = [outstanding EXCEPT ![w] = @ - pending[del]]
      /\ pending' = [pending EXCEPT ![del] = 0]
      /\ pool' = pool + pending[del] - coins
      /\ balance' = balance - coins
      /\ commission' = commission
  BY DEF WithdrawDelegationRewards
<1>3. w \in Validators /\ del \in DelegationsOf(w)
  BY DelegationFacts
<1>4. pending[del] \in Nat /\ pending[del] <= outstanding[w] /\ pending \in [Delegations -> Nat]
  BY <1>1, <1>3, DebtFacts DEF ExportTypeOK
<1>5. coins \in Nat /\ coins <= pending[del]
  BY <1>4, WholeCoinsFacts
<1> HIDE DEF w, coins
<1>6. /\ outstanding' \in [ Validators -> Nat ]
      /\ outstanding'[w] = outstanding[w] - pending[del]
      /\ \A v \in Validators : v # w => outstanding'[v] = outstanding[v]
      /\ SumFunction(outstanding') = SumFunction(outstanding) - pending[del]
  BY <1>1, <1>2, <1>3, <1>4, DebtFalls
<1>7. /\ pending' \in [ Delegations -> Nat ] /\ pending'[del] = 0
      /\ \A d \in Delegations : d # del => pending'[d] = pending[d]
  BY <1>2, <1>4
<1>8. pool \in Nat /\ balance \in Int /\ pool' \in Nat /\ balance' \in Int
  BY <1>1, <1>2, <1>4, <1>5 DEF ExportTypeOK
<1>9. RewardsConserved'
  <2>1. balance = pool + SumFunction(outstanding) /\ SumFunction(outstanding) \in Nat
    BY <1>1, <1>3, DebtFacts DEF RewardsConserved
  <2>2. balance' = pool' + SumFunction(outstanding')
    BY <1>2, <1>4, <1>5, <1>6, <1>8, <2>1
  <2> QED
    BY <2>2 DEF RewardsConserved
<1>10. ASSUME NEW v \in Validators
       PROVE  outstanding'[v] = commission'[v] + SumFunctionOnSet(pending', DelegationsOf(v))
  <2>1. /\ outstanding[v] = commission[v] + SumFunctionOnSet(pending, DelegationsOf(v))
        /\ SumFunctionOnSet(pending, DelegationsOf(v)) \in Nat
        /\ commission[v] \in Nat /\ outstanding[v] \in Nat
    BY <1>1, DebtFacts
  <2>2. IsFiniteSet(DelegationsOf(v))
    BY DelegationFacts
  <2>3. \A d \in DelegationsOf(v) : pending[d] \in Nat /\ pending'[d] \in Nat
    BY <1>4, <1>7, DelegationFacts
  <2>4. CASE v = w
    <3>1. \A d \in DelegationsOf(v) : d # del => pending'[d] = pending[d]
      BY <1>7, DelegationFacts
    <3>2. del \in DelegationsOf(v)
      BY <1>3, <2>4
    <3>3. SumFunctionOnSet(pending', DelegationsOf(v))
            = SumFunctionOnSet(pending, DelegationsOf(v)) - pending[del] + pending'[del]
      BY ONLY <2>2, <2>3, <3>1, <3>2, SumUpdate
    <3> QED
      BY <1>2, <1>4, <1>6, <1>7, <2>1, <2>4, <3>3
  <2>5. CASE v # w
    <3>1. \A d \in DelegationsOf(v) : pending[d] \in Nat /\ pending'[d] = pending[d]
      BY <1>7, <2>3, <2>5, DelegationFacts DEF w
    <3>2. SumFunctionOnSet(pending', DelegationsOf(v)) = SumFunctionOnSet(pending, DelegationsOf(v))
      BY ONLY <2>2, <3>1, SumSame
    <3> QED
      BY <1>2, <1>6, <2>1, <2>5, <3>2
  <2> QED
    BY <2>4, <2>5
<1>11. DebtExact'
  BY <1>10 DEF DebtExact
<1> QED
  BY <1>6, <1>7, <1>8, <1>9, <1>11

\* The counts after a period ends.
LEMMA IncrementFacts ==
  ASSUME ExportTypeOK, PeriodsBounded, NEW v \in Validators, NEW n, n = period[v]
  PROVE  /\ n \in Nat \ {0} /\ n \in Periods /\ n - 1 \in Periods
         /\ RefsAfterIncrement(v) \in [Periods -> Int] /\ RefsAfterIncrement(v)[n] = 1
         /\ \A p \in Periods : p # n =>
              RefsAfterIncrement(v)[p] = refs[v][p] - Unit(p = n - 1)
<1> DEFINE c == [refs[v] EXCEPT ![n - 1] = @ - 1]
           a == [c EXCEPT ![n] = 1]
<1>1. n \in Nat \ {0} /\ n <= MaxPeriod /\ refs[v] \in [Periods -> Int]
  BY DEF ExportTypeOK, PeriodsBounded
<1>2. n \in Periods /\ n - 1 \in Periods
  BY <1>1, ConstantFacts
<1>3. c \in [Periods -> Int] /\ \A p \in Periods : c[p] = refs[v][p] - Unit(p = n - 1)
  BY <1>1, <1>2 DEF Unit
<1>4. RefsAfterIncrement(v) = a
  BY DEF RefsAfterIncrement
<1> HIDE DEF c
<1>5. a \in [Periods -> Int] /\ a[n] = 1 /\ \A p \in Periods : p # n => a[p] = c[p]
  BY <1>2, <1>3
<1> HIDE DEF a
<1> QED
  BY <1>1, <1>2, <1>3, <1>4, <1>5

LEMMA WithdrawIInv ==
  ASSUME IInv, NEW del \in Delegations, WithdrawDelegationRewards(del) PROVE IInv'
<1> DEFINE w == del.validator
           n == period[w]
           a == RefsAfterIncrement(w)
           b == [a EXCEPT ![start[del]] = @ - 1]
           moved == [b EXCEPT ![n] = @ + 1]
<1>1. /\ stage = "rewards" /\ del \in todo /\ Continue(del, "clear", {"records"})
      /\ refs' = [refs EXCEPT ![w] = moved]
      /\ start' = [start EXCEPT ![del] = n]
      /\ period' = [period EXCEPT ![w] = @ + 1]
      /\ UNCHANGED <<commission, startHeight, slashes, jailed, heights>>
  BY DEF WithdrawDelegationRewards
<1>2. /\ \/ stage' = "rewards" /\ todo' = todo \ {del}
         \/ stage' = "clear"
      /\ todo \subseteq Delegations /\ Old /\ Old' /\ RenewedFresh'
      /\ Cardinality(todo) \in Nat
      /\ Cardinality(todo \ {del}) = Cardinality(todo) - 1
      /\ \A v \in Validators :
           period[v] + Cardinality(todo) <= InitialPeriods + Cardinality(Delegations)
  BY <1>1, RewardsLoop
<1>3. ExportTypeOK /\ PeriodsBounded /\ StartsSound
  BY DEF IInv
<1>4. /\ outstanding' \in [ Validators -> Nat ] /\ pending' \in [ Delegations -> Nat ]
      /\ pool' \in Nat /\ balance' \in Int
      /\ DebtExact' /\ RewardsConserved'
  BY RewardsPaid
<1>5. Restarts(del, n)
  BY <1>1, <1>2 DEF Restarts, Current, Counted
<1>6. w \in Validators
  BY DelegationFacts
<1>7. /\ n \in Nat \ {0} /\ start[del] \in Nat /\ start[del] < n
      /\ n <= MaxPeriod /\ refs[w] \in [Periods -> Int]
  BY <1>2, <1>3, <1>6 DEF ExportTypeOK, PeriodsBounded, StartsSound, Counted
<1>8. /\ n \in Periods /\ a \in [Periods -> Int] /\ a[n] = 1
      /\ \A p \in Periods : p # n => a[p] = refs[w][p] - Unit(p = n - 1)
  BY <1>3, <1>6, IncrementFacts
<1>9. start[del] \in Periods
  BY <1>7, ConstantFacts
<1>10. refs \in [Validators -> [Periods -> Int]]
  BY <1>3 DEF ExportTypeOK
<1> HIDE DEF a, n, w
<1>11. /\ b \in [Periods -> Int] /\ b[n] = 1
       /\ \A p \in Periods : p # n => b[p] = a[p] - Unit(start[del] = p)
  BY <1>7, <1>8, <1>9 DEF Unit
<1> HIDE DEF b
<1>12. /\ moved \in [Periods -> Int] /\ moved[n] = 2
       /\ \A p \in Periods : p # n => moved[p] = b[p]
  BY <1>8, <1>11
<1> HIDE DEF moved
<1>13. /\ refs' \in [Validators -> [Periods -> Int]] /\ refs'[w] = moved
       /\ \A v \in Validators : v # w => refs'[v] = refs[v]
  BY <1>1, <1>6, <1>10, <1>12
<1>14. RefsMove(del, n)
  <2>1. Counted(del)
    BY <1>2 DEF Counted
  <2>2. ASSUME NEW p \in Periods
        PROVE  refs'[w][p] = IF p = n THEN 2
                 ELSE refs[w][p] - Unit(p = n - 1) - Unit(Counted(del) /\ start[del] = p)
    BY <1>8, <1>11, <1>12, <1>13, <2>1 DEF Unit
  <2> QED
    BY <1>13, <2>2 DEF RefsMove, w
<1>15. CountsExact'
  BY <1>5, <1>14, CountsMove
<1>16. /\ start' \in [Delegations -> Nat] /\ period' \in [Validators -> Nat \ {0}]
       /\ period'[w] = n + 1 /\ StartsSound'
       /\ \A v \in Validators : v # w => period'[v] = period[v]
  BY <1>5, StartMoves DEF w
<1>17. ExportTypeOK'
  BY <1>1, <1>2, <1>3, <1>4, <1>13, <1>16 DEF ExportTypeOK, Later
<1>18. ASSUME NEW v \in Validators
       PROVE  /\ period'[v] <= MaxPeriod
              /\ stage' = "rewards" =>
                   period'[v] + Cardinality(todo') <= InitialPeriods + Cardinality(Delegations)
  <2>1. period'[v] \in Nat /\ period[v] \in Nat
    BY <1>3, <1>16 DEF ExportTypeOK
  <2>2. period'[v] <= period[v] + 1
    BY <1>16, <2>1 DEF n
  <2>3. period[v] + Cardinality(todo) <= InitialPeriods + Cardinality(Delegations)
    BY <1>2
  <2>4. stage' = "rewards" => Cardinality(todo') = Cardinality(todo) - 1
    BY <1>2
  <2> QED
    BY <1>2, <2>1, <2>2, <2>3, <2>4, ConstantFacts
<1>19. PeriodsBounded'
  BY <1>2, <1>18 DEF PeriodsBounded
<1> QED
  BY <1>2, <1>4, <1>15, <1>16, <1>17, <1>19 DEF IInv

\* The records of the old chain go; none is needed until it is written anew.
LEMMA ClearIInv == ASSUME IInv, ClearRecords PROVE IInv'
<1>1. /\ stage = "clear" /\ stage' = "validators" /\ todo' = Validators
      /\ slashes' = [v \in Validators |-> {}]
      /\ refs' = [v \in Validators |-> [p \in Periods |-> 0]]
      /\ UNCHANGED <<rewardVars, period, start, startHeight, jailed, heights>>
  BY DEF ClearRecords, HistoricalRewardsDeleted
<1>2. ExportTypeOK /\ DebtExact /\ RewardsConserved /\ PeriodsBounded
  BY DEF IInv
<1>3. ~Old' /\ \A v \in Validators : ~Current(v)' /\ ~ValidatorRenewed(v)'
  BY <1>1 DEF Old, Current, ValidatorRenewed, Later, Final
<1>4. \A del \in Delegations : ~Counted(del)' /\ ~DelegationRenewed(del)'
  BY <1>1 DEF Old, Counted, DelegationRenewed, Later, Final
<1>5. ExportTypeOK'
  BY <1>1, <1>2 DEF ExportTypeOK, rewardVars
<1>6. DebtExact' /\ RewardsConserved'
  BY <1>1, <1>2 DEF DebtExact, RewardsConserved, rewardVars
<1>7. PeriodsBounded'
  BY <1>1, <1>2 DEF PeriodsBounded
<1>8. StartsSound'
  BY <1>1, <1>4 DEF StartsSound
<1>9. ASSUME NEW v \in Validators, NEW p \in Periods
      PROVE  refs'[v][p] = Unit(Current(v)' /\ p = period'[v] - 1)
                             + Unit(StartsAt(v, p)') + Unit(p \in slashes'[v])
  <2>1. ~StartsAt(v, p)'
    BY <1>4, DelegationFacts DEF StartsAt
  <2> QED
    BY <1>1, <1>3, <2>1 DEF Unit
<1>10. CountsExact'
  BY <1>9 DEF CountsExact
<1>11. RenewedFresh'
  BY <1>1, <1>3, <1>4 DEF RenewedFresh, Final
<1> QED
  BY <1>5, <1>6, <1>7, <1>8, <1>10, <1>11 DEF IInv

\* What a validator still owes moves to the community pool.
LEMMA DebtDonated ==
  ASSUME IInv, NEW v \in Validators, ReinitValidator(v)
  PROVE  /\ outstanding' \in [ Validators -> Nat ] /\ commission' \in [ Validators -> Nat ]
         /\ pending' \in [ Delegations -> Nat ] /\ pool' \in Nat
         /\ outstanding'[v] = 0 /\ commission'[v] = 0
         /\ \A w \in Validators : w # v =>
              outstanding'[w] = outstanding[w] /\ commission'[w] = commission[w]
         /\ DebtExact' /\ RewardsConserved'
<1>1. /\ pool' = pool + outstanding[v] /\ balance' = balance
      /\ outstanding' = [outstanding EXCEPT ![v] = 0]
      /\ commission' = [commission EXCEPT ![v] = 0]
      /\ pending' = [del \in Delegations |-> IF del.validator = v THEN 0 ELSE pending[del]]
  BY DEF ReinitValidator, Donated
<1>2. ExportTypeOK /\ DebtExact /\ RewardsConserved
  BY DEF IInv
<1>3. /\ outstanding \in [ Validators -> Nat ] /\ commission \in [ Validators -> Nat ]
      /\ pending \in [ Delegations -> Nat ] /\ pool \in Nat /\ balance \in Int
  BY <1>2 DEF ExportTypeOK
<1>4. /\ outstanding' \in [ Validators -> Nat ] /\ commission' \in [ Validators -> Nat ]
      /\ outstanding'[v] = 0 /\ commission'[v] = 0
      /\ \A w \in Validators : w # v =>
           outstanding'[w] = outstanding[w] /\ commission'[w] = commission[w]
  BY <1>1, <1>3
<1>5. pending' \in [ Delegations -> Nat ] /\ pool' \in Nat
  BY <1>1, <1>3
<1>6. SumFunction(outstanding') = SumFunction(outstanding) - outstanding[v]
  <2>1. IsFiniteSet(Validators)
    BY ExportAssumption
  <2>2. SumFunction(outstanding') = SumFunction(outstanding) - outstanding[v] + outstanding'[v]
    BY ONLY <1>3, <1>4, <2>1, v \in Validators, FunctionSumUpdate
  <2> QED
    BY <1>2, <1>4, <2>2, DebtFacts
<1>7. RewardsConserved'
  <2>1. balance = pool + SumFunction(outstanding) /\ SumFunction(outstanding) \in Nat
    BY <1>2, DebtFacts DEF RewardsConserved
  <2>2. outstanding[v] \in Nat
    BY <1>3
  <2> QED
    BY <1>1, <1>3, <1>6, <2>1, <2>2 DEF RewardsConserved
<1>8. ASSUME NEW w \in Validators
      PROVE  outstanding'[w] = commission'[w] + SumFunctionOnSet(pending', DelegationsOf(w))
  <2>1. IsFiniteSet(DelegationsOf(w))
    BY DelegationFacts
  <2>2. CASE w = v
    <3>1. \A del \in DelegationsOf(w) : pending'[del] = 0
      BY <1>1, <2>2, DelegationFacts
    <3>2. SumFunctionOnSet(pending', DelegationsOf(w)) = 0
      BY ONLY <2>1, <3>1, SumZero
    <3> QED
      BY <1>4, <2>2, <3>2
  <2>3. CASE w # v
    <3>1. \A del \in DelegationsOf(w) : pending[del] \in Nat /\ pending'[del] = pending[del]
      BY <1>1, <1>3, <2>3, DelegationFacts
    <3>2. SumFunctionOnSet(pending', DelegationsOf(w)) = SumFunctionOnSet(pending, DelegationsOf(w))
      BY ONLY <2>1, <3>1, SumSame
    <3> QED
      BY <1>2, <1>4, <2>3, <3>2 DEF DebtExact
  <2> QED
    BY <2>2, <2>3
<1>9. DebtExact'
  BY <1>8 DEF DebtExact
<1> QED
  BY <1>4, <1>5, <1>7, <1>9

\* The validator's first record is written anew.
LEMMA ReinitValidatorIInv ==
  ASSUME IInv, NEW v \in Validators, ReinitValidator(v) PROVE IInv'
<1>1. /\ stage = "validators" /\ v \in todo /\ Continue(v, "delegations", Delegations)
      /\ period' = [period EXCEPT ![v] = 1]
      /\ refs' = [refs EXCEPT ![v][0] = 1]
      /\ UNCHANGED <<balance, start, startHeight, slashes, jailed, heights>>
  BY DEF ReinitValidator, InitialPeriod
<1>2. ExportTypeOK /\ PeriodsBounded /\ StartsSound /\ CountsExact /\ RenewedFresh
  BY DEF IInv
<1>3. /\ outstanding' \in [ Validators -> Nat ] /\ commission' \in [ Validators -> Nat ]
      /\ pending' \in [ Delegations -> Nat ] /\ pool' \in Nat
      /\ outstanding'[v] = 0 /\ commission'[v] = 0
      /\ \A w \in Validators : w # v =>
           outstanding'[w] = outstanding[w] /\ commission'[w] = commission[w]
      /\ DebtExact' /\ RewardsConserved'
  BY DebtDonated
<1>4. todo \subseteq Validators /\ IsFiniteSet(Validators)
  BY <1>1, <1>2, ExportAssumption DEF ExportTypeOK
<1>5. \/ stage' = "validators" /\ todo' = todo \ {v}
      \/ stage' = "delegations" /\ todo' = Delegations /\ todo = {v}
  BY <1>1, <1>4, ContinueFacts
<1>6. /\ period' \in [Validators -> Nat \ {0}] /\ period'[v] = 1
      /\ \A w \in Validators : w # v => period'[w] = period[w]
  BY <1>1, <1>2 DEF ExportTypeOK
<1>7. /\ ~Old /\ ~Old'
      /\ \A w \in Validators : w # v =>
           /\ Current(w)' <=> Current(w)
           /\ ValidatorRenewed(w)' <=> ValidatorRenewed(w)
      /\ Current(v)' /\ ~Current(v)
  BY <1>1, <1>5 DEF Old, Current, ValidatorRenewed, Later, Final
<1>8. \A del \in Delegations : ~Counted(del)' /\ ~Counted(del) /\ ~DelegationRenewed(del)'
  BY <1>1, <1>5, <1>7 DEF Counted, DelegationRenewed, Later, Final
<1>9. \A w \in Validators : slashes[w] = {} /\ slashes'[w] = {}
  BY <1>1, <1>2, <1>7 DEF StartsSound
<1>10. \A w \in Validators, p \in Periods : ~StartsAt(w, p) /\ ~StartsAt(w, p)'
  BY <1>8, DelegationFacts DEF StartsAt
<1>11. /\ refs' \in [Validators -> [Periods -> Int]]
       /\ \A w \in Validators : w # v => refs'[w] = refs[w]
       /\ refs'[v][0] = 1 /\ \A p \in Periods : p # 0 => refs'[v][p] = refs[v][p]
  <2>1. refs \in [Validators -> [Periods -> Int]] /\ refs[v] \in [Periods -> Int]
    BY <1>2 DEF ExportTypeOK
  <2> QED
    BY <1>1, <2>1, ConstantFacts
<1>12. StartsSound'
  BY <1>8, <1>9 DEF StartsSound
<1>13. ASSUME NEW w \in Validators, NEW p \in Periods
       PROVE  refs'[w][p] = Unit(Current(w)' /\ p = period'[w] - 1)
                              + Unit(StartsAt(w, p)') + Unit(p \in slashes'[w])
  <2>1. refs[w][p] = Unit(Current(w) /\ p = period[w] - 1)
                       + Unit(StartsAt(w, p)) + Unit(p \in slashes[w])
    BY <1>2 DEF CountsExact
  <2>2. CASE w = v
    <3>1. refs[w][p] = 0
      BY <1>7, <1>9, <1>10, <2>1, <2>2 DEF Unit
    <3>2. refs'[w][p] = IF p = 0 THEN 1 ELSE 0
      BY <1>11, <2>2, <3>1
    <3> QED
      BY <1>6, <1>7, <1>9, <1>10, <2>2, <3>2 DEF Unit
  <2>3. CASE w # v
    BY <1>6, <1>7, <1>9, <1>10, <1>11, <2>1, <2>3 DEF Unit
  <2> QED
    BY <2>2, <2>3
<1>14. CountsExact'
  BY <1>13 DEF CountsExact
<1>15. ExportTypeOK'
  <2>1. /\ stage' \in {"commission", "rewards", "clear", "validators"} \cup Later
        /\ stage' \in {"commission", "validators"} => todo' \subseteq Validators
        /\ stage' \in {"rewards", "delegations"} => todo' \subseteq Delegations
    BY <1>4, <1>5 DEF Later
  <2> QED
    BY <1>1, <1>2, <1>3, <1>6, <1>11, <2>1 DEF ExportTypeOK
<1>16. ASSUME NEW w \in Validators
       PROVE  /\ period'[w] <= MaxPeriod
              /\ stage' = "validators" /\ w \notin todo' => period'[w] = 1
              /\ stage' = "delegations" =>
                   period'[w] + Cardinality(todo') <= 1 + Cardinality(Delegations)
  <2>1. period[w] <= MaxPeriod /\ (w \notin todo => period[w] = 1)
    BY <1>1, <1>2 DEF PeriodsBounded
  <2>2. period'[w] = 1 \/ (w \in todo /\ w # v /\ period'[w] = period[w])
    BY <1>6, <2>1
  <2> QED
    BY <1>5, <2>1, <2>2, ConstantFacts
<1>17. PeriodsBounded'
  BY <1>5, <1>16 DEF PeriodsBounded
<1>18. RenewedFresh'
  BY <1>2, <1>3, <1>5, <1>7, <1>8 DEF RenewedFresh, Final
<1> QED
  BY <1>3, <1>12, <1>14, <1>15, <1>17, <1>18 DEF IInv

\* A delegation's record is written anew, at height zero.
LEMMA ReinitDelegationIInv ==
  ASSUME IInv, NEW del \in Delegations, ReinitDelegation(del) PROVE IInv'
<1> DEFINE w == del.validator
           n == period[w]
           a == RefsAfterIncrement(w)
           moved == [a EXCEPT ![n] = @ + 1]
<1>1. /\ stage = "delegations" /\ del \in todo /\ Continue(del, "entries", {"entries"})
      /\ refs' = [refs EXCEPT ![w] = moved]
      /\ start' = [start EXCEPT ![del] = n]
      /\ startHeight' = [startHeight EXCEPT ![del] = "zero"]
      /\ period' = [period EXCEPT ![w] = @ + 1]
      /\ UNCHANGED <<rewardVars, slashes, jailed, heights>>
  BY DEF ReinitDelegation, ContextHeight
<1>2. ExportTypeOK /\ DebtExact /\ RewardsConserved /\ PeriodsBounded /\ RenewedFresh
  BY DEF IInv
<1>3. todo \subseteq Delegations /\ IsFiniteSet(Delegations)
  BY <1>1, <1>2, ExportAssumption DEF ExportTypeOK
<1>4. /\ \/ stage' = "delegations" /\ todo' = todo \ {del}
         \/ stage' = "entries" /\ todo = {del}
      /\ Cardinality(todo) \in Nat
      /\ Cardinality(todo \ {del}) = Cardinality(todo) - 1
      /\ Cardinality(todo \ {del}) \in Nat
  BY <1>1, <1>3, ContinueFacts
<1>5. /\ ~Old /\ ~Old'
      /\ \A v \in Validators : Current(v) /\ Current(v)' /\ ValidatorRenewed(v)
      /\ \A other \in Delegations : other # del =>
           (DelegationRenewed(other)' <=> DelegationRenewed(other))
      /\ DelegationRenewed(del)' /\ ~DelegationRenewed(del)
  BY <1>1, <1>4
    DEF Old, Current, ValidatorRenewed, DelegationRenewed, Later, Final
<1>6. /\ \A other \in Delegations : other # del => (Counted(other)' <=> Counted(other))
      /\ Counted(del)' /\ ~Counted(del)
  BY <1>5 DEF Counted
<1>7. Restarts(del, n)
  BY <1>1, <1>5, <1>6 DEF Restarts
<1>8. w \in Validators
  BY DelegationFacts
<1>9. /\ n \in Periods /\ a \in [Periods -> Int] /\ a[n] = 1
      /\ \A p \in Periods : p # n => a[p] = refs[w][p] - Unit(p = n - 1)
  BY <1>2, <1>8, IncrementFacts
<1>10. refs \in [Validators -> [Periods -> Int]]
  BY <1>2 DEF ExportTypeOK
<1> HIDE DEF a, n, w
<1>11. /\ moved \in [Periods -> Int] /\ moved[n] = 2
       /\ \A p \in Periods : p # n => moved[p] = a[p]
  BY <1>9
<1> HIDE DEF moved
<1>12. /\ refs' \in [Validators -> [Periods -> Int]] /\ refs'[w] = moved
       /\ \A v \in Validators : v # w => refs'[v] = refs[v]
  BY <1>1, <1>8, <1>10, <1>11
<1>13. RefsMove(del, n)
  <2>1. ASSUME NEW p \in Periods
        PROVE  refs'[w][p] = IF p = n THEN 2
                 ELSE refs[w][p] - Unit(p = n - 1) - Unit(Counted(del) /\ start[del] = p)
    <3>1. refs[w][p] \in Int
      BY <1>8, <1>10
    <3> QED
      BY <1>6, <1>9, <1>11, <1>12, <3>1 DEF Unit
  <2> QED
    BY <1>12, <2>1 DEF RefsMove, w
<1>14. CountsExact'
  BY <1>7, <1>13, CountsMove
<1>15. /\ start' \in [Delegations -> Nat] /\ period' \in [Validators -> Nat \ {0}]
       /\ period'[w] = n + 1 /\ StartsSound'
       /\ \A v \in Validators : v # w => period'[v] = period[v]
  BY <1>7, StartMoves DEF w
<1>16. /\ startHeight' \in [Delegations -> Heights] /\ startHeight'[del] = "zero"
       /\ \A other \in Delegations : other # del => startHeight'[other] = startHeight[other]
  BY <1>1, <1>2 DEF ExportTypeOK, Heights
<1>17. ExportTypeOK'
  <2>1. /\ stage' \in {"commission", "rewards", "clear", "validators"} \cup Later
        /\ stage' \in {"commission", "validators"} => todo' \subseteq Validators
        /\ stage' \in {"rewards", "delegations"} => todo' \subseteq Delegations
    BY <1>3, <1>4 DEF Later
  <2> QED
    BY <1>1, <1>2, <1>12, <1>15, <1>16, <2>1 DEF ExportTypeOK, rewardVars
<1>18. DebtExact' /\ RewardsConserved'
  BY <1>1, <1>2 DEF DebtExact, RewardsConserved, rewardVars
<1>19. ASSUME NEW v \in Validators
       PROVE  /\ period'[v] <= MaxPeriod
              /\ stage' = "delegations" =>
                   period'[v] + Cardinality(todo') <= 1 + Cardinality(Delegations)
  <2>1. period'[v] \in Nat /\ period[v] \in Nat
    BY <1>2, <1>15 DEF ExportTypeOK
  <2>2. period'[v] <= period[v] + 1
    BY <1>15, <2>1 DEF n
  <2>3. period[v] + Cardinality(todo) <= 1 + Cardinality(Delegations)
    BY <1>1, <1>2 DEF PeriodsBounded
  <2>4. stage' = "delegations" => Cardinality(todo') = Cardinality(todo) - 1
    BY <1>4
  <2> QED
    BY <1>4, <2>1, <2>2, <2>3, <2>4, ConstantFacts
<1>20. PeriodsBounded'
  BY <1>4, <1>19 DEF PeriodsBounded
<1>21. RenewedFresh'
  <2>1. \A v \in Validators : outstanding'[v] = 0 /\ commission'[v] = 0
    BY <1>1, <1>2, <1>5 DEF RenewedFresh, rewardVars
  <2>2. \A d \in Delegations : DelegationRenewed(d)' => startHeight'[d] = "zero"
    BY <1>2, <1>5, <1>16 DEF RenewedFresh
  <2> QED
    BY <1>4, <2>1, <2>2 DEF RenewedFresh, Final
<1> QED
  BY <1>14, <1>15, <1>17, <1>18, <1>20, <1>21 DEF IInv

\* The stages after the rewrite of the records.
LEMMA LaterStages ==
  ASSUME IInv, stage \in Later, stage # "delegations",
         stage' \in Later, stage' # "delegations", UNCHANGED <<rewardVars, periodVars>>,
         heights' \in [ entries : Heights, validators : Heights, signingInfos : Heights ],
         stage' \in {"staking"} \cup Final => heights'.entries = "zero",
         stage' \in Final => heights'.validators = "zero",
         stage' = "done" => heights'.signingInfos = "zero"
  PROVE  IInv'
<1>1. ExportTypeOK /\ DebtExact /\ RewardsConserved /\ PeriodsBounded /\ RenewedFresh
  BY DEF IInv
<1>2. \A s \in Later : s \notin {"commission", "rewards", "clear", "validators"}
  BY DEF Later, Final
<1>3. ~Old /\ ~Old'
  BY <1>2 DEF Old
<1>4. \A v \in Validators : ValidatorRenewed(v) /\ ValidatorRenewed(v)'
  BY DEF ValidatorRenewed
<1>5. \A del \in Delegations : DelegationRenewed(del) /\ DelegationRenewed(del)'
  BY DEF DelegationRenewed
<1>6. StartsSound' /\ CountsExact'
  BY <1>3, <1>4, <1>5, RecordsKept DEF Current, Counted
<1>7. ExportTypeOK'
  BY <1>1, <1>2 DEF ExportTypeOK, rewardVars, periodVars
<1>8. DebtExact' /\ RewardsConserved'
  BY <1>1 DEF DebtExact, RewardsConserved, rewardVars
<1>9. PeriodsBounded'
  BY <1>1, <1>2 DEF PeriodsBounded, periodVars
<1>10. RenewedFresh'
  <2>1. \A v \in Validators : outstanding'[v] = 0 /\ commission'[v] = 0
    BY <1>1, <1>4 DEF RenewedFresh, rewardVars
  <2>2. \A del \in Delegations : startHeight'[del] = "zero"
    BY <1>1, <1>5 DEF RenewedFresh, periodVars
  <2> QED
    BY <2>1, <2>2 DEF RenewedFresh
<1> QED
  BY <1>6, <1>7, <1>8, <1>9, <1>10 DEF IInv

LEMMA EntriesIInv == ASSUME IInv, ResetEntries PROVE IInv'
<1>1. /\ stage = "entries" /\ stage' = "staking"
      /\ heights' = [heights EXCEPT !.entries = "zero"]
      /\ UNCHANGED <<rewardVars, periodVars>>
  BY DEF ResetEntries
<1>2. heights \in [ entries : Heights, validators : Heights, signingInfos : Heights ]
  BY DEF IInv, ExportTypeOK
<1>3. /\ heights' \in [ entries : Heights, validators : Heights, signingInfos : Heights ]
      /\ heights'.entries = "zero"
  BY <1>1, <1>2 DEF Heights
<1>4. stage \in Later /\ stage' \in Later /\ stage' \notin Final
  BY <1>1 DEF Later, Final
<1> QED
  BY <1>1, <1>3, <1>4, LaterStages DEF Final

LEMMA StakingIInv ==
  ASSUME IInv, NEW closeFails \in BOOLEAN, ResetStaking(closeFails) PROVE IInv'
<1> DEFINE outcome == IF closeFails THEN "cutShort"
                      ELSE IF SetUpdateFails THEN "panicked" ELSE "done"
<1>1. /\ stage = "staking" /\ stage' = outcome
      /\ heights' = [heights EXCEPT !.validators = "zero",
                       !.signingInfos = IF outcome = "done" THEN "zero" ELSE @]
      /\ UNCHANGED <<rewardVars, periodVars>>
  BY DEF ResetStaking
<1>2. /\ heights \in [ entries : Heights, validators : Heights, signingInfos : Heights ]
      /\ heights.entries = "zero"
  BY <1>1 DEF IInv, ExportTypeOK, RenewedFresh
<1>3. outcome \in Final
  BY DEF Final
<1> HIDE DEF outcome
<1>4. /\ heights' \in [ entries : Heights, validators : Heights, signingInfos : Heights ]
      /\ heights'.entries = "zero" /\ heights'.validators = "zero"
      /\ outcome = "done" => heights'.signingInfos = "zero"
  BY <1>1, <1>2 DEF Heights
<1>5. stage \in Later /\ stage' \in Later /\ stage' # "delegations"
  BY <1>1, <1>3 DEF Later, Final
<1> QED
  BY <1>1, <1>4, <1>5, LaterStages

LEMMA StutterIInv == ASSUME IInv, UNCHANGED vars PROVE IInv'
<1>1. /\ UNCHANGED <<stage, todo, outstanding, commission, pending, pool, balance,
                     startHeight, heights>>
      /\ UNCHANGED <<period, refs, start, slashes>> /\ UNCHANGED periodVars
  BY DEF vars, rewardVars, periodVars
<1>2. Old' <=> Old
  BY <1>1 DEF Old
<1>3. \A v \in Validators : ValidatorRenewed(v)' <=> ValidatorRenewed(v)
  BY <1>1 DEF ValidatorRenewed
<1>4. \A del \in Delegations : DelegationRenewed(del)' <=> DelegationRenewed(del)
  BY <1>1 DEF DelegationRenewed
<1>5. StartsSound' /\ CountsExact'
  BY <1>1, <1>2, <1>3, <1>4, RecordsKept DEF Current, Counted
<1>6. ExportTypeOK'
  BY <1>1 DEF IInv, ExportTypeOK
<1>7. DebtExact' /\ RewardsConserved'
  BY <1>1 DEF IInv, DebtExact, RewardsConserved
<1>8. PeriodsBounded'
  BY <1>1 DEF IInv, PeriodsBounded
<1>9. RenewedFresh'
  BY <1>1, <1>3, <1>4 DEF IInv, RenewedFresh
<1> QED
  BY <1>5, <1>6, <1>7, <1>8, <1>9 DEF IInv

LEMMA NextIInv == IInv /\ [Next]_vars => IInv'
<1> SUFFICES ASSUME IInv, [Next]_vars PROVE IInv'
  OBVIOUS
<1>1. CASE \E v \in Validators, fails \in BOOLEAN : WithdrawValidatorCommission(v, fails)
  BY <1>1, CommissionIInv
<1>2. CASE \E v \in Validators : ReinitValidator(v)
  BY <1>2, ReinitValidatorIInv
<1>3. CASE \E del \in Delegations : WithdrawFails(del)
  BY <1>3, FailsIInv
<1>4. CASE \E del \in Delegations : WithdrawDelegationRewards(del)
  BY <1>4, WithdrawIInv
<1>5. CASE \E del \in Delegations : ReinitDelegation(del)
  BY <1>5, ReinitDelegationIInv
<1>6. CASE ClearRecords
  BY <1>6, ClearIInv
<1>7. CASE ResetEntries
  BY <1>7, EntriesIInv
<1>8. CASE \E closeFails \in BOOLEAN : ResetStaking(closeFails)
  BY <1>8, StakingIInv
<1>9. CASE Ended \/ UNCHANGED vars
  BY <1>9, StutterIInv DEF Ended
<1> QED
  BY <1>1, <1>2, <1>3, <1>4, <1>5, <1>6, <1>7, <1>8, <1>9 DEF Next

-----------------------------------------------------------------------------
(* Theorems.                                                               *)

\* The invariant holds at every step of the rewrite.
THEOREM Invariance == Spec => []IInv
BY InitIInv, NextIInv, PTL DEF Spec

\* prepForZeroHeightGenesis neither creates nor loses coins of the distribution
\* module, whichever withdrawals fail.
THEOREM RewardsAlwaysConserved == Spec => []RewardsConserved
<1>1. IInv => RewardsConserved
  BY DEF IInv
<1> QED
  BY <1>1, Invariance, PTL

\* No withdrawal and no hook the rewrite calls panics on a reference count.
THEOREM HooksNeverEverPanic == Spec => []HooksNeverPanic
<1>1. ASSUME IInv PROVE HooksNeverPanic
  <2>1. ASSUME NEW v \in Validators, NEW p \in Periods PROVE refs[v][p] \in 0..3
    <3>1. refs[v][p] = Unit(Current(v) /\ p = period[v] - 1)
                         + Unit(StartsAt(v, p)) + Unit(p \in slashes[v])
      BY <1>1 DEF IInv, CountsExact
    <3>2. \A c : Unit(c) \in {0, 1}
      BY DEF Unit
    <3> QED
      BY ONLY <3>1, <3>2
  <2> QED
    BY <2>1 DEF HooksNeverPanic
<1> QED
  BY <1>1, Invariance, PTL

\* The exported genesis has exactly the references x/distribution requires.
THEOREM ReferencesAlwaysExact == Spec => []ReferencesExact
<1>1. ASSUME IInv PROVE ReferencesExact
  <2> SUFFICES ASSUME stage \in {"done", "cutShort"}, NEW v \in Validators, NEW p \in Periods
               PROVE  refs[v][p] = References(v, p)
    BY DEF ReferencesExact
  <2>1. stage \in Later /\ stage # "delegations"
    BY DEF Later, Final
  <2>2. Current(v) /\ \A del \in Delegations : Counted(del)
    BY <2>1 DEF Current, ValidatorRenewed, Counted, DelegationRenewed
  <2>3. refs[v][p] = Unit(Current(v) /\ p = period[v] - 1)
                       + Unit(StartsAt(v, p)) + Unit(p \in slashes[v])
    BY <1>1 DEF IInv, CountsExact
  <2>4. Cardinality({del \in DelegationsOf(v) : start[del] = p}) = Unit(StartsAt(v, p))
    BY <1>1, <2>2, CountOne DEF IInv
  <2> QED
    BY <2>2, <2>3, <2>4 DEF References, Unit
<1> QED
  BY <1>1, Invariance, PTL

\* A rewrite that is done leaves no debt and no height of the old chain.
THEOREM FreshStartAlways == Spec => []FreshStart
<1>1. ASSUME IInv PROVE FreshStart
  <2> SUFFICES ASSUME stage = "done"
               PROVE  /\ \A v \in Validators : outstanding[v] = 0 /\ commission[v] = 0
                      /\ \A del \in Delegations : startHeight[del] = "zero"
                      /\ heights = [entries |-> "zero", validators |-> "zero",
                                    signingInfos |-> "zero"]
    BY DEF FreshStart
  <2>1. stage \in Final /\ stage \in Later /\ stage # "delegations"
    BY DEF Later, Final
  <2>2. \A v \in Validators : outstanding[v] = 0 /\ commission[v] = 0
    BY <1>1, <2>1 DEF IInv, RenewedFresh, ValidatorRenewed
  <2>3. \A del \in Delegations : startHeight[del] = "zero"
    BY <1>1, <2>1 DEF IInv, RenewedFresh, DelegationRenewed
  <2>4. heights.entries = "zero" /\ heights.validators = "zero" /\ heights.signingInfos = "zero"
    BY <1>1, <2>1 DEF IInv, RenewedFresh
  <2>5. heights \in [ entries : Heights, validators : Heights, signingInfos : Heights ]
    BY <1>1 DEF IInv, ExportTypeOK
  <2>6. heights = [entries |-> "zero", validators |-> "zero", signingInfos |-> "zero"]
    BY <2>4, <2>5
  <2> QED
    BY <2>2, <2>3, <2>6
<1> QED
  BY <1>1, Invariance, PTL
=============================================================================
