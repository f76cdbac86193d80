--------------------- MODULE InflationControllerProofs ---------------------
(***************************************************************************)
(* The inflation schedule holds in every block, for every word width,      *)
(* decimal precision, parameter choice and chain length.                   *)
(***************************************************************************)
EXTENDS InflationController, TLAPS

\* The precision is positive, so One and the base rate are naturals.
LEMMA RateTypes ==
  /\ One \in Nat
  /\ BaseRate \in Nat /\ BaseRate <= One
  /\ \A y \in 1..6 : InflationSchedule[y] \in 0..One
BY RangeAssumption DEF One, BaseRate, InflationSchedule

\* The loop's denominator: positive below the sign bit, the most negative word
\* at it, and zero from WordBits doublings on.
LEMMA DenominatorValues ==
  ASSUME NEW k \in Nat
  PROVE  /\ k < WordBits - 1 => denominator(k) \in Nat \ {0}
         /\ k = WordBits - 1 => denominator(k) = -(2^(WordBits - 1))
         /\ k >= WordBits => denominator(k) = 0
         /\ denominator(k) = 0 => k >= WordBits
<1>1. CASE k < WordBits - 1
  <2>1. k \in 0..(WordBits - 1) BY <1>1, WordAssumption
  <2>2. 2^k \in Nat \ {0} /\ 2^k < 2^(WordBits - 1) BY <2>1, <1>1, PowersOfTwo
  <2> QED BY <1>1, <2>2, WordAssumption DEF denominator, ToInt64
<1>2. CASE k = WordBits - 1
  <2>1. k \in 0..(WordBits - 1) BY <1>2, WordAssumption
  <2>2. 2^k \in Nat \ {0} /\ 2^(k + 1) = 2 * 2^k BY <2>1, PowersOfTwo
  <2>3. k + 1 = WordBits BY <1>2, WordAssumption
  <2>4. 2^WordBits = 2 * 2^(WordBits - 1) BY <2>2, <2>3, <1>2
  <2>5. denominator(k) = 2^(WordBits - 1) - 2^WordBits
    BY <1>2, <2>2, WordAssumption DEF denominator, ToInt64
  <2> QED BY <2>2, <2>4, <2>5, <1>2, WordAssumption
<1>3. CASE k >= WordBits
  BY <1>3, WordAssumption DEF denominator
<1> QED BY <1>1, <1>2, <1>3, WordAssumption

\* Rounding half to even by a positive divisor stays between 0 and the
\* dividend.
LEMMA RoundHalfEvenRange ==
  ASSUME NEW a \in Nat, NEW d \in Nat \ {0}
  PROVE  /\ RoundHalfEven(a, d) \in 0..a
         /\ 2 * a < d => RoundHalfEven(a, d) = 0
<1> DEFINE q == a \div d
           r == a % d
<1>1. q \in Nat /\ r \in 0..(d - 1) /\ a = d * q + r OBVIOUS
<1>2. q <= a
  <2>1. d * q >= q BY <1>1
  <2> QED BY <2>1, <1>1
<1>3. CASE q = a
  <2>1. d * q >= q BY <1>1
  <2>2. r = 0 BY <1>1, <1>3, <2>1
  <2> QED BY <1>1, <1>3, <2>2 DEF RoundHalfEven
<1>4. CASE q < a
  <2>1. RoundHalfEven(a, d) \in 0..a BY <1>1, <1>4 DEF RoundHalfEven
  <2>2. ASSUME 2 * a < d PROVE RoundHalfEven(a, d) = 0
    <3>1. q = 0 /\ r = a BY <2>2
    <3> QED BY <3>1, <2>2 DEF RoundHalfEven
  <2> QED BY <2>1, <2>2
<1> QED BY <1>2, <1>3, <1>4, <1>1

\* A year whose division does not panic has a cap between 0 and One.
LEMMA CapInRange ==
  ASSUME NEW year \in Int, ~QuoPanics(year)
  PROVE  inflationMaxForYear(year) \in 0..One
<1>1. CASE year \in 1..6
  BY <1>1, RateTypes DEF inflationMaxForYear
<1>2. CASE year > 6
  <2> DEFINE k == halfLifeCycles(year)
             d == denominator(k)
  <2>1. k \in Nat BY <1>2 DEF halfLifeCycles
  <2>2. d # 0 BY <1>2 DEF QuoPanics
  <2>3. k < WordBits BY <2>1, <2>2, DenominatorValues, WordAssumption
  <2>4. CASE k < WordBits - 1
    <3>1. d \in Nat \ {0} BY <2>1, <2>4, DenominatorValues
    <3>2. RoundHalfEven(BaseRate, d) \in 0..BaseRate
      BY <3>1, RateTypes, RoundHalfEvenRange
    <3>3. inflationMaxForYear(year) = RoundHalfEven(BaseRate, d)
      BY <1>2, <3>1 DEF inflationMaxForYear, Quo
    <3> QED BY <3>2, <3>3, RateTypes
  <2>5. CASE k = WordBits - 1
    <3>1. WordBits - 1 \in 0..(WordBits - 1) BY WordAssumption
    <3>2. 2^(WordBits - 1) \in Nat \ {0} BY <3>1, PowersOfTwo
    <3>3. d = -(2^(WordBits - 1)) BY <2>1, <2>5, DenominatorValues
    <3>4. d \in Int /\ d < 0 /\ -d \in Nat \ {0} /\ 2 * BaseRate < -d
      BY <3>2, <3>3, WordAssumption
    <3>5. RoundHalfEven(BaseRate, -d) = 0
      BY <3>4, RateTypes, RoundHalfEvenRange
    <3>6. inflationMaxForYear(year) = -RoundHalfEven(BaseRate, -d)
      BY <1>2, <3>4 DEF inflationMaxForYear, Quo
    <3> QED BY <3>5, <3>6, RateTypes
  <2> QED BY <2>1, <2>3, <2>4, <2>5, WordAssumption
<1>3. CASE year < 1
  BY <1>3, RateTypes DEF inflationMaxForYear
<1> QED BY <1>1, <1>2, <1>3

\* The year of a block is an integer whatever the conversion of
\* blocks_per_year gives.
LEMMA YearIsInt ==
  ASSUME NEW h \in Int, NEW p, p.blocksPerYear \in Nat
  PROVE  YearAt(h, p) \in Int
<1>1. WordBits - 1 \in 0..(WordBits - 1) BY WordAssumption
<1>2. 2^(WordBits - 1) \in Nat /\ 2^(WordBits - 1 + 1) = 2 * 2^(WordBits - 1)
  BY <1>1, PowersOfTwo
<1>3. 2^WordBits \in Int
  <2>1. WordBits - 1 + 1 = WordBits BY WordAssumption
  <2> QED BY <2>1, <1>2
<1>4. ToInt64(p.blocksPerYear) \in Int BY <1>2, <1>3 DEF ToInt64
<1> QED BY <1>4 DEF YearAt, calculateYearFromHeight

-----------------------------------------------------------------------------
(* The inductive invariant.  Between the controller's slot and the end of  *)
(* the block inflation_max is the schedule's, which is what makes the      *)
(* mint module's clipping enforce the schedule; a halted chain stands in   *)
(* the controller's slot with a zero denominator.                          *)

ControllerRan ==
  slot \in {2, 3} =>
    /\ ~QuoPanics(YearAt(height, mintParams))
    /\ mintParams.inflationMax = inflationMaxForYear(YearAt(height, mintParams))

HaltedInController ==
  halted => slot = 1 /\ QuoPanics(YearAt(height, mintParams))

IInv ==
  /\ TypeOK
  /\ ParamsStayValid
  /\ ControllerRan
  /\ ScheduleEnforced
  /\ HaltedInController

\* The controller's begin blocker runs first and the mint module's second.
LEMMA BeginBlockerOrder ==
  /\ Len(BeginBlockers) = 2
  /\ \A m : Running(m) => \/ slot = 1 /\ m = "lumiwaveprotocol"
                          \/ slot = 2 /\ m = "mint"
  /\ Delivering <=> slot = 3
BY DEF BeginBlockers, Running, Delivering

\* A year depends on the parameters only through blocks_per_year.
LEMMA YearOfBlocksPerYear ==
  ASSUME NEW h, NEW p, NEW q, p.blocksPerYear = q.blocksPerYear
  PROVE  YearAt(h, p) = YearAt(h, q)
BY DEF YearAt

\* The type invariant, field by field.
LEMMA TypeFacts ==
  ASSUME TypeOK
  PROVE  /\ height \in Nat
         /\ mintParams.blocksPerYear \in Nat
         /\ mintParams.inflationMax \in 0..One
         /\ mintParams.inflationMin \in 0..One
         /\ YearAt(height, mintParams) \in Int
<1>1. height \in Nat BY DEF TypeOK
<1>2. mintParams.blocksPerYear \in BlocksPerYearChoices BY DEF TypeOK
<1>3. mintParams.blocksPerYear \in Nat BY <1>2, RangeAssumption
<1>4. mintParams.inflationMax \in 0..One /\ mintParams.inflationMin \in 0..One
  BY DEF TypeOK
<1>5. YearAt(height, mintParams) \in Int BY <1>1, <1>3, YearIsInt
<1> QED BY <1>1, <1>3, <1>4, <1>5

\* Genesis parameters and governance's are typed and ordered.
LEMMA MintParamsTyped ==
  ASSUME NEW p \in MintParams
  PROVE  /\ p \in [ inflationMax : 0..One, inflationMin : 0..One,
                    blocksPerYear : BlocksPerYearChoices ]
         /\ ValidMintParams(p)
BY RangeAssumption DEF MintParams

\* A genesis state satisfies the invariant.
LEMMA InitIInv == Init => IInv
<1> SUFFICES ASSUME Init PROVE IInv OBVIOUS
<1>1. TypeOK
  <2>1. height \in 0..MaxHeight BY RangeAssumption DEF Init
  <2>2. slot \in 0..(Len(BeginBlockers) + 1) BY BeginBlockerOrder DEF Init
  <2>3. inflation \in 0..One /\ provisions \in 0..One
    BY RangeAssumption, RateTypes DEF Init
  <2>4. mintParams \in MintParams /\ halted \in BOOLEAN BY DEF Init
  <2> QED BY <2>1, <2>2, <2>3, <2>4, MintParamsTyped DEF TypeOK
<1>2. ParamsStayValid BY MintParamsTyped DEF Init, ParamsStayValid
<1>3. ControllerRan /\ HaltedInController
  BY DEF Init, ControllerRan, HaltedInController
<1>4. ScheduleEnforced BY BeginBlockerOrder DEF Init, ScheduleEnforced
<1> QED BY <1>1, <1>2, <1>3, <1>4 DEF IInv

\* The controller's begin blocker establishes the schedule's cap with valid
\* parameters.
LEMMA BeginBlockIInv ==
  ASSUME IInv, BeginBlock
  PROVE  IInv'
<1> DEFINE year == YearAt(height, mintParams)
           target == inflationMaxForYear(year)
<1> USE DEF IInv
<1>1. slot = 1 /\ slot' = 2 /\ height' = height /\ halted' = halted
  BY BeginBlockerOrder DEF BeginBlock
<1>3. year \in Int BY TypeFacts
<1>4. ~QuoPanics(year) /\ target \in 0..One
  BY <1>3, CapInRange DEF BeginBlock
<1>5. /\ mintParams' \in [ inflationMax : 0..One, inflationMin : 0..One,
                           blocksPerYear : BlocksPerYearChoices ]
      /\ mintParams'.inflationMax = target
      /\ mintParams'.blocksPerYear = mintParams.blocksPerYear
      /\ mintParams'.inflationMin <= mintParams'.inflationMax
  <2>1. CASE mintParams.inflationMax = target
    <3>1. mintParams' = mintParams BY <2>1 DEF BeginBlock
    <3> QED BY <2>1, <3>1 DEF TypeOK, ParamsStayValid, ValidMintParams
  <2>2. CASE mintParams.inflationMax # target
    <3>1. mintParams' = [mintParams EXCEPT !.inflationMax = target,
                                           !.inflationMin = 0]
      BY <2>2 DEF BeginBlock, EnforceMax
    <3>2. 0 \in 0..One BY RateTypes
    <3>3. mintParams \in [ inflationMax : 0..One, inflationMin : 0..One,
                           blocksPerYear : BlocksPerYearChoices ]
      BY DEF TypeOK
    <3> HIDE DEF target
    <3>4. /\ mintParams' \in [ inflationMax : 0..One, inflationMin : 0..One,
                               blocksPerYear : BlocksPerYearChoices ]
          /\ mintParams'.inflationMax = target /\ mintParams'.inflationMin = 0
          /\ mintParams'.blocksPerYear = mintParams.blocksPerYear
      BY <3>1, <3>2, <3>3, <1>4
    <3>5. 0 <= target BY <1>4
    <3> QED BY <3>4, <3>5
  <2> QED BY <2>1, <2>2
<1>6. inflation' \in 0..One /\ provisions' \in 0..One
  BY <1>4 DEF BeginBlock, TypeOK
<1>7. YearAt(height', mintParams') = year
  BY <1>1, <1>5 DEF YearAt
<1>8. TypeOK' BY <1>1, <1>5, <1>6, BeginBlockerOrder DEF TypeOK, BeginBlockers
<1>9. ParamsStayValid' BY <1>5 DEF ParamsStayValid, ValidMintParams
<1>10. ControllerRan' BY <1>4, <1>5, <1>7 DEF ControllerRan
<1>11. ScheduleEnforced' BY <1>1 DEF ScheduleEnforced, Delivering, BeginBlockers
<1>12. HaltedInController' BY <1>1 DEF HaltedInController, BeginBlock
<1> QED BY <1>8, <1>9, <1>10, <1>11, <1>12

\* Mint's clipping keeps the rate within bounds that are ordered.
LEMMA MintBeginBlockerIInv ==
  ASSUME IInv, MintBeginBlocker
  PROVE  IInv'
<1> USE DEF IInv
<1>1. slot = 2 /\ slot' = 3 /\ UNCHANGED <<height, mintParams, halted>>
  BY BeginBlockerOrder DEF MintBeginBlocker
<1>2. PICK delta \in DeltaChoices :
        inflation' = NextInflationRate(inflation, mintParams, delta)
  BY DEF MintBeginBlocker
<1>3. inflation + delta \in Int BY RangeAssumption, RateTypes DEF TypeOK
<1>4. /\ mintParams.inflationMin \in 0..One /\ mintParams.inflationMax \in 0..One
      /\ mintParams.inflationMin <= mintParams.inflationMax
  BY DEF TypeOK, ParamsStayValid, ValidMintParams
<1>5. /\ inflation' \in 0..One /\ inflation' <= mintParams.inflationMax
      /\ provisions' = inflation'
  BY <1>2, <1>3, <1>4, RateTypes DEF NextInflationRate, MintBeginBlocker
<1>6. TypeOK' BY <1>1, <1>5 DEF TypeOK, BeginBlockers
<1>7. ParamsStayValid' BY <1>1 DEF ParamsStayValid
<1>8. ControllerRan' BY <1>1 DEF ControllerRan
<1>9. ScheduleEnforced' BY <1>1, <1>5 DEF ScheduleEnforced, ControllerRan
<1>10. HaltedInController' BY <1>1 DEF HaltedInController, MintBeginBlocker
<1> QED BY <1>6, <1>7, <1>8, <1>9, <1>10

\* Every step preserves the invariant.
LEMMA NextIInv == IInv /\ [Next]_vars => IInv'
<1> SUFFICES ASSUME IInv, [Next]_vars PROVE IInv' OBVIOUS
<1> USE DEF IInv
<1>1. CASE StartBlock
  <2>1. slot' = 1 /\ ~halted' BY <1>1 DEF StartBlock, BetweenBlocks
  <2>2. TypeOK' BY <1>1, RangeAssumption DEF StartBlock, TypeOK, BeginBlockers
  <2>3. ParamsStayValid' BY <1>1 DEF StartBlock, ParamsStayValid
  <2> QED BY <2>1, <2>2, <2>3
    DEF ControllerRan, ScheduleEnforced, Delivering, BeginBlockers, HaltedInController
<1>2. CASE BeginBlock BY <1>2, BeginBlockIInv
<1>3. CASE BeginBlockPanics
  <2>1. slot = 1 /\ slot' = 1 BY <1>3, BeginBlockerOrder DEF BeginBlockPanics
  <2>2. TypeOK' BY <1>3 DEF BeginBlockPanics, TypeOK
  <2>3. ParamsStayValid' BY <1>3 DEF BeginBlockPanics, ParamsStayValid
  <2>4. HaltedInController' BY <1>3, <2>1 DEF BeginBlockPanics, HaltedInController
  <2> QED BY <2>1, <2>2, <2>3, <2>4
    DEF ControllerRan, ScheduleEnforced, Delivering, BeginBlockers
<1>4. CASE MintBeginBlocker BY <1>4, MintBeginBlockerIInv
<1>5. CASE EndBlock
  <2>1. slot' = 0 /\ ~halted'
    BY <1>5, BeginBlockerOrder DEF EndBlock, HaltedInController
  <2>2. TypeOK' BY <1>5 DEF EndBlock, TypeOK, BeginBlockers
  <2>3. ParamsStayValid' BY <1>5 DEF EndBlock, ParamsStayValid
  <2> QED BY <2>1, <2>2, <2>3
    DEF ControllerRan, ScheduleEnforced, Delivering, BeginBlockers, HaltedInController
<1>6. CASE EndBlockGovUpdate
  <2>1. slot' = 0 /\ ~halted'
    BY <1>6, BeginBlockerOrder DEF EndBlockGovUpdate, HaltedInController
  <2>2. TypeOK' BY <1>6, MintParamsTyped DEF EndBlockGovUpdate, TypeOK, BeginBlockers
  <2>3. ParamsStayValid'
    BY <1>6, MintParamsTyped DEF EndBlockGovUpdate, ParamsStayValid
  <2> QED BY <2>1, <2>2, <2>3
    DEF ControllerRan, ScheduleEnforced, Delivering, BeginBlockers, HaltedInController
<1>7. CASE RestartForZeroHeight
  <2>1. slot' = 0 /\ ~halted' BY <1>7 DEF RestartForZeroHeight
  <2>2. /\ height' = 0 /\ slot' = 0 /\ halted' = FALSE
        /\ UNCHANGED <<mintParams, inflation, provisions>>
    BY <1>7 DEF RestartForZeroHeight
  <2>3. 0 \in 0..MaxHeight BY RangeAssumption
  <2>4. 0 \in 0..(Len(BeginBlockers) + 1) BY BeginBlockerOrder
  <2>5. TypeOK'
    <3>1. (0..(Len(BeginBlockers) + 1))' = 0..(Len(BeginBlockers) + 1)
      BY DEF BeginBlockers
    <3> QED BY <2>2, <2>3, <2>4, <3>1, Zenon DEF TypeOK
  <2>6. ParamsStayValid' BY <1>7 DEF RestartForZeroHeight, ParamsStayValid
  <2> QED BY <2>1, <2>5, <2>6
    DEF ControllerRan, ScheduleEnforced, Delivering, BeginBlockers, HaltedInController
<1>8. CASE UNCHANGED vars
  BY <1>8 DEF vars, TypeOK, ParamsStayValid, ControllerRan, ScheduleEnforced,
              Delivering, HaltedInController
<1> QED BY <1>1, <1>2, <1>3, <1>4, <1>5, <1>6, <1>7, <1>8 DEF Next

\* A zero denominator needs WordBits doublings, one per two years.
LEMMA PanicYear ==
  ASSUME NEW year \in Int, QuoPanics(year)
  PROVE  year >= 5 + 2 * WordBits
<1>1. year > 6 /\ denominator(halfLifeCycles(year)) = 0 BY DEF QuoPanics
<1>2. halfLifeCycles(year) \in Nat BY <1>1 DEF halfLifeCycles
<1>3. halfLifeCycles(year) >= WordBits
  BY <1>1, <1>2, DenominatorValues
<1> QED BY <1>1, <1>3, WordAssumption DEF halfLifeCycles

-----------------------------------------------------------------------------
(* Theorems.                                                               *)

\* Every reachable state satisfies the inductive invariant.
THEOREM Invariance == Spec => []IInv
BY InitIInv, NextIInv, PTL DEF Spec

\* Heights, rates and parameters keep their types, although the controller
\* writes mint parameters without validating them.
THEOREM TypeCorrect == Spec => []TypeOK
<1>1. IInv => TypeOK BY DEF IInv
<1> QED BY Invariance, <1>1, PTL

\* Mint parameters stay valid across every year transition.
THEOREM ParamsAlwaysValid == Spec => []ParamsStayValid
<1>1. IInv => ParamsStayValid BY DEF IInv
<1> QED BY Invariance, <1>1, PTL

\* No block mints above the schedule of its own year, whatever governance
\* sets, whenever the year changes and wherever the chain is restarted.
THEOREM ScheduleAlwaysEnforced == Spec => []ScheduleEnforced
<1>1. IInv => ScheduleEnforced BY DEF IInv
<1> QED BY Invariance, <1>1, PTL

\* The controller stops the chain in year 5 + 2 * WordBits at the earliest.
THEOREM HaltNeedsOverflow == Spec => []HaltOnlyOnOverflow
<1>1. IInv => HaltOnlyOnOverflow
  <2> SUFFICES ASSUME IInv, halted
               PROVE  YearAt(height, mintParams) >= 5 + 2 * WordBits
    BY DEF HaltOnlyOnOverflow
  <2>1. QuoPanics(YearAt(height, mintParams)) BY DEF IInv, HaltedInController
  <2>2. YearAt(height, mintParams) \in Int BY TypeFacts DEF IInv
  <2> QED BY <2>1, <2>2, PanicYear
<1> QED BY Invariance, <1>1, PTL

-----------------------------------------------------------------------------
(* The cap over the years.                                                 *)

\* Products grow with their factors.
LEMMA ProductGrows ==
  ASSUME NEW d \in Nat, NEW x \in Int, NEW y \in Int, x <= y
  PROVE  d * x <= d * y /\ d * x \in Int /\ d * y \in Int
<1>1. PICK n \in Nat : y = x + n BY y - x \in Nat
<1>2. d * (x + n) = d * x + d * n /\ d * n \in Nat OBVIOUS
<1> QED BY <1>1, <1>2

\* Doubling the divisor does not raise the rounded quotient.
LEMMA DoublingLowers ==
  ASSUME NEW a \in Nat, NEW d \in Nat \ {0}
  PROVE  RoundHalfEven(a, 2 * d) <= RoundHalfEven(a, d)
<1> DEFINE q == a \div d
           r == a % d
           e == 2 * d
           p == a \div e
           s == a % e
<1>1. q \in Nat /\ r \in 0..(d - 1) /\ a = d * q + r OBVIOUS
<1>2. p \in Nat /\ s \in 0..(e - 1) /\ a = e * p + s
  <2>1. e \in Nat \ {0} OBVIOUS
  <2> HIDE DEF e
  <2> QED BY <2>1
<1>3. e * p = d * p + d * p BY <1>2
<1>4. RoundHalfEven(a, d) \in {q, q + 1} BY DEF RoundHalfEven
<1>5. RoundHalfEven(a, e) = p \/ (RoundHalfEven(a, e) = p + 1 /\ 2 * s >= e)
  <2>1. 2 * s < e \/ 2 * s >= e BY <1>2
  <2> HIDE DEF e
  <2> QED BY <2>1 DEF RoundHalfEven
<1>6. d * p \in Nat /\ d * q \in Nat BY <1>1, <1>2
<1> DEFINE dp == d * p
           dq == d * q
<1>7. a = dq + r /\ a = dp + dp + s /\ dp \in Nat /\ dq \in Nat /\ s < 2 * d
      BY <1>1, <1>2, <1>3, <1>6
<1>8. (q < p => dq + d <= dp) /\ (q < p + 1 => dq <= dp)
  <2>1. ASSUME q < p PROVE dq + d <= dp
    <3>1. q + 1 \in Int /\ p \in Int /\ q + 1 <= p BY <1>1, <1>2, <2>1
    <3>2. d * (q + 1) <= d * p
      <4> HIDE DEF q, p
      <4> QED BY <3>1, ProductGrows
    <3>3. d * (q + 1) = d * q + d BY <1>1
    <3> QED BY <3>2, <3>3
  <2>2. ASSUME q < p + 1 PROVE dq <= dp
    <3>1. q \in Int /\ p \in Int /\ q <= p BY <1>1, <1>2, <2>2
    <3> HIDE DEF q, p
    <3> QED BY <3>1, ProductGrows
  <2> QED BY <2>1, <2>2
<1>9. q \in Nat /\ p \in Nat /\ r \in 0..(d - 1) /\ s \in Nat BY <1>1, <1>2
<1> HIDE DEF dp, dq, q, r, p, s
<1>10. q >= p
  <2> SUFFICES ASSUME q < p PROVE FALSE BY <1>9
  <2> QED BY <1>7, <1>8, <1>9
<1>11. ASSUME 2 * s >= e PROVE q >= p + 1
  <2> SUFFICES ASSUME q < p + 1 PROVE FALSE BY <1>9
  <2>1. s >= d BY <1>9, <1>11
  <2> QED BY <1>7, <1>8, <1>9, <2>1
<1>12. RoundHalfEven(a, e) <= q BY <1>5, <1>9, <1>10, <1>11
<1>13. RoundHalfEven(a, e) \in Int BY <1>5, <1>9
<1> QED BY <1>4, <1>9, <1>12, <1>13

\* The quotients of neighbours are equal or neighbours.
LEMMA QuotientStep ==
  ASSUME NEW x \in Nat, NEW b \in Nat \ {0}
  PROVE  /\ x \div b \in Nat
         /\ (x + 1) \div b \in {x \div b, x \div b + 1}
<1> DEFINE q == x \div b
           r == x % b
           y == x + 1
           p == y \div b
           s == y % b
<1>1. q \in Nat /\ r \in 0..(b - 1) /\ x = b * q + r OBVIOUS
<1>2. p \in Nat /\ s \in 0..(b - 1) /\ y = b * p + s
  <2>1. y \in Nat OBVIOUS
  <2> HIDE DEF y
  <2> QED BY <2>1
<1> DEFINE bq == b * q
           bp == b * p
<1>3. bq + r + 1 = bp + s /\ bq \in Nat /\ bp \in Nat BY <1>1, <1>2
<1>4. p < q => bp + b <= bq
  <2> SUFFICES ASSUME p < q PROVE bp + b <= bq OBVIOUS
  <2>1. b * (p + 1) = b * p + b BY <1>2
  <2>2. p + 1 \in Int /\ q \in Int /\ p + 1 <= q BY <1>1, <1>2
  <2>3. b * (p + 1) <= b * q
    <3> HIDE DEF p, q
    <3> QED BY <2>2, ProductGrows
  <2> QED BY <2>1, <2>3
<1>5. p > q + 1 => bq + 2 * b <= bp
  <2> SUFFICES ASSUME p > q + 1 PROVE bq + 2 * b <= bp OBVIOUS
  <2>1. b * (q + 2) = b * q + 2 * b BY <1>1
  <2>2. q + 2 \in Int /\ p \in Int /\ q + 2 <= p BY <1>1, <1>2
  <2>3. b * (q + 2) <= b * p
    <3> HIDE DEF p, q
    <3> QED BY <2>2, ProductGrows
  <2> QED BY <2>1, <2>3
<1>6. q \in Nat /\ p \in Nat /\ r \in 0..(b - 1) /\ s \in 0..(b - 1) BY <1>1, <1>2
<1> HIDE DEF q, r, p, s, bq, bp
<1>7. p = q \/ p = q + 1
  BY <1>3, <1>4, <1>5, <1>6
<1> QED BY <1>6, <1>7 DEF q, p

\* A block belongs to the year of the one before it or to the next year.
LEMMA YearStep ==
  ASSUME NEW h \in Nat, NEW p, p.blocksPerYear \in Nat
  PROVE  /\ YearAt(h, p) \in Nat \ {0}
         /\ YearAt(h + 1, p) \in {YearAt(h, p), YearAt(h, p) + 1}
<1> DEFINE b == ToInt64(p.blocksPerYear)
<1>1. b \in Int
  <2>1. WordBits - 1 \in 0..(WordBits - 1) BY WordAssumption
  <2>2. 2^(WordBits - 1) \in Nat /\ 2^(WordBits - 1 + 1) = 2 * 2^(WordBits - 1)
    BY <2>1, PowersOfTwo
  <2>3. WordBits - 1 + 1 = WordBits BY WordAssumption
  <2>4. 2^WordBits \in Int BY <2>2, <2>3
  <2> QED BY <2>2, <2>4 DEF ToInt64
<1>2. \A n : YearAt(n, p) = IF n <= 0 \/ b <= 0 THEN 1 ELSE (n - 1) \div b + 1
  BY DEF YearAt, calculateYearFromHeight
<1> HIDE DEF b
<1>3. CASE b <= 0
  BY <1>2, <1>3
<1>4. CASE b > 0 /\ h = 0
  <2>1. 0 \div b = 0 BY <1>1, <1>4
  <2>2. YearAt(0, p) = 1 BY <1>2
  <2>3. YearAt(1, p) = 0 \div b + 1 BY <1>1, <1>2, <1>4
  <2> QED BY <1>4, <2>1, <2>2, <2>3
<1>5. CASE b > 0 /\ h > 0
  <2>1. h - 1 \in Nat /\ b \in Nat \ {0} /\ (h - 1) + 1 = h /\ (h + 1) - 1 = h
    BY <1>1, <1>5
  <2>2. YearAt(h, p) = (h - 1) \div b + 1 /\ YearAt(h + 1, p) = h \div b + 1
    BY <1>1, <1>2, <1>5, <2>1
  <2>3. (h - 1) \div b \in Nat /\ h \div b \in {(h - 1) \div b, (h - 1) \div b + 1}
    BY <2>1, QuotientStep
  <2> QED BY <2>2, <2>3
<1> QED BY <1>1, <1>3, <1>4, <1>5

\* The table falls, and so does the base rate with every further halving, until
\* the wrapped denominator leaves nothing.
LEMMA CapStep ==
  ASSUME NEW year \in Nat \ {0}, ~QuoPanics(year), ~QuoPanics(year + 1)
  PROVE  inflationMaxForYear(year + 1) <= inflationMaxForYear(year)
<1>1. CASE year < 6
  <2>1. year \in 1..6 /\ year + 1 \in 1..6 BY <1>1
  <2>2. InflationSchedule[year + 1] <= InflationSchedule[year]
    <3>1. year \in {1, 2, 3, 4, 5} BY <1>1
    <3> QED BY <3>1, RangeAssumption DEF InflationSchedule
  <2> QED BY <2>1, <2>2 DEF inflationMaxForYear
<1>2. CASE year >= 6
  <2> DEFINE k == halfLifeCycles(year)
             m == halfLifeCycles(year + 1)
  <2>1. k \in Nat /\ m \in Nat /\ (m = k \/ m = k + 1) /\ (year = 6 => k = 0 /\ m = 1)
    BY <1>2 DEF halfLifeCycles
  <2>2. inflationMaxForYear(year + 1) = Quo(BaseRate, denominator(m))
    BY <1>2 DEF inflationMaxForYear
  <2>3. denominator(m) # 0 BY <1>2 DEF QuoPanics
  <2> HIDE DEF k, m
  <2>4. m < WordBits BY <2>1, <2>3, DenominatorValues, WordAssumption
  <2>5. inflationMaxForYear(year) \in Nat
    BY CapInRange, RateTypes
  <2>6. CASE m = WordBits - 1
    <3>1. WordBits - 1 \in 0..(WordBits - 1) BY WordAssumption
    <3>2. 2^(WordBits - 1) \in Nat \ {0} BY <3>1, PowersOfTwo
    <3> DEFINE d == denominator(m)
    <3>3. d = -(2^(WordBits - 1)) BY <2>1, <2>6, DenominatorValues
    <3>4. d \in Int /\ d < 0 /\ -d \in Nat \ {0} /\ 2 * BaseRate < -d
      BY <3>2, <3>3, WordAssumption
    <3> HIDE DEF d
    <3>5. RoundHalfEven(BaseRate, -d) = 0
      BY <3>4, RateTypes, RoundHalfEvenRange
    <3>6. Quo(BaseRate, d) = 0
      BY <3>4, <3>5 DEF Quo
    <3> QED BY <2>2, <2>5, <3>6 DEF d
  <2>7. CASE m < WordBits - 1
    <3>1. denominator(m) \in Nat \ {0} BY <2>1, <2>7, DenominatorValues
    <3>2. inflationMaxForYear(year + 1) = RoundHalfEven(BaseRate, denominator(m))
      BY <2>2, <3>1 DEF Quo
    <3>3. CASE year = 6
      <4>1. inflationMaxForYear(year) = BaseRate
        BY <3>3 DEF inflationMaxForYear, BaseRate
      <4>2. RoundHalfEven(BaseRate, denominator(m)) \in 0..BaseRate
        BY <3>1, RateTypes, RoundHalfEvenRange
      <4> QED BY <3>2, <4>1, <4>2, RateTypes
    <3>4. CASE year > 6
      <4>1. inflationMaxForYear(year) = Quo(BaseRate, denominator(k))
        BY <3>4 DEF inflationMaxForYear, k
      <4>2. CASE m = k
        BY <2>2, <2>5, <4>1, <4>2
      <4>3. CASE m = k + 1
        <5>1. k < WordBits - 1 /\ k + 1 < WordBits - 1 /\ k \in 0..(WordBits - 1)
              /\ k + 1 \in 0..(WordBits - 1)
          BY <2>1, <2>7, <4>3, WordAssumption
        <5>2. /\ 2^k \in Nat \ {0} /\ 2^(k + 1) = 2 * 2^k
              /\ 2^k < 2^(WordBits - 1) /\ 2^(k + 1) < 2^(WordBits - 1)
          BY <5>1, PowersOfTwo
        <5>3. denominator(k) = 2^k /\ denominator(m) = 2^(k + 1)
          BY <2>4, <4>3, <5>1, <5>2, WordAssumption DEF denominator, ToInt64
        <5> DEFINE d == denominator(k)
        <5>4. d \in Nat \ {0} /\ denominator(m) = 2 * d
          BY <5>2, <5>3
        <5>5. inflationMaxForYear(year) = RoundHalfEven(BaseRate, d)
          BY <4>1, <5>4 DEF Quo
        <5> HIDE DEF d
        <5>6. RoundHalfEven(BaseRate, 2 * d) <= RoundHalfEven(BaseRate, d)
          BY <5>4, RateTypes, DoublingLowers
        <5> QED BY <3>2, <5>4, <5>5, <5>6
      <4> QED BY <2>1, <4>2, <4>3
    <3> QED BY <1>2, <3>3, <3>4
  <2> QED BY <2>1, <2>4, <2>6, <2>7, WordAssumption
<1> QED BY <1>1, <1>2

\* While blocks_per_year stays and the chain goes on, no block has a higher cap
\* than the one before: table, halvings and the wrapped denominator of
\* inflationMaxForYear only go down, and never below zero.
THEOREM CapNeverEverRises == Spec => CapNeverRises
<1>1. ASSUME IInv, [Next]_vars
      PROVE  ( /\ height' >= height
               /\ mintParams'.blocksPerYear = mintParams.blocksPerYear
               /\ ~QuoPanics(YearAt(height, mintParams))
               /\ ~QuoPanics(YearAt(height', mintParams')) )
             => inflationMaxForYear(YearAt(height', mintParams'))
                  \in 0..inflationMaxForYear(YearAt(height, mintParams))
  <2> DEFINE year == YearAt(height, mintParams)
  <2> SUFFICES ASSUME height' >= height,
                      mintParams'.blocksPerYear = mintParams.blocksPerYear,
                      ~QuoPanics(year), ~QuoPanics(year')
               PROVE  inflationMaxForYear(year') \in 0..inflationMaxForYear(year)
    OBVIOUS
  <2>1. height \in Nat /\ mintParams.blocksPerYear \in Nat BY <1>1, TypeFacts DEF IInv
  <2>2. height' = height \/ height' = height + 1
    BY <1>1, <2>1 DEF Next, vars, StartBlock, BeginBlock, BeginBlockPanics,
       MintBeginBlocker, EndBlock, EndBlockGovUpdate, RestartForZeroHeight
  <2>3. year' = YearAt(height', mintParams)
    BY YearOfBlocksPerYear
  <2>4. year \in Nat \ {0} /\ (year' = year \/ year' = year + 1)
    BY <2>1, <2>2, <2>3, YearStep
  <2> HIDE DEF year
  <2>5. inflationMaxForYear(year) \in Nat /\ inflationMaxForYear(year') \in Nat
    BY <2>4, CapInRange, RateTypes
  <2>6. inflationMaxForYear(year') <= inflationMaxForYear(year)
    <3>1. CASE year' = year BY <2>5, <3>1
    <3>2. CASE year' = year + 1
      <4>1. ~QuoPanics(year + 1) BY <3>2
      <4> QED BY <2>4, <3>2, <4>1, CapStep
    <3> QED BY <2>4, <3>1, <3>2
  <2> QED BY <2>5, <2>6
<1> QED BY Invariance, <1>1, PTL DEF CapNeverRises, Spec
=============================================================================
