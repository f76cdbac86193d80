------------------------ MODULE InflationController ------------------------
(***************************************************************************)
(* The inflation controller of x/lumiwaveprotocol and the block machinery  *)
(* around it: the ordered begin blockers, the mint module's own begin      *)
(* blocker, governance changing the mint parameters at the end of a block, *)
(* and a restart from a zero-height export.                                *)
(*                                                                         *)
(* Rates are integers: one basis point is Precision units (10^14 in the    *)
(* code's 18-digit decimals).  int64 is WordBits wide (64 in the code).    *)
(***************************************************************************)
EXTENDS Integers, Sequences

CONSTANTS
  WordBits,             \* width of int64
  Precision,            \* decimal units per basis point
  MaxHeight,            \* bound on the block height
  BlocksPerYearChoices, \* blocks_per_year values genesis or governance may set
  RateChoices,          \* inflation rates genesis or governance may set
  DeltaChoices          \* inflation changes of one mint step

One == 10000 * Precision

InflationSchedule ==
  << 3441 * Precision, 2560 * Precision, 1038 * Precision,
      940 * Precision,  461 * Precision,  441 * Precision >>

BaseRate == InflationSchedule[6]

(* Arithmetic the provers do not know: powers of two are positive, double  *)
(* and grow.                                                               *)
ASSUME PowersOfTwo ==
  \A k \in 0..(WordBits - 1) :
    /\ 2^k \in Nat \ {0}
    /\ 2^(k + 1) = 2 * 2^k
    /\ k < WordBits - 1 => 2^k < 2^(WordBits - 1)

(* The base rate is below half of the largest denominator: 4.41e16 against *)
(* 2^63 in the code.                                                       *)
ASSUME WordAssumption ==
  /\ WordBits \in Nat /\ WordBits >= 2
  /\ 2 * BaseRate < 2^(WordBits - 1)

ASSUME RangeAssumption ==
  /\ Precision \in Nat \ {0}
  /\ MaxHeight \in Nat
  /\ BlocksPerYearChoices \subseteq Nat \ {0}
  /\ RateChoices \subseteq 0..One
  /\ DeltaChoices \subseteq Int

VARIABLES
  height,      \* height of the last begun block
  slot,        \* next begin blocker to run; 0 between blocks
  mintParams,  \* x/mint Params: inflation_max, inflation_min, blocks_per_year
  inflation,   \* x/mint Minter.Inflation
  provisions,  \* the rate behind Minter.AnnualProvisions: what the last mint paid
  halted       \* a begin blocker failed: the block can never be finalized

vars == <<height, slot, mintParams, inflation, provisions, halted>>

-----------------------------------------------------------------------------
(* The schedule.                                                           *)

\* Go's conversion of an unsigned word to a signed one.
ToInt64(u) == IF u < 2^(WordBits - 1) THEN u ELSE u - 2^WordBits

calculateYearFromHeight(currentHeight, blocksPerYear) ==
  IF currentHeight <= 0 \/ blocksPerYear <= 0
    THEN 1
    ELSE (currentHeight - 1) \div blocksPerYear + 1

\* k doublings of int64(1): the product wraps once and is 0 from then on.
denominator(k) == IF k < WordBits THEN ToInt64(2^k) ELSE 0

halfLifeCyclesEveryYear(year) == year - 5  \* variant: one halving per year

halfLifeCycles(year) == (year - 5) \div 2

\* Variant: LegacyDec.QuoRoundUp.
RoundUp(a, d) == IF a % d = 0 THEN a \div d ELSE a \div d + 1

\* LegacyDec.Quo by a positive integer: round half to even.
RoundHalfEven(a, d) ==
  LET q == a \div d
      r == a % d
  IN  IF 2 * r < d \/ (2 * r = d /\ q % 2 = 0) THEN q ELSE q + 1

\* The sign of the divisor carries to the quotient.
Quo(a, d) == IF d > 0 THEN RoundHalfEven(a, d) ELSE -RoundHalfEven(a, -d)

\* Quo panics on a zero divisor.
QuoPanics(year) == year > 6 /\ denominator(halfLifeCycles(year)) = 0

inflationMaxForYear(year) ==
  IF year \in 1..6
    THEN InflationSchedule[year]
    ELSE IF year > 6 THEN Quo(BaseRate, denominator(halfLifeCycles(year)))
                     ELSE 0

\* The year the controller computes in block h under parameters p.
YearAt(h, p) == calculateYearFromHeight(h, ToInt64(p.blocksPerYear))

-----------------------------------------------------------------------------
(* Blocks.                                                                 *)

BeginBlockersMintFirst == << "mint", "lumiwaveprotocol" >>  \* variant

\* Begin blockers in the order of the application configuration.
BeginBlockers == << "lumiwaveprotocol", "mint" >>

Running(module) == slot \in 1..Len(BeginBlockers) /\ BeginBlockers[slot] = module

BetweenBlocks == slot = 0 /\ ~halted

\* All begin blockers of the block have run: transactions and end blockers.
Delivering == slot = Len(BeginBlockers) + 1

ValidMintParams(p) == p.inflationMin <= p.inflationMax

MintParams ==
  { p \in [ inflationMax : RateChoices, inflationMin : RateChoices,
            blocksPerYear : BlocksPerYearChoices ] : ValidMintParams(p) }

Init ==
  /\ height = 0
  /\ slot = 0
  /\ mintParams \in MintParams
  /\ inflation \in RateChoices
  /\ provisions = 0
  /\ halted = FALSE

StartBlock ==
  /\ BetweenBlocks
  /\ height < MaxHeight
  /\ height' = height + 1
  /\ slot' = 1
  /\ UNCHANGED <<mintParams, inflation, provisions, halted>>

\* Variant: the old inflation_min survives a transition.
EnforceMaxKeepingMin(p, targetMax) == [p EXCEPT !.inflationMax = targetMax]

EnforceMax(p, targetMax) ==
  [p EXCEPT !.inflationMax = targetMax, !.inflationMin = 0]

(* BeginBlock of x/lumiwaveprotocol: bring inflation_max to the schedule,  *)
(* drop inflation_min to zero with it and clip the current inflation.      *)
BeginBlock ==
  LET year == YearAt(height, mintParams)
      targetMax == inflationMaxForYear(year)
      changed == mintParams.inflationMax # targetMax
  IN  /\ Running("lumiwaveprotocol")
      /\ ~halted
      /\ ~QuoPanics(year)
      /\ mintParams' = IF changed THEN EnforceMax(mintParams, targetMax)
                                   ELSE mintParams
      /\ inflation' = IF changed /\ inflation > targetMax THEN targetMax
                                                          ELSE inflation
      /\ slot' = slot + 1
      /\ UNCHANGED <<height, provisions, halted>>

(* The division by a zero denominator panics inside FinalizeBlock.         *)
BeginBlockPanics ==
  /\ Running("lumiwaveprotocol")
  /\ ~halted
  /\ QuoPanics(YearAt(height, mintParams))
  /\ halted' = TRUE
  /\ UNCHANGED <<height, slot, mintParams, inflation, provisions>>

\* x/mint NextInflationRate: move by delta, then clip to [min, max].
NextInflationRate(rate, p, delta) ==
  LET moved  == rate + delta
      capped == IF moved > p.inflationMax THEN p.inflationMax ELSE moved
  IN  IF capped < p.inflationMin THEN p.inflationMin ELSE capped

\* x/mint recomputes its rate and pays the block's provisions at that rate.
MintBeginBlocker ==
  /\ Running("mint")
  /\ ~halted
  /\ \E delta \in DeltaChoices :
       inflation' = NextInflationRate(inflation, mintParams, delta)
  /\ provisions' = inflation'
  /\ slot' = slot + 1
  /\ UNCHANGED <<height, mintParams, halted>>

EndBlock ==
  /\ Delivering
  /\ slot' = 0
  /\ UNCHANGED <<height, mintParams, inflation, provisions, halted>>

(* The gov end blocker executes a passed MsgUpdateParams of x/mint, which  *)
(* validates the new parameters.                                           *)
EndBlockGovUpdate ==
  /\ Delivering
  /\ mintParams' \in MintParams
  /\ slot' = 0
  /\ UNCHANGED <<height, inflation, provisions, halted>>

(* A new chain starts at height 0 from the exported state of the last      *)
(* committed block; x/mint exports its parameters and minter.              *)
RestartForZeroHeight ==
  /\ halted \/ BetweenBlocks
  /\ height' = 0
  /\ slot' = 0
  /\ halted' = FALSE
  /\ UNCHANGED <<mintParams, inflation, provisions>>

Next ==
  \/ StartBlock
  \/ BeginBlock
  \/ BeginBlockPanics
  \/ MintBeginBlocker
  \/ EndBlock
  \/ EndBlockGovUpdate
  \/ RestartForZeroHeight

Spec == Init /\ [][Next]_vars

-----------------------------------------------------------------------------
(* Properties.                                                             *)

\* Every variable keeps its type.  Inflation and both bounds stay rates
\* between 0 and One although the controller writes them past x/mint's
\* own validation.
TypeOK ==
  /\ height \in 0..MaxHeight
  /\ slot \in 0..(Len(BeginBlockers) + 1)
  /\ mintParams \in [ inflationMax : 0..One, inflationMin : 0..One,
                      blocksPerYear : BlocksPerYearChoices ]
  /\ inflation \in 0..One
  /\ provisions \in 0..One
  /\ halted \in BOOLEAN

\* The controller stores mint parameters without calling their Validate;
\* inflation_min never exceeds inflation_max all the same, whatever bounds
\* governance chose before a year transition.
ParamsStayValid == ValidMintParams(mintParams)

\* Whenever transactions run, the rate the mint module has just paid for this
\* block is within the schedule of the block's own year, the rate it keeps is
\* too, and inflation_max is exactly the schedule's: a year transition, a governance change or a restart
\* never lets a single block mint at a stale rate.
ScheduleEnforced ==
  Delivering =>
    /\ mintParams.inflationMax = inflationMaxForYear(YearAt(height, mintParams))
    /\ inflation <= mintParams.inflationMax
    /\ provisions <= mintParams.inflationMax

\* The chain stops in the controller only when the int64 denominator has been
\* doubled WordBits times, in year 5 + 2 * WordBits (133) or later.
HaltOnlyOnOverflow ==
  halted => YearAt(height, mintParams) >= 5 + 2 * WordBits

\* While blocks_per_year stays and the chain is not restarted, the cap of the
\* current year never rises: the halving cycles never undercut the table and
\* the wrapped denominator never produces a larger or negative rate.
CapNeverRises ==
  [][ ( /\ height' >= height
        /\ mintParams'.blocksPerYear = mintParams.blocksPerYear
        /\ ~QuoPanics(YearAt(height, mintParams))
        /\ ~QuoPanics(YearAt(height', mintParams')) )
      => inflationMaxForYear(YearAt(height', mintParams'))
           \in 0..inflationMaxForYear(YearAt(height, mintParams)) ]_vars

=============================================================================
