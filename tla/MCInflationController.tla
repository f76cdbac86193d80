----------------------- MODULE MCInflationController -----------------------
(* A chain with an 11-bit int64: years 1 to 30 pass within 30 blocks when  *)
(* a year has one block, so the schedule table, every halving, the wrapped *)
(* denominator (year 25) and the zero one (year 27) all occur.             *)
EXTENDS InflationController

\* 1030 converts to a negative int64.
MCBlocksPerYearChoices == {1, 3, 1030}
MCRateChoices == {0, 500, 10000}
MCDeltaChoices == {-700, 0, 700}
=============================================================================
