----------------------------- MODULE Estimates -----------------------------
(***************************************************************************)
(* The duration estimate of a target (src/duration_history.rs): from the   *)
(* durations of its retained successful runs, in milliseconds, a typical   *)
(* one, an upper one and a timeout to recommend.                           *)
(***************************************************************************)
EXTENDS Integers, Sequences, SequencesExt, FiniteSets

MaxMs == 2147483647                \* stands for u64::MAX
FloorMs == 10000                   \* DEFAULT_FLOOR_MS
AddendMs == 2000                   \* SAFETY_MARGIN_ADDEND_MS
CapMs == 15 * 60000                \* ABSOLUTE_CAP_MS

SaturatingAdd(a, b) == IF a > MaxMs - b THEN MaxMs ELSE a + b
Larger(a, b) == IF a > b THEN a ELSE b
Smaller(a, b) == IF a < b THEN a ELSE b

Median(sorted) ==
  LET n == Len(sorted)
      a == sorted[n \div 2]
      b == sorted[n \div 2 + 1]
  IN  IF n % 2 = 1 THEN sorted[n \div 2 + 1]
                   ELSE a + (b - a) \div 2   \* (a + b) / 2 in u128

\* Rank with the division rounded down.
NearestRankDown(sorted) == sorted[Larger(1, (Len(sorted) * 9) \div 10)]

NearestRankP90(sorted) == sorted[(Len(sorted) * 9 + 9) \div 10]

RecommendTimeout(upper, configuredFloor) ==
  LET margin == SaturatingAdd(SaturatingAdd(upper, upper \div 2), AddendMs)
      floor == Larger(IF configuredFloor = <<>> THEN 0 ELSE configuredFloor[1], FloorMs)
  IN  Smaller(Larger(margin, floor), CapMs)

Confidence(n) == CASE n = 0 -> "none" [] n \in 1..2 -> "low"
                   [] n \in 3..9 -> "medium" [] OTHER -> "high"

\* estimate: <<>> without a success.
Estimate(successes, configuredFloor) ==
  IF successes = <<>> THEN <<>> ELSE
  LET sorted == SortSeq(successes, <)
      upper == NearestRankP90(sorted)
  IN  <<[typicalMs |-> Median(sorted), upperMs |-> upper,
         recommendedTimeoutMs |-> RecommendTimeout(upper, configuredFloor),
         samples |-> Len(sorted), confidence |-> Confidence(Len(sorted)),
         source |-> "measured"]>>
=============================================================================
