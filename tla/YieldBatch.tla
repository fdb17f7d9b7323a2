------------------------------ MODULE YieldBatch ------------------------------
(***************************************************************************)
(* Monte-Carlo yield (eda-core: montecarlo.ts): how a batch of toleranced    *)
(* variants is sampled, when it ends, and the tier its yield is given.  The  *)
(* sampler and the grader look at one thing, the 95% Wilson interval of the  *)
(* yield, against the two bars of the robustness profile.                    *)
(***************************************************************************)
EXTENDS Naturals

CONSTANTS
    Whole,          \* what the bars are shares of: 0.999 is 999 of 1000
    RobustMin,      \* the bar of "robust"
    MarginalMin,    \* the bar of "marginal"
    MinRuns,        \* samples before the batch may end early
    Headroom        \* attempts allowed per sample wanted

ASSUME YieldBatchAssumption ==
    /\ Whole \in Nat /\ MarginalMin \in Nat \ {0} /\ RobustMin \in Nat
    /\ MarginalMin < RobustMin /\ RobustMin < Whole
    /\ MinRuns \in Nat \ {0} /\ Headroom \in Nat \ {0}

-----------------------------------------------------------------------------

\* The square of the 97.5th percentile of the normal distribution, 3.8415.
Z95Num == 7683
Z95Den == 2000

\* What a batch has drawn; a variant that could not be run is errored, not failed.
Sample == [passed : Nat, failed : Nat, errored : Nat]

Evaluated(s) == s.passed + s.failed

\* yield >= bar
YieldReaches(s, bar) == Whole * s.passed >= bar * Evaluated(s)

Distance(s, bar) ==
    IF YieldReaches(s, bar) THEN Whole * s.passed - bar * Evaluated(s)
                            ELSE bar * Evaluated(s) - Whole * s.passed

\* The bound of the interval at the bar, squared and cleared of denominators: the
\* Wilson interval holds the yields p with (passed/n - p)^2 <= z^2 p (1 - p) / n.
Spread(s, bar) == Z95Num * Evaluated(s) * bar * (Whole - bar)

\* ci95.low >= bar
LowReaches(s, bar) ==
    /\ Evaluated(s) > 0
    /\ YieldReaches(s, bar)
    /\ Z95Den * Distance(s, bar) * Distance(s, bar) >= Spread(s, bar)

\* ci95.high < bar
HighMisses(s, bar) ==
    /\ ~YieldReaches(s, bar)
    /\ Z95Den * Distance(s, bar) * Distance(s, bar) > Spread(s, bar)

\* Mutant of TierDecided: the interval is short, wherever the bars are.
TierDecidedByWidth(s) == Evaluated(s) > MinRuns

TierDecided(s) ==
    \/ LowReaches(s, RobustMin)
    \/ HighMisses(s, MarginalMin)
    \/ LowReaches(s, MarginalMin) /\ HighMisses(s, RobustMin)

\* requiredRunsForBar: flawless samples that reach the bar.
RequiredRuns ==
    LET unit == Z95Den * (Whole - RobustMin)
    IN  (Z95Num * RobustMin + unit - 1) \div unit

\* classifyRobustness
Tier(s) ==
    CASE LowReaches(s, RobustMin)   -> "robust"
      [] ~LowReaches(s, RobustMin) /\ LowReaches(s, MarginalMin) -> "marginal"
      [] HighMisses(s, MarginalMin) -> "at-risk"
      [] OTHER                      -> "unknown"

-----------------------------------------------------------------------------

\* Nothing runs at all, or the tier is decided.
EndsEarly(s) ==
    \/ Evaluated(s) = 0 /\ s.errored >= MinRuns
    \/ Evaluated(s) >= MinRuns /\ TierDecided(s)

\* n samples were wanted.
Complete(s, n) ==
    \/ Evaluated(s) >= n
    \/ Evaluated(s) + s.errored >= n * Headroom

After(s) ==
    {[s EXCEPT !.passed = @ + 1], [s EXCEPT !.failed = @ + 1], [s EXCEPT !.errored = @ + 1]}

\* The counts of a batch for n samples.
Counts(n) == [passed : 0..n, failed : 0..n, errored : 0..(n * Headroom)]

\* runMonteCarlo: all the ways a batch for n samples can end; its wall-clock budget
\* may cut it before any attempt.
Batches(n) ==
    LET Drawn[i \in 0..(n * Headroom)] ==
            IF i = 0 THEN {[passed |-> 0, failed |-> 0, errored |-> 0]}
            ELSE UNION {After(s) : s \in {d \in Drawn[i - 1] : ~EndsEarly(d) /\ ~Complete(d, n)}}
    IN  {[sample |-> s, wanted |-> n, early |-> EndsEarly(s),
          cut |-> ~EndsEarly(s) /\ ~Complete(s, n)] :
            s \in Counts(n) \cap UNION {Drawn[i] : i \in 0..(n * Headroom)}}

=============================================================================
