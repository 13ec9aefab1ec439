------------------------------- MODULE Labels -------------------------------
(***************************************************************************)
(* The labels a strategy is trained on and the folds it is tested with     *)
(* (pkg/label/triplebarrier.go).                                           *)
(*                                                                         *)
(* A bar is [high, low, close, atr] of integers; the multiples of the ATR  *)
(* are halves, so prices are compared doubled.  Bars count from 0.         *)
(***************************************************************************)
EXTENDS Integers

CONSTANTS
    TPHalves,   \* 2 * Config.TPMult
    SLHalves    \* 2 * Config.SLMult

ASSUME LabelAssumption == {TPHalves, SLHalves} \subseteq Nat

Indices(n) == 0 .. n - 1

\* The bars that may decide the label of bar i.
BarsAhead(n, i, hold) == {j \in Indices(n) : i < j /\ j <= i + hold}

\* LabelAt: the first bar that reaches a barrier decides, the upper barrier first.
LabelAt(bars, n, i, hold) ==
    LET entry == bars[i]
        Up(j)   == 2 * bars[j].high >= 2 * entry.close + TPHalves * entry.atr
        Down(j) == 2 * bars[j].low <= 2 * entry.close - SLHalves * entry.atr
        hits == {j \in BarsAhead(n, i, hold) : Up(j) \/ Down(j)}
    IN IF hold < 1 \/ entry.close <= 0 \/ entry.atr <= 0 \/ hits = {} THEN "none"
       ELSE IF Up(CHOOSE j \in hits : \A k \in hits : j <= k) THEN "up" ELSE "down"

\* PurgeEmbargo: the chunk of a fold; the last one takes what is left.
FoldStart(n, folds, fold) == fold * (n \div folds)
FoldEnd(n, folds, fold) == IF fold = folds - 1 THEN n ELSE FoldStart(n, folds, fold) + n \div folds

Test(n, folds, fold) == {i \in Indices(n) : FoldStart(n, folds, fold) <= i /\ i < FoldEnd(n, folds, fold)}

\* Mutant: the embargo is left out behind the test.
TrainUnpurged(n, folds, fold, embargo) ==
    {i \in Indices(n) : i < FoldStart(n, folds, fold) - embargo \/ i >= FoldEnd(n, folds, fold)}

Train(n, folds, fold, embargo) ==
    {i \in Indices(n) : \/ i < FoldStart(n, folds, fold) - embargo
                        \/ i >= FoldEnd(n, folds, fold) + embargo}
=============================================================================
