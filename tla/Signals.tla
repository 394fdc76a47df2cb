------------------------------ MODULE Signals ------------------------------
(***************************************************************************)
(* signal.py and prediction.py: how a bot's scores become the records of a *)
(* run. Of a signal only its score is kept; the unit is 10^-7, finer than  *)
(* any rounding in the code, so a score the bot computed may have digits   *)
(* to lose.                                                                *)
(***************************************************************************)
EXTENDS Integers, Sequences, FiniteSets

CONSTANT NoScore    \* None: a record without a score, a result without a threshold

One == 10000000

\* The integer nearest to n / d, half to even.
Rounded(n, d) ==
    LET q == n \div d
        twice == 2 * (n % d)
    IN  IF twice > d \/ (twice = d /\ q % 2 = 1) THEN q + 1 ELSE q

Clamped(score) == IF score < 0 THEN 0 ELSE IF score > One THEN One ELSE score

\* Mutant: the score is clamped only.
SignalUnrounded(score) == IF score = NoScore THEN NoScore ELSE Clamped(score)

\* signal: the score is clamped to 0..1 and rounded to three digits.
Signal(score) ==
    IF score = NoScore THEN NoScore ELSE 10000 * Rounded(Clamped(score), 10000)

\* prediction: a signal that must have a score.
Prediction(probability) == Signal(probability)

\* s.score or 0.0
Rank(score) == IF score = NoScore THEN 0 ELSE score

Passes(score, threshold) == Rank(score) >= threshold

\* The places of the signals the threshold leaves.
Flagging(signals, threshold) ==
    {i \in DOMAIN signals : threshold = NoScore \/ Passes(signals[i], threshold)}

\* sorted(..., reverse=True) is stable.
Ahead(signals, i, j) ==
    \/ Rank(signals[i]) > Rank(signals[j])
    \/ Rank(signals[i]) = Rank(signals[j]) /\ i < j

\* result: what the threshold leaves, by falling score, equals in their order.
Result(signals, threshold) ==
    LET flagged == Flagging(signals, threshold)
        place(i) == Cardinality({j \in flagged : Ahead(signals, j, i)}) + 1
    IN  [k \in 1..Cardinality(flagged) |-> signals[CHOOSE i \in flagged : place(i) = k]]

PredictionResult(predictions, threshold) == Result(predictions, threshold)
=============================================================================
