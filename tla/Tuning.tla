------------------------------- MODULE Tuning -------------------------------
(***************************************************************************)
(* review.py, tune: labelled cases are replayed across score thresholds    *)
(* and the F1-best threshold is recommended. A label is a record of the    *)
(* run and case it is about, the score and whether the case was accepted.  *)
(***************************************************************************)
EXTENDS Signals

Scored(labels) == {l \in labels : l.score # NoScore}

Accepted(labels) == {l \in labels : l.accepted}

Thresholds(labels) == {l.score : l \in Scored(labels)}

Flagged(labels, t) == {l \in Scored(labels) : l.score >= t}

\* round(t, 6)
Printed(t) == 10 * Rounded(t, 10)

\* The point of one threshold, F1 in ten-thousandths. 2pr/(p+r) is 2tp / (2tp + fp + fn).
Point(labels, t) ==
    LET tp == Cardinality(Accepted(Flagged(labels, t)))
        fp == Cardinality(Flagged(labels, t)) - tp
        fn == Cardinality(Accepted(Scored(labels))) - tp
    IN  [threshold |-> Printed(t),
         f1 |-> IF tp = 0 THEN 0 ELSE Rounded(10000 * 2 * tp, 2 * tp + fp + fn)]

\* Mutant: a tie goes to the lower threshold.
BetterLow(p, q) == p.f1 > q.f1 \/ (p.f1 = q.f1 /\ p.threshold < q.threshold)

\* key=lambda p: (p.f1, p.threshold)
Better(p, q) == p.f1 > q.f1 \/ (p.f1 = q.f1 /\ p.threshold > q.threshold)

\* The score tune(...).recommended is about, as a set of at most one: empty
\* without a scored label. max takes the first of equals.
Recommended(labels) ==
    {t \in Thresholds(labels) :
        \A u \in Thresholds(labels) \ {t} :
            \/ Better(Point(labels, t), Point(labels, u))
            \/ t < u /\ ~Better(Point(labels, u), Point(labels, t))}

-----------------------------------------------------------------------------
\* The reference: precision and recall as the shares they are, compared
\* without rounding.

Hits(labels, t) == {l \in Scored(labels) : l.accepted /\ l.score >= t}

\* With F1 = 2 |hits| / (|flagged| + |accepted|), u beats t by at most a
\* ten-thousandth times margin.
BeatenByAtMost(labels, t, u, margin) ==
    LET hits(x) == 2 * Cardinality(Hits(labels, x))
        sizes(x) == Cardinality(Flagged(labels, x)) + Cardinality(Accepted(Scored(labels)))
    IN  10000 * hits(u) * sizes(t) <= 10000 * hits(t) * sizes(u) + margin * sizes(t) * sizes(u)

AsGood(labels, t, u) == BeatenByAtMost(labels, t, u, 0)

\* The highest of the thresholds no other beats.
F1Best(labels) ==
    LET best == {t \in Thresholds(labels) :
                    \A u \in Thresholds(labels) : AsGood(labels, t, u)}
    IN  {t \in best : \A u \in best : t >= u}
=============================================================================
