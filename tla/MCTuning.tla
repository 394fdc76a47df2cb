------------------------------ MODULE MCTuning ------------------------------
(* The labels of many reviewed runs: 77 accepted and 3 rejected cases, as a *)
(* history of 50 runs easily holds. The label sets that come up while they  *)
(* are collected, from the highest score down.                              *)
EXTENDS Tuning

\* One accepted case scores 1; one rejected case scores as high as it, two
\* below.
Score(n) == IF n <= 76 THEN One ELSE IF n <= 78 THEN One \div 2 ELSE 0
Labels(n) == {[run |-> 1, number |-> i, score |-> Score(i), accepted |-> i <= 77] : i \in 1..n}

VARIABLE labels

Init == labels = {}

CollectCase == Cardinality(labels) < 80 /\ labels' = Labels(Cardinality(labels) + 1)

Next == CollectCase

Spec == Init /\ [][Next]_labels

\* review.py:6-7, "recommends the F1-best threshold (ties broken toward a
\* higher threshold = fewer flagged cases)".
RecommendsF1Best == Recommended(labels) = F1Best(labels)
=============================================================================
