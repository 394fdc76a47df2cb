---------------------------- MODULE TuningProofs ----------------------------
(***************************************************************************)
(* Proofs about tune, for any finite set of labels: rounding F1 to four    *)
(* digits and a threshold to six does not spoil the recommendation when    *)
(* the scores come from signal().                                          *)
(***************************************************************************)
EXTENDS Tuning, FiniteSetTheorems, WellFoundedInduction, TLAPS

-----------------------------------------------------------------------------
\* Rounding.

LEMMA Division ==
    ASSUME NEW n \in Nat, NEW d \in Nat \ {0}
    PROVE  n \div d \in Nat /\ n % d \in 0..(d - 1) /\ n = (n \div d) * d + (n % d)
  <1>1. n \div d \in Int /\ n % d \in 0..(d - 1) /\ n = (n \div d) * d + (n % d)
    OBVIOUS
  <1>2. CASE n \div d < 0
    <2>1. \A q \in Int : q < 0 => q * d + d <= 0
      OBVIOUS
    <2> DEFINE q == n \div d
               r == n % d
    <2>2. q \in Int /\ r \in 0..(d - 1) /\ n = q * d + r /\ q * d + d <= 0
      BY <1>1, <1>2, <2>1
    <2> HIDE DEF q, r
    <2> QED
      BY <2>2
  <1> QED
    BY <1>1, <1>2

\* The two factors may be swapped.
LEMMA TimesMonotone ==
    ASSUME NEW a \in Int, NEW b \in Int, a <= b, NEW c \in Nat
    PROVE  a * c <= b * c
  OBVIOUS

\* Rounded is off by a half at most.
LEMMA RoundedIsNear ==
    ASSUME NEW n \in Nat, NEW d \in Nat \ {0}
    PROVE  /\ Rounded(n, d) \in Nat
           /\ 2 * Rounded(n, d) * d <= 2 * n + d
           /\ 2 * n <= 2 * Rounded(n, d) * d + d
  <1> DEFINE q == n \div d
             r == n % d
  <1>1. q \in Nat /\ r \in 0..(d - 1) /\ n = q * d + r
    BY Division
  <1>2. Rounded(n, d) = IF 2 * r > d \/ (2 * r = d /\ q % 2 = 1) THEN q + 1 ELSE q
    BY DEF Rounded
  <1> HIDE DEF q, r
  <1>3. CASE Rounded(n, d) = q + 1 /\ 2 * r >= d
    BY <1>1, <1>3
  <1>4. CASE Rounded(n, d) = q /\ 2 * r <= d
    BY <1>1, <1>4
  <1> QED
    BY <1>1, <1>2, <1>3, <1>4

\* Rounded looks at the value of a fraction, not at its terms.
LEMMA RoundedOfEquals ==
    ASSUME NEW n1 \in Nat, NEW n2 \in Nat, NEW d1 \in Nat \ {0}, NEW d2 \in Nat \ {0},
           n1 * d2 = n2 * d1
    PROVE  Rounded(n1, d1) = Rounded(n2, d2)
  <1> DEFINE q1 == n1 \div d1
             r1 == n1 % d1
             q2 == n2 \div d2
             r2 == n2 % d2
             D == d1 * d2
  <1>1. /\ q1 \in Nat /\ r1 \in 0..(d1 - 1) /\ n1 = q1 * d1 + r1
        /\ q2 \in Nat /\ r2 \in 0..(d2 - 1) /\ n2 = q2 * d2 + r2
    BY Division
  <1>2. Rounded(n1, d1) = IF 2 * r1 > d1 \/ (2 * r1 = d1 /\ q1 % 2 = 1) THEN q1 + 1 ELSE q1
    BY DEF Rounded
  <1>3. Rounded(n2, d2) = IF 2 * r2 > d2 \/ (2 * r2 = d2 /\ q2 % 2 = 1) THEN q2 + 1 ELSE q2
    BY DEF Rounded
  <1> HIDE DEF q1, q2, r1, r2
  <1>4. q1 * D + r1 * d2 = q2 * D + r2 * d1
    BY <1>1
  <1>5. r1 * d2 \in Nat /\ r2 * d1 \in Nat /\ r1 * d2 < D /\ r2 * d1 < D /\ D \in Nat
    BY <1>1
  <1>6. q1 = q2
    <2> HIDE DEF D
    <2> QED
      BY <1>1, <1>4, <1>5
  <1>7. r1 * d2 = r2 * d1
    BY <1>1, <1>4, <1>5, <1>6
  <1>8. (2 * r1 > d1 <=> 2 * r2 > d2) /\ (2 * r1 = d1 <=> 2 * r2 = d2)
    BY <1>1, <1>7
  <1> QED
    BY <1>2, <1>3, <1>6, <1>8

-----------------------------------------------------------------------------
\* Scores with three digits.

Grid == {10000 * k : k \in 0..1000}

\* signal() and prediction() make a score with three digits of any number.
THEOREM SignalsAreOnTheGrid ==
    ASSUME NEW x \in Int, x # NoScore
    PROVE  Signal(x) \in Grid /\ Prediction(x) \in Grid
  <1>1. Clamped(x) \in Nat /\ Clamped(x) <= 10000000
    BY SMT DEF Clamped, One
  <1> DEFINE c == Clamped(x)
             k == Rounded(c, 10000)
  <1>2. c \in Nat /\ c <= 10000000
    BY <1>1
  <1>3. k \in Nat /\ 2 * k * 10000 <= 2 * c + 10000
    <2> HIDE DEF c
    <2> QED
      BY <1>2, RoundedIsNear
  <1>4. Signal(x) = 10000 * k /\ Prediction(x) = 10000 * k
    BY DEF Signal, Prediction
  <1> HIDE DEF c, k
  <1>5. k \in 0..1000
    BY <1>2, <1>3, SMT
  <1> QED
    BY <1>4, <1>5 DEF Grid

\* A score with three digits is printed as it is.
LEMMA GridIsPrinted ==
    ASSUME NEW t \in Grid
    PROVE  t \in Nat /\ Printed(t) = t
  <1>1. PICK k \in 0..1000 : t = 10000 * k
    BY DEF Grid
  <1>2. t \div 10 = 1000 * k /\ t % 10 = 0
    BY <1>1
  <1> QED
    BY <1>1, <1>2 DEF Printed, Rounded

-----------------------------------------------------------------------------
\* The records of a run.

Score == Int \cup {NoScore}

\* result() keeps exactly the signals the threshold leaves, each once, by
\* falling score and, among equals, in the order the bot made them
\* (signal.py:85-90): order says at which place each of them was.
THEOREM ResultSorts ==
    ASSUME NEW S \in Seq(Score), NEW threshold
    PROVE  LET flagged == Flagging(S, threshold)
               n == Cardinality(flagged)
           IN  /\ n \in Nat
               /\ \E order \in Bijection(1..n, flagged) :
                    /\ Result(S, threshold) = [k \in 1..n |-> S[order[k]]]
                    /\ \A k, m \in 1..n : k < m => Ahead(S, order[k], order[m])
  <1> DEFINE F == Flagging(S, threshold)
             n == Cardinality(F)
             Ahd(i) == {j \in F : Ahead(S, j, i)}
             place(i) == Cardinality(Ahd(i)) + 1
             order == [k \in 1..n |-> CHOOSE i \in F : place(i) = k]
  <1>1. F \subseteq 1..Len(S) /\ Len(S) \in Nat /\ \A i \in F : S[i] \in Score
    BY DEF Flagging
  <1>2. IsFiniteSet(F) /\ n \in Nat
    <2>1. IsFiniteSet(1..Len(S))
      BY <1>1, FS_Interval
    <2> QED
      BY <1>1, <2>1, FS_Subset, FS_CardinalityType
  <1>3. \A i \in F : Rank(S[i]) \in Int /\ i \in Int
    BY <1>1 DEF Rank, Score
  <1> HIDE DEF F
  <1>4. /\ \A i, j, k \in F : Ahead(S, i, j) /\ Ahead(S, j, k) => Ahead(S, i, k)
        /\ \A i \in F : ~Ahead(S, i, i)
        /\ \A i, j \in F : i = j \/ Ahead(S, i, j) \/ Ahead(S, j, i)
    BY <1>3 DEF Ahead
  <1>5. \A i \in F : IsFiniteSet(Ahd(i)) /\ Ahd(i) \subseteq F /\ Cardinality(Ahd(i)) \in Nat
    BY <1>2, FS_Subset, FS_CardinalityType
  <1>6. \A i, j \in F : Ahead(S, i, j) => place(i) < place(j)
    <2> SUFFICES ASSUME NEW i \in F, NEW j \in F, Ahead(S, i, j)
                 PROVE  Cardinality(Ahd(i)) < Cardinality(Ahd(j))
      <3> HIDE DEF Ahd
      <3> QED
        BY <1>5
    <2>1. Ahd(i) \subseteq Ahd(j) /\ i \in Ahd(j) /\ i \notin Ahd(i)
      BY <1>4
    <2>2. Ahd(i) # Ahd(j)
      BY <2>1
    <2> HIDE DEF Ahd
    <2>3. /\ Cardinality(Ahd(i)) <= Cardinality(Ahd(j))
          /\ Cardinality(Ahd(i)) = Cardinality(Ahd(j)) => Ahd(i) = Ahd(j)
      BY <1>5, <2>1, FS_Subset
    <2> QED
      BY <1>5, <2>2, <2>3
  <1>7. \A i \in F : place(i) \in 1..n
    <2> SUFFICES ASSUME NEW i \in F
                 PROVE  Cardinality(Ahd(i)) < n
      <3> HIDE DEF Ahd, n
      <3> QED
        BY <1>2, <1>5
    <2>1. Ahd(i) # F
      BY <1>4
    <2> HIDE DEF Ahd
    <2>2. Cardinality(Ahd(i)) <= n /\ (Cardinality(Ahd(i)) = n => Ahd(i) = F)
      BY <1>2, <1>5, FS_Subset
    <2> QED
      BY <1>2, <1>5, <2>1, <2>2
  <1> HIDE DEF place, Ahd
  <1>8. \A i \in F : place(i) \in Nat
    BY <1>2, <1>7
  <1>9. \A i, j \in F : place(i) = place(j) => i = j
    BY <1>4, <1>6, <1>8
  <1>10. \A k \in 1..n : \E i \in F : place(i) = k
    <2>2. IsFiniteSet(1..n) /\ Cardinality(1..n) = n
      BY <1>2, FS_Interval
    <2> DEFINE Img == {place(i) : i \in F}
               at == [i \in F |-> place(i)]
    <2>3. at \in Bijection(F, Img)
      BY <1>9 DEF Bijection, Injection, Surjection, IsInjective
    <2>4. IsFiniteSet(Img) /\ Cardinality(Img) = n
      <3> HIDE DEF Img, at
      <3> QED
        BY <1>2, <2>3, FS_Bijection DEF ExistsBijection
    <2>5. Img \subseteq 1..n
      BY <1>7
    <2>6. Img = 1..n
      <3> HIDE DEF Img
      <3> QED
        BY <2>2, <2>4, <2>5, FS_Subset
    <2> QED
      BY <2>6
  <1>11. \A k \in 1..n : order[k] \in F /\ place(order[k]) = k
    BY <1>10
  <1>12. order \in Bijection(1..n, F)
    <2> order \in [1..n -> F] /\ \A k, m \in 1..n : order[k] = order[m] => k = m
      BY <1>11
    <2> \A i \in F : \E k \in 1..n : order[k] = i
      <3> SUFFICES ASSUME NEW i \in F
                   PROVE  order[place(i)] = i
        BY <1>7
      <3> HIDE DEF order
      <3> QED
        BY <1>7, <1>9, <1>11
    <2> HIDE DEF order
    <2> QED
      BY DEF Bijection, Injection, Surjection, IsInjective
  <1>13. \A k, m \in 1..n : k < m => Ahead(S, order[k], order[m])
    <2> SUFFICES ASSUME NEW k \in 1..n, NEW m \in 1..n, k < m, ~Ahead(S, order[k], order[m])
                 PROVE  FALSE
      OBVIOUS
    <2>1. order[k] = order[m] \/ Ahead(S, order[m], order[k])
      BY <1>4, <1>11
    <2> QED
      BY <1>2, <1>6, <1>11, <2>1
  <1>14. Result(S, threshold) = [k \in 1..n |-> S[order[k]]]
    BY DEF Result, F, place, Ahd
  <1> QED
    BY <1>2, <1>12, <1>13, <1>14 DEF F

\* A run whose bot frames signals with result() has scores on the grid only.
LEMMA ResultsAreOnTheGrid ==
    ASSUME NEW S \in Seq(Score), NEW threshold
    PROVE  LET scores == [i \in DOMAIN S |-> Signal(S[i])]
           IN  Result(scores, threshold) \in Seq(Grid \cup {NoScore})
  <1> DEFINE scores == [i \in DOMAIN S |-> Signal(S[i])]
  <1>1. Grid \subseteq Int
    BY GridIsPrinted
  <1>2. \A i \in DOMAIN S : scores[i] \in Grid \cup {NoScore}
    <2> SUFFICES ASSUME NEW i \in DOMAIN S
                 PROVE  Signal(S[i]) \in Grid \cup {NoScore}
      OBVIOUS
    <2>1. S[i] \in Score
      OBVIOUS
    <2>2. CASE S[i] = NoScore
      BY <2>2 DEF Signal
    <2>3. CASE S[i] # NoScore
      BY <2>1, <2>3, SignalsAreOnTheGrid DEF Score
    <2> QED
      BY <2>2, <2>3
  <1>3. scores \in Seq(Score) /\ DOMAIN scores = DOMAIN S
    <2> Len(S) \in Nat /\ DOMAIN S = 1..Len(S)
      OBVIOUS
    <2>1. scores \in [1..Len(S) -> Score]
      BY <1>1, <1>2 DEF Score
    <2> QED
      BY <2>1
  <1> HIDE DEF scores
  <1> DEFINE F == Flagging(scores, threshold)
             n == Cardinality(F)
  <1>4. n \in Nat /\ \E order \in Bijection(1..n, F) :
                        Result(scores, threshold) = [k \in 1..n |-> scores[order[k]]]
    BY <1>3, ResultSorts
  <1>5. F \subseteq DOMAIN S
    BY <1>3 DEF Flagging
  <1> HIDE DEF F, n
  <1>6. PICK order \in [1..n -> F] : Result(scores, threshold) = [k \in 1..n |-> scores[order[k]]]
    BY <1>4 DEF Bijection, Injection
  <1>7. Result(scores, threshold) \in [1..n -> Grid \cup {NoScore}]
    BY <1>2, <1>5, <1>6
  <1> QED
    BY <1>4, <1>7 DEF scores

-----------------------------------------------------------------------------
\* The point of a threshold.

\* Labels of records that signal() made the scores of.
OfSignals(L) ==
    /\ IsFiniteSet(L)
    /\ \A l \in L : l.accepted \in BOOLEAN /\ l.score \in Grid \cup {NoScore}

\* The terms of F1 as a fraction.
Twice(L, t) == 2 * Cardinality(Hits(L, t))
Size(L, t) == Cardinality(Flagged(L, t)) + Cardinality(Accepted(Scored(L)))

\* The point of a threshold has the threshold itself and an F1 that is off by a
\* half of a ten-thousandth at most.
LEMMA PointIsNear ==
    ASSUME NEW L, OfSignals(L), NEW t \in Thresholds(L)
    PROVE  /\ t \in Nat /\ Twice(L, t) \in Nat /\ Size(L, t) \in Nat \ {0}
           /\ Point(L, t).threshold = t
           /\ Point(L, t).f1 = IF Twice(L, t) = 0 THEN 0
                                 ELSE Rounded(10000 * Twice(L, t), Size(L, t))
           /\ Point(L, t).f1 \in Nat
           /\ 2 * Point(L, t).f1 * Size(L, t) <= 2 * (10000 * Twice(L, t)) + Size(L, t)
           /\ 2 * (10000 * Twice(L, t)) <= 2 * Point(L, t).f1 * Size(L, t) + Size(L, t)
  <1>1. PICK l \in Scored(L) : l.score = t
    BY DEF Thresholds
  <1>2. t \in Nat /\ Printed(t) = t /\ l \in Flagged(L, t)
    BY <1>1, GridIsPrinted DEF Scored, OfSignals, Flagged
  <1>3. Flagged(L, t) \subseteq L /\ Hits(L, t) \subseteq L /\ Accepted(Scored(L)) \subseteq L
    BY DEF Flagged, Hits, Accepted, Scored
  <1>4. /\ IsFiniteSet(Flagged(L, t)) /\ IsFiniteSet(Hits(L, t))
        /\ IsFiniteSet(Accepted(Scored(L)))
    BY <1>3, FS_Subset DEF OfSignals
  <1>5. /\ Cardinality(Flagged(L, t)) \in Nat /\ Cardinality(Hits(L, t)) \in Nat
        /\ Cardinality(Accepted(Scored(L))) \in Nat
    BY <1>4, FS_CardinalityType
  <1>6. Cardinality(Flagged(L, t)) # 0
    BY <1>2, <1>4, FS_EmptySet
  <1>7. Accepted(Flagged(L, t)) = Hits(L, t)
    BY DEF Accepted, Flagged, Hits
  <1> DEFINE tp == Cardinality(Hits(L, t))
             flagged == Cardinality(Flagged(L, t))
             accepted == Cardinality(Accepted(Scored(L)))
             s == Size(L, t)
             f == Point(L, t).f1
  <1>8. Point(L, t) = [threshold |-> Printed(t),
                       f1 |-> IF tp = 0 THEN 0
                                ELSE Rounded(10000 * 2 * tp,
                                             2 * tp + (flagged - tp) + (accepted - tp))]
    BY <1>7 DEF Point
  <1>9. /\ 10000 * 2 * tp = 10000 * Twice(L, t)
        /\ 2 * tp + (flagged - tp) + (accepted - tp) = s
        /\ s \in Nat \ {0} /\ Twice(L, t) \in Nat /\ (tp = 0 <=> Twice(L, t) = 0)
    <2> HIDE DEF s
    <2>1. Twice(L, t) = 2 * tp /\ s = flagged + accepted
      BY DEF Twice, Size, s
    <2> HIDE DEF tp, flagged, accepted
    <2>2. tp \in Nat /\ flagged \in Nat \ {0} /\ accepted \in Nat
      BY <1>5, <1>6 DEF tp, flagged, accepted
    <2> QED
      BY <2>1, <2>2
  <1>10. f = (IF Twice(L, t) = 0 THEN 0 ELSE Rounded(10000 * Twice(L, t), s))
    BY <1>8, <1>9
  <1> HIDE DEF tp, flagged, accepted, s, f
  <1>11. /\ f \in Nat
         /\ 2 * f * s <= 2 * (10000 * Twice(L, t)) + s
         /\ 2 * (10000 * Twice(L, t)) <= 2 * f * s + s
    <2>1. 10000 * Twice(L, t) \in Nat
      BY <1>9
    <2>2. CASE Twice(L, t) = 0
      BY <1>9, <1>10, <2>2
    <2>3. CASE Twice(L, t) # 0
      <3> DEFINE n == 10000 * Twice(L, t)
      <3>1. n \in Nat /\ s \in Nat \ {0} /\ f = Rounded(n, s)
        BY <1>9, <1>10, <2>1, <2>3
      <3> HIDE DEF n
      <3>2. f \in Nat /\ 2 * f * s <= 2 * n + s /\ 2 * n <= 2 * f * s + s
        BY <3>1, RoundedIsNear
      <3> QED
        BY <3>2 DEF n
    <2> QED
      BY <2>2, <2>3
  <1>12. Point(L, t).threshold = t
    BY <1>2, <1>8
  <1> QED
    BY <1>2, <1>9, <1>10, <1>11, <1>12 DEF s, f

LEMMA BeatenBy ==
    ASSUME NEW L, NEW t, NEW u, NEW m
    PROVE  BeatenByAtMost(L, t, u, m) <=>
                10000 * Twice(L, u) * Size(L, t) <=
                    10000 * Twice(L, t) * Size(L, u) + m * Size(L, t) * Size(L, u)
  BY DEF BeatenByAtMost, Twice, Size

-----------------------------------------------------------------------------
\* The order max goes by.

Before(L, t, u) ==
    \/ Better(Point(L, t), Point(L, u))
    \/ t < u /\ ~Better(Point(L, u), Point(L, t))

LEMMA BeforeIsTotalOrder ==
    ASSUME NEW L, OfSignals(L)
    PROVE  /\ \A t, u, v \in Thresholds(L) :
                Before(L, t, u) /\ Before(L, u, v) => Before(L, t, v)
           /\ \A t, u \in Thresholds(L) : ~(Before(L, t, u) /\ Before(L, u, t))
           /\ \A t, u \in Thresholds(L) : t # u => Before(L, t, u) \/ Before(L, u, t)
  <1>1. \A t \in Thresholds(L) :
            Point(L, t).f1 \in Nat /\ Point(L, t).threshold = t /\ t \in Nat
    BY PointIsNear
  <1>2. \A t, u \in Thresholds(L) :
            Before(L, t, u) <=> \/ Point(L, t).f1 > Point(L, u).f1
                                \/ Point(L, t).f1 = Point(L, u).f1 /\ t > u
    BY <1>1 DEF Before, Better
  <1> QED
    BY <1>1, <1>2

\* One threshold is recommended as soon as a scored case is labelled, and never
\* two (review.py:230).
THEOREM OneIsRecommended ==
    ASSUME NEW L, OfSignals(L), Thresholds(L) # {}
    PROVE  \E t \in Thresholds(L) : Recommended(L) = {t}
  <1> DEFINE Beaters(t) == {u \in Thresholds(L) : Before(L, u, t)}
             T == {Beaters(t) : t \in Thresholds(L)}
             R == StrictSubsetOrdering(Thresholds(L))
  <1>1. IsFiniteSet(Thresholds(L))
    <2>1. Scored(L) \subseteq L
      BY DEF Scored
    <2>2. IsFiniteSet(Scored(L))
      BY <2>1, FS_Subset DEF OfSignals
    <2> DEFINE score == [l \in Scored(L) |-> l.score]
    <2>3. score \in Surjection(Scored(L), Thresholds(L))
      BY DEF Thresholds, Surjection
    <2> QED
      BY <2>2, <2>3, FS_Surjection
  <1>2. IsWellFoundedOn(R, SUBSET Thresholds(L))
    BY <1>1, FS_StrictSubsetOrderingWellFounded, FS_FiniteSubsetsOfFinite
  <1>3. T \subseteq SUBSET Thresholds(L) /\ T # {}
    OBVIOUS
  <1>4. PICK A \in T : \A B \in T : ~(<<B, A>> \in R)
    <2> HIDE DEF T, R
    <2> QED
      BY <1>2, <1>3, WFMin
  <1>5. PICK t \in Thresholds(L) : A = Beaters(t)
    BY <1>4
  <1>6. Beaters(t) = {}
    <2> SUFFICES ASSUME NEW u \in Beaters(t)
                 PROVE  FALSE
      OBVIOUS
    <2>1. Beaters(u) \subseteq Beaters(t) /\ u \in Beaters(t) /\ u \notin Beaters(u)
      BY BeforeIsTotalOrder
    <2>2. <<Beaters(u), Beaters(t)>> \in R
      BY <2>1 DEF StrictSubsetOrdering
    <2> QED
      BY <1>4, <1>5, <2>2
  <1>7. \A u \in Thresholds(L) \ {t} : Before(L, t, u)
    BY <1>6, BeforeIsTotalOrder
  <1>8. \A u \in Thresholds(L) : u \in Recommended(L) <=>
            \A v \in Thresholds(L) \ {u} : Before(L, u, v)
    BY DEF Recommended, Before
  <1> HIDE DEF Beaters, T, R
  <1> QED
    BY <1>7, <1>8, BeforeIsTotalOrder DEF Recommended

-----------------------------------------------------------------------------
\* Soundness.

\* What a fraction n / d rounded to f loses against one rounded to no more.
LEMMA RoundingHidesAtMostOne ==
    ASSUME NEW n1 \in Nat, NEW n2 \in Nat, NEW d1 \in Nat, NEW d2 \in Nat,
           NEW f1 \in Nat, NEW f2 \in Nat, f2 <= f1,
           2 * f1 * d1 <= 2 * n1 + d1, 2 * n2 <= 2 * f2 * d2 + d2
    PROVE  n2 * d1 <= n1 * d2 + d1 * d2
  <1>1. (2 * n2) * d1 <= (2 * f2 * d2 + d2) * d1
    BY TimesMonotone
  <1>2. f2 * (d2 * d1) <= f1 * (d1 * d2)
    BY TimesMonotone
  <1>3. (2 * f1 * d1) * d2 <= (2 * n1 + d1) * d2
    BY TimesMonotone
  <1> QED
    BY <1>1, <1>2, <1>3

\* For any finite set of labels whose scores signal() made: some threshold is
\* recommended, no other beats it by more than the rounding of F1 hides, and of
\* those exactly as good it is the highest.
THEOREM RecommendationIsSoundFor ==
    ASSUME NEW L, OfSignals(L)
    PROVE  /\ Thresholds(L) # {} => Recommended(L) # {}
           /\ \A t \in Recommended(L), u \in Thresholds(L) :
                /\ BeatenByAtMost(L, t, u, 1)
                /\ AsGood(L, t, u) /\ AsGood(L, u, t) => t >= u
  <1>1. Thresholds(L) # {} => Recommended(L) # {}
    BY OneIsRecommended
  <1>2. ASSUME NEW t \in Recommended(L), NEW u \in Thresholds(L)
        PROVE  BeatenByAtMost(L, t, u, 1) /\ (AsGood(L, t, u) /\ AsGood(L, u, t) => t >= u)
    <2>1. t \in Thresholds(L) /\ (t = u \/ Before(L, t, u))
      BY <1>2 DEF Recommended, Before
    <2> DEFINE f(x) == Point(L, x).f1
               n(x) == 10000 * Twice(L, x)
               d(x) == Size(L, x)
    <2>2. \A x \in {t, u} :
            /\ x \in Nat /\ f(x) \in Nat /\ n(x) \in Nat /\ d(x) \in Nat \ {0}
            /\ 2 * f(x) * d(x) <= 2 * n(x) + d(x)
            /\ 2 * n(x) <= 2 * f(x) * d(x) + d(x)
      BY <2>1, PointIsNear
    <2>3. f(u) <= f(t) /\ (f(u) = f(t) => t >= u)
      <3>1. Point(L, t).threshold = t /\ Point(L, u).threshold = u
        BY <2>1, PointIsNear
      <3> HIDE DEF n, d
      <3> QED
        BY <2>1, <2>2, <3>1 DEF Before, Better
    <2>4. BeatenByAtMost(L, t, u, 1)
      <3>1. n(u) * d(t) <= n(t) * d(u) + d(t) * d(u)
        <4> HIDE DEF f, n, d
        <4> QED
          BY <2>2, <2>3, RoundingHidesAtMostOne
      <3>2. 1 * Size(L, t) * Size(L, u) = d(t) * d(u)
        BY <2>2
      <3> QED
        BY <3>1, <3>2, BeatenBy
    <2>5. ASSUME AsGood(L, t, u), AsGood(L, u, t)
          PROVE  f(u) = f(t)
      <3>1. n(u) * d(t) <= n(t) * d(u) + 0 * d(t) * d(u)
        BY <2>5, BeatenBy DEF AsGood
      <3>2. n(t) * d(u) <= n(u) * d(t) + 0 * d(u) * d(t)
        BY <2>5, BeatenBy DEF AsGood
      <3>3. n(u) * d(t) = n(t) * d(u)
        <4> HIDE DEF f, n, d
        <4> QED
          BY <2>2, <3>1, <3>2
      <3>4. \A x \in {t, u} :
                f(x) = IF Twice(L, x) = 0 THEN 0 ELSE Rounded(n(x), d(x))
        BY <2>1, PointIsNear
      <3>5. Twice(L, t) = 0 <=> Twice(L, u) = 0
        <4>1. \A x \in {t, u} : Twice(L, x) \in Nat
          BY <2>1, PointIsNear
        <4>2. \A x \in {t, u} : Twice(L, x) = 0 <=> n(x) = 0
          BY <4>1
        <4> HIDE DEF f, n, d
        <4>3. n(t) = 0 <=> n(u) = 0
          <5>1. \A a, b \in Nat, c, e \in Nat \ {0} : a * c = b * e => (a = 0 <=> b = 0)
            <6> SUFFICES ASSUME NEW a \in Nat, NEW b \in Nat, NEW c \in Nat \ {0},
                                NEW e \in Nat \ {0}, a * c = b * e
                         PROVE  a = 0 <=> b = 0
              OBVIOUS
            <6>1. (a > 0 => a * c > 0) /\ (b > 0 => b * e > 0)
              OBVIOUS
            <6> QED
              BY <6>1
          <5>2. n(u) \in Nat /\ n(t) \in Nat /\ d(u) \in Nat \ {0} /\ d(t) \in Nat \ {0}
            BY <2>2
          <5> QED
            BY <3>3, <5>1, <5>2
        <4> QED
          BY <4>2, <4>3
      <3>6. Rounded(n(u), d(u)) = Rounded(n(t), d(t))
        <4> HIDE DEF f, n, d
        <4>1. n(u) \in Nat /\ n(t) \in Nat /\ d(u) \in Nat \ {0} /\ d(t) \in Nat \ {0}
          BY <2>2
        <4> QED
          BY <3>3, <4>1, RoundedOfEquals
      <3> HIDE DEF f, n, d
      <3> QED
        BY <3>4, <3>5, <3>6
    <2> QED
      BY <2>3, <2>4, <2>5
  <1> QED
    BY <1>1, <1>2

\* A recommended threshold that signal() made, printed and used by result(),
\* passes exactly the scores it was computed for.
THEOREM PrintedThresholdCarriesOver ==
    ASSUME NEW L, OfSignals(L), NEW t \in Thresholds(L)
    PROVE  {l \in Scored(L) : Passes(l.score, Printed(t))} = Flagged(L, t)
  <1>1. Printed(t) = t
    BY GridIsPrinted DEF Thresholds, Scored, OfSignals
  <1>2. \A l \in Scored(L) : Passes(l.score, Printed(t)) <=> l.score >= t
    BY <1>1 DEF Passes, Rank, Scored
  <1> QED
    BY <1>2 DEF Flagged
=============================================================================
