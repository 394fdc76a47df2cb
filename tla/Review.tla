------------------------------- MODULE Review -------------------------------
(***************************************************************************)
(* review.py and the endpoints over it: reviewers decide the cases of one  *)
(* bot's runs, a browser lists the cases of a run and a tuner collects     *)
(* labels, while runs go on. The store and the decisions are two databases *)
(* with a lock each: every read and write is a transaction of its own.     *)
(***************************************************************************)
EXTENDS ResultStore, Tuning

CONSTANTS
    Reviewers,  \* requests to the decision endpoint
    Results,    \* results a run may have: the scores of its records, in order
    Numbers,    \* case numbers requests name, of the run or not
    Limit,      \* runs collect_labels looks at (50 in the code)
    Wishes,     \* decisions reviewers send, known ones or not
    MaxSaves,   \* bound: decisions saved
    MaxReads    \* bound: listings and tunings begun

ASSUME ReviewAssumption ==
    /\ Results \subseteq Seq(Nat \cup {NoScore})
    /\ Numbers \subseteq Nat
    /\ Limit \in Nat /\ MaxSaves \in Nat /\ MaxReads \in Nat

Decisions == {"accepted", "rejected", "pending"}

\* A run has the cases 1..n of its n records.
Case == [run : Runs, number : Nat]

VARIABLES
    data,       \* data[r]: the scores of the stored records of r
    decided,    \* the decision rows, a function on the cases that have one
    looked,     \* looked[p]: the case p found and will decide, as a set
    listing,    \* the listing under way: its run, its steps so far, what it read
    todo,       \* runs the tuner has still to collect, with their data
    labels,     \* labels the tuner collected
    quiet,      \* no one but the tuner or browser wrote since it began
    saves, reads

reviewVars == <<data, decided, looked, listing, todo, labels, quiet, saves, reads>>
vars == <<storeVars, reviewVars>>

Label == [run : Runs, number : Nat, score : Nat \cup {NoScore}, accepted : BOOLEAN]

Listing == [step : {"none", "got", "shown", "done"}, run : Runs \cup {0},
            total : Nat, shown : Nat, pending : Int]
NoListing == [step |-> "none", run |-> 0, total |-> 0, shown |-> 0, pending |-> 0]

TypeOK ==
    /\ StoreTypeOK
    /\ data \in [Runs -> Seq(Nat \cup {NoScore})]
    /\ DOMAIN decided \subseteq Case
    /\ \A k \in DOMAIN decided : decided[k] \in Decisions
    /\ looked \in [Reviewers -> SUBSET Case]
    /\ listing \in Listing
    /\ todo \subseteq [run : Runs, data : Seq(Nat \cup {NoScore})]
    /\ labels \subseteq Label
    /\ quiet \in BOOLEAN
    /\ saves \in 0..MaxSaves /\ reads \in 0..MaxReads

Init ==
    /\ StoreInit
    /\ data = [r \in Runs |-> <<>>]
    /\ decided = <<>>
    /\ looked = [p \in Reviewers |-> {}]
    /\ listing = NoListing
    /\ todo = {}
    /\ labels = {}
    /\ quiet = TRUE
    /\ saves = 0
    /\ reads = 0

-----------------------------------------------------------------------------
\* What a run's records and the decision rows say.

\* Mutant: records without a score get no number.
CasesScoredOnly(scores) ==
    LET scored == SelectSeq(scores, LAMBDA s : s # NoScore)
    IN  {[number |-> i, score |-> scored[i]] : i \in 1..Len(scored)}

\* build_cases: a case is numbered by its record's place.
BuildCases(scores) == {[number |-> i, score |-> scores[i]] : i \in 1..Len(scores)}

DecisionOf(r, i) ==
    LET k == [run |-> r, number |-> i]
    IN  IF k \in DOMAIN decided THEN decided[k] ELSE "pending"

\* Mutant: any decision row counts.
ReviewedRows(r) == Cardinality({k \in DOMAIN decided : k.run = r})

\* tally: accepted + rejected.
Reviewed(r) == Cardinality({k \in DOMAIN decided : k.run = r /\ decided[k] # "pending"})

\* Mutant: a case without a decision counts as rejected.
LabelsOfAll(r, scores) ==
    {[run |-> r, number |-> k.number, score |-> k.score,
      accepted |-> DecisionOf(r, k.number) = "accepted"] : k \in BuildCases(scores)}

\* collect_labels, one run: no row and a "pending" row are both skipped.
LabelsOf(r, scores) ==
    {[run |-> r, number |-> k.number, score |-> k.score,
      accepted |-> DecisionOf(r, k.number) = "accepted"] :
        k \in {k \in BuildCases(scores) : DecisionOf(r, k.number) # "pending"}}

\* history(bot, limit): the newest rows, of any status.
History(n) == {r \in Runs : Exists(r) /\ Cardinality({s \in Runs : Exists(s) /\ Newer(s, r)}) < n}

-----------------------------------------------------------------------------
\* Runs, as the executor moves them; the records are there once it completed.

BeginRun(r, now) ==
    /\ CreateRunning(r, now)
    /\ quiet' = FALSE
    /\ UNCHANGED <<data, decided, looked, listing, todo, labels, saves, reads>>

CompleteRun(r, scores) ==
    /\ status[r] = "running"
    /\ MarkCompleted(r)
    /\ data' = [data EXCEPT ![r] = scores]
    /\ quiet' = FALSE
    /\ UNCHANGED <<decided, looked, listing, todo, labels, saves, reads>>

FailRun(r) ==
    /\ status[r] = "running"
    /\ MarkFailed(r)
    /\ quiet' = FALSE
    /\ UNCHANGED <<data, decided, looked, listing, todo, labels, saves, reads>>

\* Mutant: the case is not looked up in the run.
LookUpAny(p, r, i) ==
    /\ looked[p] = {}
    /\ Exists(r)
    /\ looked' = [looked EXCEPT ![p] = {[run |-> r, number |-> i]}]
    /\ UNCHANGED <<storeVars, data, decided, listing, todo, labels, quiet, saves, reads>>

\* decide: the run and the case are looked up, ...
LookUp(p, r, i) ==
    /\ looked[p] = {}
    /\ Exists(r)
    /\ \E k \in BuildCases(data[r]) : k.number = i
    /\ looked' = [looked EXCEPT ![p] = {[run |-> r, number |-> i]}]
    /\ UNCHANGED <<storeVars, data, decided, listing, todo, labels, quiet, saves, reads>>

\* Mutant: the decision is not checked.
SaveUnchecked(p, wish) ==
    /\ saves < MaxSaves
    /\ \E k \in looked[p] : decided' = [j \in DOMAIN decided \cup {k} |-> IF j = k THEN wish ELSE decided[j]]
    /\ looked' = [looked EXCEPT ![p] = {}]
    /\ quiet' = FALSE
    /\ saves' = saves + 1
    /\ UNCHANGED <<storeVars, data, listing, todo, labels, reads>>

\* ... and set_decision inserts or overwrites the row of that case; an unknown
\* decision is refused and the request over.
Save(p, wish) ==
    /\ saves < MaxSaves
    /\ \E k \in looked[p] :
        decided' = IF wish \in Decisions
                   THEN [j \in DOMAIN decided \cup {k} |-> IF j = k THEN wish ELSE decided[j]]
                   ELSE decided
    /\ looked' = [looked EXCEPT ![p] = {}]
    /\ quiet' = FALSE
    /\ saves' = saves + 1
    /\ UNCHANGED <<storeVars, data, listing, todo, labels, reads>>

-----------------------------------------------------------------------------
\* Reads that take several transactions. One listing or tuning at a time, of
\* which the last is remembered.

Reading == todo # {} \/ listing.step \in {"got", "shown"}

\* list_cases: the run, ...
GetRun(r) ==
    /\ ~Reading
    /\ reads < MaxReads
    /\ Exists(r)
    /\ listing' = [NoListing EXCEPT !.step = "got", !.run = r, !.total = Len(data[r])]
    /\ labels' = {}
    /\ quiet' = TRUE
    /\ reads' = reads + 1
    /\ UNCHANGED <<storeVars, data, decided, looked, todo, saves>>

\* ... the decision of each of its cases, ...
ShowCases ==
    /\ listing.step = "got"
    /\ listing' = [listing EXCEPT
                    !.step = "shown",
                    !.shown = Cardinality({i \in 1..listing.total :
                                            DecisionOf(listing.run, i) = "pending"})]
    /\ UNCHANGED <<storeVars, data, decided, looked, todo, labels, quiet, saves, reads>>

\* ... and the tally, read again.
Tally ==
    /\ listing.step = "shown"
    /\ listing' = [listing EXCEPT !.step = "done", !.pending = listing.total - Reviewed(listing.run)]
    /\ UNCHANGED <<storeVars, data, decided, looked, todo, labels, quiet, saves, reads>>

\* tuning_report: the history in one transaction, ...
StartTuning ==
    /\ ~Reading
    /\ reads < MaxReads
    /\ todo' = {[run |-> r, data |-> data[r]] : r \in History(Limit)}
    /\ labels' = {}
    /\ listing' = NoListing
    /\ quiet' = TRUE
    /\ reads' = reads + 1
    /\ UNCHANGED <<storeVars, data, decided, looked, saves>>

\* ... then the decisions of one run after the other, newest first.
CollectRun ==
    /\ \E t \in todo :
        /\ \A u \in todo : ~Newer(u.run, t.run)
        /\ labels' = labels \cup LabelsOf(t.run, t.data)
        /\ todo' = todo \ {t}
    /\ UNCHANGED <<storeVars, data, decided, looked, listing, quiet, saves, reads>>

Next ==
    \/ \E r \in Runs :
        \/ \E now \in Stamps : BeginRun(r, now)
        \/ \E scores \in Results : CompleteRun(r, scores)
        \/ FailRun(r)
        \/ GetRun(r)
    \/ \E p \in Reviewers :
        \/ \E r \in Runs, i \in Numbers : LookUp(p, r, i)
        \/ \E wish \in Wishes : Save(p, wish)
    \/ ShowCases
    \/ Tally
    \/ StartTuning
    \/ CollectRun

Spec == Init /\ [][Next]_vars

-----------------------------------------------------------------------------

\* A decision is always about a record the run has, although the run and the
\* decision are read and written in different databases: a stored result never
\* changes under a reviewer (routers.py:196-219).
DecisionsHaveCases ==
    \A k \in DOMAIN decided :
        /\ status[k.run] = "completed"
        /\ k.number \in DOMAIN data[k.run]

\* A label carries the score of the very record that was decided, and a case
\* is labelled once, whatever runs and decisions come in while the tuner
\* collects (review.py:88-94, 191-204).
LabelsMatchRecords ==
    /\ \A l \in labels :
        /\ [run |-> l.run, number |-> l.number] \in DOMAIN decided
        /\ l.score = data[l.run][l.number]
    /\ \A k, l \in labels : k.run = l.run /\ k.number = l.number => k = l

\* A tuning nobody wrote beside used every accepted and rejected case of the
\* newest runs, and nothing else (review.py:191-204, store.py:178-186).
QuietTuningIsComplete ==
    quiet /\ todo = {} /\ listing.step = "none" =>
        labels = {[run |-> k.run, number |-> k.number, score |-> data[k.run][k.number],
                   accepted |-> decided[k] = "accepted"] :
                    k \in {k \in DOMAIN decided :
                            decided[k] # "pending" /\ k.run \in History(Limit)}}

\* In a listing nobody wrote beside, the tally counts as pending the cases that
\* are shown as pending: a stored "pending" and no row at all are the same
\* (routers.py:167-193, review.py:146-154).
TallyMatchesCases ==
    quiet /\ listing.step = "done" => listing.pending = listing.shown

\* Some threshold is recommended as soon as a scored case is labelled; no other
\* beats it by more than the rounding of F1 to four digits hides, and none that
\* is exactly as good is higher, for whatever labels were collected so far
\* (review.py:207-234).
RecommendationIsSound ==
    /\ Thresholds(labels) # {} => Recommended(labels) # {}
    /\ \A t \in Recommended(labels), u \in Thresholds(labels) :
        /\ BeatenByAtMost(labels, t, u, 1)
        /\ AsGood(labels, t, u) /\ AsGood(labels, u, t) => t >= u

\* The recommended threshold, as it is printed and put into a bot's result(),
\* flags exactly the scored cases its precision and recall were computed for
\* (review.py:215-224, signal.py:60, 88).
RecommendationCarriesOver ==
    \A t \in Recommended(labels) :
        {l \in Scored(labels) : Passes(l.score, Printed(t))} = Flagged(labels, t)
=============================================================================
