---------------------------- MODULE ReviewProofs ----------------------------
(***************************************************************************)
(* Proofs about Review, for any runs, results, reviewers and bounds. The   *)
(* inductive invariant says what a read under way relies on: a run has     *)
(* records only once it completed, and then for good; what a reviewer      *)
(* found, or the tuner took along, is of those records; and a read nobody  *)
(* wrote beside has seen the present.                                      *)
(***************************************************************************)
EXTENDS Review, TuningProofs

\* Only a completed run has records.
RunInv == \A r \in Runs : data[r] = <<>> \/ status[r] = "completed"

HasCase(k) == status[k.run] = "completed" /\ k.number \in DOMAIN data[k.run]

\* A case that was found is there.
LookInv == \A p \in Reviewers : \A k \in looked[p] : HasCase(k)

\* What the tuner still has to collect is what the runs hold, or was nothing.
TodoInv ==
    \A t \in todo :
        /\ t.data = <<>> \/ t.data = data[t.run]
        /\ \A u \in todo : u.run = t.run => u = t
        /\ \A l \in labels : l.run # t.run

\* The label of a decided case.
LabelFor(k, scores) ==
    [run |-> k.run, number |-> k.number, score |-> scores[k.number],
     accepted |-> decided[k] = "accepted"]

Wanted ==
    {LabelFor(k, data[k.run]) :
        k \in {k \in DOMAIN decided : decided[k] # "pending" /\ k.run \in History(Limit)}}

\* A tuning nobody wrote beside has collected the runs it is done with.
QuietInv ==
    quiet /\ listing.step = "none" =>
        labels \cup UNION {LabelsOf(t.run, t.data) : t \in todo} = Wanted

PendingOf(r, n) == {i \in 1..n : DecisionOf(r, i) = "pending"}

\* A listing nobody wrote beside shows the run as it is.
ListInv ==
    listing.step # "none" => listing.run \in Runs /\ (quiet =>
        /\ listing.total = Len(data[listing.run])
        /\ listing.step \in {"shown", "done"} =>
            listing.shown = Cardinality(PendingOf(listing.run, listing.total))
        /\ listing.step = "done" => listing.pending = listing.total - Reviewed(listing.run))

IInv ==
    /\ TypeOK /\ RunInv /\ LookInv /\ DecisionsHaveCases
    /\ TodoInv /\ LabelsMatchRecords /\ QuietInv /\ ListInv

-----------------------------------------------------------------------------

\* collect_labels labels, of one run, the cases with a decision.
LEMMA LabelsOfSays ==
    ASSUME DOMAIN decided \subseteq Case, NEW r, NEW scores
    PROVE  LabelsOf(r, scores) =
            {LabelFor(k, scores) :
                k \in {k \in DOMAIN decided : /\ k.run = r /\ k.number \in 1..Len(scores)
                                              /\ decided[k] # "pending"}}
<1> DEFINE K == {k \in DOMAIN decided : /\ k.run = r /\ k.number \in 1..Len(scores)
                                        /\ decided[k] # "pending"}
           B == {c \in BuildCases(scores) : DecisionOf(r, c.number) # "pending"}
<1>1. ASSUME NEW k \in K
      PROVE  \E c \in B : LabelFor(k, scores) =
                [run |-> r, number |-> c.number, score |-> c.score,
                 accepted |-> DecisionOf(r, c.number) = "accepted"]
  <2> DEFINE c == [number |-> k.number, score |-> scores[k.number]]
  <2>1. k = [run |-> r, number |-> k.number]
    BY DEF Case
  <2>2. DecisionOf(r, k.number) = decided[k]
    BY <2>1 DEF DecisionOf
  <2>3. c \in B
    BY <2>2 DEF BuildCases
  <2>4. QED
    BY <2>2, <2>3 DEF LabelFor
<1>2. ASSUME NEW c \in B
      PROVE  \E k \in K : LabelFor(k, scores) =
                [run |-> r, number |-> c.number, score |-> c.score,
                 accepted |-> DecisionOf(r, c.number) = "accepted"]
  <2> DEFINE k == [run |-> r, number |-> c.number]
  <2>1. k \in DOMAIN decided /\ decided[k] = DecisionOf(r, c.number)
    BY DEF DecisionOf
  <2>2. c.number \in 1..Len(scores) /\ c.score = scores[c.number]
    BY DEF BuildCases
  <2>3. k \in K
    BY <2>1, <2>2
  <2>4. QED
    BY <2>1, <2>2, <2>3 DEF LabelFor
<1>3. QED
  BY <1>1, <1>2 DEF LabelsOf

\* A stored "pending" and no row at all count alike.
LEMMA TallyCounts ==
    ASSUME TypeOK, DecisionsHaveCases, NEW r \in Runs
    PROVE  /\ Reviewed(r) \in Nat
           /\ Cardinality(PendingOf(r, Len(data[r]))) = Len(data[r]) - Reviewed(r)
<1> DEFINE n == Len(data[r])
           P == PendingOf(r, n)
           D == {i \in 1..n : DecisionOf(r, i) # "pending"}
           K == {k \in DOMAIN decided : k.run = r /\ decided[k] # "pending"}
           f == [i \in D |-> [run |-> r, number |-> i]]
<1>1. n \in Nat /\ DOMAIN data[r] = 1..n
  BY DEF TypeOK
<1>2. IsFiniteSet(1..n) /\ Cardinality(1..n) = n
  BY <1>1, FS_Interval
<1>3. f \in Bijection(D, K)
  <2>1. \A i \in D : f[i] \in K
    BY DEF DecisionOf
  <2>2. \A i, j \in D : f[i] = f[j] => i = j
    OBVIOUS
  <2>3. ASSUME NEW k \in K PROVE \E i \in D : f[i] = k
    <3>1. k = [run |-> r, number |-> k.number] /\ k.number \in 1..n
      BY <1>1 DEF TypeOK, Case, DecisionsHaveCases
    <3>2. k.number \in D
      BY <3>1 DEF DecisionOf
    <3>3. QED
      BY <3>1, <3>2
  <2>4. f \in [D -> K]
    BY <2>1
  <2>5. QED
    BY <2>2, <2>3, <2>4 DEF Bijection, Injection, Surjection, IsInjective
<1>4. IsFiniteSet(D) /\ IsFiniteSet(P)
  BY <1>2, FS_Subset DEF PendingOf
<1>5. Cardinality(K) = Cardinality(D)
  BY <1>3, <1>4, FS_Bijection DEF ExistsBijection
<1>6. D \cup P = 1..n /\ D \cap P = {}
  BY DEF PendingOf
<1>7. Cardinality(D \cup P) = Cardinality(D) + Cardinality(P) - Cardinality(D \cap P)
  BY <1>4, FS_Union
<1>8. Cardinality(D) \in Nat /\ Cardinality(P) \in Nat /\ Cardinality({}) = 0
  BY <1>4, FS_CardinalityType, FS_EmptySet
<1>9. n = Cardinality(D) + Cardinality(P)
  <2>1. n = Cardinality(D) + Cardinality(P) - Cardinality({})
    BY <1>2, <1>6, <1>7, Zenon
  <2> HIDE DEF n, D, P
  <2>2. QED
    BY <1>8, <2>1
<1>10. Reviewed(r) = Cardinality(D)
  BY <1>5 DEF Reviewed
<1>11. QED
  BY <1>1, <1>8, <1>9, <1>10

-----------------------------------------------------------------------------

LEMMA InitInv == Init => IInv
<1> SUFFICES ASSUME Init PROVE IInv
  OBVIOUS
<1> USE DEF Init, StoreInit
<1>1. TypeOK
  BY ReviewAssumption DEF ReviewAssumption, TypeOK, StoreTypeOK, Outcomes, NoListing, Listing
<1>2. QuietInv
  BY DEF QuietInv, Wanted, NoListing
<1>3. QED
  BY <1>1, <1>2 DEF IInv, RunInv, LookInv, DecisionsHaveCases, TodoInv, LabelsMatchRecords,
                    ListInv, NoListing

\* A step of a run: it disturbs every read, and leaves the records of the runs
\* that have any.
LEMMA RunStep ==
    ASSUME IInv, TypeOK', quiet' = FALSE,
           UNCHANGED <<decided, looked, listing, todo, labels>>,
           \A s \in Runs : /\ status[s] = "completed" => status'[s] = "completed" /\ data'[s] = data[s]
                           /\ data'[s] = <<>> \/ status'[s] = "completed"
    PROVE  IInv'
<1>1. RunInv'
  BY DEF RunInv
<1>2. \A k \in Case : HasCase(k) => HasCase(k)'
  BY DEF HasCase, Case
<1>3. LookInv' /\ DecisionsHaveCases'
  BY <1>2 DEF IInv, LookInv, DecisionsHaveCases, HasCase, TypeOK
<1>4. \A t \in todo : t.run \in Runs /\ (t.data = <<>> \/ t.data = data'[t.run])
  BY DEF IInv, TypeOK, TodoInv, RunInv
<1>5. TodoInv'
  BY <1>4 DEF IInv, TodoInv
<1>6. \A l \in labels : l.score = data'[l.run][l.number]
  BY DEF IInv, TypeOK, Label, LabelsMatchRecords, DecisionsHaveCases
<1>7. LabelsMatchRecords'
  BY <1>6 DEF IInv, LabelsMatchRecords
<1>8. QED
  BY <1>1, <1>3, <1>5, <1>7 DEF IInv, QuietInv, ListInv

LEMMA RunsInv ==
    ASSUME IInv, NEW r \in Runs,
           \/ \E now \in Stamps : BeginRun(r, now)
           \/ \E scores \in Results : CompleteRun(r, scores)
           \/ FailRun(r)
    PROVE  IInv'
<1> USE DEF IInv, TypeOK, StoreTypeOK, Outcomes
<1>1. CASE \E now \in Stamps : BeginRun(r, now)
  <2>1. TypeOK'
    BY <1>1, StoreAssumption DEF StoreAssumption, BeginRun, CreateRunning
  <2>2. status[r] = "absent" /\ status' = [status EXCEPT ![r] = "running"] /\ UNCHANGED data
    BY <1>1 DEF BeginRun, CreateRunning, Exists
  <2>3. data[r] = <<>>
    BY <2>2 DEF RunInv
  <2>4. QED
    BY <1>1, <2>1, <2>2, <2>3, RunStep DEF BeginRun, RunInv
<1>2. CASE \E scores \in Results : CompleteRun(r, scores)
  <2>1. TypeOK'
    BY <1>2, ReviewAssumption DEF ReviewAssumption, CompleteRun, MarkCompleted
  <2>2. PICK scores \in Results : CompleteRun(r, scores)
    BY <1>2
  <2>3. /\ status[r] = "running" /\ status' = [status EXCEPT ![r] = "completed"]
        /\ data' = [data EXCEPT ![r] = scores]
    BY <2>2 DEF CompleteRun, MarkCompleted
  <2>4. QED
    BY <2>1, <2>2, <2>3, RunStep DEF CompleteRun, RunInv
<1>3. CASE FailRun(r)
  <2>1. TypeOK'
    BY <1>3 DEF FailRun, MarkFailed
  <2>2. status[r] = "running" /\ status' = [status EXCEPT ![r] = "failed"] /\ UNCHANGED data
    BY <1>3 DEF FailRun, MarkFailed
  <2>3. data[r] = <<>>
    BY <2>2 DEF RunInv
  <2>4. QED
    BY <1>3, <2>1, <2>2, <2>3, RunStep DEF FailRun, RunInv
<1>4. QED
  BY <1>1, <1>2, <1>3

LEMMA LookUpInv ==
    ASSUME IInv, NEW p \in Reviewers, NEW r \in Runs, NEW i \in Numbers, LookUp(p, r, i)
    PROVE  IInv'
<1>1. [run |-> r, number |-> i] \in Case
  BY ReviewAssumption DEF ReviewAssumption, Case
<1>2. TypeOK'
  BY <1>1 DEF IInv, TypeOK, StoreTypeOK, LookUp, storeVars
<1>3. i \in 1..Len(data[r])
  BY DEF LookUp, BuildCases
<1>4. HasCase([run |-> r, number |-> i])
  <2>1. data[r] # <<>> /\ DOMAIN data[r] = 1..Len(data[r])
    BY <1>3 DEF IInv, TypeOK
  <2>2. QED
    BY <1>3, <2>1 DEF IInv, RunInv, HasCase
<1>5. LookInv'
  BY <1>4 DEF IInv, LookInv, LookUp, HasCase, TypeOK, storeVars
<1>6. UNCHANGED <<status, created, data, decided, listing, todo, labels, quiet>>
  BY DEF LookUp, storeVars
<1>7. RunInv' /\ DecisionsHaveCases' /\ TodoInv' /\ LabelsMatchRecords'
  BY <1>6 DEF IInv, RunInv, DecisionsHaveCases, TodoInv, LabelsMatchRecords
<1>8. /\ UNCHANGED Wanted
      /\ \A t \in todo : UNCHANGED LabelsOf(t.run, t.data)
  BY <1>6 DEF Wanted, LabelFor, LabelsOf, DecisionOf, History, Newer, Exists
<1>9. QuietInv'
  BY <1>6, <1>8 DEF IInv, QuietInv
<1>10. ListInv'
  BY <1>6 DEF IInv, ListInv, PendingOf, DecisionOf, Reviewed
<1>11. QED
  BY <1>2, <1>5, <1>7, <1>9, <1>10 DEF IInv

LEMMA SaveInv ==
    ASSUME IInv, NEW p \in Reviewers, NEW wish \in Wishes, Save(p, wish)
    PROVE  IInv'
<1>1. PICK k \in looked[p] :
        decided' = IF wish \in Decisions
                   THEN [j \in DOMAIN decided \cup {k} |-> IF j = k THEN wish ELSE decided[j]]
                   ELSE decided
  BY DEF Save
<1>2. k \in Case /\ HasCase(k)
  BY DEF IInv, TypeOK, LookInv
<1>3. /\ DOMAIN decided' \subseteq DOMAIN decided \cup {k}
      /\ DOMAIN decided \subseteq DOMAIN decided'
      /\ \A j \in DOMAIN decided' : decided'[j] \in Decisions
  BY <1>1 DEF IInv, TypeOK
<1>4. TypeOK'
  <2>1. saves' \in 0..MaxSaves /\ quiet' \in BOOLEAN
    <3>1. saves \in 0..MaxSaves /\ saves < MaxSaves /\ saves' = saves + 1 /\ quiet' = FALSE
      BY DEF IInv, TypeOK, Save
    <3>2. saves' \in 0..MaxSaves
      BY <3>1, ReviewAssumption DEF ReviewAssumption
    <3>3. QED
      BY <3>1, <3>2, Zenon
  <2>2. looked' \in [Reviewers -> SUBSET Case]
    BY DEF IInv, TypeOK, Save
  <2>3. DOMAIN decided' \subseteq Case /\ \A j \in DOMAIN decided' : decided'[j] \in Decisions
    BY <1>2, <1>3 DEF IInv, TypeOK
  <2>4. UNCHANGED <<status, created, data, listing, todo, labels, reads>>
    BY DEF Save, storeVars
  <2>5. QED
    BY <2>1, <2>2, <2>3, <2>4 DEF IInv, TypeOK, StoreTypeOK
<1>5. DecisionsHaveCases'
  BY <1>2, <1>3 DEF IInv, DecisionsHaveCases, HasCase, Save, storeVars
<1>6. LookInv'
  BY DEF IInv, LookInv, HasCase, Save, storeVars, TypeOK
<1>7. LabelsMatchRecords'
  BY <1>3 DEF IInv, LabelsMatchRecords, Save
<1>8. RunInv' /\ TodoInv'
  BY DEF IInv, RunInv, TodoInv, Save, storeVars
<1>9. QED
  BY <1>4, <1>5, <1>6, <1>7, <1>8 DEF IInv, QuietInv, ListInv, Save

-----------------------------------------------------------------------------

\* Readers write nothing.
Reads == UNCHANGED <<storeVars, data, decided, looked, saves>>

LEMMA ReadsKeep ==
    ASSUME IInv, Reads
    PROVE  /\ RunInv' /\ LookInv' /\ DecisionsHaveCases'
           /\ UNCHANGED Wanted
           /\ \A r, n : UNCHANGED <<PendingOf(r, n), Reviewed(r)>>
           /\ \A r, scores : UNCHANGED LabelsOf(r, scores)
BY DEF IInv, Reads, storeVars, RunInv, LookInv, HasCase, DecisionsHaveCases, Wanted, LabelFor,
       History, Newer, Exists, PendingOf, Reviewed, LabelsOf, DecisionOf

LEMMA ListingInv ==
    ASSUME IInv, (\E r \in Runs : GetRun(r)) \/ ShowCases \/ Tally
    PROVE  IInv'
<1>1. Reads
  BY DEF Reads, GetRun, ShowCases, Tally
<1>2. ASSUME NEW r \in Runs, GetRun(r) PROVE IInv'
  <2>1. Len(data[r]) \in Nat
    BY DEF IInv, TypeOK
  <2>2. TypeOK'
    <3>1. listing' = [step |-> "got", run |-> r, total |-> Len(data[r]), shown |-> 0, pending |-> 0]
      BY <1>2 DEF GetRun, NoListing
    <3>2. /\ reads \in 0..MaxReads /\ reads < MaxReads /\ reads' = reads + 1
          /\ quiet' = TRUE /\ labels' = {}
      BY <1>2 DEF IInv, TypeOK, GetRun
    <3>5. reads' \in 0..MaxReads
      BY <3>2, ReviewAssumption DEF ReviewAssumption
    <3>6. listing' \in Listing
      BY <2>1, <3>1 DEF Listing
    <3>3. UNCHANGED <<status, created, data, decided, looked, todo, saves>>
      BY <1>2 DEF GetRun, storeVars
    <3>4. QED
      BY <3>2, <3>3, <3>5, <3>6 DEF IInv, TypeOK, StoreTypeOK
  <2>3. todo = {} /\ todo' = {} /\ labels' = {}
    BY <1>2 DEF GetRun, Reading
  <2>4. /\ listing'.step = "got" /\ listing'.run = r /\ listing'.total = Len(data[r])
        /\ UNCHANGED data
    BY <1>2 DEF GetRun, NoListing
  <2>5. ListInv' /\ QuietInv'
    BY <2>4 DEF ListInv, QuietInv
  <2>6. TodoInv' /\ LabelsMatchRecords'
    BY <2>3 DEF TodoInv, LabelsMatchRecords
  <2>7. QED
    BY <1>1, <2>2, <2>5, <2>6, ReadsKeep DEF IInv
<1>3. CASE ShowCases
  <2>1. TypeOK'
    <3>1. listing.total \in Nat /\ IsFiniteSet(1..listing.total)
      BY FS_Interval DEF IInv, TypeOK, Listing
    <3>2. Cardinality(PendingOf(listing.run, listing.total)) \in Nat
      BY <3>1, FS_Subset, FS_CardinalityType DEF PendingOf
    <3>3. listing' = [listing EXCEPT !.step = "shown",
                        !.shown = Cardinality(PendingOf(listing.run, listing.total))]
      BY <1>3 DEF ShowCases, PendingOf
    <3>4. listing' \in Listing
      BY <3>2, <3>3 DEF IInv, TypeOK, Listing
    <3>5. QED
      BY <1>3, <3>4 DEF ShowCases, IInv, TypeOK, StoreTypeOK, storeVars
  <2>2. /\ listing.step = "got" /\ listing'.step = "shown"
        /\ listing'.run = listing.run /\ listing'.total = listing.total
        /\ listing'.shown = Cardinality(PendingOf(listing.run, listing.total))
        /\ UNCHANGED <<data, todo, labels, quiet, decided>>
    BY <1>3 DEF ShowCases, PendingOf, IInv, TypeOK, Listing
  <2>3. ListInv' /\ QuietInv'
    BY <1>1, <2>2, ReadsKeep DEF IInv, ListInv, QuietInv
  <2>4. TodoInv' /\ LabelsMatchRecords'
    BY <2>2 DEF IInv, TodoInv, LabelsMatchRecords
  <2>5. QED
    BY <1>1, <2>1, <2>3, <2>4, ReadsKeep DEF IInv
<1>4. CASE Tally
  <2>1. /\ listing.step = "shown" /\ listing'.step = "done"
        /\ listing'.run = listing.run /\ listing'.total = listing.total
        /\ listing'.shown = listing.shown
        /\ listing'.pending = listing.total - Reviewed(listing.run)
        /\ UNCHANGED <<data, todo, labels, quiet, decided>>
    BY <1>4 DEF Tally, IInv, TypeOK, Listing
  <2>2. TypeOK'
    <3>1. Reviewed(listing.run) \in Nat
      BY <2>1, TallyCounts DEF IInv, ListInv
    <3>2. /\ listing \in Listing
          /\ listing' = [listing EXCEPT !.step = "done", !.pending = listing.total - Reviewed(listing.run)]
      BY <1>4 DEF Tally, IInv, TypeOK
    <3>3. listing.total - Reviewed(listing.run) \in Int
      BY <3>1, <3>2 DEF Listing
    <3>4. listing' \in Listing
      BY <3>2, <3>3 DEF Listing
    <3>5. QED
      BY <1>4, <3>4 DEF Tally, IInv, TypeOK, StoreTypeOK, storeVars
  <2>3. ListInv' /\ QuietInv'
    BY <1>1, <2>1, ReadsKeep DEF IInv, ListInv, QuietInv
  <2>4. TodoInv' /\ LabelsMatchRecords'
    BY <2>1 DEF IInv, TodoInv, LabelsMatchRecords
  <2>5. QED
    BY <1>1, <2>2, <2>3, <2>4, ReadsKeep DEF IInv
<1>5. QED
  BY <1>2, <1>3, <1>4
LEMMA StartTuningInv == ASSUME IInv, StartTuning PROVE IInv'
<1>1. Reads /\ todo' = {[run |-> r, data |-> data[r]] : r \in History(Limit)} /\ labels' = {}
  BY DEF Reads, StartTuning
<1>2. listing' = NoListing /\ listing'.step = "none"
  BY DEF StartTuning, NoListing
<1>3. TypeOK'
  <2>1. todo' \subseteq [run : Runs, data : Seq(Nat \cup {NoScore})]
    <3>1. \A r \in History(Limit) : r \in Runs /\ data[r] \in Seq(Nat \cup {NoScore})
      BY DEF History, IInv, TypeOK
    <3>2. QED
      BY <1>1, <3>1
  <2>2. listing' \in Listing
    BY <1>2 DEF NoListing, Listing
  <2>3. reads' \in 0..MaxReads /\ quiet' = TRUE
    BY ReviewAssumption DEF ReviewAssumption, IInv, TypeOK, StartTuning
  <2>4. QED
    BY <1>1, <2>1, <2>2, <2>3 DEF Reads, IInv, TypeOK, StoreTypeOK, storeVars
<1>4. TodoInv' /\ LabelsMatchRecords' /\ ListInv'
  BY <1>1, <1>2 DEF Reads, TodoInv, LabelsMatchRecords, ListInv
<1>5. UNION {LabelsOf(r, data[r]) : r \in History(Limit)} = Wanted
  <2>1. \A k \in DOMAIN decided : k.run \in Runs /\ k.number \in 1..Len(data[k.run])
    BY DEF IInv, DecisionsHaveCases, TypeOK, Case
  <2>2. \A r \in Runs : LabelsOf(r, data[r]) =
            {LabelFor(k, data[k.run]) : k \in {k \in DOMAIN decided : k.run = r /\ decided[k] # "pending"}}
    <3> TAKE r \in Runs
    <3>1. LabelsOf(r, data[r]) =
            {LabelFor(k, data[r]) :
                k \in {k \in DOMAIN decided : /\ k.run = r /\ k.number \in 1..Len(data[r])
                                              /\ decided[k] # "pending"}}
      BY LabelsOfSays DEF IInv, TypeOK
    <3>2. QED
      BY <2>1, <3>1
  <2>3. History(Limit) \subseteq Runs
    BY DEF History
  <2>4. QED
    BY <2>2, <2>3 DEF Wanted
<1>6. UNION {LabelsOf(t.run, t.data)' : t \in todo'} = Wanted'
  <2>1. \A r, scores : LabelsOf(r, scores)' = LabelsOf(r, scores)
    BY <1>1, ReadsKeep
  <2>2. {LabelsOf(t.run, t.data) : t \in todo'} = {LabelsOf(r, data[r]) : r \in History(Limit)}
    <3>1. \A t \in todo' : t.run \in History(Limit) /\ t.data = data[t.run]
      BY <1>1
    <3>2. ASSUME NEW r \in History(Limit)
          PROVE  \E t \in todo' : t.run = r /\ t.data = data[r]
      <4>1. [run |-> r, data |-> data[r]] \in todo'
        BY <1>1
      <4>2. QED
        BY <4>1
    <3>3. QED
      BY <3>1, <3>2
  <2>3. {LabelsOf(t.run, t.data)' : t \in todo'} = {LabelsOf(t.run, t.data) : t \in todo'}
    BY <2>1
  <2>4. QED
    BY <1>1, <1>5, <2>2, <2>3, ReadsKeep
<1>7. QuietInv'
  BY <1>1, <1>6 DEF QuietInv
<1>8. QED
  BY <1>1, <1>3, <1>4, <1>7, ReadsKeep DEF IInv

LEMMA CollectRunInv == ASSUME IInv, CollectRun PROVE IInv'
<1>1. PICK t \in todo : /\ labels' = labels \cup LabelsOf(t.run, t.data)
                        /\ todo' = todo \ {t}
  BY DEF CollectRun
<1>2. Reads /\ UNCHANGED <<listing, quiet, reads, data, decided>>
  BY DEF CollectRun, Reads
<1>3. t.run \in Runs /\ t.data \in Seq(Nat \cup {NoScore})
  BY DEF IInv, TypeOK
<1>4. \A l \in LabelsOf(t.run, t.data) :
        \E k \in DOMAIN decided : /\ k \in Case /\ k.run = t.run /\ k.number \in 1..Len(t.data)
                                  /\ l = LabelFor(k, t.data)
  BY LabelsOfSays DEF IInv, TypeOK
<1>5. LabelsOf(t.run, t.data) \subseteq Label
  <2> SUFFICES ASSUME NEW l \in LabelsOf(t.run, t.data) PROVE l \in Label
    OBVIOUS
  <2>1. PICK k \in DOMAIN decided : /\ k \in Case /\ k.run = t.run /\ k.number \in 1..Len(t.data)
                                    /\ l = LabelFor(k, t.data)
    BY <1>4
  <2>2. k.run \in Runs /\ k.number \in Nat /\ t.data[k.number] \in Nat \cup {NoScore}
    BY <1>3, <2>1 DEF Case
  <2>3. (decided[k] = "accepted") \in BOOLEAN
    OBVIOUS
  <2>4. QED
    BY <2>1, <2>2, <2>3 DEF LabelFor, Label
<1>6. TypeOK'
  BY <1>1, <1>2, <1>5 DEF Reads, IInv, TypeOK, StoreTypeOK, storeVars
<1>7. \A l \in LabelsOf(t.run, t.data) : l.run = t.run
  BY <1>4 DEF LabelFor
<1>8. TodoInv'
  BY <1>1, <1>2, <1>7 DEF IInv, TodoInv
<1>9. LabelsMatchRecords'
  <2>1. ASSUME NEW l \in LabelsOf(t.run, t.data)
        PROVE  /\ [run |-> l.run, number |-> l.number] \in DOMAIN decided
               /\ l.score = data[l.run][l.number]
    <3>1. PICK k \in DOMAIN decided : /\ k \in Case /\ k.run = t.run /\ k.number \in 1..Len(t.data)
                                      /\ l = LabelFor(k, t.data)
      BY <1>4, <2>1
    <3>2. l.run = k.run /\ l.number = k.number /\ l.score = t.data[k.number]
      BY <3>1 DEF LabelFor
    <3>3. k = [run |-> l.run, number |-> l.number]
      BY <3>1, <3>2 DEF Case
    <3>4. t.data # <<>>
      BY <3>1
    <3>5. t.data = data[t.run]
      BY <3>4 DEF IInv, TodoInv
    <3>6. QED
      BY <3>1, <3>2, <3>3, <3>5
  <2>2. \A l, m \in LabelsOf(t.run, t.data) : l.number = m.number => l = m
    <3> TAKE l, m \in LabelsOf(t.run, t.data)
    <3> HAVE l.number = m.number
    <3>1. PICK j \in DOMAIN decided : j \in Case /\ j.run = t.run /\ l = LabelFor(j, t.data)
      BY <1>4
    <3>2. PICK k \in DOMAIN decided : k \in Case /\ k.run = t.run /\ m = LabelFor(k, t.data)
      BY <1>4
    <3>3. j.number = k.number
      BY <3>1, <3>2 DEF LabelFor
    <3>4. j = k
      BY <3>1, <3>2, <3>3 DEF Case
    <3>5. QED
      BY <3>1, <3>2, <3>4
  <2>3. \A l \in labels : l.run # t.run
    BY DEF IInv, TodoInv
  <2>4. QED
    BY <1>1, <1>2, <1>7, <2>1, <2>2, <2>3 DEF IInv, LabelsMatchRecords
<1>10. QuietInv'
  <2>1. labels' \cup UNION {LabelsOf(u.run, u.data)' : u \in todo'} =
        labels \cup UNION {LabelsOf(u.run, u.data) : u \in todo}
    <3>1. \A r, scores : LabelsOf(r, scores)' = LabelsOf(r, scores)
      BY <1>2, ReadsKeep
    <3>2. UNION {LabelsOf(u.run, u.data) : u \in todo} =
          LabelsOf(t.run, t.data) \cup UNION {LabelsOf(u.run, u.data) : u \in todo \ {t}}
      BY <1>1
    <3>3. QED
      BY <1>1, <3>1, <3>2
  <2>2. QED
    BY <1>2, <2>1, ReadsKeep DEF IInv, QuietInv
<1>11. ListInv'
  BY <1>2, ReadsKeep DEF IInv, ListInv
<1>12. QED
  BY <1>2, <1>6, <1>8, <1>9, <1>10, <1>11, ReadsKeep DEF IInv

-----------------------------------------------------------------------------

LEMMA Invariant == Spec => []IInv
<1>1. IInv /\ [Next]_vars => IInv'
  <2> SUFFICES ASSUME IInv, [Next]_vars PROVE IInv'
    OBVIOUS
  <2>1. CASE Next
    BY <2>1, RunsInv, LookUpInv, SaveInv, ListingInv, StartTuningInv, CollectRunInv DEF Next
  <2>2. CASE UNCHANGED vars
    <3>1. Reads /\ UNCHANGED <<data, decided, listing, todo, labels, quiet, reads>>
      BY <2>2 DEF vars, reviewVars, Reads
    <3>2. TypeOK' /\ TodoInv' /\ LabelsMatchRecords'
      BY <3>1 DEF Reads, storeVars, IInv, TypeOK, StoreTypeOK, TodoInv, LabelsMatchRecords
    <3>3. QuietInv' /\ ListInv'
      BY <3>1, ReadsKeep DEF IInv, QuietInv, ListInv
    <3>4. QED
      BY <3>1, <3>2, <3>3, ReadsKeep DEF IInv
  <2>3. QED
    BY <2>1, <2>2
<1>2. QED
  BY InitInv, <1>1, PTL DEF Spec

\* Every variable keeps its type.
THEOREM TypeCorrect == Spec => []TypeOK
<1>1. IInv => TypeOK
  BY DEF IInv
<1>2. QED
  BY <1>1, Invariant, PTL

\* A decision is about a record the run has, in whatever order requests, runs
\* and reads interleave.
THEOREM DecisionsKeepTheirCases == Spec => []DecisionsHaveCases
<1>1. IInv => DecisionsHaveCases
  BY DEF IInv
<1>2. QED
  BY <1>1, Invariant, PTL

\* A label carries the score of the record that was decided, and is the only
\* one of its case.
THEOREM LabelsAlwaysMatch == Spec => []LabelsMatchRecords
<1>1. IInv => LabelsMatchRecords
  BY DEF IInv
<1>2. QED
  BY <1>1, Invariant, PTL

\* A tuning nobody wrote beside has exactly the decided cases of the newest
\* runs.
THEOREM QuietTuningsAreComplete == Spec => []QuietTuningIsComplete
<1>1. IInv => QuietTuningIsComplete
  BY DEF IInv, QuietInv, Wanted, LabelFor, QuietTuningIsComplete
<1>2. QED
  BY <1>1, Invariant, PTL

\* The tally of a listing nobody wrote beside counts what is shown as pending.
THEOREM TalliesMatchCases == Spec => []TallyMatchesCases
<1>1. IInv => TallyMatchesCases
  BY TallyCounts DEF IInv, ListInv, TallyMatchesCases
<1>2. QED
  BY <1>1, Invariant, PTL

-----------------------------------------------------------------------------
\* The recommendation over the labels collected so far.

\* Every result comes from result(), over records that signal() made of the
\* numbers a bot computed.
FromSignals ==
    \A d \in Results : \E S \in Seq(Score), threshold \in Score :
        d = Result([i \in DOMAIN S |-> Signal(S[i])], threshold)

SignalInv == IsFiniteSet(labels) /\ \A r \in Runs : data[r] \in Seq(Grid \cup {NoScore})

LEMMA LabelsOfIsFinite ==
    ASSUME NEW r, NEW scores \in Seq(Nat \cup {NoScore})
    PROVE  IsFiniteSet(LabelsOf(r, scores))
<1> DEFINE n == Len(scores)
           D == {i \in 1..n : DecisionOf(r, i) # "pending"}
           f == [i \in D |-> [run |-> r, number |-> i, score |-> scores[i],
                              accepted |-> DecisionOf(r, i) = "accepted"]]
<1>1. IsFiniteSet(D)
  <2>1. IsFiniteSet(1..n)
    BY FS_Interval
  <2>2. D \subseteq 1..n
    OBVIOUS
  <2>3. QED
    BY <2>1, <2>2, FS_Subset
<1>2. f \in Surjection(D, LabelsOf(r, scores))
  <2>1. \A i \in D : f[i] \in LabelsOf(r, scores)
    <3> SUFFICES ASSUME NEW i \in D PROVE f[i] \in LabelsOf(r, scores)
      OBVIOUS
    <3>1. [number |-> i, score |-> scores[i]] \in BuildCases(scores)
      BY DEF BuildCases
    <3>2. QED
      BY <3>1 DEF LabelsOf
  <2>2. \A l \in LabelsOf(r, scores) : \E i \in D : f[i] = l
    <3> SUFFICES ASSUME NEW k \in BuildCases(scores), DecisionOf(r, k.number) # "pending"
                 PROVE  \E i \in D : f[i] = [run |-> r, number |-> k.number, score |-> k.score,
                                             accepted |-> DecisionOf(r, k.number) = "accepted"]
      BY DEF LabelsOf
    <3>1. PICK i \in 1..n : k = [number |-> i, score |-> scores[i]]
      BY DEF BuildCases
    <3>2. QED
      BY <3>1
  <2> HIDE DEF D
  <2>3. f \in [D -> LabelsOf(r, scores)]
    BY <2>1
  <2> HIDE DEF f
  <2>4. QED
    BY <2>2, <2>3 DEF Surjection
<1>3. QED
  BY <1>1, <1>2, FS_Surjection

LEMMA SignalInvariant ==
    ASSUME FromSignals
    PROVE  Spec => []SignalInv
<1>1. Init => SignalInv
  <2>1. <<>> \in Seq(Grid \cup {NoScore})
    OBVIOUS
  <2>2. QED
    BY <2>1, FS_EmptySet DEF Init, SignalInv
<1>2. \A d \in Results : d \in Seq(Grid \cup {NoScore})
  BY ResultsAreOnTheGrid DEF FromSignals
<1>3. TypeOK /\ SignalInv /\ [Next]_vars => SignalInv'
  <2> SUFFICES ASSUME TypeOK, SignalInv, [Next]_vars PROVE SignalInv'
    OBVIOUS
  <2>1. ASSUME NEW r \in Runs, NEW scores \in Results, CompleteRun(r, scores)
        PROVE  SignalInv'
    <3>1. labels' = labels /\ data' = [data EXCEPT ![r] = scores]
      BY <2>1 DEF CompleteRun
    <3>2. QED
      BY <1>2, <3>1 DEF SignalInv, TypeOK
  <2>2. ASSUME CollectRun
        PROVE  SignalInv'
    <3>1. PICK t \in todo : labels' = labels \cup LabelsOf(t.run, t.data) /\ data' = data
      BY <2>2 DEF CollectRun
    <3>2. IsFiniteSet(LabelsOf(t.run, t.data))
      BY LabelsOfIsFinite DEF TypeOK
    <3>3. QED
      BY <3>1, <3>2, FS_Union DEF SignalInv
  <2>3. CASE labels' \in {labels, {}} /\ data' = data
    BY <2>3, FS_EmptySet DEF SignalInv
  <2>4. QED
    BY <2>1, <2>2, <2>3
       DEF Next, vars, reviewVars, BeginRun, FailRun, GetRun, LookUp, Save, ShowCases, Tally,
           StartTuning
<1>4. QED
  BY <1>1, <1>3, TypeCorrect, PTL DEF Spec

\* What a tuner collects are labels tune is right about.
LEMMA LabelsAreOfSignals ==
    ASSUME TypeOK, DecisionsHaveCases, LabelsMatchRecords, SignalInv
    PROVE  OfSignals(labels)
<1> SUFFICES ASSUME NEW l \in labels
             PROVE  l.accepted \in BOOLEAN /\ l.score \in Grid \cup {NoScore}
  BY DEF OfSignals, SignalInv
<1>1. l \in Label /\ l.run \in Runs
  BY DEF TypeOK, Label
<1>2. l.number \in DOMAIN data[l.run] /\ l.score = data[l.run][l.number]
  BY DEF DecisionsHaveCases, LabelsMatchRecords
<1>3. data[l.run] \in Seq(Grid \cup {NoScore})
  BY <1>1 DEF SignalInv
<1>4. QED
  BY <1>1, <1>2, <1>3 DEF Label

\* For any runs, decisions and number of labels, collected in whatever order and
\* beside whatever is written: a threshold is recommended as soon as a scored
\* case is labelled, no other beats it by more than the rounding of F1 hides,
\* and it is the highest of those that are exactly as good.
THEOREM RecommendationsAreSound ==
    ASSUME FromSignals
    PROVE  Spec => []RecommendationIsSound
<1>1. TypeOK /\ DecisionsHaveCases /\ LabelsMatchRecords /\ SignalInv => RecommendationIsSound
  BY LabelsAreOfSignals, RecommendationIsSoundFor DEF RecommendationIsSound
<1>2. QED
  BY <1>1, TypeCorrect, DecisionsKeepTheirCases, LabelsAlwaysMatch, SignalInvariant, PTL

\* The threshold as it is printed flags what its precision and recall were
\* computed for.
THEOREM RecommendationsCarryOver ==
    ASSUME FromSignals
    PROVE  Spec => []RecommendationCarriesOver
<1>1. TypeOK /\ DecisionsHaveCases /\ LabelsMatchRecords /\ SignalInv
      => RecommendationCarriesOver
  BY LabelsAreOfSignals, PrintedThresholdCarriesOver DEF RecommendationCarriesOver, Recommended
<1>2. QED
  BY <1>1, TypeCorrect, DecisionsKeepTheirCases, LabelsAlwaysMatch, SignalInvariant, PTL
=============================================================================
