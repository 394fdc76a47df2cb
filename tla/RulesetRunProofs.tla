-------------------------- MODULE RulesetRunProofs --------------------------
(***************************************************************************)
(* Proofs about runs that evaluate a ruleset while it is reviewed, for any *)
(* rulesets, rows, reviewers and calls.                                    *)
(***************************************************************************)
EXTENDS RulesetRun, ProposalsProofs

\* Runs leave the files alone: what holds of the reviewers' calls holds here.
LEMMA RunsDoNotWrite == BotSpec => Spec
<1>1. BotInit => Init
  BY DEF BotInit
<1>2. [BotNext]_botVars => [Next]_vars
  BY DEF BotNext, ReadRuleset, QueryAndEvaluate, botVars
<1>3. QED
  BY <1>1, <1>2, PTL DEF BotSpec, Spec

\* A run works on a ruleset that validated, and what it returns is an evaluation
\* of one.
EvaluatedInv ==
    /\ running => ValidRuleset(used.rules) /\ used.rules \in Rulesets
    /\ \/ \E kind \in Errors : outcome = Ended(kind)
       \/ \E rules \in Rulesets, rows \in Tables :
            ValidRuleset(rules) /\ outcome = Evaluation(rules, rows)

UsedOK == used \in Docs /\ running \in BOOLEAN

\* Every variable keeps its type, and what a run returns is always the evaluation
\* of one validated ruleset on the rows of one query (ruleset.py:289-313).
THEOREM BotTypeCorrect == BotSpec => [](BotTypeOK /\ EvaluatedInv)
<1> USE ProposalAssumption DEF ProposalAssumption
<1>1. BotInit => UsedOK /\ EvaluatedInv
  <2>1. NoDoc \in Docs /\ "none" \in Errors
    BY DEF NoDoc, Sources, Errors
  <2>2. QED
    BY <2>1 DEF BotInit, EvaluatedInv, UsedOK
<1>2. /\ TypeOK /\ UsedOK /\ EvaluatedInv
      /\ [BotNext]_botVars
      => UsedOK' /\ EvaluatedInv'
  <2> SUFFICES ASSUME TypeOK, UsedOK, EvaluatedInv, [BotNext]_botVars
               PROVE  UsedOK' /\ EvaluatedInv'
    OBVIOUS
  <2>1. CASE UNCHANGED runVars
    BY <2>1 DEF runVars, EvaluatedInv, UsedOK
  <2>2. ASSUME NEW kind \in Errors, RunEnds(kind)
        PROVE  UsedOK' /\ EvaluatedInv'
    BY <2>2 DEF RunEnds, EvaluatedInv, NoDoc, Sources, UsedOK
  <2>3. CASE ReadRuleset
    <3>1. (IF Exists("live") THEN "invalid" ELSE "missing") \in Errors /\ "no source" \in Errors
          /\ "none" \in Errors
      BY DEF Errors
    <3>2. CASE RunEnds(IF Exists("live") THEN "invalid" ELSE "missing")
      BY <2>2, <3>1, <3>2
    <3>3. CASE RunEnds("no source")
      BY <2>2, <3>1, <3>3
    <3>4. CASE /\ Accepted
               /\ used' = Text("live")
               /\ running' = TRUE
               /\ outcome' = Ended("none")
      <4>1. Text("live") \in Docs /\ ValidRuleset(Text("live").rules)
        BY <3>4 DEF Accepted, Whole
      <4>2. QED
        BY <3>1, <3>4, <4>1 DEF EvaluatedInv, UsedOK
    <3>5. QED
      BY <2>3, <3>2, <3>3, <3>4 DEF ReadRuleset
  <2>4. CASE QueryAndEvaluate
    <3>1. "query" \in Errors
      BY DEF Errors
    <3>2. CASE RunEnds("query")
      BY <2>2, <3>1, <3>2
    <3>3. ASSUME NEW rows \in Tables,
                 outcome' = Evaluation(used.rules, rows), running' = FALSE, used' = NoDoc
          PROVE  UsedOK' /\ EvaluatedInv'
      BY <2>4, <3>3 DEF QueryAndEvaluate, EvaluatedInv, NoDoc, Sources, UsedOK
    <3>4. CASE RunEnds("overflow")
      BY <2>2, <3>4 DEF Errors
    <3>5. QED
      BY <2>4, <3>2, <3>3, <3>4 DEF QueryAndEvaluate
  <2>5. QED
    BY <2>1, <2>3, <2>4 DEF BotNext, botVars
<1>3. TypeOK /\ UsedOK /\ EvaluatedInv => BotTypeOK
  BY DEF BotTypeOK, EvaluatedInv, UsedOK
<1>4. QED
  BY <1>1, <1>2, <1>3, RunsDoNotWrite, TypeCorrect, PTL DEF BotSpec

-----------------------------------------------------------------------------
\* A live document stays, and with it its source.
LEMMA SourceIsSettled ==
    ASSUME TypeOK, HandInv, SideInv, WholeInv, ApplyInv, [Next]_vars, Exists("live")
    PROVE  Exists("live")' /\ Text("live")'.source = Text("live").source
<1>1. CASE ~\E c \in Clients : Replace(c) /\ op[c] = "approve"
  BY <1>1, LiveKept
<1>2. ASSUME NEW c \in Clients, Replace(c), op[c] = "approve"
      PROVE  Exists("live")' /\ Text("live")'.source = Text("live").source
  <2>1. CASE UNCHANGED fileVars
    BY <2>1 DEF fileVars, Exists, Text
  <2>2. CASE ReplaceByTmp("live")
    <3>1. tmp["live"] # NoFile /\ content[tmp["live"]] = doc[c]
      BY <1>2, <2>2 DEF ReplaceByTmp, Replace, ApplyInv
    <3>2. entry'["live"] = tmp["live"] /\ content' = content
      BY <2>2, ProposalAssumption DEF ProposalAssumption, ReplaceByTmp, TypeOK, FileTypeOK
    <3>3. Exists("live")' /\ Text("live")' = doc[c]
      BY <3>1, <3>2 DEF Exists, Text
    <3>4. Live!SourceOf(LiveDocs) = {Text("live").source}
      BY DEF LiveDocs, Live!SourceOf
    <3>5. Live!SourceOf(LiveDocs) = {doc[c].source}
      BY <1>2 DEF Replace, ApplyInv
    <3>6. QED
      BY <3>3, <3>4, <3>5
  <2>3. QED
    BY <1>2, <2>1, <2>2 DEF Replace, Target
<1>3. QED
  BY <1>1, <1>2

\* As long as no two approvals overlap, a ruleset.json that a run finds parses and
\* validates, no document gets a source later than its first moment, and a run
\* under way reads the source of what is live (ruleset.py:291-298,
\* proposals.py:96-108).
THEOREM ApartRunsFindAValidRuleset == BotSpec /\ []ApprovalsApart => []RunsFindAValidRuleset
<1> USE ProposalAssumption, RulesetRunAssumption DEF ProposalAssumption, RulesetRunAssumption
<1>1. BotInit => RunsFindAValidRuleset
  BY DEF BotInit, Ended, RunsFindAValidRuleset
<1>2. /\ TypeOK /\ HandInv /\ SideInv /\ WholeInv /\ ApplyInv
      /\ LiveIsWhole /\ LiveIsReviewed /\ RunsFindAValidRuleset
      /\ [BotNext]_botVars
      => RunsFindAValidRuleset'
  <2> SUFFICES ASSUME TypeOK, HandInv, SideInv, WholeInv, ApplyInv,
                      LiveIsWhole, LiveIsReviewed, RunsFindAValidRuleset, [BotNext]_botVars
               PROVE  RunsFindAValidRuleset'
    OBVIOUS
  <2>1. Exists("live") => Accepted
    BY DEF LiveIsWhole, LiveIsReviewed, Accepted, Whole
  <2>2. CASE UNCHANGED runVars
    <3>1. [Next]_vars
      BY DEF BotNext, ReadRuleset, QueryAndEvaluate, botVars
    <3>2. Exists("live") => Exists("live")' /\ Text("live")'.source = Text("live").source
      BY <3>1, SourceIsSettled
    <3>3. QED
      BY <2>2, <3>2 DEF runVars, RunsFindAValidRuleset
  <2>3. CASE ReadRuleset
    <3>1. CASE ~Accepted /\ RunEnds(IF Exists("live") THEN "invalid" ELSE "missing")
      <4>1. RunEnds("missing")
        BY <2>1, <3>1
      <4>2. QED
        BY <4>1 DEF RunEnds, Ended, RunsFindAValidRuleset
    <3>2. UNCHANGED <<Exists("live"), Text("live")>>
      BY <2>3 DEF ReadRuleset, vars, fileVars, Exists, Text
    <3>3. CASE Accepted /\ Text("live").source = "none" /\ RunEnds("no source")
      BY <3>2, <3>3 DEF Accepted, RunEnds, Ended, RunsFindAValidRuleset
    <3>4. CASE Accepted /\ used' = Text("live") /\ outcome' = Ended("none")
      BY <3>2, <3>4 DEF Accepted, Ended, RunsFindAValidRuleset
    <3>5. QED
      BY <2>3, <3>1, <3>3, <3>4 DEF ReadRuleset
  <2>4. CASE QueryAndEvaluate
    <3>1. running' = FALSE
      BY <2>4 DEF QueryAndEvaluate, RunEnds
    <3>2. \/ \E kind \in {"query", "overflow"} : outcome' = Ended(kind)
          \/ \E rows \in Tables : outcome' = Evaluation(used.rules, rows)
      BY <2>4 DEF QueryAndEvaluate, RunEnds
    <3>3. outcome'.kind \notin {"invalid", "no source"}
      <4>1. ASSUME NEW kind \in {"query", "overflow"}, outcome' = Ended(kind)
            PROVE  outcome'.kind \notin {"invalid", "no source"}
        BY <4>1 DEF Ended
      <4>2. ASSUME NEW rows \in Tables, outcome' = Evaluation(used.rules, rows)
            PROVE  outcome'.kind \notin {"invalid", "no source"}
        BY <4>2 DEF Evaluation
      <4>3. QED
        BY ONLY <3>2, <4>1, <4>2
    <3>4. QED
      BY <3>1, <3>3 DEF RunsFindAValidRuleset
  <2>5. QED
    BY <2>2, <2>3, <2>4 DEF BotNext, botVars
<1>3. QED
  BY <1>1, <1>2, RunsDoNotWrite, ApartWrites, LiveStaysReviewed, LiveStaysWhole, TypeCorrect,
     SideInvariant, WholeInvariant, ApplyInvariant, PTL DEF BotSpec

\* With one approver that is so.
THEOREM RunsAlwaysFindAValidRuleset ==
    ASSUME \A a, b \in Approvers : a = b
    PROVE  BotSpec => []RunsFindAValidRuleset
BY RunsDoNotWrite, OneApproverIsApart, ApartRunsFindAValidRuleset, PTL

\* The ids of a validated ruleset tell its rules apart, so that a signal with the
\* id of a skipped rule is of another one, whose output names it.
LEMMA ReportedAreSkipped ==
    ASSUME NEW rules, NEW rows, ValidRuleset(rules), NEW s \in Signals(rules, rows)
    PROVE  \E i \in DOMAIN rules :
            /\ rules[i].id \notin Reported(rules, rows)
            /\ s.rule = rules[i].id \/ NamesRule(rules[i], s.rule)
<1>1. PICK i \in DOMAIN rules, n \in DOMAIN rows :
        s = SignalFor(rules[i], rows[n]) /\ Evaluated(rules[i], rows)
  BY DEF Signals
<1>2. s.rule = rules[i].id \/ NamesRule(rules[i], s.rule)
  BY <1>1 DEF SignalFor, NamesRule
<1>3. \A j \in DOMAIN rules : rules[j].id = rules[i].id => j = i
  BY DEF ValidRuleset
<1>4. rules[i].id \notin Reported(rules, rows)
  BY <1>1, <1>3 DEF Reported, Evaluated
<1>5. QED
  BY <1>2, <1>4

\* A rule a run reports as unsupported emits no signal in it, for any ruleset and
\* any rows: a signal with its id is of a rule that is not reported and whose
\* output names the id (ruleset.py:259-286, 302-307).
THEOREM ReportedNeverEmitsHolds == BotSpec => []ReportedNeverEmits
<1>1. EvaluatedInv => ReportedNeverEmits
  <2> SUFFICES ASSUME EvaluatedInv PROVE ReportedNeverEmits
    OBVIOUS
  <2>1. ASSUME NEW kind \in Errors, outcome = Ended(kind) PROVE ReportedNeverEmits
    BY <2>1 DEF Ended, ReportedNeverEmits
  <2>2. ASSUME NEW rules \in Rulesets, NEW rows \in Tables,
               ValidRuleset(rules), outcome = Evaluation(rules, rows)
        PROVE  ReportedNeverEmits
    BY <2>2, ReportedAreSkipped DEF Evaluation, ReportedNeverEmits
  <2>3. QED
    BY <2>1, <2>2 DEF EvaluatedInv
<1>2. QED
  BY <1>1, BotTypeCorrect, PTL

\* A criterion passes only where the fields it looks at are there.
LEMMA PassesWhereFieldsAre ==
    ASSUME NEW c, NEW row, WellFormed(c), UsesItsFields(c), Passes(c, row)
    PROVE  Refers(c) \subseteq DOMAIN row
  BY DEF WellFormed, UsesItsFields, Passes, Refers, Compare, SupportedOperators,
         NumericOperators

\* What holds of a row is not skipped, when all rows have the columns of the first.
LEMMA HoldsIsEvaluated ==
    ASSUME NEW rule, NEW rows, NEW n \in DOMAIN rows, rows # <<>>,
           DOMAIN rows[n] = DOMAIN rows[1],
           rule.combination \in {"and", "or"},
           \A k \in DOMAIN rule.criteria : WellFormed(rule.criteria[k]),
           Holds(rule, rows[n])
    PROVE  Evaluated(rule, rows)
<1>1. \A k \in DOMAIN rule.criteria :
        Passes(rule.criteria[k], rows[n]) => Refers(rule.criteria[k]) \subseteq DOMAIN rows[1]
  BY PassesWhereFieldsAre DEF Holds
<1>2. CASE rule.combination = "or"
  BY <1>1, <1>2 DEF Holds, Matches, LacksFields, Evaluated, Unsupported
<1>3. CASE rule.combination = "and"
  BY <1>1, <1>3 DEF Holds, Matches, LacksFields, Evaluated, Unsupported
<1>4. QED
  BY <1>2, <1>3

\* Skipping rules costs no signal, for any ruleset and any rows
\* (ruleset.py:134-160, 245-286).
THEOREM NothingIsLost == BotSpec => []NothingLost
<1> USE RulesetRunAssumption DEF RulesetRunAssumption
<1>1. EvaluatedInv => NothingLost
  <2> SUFFICES ASSUME EvaluatedInv PROVE NothingLost
    OBVIOUS
  <2>1. ASSUME NEW kind \in Errors, outcome = Ended(kind) PROVE NothingLost
    BY <2>1 DEF Ended, NothingLost
  <2>2. ASSUME NEW rules \in Rulesets, NEW rows \in Tables,
               ValidRuleset(rules), outcome = Evaluation(rules, rows),
               NEW i \in DOMAIN rules, NEW n \in DOMAIN rows, Holds(rules[i], rows[n])
        PROVE  SignalFor(rules[i], rows[n]) \in Signals(rules, rows)
    <3>1. rows # <<>> /\ DOMAIN rows[n] = DOMAIN rows[1]
      OBVIOUS
    <3>2. Evaluated(rules[i], rows)
      BY <2>2, <3>1, HoldsIsEvaluated DEF ValidRuleset
    <3>3. <<i, n>> \in (DOMAIN rules) \X (DOMAIN rows)
      OBVIOUS
    <3>4. QED
      BY <2>2, <3>2, <3>3 DEF Signals, Holds
  <2>3. QED
    BY <2>1, <2>2 DEF EvaluatedInv, Evaluation, NothingLost
<1>2. QED
  BY <1>1, BotTypeCorrect, PTL
=============================================================================
