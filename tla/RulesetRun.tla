----------------------------- MODULE RulesetRun -----------------------------
(***************************************************************************)
(* Runs of a bot that evaluates its ruleset (run_ruleset), while reviewers *)
(* stage, reject and approve proposals for it (Proposals). A run reads     *)
(* ruleset.json afresh, then queries, then evaluates what it has read.     *)
(***************************************************************************)
EXTENDS Proposals, Ruleset

CONSTANT Tables     \* what the query of the author's source may return

\* The rows of one query have the same columns.
ASSUME RulesetRunAssumption ==
    /\ Invalid = {r \in Rulesets : ~ValidRuleset(r)}
    /\ \A rows \in Tables : \A n \in DOMAIN rows : DOMAIN rows[n] = DOMAIN rows[1]

VARIABLES
    used,       \* the document a run works on, NoDoc if no run is under way
    running,    \* a run has read its ruleset and will query
    outcome     \* how the last run ended

runVars == <<used, running, outcome>>
botVars == <<vars, runVars>>

\* A run that ends well returns signals and reports rules; the other outcomes
\* are the exceptions it raises.
Ended(kind) == [kind |-> kind, rules |-> <<>>, rows |-> <<>>, signals |-> {}, reported |-> {}]
Errors == {"none", "missing", "invalid", "no source", "query", "overflow"}

Evaluation(rules, rows) ==
    [kind |-> "result", rules |-> rules, rows |-> rows,
     signals |-> Signals(rules, rows), reported |-> Reported(rules, rows)]

BotTypeOK ==
    /\ TypeOK
    /\ used \in Docs
    /\ running \in BOOLEAN
    /\ \/ \E kind \in Errors : outcome = Ended(kind)
       \/ \E rules \in Rulesets, rows \in Tables : outcome = Evaluation(rules, rows)

BotInit ==
    /\ Init
    /\ used = NoDoc
    /\ running = FALSE
    /\ outcome = Ended("none")

RunEnds(kind) ==
    /\ outcome' = Ended(kind)
    /\ running' = FALSE
    /\ used' = NoDoc

\* Mutant: a run refuses what an approval only warns of.
AcceptedWithoutWarnings ==
    /\ Exists("live") /\ Whole(Text("live")) /\ ValidRuleset(Text("live").rules)
    /\ \A i \in DOMAIN Text("live").rules : Text("live").rules[i].criteria # <<>>

\* The ruleset parses and validates.
Accepted == Exists("live") /\ Whole(Text("live")) /\ ValidRuleset(Text("live").rules)

\* The hot read, the validation and the look for a source. No one looks whether
\* the file is there.
ReadRuleset ==
    /\ ~running
    /\ \/ ~Accepted /\ RunEnds(IF Exists("live") THEN "invalid" ELSE "missing")
       \/ Accepted /\ Text("live").source = "none" /\ RunEnds("no source")
       \/ /\ Accepted /\ Text("live").source # "none"
          /\ used' = Text("live")
          /\ running' = TRUE
          /\ outcome' = Ended("none")
    /\ UNCHANGED vars

\* source.query raises, or answers, and the rules that were read are evaluated.
QueryAndEvaluate ==
    /\ running
    /\ \/ RunEnds("query")
       \/ \E rows \in Tables :
            \/ EvaluationRaises(used.rules, rows) /\ RunEnds("overflow")
            \/ /\ ~EvaluationRaises(used.rules, rows)
               /\ outcome' = Evaluation(used.rules, rows)
               /\ running' = FALSE
               /\ used' = NoDoc
    /\ UNCHANGED vars

BotNext ==
    \/ Next /\ UNCHANGED runVars
    \/ ReadRuleset
    \/ QueryAndEvaluate

BotSpec == BotInit /\ [][BotNext]_botVars

-----------------------------------------------------------------------------

\* However reviewers, failures and runs interleave, with one approver a ruleset.json
\* that a run finds parses and validates: what is staged invalid, edited by hand
\* or half written never gets there. One that fails for want of a source is right
\* for good, and one under way reads the source of what is live now. What is left
\* are runs of a bot without ruleset.json, or whose first one an approval made,
\* and rulesets that validate and overflow (ruleset.py:235, 291-298,
\* proposals.py:96-108).
RunsFindAValidRuleset ==
    /\ outcome.kind # "invalid"
    /\ outcome.kind = "no source" => Exists("live") /\ Text("live").source = "none"
    /\ running => Exists("live") /\ Text("live").source = used.source

\* A rule a run reports as unsupported emits no signal in it: a signal that
\* carries its id is of a rule that is not reported and whose output names the
\* id. That needs more than the skip: the ids of a ruleset have to tell its rules
\* apart (ruleset.py:172-178, 259-286, 302-307).
ReportedNeverEmits ==
    \A s \in outcome.signals : s.rule \in outcome.reported =>
        \E i \in DOMAIN outcome.rules :
            /\ outcome.rules[i].id \notin outcome.reported
            /\ NamesRule(outcome.rules[i], s.rule)

\* A criterion that names a baseline only if it is a decrease. A rule with
\* another one may be skipped for want of a column it would not look at.
UsesItsFields(c) == c.baseline = NoBaseline \/ c.operator = "relative_decrease"

Holds(rule, row) ==
    /\ rule.criteria # <<>>
    /\ \A k \in DOMAIN rule.criteria : UsesItsFields(rule.criteria[k])
    /\ IdField \in DOMAIN row
    /\ Matches(rule, row)

\* Skipping rules costs no signal: a rule with criteria that holds of a row with
\* an entity id is signalled for it, also an "or" some of whose fields are not
\* there (ruleset.py:134-160, 245-286).
NothingLost ==
    \A i \in DOMAIN outcome.rules, n \in DOMAIN outcome.rows :
        Holds(outcome.rules[i], outcome.rows[n])
            => SignalFor(outcome.rules[i], outcome.rows[n]) \in outcome.signals
=============================================================================
