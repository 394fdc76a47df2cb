------------------------------ MODULE Ruleset ------------------------------
(***************************************************************************)
(* ruleset.py as functions of a list of rules and the rows of a query. A   *)
(* row is a function on the fields it has. A value keeps what the          *)
(* operators look at: its kind, the number float() makes of it, its text   *)
(* str().lower(), and the items of a list. "digits" is a text that parses  *)
(* as a number, "word" one that does not, "huge" an integer that float()    *)
(* refuses with an OverflowError. Of a rule's output only a "rule_id" is    *)
(* looked at.                                                              *)
(***************************************************************************)
EXTENDS Integers, Sequences

CONSTANTS
    IdField,    \* the column that names an entity
    Within      \* pairs of texts, the first of which occurs in the second

NumericOperators == {"lt", "lte", "gt", "gte", "relative_decrease"}
SupportedOperators == NumericOperators \cup {"eq", "ne", "in", "text_present"}

NoBaseline == ""
MaxScore == 100     \* 1.0

IsNumber(v) == v.kind \in {"number", "huge"}
HasFloat(v) == v.kind \in {"number", "bool", "digits"}

-----------------------------------------------------------------------------
\* validate_ruleset, the schema's validators included.

WellFormed(c) ==
    /\ c.operator \in SupportedOperators
    /\ c.operator \in NumericOperators => IsNumber(c.value)
    /\ c.operator = "relative_decrease" => c.baseline # NoBaseline
    /\ c.operator = "in" => c.value.kind = "list"
    /\ c.operator = "text_present" => c.value.kind \in {"digits", "word"} /\ c.value.text # ""

\* Mutant: two rules may carry one id.
AcceptsDuplicates(rules) ==
    \A i \in DOMAIN rules :
        /\ rules[i].score \in 0..MaxScore
        /\ rules[i].combination \in {"and", "or"}
        /\ \A k \in DOMAIN rules[i].criteria : WellFormed(rules[i].criteria[k])

ValidRuleset(rules) ==
    \A i \in DOMAIN rules :
        /\ rules[i].score \in 0..MaxScore
        /\ rules[i].combination \in {"and", "or"}
        /\ \A k \in DOMAIN rules[i].criteria : WellFormed(rules[i].criteria[k])
        /\ \A j \in DOMAIN rules : rules[i].id = rules[j].id => i = j

-----------------------------------------------------------------------------
\* _passes and _evaluate_rule.

\* ==, for which True is 1 and 1.0.
Equal(v, w) ==
    IF {v.kind, w.kind} \subseteq {"number", "bool", "huge"} THEN v.n = w.n ELSE v = w

\* (baseline - current) / baseline * 100 >= percent; never for baseline 0.
DecreasedBy(current, baseline, percent) ==
    \/ baseline > 0 /\ (baseline - current) * 100 >= percent * baseline
    \/ baseline < 0 /\ (baseline - current) * 100 <= percent * baseline

Compare(operator, v, threshold) ==
    \/ operator = "lt" /\ v < threshold
    \/ operator = "lte" /\ v <= threshold
    \/ operator = "gt" /\ v > threshold
    \/ operator = "gte" /\ v >= threshold

\* A missing field, or a text where a number is asked for, passes nothing.
Passes(c, row) ==
    /\ c.field \in DOMAIN row
    /\ LET v == row[c.field] IN
        \/ c.operator = "eq" /\ Equal(v, c.value)
        \/ c.operator = "ne" /\ ~Equal(v, c.value)
        \/ c.operator = "in" /\ \E w \in c.value.items : Equal(v, w)
        \/ c.operator = "text_present" /\ <<c.value.text, v.text>> \in Within
        \/ /\ c.operator = "relative_decrease"
           /\ c.baseline \in DOMAIN row
           /\ HasFloat(v) /\ HasFloat(row[c.baseline])
           /\ DecreasedBy(v.n, row[c.baseline].n, c.value.n)
        \/ HasFloat(v) /\ Compare(c.operator, v.n, c.value.n)

\* What float() raises on an integer beyond its range is not caught. Nothing is
\* raised before the field and, for a decrease, the baseline are seen to be numbers.
Raises(c, row) ==
    /\ c.operator \in NumericOperators
    /\ c.field \in DOMAIN row
    /\ \/ row[c.field].kind = "huge"
       \/ /\ HasFloat(row[c.field])
          /\ c.operator # "relative_decrease"
          /\ c.value.kind = "huge"
       \/ /\ HasFloat(row[c.field])
          /\ c.operator = "relative_decrease"
          /\ c.baseline \in DOMAIN row
          /\ LET baseline == row[c.baseline] IN
                \/ baseline.kind = "huge"
                \/ HasFloat(baseline) /\ baseline.n # 0 /\ c.value.kind = "huge"

\* all() of no criteria is true.
Matches(rule, row) ==
    IF rule.combination = "or"
    THEN \E k \in DOMAIN rule.criteria : Passes(rule.criteria[k], row)
    ELSE \A k \in DOMAIN rule.criteria : Passes(rule.criteria[k], row)

-----------------------------------------------------------------------------
\* _unsupported_reason, evaluate and run_ruleset.

\* The fields a criterion names, a baseline it does not use included.
Refers(c) == {c.field, c.baseline} \ {NoBaseline}

\* Mutant: one criterion that cannot be evaluated rules out the rule.
LacksAny(rule, known) ==
    \E k \in DOMAIN rule.criteria : ~(Refers(rule.criteria[k]) \subseteq known)

\* Under "and" every criterion has to be evaluable, under "or" one.
LacksFields(rule, known) ==
    LET lacking == {k \in DOMAIN rule.criteria : ~(Refers(rule.criteria[k]) \subseteq known)}
    IN  \/ rule.combination = "and" /\ lacking # {}
        \/ rule.combination = "or" /\ lacking = DOMAIN rule.criteria

\* The known fields are those of the first row; without rows nothing is known.
Unsupported(rule, rows) ==
    \/ rule.criteria = <<>>
    \/ rows # <<>> /\ (IdField \notin DOMAIN rows[1] \/ LacksFields(rule, DOMAIN rows[1]))

Reported(rules, rows) == {rules[i].id : i \in {j \in DOMAIN rules : Unsupported(rules[j], rows)}}

Evaluated(rule, rows) == ~Unsupported(rule, rows)

\* The output of the rule is spread over the id of its signal.
NamesRule(rule, id) == "rule_id" \in DOMAIN rule.output /\ rule.output["rule_id"] = id

\* str(row.get(id_field, "")) of the rule that matched.
SignalFor(rule, row) ==
    [rule |-> IF "rule_id" \in DOMAIN rule.output THEN rule.output["rule_id"] ELSE rule.id,
     target |-> IF IdField \in DOMAIN row THEN row[IdField].text ELSE ""]

Signals(rules, rows) ==
    {SignalFor(rules[p[1]], rows[p[2]]) :
        p \in {q \in (DOMAIN rules) \X (DOMAIN rows) :
                Evaluated(rules[q[1]], rows) /\ Matches(rules[q[1]], rows[q[2]])}}

\* Every criterion of a rule that is not skipped is looked at on every row, also
\* where an earlier one has settled the match.
EvaluationRaises(rules, rows) ==
    \E i \in DOMAIN rules, n \in DOMAIN rows :
        /\ Evaluated(rules[i], rows)
        /\ \E k \in DOMAIN rules[i].criteria : Raises(rules[i].criteria[k], rows[n])
=============================================================================
