---------------------------- MODULE MCRulesetRun ----------------------------
(* Two reviewers and the runs of one bot.                                   *)
EXTENDS RulesetRun, FiniteSets

Files == {"staged", "live"}
InodesEnough == 1..(2 * Cardinality(Files) + Cardinality(Clients))
AllDocuments == [source : Sources, rules : Rulesets]

Number(k) == [kind |-> "number", n |-> k, text |-> "number", items |-> {}]
Huge == [kind |-> "huge", n |-> 1000000, text |-> "huge", items |-> {}]
Word(w) == [kind |-> "word", n |-> 0, text |-> w, items |-> {}]
Digits(k) == [kind |-> "digits", n |-> k, text |-> "digits", items |-> {}]
True == [kind |-> "bool", n |-> 1, text |-> "true", items |-> {}]
Null == [kind |-> "null", n |-> 0, text |-> "none", items |-> {}]
Items(values) == [kind |-> "list", n |-> 0, text |-> "list", items |-> values]

TextsWithin == {<<"timeout", "timeout">>, <<"time", "timeout">>, <<"none", "none">>}

Criterion(f, op_, v) == [field |-> f, operator |-> op_, value |-> v, baseline |-> NoBaseline]
Decrease(f, base, v) ==
    [field |-> f, operator |-> "relative_decrease", value |-> v, baseline |-> base]
Rule(i, how, cs) ==
    [id |-> i, combination |-> how, criteria |-> cs, score |-> 70, output |-> <<>>]

\* A rule whose signals carry another rule's id.
Named(rule, id) == [rule EXCEPT !.output = [rule_id |-> id]]

Initially == <<Rule(1, "and", <<Criterion("cpu", "gt", Number(90))>>)>>

Mixed == <<
    Rule(1, "or", <<Criterion("cpu", "lte", Number(1)), Decrease("cpu", "base", Number(50))>>),
    Rule(2, "and", <<Criterion("status", "ne", Number(1)), Criterion("cpu", "gte", Number(1))>>),
    Rule(3, "or", <<>>),
    Named(Rule(4, "and", <<[Criterion("cpu", "gte", Number(0)) EXCEPT !.baseline = "base"]>>), 3)>>

Texts == <<
    Rule(1, "and", <<Criterion("status", "text_present", Word("time"))>>),
    Rule(2, "or", <<Criterion("cpu", "in", Items({Number(1), Null})),
                    Criterion("status", "eq", Word("timeout"))>>),
    Rule(3, "or", <<Criterion("cpu", "lt", Number(0)), Criterion("base", "lt", Huge)>>)>>

\* What validation has to keep out.
SharedId == <<
    Rule(1, "and", <<Criterion("cpu", "gt", Number(90))>>),
    Rule(1, "and", <<Criterion("status", "eq", Null)>>)>>

AllRulesets == {Initially, Mixed, Texts, SharedId}
InvalidRulesets == {r \in AllRulesets : ~ValidRuleset(r)}

Host == Word("a")
Queries == {
    <<>>,
    <<[host |-> Host]>>,
    <<[cpu |-> Number(95)]>>,
    <<[host |-> Host, cpu |-> Number(95)], [host |-> Word("b"), cpu |-> True]>>,
    <<[host |-> Host, cpu |-> Number(40), base |-> Digits(100)],
      [host |-> Word("b"), cpu |-> Null, base |-> Number(0)]>>,
    <<[host |-> Null, cpu |-> Digits(1), status |-> Word("timeout")]>>}
=============================================================================
