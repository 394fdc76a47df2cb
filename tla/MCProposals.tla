----------------------------- MODULE MCProposals -----------------------------
(* Two reviewers of one bot.                                                *)
EXTENDS Proposals, FiniteSets

Files == {"staged", "live"}
Documents == [source : Sources, rules : Rulesets]
InodesEnough == 1..(2 * Cardinality(Files) + Cardinality(Clients))
=============================================================================
