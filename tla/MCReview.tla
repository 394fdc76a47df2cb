------------------------------ MODULE MCReview ------------------------------
(* Runs of one bot, of which a tuning sees the newest.                      *)
EXTENDS Review

CONSTANT Bot

OneBot == {Bot}
BotOfRun == [r \in Runs |-> Bot]
\* Scores the bots computed: one to sort, clamp and round, one to clamp to 0.
SomeResults == {Result(<<Signal(4567896), Signal(One + 1)>>, NoScore),
                PredictionResult(<<Prediction(3999996), Prediction(6000000)>>, One \div 2),
                Result(<<Signal(NoScore), Signal(-5)>>, NoScore)}
SomeWishes == Decisions \cup {"maybe"}
=============================================================================
