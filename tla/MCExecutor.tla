----------------------------- MODULE MCExecutor -----------------------------
(* Instances of the executor for TLC: runs of one bot, so that they compete *)
(* for its latest result and share its subscriptions, and runs asked of a   *)
(* bot that declares no tables.                                             *)
EXTENDS ExecutorProps

CONSTANTS Bot, OpenBot, OpenRuns, ManifestHook

TwoBots == {Bot, OpenBot}
OpenBots == {OpenBot}
BotOfRun == [r \in Runs |-> IF r \in OpenRuns THEN OpenBot ELSE Bot]
DeclaredSinks == [b \in Bots |-> {ManifestHook}]
NoSinks == [b \in Bots |-> {}]
=============================================================================
