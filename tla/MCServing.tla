----------------------------- MODULE MCServing -----------------------------
(* The constants of the runs on Serving: two bots, either of which may be   *)
(* deployed to every directory.                                             *)
EXTENDS Serving, TLC

CONSTANTS a, b

MCManifests == {[id |-> a, cron |-> "crontab", refused |-> FALSE],
                [id |-> b, cron |-> "malformed", refused |-> TRUE]}
\* Reload requests are alike.
AdminSymmetry == Permutations(Admins)
=============================================================================
