------------------------------- MODULE RunIds -------------------------------
(***************************************************************************)
(* What every part of the runtime names runs and bots by.                  *)
(***************************************************************************)
EXTENDS Naturals

CONSTANTS
    Runs,       \* run ids; ORDER BY run_id compares them, so naturals
    Bots,
    BotOf       \* the bot a run id is drawn for (_new_run_id never repeats one)

ASSUME RunIdAssumption ==
    /\ Runs \subseteq Nat
    /\ BotOf \in [Runs -> Bots]
=============================================================================
