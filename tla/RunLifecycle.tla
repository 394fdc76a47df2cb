---------------------------- MODULE RunLifecycle ----------------------------
(***************************************************************************)
(* What the runtime promises about a run, with no threads, queues or       *)
(* webhooks: a run is recorded, it finishes at most once, and an observer  *)
(* is only told what is already recorded, the outcome last and once.       *)
(* The states are the STATUS_* constants of store.py; the executor, the    *)
(* result store and the event bus together are shown to implement this     *)
(* module (Executor!Implements).                                           *)
(***************************************************************************)
CONSTANTS Runs, Clients

VARIABLES
    status,     \* status[r]: "absent" until the row exists, then its status
    told        \* told[c][r]: the last thing observer c was told about r

lifeVars == <<status, told>>

Outcomes == {"completed", "failed"}

Init ==
    /\ status = [r \in Runs |-> "absent"]
    /\ told = [c \in Clients |-> [r \in Runs |-> "nothing"]]

Begin(r) ==
    /\ status[r] = "absent"
    /\ status' = [status EXCEPT ![r] = "running"]
    /\ UNCHANGED told

Finish(r, outcome) ==
    /\ status[r] = "running"
    /\ status' = [status EXCEPT ![r] = outcome]
    /\ UNCHANGED told

\* An observer may be told that a recorded run is under way (it may have
\* finished meanwhile) as long as it was not told the outcome, ...
TellUnderWay(c, r) ==
    /\ status[r] # "absent"
    /\ told[c][r] \notin Outcomes
    /\ told' = [told EXCEPT ![c][r] = "underway"]
    /\ UNCHANGED status

\* ... and it is told the outcome once, and only the recorded one.
TellOutcome(c, r) ==
    /\ status[r] \in Outcomes
    /\ told[c][r] \notin Outcomes
    /\ told' = [told EXCEPT ![c][r] = status[r]]
    /\ UNCHANGED status

Next ==
    \E r \in Runs :
        \/ Begin(r)
        \/ \E outcome \in Outcomes : Finish(r, outcome)
        \/ \E c \in Clients : TellUnderWay(c, r) \/ TellOutcome(c, r)

Spec == Init /\ [][Next]_lifeVars
=============================================================================
