----------------------------- MODULE ResultStore -----------------------------
(***************************************************************************)
(* store.py: the bot_runs table. Every method is one transaction under the *)
(* store's lock, so each is one step. created_at is read from the wall     *)
(* clock before the lock is taken (store.py:127), so it is any value: two  *)
(* rows may share it, and a later row may carry an earlier one.            *)
(***************************************************************************)
EXTENDS RunIds

CONSTANT Stamps     \* values of created_at

ASSUME StoreAssumption == Stamps \subseteq Nat

VARIABLES
    status,     \* status[r]: "absent" (no row) or the status column
    created     \* created[r]: the created_at column

storeVars == <<status, created>>

Outcomes == {"completed", "failed"}

Exists(r) == status[r] # "absent"

StoreTypeOK ==
    /\ status \in [Runs -> {"absent", "running"} \cup Outcomes]
    /\ created \in [Runs -> Nat]

StoreInit ==
    /\ status = [r \in Runs |-> "absent"]
    /\ created = [r \in Runs |-> 0]

\* run_id is the primary key: inserting it twice is an error.
CreateRunning(r, now) ==
    /\ ~Exists(r)
    /\ status' = [status EXCEPT ![r] = "running"]
    /\ created' = [created EXCEPT ![r] = now]

\* Both updates ask only that the row exists (KeyError otherwise): nothing
\* here stops a second update of a finished run.
MarkCompleted(r) ==
    /\ Exists(r)
    /\ status' = [status EXCEPT ![r] = "completed"]
    /\ UNCHANGED created

\* Mutant: a status no reader knows.
MarkFailedUnknownStatus(r) ==
    /\ Exists(r)
    /\ status' = [status EXCEPT ![r] = "error"]
    /\ UNCHANGED created

MarkFailed(r) ==
    /\ Exists(r)
    /\ status' = [status EXCEPT ![r] = "failed"]
    /\ UNCHANGED created

-----------------------------------------------------------------------------
\* Queries.

\* ORDER BY created_at DESC, run_id DESC.
Newer(r, s) ==
    \/ created[r] > created[s]
    \/ created[r] = created[s] /\ r > s

Completed(b) == {r \in Runs : BotOf[r] = b /\ status[r] = "completed"}

\* Mutant: ORDER BY without DESC.
LatestAscending(b) == {r \in Completed(b) : \A s \in Completed(b) : ~Newer(r, s)}

\* latest(bot): history(bot, limit=1, status=completed). The empty set stands
\* for None, otherwise it holds one run.
Latest(b) == {r \in Completed(b) : \A s \in Completed(b) : ~Newer(s, r)}
=============================================================================
