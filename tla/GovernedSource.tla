--------------------------- MODULE GovernedSource ---------------------------
(***************************************************************************)
(* source.py, sql.py and audit.py: several threads read through one        *)
(* DataSource, some of them through a ScopedSource. An access passes the   *)
(* scope check (scoped callers), the read-only guard and the backend, and  *)
(* is written to the audit log at the step that decides it. What the scope *)
(* check is shown and what runs are kept apart: they are one text for      *)
(* query, and two for sample and stats.                                    *)
(***************************************************************************)
EXTENDS Naturals, Sequences

CONSTANTS
    Callers,        \* threads that share the source
    Tables,         \* names as tables_referenced returns them
    Declared,       \* Declared[c]: data_access.tables of a scoped caller
    Scoped,         \* callers that hold a ScopedSource
    Statements,     \* statements the callers send
    AuditFaults,    \* whether writing an audit row may raise
    MaxAccesses     \* bound: accesses of one caller

\* A query, sample or stats, as sqlglot and the backend take it. Of what _check
\* is shown, `SELECT * FROM {table}` for sample and stats: whether it parses,
\* and the tables tables_referenced finds in it. Of what runs: its kind (one
\* pure SELECT, any other statement or several, or no SQL) and the tables it
\* reads. A column expression of stats is in the second only, and a table that
\* has the name of a CTE is not among the first.
Statement == [masked : BOOLEAN,     \* sample or stats: the rows are masked
              parses : BOOLEAN,
              refs : SUBSET Tables,
              kind : {"select", "write", "garbage"},
              reads : SUBSET Tables]

ASSUME SourceAssumption ==
    /\ Declared \in [Callers -> SUBSET Tables]
    /\ Scoped \subseteq Callers
    /\ Statements \subseteq Statement
    /\ AuditFaults \in BOOLEAN
    /\ MaxAccesses \in Nat

VARIABLES
    pc,         \* pc[c]: where the access of c is
    op,         \* op[c]: "query" (query, sample or stats) or "schema"
    stmt,       \* stmt[c]: what the query, sample or stats is of
    verdict,    \* verdict[c]: the outcome the audit row of c will carry
    holder,     \* the callers inside the source's lock
    results,    \* results[c]: how the accesses of c ended
    log         \* log[c][n]: outcomes of the audit rows the n-th access of c wrote

vars == <<pc, op, stmt, verdict, holder, results, log>>

Verdicts == {"ok", "denied", "error"}

\* Rows, a ReadOnlyViolation or ScopeViolation (run_query's 400), any other
\* exception (its 500).
Results == {"rows", "refused", "failed"}

TypeOK ==
    /\ pc \in [Callers -> {"idle", "check", "guard", "enter", "backend", "audit"}]
    /\ op \in [Callers -> {"query", "schema"}]
    /\ stmt \in [Callers -> Statement]
    /\ verdict \in [Callers -> Verdicts]
    /\ holder \subseteq Callers
    /\ results \in [Callers -> Seq(Results)]
    /\ log \in [Callers -> [1..MaxAccesses -> Seq(Verdicts)]]

NoStatement ==
    [masked |-> FALSE, parses |-> FALSE, refs |-> {}, kind |-> "garbage", reads |-> {}]

Init ==
    /\ pc = [c \in Callers |-> "idle"]
    /\ op = [c \in Callers |-> "query"]
    /\ stmt = [c \in Callers |-> NoStatement]
    /\ verdict = [c \in Callers |-> "ok"]
    /\ holder = {}
    /\ results = [c \in Callers |-> <<>>]
    /\ log = [c \in Callers |-> [n \in 1..MaxAccesses |-> <<>>]]

-----------------------------------------------------------------------------

\* The access c is at, or, between two, the one to come.
Current(c) == Len(results[c]) + 1

\* An empty allowlist is no restriction.
Restricted(c) == c \in Scoped /\ Declared[c] # {}

Goto(c, place) == pc' = [pc EXCEPT ![c] = place]

\* What the caller gets for a verdict.
Answered(v) ==
    CASE v = "ok" -> "rows"
      [] v = "denied" -> "refused"
      [] v = "error" -> "failed"

\* The access ends.
Finish(c, result) ==
    /\ Goto(c, "idle")
    /\ results' = [results EXCEPT ![c] = Append(@, result)]

\* Mutant: the denial is audited under a name of its own.
DecideUnknownOutcome(c, v) ==
    /\ Goto(c, "audit")
    /\ verdict' = [verdict EXCEPT ![c] = IF v = "denied" THEN "refused" ELSE v]

\* The access is decided: its audit row is next.
Decide(c, v) ==
    /\ Goto(c, "audit")
    /\ verdict' = [verdict EXCEPT ![c] = v]

StartQuery(c, s) ==
    /\ pc[c] = "idle"
    /\ Current(c) <= MaxAccesses
    /\ Goto(c, IF Restricted(c) THEN "check" ELSE "guard")
    /\ op' = [op EXCEPT ![c] = "query"]
    /\ stmt' = [stmt EXCEPT ![c] = s]
    /\ UNCHANGED <<verdict, holder, results, log>>

\* schema() has neither scope check nor guard, scoped or not.
StartSchema(c) ==
    /\ pc[c] = "idle"
    /\ Current(c) <= MaxAccesses
    /\ Goto(c, "enter")
    /\ op' = [op EXCEPT ![c] = "schema"]
    /\ UNCHANGED <<stmt, verdict, holder, results, log>>

\* Mutant: any() over the references instead of every one.
InScopeAny(c, s) == s.refs \cap Declared[c] # {}

\* Every reference must match a declared table.
InScope(c, s) == s.refs \subseteq Declared[c]

\* ScopedSource._check, of what it is shown. tables_referenced raises on what
\* does not parse, before any audit row.
CheckScope(c) ==
    /\ pc[c] = "check"
    /\ \/ /\ ~stmt[c].parses
          /\ Finish(c, "refused")
          /\ UNCHANGED verdict
       \/ /\ stmt[c].parses
          /\ ~InScope(c, stmt[c])
          /\ Decide(c, "denied")
          /\ UNCHANGED results
       \/ /\ stmt[c].parses
          /\ InScope(c, stmt[c])
          /\ Goto(c, "guard")
          /\ UNCHANGED <<verdict, results>>
    /\ UNCHANGED <<op, stmt, holder, log>>

\* assert_read_only, of what runs.
Guard(c) ==
    /\ pc[c] = "guard"
    /\ \/ /\ stmt[c].kind = "select"
          /\ Goto(c, "enter")
          /\ UNCHANGED verdict
       \/ /\ stmt[c].kind # "select"
          /\ Decide(c, "denied")
    /\ UNCHANGED <<op, stmt, holder, results, log>>

\* Mutant: the schema path without the lock.
EnterUnlocked(c) ==
    /\ pc[c] = "enter"
    /\ op[c] = "query" => holder = {}
    /\ holder' = holder \cup {c}
    /\ Goto(c, "backend")
    /\ UNCHANGED <<op, stmt, verdict, results, log>>

\* with self._lock: one thread at a time in the backend.
Enter(c) ==
    /\ pc[c] = "enter"
    /\ holder = {}
    /\ holder' = {c}
    /\ Goto(c, "backend")
    /\ UNCHANGED <<op, stmt, verdict, results, log>>

BackendAnswers(c) ==
    /\ pc[c] = "backend"
    /\ holder' = holder \ {c}
    /\ Decide(c, "ok")
    /\ UNCHANGED <<op, stmt, results, log>>

\* Mutant: acquire() and release() without try/finally.
BackendFailsHoldingLock(c) ==
    /\ pc[c] = "backend"
    /\ op[c] = "query"
    /\ Decide(c, "error")
    /\ UNCHANGED <<op, stmt, holder, results, log>>

\* The backend raises: a query is audited as an error, schema() has no handler
\* and its exception leaves without an audit row.
BackendFails(c) ==
    /\ pc[c] = "backend"
    /\ holder' = holder \ {c}
    /\ \/ op[c] = "query" /\ Decide(c, "error") /\ UNCHANGED results
       \/ op[c] = "schema" /\ Finish(c, "failed") /\ UNCHANGED verdict
    /\ UNCHANGED <<op, stmt, log>>

\* The results the caller may get once the row is written: the verdict's, and an
\* exception where sample or stats go on to mask the rows.
Outcomes(c) ==
    {Answered(verdict[c])} \cup
        (IF verdict[c] = "ok" /\ op[c] = "query" /\ stmt[c].masked THEN {"failed"} ELSE {})

\* Mutant: an audit log that cannot be written does not fail the access.
WriteAuditBestEffort(c) ==
    /\ pc[c] = "audit"
    /\ log' \in {log, [log EXCEPT ![c][Current(c)] = Append(@, verdict[c])]}
    /\ \E result \in Outcomes(c) : Finish(c, result)
    /\ UNCHANGED <<op, stmt, verdict, holder>>

\* audit.record, outside the source's lock; then the rows, masked for sample and
\* stats, or the exception.
WriteAudit(c) ==
    /\ pc[c] = "audit"
    /\ log' = [log EXCEPT ![c][Current(c)] = Append(@, verdict[c])]
    /\ \E result \in Outcomes(c) : Finish(c, result)
    /\ UNCHANGED <<op, stmt, verdict, holder>>

\* audit.record raises: the access raises, whatever was decided.
AuditFails(c) ==
    /\ AuditFaults
    /\ pc[c] = "audit"
    /\ Finish(c, "failed")
    /\ UNCHANGED <<op, stmt, verdict, holder, log>>

Step(c) ==
    \/ CheckScope(c)
    \/ Guard(c)
    \/ Enter(c)
    \/ BackendAnswers(c)
    \/ BackendFails(c)
    \/ WriteAudit(c)
    \/ AuditFails(c)

Next ==
    \E c \in Callers :
        \/ \E s \in Statements : StartQuery(c, s)
        \/ StartSchema(c)
        \/ Step(c)

Spec == Init /\ [][Next]_vars

\* A thread that is inside an access goes on; the backend answers or raises.
FairSpec == Spec /\ \A c \in Callers : WF_vars(Step(c))

-----------------------------------------------------------------------------

\* Rows reach a caller only with one audit row that says ok, a denial reaches it
\* as a refusal, and a refusal is never what a failure of the backend, of the
\* masking or of the log is told as (source.py:96-134, audit.py:74-96,
\* routers.py:342-349). No access writes two rows. A refusal without a row is a
\* scoped statement that does not parse; a failure with a row that says ok, one
\* of the masking.
Agrees(result, rows) ==
    /\ result = "rows" => rows = <<"ok">>
    /\ rows = <<"ok">> => result \in {"rows", "failed"}
    /\ rows = <<"denied">> => result = "refused"
    /\ result = "refused" => rows \in {<<>>, <<"denied">>}
    /\ Len(rows) <= 1

RowsAreAudited ==
    \A c \in Callers : \A n \in 1..Len(results[c]) : Agrees(results[c][n], log[c][n])

\* What the access of c is about, by what the two gates are shown of it.
AskedFor(c) ==
    CASE pc[c] = "idle" -> "nothing"
      [] pc[c] # "idle" /\ op[c] = "schema" -> "schema"
      [] pc[c] # "idle" /\ op[c] = "query" ->
            IF Restricted(c) /\ ~stmt[c].parses THEN "unclear"
            ELSE IF stmt[c].kind = "select" /\ (Restricted(c) => InScope(c, stmt[c]))
            THEN IF stmt[c].masked THEN "masked" ELSE "allowed"
            ELSE "forbidden"

Asked == [c \in Callers |-> AskedFor(c)]

Ended ==
    [c \in Callers |->
        [n \in 1..Len(results[c]) |-> [result |-> results[c][n], rows |-> log[c][n]]]]

Reads == INSTANCE AuditedReads WITH asked <- Asked, ended <- Ended, LogMayFail <- AuditFaults

\* Gates, lock, backend and log amount to one step per access: what the gates
\* allow is never refused and what they forbid never yields rows; rows come only
\* with a row that says ok, a refusal with the row of a denial or, where what the
\* check of a scoped caller is shown does not parse, with none; a failure is told
\* as one, after a row that says ok only where the rows were to be masked; and no
\* access changes the rows of another (source.py:96-146, 157-187,
\* routers.py:342-349). Allowed and forbidden are by what the gates are shown:
\* that it need not be all that is read is ScopeIsEnforced below.
ImplementsAuditedReads == Reads!Spec

\* The backend only ever runs a SELECT that passed both gates for the caller on
\* whose behalf it runs; where the scope check was shown every table it reads, it
\* reads no other than the declared ones (source.py:96-106, 157-184).
BackendReadsInScope ==
    \A c \in Callers :
        pc[c] = "backend" /\ op[c] = "query" =>
            /\ stmt[c].kind = "select"
            /\ Restricted(c) => stmt[c].refs \subseteq Declared[c]
            /\ Restricted(c) /\ stmt[c].reads \subseteq stmt[c].refs =>
                    stmt[c].reads \subseteq Declared[c]

\* One connection, one thread in it (source.py:64-67, 105, 137).
BackendIsExclusive ==
    \A c, d \in Callers : pc[c] = "backend" /\ pc[d] = "backend" => c = d

\* Every access ends, also after a backend error: the lock is never left held
\* (source.py:104-112, 137-140).
AccessEnds == \A c \in Callers : pc[c] # "idle" ~> pc[c] = "idle"

-----------------------------------------------------------------------------
\* A claim of the module's own documentation that the code does not meet.

\* source.py:10-11, "rejects any query that reads a table outside the declared
\* DataAccess allowlist": stats checks its table and runs its column expression.
ScopeIsEnforced ==
    \A c \in Callers :
        pc[c] = "backend" /\ op[c] = "query" /\ Restricted(c) =>
            stmt[c].reads \subseteq Declared[c]
=============================================================================
