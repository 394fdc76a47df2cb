------------------------ MODULE GovernedSourceProofs ------------------------
(***************************************************************************)
(* Proofs about the governed source, for any callers, tables, declarations *)
(* and statements.                                                         *)
(***************************************************************************)
EXTENDS GovernedSource, TLAPS

\* Every variable keeps its type.
THEOREM TypeCorrect == Spec => []TypeOK
<1>1. Init => TypeOK
  BY SourceAssumption DEF SourceAssumption, Init, TypeOK, NoStatement, Statement, Verdicts
<1>2. TypeOK /\ [Next]_vars => TypeOK'
  <2> SUFFICES ASSUME TypeOK, [Next]_vars PROVE TypeOK'
    OBVIOUS
  <2> USE SourceAssumption DEF SourceAssumption, TypeOK, Verdicts, Results, Goto, Finish,
         Decide, Current
  <2>0. ASSUME NEW c \in Callers
        PROVE /\ \A x \in Results : Append(results[c], x) \in Seq(Results)
              /\ \A n \in 1..MaxAccesses : Append(log[c][n], verdict[c]) \in Seq(Verdicts)
    OBVIOUS
  <2>1. ASSUME NEW c \in Callers, NEW s \in Statements, StartQuery(c, s) PROVE TypeOK'
    BY <2>1 DEF StartQuery
  <2>2. ASSUME NEW c \in Callers, StartSchema(c) PROVE TypeOK'
    BY <2>2 DEF StartSchema
  <2>3. ASSUME NEW c \in Callers, CheckScope(c) PROVE TypeOK'
    <3>1. CASE Finish(c, "refused") /\ UNCHANGED <<verdict, op, stmt, holder, log>>
      BY <2>0, <3>1
    <3>2. CASE Decide(c, "denied") /\ UNCHANGED <<results, op, stmt, holder, log>>
      BY <3>2
    <3>3. CASE Goto(c, "guard") /\ UNCHANGED <<verdict, results, op, stmt, holder, log>>
      BY <3>3
    <3>4. QED
      BY ONLY <2>3, <3>1, <3>2, <3>3 DEF CheckScope
  <2>4. ASSUME NEW c \in Callers, Guard(c) PROVE TypeOK'
    BY <2>4 DEF Guard
  <2>5. ASSUME NEW c \in Callers, Enter(c) PROVE TypeOK'
    BY <2>5 DEF Enter
  <2>6. ASSUME NEW c \in Callers, BackendAnswers(c) PROVE TypeOK'
    BY <2>6 DEF BackendAnswers
  <2>7. ASSUME NEW c \in Callers, BackendFails(c) PROVE TypeOK'
    <3>1. CASE Decide(c, "error") /\ UNCHANGED results
      BY <2>7, <3>1 DEF BackendFails
    <3>2. CASE Finish(c, "failed") /\ UNCHANGED verdict
      BY <2>0, <2>7, <3>2 DEF BackendFails
    <3>3. QED
      BY ONLY <2>7, <3>1, <3>2 DEF BackendFails
  <2>8. ASSUME NEW c \in Callers, WriteAudit(c) PROVE TypeOK'
    <3>1. PICK result \in Outcomes(c) : Finish(c, result)
      BY <2>8 DEF WriteAudit
    <3>2. result \in Results
      BY <3>1 DEF Outcomes, Answered
    <3>3. /\ pc[c] = "audit"
          /\ log' = [log EXCEPT ![c][Current(c)] = Append(@, verdict[c])]
          /\ UNCHANGED <<op, stmt, verdict, holder>>
      BY ONLY <2>8 DEF WriteAudit
    <3>4. pc' \in [Callers -> {"idle", "check", "guard", "enter", "backend", "audit"}]
      BY <3>1
    <3>5. results' \in [Callers -> Seq(Results)]
      BY <2>0, <3>1, <3>2
    <3>6. log' \in [Callers -> [1..MaxAccesses -> Seq(Verdicts)]]
      BY <2>0, <3>3
    <3>7. QED
      BY <3>3, <3>4, <3>5, <3>6
  <2>9. ASSUME NEW c \in Callers, AuditFails(c) PROVE TypeOK'
    BY <2>0, <2>9 DEF AuditFails
  <2>10. CASE UNCHANGED vars
    BY <2>10 DEF vars
  <2>11. QED
    BY <2>1, <2>2, <2>3, <2>4, <2>5, <2>6, <2>7, <2>8, <2>9, <2>10 DEF Next, Step
<1>3. QED
  BY <1>1, <1>2, PTL DEF Spec

-----------------------------------------------------------------------------
\* What an access has passed when it is in or before the backend, and who holds
\* the lock.
GateInv ==
    /\ \A c \in Callers :
        /\ pc[c] \in {"check", "guard"} => op[c] = "query"
        /\ pc[c] = "guard" => (Restricted(c) => InScope(c, stmt[c]))
        /\ pc[c] \in {"enter", "backend"} /\ op[c] = "query" =>
            /\ stmt[c].kind = "select"
            /\ Restricted(c) => InScope(c, stmt[c])
        /\ pc[c] = "backend" <=> c \in holder
    /\ \A c, d \in holder : c = d

\* GateInv is inductive.
LEMMA GateInvariant == Spec => []GateInv
<1>1. Init => GateInv
  BY DEF Init, GateInv
<1>2. TypeOK /\ GateInv /\ [Next]_vars => GateInv'
  <2> SUFFICES ASSUME TypeOK, GateInv, [Next]_vars PROVE GateInv'
    OBVIOUS
  <2> USE DEF TypeOK, GateInv, Goto, Finish, Decide, Restricted, InScope
  <2>1. ASSUME NEW c \in Callers, NEW s \in Statements, StartQuery(c, s) PROVE GateInv'
    BY <2>1 DEF StartQuery
  <2>2. ASSUME NEW c \in Callers, StartSchema(c) PROVE GateInv'
    BY <2>2 DEF StartSchema
  <2>3. ASSUME NEW c \in Callers, CheckScope(c) PROVE GateInv'
    <3>1. UNCHANGED <<op, stmt, holder>>
      BY <2>3 DEF CheckScope
    <3>2. \/ pc' = [pc EXCEPT ![c] = "idle"]
          \/ pc' = [pc EXCEPT ![c] = "audit"]
          \/ pc' = [pc EXCEPT ![c] = "guard"] /\ InScope(c, stmt[c])
      BY <2>3 DEF CheckScope
    <3>3. pc[c] = "check"
      BY <2>3 DEF CheckScope
    <3>4. QED
      BY <3>1, <3>2, <3>3
  <2>4. ASSUME NEW c \in Callers, Guard(c) PROVE GateInv'
    BY <2>4 DEF Guard
  <2>5. ASSUME NEW c \in Callers, Enter(c) PROVE GateInv'
    BY <2>5 DEF Enter
  <2>6. ASSUME NEW c \in Callers, BackendAnswers(c) \/ BackendFails(c) PROVE GateInv'
    BY <2>6 DEF BackendAnswers, BackendFails
  <2>7. ASSUME NEW c \in Callers, WriteAudit(c) \/ AuditFails(c) PROVE GateInv'
    BY <2>7 DEF WriteAudit, AuditFails
  <2>8. CASE UNCHANGED vars
    BY <2>8 DEF vars
  <2>9. QED
    BY <2>1, <2>2, <2>3, <2>4, <2>5, <2>6, <2>7, <2>8 DEF Next, Step
<1>3. QED
  BY <1>1, <1>2, TypeCorrect, PTL DEF Spec

\* No statement reaches the backend that the scope check, by what it is shown, or
\* the read-only guard would refuse, whatever other callers do between the checks
\* and the run; and where the check is shown every table that is read, only
\* declared ones are.
THEOREM BackendReadsOnlyInScope == Spec => []BackendReadsInScope
<1>1. GateInv => BackendReadsInScope
  BY DEF GateInv, BackendReadsInScope, InScope
<1>2. QED
  BY <1>1, GateInvariant, PTL

\* The connection is never used by two threads at once.
THEOREM BackendStaysExclusive == Spec => []BackendIsExclusive
<1>1. GateInv => BackendIsExclusive
  BY DEF GateInv, BackendIsExclusive
<1>2. QED
  BY <1>1, GateInvariant, PTL

\* Who holds the lock is in the backend: neither an answer nor an exception of the
\* backend, and no refusal before it, leaves the lock held (source.py:104-112,
\* 137-140). An access that waits for it waits for a thread that is about to
\* release it.
LockIsInUse ==
    /\ holder = {c \in Callers : pc[c] = "backend"}
    /\ \A c \in Callers : pc[c] = "enter" =>
            holder = {} \/ \E d \in Callers \ {c} : holder = {d} /\ pc[d] = "backend"

THEOREM LockIsNeverLeftHeld == Spec => []LockIsInUse
<1>1. TypeOK /\ GateInv => LockIsInUse
  BY DEF TypeOK, GateInv, LockIsInUse
<1>2. QED
  BY <1>1, TypeCorrect, GateInvariant, PTL

\* How many steps an access has at most before it.
StepsLeft(place) ==
    CASE place = "check" -> 5
      [] place = "guard" -> 4
      [] place = "enter" -> 3
      [] place = "backend" -> 2
      [] place = "audit" -> 1
      [] place = "idle" -> 0

\* A step either starts an access or brings one nearer to its end, and holds
\* nobody else's up: there is no retry and no way back to the gates.
GoesForward ==
    \E c \in Callers :
        /\ \/ pc[c] = "idle" /\ pc'[c] # "idle"
           \/ StepsLeft(pc'[c]) < StepsLeft(pc[c])
        /\ \A d \in Callers \ {c} : pc'[d] = pc[d]

THEOREM AccessesGoForward == Spec => [][GoesForward]_vars
<1>1. TypeOK /\ [Next]_vars => [GoesForward]_vars
  <2> SUFFICES ASSUME TypeOK, NEW c \in Callers,
                      \/ \E s \in Statements : StartQuery(c, s)
                      \/ StartSchema(c)
                      \/ Step(c)
               PROVE  GoesForward
    BY DEF Next
  <2> USE DEF TypeOK, Goto, Finish, Decide
  \* It is the access of c that moves.
  <2>1. ASSUME NEW place \in {"idle", "check", "guard", "enter", "backend", "audit"},
               pc' = [pc EXCEPT ![c] = place],
               \/ pc[c] = "idle" /\ place # "idle"
               \/ StepsLeft(place) < StepsLeft(pc[c])
        PROVE  GoesForward
    BY <2>1 DEF GoesForward
  <2>2. CASE StartSchema(c) \/ \E s \in Statements : StartQuery(c, s)
    BY <2>1, <2>2 DEF StartSchema, StartQuery
  <2>3. CASE CheckScope(c)
    BY <2>1, <2>3 DEF CheckScope, StepsLeft
  <2>4. CASE Guard(c)
    BY <2>1, <2>4 DEF Guard, StepsLeft
  <2>5. CASE Enter(c)
    BY <2>1, <2>5 DEF Enter, StepsLeft
  <2>6. CASE BackendAnswers(c) \/ BackendFails(c)
    BY <2>1, <2>6 DEF BackendAnswers, BackendFails, StepsLeft
  <2>7. CASE WriteAudit(c) \/ AuditFails(c)
    BY <2>1, <2>7 DEF WriteAudit, AuditFails, StepsLeft
  <2>8. QED
    BY <2>2, <2>3, <2>4, <2>5, <2>6, <2>7 DEF Step
<1>2. QED
  BY <1>1, TypeCorrect, PTL DEF Spec

-----------------------------------------------------------------------------
\* The log of a finished access says what became of it, and the log of the
\* current and later ones is still empty.
LogInv ==
    \A c \in Callers :
        /\ pc[c] # "idle" => Current(c) <= MaxAccesses
        /\ Len(results[c]) <= MaxAccesses
        /\ \A n \in 1..Len(results[c]) : Agrees(results[c][n], log[c][n])
        /\ \A n \in 1..MaxAccesses : n > Len(results[c]) => log[c][n] = <<>>

\* Each access adds its result and at most one audit row, at the same index.
LEMMA LogInvariant == Spec => []LogInv
<1>1. Init => LogInv
  <2> SUFFICES ASSUME Init, NEW c \in Callers PROVE LogInv!(c)
    BY DEF LogInv
  <2>1. pc[c] = "idle" /\ Len(results[c]) = 0 /\ \A n \in 1..MaxAccesses : log[c][n] = <<>>
    BY DEF Init
  <2>2. QED
    BY <2>1, SourceAssumption DEF SourceAssumption
<1>2. TypeOK /\ LogInv /\ [Next]_vars => LogInv'
  <2> SUFFICES ASSUME TypeOK, LogInv, [Next]_vars PROVE LogInv'
    OBVIOUS
  <2> USE SourceAssumption DEF SourceAssumption, TypeOK
  \* The access of c ends with result, and rows is what it wrote.
  <2>1. ASSUME NEW c \in Callers, pc[c] # "idle",
               NEW result \in Results, NEW rows \in Seq(Verdicts), Agrees(result, rows),
               pc' = [pc EXCEPT ![c] = "idle"],
               results' = [results EXCEPT ![c] = Append(@, result)],
               log' = [log EXCEPT ![c][Current(c)] = rows]
        PROVE LogInv'
    <3>0. /\ \A n \in 1..Len(results[c]) : Agrees(results[c][n], log[c][n])
          /\ \A n \in 1..MaxAccesses : n > Len(results[c]) => log[c][n] = <<>>
          /\ Len(results[c]) <= MaxAccesses
      BY DEF LogInv
    <3>1. ASSUME NEW d \in Callers, d # c PROVE LogInv!(d)'
      BY <2>1, <3>1 DEF LogInv, Current
    <3>2. /\ Len(results[c]) \in Nat
          /\ Current(c) = Len(results[c]) + 1
          /\ Current(c) \in 1..MaxAccesses
          /\ Len(results'[c]) = Current(c)
          /\ results'[c][Current(c)] = result
          /\ \A n \in 1..Len(results[c]) : results'[c][n] = results[c][n]
      BY <2>1 DEF LogInv, Current
    <3>3. /\ log'[c][Current(c)] = rows
          /\ \A n \in 1..MaxAccesses : n # Current(c) => log'[c][n] = log[c][n]
      BY <2>1, <3>2
    <3>4. ASSUME NEW n \in 1..Len(results'[c])
          PROVE Agrees(results'[c][n], log'[c][n])
      <4>1. CASE n = Current(c)
        BY <2>1, <3>2, <3>3, <4>1
      <4>2. CASE n # Current(c)
        <5>1. n \in 1..Len(results[c]) /\ n \in 1..MaxAccesses
          BY <3>0, <3>2, <4>2
        <5>2. QED
          BY <3>0, <3>2, <3>3, <4>2, <5>1
      <4>3. QED
        BY <4>1, <4>2
    <3>5. ASSUME NEW n \in 1..MaxAccesses, n > Len(results'[c]) PROVE log'[c][n] = <<>>
      <4>1. n # Current(c) /\ n > Len(results[c])
        BY <3>2, <3>5
      <4>2. QED
        BY <3>0, <3>3, <4>1
    <3>6. pc'[c] = "idle" /\ Len(results'[c]) <= MaxAccesses
      BY <2>1, <3>2
    <3>7. LogInv!(c)'
      BY <3>4, <3>5, <3>6
    <3>8. QED
      BY <3>1, <3>7 DEF LogInv
  \* The access of c goes on.
  <2>2. ASSUME NEW c \in Callers, Current(c) <= MaxAccesses, NEW place,
               pc' = [pc EXCEPT ![c] = place], UNCHANGED <<results, log>>
        PROVE LogInv'
    BY <2>2 DEF LogInv, Current
  <2>3. ASSUME NEW c \in Callers,
               StartSchema(c) \/ \E s \in Statements : StartQuery(c, s)
        PROVE LogInv'
    <3>1. CASE StartSchema(c)
      BY <2>2, <3>1 DEF StartSchema, Goto
    <3>2. CASE \E s \in Statements : StartQuery(c, s)
      BY <2>2, <3>2 DEF StartQuery, Goto
    <3>3. QED
      BY <2>3, <3>1, <3>2
  <2>4. ASSUME NEW c \in Callers, Step(c), UNCHANGED <<results, log>> PROVE LogInv'
    <3>1. Current(c) <= MaxAccesses
      BY <2>4 DEF Step, CheckScope, Guard, Enter, BackendAnswers, BackendFails, WriteAudit,
                  AuditFails, LogInv
    <3>2. \E place : pc' = [pc EXCEPT ![c] = place]
      BY <2>4 DEF Step, CheckScope, Guard, Enter, BackendAnswers, BackendFails, WriteAudit,
                  AuditFails, Goto, Finish, Decide
    <3>3. QED
      BY <2>2, <2>4, <3>1, <3>2
  <2>5. ASSUME NEW c \in Callers, pc[c] # "idle", NEW result \in {"refused", "failed"},
               Finish(c, result), UNCHANGED log
        PROVE LogInv'
    <3>1. Current(c) \in 1..MaxAccesses /\ log[c][Current(c)] = <<>>
      BY <2>5 DEF LogInv, Current
    <3>2. log' = [log EXCEPT ![c][Current(c)] = <<>>]
      BY <2>5, <3>1
    <3>3. <<>> \in Seq(Verdicts) /\ result \in Results /\ Agrees(result, <<>>)
      BY DEF Agrees, Results
    <3>4. QED
      BY <2>1, <2>5, <3>2, <3>3 DEF Finish, Goto
  <2>6. ASSUME NEW c \in Callers, WriteAudit(c) PROVE LogInv'
    <3>1. Current(c) \in 1..MaxAccesses /\ log[c][Current(c)] = <<>> /\ verdict[c] \in Verdicts
      BY <2>6 DEF WriteAudit, LogInv, Current
    <3> DEFINE rows == Append(<<>>, verdict[c])
    <3>0. PICK result \in Outcomes(c) : Finish(c, result)
      BY <2>6 DEF WriteAudit
    <3>2. /\ rows \in Seq(Verdicts)
          /\ result \in Results
          /\ Agrees(result, rows)
      BY <3>0, <3>1 DEF Verdicts, Results, Answered, Outcomes, Agrees
    <3>3. log' = [log EXCEPT ![c][Current(c)] = rows]
      BY <2>6, <3>1 DEF WriteAudit
    <3>4. QED
      BY <2>1, <2>6, <3>0, <3>2, <3>3 DEF WriteAudit, Finish, Goto
  <2>7. ASSUME NEW c \in Callers, Step(c) PROVE LogInv'
    <3>1. \/ UNCHANGED <<results, log>>
          \/ /\ pc[c] # "idle" /\ UNCHANGED log
             /\ \E result \in {"refused", "failed"} : Finish(c, result)
          \/ WriteAudit(c)
      BY <2>7 DEF Step, CheckScope, Guard, Enter, BackendAnswers, BackendFails, AuditFails
    <3>2. QED
      BY <2>4, <2>5, <2>6, <2>7, <3>1
  <2>8. CASE UNCHANGED vars
    BY <2>8 DEF vars, LogInv, Current
  <2>9. QED
    BY <2>3, <2>7, <2>8 DEF Next
<1>3. QED
  BY <1>1, <1>2, TypeCorrect, PTL DEF Spec

\* Rows are handed out only with an "ok" row in the audit log, one per access, for
\* any number of concurrent callers and failures.
THEOREM RowsAreAlwaysAudited == Spec => []RowsAreAudited
<1>1. LogInv => RowsAreAudited
  BY DEF LogInv, RowsAreAudited
<1>2. QED
  BY <1>1, LogInvariant, PTL

-----------------------------------------------------------------------------
\* Where an access is says what it is about: only a scoped caller is at the
\* scope check, what it was shown by who came past it parses, and the verdict in
\* hand is one the access may end with.
VerdictInv ==
    \A c \in Callers :
        /\ pc[c] = "check" => Restricted(c)
        /\ pc[c] \in {"guard", "enter", "backend"} /\ op[c] = "query" /\ Restricted(c) =>
                stmt[c].parses
        /\ pc[c] = "audit" => \A result \in Outcomes(c) :
                Reads!End(result, <<verdict[c]>>) \in Reads!Ends(AskedFor(c))

\* What an access is about stays the same until it ends.
LEMMA AskedForStays ==
    ASSUME TypeOK, NEW c \in Callers, pc[c] # "idle", pc'[c] # "idle", UNCHANGED <<op, stmt>>
    PROVE  AskedFor(c)' = AskedFor(c)
<1>1. op[c] \in {"query", "schema"}
  BY DEF TypeOK
<1>2. QED
  BY <1>1 DEF AskedFor, Restricted, InScope

\* VerdictInv is inductive beside GateInv.
LEMMA VerdictInvariant == Spec => []VerdictInv
<1>1. Init => VerdictInv
  BY DEF Init, VerdictInv
<1>2. TypeOK /\ TypeOK' /\ GateInv /\ VerdictInv /\ [Next]_vars => VerdictInv'
  <2> SUFFICES ASSUME TypeOK, TypeOK', GateInv, VerdictInv, [Next]_vars,
                      NEW c \in Callers
               PROVE  VerdictInv!(c)'
    BY DEF VerdictInv
  <2>1. VerdictInv!(c)
    BY DEF VerdictInv
  \* The step is another caller's.
  <2>2. CASE UNCHANGED <<pc[c], op[c], stmt[c], verdict[c]>>
    BY <2>1, <2>2 DEF Restricted, InScope, AskedFor, Outcomes
  <2>3. CASE StartSchema(c) \/ \E s \in Statements : StartQuery(c, s)
    BY <2>3 DEF StartSchema, StartQuery, Goto, TypeOK, Restricted
  <2>4. CASE CheckScope(c)
    <3>1. pc[c] = "check" /\ Restricted(c) /\ op[c] = "query" /\ UNCHANGED <<op, stmt>>
      BY <2>1, <2>4 DEF CheckScope, GateInv
    <3>2. CASE pc'[c] = "idle"
      BY <3>2
    <3>3. CASE stmt[c].parses /\ ~InScope(c, stmt[c]) /\ Decide(c, "denied")
      <4>1. AskedFor(c) = "forbidden"
        BY <3>1, <3>3 DEF AskedFor
      <4>2. pc'[c] = "audit" /\ verdict'[c] = "denied"
        BY <3>3 DEF Decide, Goto, TypeOK
      <4>3. AskedFor(c)' = "forbidden"
        BY <3>1, <4>1, <4>2, AskedForStays
      <4>4. QED
        BY <4>2, <4>3 DEF Reads!Ends, Reads!End, Answered, Outcomes
    <3>4. CASE stmt[c].parses /\ Goto(c, "guard")
      BY <3>1, <3>4 DEF Goto, TypeOK
    <3>5. QED
      BY <2>4, <3>2, <3>3, <3>4 DEF CheckScope, Finish, Goto, TypeOK
  <2>5. CASE Guard(c)
    <3>1. pc[c] = "guard" /\ op[c] = "query" /\ UNCHANGED <<op, stmt>>
      BY <2>5 DEF Guard, GateInv
    <3>2. CASE Goto(c, "enter")
      BY <2>1, <3>1, <3>2 DEF Goto, TypeOK, Restricted
    <3>3. CASE stmt[c].kind # "select" /\ Decide(c, "denied")
      <4>1. AskedFor(c) = "forbidden"
        BY <2>1, <3>1, <3>3 DEF AskedFor
      <4>2. pc'[c] = "audit" /\ verdict'[c] = "denied"
        BY <3>3 DEF Decide, Goto, TypeOK
      <4>3. AskedFor(c)' = "forbidden"
        BY <3>1, <4>1, <4>2, AskedForStays
      <4>4. QED
        BY <4>2, <4>3 DEF Reads!Ends, Reads!End, Answered, Outcomes
    <3>4. QED
      BY <2>5, <3>2, <3>3 DEF Guard
  <2>6. CASE Enter(c)
    BY <2>1, <2>6 DEF Enter, Goto, TypeOK, Restricted
  <2>7. CASE BackendAnswers(c) \/ BackendFails(c)
    <3>1. pc[c] = "backend" /\ UNCHANGED <<op, stmt>> /\ op[c] \in {"query", "schema"}
      BY <2>7 DEF BackendAnswers, BackendFails, TypeOK
    <3>2. AskedFor(c) = IF op[c] = "schema" THEN "schema"
                        ELSE IF stmt[c].masked THEN "masked" ELSE "allowed"
      BY <2>1, <3>1 DEF AskedFor, GateInv
    <3>3. \/ pc'[c] = "idle"
          \/ pc'[c] = "audit" /\ verdict'[c] = "ok"
          \/ pc'[c] = "audit" /\ verdict'[c] = "error" /\ op[c] = "query"
      BY <2>7 DEF BackendAnswers, BackendFails, Decide, Finish, Goto, TypeOK
    <3>4. pc'[c] = "audit" => AskedFor(c)' = AskedFor(c)
      BY <3>1, AskedForStays
    <3>5. QED
      BY <3>1, <3>2, <3>3, <3>4 DEF Reads!Ends, Reads!End, Answered, Outcomes
  <2>8. CASE WriteAudit(c) \/ AuditFails(c)
    BY <2>8 DEF WriteAudit, AuditFails, Finish, Goto, TypeOK
  <2>9. ASSUME NEW d \in Callers, d # c,
               \/ StartSchema(d) \/ \E s \in Statements : StartQuery(d, s)
               \/ Step(d)
        PROVE  UNCHANGED <<pc[c], op[c], stmt[c], verdict[c]>>
    BY <2>9 DEF StartSchema, StartQuery, Step, CheckScope, Guard, Enter, BackendAnswers,
                BackendFails, WriteAudit, AuditFails, Decide, Finish, Goto, TypeOK
  <2>10. CASE UNCHANGED vars
    BY <2>2, <2>10 DEF vars
  <2>11. QED
    BY <2>2, <2>3, <2>4, <2>5, <2>6, <2>7, <2>8, <2>9, <2>10 DEF Next, Step
<1>3. QED
  BY <1>1, <1>2, TypeCorrect, GateInvariant, PTL DEF Spec

-----------------------------------------------------------------------------
\* The steps of the implementation as steps of AuditedReads.

\* A step that ends the access of c, with its audit rows, is one Answer of c.
LEMMA EndingAnswers ==
    ASSUME TypeOK, LogInv, NEW c \in Callers, pc[c] # "idle",
           NEW result, NEW rows,
           Reads!End(result, rows) \in Reads!Ends(AskedFor(c)) \cup Reads!Unwritten(AskedFor(c)),
           Finish(c, result), UNCHANGED <<op, stmt>>,
           \/ log' = [log EXCEPT ![c][Current(c)] = rows]
           \/ UNCHANGED log /\ rows = <<>>
    PROVE  Reads!Answer(c)
<1>1. Asked' = [Asked EXCEPT ![c] = "nothing"]
  <2>1. \A d \in Callers \ {c} : AskedFor(d)' = AskedFor(d)
    BY DEF Finish, Goto, TypeOK, AskedFor, Restricted, InScope
  <2>2. AskedFor(c)' = "nothing"
    BY DEF Finish, Goto, TypeOK, AskedFor
  <2>3. QED
    BY <2>1, <2>2 DEF Asked
<1>2. Asked[c] = AskedFor(c) /\ AskedFor(c) # "nothing"
  BY DEF Asked, AskedFor, TypeOK
<1> DEFINE n == Len(results[c])
<1>3. n \in Nat /\ Current(c) = n + 1 /\ n + 1 \in 1..MaxAccesses /\ MaxAccesses \in Nat
  BY SourceAssumption DEF SourceAssumption, LogInv, Current, TypeOK
<1>4. results' = [results EXCEPT ![c] = Append(@, result)]
  BY DEF Finish
<1>5. /\ log'[c][n + 1] = rows
      /\ \A m \in 1..n : log'[c][m] = log[c][m]
      /\ \A d \in Callers \ {c} : log'[d] = log[d]
  <2>1. log \in [Callers -> [1..MaxAccesses -> Seq(Verdicts)]]
    BY DEF TypeOK
  <2>2. log[c][n + 1] = <<>>
    BY <1>3 DEF LogInv
  <2> HIDE DEF n
  <2>3. CASE log' = [log EXCEPT ![c][n + 1] = rows]
    <3>1. log'[c] = [log[c] EXCEPT ![n + 1] = rows] /\ \A d \in Callers \ {c} : log'[d] = log[d]
      BY <2>1, <2>3
    <3>2. log[c] \in [1..MaxAccesses -> Seq(Verdicts)]
      BY <2>1
    <3>3. log'[c][n + 1] = rows
      BY <1>3, <3>1, <3>2
    <3>4. ASSUME NEW m \in 1..n PROVE log'[c][m] = log[c][m]
      <4>1. m \in 1..MaxAccesses /\ m # n + 1
        BY <1>3
      <4>2. QED
        BY <3>1, <3>2, <4>1
    <3>5. QED
      BY <3>1, <3>3, <3>4
  <2>4. CASE UNCHANGED log /\ rows = <<>>
    BY <2>2, <2>4
  <2>5. QED
    BY <1>3, <2>3, <2>4
<1>6. Ended' = [Ended EXCEPT ![c] = Append(@, Reads!End(result, rows))]
  <2>1. \A d \in Callers \ {c} : Ended'[d] = Ended[d]
    BY <1>4, <1>5 DEF Ended, TypeOK
  <2>2. results[c] \in Seq(Results)
    BY DEF TypeOK
  <2>3. /\ Len(results'[c]) = n + 1
        /\ results'[c][n + 1] = result
        /\ \A m \in 1..n : results'[c][m] = results[c][m]
    BY <1>4, <2>2 DEF TypeOK
  <2>4. Ended[c] = [m \in 1..n |-> [result |-> results[c][m], rows |-> log[c][m]]]
    BY DEF Ended
  <2>5. Ended'[c] = [m \in 1..(n + 1) |-> [result |-> results'[c][m], rows |-> log'[c][m]]]
    BY <2>3 DEF Ended
  <2>6. Ended'[c] = [m \in 1..(n + 1) |->
                        IF m = n + 1 THEN Reads!End(result, rows) ELSE Ended[c][m]]
    <3>1. ASSUME NEW m \in 1..(n + 1)
          PROVE  [result |-> results'[c][m], rows |-> log'[c][m]] =
                    IF m = n + 1 THEN Reads!End(result, rows) ELSE Ended[c][m]
      BY <1>3, <1>5, <2>3, <2>4, <3>1 DEF Reads!End
    <3> HIDE DEF n
    <3>2. QED
      BY <2>5, <3>1
  <2>7. Len(Ended[c]) = n /\ Ended[c] \in Seq({Ended[c][m] : m \in 1..n})
    BY <1>3, <2>4
  <2>8. Append(Ended[c], Reads!End(result, rows)) =
            [m \in 1..(n + 1) |-> IF m = n + 1 THEN Reads!End(result, rows) ELSE Ended[c][m]]
    <3> HIDE DEF n
    <3>1. QED
      BY <1>3, <2>7
  <2>9. DOMAIN Ended = Callers /\ DOMAIN Ended' = Callers
    BY DEF Ended
  <2>10. QED
    BY <2>1, <2>6, <2>8, <2>9 DEF Ended
<1>7. QED
  BY <1>1, <1>2, <1>6 DEF Reads!Answer

\* Every step is an access asked for, an access that ends, or nothing to the
\* caller, for any callers, scopes, statements, failures and number of accesses.
THEOREM ImplementsAuditedReadsHolds == Spec => ImplementsAuditedReads
<1>1. Init => Reads!Init
  <2> SUFFICES ASSUME Init PROVE Reads!Init
    OBVIOUS
  <2>1. Asked = [c \in Callers |-> "nothing"]
    BY DEF Init, Asked, AskedFor
  <2>2. \A c \in Callers : Len(results[c]) = 0
    BY DEF Init
  <2>3. Ended = [c \in Callers |-> <<>>]
    <3>1. ASSUME NEW c \in Callers PROVE Ended[c] = <<>>
      <4>1. Ended[c] = [n \in 1..0 |-> [result |-> results[c][n], rows |-> log[c][n]]]
        BY <2>2 DEF Ended
      <4>2. 1..0 = {}
        OBVIOUS
      <4>3. QED
        BY <4>1, <4>2
    <3>2. QED
      BY <3>1 DEF Ended
  <2>4. QED
    BY <2>1, <2>3 DEF Reads!Init
<1>2. TypeOK /\ TypeOK' /\ GateInv /\ LogInv /\ VerdictInv /\ [Next]_vars
      => [Reads!Next]_(Reads!readVars)
  <2> SUFFICES ASSUME TypeOK, TypeOK', GateInv, LogInv, VerdictInv, [Next]_vars
               PROVE  Reads!Next \/ UNCHANGED <<Asked, Ended>>
    BY DEF Reads!readVars
  <2>1. UNCHANGED <<results, log>> => UNCHANGED Ended
    BY DEF Ended
  <2>2. ASSUME NEW c \in Callers, StartSchema(c) \/ \E s \in Statements : StartQuery(c, s)
        PROVE  Reads!Ask(c)
    <3>1. pc[c] = "idle" /\ pc'[c] # "idle" /\ UNCHANGED <<results, log>>
      BY <2>2 DEF StartSchema, StartQuery, Goto, TypeOK
    <3>2. \A d \in Callers \ {c} : AskedFor(d)' = AskedFor(d)
      BY <2>2 DEF StartSchema, StartQuery, Goto, TypeOK, AskedFor, Restricted, InScope
    <3>3. AskedFor(c)' \in Reads!Kinds
      BY <3>1 DEF AskedFor, Reads!Kinds, TypeOK
    <3>4. Asked[c] = "nothing"
      BY <3>1 DEF Asked, AskedFor
    <3>5. Asked' = [Asked EXCEPT ![c] = AskedFor(c)']
      BY <3>2 DEF Asked
    <3>6. QED
      BY <2>1, <3>1, <3>3, <3>4, <3>5 DEF Reads!Ask
  \* The access goes on.
  <2>3. ASSUME NEW c \in Callers, Step(c), pc'[c] # "idle"
        PROVE  UNCHANGED <<Asked, Ended>>
    <3>1. /\ pc[c] # "idle" /\ UNCHANGED <<op, stmt, results, log>>
          /\ \A d \in Callers \ {c} : pc'[d] = pc[d]
      BY <2>3 DEF Step, CheckScope, Guard, Enter, BackendAnswers, BackendFails, WriteAudit,
                  AuditFails, Decide, Finish, Goto, TypeOK
    <3>2. \A d \in Callers \ {c} : AskedFor(d)' = AskedFor(d)
      BY <3>1 DEF AskedFor, Restricted, InScope
    <3>3. AskedFor(c)' = AskedFor(c)
      BY <2>3, <3>1, AskedForStays
    <3>4. QED
      BY <2>1, <3>1, <3>2, <3>3 DEF Asked
  \* The access ends.
  <2>4. ASSUME NEW c \in Callers, CheckScope(c), pc'[c] = "idle"
        PROVE  Reads!Answer(c)
    <3>1. /\ pc[c] = "check" /\ ~stmt[c].parses /\ Finish(c, "refused")
          /\ UNCHANGED <<op, stmt, log>>
      BY <2>4 DEF CheckScope, Decide, Goto, TypeOK
    <3>2. AskedFor(c) = "unclear"
      BY <3>1 DEF AskedFor, GateInv, VerdictInv
    <3>3. Reads!End("refused", <<>>) \in Reads!Ends(AskedFor(c))
      BY <3>2 DEF Reads!Ends
    <3>4. QED
      BY <3>1, <3>3, EndingAnswers
  <2>5. ASSUME NEW c \in Callers, BackendFails(c), pc'[c] = "idle"
        PROVE  Reads!Answer(c)
    <3>1. /\ pc[c] = "backend" /\ op[c] = "schema" /\ Finish(c, "failed")
          /\ UNCHANGED <<op, stmt, log>>
      BY <2>5 DEF BackendFails, Decide, Goto, TypeOK
    <3>2. AskedFor(c) = "schema"
      BY <3>1 DEF AskedFor
    <3>3. Reads!End("failed", <<>>) \in Reads!Ends(AskedFor(c))
      BY <3>2 DEF Reads!Ends
    <3>4. QED
      BY <3>1, <3>3, EndingAnswers
  <2>6. ASSUME NEW c \in Callers, WriteAudit(c)
        PROVE  Reads!Answer(c)
    <3>0. PICK result \in Outcomes(c) : Finish(c, result)
      BY <2>6 DEF WriteAudit
    <3>1. /\ pc[c] = "audit" /\ Finish(c, result)
          /\ UNCHANGED <<op, stmt>>
          /\ log' = [log EXCEPT ![c][Current(c)] = Append(@, verdict[c])]
      BY <2>6, <3>0 DEF WriteAudit
    <3>2. Current(c) \in 1..MaxAccesses /\ log[c][Current(c)] = <<>>
      <4>1. pc[c] # "idle" /\ results[c] \in Seq(Results) /\ MaxAccesses \in Nat
        BY <3>1, SourceAssumption DEF SourceAssumption, TypeOK
      <4>2. QED
        BY <4>1 DEF LogInv, Current
    <3>3. log' = [log EXCEPT ![c][Current(c)] = <<verdict[c]>>]
      BY <3>1, <3>2 DEF TypeOK
    <3>4. Reads!End(result, <<verdict[c]>>) \in Reads!Ends(AskedFor(c))
      BY <3>0, <3>1 DEF VerdictInv
    <3>5. QED
      BY <3>1, <3>3, <3>4, EndingAnswers
  <2>7. ASSUME NEW c \in Callers, AuditFails(c)
        PROVE  Reads!Answer(c)
    <3>1. /\ pc[c] = "audit" /\ Finish(c, "failed") /\ AuditFaults
          /\ UNCHANGED <<op, stmt, log>>
      BY <2>7 DEF AuditFails
    <3>2. AskedFor(c) # "unclear"
      <4>1. Reads!End(Answered(verdict[c]), <<verdict[c]>>) \in Reads!Ends(AskedFor(c))
        BY <3>1 DEF VerdictInv, Outcomes
      <4>2. QED
        BY <4>1 DEF Reads!Ends, Reads!End
    <3>3. Reads!End("failed", <<>>) \in Reads!Unwritten(AskedFor(c))
      BY <3>1, <3>2 DEF Reads!Unwritten
    <3>4. QED
      BY <3>1, <3>3, EndingAnswers
  <2>8. ASSUME NEW c \in Callers, Step(c), pc'[c] = "idle"
        PROVE  Reads!Answer(c)
    <3>1. CheckScope(c) \/ BackendFails(c) \/ WriteAudit(c) \/ AuditFails(c)
      BY <2>8 DEF Step, Guard, Enter, BackendAnswers, Decide, Goto, TypeOK
    <3>2. QED
      BY <2>4, <2>5, <2>6, <2>7, <2>8, <3>1
  <2>9. CASE UNCHANGED vars
    BY <2>1, <2>9 DEF vars, Asked, AskedFor, Restricted, InScope
  <2>10. QED
    BY <2>2, <2>3, <2>8, <2>9 DEF Next, Reads!Next
<1>3. QED
  BY <1>1, <1>2, TypeCorrect, GateInvariant, LogInvariant, VerdictInvariant, PTL
     DEF Spec, ImplementsAuditedReads, Reads!Spec
=============================================================================
