---------------------------- MODULE AuditedReads ----------------------------
(***************************************************************************)
(* What the governed source promises, with no gates, lock or backend: an   *)
(* access ends in one step, with what the caller gets and what the audit   *)
(* log says of it. What is allowed is read or fails, what is forbidden is  *)
(* refused, and only a log that cannot be written comes between.           *)
(* GovernedSource is shown to implement this module                        *)
(* (GovernedSource!ImplementsAuditedReads).                                *)
(***************************************************************************)
EXTENDS Sequences

CONSTANTS
    Callers,
    LogMayFail  \* whether writing an audit row may fail

VARIABLES
    asked,      \* asked[c]: what c has asked for
    ended       \* ended[c]: its accesses so far, each with its audit rows

readVars == <<asked, ended>>

\* A query may be within what its caller is allowed, beyond it, or such that this
\* cannot be told; the rows of some are masked; a schema is free to read.
Kinds == {"allowed", "masked", "forbidden", "unclear", "schema"}

End(result, rows) == [result |-> result, rows |-> rows]

\* How an access may end. What cannot be told is refused without a row, a schema
\* that cannot be read fails without one, and rows that cannot be masked fail
\* after theirs.
Ends(kind) ==
    CASE kind = "allowed" -> {End("rows", <<"ok">>), End("failed", <<"error">>)}
      [] kind = "masked" -> {End("rows", <<"ok">>), End("failed", <<"ok">>),
                             End("failed", <<"error">>)}
      [] kind = "forbidden" -> {End("refused", <<"denied">>)}
      [] kind = "unclear" -> {End("refused", <<>>)}
      [] kind = "schema" -> {End("rows", <<"ok">>), End("failed", <<>>)}

Unwritten(kind) ==
    IF LogMayFail /\ kind # "unclear" THEN {End("failed", <<>>)} ELSE {}

Init ==
    /\ asked = [c \in Callers |-> "nothing"]
    /\ ended = [c \in Callers |-> <<>>]

Ask(c) ==
    /\ asked[c] = "nothing"
    /\ \E kind \in Kinds : asked' = [asked EXCEPT ![c] = kind]
    /\ UNCHANGED ended

Answer(c) ==
    /\ asked[c] # "nothing"
    /\ \E e \in Ends(asked[c]) \cup Unwritten(asked[c]) :
            ended' = [ended EXCEPT ![c] = Append(@, e)]
    /\ asked' = [asked EXCEPT ![c] = "nothing"]

Next == \E c \in Callers : Ask(c) \/ Answer(c)

Spec == Init /\ [][Next]_readVars
=============================================================================
