------------------------------ MODULE MCSource ------------------------------
(* A bot scoped to one of two tables and the data browser, which holds the  *)
(* source itself, share a connection.                                       *)
EXTENDS GovernedSource

CONSTANTS Orders, Refunds, Bot, Browser

Bots == {Bot}
Threads == {Bot, Browser}
AllTables == {Orders, Refunds}
BotDeclares == [c \in Threads |-> IF c = Bot THEN {Orders} ELSE {}]

Query(kind, refs) ==
    [masked |-> FALSE, parses |-> TRUE, refs |-> refs, kind |-> kind, reads |-> refs]

\* sample or stats of a table: of stats, the column decides the rest.
Stats(table, kind, reads) ==
    [masked |-> TRUE, parses |-> TRUE, refs |-> {table}, kind |-> kind, reads |-> reads]

Sent == {Query("select", {Orders}), Query("select", {Orders, Refunds}),
         Query("write", {Orders}), NoStatement,
         Stats(Orders, "select", {Orders}), Stats(Orders, "select", {Orders, Refunds}),
         Stats(Orders, "garbage", {})}
=============================================================================
