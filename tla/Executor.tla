------------------------------ MODULE Executor ------------------------------
(***************************************************************************)
(* executor.py on top of the result store, the event bus and the webhooks: *)
(* every run is a thread of its own (a daemon thread of the server, a job  *)
(* of the scheduler, or the `silmari run` process), and the threads, the   *)
(* SSE clients and the delivery threads interleave at every store          *)
(* transaction, every queue operation and every POST.                      *)
(***************************************************************************)
EXTENDS ResultStore, EventBus, Webhooks

CONSTANTS
    Undeclared,     \* bots with no data_access.tables and no unscoped opt-in
    Via,            \* the callers explored, out of {"api", "schedule", "cli"}
    BotEnds,        \* how a pipeline may end, see BotReturn below
    StoreFaults,    \* whether a store transaction may raise (disk, lock)
    ThreadFaults,   \* the threads that may fail to start, out of {"run", "delivery"}
    MaxEmits,       \* bound: ctx.emit calls of one run
    MaxCrashes      \* bound: server crashes

ASSUME ExecutorAssumption ==
    /\ Undeclared \subseteq Bots
    /\ Via \subseteq {"api", "schedule", "cli"}
    /\ BotEnds \subseteq {"result", "unstorable", "raises", "exits"}
    /\ StoreFaults \in BOOLEAN
    /\ ThreadFaults \subseteq {"run", "delivery"}
    /\ MaxEmits \in Nat
    /\ MaxCrashes \in Nat

VARIABLES
    phase,      \* phase[r]: where the thread of r is
    via,        \* via[r]: who called, "none" before the run begins
    event,      \* event[r]: the type of the event r publishes, published last, or
                \*           will publish first
    storable,   \* storable[r]: json.dumps accepts the BotResult of r
    emits,      \* emits[r]: ctx.emit calls so far
    crashes     \* crashes so far

threadVars == <<phase, via, event, storable, emits>>
vars == <<storeVars, busVars, hookVars, threadVars, crashes>>

Phases == {"idle",          \* not begun
           "announce",      \* about to publish event[r]
           "fanout",        \* publishing event[r]
           "bot",           \* inside record.run(context)
           "returned",      \* run() returned a BotResult, row not yet marked
           "raised",        \* in the except branch, row not yet marked
           "deliver",       \* completed, about to collect the webhooks
           "ended",         \* the run went through to its end
           "cut"}           \* its thread never started, raised past the except
                            \* branch, or died with its process

Over == {"ended", "cut"}

TypeOK ==
    /\ StoreTypeOK
    /\ BusTypeOK
    /\ HookTypeOK
    /\ phase \in [Runs -> Phases]
    /\ via \in [Runs -> Via \cup {"none"}]
    /\ event \in [Runs -> Types]
    /\ storable \in [Runs -> BOOLEAN]
    /\ emits \in [Runs -> 0..MaxEmits]
    /\ crashes \in 0..MaxCrashes

Init ==
    /\ StoreInit
    /\ BusInit
    /\ HookInit
    /\ phase = [r \in Runs |-> "idle"]
    /\ via = [r \in Runs |-> "none"]
    /\ event = [r \in Runs |-> "run_started"]
    /\ storable = [r \in Runs |-> TRUE]
    /\ emits = [r \in Runs |-> 0]
    /\ crashes = 0

-----------------------------------------------------------------------------
\* The thread of a run.

\* Only the API hands the executor a bus and a subscription store: the
\* scheduler's job arguments and `silmari run` pass neither.
HasBus(v) == v = "api"

\* Go on to publishing an event, or, without a bus, straight to what follows.
PublishThen(r, type, next, bus) ==
    /\ phase' = [phase EXCEPT ![r] = IF bus THEN "announce" ELSE next]
    /\ event' = [event EXCEPT ![r] = IF bus THEN type ELSE @]

\* Mutant: webhooks for failed runs too.
AfterPublishDelivers(type) ==
    IF type \in {"run_completed", "run_failed"} THEN "deliver" ELSE "bot"

\* What follows the publish of each type.
AfterPublish(type) ==
    CASE type = "run_completed" -> "deliver"
      [] type = "run_failed" -> "ended"
      [] OTHER -> "bot"

\* _begin_run: a bot that declares no tables and did not opt in is refused
\* before the row is created.
BeginRun(r, v, now) ==
    /\ phase[r] = "idle"
    /\ BotOf[r] \notin Undeclared
    /\ CreateRunning(r, now)
    /\ via' = [via EXCEPT ![r] = v]
    /\ PublishThen(r, "run_started", "bot", HasBus(v))
    /\ UNCHANGED <<busVars, hookVars, storable, emits, crashes>>

BeginPublish(r) ==
    /\ phase[r] = "announce"
    /\ SnapshotSubscribers(r)
    /\ phase' = [phase EXCEPT ![r] = "fanout"]
    /\ UNCHANGED <<storeVars, hookVars, via, event, storable, emits, crashes>>

PublishTo(r, c) ==
    /\ phase[r] = "fanout"
    /\ PutNowait(r, event[r], c)
    /\ UNCHANGED <<storeVars, hookVars, threadVars, crashes>>

EndPublish(r) ==
    /\ phase[r] = "fanout"
    /\ fanout[r] = {}
    /\ phase' = [phase EXCEPT ![r] = AfterPublish(event[r])]
    /\ UNCHANGED <<storeVars, busVars, hookVars, via, event, storable, emits, crashes>>

\* create_running reads the row back after the commit: when that raises, the row
\* is there, and _begin_run ends before anybody is told.
BeginRaises(r, v, now) ==
    /\ StoreFaults
    /\ phase[r] = "idle"
    /\ BotOf[r] \notin Undeclared
    /\ CreateRunning(r, now)
    /\ via' = [via EXCEPT ![r] = v]
    /\ phase' = [phase EXCEPT ![r] = "cut"]
    /\ UNCHANGED <<busVars, hookVars, event, storable, emits, crashes>>

\* ctx.emit: a no-op for the model when there is no bus.
BotEmit(r) ==
    /\ phase[r] = "bot"
    /\ HasBus(via[r])
    /\ emits[r] < MaxEmits
    /\ emits' = [emits EXCEPT ![r] = @ + 1]
    /\ PublishThen(r, "run_progress", "bot", TRUE)
    /\ UNCHANGED <<storeVars, busVars, hookVars, via, storable, crashes>>

\* record.run(context) ends with
\*   "result"      a BotResult,
\*   "unstorable"  a BotResult that json.dumps refuses (a dict keyed by tuples),
\*   "raises"      an Exception, or a value that is no BotResult (TypeError),
\*   "exits"       an exception `except Exception` does not catch.
BotReturn(r, end) ==
    /\ phase[r] = "bot"
    /\ storable' = [storable EXCEPT ![r] = (end # "unstorable")]
    /\ phase' = [phase EXCEPT ![r] =
                   CASE end \in {"result", "unstorable"} -> "returned"
                     [] end = "raises" -> "raised"
                     [] end = "exits" -> "cut"]
    /\ UNCHANGED <<storeVars, busVars, hookVars, via, event, emits, crashes>>

\* Mutant: publish first, record later.
RecordCompletedLate(r) ==
    /\ phase[r] = "returned"
    /\ storable[r]
    /\ PublishThen(r, "run_completed", "deliver", HasBus(via[r]))
    /\ UNCHANGED <<storeVars, busVars, hookVars, via, storable, emits, crashes>>

\* The result is recorded before anything is published about it.
RecordCompleted(r) ==
    /\ phase[r] = "returned"
    /\ storable[r]
    /\ MarkCompleted(r)
    /\ PublishThen(r, "run_completed", "deliver", HasBus(via[r]))
    /\ UNCHANGED <<busVars, hookVars, via, storable, emits, crashes>>

\* Mutant: the except branch lost its raise and falls through to mark_completed.
RecordFailedFallsThrough(r) ==
    /\ phase[r] = "raised"
    /\ MarkFailed(r)
    /\ phase' = [phase EXCEPT ![r] = "returned"]
    /\ UNCHANGED <<busVars, hookVars, via, event, storable, emits, crashes>>

\* Mutant: a failure is recorded but not published.
RecordFailedSilently(r) ==
    /\ phase[r] = "raised"
    /\ MarkFailed(r)
    /\ phase' = [phase EXCEPT ![r] = "ended"]
    /\ UNCHANGED <<busVars, hookVars, via, event, storable, emits, crashes>>

RecordFailed(r) ==
    /\ phase[r] = "raised"
    /\ MarkFailed(r)
    /\ PublishThen(r, "run_failed", "ended", HasBus(via[r]))
    /\ UNCHANGED <<busVars, hookVars, via, storable, emits, crashes>>

\* Neither mark_completed nor mark_failed is inside the try: what they raise
\* ends the thread. The row is as it was, or, when the read after the commit
\* raises, marked, and nobody is told.
RecordRaises(r) ==
    /\ \/ phase[r] = "returned" /\ (StoreFaults \/ ~storable[r]) /\ UNCHANGED storeVars
       \/ phase[r] = "raised" /\ StoreFaults /\ UNCHANGED storeVars
       \/ phase[r] = "returned" /\ StoreFaults /\ storable[r] /\ MarkCompleted(r)
       \/ phase[r] = "raised" /\ StoreFaults /\ MarkFailed(r)
    /\ phase' = [phase EXCEPT ![r] = "cut"]
    /\ UNCHANGED <<busVars, hookVars, via, event, storable, emits, crashes>>

\* Mutant: a bot with subscriptions is no longer delivered to its own sinks.
CollectSubscriptionsFirst(r) ==
    /\ phase[r] = "deliver"
    /\ IF via[r] = "api" /\ registered[BotOf[r]] # {}
       THEN outbox' = [outbox EXCEPT ![r] = registered[BotOf[r]]] /\ UNCHANGED <<registered, tried>>
       ELSE StartDelivery(r, FALSE)
    /\ phase' = [phase EXCEPT ![r] = "ended"]
    /\ UNCHANGED <<storeVars, busVars, via, event, storable, emits, crashes>>

CollectWebhooks(r) ==
    /\ phase[r] = "deliver"
    /\ StartDelivery(r, via[r] = "api")
    /\ phase' = [phase EXCEPT ![r] = "ended"]
    /\ UNCHANGED <<storeVars, busVars, via, event, storable, emits, crashes>>

\* Thread.start() raises: start_run's, with the row created and run_started
\* published (in phase "bot" with nothing emitted the pipeline has done
\* nothing yet), or the delivery's, with the result recorded and published.
ThreadNotStarted(r) ==
    /\ \/ "run" \in ThreadFaults /\ via[r] = "api"
          /\ phase[r] = "bot" /\ event[r] = "run_started"
       \/ "delivery" \in ThreadFaults /\ phase[r] = "deliver"
          /\ HooksFor(BotOf[r], via[r] = "api") # {}
    /\ phase' = [phase EXCEPT ![r] = "cut"]
    /\ UNCHANGED <<storeVars, busVars, hookVars, via, event, storable, emits, crashes>>

RunThread(r) ==
    \/ \E v \in Via, now \in Stamps : BeginRun(r, v, now) \/ BeginRaises(r, v, now)
    \/ BeginPublish(r)
    \/ \E c \in Clients : PublishTo(r, c)
    \/ EndPublish(r)
    \/ BotEmit(r)
    \/ \E end \in BotEnds : BotReturn(r, end)
    \/ RecordCompleted(r)
    \/ RecordFailed(r)
    \/ RecordRaises(r)
    \/ CollectWebhooks(r)
    \/ ThreadNotStarted(r)

-----------------------------------------------------------------------------
\* Everything around it.

DeliveryThread(r) ==
    \E h \in Hooks :
        Post(r, h) /\ UNCHANGED <<storeVars, busVars, threadVars, crashes>>

\* `silmari run` returns as soon as run_bot does; the delivery thread is a
\* daemon of that process and dies with it.
CliExit(r) ==
    /\ via[r] = "cli"
    /\ phase[r] \in Over
    /\ outbox[r] # {}
    /\ DeliveryLost({r})
    /\ UNCHANGED <<storeVars, busVars, registered, threadVars, crashes>>

Client(c) ==
    /\ Subscribe(c) \/ Receive(c) \/ Unsubscribe(c)
    /\ UNCHANGED <<storeVars, hookVars, threadVars, crashes>>

Operator ==
    /\ \E b \in Bots, h \in Hooks : Register(b, h) \/ Remove(b, h)
    /\ UNCHANGED <<storeVars, busVars, threadVars, crashes>>

\* The server process dies: its threads, queues and subscriptions with it. The
\* model takes store_url to name a file, so that the rows survive; nothing visits
\* them at the next start. With the default, sqlite:// in memory (store.py:111,
\* cli.py:196), the rows go too, and nothing is said of what was before.
Crash ==
    /\ crashes < MaxCrashes
    /\ crashes' = crashes + 1
    /\ LET dead == {r \in Runs : via[r] \in {"api", "schedule"}}
       IN  /\ phase' = [r \in Runs |-> IF r \in dead THEN "cut" ELSE phase[r]]
           /\ DeliveryLost(dead)
    /\ registered' = [b \in Bots |-> {}]
    /\ BusLost
    /\ UNCHANGED <<storeVars, via, event, storable, emits>>

Next ==
    \/ \E r \in Runs : RunThread(r) \/ DeliveryThread(r) \/ CliExit(r)
    \/ \E c \in Clients : Client(c)
    \/ Operator
    \/ Crash

Spec == Init /\ [][Next]_vars

\* Threads are scheduled, and a pipeline that was called ends: the executor
\* has no timeout, so that much is assumed of the bots. Nothing is assumed of
\* the clients.
ThreadFairness ==
    \A r \in Runs :
        /\ WF_vars(RunThread(r) /\ phase[r] # "idle")
        /\ WF_vars(DeliveryThread(r))

FairSpec == Spec /\ ThreadFairness
=============================================================================
