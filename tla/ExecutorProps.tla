---------------------------- MODULE ExecutorProps ----------------------------
(***************************************************************************)
(* What must hold of the executor and the parts it drives.                 *)
(***************************************************************************)
EXTENDS Executor

\* The store's status an event claims. Started and progress events claim no
\* more than that the row exists.
Recorded(type, r) ==
    /\ Exists(r)
    /\ type = "run_completed" => status[r] = "completed"
    /\ type = "run_failed" => status[r] = "failed"

\* An event never runs ahead of the store: whatever waits in a queue or was
\* received, a client that reads the run back finds what the event says
\* (executor.py:115-125, 136-158), also after the death of a server whose store
\* is a file.
EventsReflectStore ==
    \A c \in Clients :
        /\ \A i \in 1..Len(queue[c]) : Recorded(queue[c][i].type, queue[c][i].run)
        /\ \A r \in Runs : seen[c][r] # "none" => Recorded(seen[c][r], r)

\* A client that received run_completed and asks for the latest result of the
\* bot is never shown an older run, older by created_at as the store orders them
\* (executor.py:148-158, store.py:174-176, 185).
CompletedIsVisible ==
    \A c \in Clients, r \in Runs :
        seen[c][r] = "run_completed" =>
            \E s \in Latest(BotOf[r]) : s = r \/ Newer(s, r)

\* A finished run stays as it finished, although mark_completed and
\* mark_failed would both overwrite it (store.py:141-165).
OutcomeIsFinal ==
    [][\A r \in Runs : status[r] \in Outcomes => status'[r] = status[r]]_vars

\* A webhook payload is only ever sent for a recorded result, and no hook is
\* sent the same run twice (executor.py:148-175).
HooksFollowRecord ==
    \A r \in Runs :
        /\ outbox[r] \cup tried[r] # {} => status[r] = "completed"
        /\ outbox[r] \cap tried[r] = {}

\* Once a delivery thread holds a hook it tries it, whatever the POSTs before
\* it did and whatever is unregistered meanwhile (sinks.py:103-116); only the
\* end of its process can stop it.
NoHookForgotten ==
    [][\A r \in Runs :
            \/ outbox[r] \cup tried[r] \subseteq (outbox[r] \cup tried[r])'
            \/ Crash
            \/ CliExit(r)]_vars

\* A completed run whose thread went through has every webhook of its bot's
\* manifest tried or in the hands of its delivery thread, whoever subscribes or
\* unsubscribes around it, unless it was a `silmari run` that has exited
\* (executor.py:52-63, 159-176, sinks.py:103-116). A server that dies, and a
\* delivery thread that does not start, cut the run instead.
HooksAccounted ==
    \A r \in Runs : phase[r] = "ended" /\ status[r] = "completed" =>
        ManifestHooks[BotOf[r]] \subseteq outbox[r] \cup tried[r] \/ via[r] = "cli"

\* No run waits for a subscriber: with threads fair and clients free to stop
\* reading for ever, every run that began is finished (sinks.py:5-6, 42-49).
RunsFinish ==
    \A r \in Runs : status[r] = "running" ~> status[r] \in Outcomes

\* Every hook a delivery thread of the server holds is tried in the end
\* (sinks.py:103-116); `silmari run` may exit before.
HooksTried ==
    \A r \in Runs, h \in Hooks : h \in outbox[r] /\ via[r] # "cli" ~> h \in tried[r]

\* A client that is connected when a run begins and keeps reading is told the
\* outcome, unless it goes away or its queue fills up (executor.py:115-158,
\* routers.py:131-144).
OutcomeReachesReader ==
    (\A c \in Clients : WF_vars(Client(c) /\ Receive(c)))
    => \A c \in Clients, r \in Runs :
        (c \in subscribers /\ phase[r] = "announce")
            ~> \/ seen[c][r] \in {"run_completed", "run_failed"}
               \/ c \notin subscribers
               \/ Len(queue[c]) = MaxQueue

-----------------------------------------------------------------------------
\* The executor implements the abstract life of a run.

Told(type) ==
    CASE type = "none" -> "nothing"
      [] type = "run_completed" -> "completed"
      [] type = "run_failed" -> "failed"
      [] OTHER -> "underway"

Lifecycle == INSTANCE RunLifecycle WITH
    status <- status,
    told <- [c \in Clients |-> [r \in Runs |-> Told(seen[c][r])]]

\* Threads, queues, drops, reconnections and crashes included, a client sees a
\* run go forward: nothing after its outcome, and one outcome, the recorded
\* one (executor.py:115-176, sinks.py:42-49, routers.py:131-144).
Implements == Lifecycle!Spec

-----------------------------------------------------------------------------
\* A claim of a test that the code does not meet.

\* test_executor_robustness.py:3, "runs never stick in `running`".
NeverStuckRunning ==
    \A r \in Runs : phase[r] \in Over => status[r] # "running"
=============================================================================
