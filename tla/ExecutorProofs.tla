--------------------------- MODULE ExecutorProofs ---------------------------
(***************************************************************************)
(* Proofs about the executor, for any runs, clients, hooks and bounds.     *)
(***************************************************************************)
EXTENDS ExecutorProps, TLAPS

\* TypeOK is inductive: no action needs more than the types it finds.
LEMMA TypeStep == TypeOK /\ [Next]_vars => TypeOK'
<1> SUFFICES ASSUME TypeOK, [Next]_vars PROVE TypeOK'
  OBVIOUS
<1> USE RunIdAssumption, StoreAssumption, HookAssumption, ExecutorAssumption
    DEF RunIdAssumption, StoreAssumption, HookAssumption, ExecutorAssumption
<1> USE DEF TypeOK, StoreTypeOK, BusTypeOK, HookTypeOK
<1> USE DEF storeVars, busVars, hookVars, threadVars, Phases, Types, Outcomes, HasBus, PublishThen,
           HooksFor
<1>1. ASSUME NEW r \in Runs, NEW v \in Via, NEW now \in Stamps, BeginRun(r, v, now) PROVE TypeOK'
  BY <1>1 DEF BeginRun, CreateRunning
<1>2. ASSUME NEW r \in Runs, BeginPublish(r) PROVE TypeOK'
  BY <1>2 DEF BeginPublish, SnapshotSubscribers
<1>3. ASSUME NEW r \in Runs, NEW c \in Clients, PublishTo(r, c) PROVE TypeOK'
  <2>1. [type |-> event[r], run |-> r] \in Event
    BY DEF Event
  <2>2. Append(queue[c], [type |-> event[r], run |-> r]) \in Seq(Event)
    BY <2>1
  <2>3. queue' \in [Clients -> Seq(Event)]
    BY <1>3, <2>2 DEF PublishTo, PutNowait
  <2>4. fanout' \in [Runs -> SUBSET Clients]
    BY <1>3 DEF PublishTo, PutNowait
  <2>5. UNCHANGED <<status, created, subscribers, seen, registered, outbox, tried, phase, via,
                    event, storable, emits, crashes>>
    BY <1>3 DEF PublishTo, PutNowait
  <2>6. QED
    BY <2>3, <2>4, <2>5
<1>4. ASSUME NEW r \in Runs, EndPublish(r) PROVE TypeOK'
  BY <1>4 DEF EndPublish, AfterPublish
<1>5. ASSUME NEW r \in Runs, BotEmit(r) PROVE TypeOK'
  <2>1. emits[r] + 1 \in 0..MaxEmits
    BY <1>5 DEF BotEmit
  <2>2. QED
    BY <1>5, <2>1 DEF BotEmit
<1>6. ASSUME NEW r \in Runs, NEW end \in BotEnds, BotReturn(r, end) PROVE TypeOK'
  BY <1>6 DEF BotReturn
<1>7. ASSUME NEW r \in Runs, RecordCompleted(r) PROVE TypeOK'
  BY <1>7 DEF RecordCompleted, MarkCompleted
<1>8. ASSUME NEW r \in Runs, RecordFailed(r) PROVE TypeOK'
  BY <1>8 DEF RecordFailed, MarkFailed
<1>9. ASSUME NEW r \in Runs, RecordRaises(r) PROVE TypeOK'
  BY <1>9 DEF RecordRaises, MarkCompleted, MarkFailed
<1>18. ASSUME NEW r \in Runs, NEW v \in Via, NEW now \in Stamps, BeginRaises(r, v, now) PROVE TypeOK'
  BY <1>18 DEF BeginRaises, CreateRunning
<1>19. ASSUME NEW r \in Runs, ThreadNotStarted(r) PROVE TypeOK'
  BY <1>19 DEF ThreadNotStarted
<1>10. ASSUME NEW r \in Runs, CollectWebhooks(r) PROVE TypeOK'
  BY <1>10 DEF CollectWebhooks, StartDelivery
<1>11. ASSUME NEW r \in Runs, DeliveryThread(r) PROVE TypeOK'
  BY <1>11 DEF DeliveryThread, Post
<1>12. ASSUME NEW r \in Runs, CliExit(r) PROVE TypeOK'
  BY <1>12 DEF CliExit, DeliveryLost
<1>13. ASSUME NEW c \in Clients, Client(c) PROVE TypeOK'
  <2>1. CASE Subscribe(c)
    BY <1>13, <2>1 DEF Client, Subscribe
  <2>2. CASE Receive(c)
    <3>1. Head(queue[c]) \in Event /\ Tail(queue[c]) \in Seq(Event)
      BY <2>2 DEF Receive
    <3>2. Head(queue[c]).run \in Runs /\ Head(queue[c]).type \in Types
      BY <3>1 DEF Event
    <3>3. QED
      BY <1>13, <2>2, <3>1, <3>2 DEF Client, Receive
  <2>3. CASE Unsubscribe(c)
    BY <1>13, <2>3 DEF Client, Unsubscribe
  <2>4. QED
    BY <1>13, <2>1, <2>2, <2>3 DEF Client
<1>14. ASSUME Operator PROVE TypeOK'
  <2>1. PICK b \in Bots, h \in Hooks : Register(b, h) \/ Remove(b, h)
    BY <1>14 DEF Operator
  <2>2. registered' \in [Bots -> SUBSET Hooks]
    BY <2>1 DEF Register, Remove
  <2>3. QED
    BY <1>14, <2>1, <2>2 DEF Operator, Register, Remove
<1>15. ASSUME Crash PROVE TypeOK'
  BY <1>15 DEF Crash, BusLost, DeliveryLost
<1>16. CASE UNCHANGED vars
  BY <1>16 DEF vars
<1>17. QED
  BY <1>1, <1>2, <1>3, <1>4, <1>5, <1>6, <1>7, <1>8, <1>9, <1>10, <1>11, <1>12,
     <1>13, <1>14, <1>15, <1>16, <1>18, <1>19 DEF Next, RunThread

\* Every variable keeps its type: the columns of the store, the queues of the
\* bus, the hooks and the state of each run's thread.
THEOREM TypeCorrect == Spec => []TypeOK
<1>1. Init => TypeOK
  BY RunIdAssumption, StoreAssumption, ExecutorAssumption
  DEF Init, TypeOK, StoreInit, BusInit, HookInit, StoreTypeOK, BusTypeOK, HookTypeOK,
      RunIdAssumption, StoreAssumption, ExecutorAssumption, Phases, Types, Outcomes
<1>2. QED
  BY <1>1, TypeStep, PTL DEF Spec

-----------------------------------------------------------------------------
\* What the phase of a thread says about the row of its run: the row exists
\* once the run began, it is "running" until the thread marks it, and while an
\* event is published the row holds what the event says.

StatusAt(type) ==
    CASE type = "run_completed" -> "completed"
      [] type = "run_failed" -> "failed"
      [] OTHER -> "running"

PhaseInv ==
    \A r \in Runs :
        /\ phase[r] = "idle" <=> status[r] = "absent"
        /\ phase[r] = "idle" <=> via[r] = "none"
        /\ phase[r] \in {"bot", "returned", "raised"} => status[r] = "running"
        /\ phase[r] \in {"announce", "fanout"} => status[r] = StatusAt(event[r])
        /\ phase[r] = "deliver" => status[r] = "completed"
        /\ fanout[r] # {} => phase[r] = "fanout"

\* PhaseInv is inductive: no step of a thread, of a client or of a crash can
\* leave a row behind what its thread goes on to publish.
LEMMA PhaseInvariant == Spec => []PhaseInv
<1>1. Init => PhaseInv
  BY DEF Init, PhaseInv, StoreInit, BusInit
<1>2. TypeOK /\ PhaseInv /\ [Next]_vars => PhaseInv'
  <2> SUFFICES ASSUME TypeOK, PhaseInv, [Next]_vars PROVE PhaseInv'
    OBVIOUS
  <2> USE ExecutorAssumption DEF TypeOK, StoreTypeOK, BusTypeOK, PhaseInv, StatusAt,
        ExecutorAssumption, Types, Outcomes, Exists
  <2> USE DEF storeVars, busVars, hookVars, threadVars, HasBus, PublishThen
  <2>1. ASSUME NEW r \in Runs, NEW v \in Via, NEW now \in Stamps, BeginRun(r, v, now) PROVE PhaseInv'
    <3>1. v \in {"api", "schedule", "cli"}
      OBVIOUS
    <3>2. ASSUME NEW s \in Runs, s # r PROVE PhaseInv!(s)'
      BY <2>1, <3>2 DEF BeginRun, CreateRunning
    <3>3. PhaseInv!(r)'
      BY <2>1, <3>1 DEF BeginRun, CreateRunning
    <3>4. QED
      BY <3>2, <3>3
  <2>2. ASSUME NEW r \in Runs, BeginPublish(r) PROVE PhaseInv'
    BY <2>2 DEF BeginPublish, SnapshotSubscribers
  <2>3. ASSUME NEW r \in Runs, NEW c \in Clients, PublishTo(r, c) PROVE PhaseInv'
    BY <2>3 DEF PublishTo, PutNowait
  <2>4. ASSUME NEW r \in Runs, EndPublish(r) PROVE PhaseInv'
    BY <2>4 DEF EndPublish, AfterPublish
  <2>5. ASSUME NEW r \in Runs, BotEmit(r) PROVE PhaseInv'
    BY <2>5 DEF BotEmit
  <2>6. ASSUME NEW r \in Runs, NEW end \in BotEnds, BotReturn(r, end) PROVE PhaseInv'
    BY <2>6 DEF BotReturn
  <2>7. ASSUME NEW r \in Runs, RecordCompleted(r) PROVE PhaseInv'
    <3>1. ASSUME NEW s \in Runs, s # r PROVE PhaseInv!(s)'
      BY <2>7, <3>1 DEF RecordCompleted, MarkCompleted
    <3>2. PhaseInv!(r)'
      BY <2>7 DEF RecordCompleted, MarkCompleted
    <3>3. QED
      BY <3>1, <3>2
  <2>8. ASSUME NEW r \in Runs, RecordFailed(r) PROVE PhaseInv'
    BY <2>8 DEF RecordFailed, MarkFailed
  <2>9. ASSUME NEW r \in Runs, RecordRaises(r) PROVE PhaseInv'
    <3>1. ASSUME NEW s \in Runs, s # r PROVE PhaseInv!(s)'
      BY <2>9, <3>1 DEF RecordRaises, MarkCompleted, MarkFailed
    <3>2. PhaseInv!(r)'
      BY <2>9 DEF RecordRaises, MarkCompleted, MarkFailed
    <3>3. QED
      BY <3>1, <3>2
  <2>18. ASSUME NEW r \in Runs, NEW v \in Via, NEW now \in Stamps, BeginRaises(r, v, now)
         PROVE PhaseInv'
    <3>1. v \in {"api", "schedule", "cli"}
      OBVIOUS
    <3>2. ASSUME NEW s \in Runs, s # r PROVE PhaseInv!(s)'
      BY <2>18, <3>2 DEF BeginRaises, CreateRunning
    <3>3. PhaseInv!(r)'
      BY <2>18, <3>1 DEF BeginRaises, CreateRunning
    <3>4. QED
      BY <3>2, <3>3
  <2>19. ASSUME NEW r \in Runs, ThreadNotStarted(r) PROVE PhaseInv'
    BY <2>19 DEF ThreadNotStarted
  <2>10. ASSUME NEW r \in Runs, CollectWebhooks(r) PROVE PhaseInv'
    BY <2>10 DEF CollectWebhooks, StartDelivery
  <2>11. ASSUME NEW r \in Runs, DeliveryThread(r) PROVE PhaseInv'
    BY <2>11 DEF DeliveryThread
  <2>12. ASSUME NEW r \in Runs, CliExit(r) PROVE PhaseInv'
    BY <2>12 DEF CliExit
  <2>13. ASSUME NEW c \in Clients, Client(c) PROVE PhaseInv'
    BY <2>13 DEF Client, Subscribe, Receive, Unsubscribe
  <2>14. ASSUME Operator PROVE PhaseInv'
    BY <2>14 DEF Operator
  <2>15. ASSUME Crash PROVE PhaseInv'
    BY <2>15 DEF Crash, BusLost
  <2>16. CASE UNCHANGED vars
    BY <2>16 DEF vars
  <2>17. QED
    BY <2>1, <2>2, <2>3, <2>4, <2>5, <2>6, <2>7, <2>8, <2>9, <2>10, <2>11, <2>12,
       <2>13, <2>14, <2>15, <2>16, <2>18, <2>19 DEF Next, RunThread
<1>3. QED
  BY <1>1, <1>2, TypeCorrect, PTL DEF Spec

-----------------------------------------------------------------------------
\* The only steps a row makes: inserted as running, then marked once.
RowMoves ==
    \A r \in Runs :
        \/ status'[r] = status[r]
        \/ status[r] = "absent" /\ status'[r] = "running"
        \/ status[r] = "running" /\ status'[r] \in Outcomes

\* mark_completed and mark_failed overwrite whatever they find; PhaseInv is why
\* what they find is always "running".
LEMMA RowSteps == TypeOK /\ PhaseInv /\ [Next]_vars => RowMoves
<1> SUFFICES ASSUME TypeOK, PhaseInv, [Next]_vars PROVE RowMoves
  OBVIOUS
<1> USE DEF TypeOK, StoreTypeOK, PhaseInv, RowMoves, Outcomes, Exists, storeVars
<1>1. ASSUME NEW r \in Runs, NEW v \in Via, NEW now \in Stamps, BeginRun(r, v, now) PROVE RowMoves
  BY <1>1 DEF BeginRun, CreateRunning
<1>2. ASSUME NEW r \in Runs, RecordCompleted(r) PROVE RowMoves
  BY <1>2 DEF RecordCompleted, MarkCompleted
<1>3. ASSUME NEW r \in Runs, RecordFailed(r) PROVE RowMoves
  BY <1>3 DEF RecordFailed, MarkFailed
<1>6. ASSUME NEW r \in Runs, RecordRaises(r) PROVE RowMoves
  BY <1>6 DEF RecordRaises, MarkCompleted, MarkFailed
<1>7. ASSUME NEW r \in Runs, NEW v \in Via, NEW now \in Stamps, BeginRaises(r, v, now) PROVE RowMoves
  BY <1>7 DEF BeginRaises, CreateRunning
<1>4. CASE UNCHANGED storeVars
  BY <1>4
<1>5. QED
  BY <1>1, <1>2, <1>3, <1>4, <1>6, <1>7
  DEF Next, RunThread, BeginPublish, PublishTo, EndPublish, BotEmit, BotReturn,
      ThreadNotStarted, CollectWebhooks, DeliveryThread, CliExit, Client, Operator, Crash, vars

\* A finished run stays as it finished: RowMoves has no step out of an outcome.
THEOREM OutcomesAreFinal == Spec => OutcomeIsFinal
<1>1. TypeOK /\ PhaseInv /\ [Next]_vars =>
        [\A r \in Runs : status[r] \in Outcomes => status'[r] = status[r]]_vars
  <2> SUFFICES ASSUME TypeOK, PhaseInv, [Next]_vars, NEW r \in Runs, status[r] \in Outcomes
               PROVE status'[r] = status[r]
    OBVIOUS
  <2> QED
    BY RowSteps DEF RowMoves, Outcomes
<1>2. QED
  BY <1>1, TypeCorrect, PhaseInvariant, PTL DEF Spec, OutcomeIsFinal

-----------------------------------------------------------------------------
\* What an event claims of the store stays true: the row exists, and an outcome
\* is final.
LEMMA RecordedIsStable ==
    TypeOK /\ PhaseInv /\ [Next]_vars =>
        \A type \in Types, r \in Runs : Recorded(type, r) => Recorded(type, r)'
BY RowSteps DEF RowMoves, Recorded, Exists, Outcomes

\* Events never run ahead of the store, whatever the interleaving of publishers,
\* readers, reconnections and crashes: the row is marked before the event is
\* published, and what an event claims stays true while it waits.
THEOREM EventsNeverAhead == Spec => []EventsReflectStore
<1>1. Init => EventsReflectStore
  BY DEF Init, BusInit, EventsReflectStore
<1>2. TypeOK /\ PhaseInv /\ EventsReflectStore /\ [Next]_vars => EventsReflectStore'
  <2> SUFFICES ASSUME TypeOK, PhaseInv, EventsReflectStore, [Next]_vars
               PROVE EventsReflectStore'
    OBVIOUS
  <2>0. \A type \in Types, r \in Runs : Recorded(type, r) => Recorded(type, r)'
    BY RecordedIsStable
  <2> USE <2>0 DEF TypeOK, BusTypeOK
  <2>1. CASE UNCHANGED <<queue, seen>>
    <3>1. ASSUME NEW c \in Clients, NEW i \in 1..Len(queue[c])
          PROVE queue[c][i].type \in Types /\ queue[c][i].run \in Runs
      <4>1. queue[c][i] \in Event
        BY queue[c] \in Seq(Event)
      <4>2. QED
        BY <4>1 DEF Event
    <3>2. QED
      BY <2>1, <3>1 DEF EventsReflectStore
  <2>2. ASSUME NEW r \in Runs, NEW c \in Clients, PublishTo(r, c) PROVE EventsReflectStore'
    <3> DEFINE e == [type |-> event[r], run |-> r]
    <3>1. Recorded(event[r], r)
      BY <2>2 DEF PublishTo, PhaseInv, StatusAt, Recorded, Exists, Types
    <3>2. UNCHANGED <<seen, status>>
      BY <2>2 DEF PublishTo, PutNowait, storeVars
    <3>3. e \in Event
      BY DEF Event
    <3>4. ASSUME NEW d \in Clients, NEW i \in 1..Len(queue'[d])
          PROVE Recorded(queue'[d][i].type, queue'[d][i].run)
      <4>1. queue'[d] = queue[d] \/ queue'[d] = Append(queue[d], e)
        BY <2>2 DEF PublishTo, PutNowait
      <4>2. queue'[d][i] = e \/ (i \in 1..Len(queue[d]) /\ queue'[d][i] = queue[d][i])
        BY <4>1, <3>3
      <4>3. QED
        BY <4>2, <3>1 DEF EventsReflectStore
    <3>5. QED
      BY <3>2, <3>4 DEF EventsReflectStore, Recorded, Exists
  <2>3. ASSUME NEW c \in Clients, Client(c) PROVE EventsReflectStore'
    <3>0. UNCHANGED status
      BY <2>3 DEF Client, storeVars
    <3>1. CASE Subscribe(c)
      BY <3>0, <3>1 DEF Subscribe, EventsReflectStore, Recorded, Exists
    <3>2. CASE Unsubscribe(c)
      BY <3>0, <3>2 DEF Unsubscribe, EventsReflectStore, Recorded, Exists
    <3>3. CASE Receive(c)
      <4> DEFINE e == queue[c][1]
      <4>1. e \in Event /\ e = Head(queue[c]) /\ Len(queue[c]) > 0
        BY <3>3 DEF Receive
      <4>2. e.run \in Runs /\ e.type \in Types /\ Recorded(e.type, e.run)
        <5>1. 1 \in 1..Len(queue[c])
          BY <4>1
        <5>2. e.run \in Runs /\ e.type \in Types
          BY <4>1 DEF Event
        <5>3. QED
          BY <5>1, <5>2 DEF EventsReflectStore
      <4>3. ASSUME NEW d \in Clients, NEW i \in 1..Len(queue'[d])
            PROVE Recorded(queue'[d][i].type, queue'[d][i].run)
        <5>1. CASE d = c
          <6>1. queue'[c] = Tail(queue[c])
            BY <3>3 DEF Receive
          <6>2. i + 1 \in 1..Len(queue[c]) /\ queue'[c][i] = queue[c][i + 1]
            BY <4>1, <5>1, <6>1
          <6>3. QED
            BY <5>1, <6>2 DEF EventsReflectStore
        <5>2. CASE d # c
          BY <3>3, <5>2 DEF Receive, EventsReflectStore
        <5>3. QED
          BY <5>1, <5>2
      <4>4. ASSUME NEW d \in Clients, NEW r \in Runs, seen'[d][r] # "none"
            PROVE Recorded(seen'[d][r], r)
        <5>1. seen'[d][r] = seen[d][r] \/ (r = e.run /\ seen'[d][r] = e.type)
          BY <3>3, <4>1, <4>2 DEF Receive
        <5>2. QED
          BY <4>2, <4>4, <5>1 DEF EventsReflectStore
      <4>5. QED
        BY <3>0, <4>3, <4>4 DEF EventsReflectStore, Recorded, Exists
    <3>4. QED
      BY <2>3, <3>1, <3>2, <3>3 DEF Client
  <2>4. ASSUME Crash PROVE EventsReflectStore'
    BY <2>4 DEF Crash, BusLost, EventsReflectStore, Recorded, Exists, storeVars
  <2>5. QED
    BY <2>1, <2>2, <2>3, <2>4
    DEF Next, RunThread, BeginRun, BeginPublish, SnapshotSubscribers, EndPublish, BotEmit,
        BotReturn, RecordCompleted, RecordFailed, RecordRaises, BeginRaises, ThreadNotStarted,
        CollectWebhooks, DeliveryThread, CliExit, Operator, busVars, vars
<1>3. QED
  BY <1>1, <1>2, TypeCorrect, PhaseInvariant, PTL DEF Spec

-----------------------------------------------------------------------------
\* The hooks of a run are touched only after its thread has ended and its row
\* holds the result, and a hook leaves the outbox when it is tried.
HookInv ==
    \A r \in Runs :
        /\ outbox[r] \cup tried[r] # {} => phase[r] \in Over /\ status[r] = "completed"
        /\ outbox[r] \cap tried[r] = {}

\* HookInv is inductive: CollectWebhooks fills an outbox whose run has tried
\* nothing, and from then on the thread of the run is over.
LEMMA HookInvariant == Spec => []HookInv
<1>1. Init => HookInv
  BY DEF Init, HookInit, HookInv
<1>2. TypeOK /\ PhaseInv /\ HookInv /\ [Next]_vars => HookInv'
  <2> SUFFICES ASSUME TypeOK, PhaseInv, HookInv, [Next]_vars PROVE HookInv'
    OBVIOUS
  <2> USE DEF TypeOK, HookTypeOK, StoreTypeOK, HookInv, hookVars, Over
  <2>0. RowMoves
    BY RowSteps
  <2>1. ASSUME UNCHANGED <<outbox, tried>>,
               \A r \in Runs : phase[r] \in Over => phase'[r] \in Over
        PROVE HookInv'
    BY <2>0, <2>1 DEF RowMoves, Outcomes
  <2>2. ASSUME NEW r \in Runs, RunThread(r) PROVE HookInv'
    <3>1. CASE CollectWebhooks(r)
      <4>1. status[r] = "completed" /\ tried[r] = {} /\ UNCHANGED status
        BY <3>1 DEF CollectWebhooks, PhaseInv, storeVars
      <4>2. phase' = [phase EXCEPT ![r] = "ended"]
        BY <3>1 DEF CollectWebhooks
      <4>3. tried' = tried /\ \A s \in Runs : s # r => outbox'[s] = outbox[s]
        BY <3>1 DEF CollectWebhooks, StartDelivery
      <4>4. QED
        BY <4>1, <4>2, <4>3
    <3>2. CASE ~CollectWebhooks(r)
      <4>1. UNCHANGED hookVars
        BY <2>2, <3>2
        DEF RunThread, BeginRun, BeginPublish, PublishTo, EndPublish, BotEmit, BotReturn,
            RecordCompleted, RecordFailed, RecordRaises, BeginRaises, ThreadNotStarted
      <4>2. \A s \in Runs : phase[s] \in Over => phase'[s] \in Over
        BY <2>2, <3>2
        DEF RunThread, BeginRun, BeginPublish, PublishTo, EndPublish, BotEmit, BotReturn,
            RecordCompleted, RecordFailed, RecordRaises, BeginRaises, ThreadNotStarted,
            PublishThen, threadVars
      <4>3. QED
        BY <2>1, <4>1, <4>2
    <3>3. QED
      BY <3>1, <3>2
  <2>3. ASSUME NEW r \in Runs, DeliveryThread(r) PROVE HookInv'
    BY <2>3 DEF DeliveryThread, Post, storeVars, threadVars
  <2>4. ASSUME NEW r \in Runs, CliExit(r) PROVE HookInv'
    BY <2>4 DEF CliExit, DeliveryLost, storeVars, threadVars
  <2>5. ASSUME Crash PROVE HookInv'
    <3>1. \A r \in Runs : outbox'[r] \subseteq outbox[r] /\ tried'[r] = tried[r]
      BY <2>5 DEF Crash, DeliveryLost
    <3>2. UNCHANGED status /\ \A r \in Runs : phase[r] \in Over => phase'[r] \in Over
      BY <2>5 DEF Crash, storeVars
    <3>3. QED
      BY <3>1, <3>2
  <2>6. CASE \/ \E c \in Clients : Client(c)
             \/ Operator
             \/ UNCHANGED vars
    <3>1. UNCHANGED <<outbox, tried, phase>>
      BY <2>6 DEF Client, Operator, Register, Remove, vars, threadVars
    <3>2. QED
      BY <2>1, <3>1
  <2>7. QED
    BY <2>2, <2>3, <2>4, <2>5, <2>6 DEF Next
<1>3. QED
  BY <1>1, <1>2, TypeCorrect, PhaseInvariant, PTL DEF Spec

\* No payload leaves before its result is recorded and none is sent to a hook
\* twice.
THEOREM HooksAfterRecord == Spec => []HooksFollowRecord
<1>1. HookInv => HooksFollowRecord
  BY DEF HookInv, HooksFollowRecord
<1>2. QED
  BY <1>1, HookInvariant, PTL

-----------------------------------------------------------------------------
\* ORDER BY created_at DESC, run_id DESC is a total order on the runs.
LEMMA NewerIsTotalOrder ==
    ASSUME created \in [Runs -> Nat]
    PROVE  /\ \A r, s \in Runs : r # s => (Newer(r, s) <=> ~Newer(s, r))
           /\ \A r \in Runs : ~Newer(r, r)
           /\ \A r, s, t \in Runs : Newer(r, s) /\ Newer(s, t) => Newer(r, t)
BY RunIdAssumption DEF RunIdAssumption, Newer

\* What a step may do to the rows as `latest` reads them: a finished run keeps
\* its outcome, a row keeps its creation time, and at most one run completes.
RowsGrow ==
    /\ \A r \in Runs : Exists(r) => created'[r] = created[r]
    /\ \A r \in Runs : status[r] = "completed" => status'[r] = "completed"
    /\ \A r, s \in Runs :
        /\ status[r] # "completed" /\ status'[r] = "completed"
        /\ status[s] # "completed" /\ status'[s] = "completed"
        => r = s
    /\ \A r \in Runs : ~Exists(r) => status'[r] # "completed"

LEMMA RowsOnlyGrow == TypeOK /\ PhaseInv /\ [Next]_vars => RowsGrow
<1> SUFFICES ASSUME TypeOK, PhaseInv, [Next]_vars PROVE RowsGrow
  OBVIOUS
<1> USE DEF TypeOK, StoreTypeOK, PhaseInv, RowsGrow, Exists, storeVars
<1>1. ASSUME NEW r \in Runs, NEW v \in Via, NEW now \in Stamps, BeginRun(r, v, now) PROVE RowsGrow
  BY <1>1 DEF BeginRun, CreateRunning
<1>2. ASSUME NEW r \in Runs, RecordCompleted(r) PROVE RowsGrow
  BY <1>2 DEF RecordCompleted, MarkCompleted
<1>3. ASSUME NEW r \in Runs, RecordFailed(r) PROVE RowsGrow
  BY <1>3 DEF RecordFailed, MarkFailed
<1>6. ASSUME NEW r \in Runs, RecordRaises(r) PROVE RowsGrow
  BY <1>6 DEF RecordRaises, MarkCompleted, MarkFailed
<1>7. ASSUME NEW r \in Runs, NEW v \in Via, NEW now \in Stamps, BeginRaises(r, v, now) PROVE RowsGrow
  BY <1>7 DEF BeginRaises, CreateRunning
<1>4. CASE UNCHANGED storeVars
  BY <1>4
<1>5. QED
  BY <1>1, <1>2, <1>3, <1>4, <1>6, <1>7
  DEF Next, RunThread, BeginPublish, PublishTo, EndPublish, BotEmit, BotReturn,
      ThreadNotStarted, CollectWebhooks, DeliveryThread, CliExit, Client, Operator, Crash, vars

\* The core of the next theorem: after a step the latest run of a bot is
\* the one it was, or a newer one that has just completed.
LEMMA LatestMoves ==
    TypeOK /\ PhaseInv /\ [Next]_vars =>
        \A b \in Bots : \A r \in Latest(b) : \E s \in Latest(b)' : s = r \/ Newer(s, r)'
<1> SUFFICES ASSUME TypeOK, PhaseInv, [Next]_vars, NEW b \in Bots, NEW r \in Latest(b)
             PROVE \E s \in Latest(b)' : s = r \/ Newer(s, r)'
  OBVIOUS
<1> USE DEF TypeOK, StoreTypeOK, Completed
<1>1. RowsGrow
  BY RowsOnlyGrow
<1>2. /\ \A x, y \in Runs : x # y => (Newer(x, y) <=> ~Newer(y, x))
      /\ \A x \in Runs : ~Newer(x, x)
      /\ \A x, y, z \in Runs : Newer(x, y) /\ Newer(y, z) => Newer(x, z)
  BY NewerIsTotalOrder
<1>3. \A x, y \in Runs : Exists(x) /\ Exists(y) => (Newer(x, y)' <=> Newer(x, y))
  BY <1>1 DEF RowsGrow, Newer
<1>4. /\ \A x \in Completed(b) \cup Completed(b)' : x \in Runs /\ Exists(x)
      /\ Completed(b) \subseteq Completed(b)'
  BY <1>1 DEF RowsGrow, Exists
<1>5. r \in Completed(b) /\ \A s \in Completed(b) : ~Newer(s, r)
  BY DEF Latest
<1>6. CASE Completed(b)' = Completed(b)
  BY <1>3, <1>4, <1>5, <1>6 DEF Latest
<1>7. CASE Completed(b)' # Completed(b)
  <2>1. PICK n \in Completed(b)' : n \notin Completed(b)
    BY <1>4, <1>7
  <2>2. \A x \in Completed(b)' : x = n \/ x \in Completed(b)
    BY <1>1, <2>1 DEF RowsGrow
  <2>3. CASE Newer(n, r)
    <3>1. \A s \in Completed(b)' : ~Newer(s, n)
      BY <1>2, <1>4, <1>5, <2>1, <2>2, <2>3
    <3>2. n \in Latest(b)'
      BY <1>3, <1>4, <2>1, <3>1 DEF Latest
    <3>3. QED
      BY <1>3, <1>4, <1>5, <2>1, <2>3, <3>2
  <2>4. CASE ~Newer(n, r)
    <3>1. r \in Latest(b)'
      BY <1>3, <1>4, <1>5, <2>2, <2>4 DEF Latest
    <3>2. QED
      BY <3>1
  <2>5. QED
    BY <2>3, <2>4
<1>8. QED
  BY <1>6, <1>7

-----------------------------------------------------------------------------
\* Every completed run is covered by the latest one. Proved along the history
\* rather than from the finiteness of Runs: a run that completes is compared
\* with the latest of the moment, and LatestMoves keeps the rest covered.
LatestCovers ==
    \A r \in Runs :
        status[r] = "completed" =>
            \E s \in Latest(BotOf[r]) : s = r \/ Newer(s, r)

LEMMA LatestCoversAll == Spec => []LatestCovers
<1>1. Init => LatestCovers
  BY DEF Init, StoreInit, LatestCovers
<1>2. TypeOK /\ PhaseInv /\ LatestCovers /\ [Next]_vars => LatestCovers'
  <2> SUFFICES ASSUME TypeOK, PhaseInv, LatestCovers, [Next]_vars,
                      NEW r \in Runs, status'[r] = "completed"
               PROVE \E s \in Latest(BotOf[r])' : s = r \/ Newer(s, r)'
    BY DEF LatestCovers
  <2> USE DEF TypeOK, StoreTypeOK
  <2> DEFINE b == BotOf[r]
  <2>1. RowsGrow /\ BotOf[r] \in Bots
    BY RowsOnlyGrow, RunIdAssumption DEF RunIdAssumption
  <2>2. /\ \A x, y \in Runs : x # y => (Newer(x, y) <=> ~Newer(y, x))
        /\ \A x \in Runs : ~Newer(x, x)
        /\ \A x, y, z \in Runs : Newer(x, y) /\ Newer(y, z) => Newer(x, z)
    BY NewerIsTotalOrder
  <2>3. \A x, y \in Runs : Exists(x) /\ Exists(y) => (Newer(x, y)' <=> Newer(x, y))
    BY <2>1 DEF RowsGrow, Newer
  <2>4. \A x \in Completed(b) \cup Completed(b)' : x \in Runs /\ Exists(x)
    BY <2>1 DEF RowsGrow, Completed, Exists
  <2>5. \A x \in Latest(b) : x \in Completed(b) /\ \A y \in Completed(b) : ~Newer(y, x)
    BY DEF Latest
  <2>6. \A x \in Latest(b)' : x \in Completed(b)'
    BY DEF Latest
  <2>7. \A x \in Latest(b) : \E s \in Latest(b)' : s = x \/ Newer(s, x)'
    BY <2>1, LatestMoves
  <2>8. r \in Completed(b)'
    BY DEF Completed
  <2>9. CASE status[r] = "completed"
    <3>1. PICK x \in Latest(b) : x = r \/ Newer(x, r)
      BY <2>9 DEF LatestCovers
    <3>2. PICK s \in Latest(b)' : s = x \/ Newer(s, x)'
      BY <2>7
    <3>3. Exists(r) /\ Exists(x) /\ Exists(s) /\ s \in Runs /\ x \in Runs
      BY <2>4, <2>5, <2>6, <2>8, <3>1, <3>2
    <3>4. s = r \/ Newer(s, r)'
      BY <2>2, <2>3, <3>1, <3>2, <3>3
    <3>5. QED
      BY <3>2, <3>4
  <2>10. CASE status[r] # "completed"
    <3>1. \A x \in Completed(b)' : x = r \/ x \in Completed(b)
      BY <2>1, <2>10 DEF RowsGrow, Completed
    <3>2. CASE \E x \in Completed(b) : Newer(x, r)
      <4>1. PICK x \in Completed(b) : Newer(x, r)
        BY <3>2
      <4>2. status[x] = "completed" /\ x \in Runs /\ BotOf[x] = b
        BY <4>1 DEF Completed
      <4>3. PICK y \in Latest(b) : y = x \/ Newer(y, x)
        BY <4>2 DEF LatestCovers
      <4>4. PICK s \in Latest(b)' : s = y \/ Newer(s, y)'
        BY <2>7
      <4>5. Exists(r) /\ Exists(x) /\ Exists(y) /\ Exists(s) /\ y \in Runs /\ s \in Runs
        BY <2>4, <2>5, <2>6, <2>8, <4>1, <4>3, <4>4
      <4>6. Newer(y, r)
        BY <2>2, <4>1, <4>2, <4>3, <4>5
      <4>7. Newer(s, r)'
        BY <2>2, <2>3, <4>4, <4>5, <4>6
      <4>8. QED
        BY <4>4, <4>7
    <3>3. CASE \A x \in Completed(b) : ~Newer(x, r)
      <4>1. r \in Latest(b)'
        BY <2>2, <2>3, <2>4, <2>8, <3>1, <3>3 DEF Latest
      <4>2. QED
        BY <4>1
    <3>4. QED
      BY <3>2, <3>3
  <2>11. QED
    BY <2>9, <2>10
<1>3. QED
  BY <1>1, <1>2, TypeCorrect, PhaseInvariant, PTL DEF Spec

\* A client that was told a run completed finds a latest result at least as
\* new: the event is behind the store, and the store's latest covers the run.
THEOREM CompletedRunsAreVisible == Spec => []CompletedIsVisible
<1>1. EventsReflectStore /\ LatestCovers => CompletedIsVisible
  BY DEF EventsReflectStore, LatestCovers, CompletedIsVisible, Recorded
<1>2. QED
  BY <1>1, EventsNeverAhead, LatestCoversAll, PTL

-----------------------------------------------------------------------------
\* A delivery thread forgets no hook: the outbox only shrinks into tried,
\* except when its process ends.
THEOREM HooksAreNotForgotten == Spec => NoHookForgotten
<1> DEFINE Kept == \A r \in Runs :
                     \/ outbox[r] \cup tried[r] \subseteq (outbox[r] \cup tried[r])'
                     \/ Crash
                     \/ CliExit(r)
<1>1. TypeOK /\ PhaseInv /\ HookInv /\ [Next]_vars => [Kept]_vars
  <2> SUFFICES ASSUME TypeOK, PhaseInv, HookInv, Next PROVE Kept
    OBVIOUS
  <2> USE DEF TypeOK, HookTypeOK, hookVars
  <2>1. ASSUME NEW r \in Runs, RunThread(r) PROVE Kept
    <3>1. CASE CollectWebhooks(r)
      BY <3>1 DEF CollectWebhooks, StartDelivery, HookInv, Over
    <3>2. CASE ~CollectWebhooks(r)
      BY <2>1, <3>2
      DEF RunThread, BeginRun, BeginPublish, PublishTo, EndPublish, BotEmit, BotReturn,
          RecordCompleted, RecordFailed, RecordRaises, BeginRaises, ThreadNotStarted
    <3>3. QED
      BY <3>1, <3>2
  <2>2. ASSUME NEW r \in Runs, DeliveryThread(r) PROVE Kept
    BY <2>2 DEF DeliveryThread, Post
  <2>3. ASSUME NEW r \in Runs, CliExit(r) PROVE Kept
    BY <2>3 DEF CliExit, DeliveryLost
  <2>4. ASSUME (\E c \in Clients : Client(c)) \/ Operator PROVE Kept
    BY <2>4 DEF Client, Operator, Register, Remove
  <2>5. QED
    BY <2>1, <2>2, <2>3, <2>4 DEF Next
<1>2. QED
  BY <1>1, TypeCorrect, PhaseInvariant, HookInvariant, PTL DEF Spec, NoHookForgotten


-----------------------------------------------------------------------------
\* The order of a client's stream. Once the outcome of a run is in a client's
\* queue, or received, nothing more of that run can reach that client: its
\* thread is done publishing to it.
OutcomeTypes == {"run_completed", "run_failed"}

PublishedTo(c, r) ==
    \/ phase[r] \in {"deliver", "ended", "cut"}
    \/ phase[r] = "fanout" /\ event[r] \in OutcomeTypes /\ c \notin fanout[r]

\* Of one client's queue q: nothing of run r, the outcome of r, and nothing of a
\* run behind its outcome.
Quiet(q, r) == \A i \in 1..Len(q) : q[i].run # r

HasOutcome(q, r) == \E i \in 1..Len(q) : q[i].run = r /\ q[i].type \in OutcomeTypes

OutcomesLast(q) ==
    \A i, j \in 1..Len(q) : i < j /\ q[i].type \in OutcomeTypes => q[j].run # q[i].run

StreamOK(c) ==
    /\ OutcomesLast(queue[c])
    /\ \A r \in Runs : HasOutcome(queue[c], r) => PublishedTo(c, r)
    /\ \A r \in Runs : seen[c][r] \in OutcomeTypes => PublishedTo(c, r) /\ Quiet(queue[c], r)

StreamInv == \A c \in Clients : StreamOK(c)

\* What put_nowait does to these.
LEMMA QueueAppend ==
    ASSUME NEW q \in Seq(Event), NEW e \in Event
    PROVE  /\ \A r : HasOutcome(Append(q, e), r) =>
                    HasOutcome(q, r) \/ (e.run = r /\ e.type \in OutcomeTypes)
           /\ \A r : Quiet(q, r) /\ e.run # r => Quiet(Append(q, e), r)
           /\ OutcomesLast(q) /\ ~HasOutcome(q, e.run) => OutcomesLast(Append(q, e))
<1>1. /\ Len(Append(q, e)) = Len(q) + 1
      /\ Len(q) \in Nat
      /\ Append(q, e)[Len(q) + 1] = e
      /\ \A i \in 1..Len(q) : Append(q, e)[i] = q[i]
  OBVIOUS
<1>2. \A i \in 1..Len(Append(q, e)) :
        i \in 1..Len(q) \/ i = Len(q) + 1
  BY <1>1
<1> DEFINE a == Append(q, e)
<1>3. \A r : HasOutcome(a, r) => HasOutcome(q, r) \/ (e.run = r /\ e.type \in OutcomeTypes)
  BY <1>1, <1>2 DEF HasOutcome
<1>4. \A r : Quiet(q, r) /\ e.run # r => Quiet(a, r)
  BY <1>1, <1>2 DEF Quiet
<1>5. ASSUME OutcomesLast(q), ~HasOutcome(q, e.run) PROVE OutcomesLast(a)
  <2> SUFFICES ASSUME NEW i \in 1..Len(a), NEW j \in 1..Len(a), i < j,
                      a[i].type \in OutcomeTypes
               PROVE a[j].run # a[i].run
    BY DEF OutcomesLast
  <2>1. i \in 1..Len(q) /\ a[i] = q[i]
    BY <1>1
  <2>2. CASE j \in 1..Len(q)
    BY <1>1, <1>5, <2>1, <2>2 DEF OutcomesLast
  <2>3. CASE j = Len(q) + 1
    BY <1>1, <1>5, <2>1, <2>3 DEF HasOutcome
  <2>4. QED
    BY <1>2, <2>2, <2>3
<1>6. QED
  BY <1>3, <1>4, <1>5

\* What q.get does to them.
LEMMA QueueTail ==
    ASSUME NEW q \in Seq(Event), q # <<>>
    PROVE  /\ Head(q) \in Event /\ Tail(q) \in Seq(Event)
           /\ \A r : HasOutcome(Tail(q), r) => HasOutcome(q, r)
           /\ \A r : Quiet(q, r) => Quiet(Tail(q), r) /\ Head(q).run # r
           /\ Head(q).type \in OutcomeTypes => HasOutcome(q, Head(q).run)
           /\ OutcomesLast(q) =>
                /\ OutcomesLast(Tail(q))
                /\ Head(q).type \in OutcomeTypes => Quiet(Tail(q), Head(q).run)
<1> DEFINE t == Tail(q)
<1>1. /\ Len(q) \in Nat \ {0}
      /\ Len(t) = Len(q) - 1
      /\ Head(q) = q[1]
      /\ \A i \in 1..Len(t) : t[i] = q[i + 1]
  OBVIOUS
<1>2. /\ 1 \in 1..Len(q)
      /\ \A i \in 1..Len(t) : i + 1 \in 1..Len(q) /\ 1 < i + 1
      /\ \A i, j \in 1..Len(t) : i < j => i + 1 < j + 1
  BY <1>1
<1>3. \A r : HasOutcome(t, r) => HasOutcome(q, r)
  BY <1>1, <1>2 DEF HasOutcome
<1>4. \A r : Quiet(q, r) => Quiet(t, r) /\ Head(q).run # r
  BY <1>1, <1>2 DEF Quiet
<1>5. Head(q).type \in OutcomeTypes => HasOutcome(q, Head(q).run)
  BY <1>1, <1>2 DEF HasOutcome
<1>6. ASSUME OutcomesLast(q) PROVE OutcomesLast(t)
  BY <1>1, <1>2, <1>6 DEF OutcomesLast
<1>7. ASSUME OutcomesLast(q), Head(q).type \in OutcomeTypes PROVE Quiet(t, Head(q).run)
  BY <1>1, <1>2, <1>7 DEF OutcomesLast, Quiet
<1>8. Head(q) \in Event /\ t \in Seq(Event)
  OBVIOUS
<1>9. QED
  BY <1>3, <1>4, <1>5, <1>6, <1>7, <1>8

\* A thread never goes back to a client it has told the outcome.
LEMMA PublishedIsStable ==
    TypeOK /\ PhaseInv /\ [Next]_vars =>
        \A c \in Clients, r \in Runs : PublishedTo(c, r) => PublishedTo(c, r)'
<1> SUFFICES ASSUME TypeOK, PhaseInv, [Next]_vars,
                    NEW c \in Clients, NEW r \in Runs, PublishedTo(c, r)
             PROVE PublishedTo(c, r)'
  OBVIOUS
<1> USE DEF TypeOK, BusTypeOK, PhaseInv, PublishedTo, OutcomeTypes, busVars, threadVars, PublishThen
<1>1. ASSUME NEW s \in Runs, RunThread(s) PROVE PublishedTo(c, r)'
  <2>1. ASSUME \/ \E v \in Via, now \in Stamps : BeginRun(s, v, now) \/ BeginRaises(s, v, now)
               \/ BotEmit(s)
               \/ RecordCompleted(s)
               \/ RecordFailed(s)
        PROVE PublishedTo(c, r)'
    BY <2>1 DEF BeginRun, BeginRaises, BotEmit, RecordCompleted, RecordFailed
  <2>2. ASSUME \/ \E end \in BotEnds : BotReturn(s, end)
               \/ RecordRaises(s)
               \/ CollectWebhooks(s)
               \/ ThreadNotStarted(s)
        PROVE PublishedTo(c, r)'
    BY <2>2 DEF BotReturn, RecordRaises, CollectWebhooks, ThreadNotStarted
  <2>3. ASSUME BeginPublish(s) PROVE PublishedTo(c, r)'
    BY <2>3 DEF BeginPublish, SnapshotSubscribers
  <2>4. ASSUME NEW d \in Clients, PublishTo(s, d) PROVE PublishedTo(c, r)'
    BY <2>4 DEF PublishTo, PutNowait
  <2>5. ASSUME EndPublish(s) PROVE PublishedTo(c, r)'
    BY <2>5 DEF EndPublish, AfterPublish
  <2>6. QED
    BY <1>1, <2>1, <2>2, <2>3, <2>4, <2>5 DEF RunThread
<1>2. ASSUME NEW d \in Clients, Client(d) PROVE PublishedTo(c, r)'
  BY <1>2 DEF Client, Subscribe, Receive, Unsubscribe
<1>3. ASSUME Crash PROVE PublishedTo(c, r)'
  BY <1>3 DEF Crash, BusLost
<1>4. CASE UNCHANGED <<busVars, threadVars>>
  BY <1>4
<1>5. QED
  BY <1>1, <1>2, <1>3, <1>4 DEF Next, DeliveryThread, CliExit, Operator, vars

\* StreamInv is inductive.
LEMMA StreamInvariant == Spec => []StreamInv
<1>1. Init => StreamInv
  BY DEF Init, BusInit, StreamInv, StreamOK, OutcomesLast, HasOutcome, OutcomeTypes
<1>2. TypeOK /\ PhaseInv /\ StreamInv /\ [Next]_vars => StreamInv'
  <2> SUFFICES ASSUME TypeOK, PhaseInv, StreamInv, [Next]_vars, NEW c \in Clients
               PROVE StreamOK(c)'
    BY DEF StreamInv
  <2>0. StreamOK(c) /\ \A r \in Runs : PublishedTo(c, r) => PublishedTo(c, r)'
    BY PublishedIsStable DEF StreamInv
  <2> USE DEF TypeOK, BusTypeOK
  <2>1. CASE queue'[c] = queue[c] /\ seen'[c] = seen[c]
    BY <2>0, <2>1 DEF StreamOK
  <2>2. CASE queue'[c] = <<>> /\ seen'[c] = seen[c]
    BY <2>0, <2>2 DEF StreamOK, OutcomesLast, HasOutcome, Quiet
  <2>3. ASSUME NEW r \in Runs, PublishTo(r, c), queue'[c] # queue[c] PROVE StreamOK(c)'
    <3> DEFINE e == [type |-> event[r], run |-> r]
    <3>1. /\ phase[r] = "fanout" /\ c \in fanout[r]
          /\ UNCHANGED <<phase, event, seen>>
          /\ queue'[c] = Append(queue[c], e)
      BY <2>3 DEF PublishTo, PutNowait, threadVars
    <3>2. e \in Event /\ e.run = r /\ e.type = event[r]
      BY DEF Event
    <3>3. ~PublishedTo(c, r) /\ (event[r] \in OutcomeTypes => PublishedTo(c, r)')
      BY <2>3, <3>1 DEF PublishedTo, PublishTo, PutNowait
    <3>4. ~HasOutcome(queue[c], r) /\ seen[c][r] \notin OutcomeTypes
      BY <2>0, <3>3 DEF StreamOK
    <3>5. OutcomesLast(queue'[c])
      BY <2>0, <3>1, <3>2, <3>4, QueueAppend DEF StreamOK
    <3>6. ASSUME NEW s \in Runs, HasOutcome(queue'[c], s) PROVE PublishedTo(c, s)'
      BY <2>0, <3>1, <3>2, <3>3, <3>6, QueueAppend DEF StreamOK
    <3>7. ASSUME NEW s \in Runs, seen'[c][s] \in OutcomeTypes
          PROVE PublishedTo(c, s)' /\ Quiet(queue'[c], s)
      <4>1. s # r /\ PublishedTo(c, s) /\ Quiet(queue[c], s)
        BY <2>0, <3>1, <3>4, <3>7 DEF StreamOK
      <4>2. QED
        BY <2>0, <3>1, <3>2, <4>1, QueueAppend
    <3>8. QED
      BY <3>5, <3>6, <3>7 DEF StreamOK
  <2>4. ASSUME Receive(c) PROVE StreamOK(c)'
    <3> DEFINE e == Head(queue[c])
    <3>1. queue[c] # <<>> /\ queue'[c] = Tail(queue[c])
      BY <2>4 DEF Receive
    <3>2. e \in Event /\ e.run \in Runs /\ e.type \in Types
      BY <3>1, QueueTail DEF Event
    <3>3. seen'[c] = [seen[c] EXCEPT ![e.run] = e.type]
      BY <2>4, <3>2 DEF Receive
    <3>4. OutcomesLast(queue'[c])
      BY <2>0, <3>1, QueueTail DEF StreamOK
    <3>5. ASSUME NEW s \in Runs, HasOutcome(queue'[c], s) PROVE PublishedTo(c, s)'
      BY <2>0, <3>1, <3>5, QueueTail DEF StreamOK
    <3>6. ASSUME NEW s \in Runs, seen'[c][s] \in OutcomeTypes
          PROVE PublishedTo(c, s)' /\ Quiet(queue'[c], s)
      <4>1. CASE s = e.run
        <5>1. e.type \in OutcomeTypes
          BY <3>2, <3>3, <3>6, <4>1
        <5>2. HasOutcome(queue[c], s) /\ Quiet(queue'[c], s)
          BY <2>0, <3>1, <4>1, <5>1, QueueTail DEF StreamOK
        <5>3. QED
          BY <2>0, <5>2 DEF StreamOK
      <4>2. CASE s # e.run
        <5>1. seen[c][s] \in OutcomeTypes
          BY <3>2, <3>3, <3>6, <4>2
        <5>2. PublishedTo(c, s) /\ Quiet(queue[c], s)
          BY <2>0, <5>1 DEF StreamOK
        <5>3. QED
          BY <2>0, <3>1, <5>2, QueueTail
      <4>3. QED
        BY <4>1, <4>2
    <3>7. QED
      BY <3>4, <3>5, <3>6 DEF StreamOK
  <2>5. ASSUME NEW r \in Runs, RunThread(r) PROVE StreamOK(c)'
    <3>1. ASSUME NEW d \in Clients, PublishTo(r, d) PROVE StreamOK(c)'
      <4>1. CASE d = c
        <5>1. seen'[c] = seen[c]
          BY <3>1 DEF PublishTo, PutNowait
        <5>2. QED
          BY <2>1, <2>3, <3>1, <4>1, <5>1
      <4>2. CASE d # c
        <5>1. queue'[c] = queue[c] /\ seen'[c] = seen[c]
          BY <3>1, <4>2 DEF PublishTo, PutNowait
        <5>2. QED
          BY <2>1, <5>1
      <4>3. QED
        BY <4>1, <4>2
    <3>2. CASE ~\E d \in Clients : PublishTo(r, d)
      <4>1. UNCHANGED <<queue, seen>>
        BY <2>5, <3>2
        DEF RunThread, BeginRun, BeginPublish, SnapshotSubscribers, EndPublish, BotEmit,
            BotReturn, RecordCompleted, RecordFailed, RecordRaises, BeginRaises,
            ThreadNotStarted, CollectWebhooks, busVars
      <4>2. QED
        BY <2>1, <4>1
    <3>3. QED
      BY <3>1, <3>2
  <2>6. ASSUME NEW d \in Clients, Client(d) PROVE StreamOK(c)'
    <3>1. CASE d = c
      <4>1. CASE Subscribe(c) \/ Unsubscribe(c)
        BY <2>2, <4>1 DEF Subscribe, Unsubscribe
      <4>2. QED
        BY <2>4, <2>6, <3>1, <4>1 DEF Client
    <3>2. CASE d # c
      <4>1. queue'[c] = queue[c] /\ seen'[c] = seen[c]
        BY <2>6, <3>2 DEF Client, Subscribe, Receive, Unsubscribe
      <4>2. QED
        BY <2>1, <4>1
    <3>3. QED
      BY <3>1, <3>2
  <2>7. ASSUME Crash PROVE StreamOK(c)'
    BY <2>2, <2>7 DEF Crash, BusLost
  <2>8. CASE UNCHANGED busVars
    BY <2>1, <2>8 DEF busVars
  <2>9. QED
    BY <2>5, <2>6, <2>7, <2>8 DEF Next, DeliveryThread, CliExit, Operator, vars
<1>3. QED
  BY <1>1, <1>2, TypeCorrect, PhaseInvariant, PTL DEF Spec

-----------------------------------------------------------------------------
\* Threads, queues, drops, reconnections and crashes included, the executor
\* only ever does what RunLifecycle allows: a row begins and finishes once, and
\* what a client receives is a step of being told.
THEOREM ExecutorImplementsLifecycle == Spec => Implements
<1>1. Init => Lifecycle!Init
  BY DEF Init, StoreInit, BusInit, Lifecycle!Init, Told
<1>2. /\ TypeOK /\ PhaseInv /\ EventsReflectStore /\ StreamInv
      /\ [Next]_vars
      => [Lifecycle!Next]_(Lifecycle!lifeVars)
  <2> SUFFICES ASSUME TypeOK, PhaseInv, EventsReflectStore, StreamInv, [Next]_vars
               PROVE Lifecycle!Next \/ UNCHANGED <<status, seen>>
    BY DEF Lifecycle!lifeVars
  <2> USE DEF TypeOK, StoreTypeOK, BusTypeOK
  <2>1. ASSUME UNCHANGED seen, ~UNCHANGED status PROVE Lifecycle!Next
    <3>1. ASSUME NEW r \in Runs, NEW v \in Via, NEW now \in Stamps, BeginRun(r, v, now)
          PROVE Lifecycle!Begin(r)
      BY <2>1, <3>1 DEF BeginRun, CreateRunning, Exists, Lifecycle!Begin
    <3>2. ASSUME NEW r \in Runs, RecordCompleted(r) PROVE Lifecycle!Finish(r, "completed")
      BY <2>1, <3>2 DEF RecordCompleted, MarkCompleted, PhaseInv, Lifecycle!Finish
    <3>3. ASSUME NEW r \in Runs, RecordFailed(r) PROVE Lifecycle!Finish(r, "failed")
      BY <2>1, <3>3 DEF RecordFailed, MarkFailed, PhaseInv, Lifecycle!Finish
    <3>6. ASSUME NEW r \in Runs, NEW v \in Via, NEW now \in Stamps, BeginRaises(r, v, now)
          PROVE Lifecycle!Begin(r)
      BY <2>1, <3>6 DEF BeginRaises, CreateRunning, Exists, Lifecycle!Begin
    <3>7. ASSUME NEW r \in Runs, RecordRaises(r)
          PROVE Lifecycle!Finish(r, "completed") \/ Lifecycle!Finish(r, "failed")
      BY <2>1, <3>7 DEF RecordRaises, MarkCompleted, MarkFailed, storeVars, PhaseInv,
                        Lifecycle!Finish
    <3>4. \E r \in Runs :
            \/ \E v \in Via, now \in Stamps : BeginRun(r, v, now) \/ BeginRaises(r, v, now)
            \/ RecordCompleted(r)
            \/ RecordFailed(r)
            \/ RecordRaises(r)
      BY <2>1
      DEF Next, RunThread, BeginPublish, PublishTo, EndPublish, BotEmit, BotReturn,
          ThreadNotStarted, CollectWebhooks, DeliveryThread, CliExit, Client, Operator, Crash,
          vars, storeVars
    <3>5. QED
      BY <3>1, <3>2, <3>3, <3>4, <3>6, <3>7 DEF Lifecycle!Next, Lifecycle!Outcomes
  <2>2. ASSUME NEW c \in Clients, Client(c), Receive(c) PROVE Lifecycle!Next
    <3> DEFINE e == Head(queue[c])
    <3>1. e \in Event /\ e.run \in Runs /\ e.type \in Types /\ UNCHANGED status
      <4>1. queue[c] # <<>> /\ UNCHANGED status
        BY <2>2 DEF Receive, Client, storeVars
      <4>2. QED
        BY <4>1, QueueTail DEF Event
    <3>2. seen' = [seen EXCEPT ![c][e.run] = e.type]
      BY <2>2 DEF Receive
    <3>3. Recorded(e.type, e.run)
      <4>1. 1 \in 1..Len(queue[c]) /\ e = queue[c][1]
        BY <2>2 DEF Receive
      <4>2. QED
        BY <4>1 DEF EventsReflectStore
    <3>4. seen[c][e.run] \notin OutcomeTypes
      <4>1. queue[c] # <<>> /\ queue[c] \in Seq(Event)
        BY <2>2 DEF Receive
      <4>2. ~Quiet(queue[c], e.run)
        BY <4>1, QueueTail
      <4>3. QED
        BY <3>1, <4>2 DEF StreamInv, StreamOK
    <3>5. Told(seen[c][e.run]) \notin {"completed", "failed"}
      BY <3>1, <3>4 DEF Told, OutcomeTypes, Types
    <3> DEFINE told == [d \in Clients |-> [r \in Runs |-> Told(seen[d][r])]]
    <3>6. told' = [told EXCEPT ![c][e.run] = Told(e.type)]
      BY <3>1, <3>2
    <3>7. CASE e.type \in OutcomeTypes
      <4>1. status[e.run] \in {"completed", "failed"} /\ Told(e.type) = status[e.run]
        BY <3>3, <3>7 DEF Recorded, Told, OutcomeTypes
      <4>2. Lifecycle!TellOutcome(c, e.run)
        BY <3>1, <3>5, <3>6, <4>1 DEF Lifecycle!TellOutcome, Lifecycle!Outcomes
      <4>3. QED
        BY <3>1, <4>2 DEF Lifecycle!Next
    <3>8. CASE e.type \notin OutcomeTypes
      <4>1. status[e.run] # "absent" /\ Told(e.type) = "underway"
        BY <3>1, <3>3, <3>8 DEF Recorded, Exists, Told, OutcomeTypes, Types
      <4>2. Lifecycle!TellUnderWay(c, e.run)
        BY <3>1, <3>5, <3>6, <4>1 DEF Lifecycle!TellUnderWay, Lifecycle!Outcomes
      <4>3. QED
        BY <3>1, <4>2 DEF Lifecycle!Next
    <3>9. QED
      BY <3>7, <3>8
  <2>3. CASE UNCHANGED seen
    BY <2>1, <2>3
  <2>4. CASE ~UNCHANGED seen
    BY <2>2, <2>4
    DEF Next, RunThread, BeginRun, BeginPublish, SnapshotSubscribers, PublishTo, PutNowait,
        EndPublish, BotEmit, BotReturn, RecordCompleted, RecordFailed, RecordRaises,
        BeginRaises, ThreadNotStarted, CollectWebhooks, DeliveryThread, CliExit, Client, Subscribe, Unsubscribe, Operator,
        Crash, BusLost, vars, busVars
  <2>5. QED
    BY <2>3, <2>4
<1>3. QED
  BY <1>1, <1>2, TypeCorrect, PhaseInvariant, EventsNeverAhead, StreamInvariant, PTL
  DEF Spec, Implements, Lifecycle!Spec

-----------------------------------------------------------------------------
\* How a run ends.

\* The server died at some time, and the run was one of its threads' or jobs'.
ServerDied(r) == crashes > 0 /\ via[r] # "cli"

\* What may cut the thread of a run off while its row is `running`.
CutCause(r) ==
    \/ ServerDied(r)
    \/ StoreFaults
    \/ "run" \in ThreadFaults
    \/ ~storable[r]
    \/ "exits" \in BotEnds

\* A run whose thread is over leaves its row in `running` only for one of five
\* causes: the server died, the store raised, the run's thread did not start,
\* json.dumps refused the result, or the pipeline raised what `except Exception`
\* does not catch (executor.py:115, 129-158, 219).
StuckHasCause ==
    \A r \in Runs : phase[r] \in Over /\ status[r] = "running" =>
        phase[r] = "cut" /\ CutCause(r)

\* What is to be said of one run.
EndOK(r) ==
    /\ phase[r] = "ended" =>
        /\ status[r] \in Outcomes
        /\ status[r] = "completed" =>
            ManifestHooks[BotOf[r]] \subseteq outbox[r] \cup tried[r] \/ via[r] = "cli"
    /\ phase[r] = "cut" /\ status[r] = "running" => CutCause(r)

EndInv ==
    /\ \A r \in Runs : EndOK(r)
    /\ \A r \in Runs : ~storable[r] => "unstorable" \in BotEnds

\* EndInv is inductive beside the others.
LEMMA EndInvariant == Spec => []EndInv
<1>1. Init => EndInv
  BY DEF Init, EndInv, EndOK
<1>2. TypeOK /\ PhaseInv /\ EndInv /\ [Next]_vars => EndInv'
  <2> SUFFICES ASSUME TypeOK, PhaseInv, EndInv, [Next]_vars PROVE EndInv'
    OBVIOUS
  <2> USE DEF TypeOK, StoreTypeOK, HookTypeOK, storeVars, busVars, hookVars, threadVars, Outcomes,
              CutCause
  \* A step of one run, which leaves what is said of the others.
  <2>1. ASSUME NEW r \in Runs, crashes' = crashes,
               \A s \in Runs \ {r} : /\ UNCHANGED <<phase[s], status[s], storable[s], via[s]>>
                                     /\ UNCHANGED <<outbox[s], tried[s]>>,
               ~storable'[r] => "unstorable" \in BotEnds, EndOK(r)'
        PROVE  EndInv'
    BY <2>1 DEF EndInv, EndOK, ServerDied
  \* The thread of r goes on.
  <2>2. ASSUME NEW r \in Runs, crashes' = crashes, phase'[r] # "ended", UNCHANGED hookVars,
               phase'[r] # "cut",
               \A s \in Runs \ {r} : UNCHANGED <<phase[s], status[s], via[s]>>,
               UNCHANGED storable
        PROVE  EndInv'
    <3>1. EndOK(r)'
      BY <2>2 DEF EndOK
    <3>2. QED
      BY <2>1, <2>2, <3>1 DEF EndInv
  <2>3. ASSUME NEW r \in Runs, NEW v \in Via, NEW now \in Stamps, BeginRun(r, v, now) PROVE EndInv'
    BY <2>2, <2>3 DEF BeginRun, CreateRunning, PublishThen
  <2>4. ASSUME NEW r \in Runs,
               BeginPublish(r) \/ BotEmit(r) \/ \E c \in Clients : PublishTo(r, c)
        PROVE EndInv'
    <3>1. CASE BeginPublish(r) \/ BotEmit(r)
      BY <2>2, <3>1 DEF BeginPublish, BotEmit, PublishThen
    <3>2. CASE \E c \in Clients : PublishTo(r, c)
      BY <2>2, <3>2 DEF PublishTo
    <3>3. QED
      BY <2>4, <3>1, <3>2
  <2>5. ASSUME NEW r \in Runs, EndPublish(r) PROVE EndInv'
    <3>1. /\ phase' = [phase EXCEPT ![r] = AfterPublish(event[r])] /\ status[r] = StatusAt(event[r])
          /\ UNCHANGED <<status, via, storable, outbox, tried, crashes>>
      BY <2>5 DEF EndPublish, PhaseInv
    <3>2. phase'[r] # "cut" /\ (phase'[r] = "ended" => status[r] = "failed")
      BY <3>1 DEF AfterPublish, StatusAt
    <3>3. QED
      BY <2>1, <3>1, <3>2 DEF EndInv, EndOK
  <2>6. ASSUME NEW r \in Runs, NEW end \in BotEnds, BotReturn(r, end) PROVE EndInv'
    <3>1. /\ phase[r] = "bot" /\ status[r] = "running"
          /\ storable' = [storable EXCEPT ![r] = (end # "unstorable")]
          /\ \A s \in Runs \ {r} : phase'[s] = phase[s]
          /\ UNCHANGED <<status, via, outbox, tried, crashes>>
      BY <2>6 DEF BotReturn, PhaseInv
    <3>2. phase'[r] # "ended" /\ (phase'[r] = "cut" => end = "exits")
      BY <2>6, ExecutorAssumption DEF BotReturn, ExecutorAssumption
    <3>3. ~storable'[r] => "unstorable" \in BotEnds
      BY <3>1
    <3>4. EndOK(r)'
      BY <3>1, <3>2 DEF EndOK
    <3>5. QED
      BY <2>1, <3>1, <3>3, <3>4
  <2>7. ASSUME NEW r \in Runs, RecordCompleted(r) PROVE EndInv'
    BY <2>2, <2>7 DEF RecordCompleted, MarkCompleted, PublishThen
  <2>8. ASSUME NEW r \in Runs, RecordFailed(r) PROVE EndInv'
    <3>1. /\ status' = [status EXCEPT ![r] = "failed"]
          /\ phase'[r] # "cut"
          /\ \A s \in Runs \ {r} : phase'[s] = phase[s]
      BY <2>8 DEF RecordFailed, MarkFailed, PublishThen
    <3>2. UNCHANGED <<via, storable, outbox, tried, crashes>>
      BY <2>8 DEF RecordFailed
    <3>3. QED
      BY <2>1, <3>1, <3>2 DEF EndInv, EndOK
  <2>9. ASSUME NEW r \in Runs, RecordRaises(r) PROVE EndInv'
    <3>1. /\ phase' = [phase EXCEPT ![r] = "cut"]
          /\ \A s \in Runs \ {r} : status'[s] = status[s]
          /\ StoreFaults \/ ~storable[r]
          /\ UNCHANGED <<via, storable, outbox, tried, crashes>>
      BY <2>9 DEF RecordRaises, MarkCompleted, MarkFailed
    <3>2. QED
      BY <2>1, <3>1 DEF EndInv, EndOK
  <2>16. ASSUME NEW r \in Runs, NEW v \in Via, NEW now \in Stamps, BeginRaises(r, v, now)
         PROVE EndInv'
    <3>1. /\ phase' = [phase EXCEPT ![r] = "cut"]
          /\ StoreFaults
          /\ \A s \in Runs \ {r} : UNCHANGED <<status[s], via[s]>>
          /\ UNCHANGED <<storable, outbox, tried, crashes>>
      BY <2>16 DEF BeginRaises, CreateRunning
    <3>2. QED
      BY <2>1, <3>1 DEF EndInv, EndOK
  <2>17. ASSUME NEW r \in Runs, ThreadNotStarted(r) PROVE EndInv'
    <3>1. /\ phase' = [phase EXCEPT ![r] = "cut"]
          /\ status[r] = "running" => "run" \in ThreadFaults
          /\ UNCHANGED <<status, via, storable, outbox, tried, crashes>>
      BY <2>17 DEF ThreadNotStarted, PhaseInv
    <3>2. QED
      BY <2>1, <3>1 DEF EndInv, EndOK
  <2>10. ASSUME NEW r \in Runs, CollectWebhooks(r) PROVE EndInv'
    <3>1. /\ phase' = [phase EXCEPT ![r] = "ended"] /\ status[r] = "completed"
          /\ UNCHANGED <<status, via, storable, tried, crashes>>
          /\ \A s \in Runs \ {r} : outbox'[s] = outbox[s]
          /\ ManifestHooks[BotOf[r]] \subseteq outbox'[r]
      BY <2>10 DEF CollectWebhooks, StartDelivery, HooksFor, PhaseInv
    <3>2. QED
      BY <2>1, <3>1 DEF EndInv, EndOK
  <2>11. ASSUME NEW r \in Runs, DeliveryThread(r) PROVE EndInv'
    <3>1. /\ UNCHANGED <<phase, status, via, storable, crashes>>
          /\ \A s \in Runs : (outbox[s] \cup tried[s]) \subseteq (outbox'[s] \cup tried'[s])
      BY <2>11 DEF DeliveryThread, Post
    <3>2. QED
      BY <3>1 DEF EndInv, EndOK, ServerDied
  <2>12. ASSUME NEW r \in Runs, CliExit(r) PROVE EndInv'
    <3>1. /\ UNCHANGED <<phase, status, via, storable, tried, crashes>> /\ via[r] = "cli"
          /\ \A s \in Runs \ {r} : outbox'[s] = outbox[s]
      BY <2>12 DEF CliExit, DeliveryLost
    <3>2. EndOK(r)'
      BY <3>1 DEF EndInv, EndOK, ServerDied
    <3>3. QED
      BY <2>1, <3>1, <3>2 DEF EndInv
  <2>13. ASSUME Crash PROVE EndInv'
    <3>0. UNCHANGED <<status, via, storable, tried>>
      BY <2>13 DEF Crash, DeliveryLost
    <3>1. crashes' > 0 /\ UNCHANGED <<status, via, storable, tried>>
      <4>1. crashes' = crashes + 1 /\ crashes \in 0..MaxCrashes /\ MaxCrashes \in Nat
        BY <2>13, ExecutorAssumption DEF Crash, ExecutorAssumption
      <4>2. QED
        BY <3>0, <4>1
    <3>2. ASSUME NEW r \in Runs PROVE EndOK(r)'
      <4>1. CASE via[r] \in {"api", "schedule"}
        BY <2>13, <3>1, <4>1 DEF Crash, EndOK, ServerDied
      <4>2. CASE via[r] = "none"
        BY <2>13, <3>1, <4>2 DEF Crash, PhaseInv, EndOK
      <4>3. CASE via[r] = "cli"
        BY <2>13, <3>1, <4>3 DEF Crash, DeliveryLost, EndInv, EndOK, ServerDied
      <4>4. QED
        BY <4>1, <4>2, <4>3, ExecutorAssumption DEF ExecutorAssumption
    <3>3. QED
      BY <3>1, <3>2 DEF EndInv
  <2>14. CASE \/ \E c \in Clients : Client(c)
              \/ Operator
              \/ UNCHANGED vars
    <3>1. UNCHANGED <<phase, status, via, storable, outbox, tried, crashes>>
      BY <2>14 DEF Client, Operator, Register, Remove, vars
    <3>2. QED
      BY <3>1 DEF EndInv, EndOK, ServerDied
  <2>15. QED
    BY <2>3, <2>4, <2>5, <2>6, <2>7, <2>8, <2>9, <2>10, <2>11, <2>12, <2>13, <2>14, <2>16, <2>17
       DEF Next, RunThread
<1>3. QED
  BY <1>1, <1>2, TypeCorrect, PhaseInvariant, PTL DEF Spec

\* A run is left in `running` for a named cause only.
THEOREM StuckRunsHaveACause == Spec => []StuckHasCause
<1>1. EndInv => StuckHasCause
  BY DEF EndInv, EndOK, StuckHasCause, Over, Outcomes
<1>2. QED
  BY <1>1, EndInvariant, PTL

\* What test_executor_robustness.py:3 says holds where these causes are absent:
\* then no run sticks in `running`.
THEOREM NothingSticksWithoutFaults ==
    ASSUME ~StoreFaults, "run" \notin ThreadFaults, BotEnds \subseteq {"result", "raises"},
           MaxCrashes = 0
    PROVE  Spec => []NeverStuckRunning
<1>1. TypeOK /\ EndInv => NeverStuckRunning
  BY DEF TypeOK, EndInv, EndOK, CutCause, ServerDied, NeverStuckRunning, Over, Outcomes
<1>2. QED
  BY <1>1, TypeCorrect, EndInvariant, PTL

\* No webhook of a manifest is lost while its process lives and its delivery
\* thread starts.
THEOREM HooksAreAccountedFor == Spec => []HooksAccounted
<1>1. EndInv => HooksAccounted
  BY DEF EndInv, EndOK, HooksAccounted
<1>2. QED
  BY <1>1, EndInvariant, PTL
=============================================================================
