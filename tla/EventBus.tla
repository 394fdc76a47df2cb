------------------------------ MODULE EventBus ------------------------------
(***************************************************************************)
(* The EventBus of sinks.py and the /v1/runs/stream generator that reads   *)
(* it. publish copies the subscriber set under the lock and then puts the  *)
(* event into each queue outside it, so publishers interleave with each    *)
(* other and with (un)subscriptions between any two puts.                  *)
(***************************************************************************)
EXTENDS RunIds, Sequences

CONSTANTS
    Clients,    \* SSE clients
    MaxQueue    \* maxsize of a subscriber's queue (1000 in the code)

ASSUME BusAssumption == MaxQueue \in Nat \ {0}

VARIABLES
    subscribers,    \* the _subscribers set, a queue named by its client
    queue,          \* queue[c]: the events waiting for client c
    fanout,         \* fanout[r]: queues the publish of run r has still to fill
    seen            \* seen[c][r]: type of the last event of r client c received

busVars == <<subscribers, queue, fanout, seen>>

Types == {"run_started", "run_progress", "run_completed", "run_failed"}

Event == [type : Types, run : Runs]

BusTypeOK ==
    /\ subscribers \subseteq Clients
    /\ queue \in [Clients -> Seq(Event)]
    /\ fanout \in [Runs -> SUBSET Clients]
    /\ seen \in [Clients -> [Runs -> Types \cup {"none"}]]

BusInit ==
    /\ subscribers = {}
    /\ queue = [c \in Clients |-> <<>>]
    /\ fanout = [r \in Runs |-> {}]
    /\ seen = [c \in Clients |-> [r \in Runs |-> "none"]]

\* publish, first half: list(self._subscribers) under the lock.
SnapshotSubscribers(r) ==
    /\ fanout' = [fanout EXCEPT ![r] = subscribers]
    /\ UNCHANGED <<subscribers, queue, seen>>

\* Mutant: put instead of put_nowait, a full queue blocks the publisher.
PutBlocking(r, type, c) ==
    /\ c \in fanout[r]
    /\ Len(queue[c]) < MaxQueue
    /\ fanout' = [fanout EXCEPT ![r] = @ \ {c}]
    /\ queue' = [queue EXCEPT ![c] = Append(@, [type |-> type, run |-> r])]
    /\ UNCHANGED <<subscribers, seen>>

\* Mutant: a LIFO queue.
PutLifo(r, type, c) ==
    /\ c \in fanout[r]
    /\ fanout' = [fanout EXCEPT ![r] = @ \ {c}]
    /\ queue' = IF Len(queue[c]) < MaxQueue
                THEN [queue EXCEPT ![c] = <<[type |-> type, run |-> r]>> \o @]
                ELSE queue
    /\ UNCHANGED <<subscribers, seen>>

\* publish, one iteration: put_nowait, or drop the event on queue.Full.
PutNowait(r, type, c) ==
    /\ c \in fanout[r]
    /\ fanout' = [fanout EXCEPT ![r] = @ \ {c}]
    /\ queue' = IF Len(queue[c]) < MaxQueue
                THEN [queue EXCEPT ![c] = Append(@, [type |-> type, run |-> r])]
                ELSE queue
    /\ UNCHANGED <<subscribers, seen>>

\* sse_stream: subscribe() hands out a fresh queue.
Subscribe(c) ==
    /\ c \notin subscribers
    /\ subscribers' = subscribers \cup {c}
    /\ queue' = [queue EXCEPT ![c] = <<>>]
    /\ UNCHANGED <<fanout, seen>>

\* q.get and the yield of the frame. The keepalive on an empty queue changes
\* nothing.
Receive(c) ==
    /\ c \in subscribers
    /\ queue[c] # <<>>
    /\ seen' = [seen EXCEPT ![c][Head(queue[c]).run] = Head(queue[c]).type]
    /\ queue' = [queue EXCEPT ![c] = Tail(@)]
    /\ UNCHANGED <<subscribers, fanout>>

\* The generator is closed, or dies on an event json.dumps rejects; either way
\* its finally clause unsubscribes. A publish that still holds the old queue
\* fills an object nobody reads: it is dropped from fanout.
Unsubscribe(c) ==
    /\ c \in subscribers
    /\ subscribers' = subscribers \ {c}
    /\ queue' = [queue EXCEPT ![c] = <<>>]
    /\ fanout' = [r \in Runs |-> fanout[r] \ {c}]
    /\ UNCHANGED seen

\* The process dies: every queue with it. What a client received it keeps.
BusLost ==
    /\ subscribers' = {}
    /\ queue' = [c \in Clients |-> <<>>]
    /\ fanout' = [r \in Runs |-> {}]
    /\ UNCHANGED seen
=============================================================================
