------------------------------ MODULE Webhooks ------------------------------
(***************************************************************************)
(* The SubscriptionStore of sinks.py, the webhook sinks of the manifests,  *)
(* and the daemon thread a completed run leaves behind to deliver them.    *)
(* Hooks stand for subscriptions deliver_webhooks does not skip (type      *)
(* webhook, an http(s) URL): the others have no effect at all.             *)
(***************************************************************************)
EXTENDS RunIds

CONSTANTS
    Hooks,          \* subscription ids
    ManifestHooks   \* ManifestHooks[b]: the webhook sinks b's manifest declares

ASSUME HookAssumption == ManifestHooks \in [Bots -> SUBSET Hooks]

VARIABLES
    registered,     \* registered[b]: the SubscriptionStore, in memory
    outbox,         \* outbox[r]: hooks the delivery thread of r has still to try
    tried           \* tried[r]: hooks the delivery thread of r has tried

hookVars == <<registered, outbox, tried>>

HookTypeOK ==
    /\ registered \in [Bots -> SUBSET Hooks]
    /\ outbox \in [Runs -> SUBSET Hooks]
    /\ tried \in [Runs -> SUBSET Hooks]

HookInit ==
    /\ registered = [b \in Bots |-> {}]
    /\ outbox = [r \in Runs |-> {}]
    /\ tried = [r \in Runs |-> {}]

\* Ids are drawn by the server and never reused for another subscription.
Register(b, h) ==
    /\ h \notin registered[b] \cup ManifestHooks[b]
    /\ registered' = [registered EXCEPT ![b] = @ \cup {h}]
    /\ UNCHANGED <<outbox, tried>>

Remove(b, h) ==
    /\ h \in registered[b]
    /\ registered' = [registered EXCEPT ![b] = @ \ {h}]
    /\ UNCHANGED <<outbox, tried>>

\* _webhook_subs: the manifest's sinks, then the subscriptions, where the caller
\* has a subscription store.
HooksFor(b, withStore) == ManifestHooks[b] \cup (IF withStore THEN registered[b] ELSE {})

\* The start of the delivery thread: the hooks are fixed here, later
\* (un)registrations do not reach this run.
StartDelivery(r, withStore) ==
    /\ outbox' = [outbox EXCEPT ![r] = HooksFor(BotOf[r], withStore)]
    /\ UNCHANGED <<registered, tried>>

\* Mutant: the try surrounds the loop, a failed POST ends the delivery.
PostStopsOnError(r, h) ==
    /\ h \in outbox[r]
    /\ tried' = [tried EXCEPT ![r] = @ \cup {h}]
    /\ \/ outbox' = [outbox EXCEPT ![r] = @ \ {h}]
       \/ outbox' = [outbox EXCEPT ![r] = {}]
    /\ UNCHANGED registered

\* One iteration of deliver_webhooks: the POST is made; an error is logged and
\* the loop goes on, so success and failure leave the same state.
Post(r, h) ==
    /\ h \in outbox[r]
    /\ outbox' = [outbox EXCEPT ![r] = @ \ {h}]
    /\ tried' = [tried EXCEPT ![r] = @ \cup {h}]
    /\ UNCHANGED registered

\* The process that delivers for the runs in dead ends: its daemon threads end
\* with it.
DeliveryLost(dead) ==
    /\ outbox' = [r \in Runs |-> IF r \in dead THEN {} ELSE outbox[r]]
    /\ UNCHANGED tried
=============================================================================
