---------------------------- MODULE LiveRuleset ----------------------------
(***************************************************************************)
(* What the proposal flow promises about a bot's ruleset, with no files,   *)
(* temporary names or half-done calls: reviewers offer and withdraw rules  *)
(* as they like, an approval takes a valid offer and later puts exactly    *)
(* these rules live or gives up, and whose data they run on is settled by  *)
(* the first document for good. Proposals, with one approver, is shown to  *)
(* implement this module (Proposals!ImplementsLiveRuleset).                *)
(***************************************************************************)
CONSTANTS
    Rulesets,   \* the editable part of a document
    Invalid,    \* those that do not validate
    Initial     \* that of the author

VARIABLES
    live,       \* the live document, as a set
    offered,    \* the rules an approval could take now, as a set
    taken       \* the rules an approval has taken, as a set

liveVars == <<live, offered, taken>>

Init ==
    /\ live \in {{}, {[source |-> "author", rules |-> Initial]}}
    /\ offered = {}
    /\ taken = {}

\* A proposal is staged, rejected, replaced, edited or spoilt.
Offer ==
    /\ offered' \in {{}} \cup {{r} : r \in Rulesets \ Invalid}
    /\ UNCHANGED <<live, taken>>

Take ==
    /\ taken = {}
    /\ offered # {}
    /\ taken' = offered
    /\ UNCHANGED <<live, offered>>

GiveUp ==
    /\ taken' = {}
    /\ UNCHANGED <<live, offered>>

\* A first document has no source at all.
SourceOf(documents) == IF documents = {} THEN {"none"} ELSE {d.source : d \in documents}

GoLive ==
    /\ live' = [source : SourceOf(live), rules : taken]
    /\ taken # {}
    /\ taken' = {}
    /\ UNCHANGED offered

Next == Offer \/ Take \/ GiveUp \/ GoLive

Spec == Init /\ [][Next]_liveVars
=============================================================================
