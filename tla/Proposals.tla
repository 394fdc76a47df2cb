------------------------------ MODULE Proposals ------------------------------
(***************************************************************************)
(* proposals.py: reviewers stage, reject and approve the ruleset proposal  *)
(* of one bot (each bot has files of its own), with no lock anywhere. The  *)
(* calls interleave at every look at the file system; any of them may die  *)
(* or fail between two steps, and the staged file may be edited by hand.   *)
(***************************************************************************)
EXTENDS AtomicFile

CONSTANTS
    Approvers,  \* clients that approve; every client stages and rejects
    Rulesets,   \* the editable part of a document: rules and metadata
    Invalid,    \* those validate_ruleset refuses
    Initial,    \* that of the ruleset the author wrote
    MaxCalls    \* bound: calls and edits by hand

\* Whose source_table, query and id_field a document carries.
Sources == {"author", "other", "none"}

\* The paths are the bot's proposal file and its ruleset.json; a document is
\* what only the author may set and what a proposal may edit.
ASSUME ProposalAssumption ==
    /\ Paths = {"staged", "live"}
    /\ Docs = [source : Sources, rules : Rulesets]
    /\ Approvers \subseteq Clients
    /\ Invalid \subseteq Rulesets
    /\ Initial \in Rulesets \ Invalid
    /\ MaxCalls \in Nat

VARIABLES
    op,             \* op[c]: the call c is in
    pc,             \* pc[c]: its next step
    doc,            \* doc[c]: the document it read or will write
    undisturbed,    \* the clients no other client acted beside since their call began
    calls           \* calls so far

NoDoc == [source |-> "none", rules |-> Initial]
AuthorsDoc == [source |-> "author", rules |-> Initial]

callVars == <<op, pc, doc, undisturbed, calls>>
vars == <<fileVars, callVars>>

TypeOK ==
    /\ FileTypeOK
    /\ op \in [Clients -> {"none", "stage", "approve", "discard"}]
    /\ pc \in [Clients -> {"idle", "get", "read", "base", "merge", "open", "write",
                           "replace", "exists", "unlink"}]
    /\ doc \in [Clients -> Docs]
    /\ undisturbed \subseteq Clients
    /\ calls \in 0..MaxCalls

\* Nothing is staged; the bot has its author's ruleset, or none yet.
Init ==
    /\ \E i \in Inodes \cup {NoFile} :
        /\ \A j \in Inodes : i <= j
        /\ entry = [p \in Paths |-> IF p = "live" THEN i ELSE NoFile]
    /\ tmp = [p \in Paths |-> NoFile]
    /\ content = [i \in Inodes |-> IF i = entry["live"] THEN AuthorsDoc ELSE Empty]
    /\ fd = [c \in Clients |-> NoFile]
    /\ op = [c \in Clients |-> "none"]
    /\ pc = [c \in Clients |-> "idle"]
    /\ doc = [c \in Clients |-> NoDoc]
    /\ undisturbed = {}
    /\ calls = 0

-----------------------------------------------------------------------------

\* json.loads and validate_ruleset accept d.
Valid(d) == Whole(d) /\ d.rules \notin Invalid

\* Mutant: the data source is blanked.
MergeBlanksSource(base, proposed) == [base EXCEPT !.source = "", !.rules = proposed.rules]

\* Mutant: the proposal replaces the document.
MergeWhole(base, proposed) == proposed

\* Mutant: what the live document lacks is filled from the proposal.
MergeFillsSource(base, proposed) ==
    [source |-> IF base.source = "none" THEN proposed.source ELSE base.source,
     rules |-> proposed.rules]

\* merge_ruleset: only the editable keys are taken over.
Merge(base, proposed) == [base EXCEPT !.rules = proposed.rules]

Call(c, name, first, d) ==
    /\ pc[c] = "idle"
    /\ calls < MaxCalls
    /\ calls' = calls + 1
    /\ op' = [op EXCEPT ![c] = name]
    /\ pc' = [pc EXCEPT ![c] = first]
    /\ doc' = [doc EXCEPT ![c] = d]
    /\ undisturbed' = {c}
    /\ UNCHANGED fileVars

Goto(c, next) ==
    /\ pc' = [pc EXCEPT ![c] = next]
    /\ undisturbed' = undisturbed \cap {c}
    /\ UNCHANGED <<op, calls>>

\* The call returns or raises.
Leave(c) == Goto(c, "idle") /\ UNCHANGED doc

\* stage validates before it touches a file. The proposal may name a source.
Stage(c, r) == r \notin Invalid /\ Call(c, "stage", "open", [source |-> "other", rules |-> r])

Approve(c) == c \in Approvers /\ Call(c, "approve", "get", NoDoc)

Discard(c) == Call(c, "discard", "exists", NoDoc)

\* get: the proposal is looked for, ...
LookForProposal(c) ==
    /\ pc[c] = "get"
    /\ Goto(c, IF Exists("staged") THEN "read" ELSE "idle")
    /\ UNCHANGED <<fileVars, doc>>

\* ... read (it may be gone by now), and validated again.
ReadProposal(c) ==
    /\ pc[c] = "read"
    /\ \/ /\ Exists("staged")
          /\ Valid(Text("staged"))
          /\ doc' = [doc EXCEPT ![c] = Text("staged")]
          /\ Goto(c, "base")
       \/ /\ Exists("staged") => ~Valid(Text("staged"))
          /\ Leave(c)
    /\ UNCHANGED fileVars

\* Without a live ruleset the base is {}.
LookForBase(c) ==
    /\ pc[c] = "base"
    /\ \/ Exists("live") /\ Goto(c, "merge") /\ UNCHANGED doc
       \/ /\ ~Exists("live")
          /\ Goto(c, "open")
          /\ doc' = [doc EXCEPT ![c] = Merge(NoDoc, @)]
    /\ UNCHANGED fileVars

ReadBase(c) ==
    /\ pc[c] = "merge"
    /\ \/ /\ Exists("live")
          /\ Whole(Text("live"))
          /\ doc' = [doc EXCEPT ![c] = Merge(Text("live"), @)]
          /\ Goto(c, "open")
       \/ /\ Exists("live") => ~Whole(Text("live"))
          /\ Leave(c)
    /\ UNCHANGED fileVars

\* _atomic_write, of the proposal or of the live ruleset.
Target(c) == IF op[c] = "stage" THEN "staged" ELSE "live"

Open(c) ==
    /\ pc[c] = "open"
    /\ OpenTmp(c, Target(c))
    /\ Goto(c, "write")
    /\ UNCHANGED doc

Write(c) ==
    /\ pc[c] = "write"
    /\ WriteTmp(c, doc[c])
    /\ Goto(c, "replace")
    /\ UNCHANGED doc

\* os.replace raises when another writer has moved the temporary file away.
Replace(c) ==
    /\ pc[c] = "replace"
    /\ \/ ReplaceByTmp(Target(c)) /\ Goto(c, IF op[c] = "stage" THEN "idle" ELSE "exists")
       \/ tmp[Target(c)] = NoFile /\ Goto(c, "idle") /\ UNCHANGED fileVars
    /\ UNCHANGED doc

\* discard: unlink if the file exists, which it may no longer.
LookForDiscard(c) ==
    /\ pc[c] = "exists"
    /\ Goto(c, IF Exists("staged") THEN "unlink" ELSE "idle")
    /\ UNCHANGED <<fileVars, doc>>

UnlinkProposal(c) ==
    /\ pc[c] = "unlink"
    /\ \/ Exists("staged") /\ Unlink("staged")
       \/ ~Exists("staged") /\ UNCHANGED fileVars
    /\ Leave(c)

\* Mutant: approve discards in a finally clause.
FailFinally(c) ==
    /\ pc[c] # "idle"
    /\ CloseHalfWritten(c)
    /\ Goto(c, IF op[c] = "approve" THEN "exists" ELSE "idle")
    /\ UNCHANGED doc

\* The process of c dies, or a file operation of it raises.
Fail(c) ==
    /\ pc[c] # "idle"
    /\ CloseHalfWritten(c)
    /\ Leave(c)

\* The staged file is edited by hand, perhaps into one that is not valid.
EditByHand(r) ==
    /\ calls < MaxCalls
    /\ Exists("staged")
    /\ content' = [content EXCEPT ![entry["staged"]] = [source |-> "other", rules |-> r]]
    /\ calls' = calls + 1
    /\ undisturbed' = {}
    /\ UNCHANGED <<entry, tmp, fd, op, pc, doc>>

Next ==
    \/ \E c \in Clients :
        \/ \E r \in Rulesets : Stage(c, r)
        \/ Approve(c)
        \/ Discard(c)
        \/ LookForProposal(c)
        \/ ReadProposal(c)
        \/ LookForBase(c)
        \/ ReadBase(c)
        \/ Open(c)
        \/ Write(c)
        \/ Replace(c)
        \/ LookForDiscard(c)
        \/ UnlinkProposal(c)
        \/ Fail(c)
    \/ \E r \in Rulesets : EditByHand(r)

Spec == Init /\ [][Next]_vars

-----------------------------------------------------------------------------

\* However stages, rejections, approvals, failures and edits interleave, no
\* proposal gets the bot to read another source than its author's, and no
\* ruleset that does not validate goes live (proposals.py:96-108,
\* ruleset.py:316-333).
LiveIsReviewed ==
    Exists("live") /\ Whole(Text("live")) =>
        Text("live").source # "other" /\ Text("live").rules \notin Invalid

\* A run that starts now finds a whole ruleset.json to hot-read, also after an
\* approval died half-way and while proposals are staged and rejected beside it
\* (proposals.py:37-41, ruleset.py:291). With one approver at a time it holds.
LiveIsWhole == Exists("live") => Whole(Text("live"))

Applying ==
    {c \in Clients : op[c] = "approve" /\ pc[c] \in {"base", "merge", "open", "write", "replace"}}

LiveDocs == IF Exists("live") THEN {Text("live")} ELSE {}
Offered == IF Exists("staged") /\ Valid(Text("staged")) THEN {Text("staged").rules} ELSE {}
Taken == {doc[c].rules : c \in Applying}

Live == INSTANCE LiveRuleset WITH live <- LiveDocs, offered <- Offered, taken <- Taken

\* With one approver, the files, their temporary names and the calls that fail
\* half-way amount to the abstract ruleset: what goes live is what an approval
\* read, whatever has become of the staged file meanwhile, and the source of the
\* live document never changes; that of one which an approval made first, none,
\* included (proposals.py:96-108, ruleset.py:325-333).
ImplementsLiveRuleset == Live!Spec

\* An approval that nobody acted beside only removes the proposal it made live,
\* whatever earlier calls that failed have left (proposals.py:103-107).
ApprovedBeforeGone ==
    [][\A c \in undisturbed' :
            op[c] = "approve" /\ Exists("staged") /\ ~Exists("staged")' =>
                /\ Exists("live")'
                /\ \E r \in Rulesets, s, t \in Sources :
                    /\ Text("staged") = [source |-> s, rules |-> r]
                    /\ Text("live")' = [source |-> t, rules |-> r]]_vars
=============================================================================
