-------------------------- MODULE ProposalsProofs --------------------------
(***************************************************************************)
(* Proofs about the proposal flow, for any reviewers, rulesets and number  *)
(* of calls.                                                               *)
(***************************************************************************)
EXTENDS Proposals, TLAPS

USE DEF NoFile

\* Every variable keeps its type.
THEOREM TypeCorrect == Spec => []TypeOK
<1> USE FileAssumption, ProposalAssumption DEF FileAssumption, ProposalAssumption
<1>1. Init => TypeOK
  BY DEF Init, TypeOK, FileTypeOK, NoDoc, AuthorsDoc, Sources
<1>2. TypeOK /\ [Next]_vars => TypeOK'
  <2> SUFFICES ASSUME TypeOK, [Next]_vars PROVE TypeOK'
    OBVIOUS
  <2> USE DEF TypeOK, FileTypeOK, fileVars, Goto, Leave
  <2>1. ASSUME NEW c \in Clients, NEW name \in {"stage", "approve", "discard"},
               NEW first \in {"open", "get", "exists"}, NEW d \in Docs, Call(c, name, first, d)
        PROVE TypeOK'
    BY <2>1 DEF Call
  <2>2. NoDoc \in Docs /\ \A r \in Rulesets : [source |-> "other", rules |-> r] \in Docs
    BY DEF NoDoc, Sources
  <2>3. ASSUME NEW c \in Clients, NEW r \in Rulesets, Stage(c, r) PROVE TypeOK'
    BY <2>1, <2>2, <2>3 DEF Stage
  <2>4. ASSUME NEW c \in Clients, Approve(c) \/ Discard(c) PROVE TypeOK'
    BY <2>1, <2>2, <2>4 DEF Approve, Discard
  <2>5. ASSUME NEW c \in Clients, LookForProposal(c) \/ LookForDiscard(c) PROVE TypeOK'
    BY <2>5 DEF LookForProposal, LookForDiscard
  <2>6. ASSUME NEW c \in Clients, ReadProposal(c) PROVE TypeOK'
    BY <2>6 DEF ReadProposal, Valid, Whole
  <2>7. \A base, d \in Docs : Merge(base, d) \in Docs
    BY DEF Merge
  <2>8. ASSUME NEW c \in Clients, LookForBase(c) PROVE TypeOK'
    <3>1. Merge(NoDoc, doc[c]) \in Docs
      BY <2>2, <2>7
    <3>2. CASE Exists("live")
      BY <2>8, <3>2 DEF LookForBase
    <3>3. CASE ~Exists("live")
      <4>1. doc' = [doc EXCEPT ![c] = Merge(NoDoc, doc[c])] /\ Goto(c, "open") /\ UNCHANGED fileVars
        BY <2>8, <3>3 DEF LookForBase
      <4>2. doc' \in [Clients -> Docs]
        BY <3>1, <4>1
      <4>3. QED
        BY <4>1, <4>2
    <3>4. QED
      BY <3>2, <3>3
  <2>9. ASSUME NEW c \in Clients, ReadBase(c) PROVE TypeOK'
    <3>1. Whole(Text("live")) => Merge(Text("live"), doc[c]) \in Docs
      BY <2>7 DEF Whole
    <3>2. CASE Exists("live") /\ Whole(Text("live"))
      <4>1. /\ doc' = [doc EXCEPT ![c] = Merge(Text("live"), doc[c])]
            /\ Goto(c, "open")
            /\ UNCHANGED fileVars
        BY <2>9, <3>2 DEF ReadBase
      <4>2. doc' \in [Clients -> Docs]
        BY <3>1, <3>2, <4>1
      <4>3. QED
        BY <4>1, <4>2
    <3>3. CASE ~(Exists("live") /\ Whole(Text("live")))
      <4>1. Leave(c) /\ UNCHANGED fileVars
        BY <2>9, <3>3 DEF ReadBase
      <4>2. QED
        BY <4>1
    <3>4. QED
      BY <3>2, <3>3
  <2>10. ASSUME NEW c \in Clients, Open(c) PROVE TypeOK'
    <3>1. PICK i \in Inodes : OpenInode(c, i)
      BY <2>10 DEF Open, OpenTmp, Target, Free
    <3>2. UNCHANGED entry /\ tmp' \in [Paths -> Inodes \cup {NoFile}]
      BY <2>10 DEF Open, OpenTmp, Free
    <3>3. QED
      BY <2>10, <3>1, <3>2 DEF Open, OpenInode
  <2>11. ASSUME NEW c \in Clients, Write(c) PROVE TypeOK'
    <3>1. PICK text \in Overwritten(content[fd[c]], doc[c]) :
            content' = [content EXCEPT ![fd[c]] = text]
      BY <2>11 DEF Write, WriteTmp
    <3>2. text \in Docs \cup {Empty, Torn}
      BY <3>1 DEF Overwritten
    <3>3. QED
      BY <2>11, <3>1, <3>2 DEF Write, WriteTmp
  <2>12. ASSUME NEW c \in Clients, Replace(c) PROVE TypeOK'
    BY <2>12 DEF Replace, ReplaceByTmp, Target
  <2>13. ASSUME NEW c \in Clients, UnlinkProposal(c) PROVE TypeOK'
    BY <2>13 DEF UnlinkProposal, Unlink
  <2>14. ASSUME NEW c \in Clients, Fail(c) PROVE TypeOK'
    BY <2>14 DEF Fail, CloseHalfWritten
  <2>15. ASSUME NEW r \in Rulesets, EditByHand(r) PROVE TypeOK'
    BY <2>2, <2>15 DEF EditByHand, Exists
  <2>16. CASE UNCHANGED vars
    BY <2>16 DEF vars, callVars
  <2>17. QED
    BY <2>3, <2>4, <2>5, <2>6, <2>8, <2>9, <2>10, <2>11, <2>12, <2>13, <2>14, <2>15, <2>16
       DEF Next
<1>3. QED
  BY <1>1, <1>2, PTL DEF Spec

-----------------------------------------------------------------------------
\* An inode that ruleset.json, its temporary name, or an approval writing it
\* refers to; and the same for the proposal file.
LiveSide(i) ==
    \/ i \in {entry["live"], tmp["live"]}
    \/ \E c \in Clients : op[c] = "approve" /\ fd[c] = i

StagedSide(i) ==
    \/ i \in {entry["staged"], tmp["staged"]}
    \/ \E c \in Clients : op[c] # "approve" /\ fd[c] = i

Reviewed(d) == d.source # "other" /\ d.rules \notin Invalid

\* What a client holds at each step of its call.
HandInv ==
    \A c \in Clients :
        /\ pc[c] \in {"get", "read", "base", "merge"} => op[c] = "approve"
        /\ pc[c] \in {"base", "merge"} => doc[c].rules \notin Invalid
        /\ pc[c] \in {"open", "write", "replace"} /\ op[c] = "approve" => Reviewed(doc[c])
        /\ pc[c] \in {"open", "write", "replace"} => op[c] \in {"stage", "approve"}
        /\ fd[c] # NoFile <=> pc[c] = "write"

\* The two files never share an inode, and every whole document on the side of
\* ruleset.json was reviewed.
SideInv ==
    \A i \in Inodes :
        /\ ~(LiveSide(i) /\ StagedSide(i))
        /\ LiveSide(i) /\ content[i] \in Docs => Reviewed(content[i])

\* The temporary file a client opens is the one under that name, or a new one.
LEMMA OpenedInode ==
    ASSUME TypeOK, NEW c \in Clients, Open(c)
    PROVE  \E i \in Inodes :
            /\ OpenInode(c, i)
            /\ i = tmp[Target(c)] \/ i \in Free
            /\ tmp' = [tmp EXCEPT ![Target(c)] = i]
<1>1. OpenTmp(c, Target(c))
  BY DEF Open
<1>2. CASE /\ tmp[Target(c)] # NoFile
           /\ OpenInode(c, tmp[Target(c)])
           /\ UNCHANGED <<entry, tmp>>
  <2>1. Target(c) \in Paths
    BY ProposalAssumption DEF ProposalAssumption, Target
  <2>2. tmp[Target(c)] \in Inodes /\ tmp' = [tmp EXCEPT ![Target(c)] = tmp[Target(c)]]
    BY <1>2, <2>1 DEF TypeOK, FileTypeOK
  <2>3. QED
    BY <1>2, <2>2
<1>3. CASE \E j \in Free : OpenInode(c, j) /\ tmp' = [tmp EXCEPT ![Target(c)] = j]
  BY <1>3 DEF Free
<1>4. QED
  BY <1>1, <1>2, <1>3 DEF OpenTmp

\* HandInv and SideInv are inductive together.
LEMMA SideInvariant == Spec => [](HandInv /\ SideInv)
<1> USE FileAssumption, ProposalAssumption DEF FileAssumption, ProposalAssumption
<1>1. Init => HandInv /\ SideInv
  BY DEF Init, HandInv, SideInv, LiveSide, StagedSide, Reviewed, AuthorsDoc
<1>2. TypeOK /\ HandInv /\ SideInv /\ [Next]_vars => HandInv' /\ SideInv'
  <2> SUFFICES ASSUME TypeOK, HandInv, SideInv, [Next]_vars PROVE HandInv' /\ SideInv'
    OBVIOUS
  <2> USE DEF TypeOK, FileTypeOK, fileVars, Goto, Leave, HandInv, SideInv
  <2>1. ASSUME NEW c \in Clients, NEW name \in {"stage", "approve", "discard"},
               NEW first \in {"open", "get", "exists"}, NEW d \in Docs, Call(c, name, first, d),
               first = "open" => name = "stage", first = "get" => name = "approve"
        PROVE HandInv' /\ SideInv'
    <3>1. HandInv'
      BY <2>1 DEF Call
    <3>2. \A i \in Inodes : LiveSide(i)' = LiveSide(i) /\ StagedSide(i)' = StagedSide(i)
      BY <2>1 DEF Call, LiveSide, StagedSide
    <3>3. QED
      BY <2>1, <3>1, <3>2 DEF Call
  <2>2. NoDoc \in Docs /\ \A r \in Rulesets : [source |-> "other", rules |-> r] \in Docs
    BY DEF NoDoc, Sources
  <2>3. ASSUME NEW c \in Clients, NEW r \in Rulesets, Stage(c, r) PROVE HandInv' /\ SideInv'
    BY <2>1, <2>2, <2>3 DEF Stage
  <2>4. ASSUME NEW c \in Clients, Approve(c) \/ Discard(c) PROVE HandInv' /\ SideInv'
    BY <2>1, <2>2, <2>4 DEF Approve, Discard
  <2>5. ASSUME NEW c \in Clients,
               LookForProposal(c) \/ LookForDiscard(c) \/ ReadProposal(c)
               \/ LookForBase(c) \/ ReadBase(c)
        PROVE HandInv' /\ SideInv'
    <3>1. UNCHANGED <<fileVars, op>>
      BY <2>5 DEF LookForProposal, LookForDiscard, ReadProposal, LookForBase, ReadBase
    <3>2. SideInv'
      BY <3>1 DEF LiveSide, StagedSide
    <3>3. CASE LookForProposal(c) \/ LookForDiscard(c)
      BY <3>1, <3>2, <3>3 DEF LookForProposal, LookForDiscard
    <3>4. CASE ReadProposal(c)
      BY <3>1, <3>2, <3>4 DEF ReadProposal, Valid, Whole
    <3>5. CASE LookForBase(c)
      <4>1. Reviewed(Merge(NoDoc, doc[c])) \/ pc[c] # "base"
        BY DEF Merge, NoDoc, Reviewed
      <4>2. QED
        BY <3>1, <3>2, <3>5, <4>1 DEF LookForBase
    <3>6. CASE ReadBase(c)
      <4>1. ASSUME Exists("live"), Whole(Text("live")), pc[c] = "merge"
            PROVE Reviewed(Merge(Text("live"), doc[c]))
        <5>1. LiveSide(entry["live"]) /\ entry["live"] \in Inodes
          BY <4>1 DEF LiveSide, Exists
        <5>2. Text("live") \in Docs /\ Reviewed(Text("live"))
          BY <4>1, <5>1 DEF Whole, Text
        <5>3. QED
          BY <4>1, <5>2 DEF Merge, Reviewed
      <4>2. QED
        BY <3>1, <3>2, <3>6, <4>1 DEF ReadBase
    <3>7. QED
      BY <2>5, <3>3, <3>4, <3>5, <3>6
  <2>6. ASSUME NEW c \in Clients, Open(c) PROVE HandInv' /\ SideInv'
    <3>1. PICK i \in Inodes :
            /\ OpenInode(c, i)
            /\ i = tmp[Target(c)] \/ i \in Free
            /\ tmp' = [tmp EXCEPT ![Target(c)] = i]
      BY <2>6, OpenedInode
    <3>2. UNCHANGED <<entry, op, doc>> /\ pc' = [pc EXCEPT ![c] = "write"] /\ pc[c] = "open"
      BY <2>6 DEF Open, OpenTmp
    <3>3. HandInv'
      BY <3>1, <3>2 DEF OpenInode
    <3>4. \A j \in Inodes :
            /\ LiveSide(j)' => LiveSide(j) \/ (j = i /\ op[c] = "approve")
            /\ StagedSide(j)' => StagedSide(j) \/ (j = i /\ op[c] = "stage")
      BY <3>1, <3>2 DEF OpenInode, LiveSide, StagedSide, Target
    <3>5. /\ op[c] = "approve" => ~StagedSide(i)
          /\ op[c] = "stage" => ~LiveSide(i)
      BY <3>1 DEF Free, LiveSide, StagedSide, Target
    <3>6. content' = [content EXCEPT ![i] = Empty]
      BY <3>1 DEF OpenInode
    <3>7. SideInv'
      BY <3>4, <3>5, <3>6
    <3>8. QED
      BY <3>3, <3>7
  <2>7. ASSUME NEW c \in Clients, Write(c) PROVE HandInv' /\ SideInv'
    <3>1. PICK text \in {doc[c], Torn} : content' = [content EXCEPT ![fd[c]] = text]
      BY <2>7 DEF Write, WriteTmp, Overwritten
    <3>2. /\ UNCHANGED <<entry, tmp, op, doc>>
          /\ pc' = [pc EXCEPT ![c] = "replace"] /\ pc[c] = "write"
          /\ fd' = [fd EXCEPT ![c] = NoFile]
      BY <2>7 DEF Write, WriteTmp
    <3>3. HandInv'
      BY <3>2
    <3>4. \A i \in Inodes : (LiveSide(i)' => LiveSide(i)) /\ (StagedSide(i)' => StagedSide(i))
      BY <3>2 DEF LiveSide, StagedSide
    <3>5. op[c] # "approve" => ~LiveSide(fd[c])
      BY <3>2 DEF StagedSide
    <3>6. op[c] = "approve" => Reviewed(doc[c])
      BY <3>2
    <3>7. SideInv'
      BY <3>1, <3>4, <3>5, <3>6
    <3>8. QED
      BY <3>3, <3>7
  <2>8. ASSUME NEW c \in Clients, Replace(c) PROVE HandInv' /\ SideInv'
    <3>1. UNCHANGED <<content, fd, op, doc>> /\ pc[c] = "replace"
      BY <2>8 DEF Replace, ReplaceByTmp
    <3>2. HandInv'
      BY <2>8, <3>1 DEF Replace
    <3>3. \A i \in Inodes : (LiveSide(i)' => LiveSide(i)) /\ (StagedSide(i)' => StagedSide(i))
      BY <2>8, <3>1 DEF Replace, ReplaceByTmp, LiveSide, StagedSide, Target
    <3>4. QED
      BY <3>1, <3>2, <3>3
  <2>9. ASSUME NEW c \in Clients, UnlinkProposal(c) PROVE HandInv' /\ SideInv'
    <3>1. UNCHANGED <<content, fd, op, doc, tmp>> /\ entry'["live"] = entry["live"]
          /\ pc' = [pc EXCEPT ![c] = "idle"] /\ pc[c] = "unlink"
          /\ entry'["staged"] \in {entry["staged"], NoFile}
      BY <2>9 DEF UnlinkProposal, Unlink
    <3>2. \A i \in Inodes : (LiveSide(i)' => LiveSide(i)) /\ (StagedSide(i)' => StagedSide(i))
      BY <3>1 DEF LiveSide, StagedSide
    <3>3. QED
      BY <3>1, <3>2
  <2>10. ASSUME NEW c \in Clients, Fail(c) PROVE HandInv' /\ SideInv'
    <3>1. /\ UNCHANGED <<entry, tmp, op, doc>>
          /\ pc' = [pc EXCEPT ![c] = "idle"]
          /\ fd' = [fd EXCEPT ![c] = NoFile]
      BY <2>10 DEF Fail, CloseHalfWritten
    <3>2. \A i \in Inodes : content'[i] = content[i] \/ content'[i] = Torn
      BY <2>10 DEF Fail, CloseHalfWritten
    <3>3. HandInv'
      BY <3>1
    <3>4. \A i \in Inodes : (LiveSide(i)' => LiveSide(i)) /\ (StagedSide(i)' => StagedSide(i))
      BY <3>1 DEF LiveSide, StagedSide
    <3>5. QED
      BY <3>2, <3>3, <3>4
  <2>11. ASSUME NEW r \in Rulesets, EditByHand(r) PROVE HandInv' /\ SideInv'
    <3>1. UNCHANGED <<entry, tmp, fd, op, pc, doc>>
      BY <2>11 DEF EditByHand
    <3>2. \A i \in Inodes : content'[i] = content[i] \/ i = entry["staged"]
      BY <2>11 DEF EditByHand
    <3>3. \A i \in Inodes : LiveSide(i)' = LiveSide(i) /\ StagedSide(i)' = StagedSide(i)
      BY <3>1 DEF LiveSide, StagedSide
    <3>4. \A i \in Inodes : i = entry["staged"] => StagedSide(i)
      BY DEF StagedSide
    <3>5. QED
      BY <3>1, <3>2, <3>3, <3>4
  <2>12. CASE UNCHANGED vars
    <3>1. UNCHANGED <<entry, tmp, content, fd, op, pc, doc>>
      BY <2>12 DEF vars, callVars
    <3>2. QED
      BY <3>1 DEF LiveSide, StagedSide
  <2>13. QED
    BY <2>3, <2>4, <2>5, <2>6, <2>7, <2>8, <2>9, <2>10, <2>11, <2>12 DEF Next
<1>3. QED
  BY <1>1, <1>2, TypeCorrect, PTL DEF Spec

\* Whatever happens to the staged file and in whatever order calls, failures
\* and edits come, a whole ruleset.json carries valid rules and its author's
\* source.
THEOREM LiveStaysReviewed == Spec => []LiveIsReviewed
<1>1. TypeOK /\ SideInv => LiveIsReviewed
  BY ProposalAssumption
     DEF ProposalAssumption, TypeOK, FileTypeOK, SideInv, LiveSide, LiveIsReviewed, Exists, Whole,
         Text, Reviewed
<1>2. QED
  BY <1>1, TypeCorrect, SideInvariant, PTL

-----------------------------------------------------------------------------
\* What lies behind the live name is whole; the temporary file is another one,
\* and is empty while an approval holds it open, whole once it has closed it.
WholeInv ==
    /\ Exists("live") => Text("live") \in Docs /\ entry["live"] # tmp["live"]
    /\ \A c \in Clients :
        /\ op[c] = "approve" /\ pc[c] = "write" => fd[c] = tmp["live"] /\ content[fd[c]] = Empty
        /\ op[c] = "approve" /\ pc[c] = "replace" /\ tmp["live"] # NoFile =>
                content[tmp["live"]] \in Docs

\* Of the approvals, at most one is between the open and the os.replace of its
\* _atomic_write.
WritesApart ==
    \A a, b \in Clients :
        /\ op[a] = "approve" /\ pc[a] \in {"write", "replace"}
        /\ op[b] = "approve" /\ pc[b] \in {"write", "replace"}
        => a = b

\* Of the approvals, at most one has read a proposal and not yet put it live.
ApprovalsApart == \A a, b \in Applying : a = b

LEMMA ApartWrites == ApprovalsApart => WritesApart
BY DEF ApprovalsApart, WritesApart, Applying

\* One approver is never in two approvals.
LEMMA OneApproverIsApart ==
    ASSUME \A a, b \in Approvers : a = b
    PROVE  Spec => []ApprovalsApart
<1> DEFINE Mine == \A c \in Clients : op[c] = "approve" => c \in Approvers
<1>1. Init => Mine
  BY DEF Init
<1>2. TypeOK /\ Mine /\ [Next]_vars => Mine'
  <2> SUFFICES ASSUME TypeOK, Mine, [Next]_vars, NEW c \in Clients, op'[c] = "approve"
               PROVE  c \in Approvers
    OBVIOUS
  <2>1. ASSUME NEW d \in Clients,
               Discard(d) \/ \E r \in Rulesets : Stage(d, r)
        PROVE  op'[c] = op[c] \/ op'[c] # "approve"
    BY <2>1 DEF Discard, Stage, Call, TypeOK
  <2>2. ASSUME NEW d \in Clients, Approve(d)
        PROVE  op'[c] = op[c] \/ c \in Approvers
    BY <2>2 DEF Approve, Call, TypeOK
  <2>3. ASSUME NEW d \in Clients,
               \/ LookForProposal(d) \/ ReadProposal(d) \/ LookForBase(d) \/ ReadBase(d)
               \/ Open(d) \/ Write(d) \/ Replace(d) \/ LookForDiscard(d) \/ UnlinkProposal(d)
               \/ Fail(d)
        PROVE  op' = op
    BY <2>3 DEF LookForProposal, ReadProposal, LookForBase, ReadBase, Open, Write, Replace,
                LookForDiscard, UnlinkProposal, Fail, Leave, Goto
  <2>4. CASE UNCHANGED vars \/ \E r \in Rulesets : EditByHand(r)
    BY <2>4 DEF vars, callVars, EditByHand
  <2>5. QED
    BY <2>1, <2>2, <2>3, <2>4 DEF Next
<1>3. Mine => ApprovalsApart
  BY DEF ApprovalsApart, Applying
<1>4. QED
  BY <1>1, <1>2, <1>3, TypeCorrect, PTL DEF Spec

\* Where approvals keep apart WholeInv is inductive beside the others.
LEMMA WholeInvariant == Spec /\ []WritesApart => []WholeInv
<1> USE FileAssumption, ProposalAssumption DEF FileAssumption, ProposalAssumption
<1>1. Init => WholeInv
  BY DEF Init, WholeInv, Exists, Text, AuthorsDoc, Sources
<1>2. TypeOK /\ HandInv /\ SideInv /\ WholeInv /\ WritesApart /\ WritesApart' /\ [Next]_vars
      => WholeInv'
  <2> SUFFICES ASSUME TypeOK, HandInv, SideInv, WholeInv, WritesApart, WritesApart', [Next]_vars
               PROVE  WholeInv'
    OBVIOUS
  <2> USE DEF TypeOK, FileTypeOK, fileVars, Goto, Leave, WholeInv, Exists, Text
  <2>1. ASSUME NEW c \in Clients, NEW name \in {"stage", "approve", "discard"},
               NEW first \in {"open", "get", "exists"}, NEW d \in Docs, Call(c, name, first, d)
        PROVE WholeInv'
    BY <2>1 DEF Call
  <2>2. NoDoc \in Docs /\ \A r \in Rulesets : [source |-> "other", rules |-> r] \in Docs
    BY DEF NoDoc, Sources
  <2>3. ASSUME NEW c \in Clients, NEW r \in Rulesets, Stage(c, r) PROVE WholeInv'
    BY <2>1, <2>2, <2>3 DEF Stage
  <2>4. ASSUME NEW c \in Clients, Approve(c) \/ Discard(c) PROVE WholeInv'
    BY <2>1, <2>2, <2>4 DEF Approve, Discard
  <2>5. ASSUME NEW c \in Clients,
               LookForProposal(c) \/ LookForDiscard(c) \/ ReadProposal(c)
               \/ LookForBase(c) \/ ReadBase(c)
        PROVE WholeInv'
    <3>1. UNCHANGED <<fileVars, op>>
      BY <2>5 DEF LookForProposal, LookForDiscard, ReadProposal, LookForBase, ReadBase
    <3>2. \A a \in Clients : pc'[a] = pc[a] \/ pc'[a] \notin {"write", "replace"}
      BY <2>5 DEF LookForProposal, LookForDiscard, ReadProposal, LookForBase, ReadBase
    <3>3. QED
      BY <3>1, <3>2
  <2>6. \A i \in Inodes : i \in {entry["live"], tmp["live"]} => ~StagedSide(i)
    BY DEF SideInv, LiveSide
  <2>7. ASSUME NEW c \in Clients, Open(c) PROVE WholeInv'
    <3>1. PICK i \in Inodes :
            /\ OpenInode(c, i)
            /\ i = tmp[Target(c)] \/ i \in Free
            /\ tmp' = [tmp EXCEPT ![Target(c)] = i]
      BY <2>7, OpenedInode
    <3>2. UNCHANGED <<entry, op, doc>> /\ pc' = [pc EXCEPT ![c] = "write"] /\ pc[c] = "open"
      BY <2>7 DEF Open, OpenTmp
    <3>3. content' = [content EXCEPT ![i] = Empty] /\ fd' = [fd EXCEPT ![c] = i]
      BY <3>1 DEF OpenInode
    <3>4. CASE op[c] = "approve"
      <4>1. /\ Target(c) = "live"
            /\ \A a \in Clients : op[a] = "approve" /\ pc'[a] \in {"write", "replace"} => a = c
        BY <3>2, <3>4 DEF Target, WritesApart
      <4>2. Exists("live") => i # entry["live"]
        BY <3>1, <4>1 DEF Free
      <4>3. QED
        BY <3>1, <3>2, <3>3, <4>1, <4>2
    <3>5. CASE op[c] = "stage"
      <4>1. Target(c) = "staged"
        BY <3>5 DEF Target
      <4>2. i \notin {entry["live"], tmp["live"]}
        BY <2>6, <3>1, <4>1 DEF Free, StagedSide
      <4>3. QED
        BY <3>1, <3>2, <3>3, <3>5, <4>1, <4>2
    <3>6. QED
      BY <3>2, <3>4, <3>5 DEF HandInv
  <2>8. ASSUME NEW c \in Clients, Write(c) PROVE WholeInv'
    <3>1. PICK text \in Overwritten(content[fd[c]], doc[c]) :
            content' = [content EXCEPT ![fd[c]] = text]
      BY <2>8 DEF Write, WriteTmp
    <3>2. /\ UNCHANGED <<entry, tmp, op, doc>>
          /\ pc' = [pc EXCEPT ![c] = "replace"] /\ pc[c] = "write"
          /\ fd' = [fd EXCEPT ![c] = NoFile]
      BY <2>8 DEF Write, WriteTmp
    <3>3. fd[c] \in Inodes
      BY <3>2 DEF HandInv
    <3>4. CASE op[c] = "approve"
      <4>1. text = doc[c] /\ fd[c] = tmp["live"]
        BY <3>1, <3>2, <3>4 DEF Overwritten
      <4>2. \A a \in Clients : op[a] = "approve" /\ pc'[a] \in {"write", "replace"} => a = c
        BY <3>2, <3>4 DEF WritesApart
      <4>3. QED
        BY <3>1, <3>2, <3>3, <4>1, <4>2
    <3>5. CASE op[c] # "approve"
      <4>1. fd[c] \notin {entry["live"], tmp["live"]}
        BY <2>6, <3>3, <3>5 DEF StagedSide
      <4>2. QED
        BY <3>1, <3>2, <3>3, <3>5, <4>1
    <3>6. QED
      BY <3>4, <3>5
  <2>9. ASSUME NEW c \in Clients, Replace(c) PROVE WholeInv'
    <3>1. UNCHANGED <<content, fd, op, doc>> /\ pc[c] = "replace"
      BY <2>9 DEF Replace, ReplaceByTmp
    <3>2. \A a \in Clients : pc'[a] = pc[a] \/ pc'[a] \notin {"write", "replace"}
      BY <2>9 DEF Replace
    <3>3. CASE UNCHANGED <<entry, tmp>>
      BY <3>1, <3>2, <3>3
    <3>4. CASE ReplaceByTmp(Target(c)) /\ op[c] = "approve"
      <4>1. /\ Target(c) = "live"
            /\ \A a \in Clients : op[a] = "approve" /\ pc[a] \in {"write", "replace"} => a = c
        BY <3>1, <3>4 DEF Target, WritesApart
      <4>2. tmp["live"] \in Inodes /\ content[tmp["live"]] \in Docs
        BY <3>1, <3>4, <4>1 DEF ReplaceByTmp
      <4>3. entry'["live"] = tmp["live"] /\ tmp'["live"] = NoFile
        BY <3>4, <4>1 DEF ReplaceByTmp
      <4>4. pc'[c] \notin {"write", "replace"}
        BY <2>9 DEF Replace
      <4>5. QED
        BY <3>1, <3>2, <4>1, <4>2, <4>3, <4>4
    <3>5. CASE ReplaceByTmp(Target(c)) /\ op[c] # "approve"
      <4>1. Target(c) = "staged"
        BY <3>1, <3>5 DEF Target, HandInv
      <4>2. entry'["live"] = entry["live"] /\ tmp'["live"] = tmp["live"]
        BY <3>5, <4>1 DEF ReplaceByTmp
      <4>3. QED
        BY <3>1, <3>2, <4>2
    <3>6. QED
      BY <2>9, <3>3, <3>4, <3>5 DEF Replace
  <2>10. ASSUME NEW c \in Clients, UnlinkProposal(c) PROVE WholeInv'
    <3>1. /\ UNCHANGED <<content, fd, op, doc, tmp>>
          /\ entry'["live"] = entry["live"]
          /\ pc' = [pc EXCEPT ![c] = "idle"]
      BY <2>10 DEF UnlinkProposal, Unlink
    <3>2. QED
      BY <3>1
  <2>11. ASSUME NEW c \in Clients, Fail(c) PROVE WholeInv'
    <3>1. /\ UNCHANGED <<entry, tmp, op, doc>>
          /\ pc' = [pc EXCEPT ![c] = "idle"]
          /\ fd' = [fd EXCEPT ![c] = NoFile]
      BY <2>11 DEF Fail, CloseHalfWritten
    <3>2. CASE UNCHANGED content
      BY <3>1, <3>2
    <3>3. CASE fd[c] # NoFile /\ content' = [content EXCEPT ![fd[c]] = Torn]
      <4>1. pc[c] = "write" /\ fd[c] \in Inodes
        BY <3>3 DEF HandInv
      <4>2. Exists("live") => fd[c] # entry["live"]
        BY <2>6, <4>1 DEF StagedSide
      <4>3. \A a \in Clients :
              op[a] = "approve" /\ pc'[a] \in {"write", "replace"} => fd[c] # tmp["live"]
        <5>1. CASE op[c] = "approve"
          BY <3>1, <4>1, <5>1 DEF WritesApart
        <5>2. CASE op[c] # "approve"
          BY <2>6, <4>1, <5>2 DEF StagedSide
        <5>3. QED
          BY <5>1, <5>2
      <4>4. QED
        BY <3>1, <3>3, <4>1, <4>2, <4>3
    <3>4. QED
      BY <2>11, <3>2, <3>3 DEF Fail, CloseHalfWritten
  <2>12. ASSUME NEW r \in Rulesets, EditByHand(r) PROVE WholeInv'
    <3>1. UNCHANGED <<entry, tmp, fd, op, pc, doc>> /\ entry["staged"] \in Inodes
      BY <2>12 DEF EditByHand
    <3>2. entry["staged"] \notin {entry["live"], tmp["live"]}
      BY <2>6, <3>1 DEF StagedSide
    <3>3. content' = [content EXCEPT ![entry["staged"]] = [source |-> "other", rules |-> r]]
      BY <2>12 DEF EditByHand
    <3>4. QED
      BY <3>1, <3>2, <3>3
  <2>13. CASE UNCHANGED vars
    BY <2>13 DEF vars, callVars
  <2>14. QED
    BY <2>3, <2>4, <2>5, <2>7, <2>8, <2>9, <2>10, <2>11, <2>12, <2>13 DEF Next
<1>3. QED
  BY <1>1, <1>2, TypeCorrect, SideInvariant, PTL DEF Spec

\* As long as no two approvals are writing at once ruleset.json is whole at every
\* moment, whatever else is staged, rejected, edited or fails: the temporary name
\* they share is all that can spoil it (proposals.py:37-41).
THEOREM LiveStaysWhole == Spec /\ []WritesApart => []LiveIsWhole
<1>1. WholeInv => LiveIsWhole
  BY DEF WholeInv, LiveIsWhole, Whole
<1>2. QED
  BY <1>1, WholeInvariant, PTL

-----------------------------------------------------------------------------
\* What an approval is about to put live has the source of what is live, and is
\* what its temporary file holds once that is closed.
ApplyInv ==
    \A c \in Clients : op[c] = "approve" =>
        /\ pc[c] \in {"open", "write", "replace"} =>
                Live!SourceOf(LiveDocs) = {doc[c].source}
        /\ pc[c] = "replace" /\ tmp["live"] # NoFile => content[tmp["live"]] = doc[c]

\* Only the os.replace of an approval changes the live document.
LEMMA LiveKept ==
    ASSUME TypeOK, HandInv, SideInv, WholeInv, [Next]_vars,
           ~\E c \in Clients : Replace(c) /\ op[c] = "approve"
    PROVE  /\ UNCHANGED LiveDocs
           /\ Exists("live") => Text("live")' = Text("live")
           /\ Exists("live")' = Exists("live")
<1> USE DEF TypeOK, FileTypeOK, fileVars, Goto, Leave
<1>1. entry["live"] \in Inodes => ~StagedSide(entry["live"])
  BY DEF SideInv, LiveSide
<1>2. SUFFICES entry'["live"] = entry["live"]
               /\ (entry["live"] \in Inodes => content'[entry["live"]] = content[entry["live"]])
  BY ProposalAssumption DEF ProposalAssumption, LiveDocs, Exists, Text
<1>3. ASSUME NEW c \in Clients, Open(c)
      PROVE  UNCHANGED entry /\ (entry["live"] \in Inodes => content'[entry["live"]] = content[entry["live"]])
  <2>1. PICK i \in Inodes :
          /\ OpenInode(c, i)
          /\ i = tmp[Target(c)] \/ i \in Free
          /\ tmp' = [tmp EXCEPT ![Target(c)] = i]
    BY <1>3, OpenedInode
  <2>2. UNCHANGED entry
    BY <1>3 DEF Open, OpenTmp
  <2>3. entry["live"] \in Inodes => i # entry["live"]
    <3>1. CASE i \in Free
      BY <3>1, ProposalAssumption DEF ProposalAssumption, Free
    <3>2. CASE i = tmp[Target(c)] /\ op[c] = "stage"
      BY <1>1, <2>1, <3>2 DEF Target, StagedSide
    <3>3. CASE i = tmp[Target(c)] /\ op[c] # "stage"
      BY <3>3, FileAssumption DEF FileAssumption, Target, WholeInv, Exists
    <3>4. QED
      BY <2>1, <3>1, <3>2, <3>3
  <2>4. QED
    BY <2>1, <2>2, <2>3 DEF OpenInode
<1>4. ASSUME NEW c \in Clients, Write(c) \/ Fail(c)
      PROVE  UNCHANGED entry /\ (entry["live"] \in Inodes => content'[entry["live"]] = content[entry["live"]])
  <2>1. UNCHANGED entry /\ \A i \in Inodes : i # fd[c] => content'[i] = content[i]
    BY <1>4 DEF Write, WriteTmp, Fail, CloseHalfWritten
  <2>2. CASE entry["live"] \in Inodes /\ fd[c] = entry["live"]
    <3>1. op[c] = "approve"
      BY <1>1, <2>2 DEF StagedSide
    <3>2. pc[c] = "write"
      BY <2>2, FileAssumption DEF FileAssumption, HandInv
    <3>3. QED
      BY <2>2, <3>1, <3>2, FileAssumption DEF FileAssumption, WholeInv, Exists
  <2>3. QED
    BY <2>1, <2>2
<1>5. ASSUME NEW c \in Clients, Replace(c), op[c] # "approve"
      PROVE  UNCHANGED content /\ entry'["live"] = entry["live"]
  BY <1>5, ProposalAssumption DEF ProposalAssumption, Replace, ReplaceByTmp, Target, HandInv
<1>6. ASSUME NEW c \in Clients, UnlinkProposal(c)
      PROVE  UNCHANGED content /\ entry'["live"] = entry["live"]
  BY <1>6, ProposalAssumption DEF ProposalAssumption, UnlinkProposal, Unlink
<1>7. ASSUME NEW r \in Rulesets, EditByHand(r)
      PROVE  UNCHANGED entry /\ (entry["live"] \in Inodes => content'[entry["live"]] = content[entry["live"]])
  BY <1>1, <1>7 DEF EditByHand, StagedSide
<1>8. ASSUME \/ UNCHANGED vars
             \/ \E c \in Clients : \/ \E r \in Rulesets : Stage(c, r)
                                  \/ Approve(c) \/ Discard(c) \/ LookForProposal(c) \/ ReadProposal(c)
                                  \/ LookForBase(c) \/ ReadBase(c) \/ LookForDiscard(c)
      PROVE  UNCHANGED fileVars
  BY <1>8 DEF vars, Stage, Approve, Discard, Call, LookForProposal, ReadProposal, LookForBase,
              ReadBase, LookForDiscard
<1>9. QED
  BY <1>3, <1>4, <1>5, <1>6, <1>7, <1>8 DEF Next

\* ApplyInv is inductive beside the others.
LEMMA ApplyInvariant == Spec /\ []ApprovalsApart => []ApplyInv
<1> USE FileAssumption, ProposalAssumption DEF FileAssumption, ProposalAssumption
<1>1. Init => ApplyInv
  BY DEF Init, ApplyInv
<1>2. TypeOK /\ HandInv /\ SideInv /\ WholeInv /\ ApplyInv /\ ApprovalsApart /\ [Next]_vars
      => ApplyInv'
  <2> SUFFICES ASSUME TypeOK, HandInv, SideInv, WholeInv, ApplyInv, ApprovalsApart, [Next]_vars,
                      NEW c \in Clients, op'[c] = "approve"
               PROVE  /\ pc'[c] \in {"open", "write", "replace"} =>
                            Live!SourceOf(LiveDocs)' = {doc'[c].source}
                      /\ pc'[c] = "replace" /\ tmp'["live"] # NoFile =>
                            content'[tmp'["live"]] = doc'[c]
    BY DEF ApplyInv
  <2> USE DEF TypeOK, FileTypeOK, fileVars, Goto, Leave
  <2>1. CASE \E d \in Clients : Replace(d) /\ op[d] = "approve"
    BY <2>1 DEF Replace, ApprovalsApart, Applying
  <2>2. CASE ~\E d \in Clients : Replace(d) /\ op[d] = "approve"
    <3>1. /\ Live!SourceOf(LiveDocs)' = Live!SourceOf(LiveDocs)
          /\ Exists("live") => Text("live")' = Text("live")
      BY <2>2, LiveKept DEF Live!SourceOf
    \* The approval is between two steps of its own.
    <3>2. ASSUME UNCHANGED <<pc[c], op[c], doc[c], tmp["live"]>>,
                 tmp["live"] # NoFile => content'[tmp["live"]] = content[tmp["live"]]
          PROVE  /\ pc'[c] \in {"open", "write", "replace"} =>
                        Live!SourceOf(LiveDocs)' = {doc'[c].source}
                 /\ pc'[c] = "replace" /\ tmp'["live"] # NoFile =>
                        content'[tmp'["live"]] = doc'[c]
      BY <3>1, <3>2 DEF ApplyInv
    <3>3. tmp["live"] # NoFile => ~StagedSide(tmp["live"])
      BY DEF SideInv, LiveSide
    <3>4. ASSUME UNCHANGED <<fileVars, pc[c], op[c], doc[c]>>
          PROVE  UNCHANGED tmp["live"] /\ (tmp["live"] # NoFile => content'[tmp["live"]] = content[tmp["live"]])
      BY <3>4
    <3>5. CASE UNCHANGED vars
      BY <3>2, <3>4, <3>5 DEF vars, callVars
    <3>6. CASE \E r \in Rulesets : EditByHand(r)
      <4>1. entry["staged"] # tmp["live"] \/ tmp["live"] = NoFile
        BY <3>3 DEF StagedSide
      <4>2. QED
        BY <3>2, <3>6, <4>1 DEF EditByHand
    <3>7. ASSUME NEW d \in Clients, d # c,
                 \/ \E r \in Rulesets : Stage(d, r)
                 \/ Approve(d) \/ Discard(d) \/ LookForProposal(d) \/ ReadProposal(d) \/ LookForBase(d)
                 \/ ReadBase(d) \/ LookForDiscard(d)
          PROVE  UNCHANGED <<fileVars, pc[c], op[c], doc[c]>>
      BY <3>7 DEF Stage, Approve, Discard, Call, LookForProposal, ReadProposal, LookForBase, ReadBase,
                  LookForDiscard
    <3>8. ASSUME NEW d \in Clients, d # c,
                 Open(d) \/ Write(d) \/ Replace(d) \/ UnlinkProposal(d) \/ Fail(d),
                 pc'[c] \in {"open", "write", "replace"}
          PROVE  /\ UNCHANGED <<pc[c], op[c], doc[c], tmp["live"]>>
                 /\ tmp["live"] # NoFile => content'[tmp["live"]] = content[tmp["live"]]
      <4>1. UNCHANGED <<pc[c], op[c], doc[c]>>
        BY <3>8 DEF Open, Write, Replace, UnlinkProposal, Fail
      <4>2. pc[d] \in {"open", "write", "replace"} => op[d] # "approve"
        BY <3>8, <4>1 DEF ApprovalsApart, Applying
      <4>3. fd[d] = NoFile \/ fd[d] # tmp["live"]
        BY <3>3, <4>2 DEF StagedSide, HandInv
      <4>4. CASE Open(d)
        <5>1. PICK i \in Inodes :
                /\ OpenInode(d, i)
                /\ i = tmp[Target(d)] \/ i \in Free
                /\ tmp' = [tmp EXCEPT ![Target(d)] = i]
          BY <4>4, OpenedInode
        <5>2. Target(d) = "staged" /\ op[d] # "approve"
          BY <4>2, <4>4 DEF HandInv, Open, Target
        <5>3. i # tmp["live"]
          BY <3>3, <5>1, <5>2 DEF Free, StagedSide
        <5>4. QED
          BY <4>1, <5>1, <5>2, <5>3 DEF OpenInode
      <4>5. CASE Write(d)
        BY <4>1, <4>3, <4>5 DEF Write, WriteTmp, HandInv
      <4>6. CASE Replace(d)
        BY <4>1, <4>2, <4>6 DEF Replace, ReplaceByTmp, Target, HandInv
      <4>7. CASE UnlinkProposal(d)
        BY <4>1, <4>7 DEF UnlinkProposal, Unlink
      <4>8. CASE Fail(d)
        BY <4>1, <4>3, <4>8 DEF Fail, CloseHalfWritten
      <4>9. QED
        BY <3>8, <4>4, <4>5, <4>6, <4>7, <4>8
    \* The steps of the approval itself.
    <3>9. CASE \/ \E r \in Rulesets : Stage(c, r)
               \/ Approve(c) \/ Discard(c) \/ LookForProposal(c) \/ ReadProposal(c)
               \/ LookForDiscard(c) \/ UnlinkProposal(c) \/ Fail(c)
      <4>1. op'[c] = "approve" => pc'[c] \notin {"open", "write", "replace"}
        BY <3>9 DEF Stage, Approve, Discard, Call, LookForProposal, ReadProposal, LookForDiscard,
                    UnlinkProposal, Fail
      <4>2. QED
        BY <4>1
    <3>10. CASE LookForBase(c)
      <4>1. CASE Exists("live")
        BY <3>10, <4>1 DEF LookForBase
      <4>2. CASE ~Exists("live")
        <5>1. LiveDocs = {} /\ doc'[c] = Merge(NoDoc, doc[c]) /\ pc'[c] = "open"
          BY <3>10, <4>2 DEF LookForBase, LiveDocs
        <5>2. QED
          BY <3>1, <5>1 DEF Live!SourceOf, Merge, NoDoc
      <4>3. QED
        BY <4>1, <4>2
    <3>11. CASE ReadBase(c)
      <4>1. CASE Exists("live") /\ Whole(Text("live"))
        <5>1. LiveDocs = {Text("live")} /\ doc'[c] = Merge(Text("live"), doc[c]) /\ pc'[c] = "open"
          BY <3>11, <4>1 DEF ReadBase, LiveDocs
        <5>2. doc'[c].source = Text("live").source
          BY <4>1, <5>1 DEF Whole, Merge
        <5>3. \A d : Live!SourceOf({d}) = {d.source}
          BY DEF Live!SourceOf
        <5>4. Live!SourceOf(LiveDocs) = {doc'[c].source}
          BY <5>1, <5>2, <5>3
        <5>5. pc'[c] # "replace"
          BY <5>1
        <5>6. QED
          BY <3>1, <5>4, <5>5
      <4>2. CASE ~(Exists("live") /\ Whole(Text("live")))
        BY <3>11, <4>2 DEF ReadBase
      <4>3. QED
        BY <4>1, <4>2
    <3>12. CASE Open(c)
      <4>1. op[c] = "approve" /\ pc[c] = "open" /\ pc'[c] = "write" /\ doc' = doc
        BY <3>12 DEF Open
      <4>2. QED
        BY <3>1, <4>1 DEF ApplyInv
    <3>13. CASE Write(c)
      <4>1. op[c] = "approve" /\ pc[c] = "write" /\ pc'[c] = "replace" /\ doc' = doc /\ tmp' = tmp
        BY <3>13 DEF Write, WriteTmp
      <4>2. fd[c] = tmp["live"] /\ content[fd[c]] = Empty
        BY <4>1 DEF WholeInv
      <4>3. tmp["live"] # NoFile => content'[tmp["live"]] = doc[c]
        BY <3>13, <4>2 DEF Write, WriteTmp, Overwritten
      <4>4. QED
        BY <3>1, <4>1, <4>3 DEF ApplyInv
    <3>14. \A d \in Clients : Replace(d) => d # c
      <4>1. \A d \in Clients : Replace(d) => op[d] = op'[d]
        BY DEF Replace
      <4>2. QED
        BY <2>2, <4>1
    <3>15. QED
      BY <3>2, <3>4, <3>5, <3>6, <3>7, <3>8, <3>9, <3>10, <3>11, <3>12, <3>13, <3>14 DEF Next
  <2>3. QED
    BY <2>1, <2>2
<1>3. QED
  BY <1>1, <1>2, TypeCorrect, SideInvariant, WholeInvariant, ApartWrites, PTL DEF Spec

LEMMA TakenKept ==
    ASSUME \A c \in Clients :
                /\ c \in Applying' <=> c \in Applying
                /\ c \in Applying => doc'[c].rules = doc[c].rules
    PROVE  UNCHANGED Taken
<1>1. Applying' = Applying /\ Applying \subseteq Clients
  BY DEF Applying
<1>2. QED
  BY <1>1 DEF Taken

\* As long as approvals keep apart, however many may approve, the files implement
\* the abstract ruleset: every step of a call, a failure or an edit is a step of
\* LiveRuleset or none (proposals.py:96-108).
THEOREM ApartImplementsLiveRuleset == Spec /\ []ApprovalsApart => ImplementsLiveRuleset
<1> USE FileAssumption, ProposalAssumption DEF FileAssumption, ProposalAssumption
<1>1. Init => Live!Init
  BY DEF Init, Live!Init, LiveDocs, Offered, Taken, Applying, Exists, Text, AuthorsDoc
<1>2. /\ TypeOK /\ TypeOK' /\ HandInv /\ SideInv /\ WholeInv /\ ApplyInv
      /\ ApprovalsApart /\ ApprovalsApart' /\ [Next]_vars
      => [Live!Next]_(Live!liveVars)
  <2> SUFFICES ASSUME TypeOK, TypeOK', HandInv, SideInv, WholeInv, ApplyInv,
                      ApprovalsApart, ApprovalsApart', [Next]_vars
               PROVE  Live!Next \/ UNCHANGED <<LiveDocs, Offered, Taken>>
    BY DEF Live!liveVars
  <2> USE DEF Goto, Leave, fileVars
  <2>1. \A c, d \in Applying : c = d
    BY DEF ApprovalsApart
  <2>2. ASSUME UNCHANGED <<LiveDocs, Taken>> PROVE Live!Next
    <3>1. Offered' \in {{}} \cup {{r} : r \in Rulesets \ Invalid}
      BY DEF Offered, Valid, Whole
    <3>2. QED
      BY <2>2, <3>1 DEF Live!Next, Live!Offer
  <2>3. ASSUME UNCHANGED <<LiveDocs, Offered>>, Taken' = {} PROVE Live!Next
    BY <2>3 DEF Live!Next, Live!GiveUp
  <2>4. UNCHANGED fileVars => UNCHANGED <<LiveDocs, Offered>>
    BY DEF LiveDocs, Offered, Exists, Text
  <2>5. ASSUME NEW c \in Applying, pc'[c] \notin {"base", "merge", "open", "write", "replace"},
               \A d \in Clients \ {c} : UNCHANGED <<pc[d], op[d], doc[d]>>
        PROVE  Taken' = {}
    BY <2>1, <2>5 DEF Taken, Applying
  <2>6. CASE \E c \in Clients : Replace(c) /\ op[c] = "approve"
    <3>1. PICK c \in Clients : Replace(c) /\ op[c] = "approve"
      BY <2>6
    <3>2. c \in Applying /\ pc[c] = "replace" /\ Target(c) = "live"
      BY <3>1 DEF Replace, Applying, Target
    <3>3. Taken' = {}
      BY <2>5, <3>1, <3>2 DEF Replace, TypeOK
    <3>4. CASE tmp["live"] = NoFile
      BY <2>3, <2>4, <3>1, <3>2, <3>3, <3>4 DEF Replace, ReplaceByTmp
    <3>5. CASE tmp["live"] # NoFile
      <4>1. /\ entry' = [entry EXCEPT !["live"] = tmp["live"]]
            /\ UNCHANGED content
        BY <3>1, <3>2, <3>5 DEF Replace, ReplaceByTmp
      <4>2. UNCHANGED Offered
        BY <4>1 DEF Offered, Exists, Text, TypeOK, FileTypeOK
      <4>3. LiveDocs' = {doc[c]}
        BY <3>1, <3>2, <3>5, <4>1 DEF ApplyInv, LiveDocs, Exists, Text, TypeOK, FileTypeOK
      <4>4. Taken = {doc[c].rules}
        BY <2>1, <3>2 DEF Taken
      <4>5. Live!SourceOf(LiveDocs) = {doc[c].source}
        BY <3>1, <3>2 DEF ApplyInv
      <4>6. doc[c] \in [source : Sources, rules : Rulesets]
        BY DEF TypeOK
      <4>7. [source : {doc[c].source}, rules : {doc[c].rules}] = {doc[c]}
        <5>1. doc[c] = [source |-> doc[c].source, rules |-> doc[c].rules]
          BY <4>6
        <5>2. \A e \in [source : {doc[c].source}, rules : {doc[c].rules}] :
                e = [source |-> doc[c].source, rules |-> doc[c].rules]
          OBVIOUS
        <5>3. doc[c] \in [source : {doc[c].source}, rules : {doc[c].rules}]
          BY <5>1
        <5>4. \A e \in [source : {doc[c].source}, rules : {doc[c].rules}] : e = doc[c]
          BY <5>1, <5>2
        <5>5. QED
          BY <5>3, <5>4
      <4>8. QED
        BY <3>3, <4>2, <4>3, <4>4, <4>5, <4>7 DEF Live!Next, Live!GoLive
    <3>6. QED
      BY <3>4, <3>5
  <2>7. CASE ~\E c \in Clients : Replace(c) /\ op[c] = "approve"
    <3>1. UNCHANGED LiveDocs
      BY <2>7, LiveKept
    <3>2. CASE UNCHANGED vars \/ \E r \in Rulesets : EditByHand(r)
      <4>1. UNCHANGED Taken
        BY <3>2, TakenKept DEF vars, callVars, EditByHand, Applying
      <4>2. QED
        BY <2>2, <3>1, <4>1
    <3>3. ASSUME NEW c \in Clients,
                 \/ \E r \in Rulesets : Stage(c, r)
                 \/ Approve(c) \/ Discard(c) \/ LookForProposal(c) \/ LookForDiscard(c)
                 \/ UnlinkProposal(c) \/ Open(c) \/ Write(c) \/ Replace(c)
          PROVE  Live!Next
      <4>1. \A d \in Clients \ {c} : UNCHANGED <<pc[d], op[d], doc[d]>>
        BY <3>3 DEF TypeOK, Stage, Approve, Discard, Call, LookForProposal, LookForDiscard,
                    UnlinkProposal, Open, Write, Replace
      <4>2. CASE Open(c) \/ Write(c)
        BY <2>2, <3>1, <4>1, <4>2, TakenKept DEF TypeOK, Open, Write, Applying
      <4>3. CASE ~(Open(c) \/ Write(c))
        <5>1. c \notin Applying /\ c \notin Applying'
          BY <2>7, <3>3, <4>3 DEF TypeOK, Applying, Stage, Approve, Discard, Call, LookForProposal,
                    LookForDiscard, UnlinkProposal, Replace
        <5>2. QED
          BY <2>2, <3>1, <4>1, <5>1, TakenKept DEF Applying
      <4>4. QED
        BY <4>2, <4>3
    <3>4. ASSUME NEW c \in Clients, LookForBase(c) PROVE Live!Next
      <4>1. c \in Applying /\ c \in Applying'
        BY <3>4 DEF LookForBase, Applying, HandInv, TypeOK
      <4>2. doc'[c].rules = doc[c].rules
        BY <3>4 DEF LookForBase, Merge, NoDoc, TypeOK
      <4>3. \A d \in Clients \ {c} : UNCHANGED <<pc[d], op[d], doc[d]>>
        BY <3>4 DEF LookForBase, TypeOK
      <4>4. QED
        BY <2>2, <3>1, <4>1, <4>2, <4>3, TakenKept DEF Applying
    <3>5. ASSUME NEW c \in Clients, ReadBase(c) PROVE Live!Next
      <4>1. c \in Applying /\ UNCHANGED fileVars
        BY <3>5 DEF ReadBase, Applying, HandInv
      <4>2. \A d \in Clients \ {c} : UNCHANGED <<pc[d], op[d], doc[d]>>
        BY <3>5 DEF ReadBase, TypeOK
      <4>3. CASE Exists("live") /\ Whole(Text("live"))
        <5>1. c \in Applying' /\ doc'[c].rules = doc[c].rules
          BY <3>5, <4>1, <4>3 DEF ReadBase, Applying, Merge, Whole, TypeOK
        <5>2. QED
          BY <2>2, <3>1, <4>1, <4>2, <5>1, TakenKept DEF Applying
      <4>4. CASE ~(Exists("live") /\ Whole(Text("live")))
        <5>1. pc'[c] = "idle"
          BY <3>5, <4>4 DEF ReadBase, TypeOK
        <5>2. QED
          BY <2>3, <2>4, <2>5, <4>1, <4>2, <5>1
      <4>5. QED
        BY <4>3, <4>4
    <3>6. ASSUME NEW c \in Clients, ReadProposal(c) PROVE Live!Next
      <4>1. op[c] = "approve" /\ pc[c] = "read" /\ UNCHANGED <<fileVars, op>> /\ c \notin Applying
        BY <3>6 DEF ReadProposal, HandInv, Applying
      <4>2. \A d \in Clients \ {c} : UNCHANGED <<pc[d], op[d], doc[d]>>
        BY <3>6 DEF ReadProposal, TypeOK
      <4>3. CASE Exists("staged") /\ Valid(Text("staged"))
        <5>1. pc'[c] = "base" /\ doc'[c] = Text("staged") /\ Offered = {Text("staged").rules}
          BY <3>6, <4>3 DEF ReadProposal, TypeOK, Offered
        <5>2. c \in Applying' /\ \A d \in Clients \ {c} : d \in Applying' <=> d \in Applying
          BY <4>1, <4>2, <5>1 DEF Applying
        <5>3. Applying = {} /\ Applying' = {c}
          <6>1. Applying \subseteq Clients /\ Applying' \subseteq Clients
            BY DEF Applying
          <6>2. QED
            BY <4>1, <5>2, <6>1 DEF ApprovalsApart
        <5>4. Taken = {} /\ Taken' = {Text("staged").rules}
          BY <5>1, <5>3 DEF Taken
        <5>5. QED
          BY <2>4, <4>1, <5>1, <5>4 DEF Live!Next, Live!Take
      <4>4. CASE ~(Exists("staged") /\ Valid(Text("staged")))
        <5>1. c \notin Applying'
          BY <3>6, <4>4 DEF ReadProposal, Applying, TypeOK
        <5>2. QED
          BY <2>2, <3>1, <4>1, <4>2, <5>1, TakenKept DEF Applying
      <4>5. QED
        BY <4>3, <4>4
    <3>7. ASSUME NEW c \in Clients, Fail(c) PROVE Live!Next
      <4>1. pc'[c] = "idle" /\ \A d \in Clients \ {c} : UNCHANGED <<pc[d], op[d], doc[d]>>
        BY <3>7 DEF Fail, TypeOK
      <4>2. CASE c \notin Applying
        <5>1. c \notin Applying'
          BY <4>1 DEF Applying
        <5>2. QED
          BY <2>2, <3>1, <4>1, <4>2, <5>1, TakenKept DEF Applying
      <4>3. CASE c \in Applying
        <5>1. fd[c] # NoFile => fd[c] # entry["staged"]
          BY <4>3 DEF Applying, SideInv, LiveSide, StagedSide, TypeOK, FileTypeOK
        <5>2. UNCHANGED Offered
          BY <3>7, <5>1 DEF Fail, CloseHalfWritten, Offered, Exists, Text, TypeOK, FileTypeOK
        <5>3. QED
          BY <2>3, <2>5, <3>1, <4>1, <4>3, <5>2
      <4>4. QED
        BY <4>2, <4>3
    <3>8. QED
      BY <3>2, <3>3, <3>4, <3>5, <3>6, <3>7 DEF Next
  <2>8. QED
    BY <2>6, <2>7
<1>3. QED
  BY <1>1, <1>2, TypeCorrect, SideInvariant, ApartWrites, WholeInvariant, ApplyInvariant, PTL
     DEF Spec, ImplementsLiveRuleset, Live!Spec

\* With one approver that is so.
THEOREM ImplementsLiveRulesetHolds ==
    ASSUME \A a, b \in Approvers : a = b
    PROVE  Spec => ImplementsLiveRuleset
BY OneApproverIsApart, ApartImplementsLiveRuleset, PTL

-----------------------------------------------------------------------------
\* What an approval knows that nobody acted beside: up to os.replace the staged
\* file is the one it read, after it the live document has the same rules.
Knows(c) ==
    /\ pc[c] \in {"base", "merge", "open", "write", "replace"} =>
        Exists("staged") /\ Whole(Text("staged")) /\ doc[c].rules = Text("staged").rules
    /\ pc[c] = "write" => fd[c] = tmp["live"] /\ content[fd[c]] = Empty
    /\ pc[c] = "replace" => tmp["live"] # NoFile /\ content[tmp["live"]] = doc[c]
    /\ pc[c] \in {"exists", "unlink"} =>
        /\ Exists("live") /\ Whole(Text("live"))
        /\ Exists("staged") /\ Whole(Text("staged"))
        /\ Text("live").rules = Text("staged").rules

KnowsInv == \A c \in undisturbed : op[c] = "approve" => Knows(c)

\* Only the client that acts stays undisturbed, so its own steps are what
\* KnowsInv has to survive.
LEMMA KnowsInvariant == Spec => []KnowsInv
<1> USE FileAssumption, ProposalAssumption DEF FileAssumption, ProposalAssumption
<1>1. Init => KnowsInv
  BY DEF Init, KnowsInv
<1>2. TypeOK /\ TypeOK' /\ HandInv /\ SideInv /\ KnowsInv /\ [Next]_vars => KnowsInv'
  <2> SUFFICES ASSUME TypeOK, TypeOK', HandInv, SideInv, KnowsInv, [Next]_vars,
                      NEW c \in undisturbed', op'[c] = "approve"
               PROVE  Knows(c)'
    BY DEF KnowsInv
  <2> USE DEF TypeOK, FileTypeOK, fileVars, Goto, Leave, Exists, Text, Whole
  <2>1. CASE UNCHANGED vars
    BY <2>1 DEF vars, callVars, KnowsInv, Knows
  <2>2. CASE \E r \in Rulesets : EditByHand(r)
    BY <2>2 DEF EditByHand
  <2>3. ASSUME NEW d \in Clients,
               (\E r \in Rulesets : Stage(d, r)) \/ Approve(d) \/ Discard(d)
        PROVE  Knows(c)'
    BY <2>3 DEF Stage, Approve, Discard, Call, Knows
  <2>4. ASSUME NEW d \in Clients,
               \/ LookForProposal(d) \/ ReadProposal(d) \/ LookForBase(d) \/ ReadBase(d)
               \/ Open(d) \/ Write(d) \/ Replace(d) \/ LookForDiscard(d)
               \/ UnlinkProposal(d) \/ Fail(d)
        PROVE  Knows(c)'
    <3>1. c = d /\ c \in Clients /\ c \in undisturbed /\ UNCHANGED op /\ op[c] = "approve"
      BY <2>4 DEF LookForProposal, ReadProposal, LookForBase, ReadBase, Open, Write, Replace,
                  LookForDiscard, UnlinkProposal, Fail
    <3>2. Knows(c) /\ Target(c) = "live"
      BY <3>1 DEF KnowsInv, Target
    <3>3. tmp["live"] # NoFile => tmp["live"] # entry["staged"]
      BY DEF SideInv, LiveSide, StagedSide
    <3>4. CASE LookForProposal(c) \/ LookForDiscard(c)
      BY <3>2, <3>4 DEF LookForProposal, LookForDiscard, Knows
    <3>5. CASE ReadProposal(c)
      BY <3>2, <3>5 DEF ReadProposal, Valid, Knows
    <3>6. CASE LookForBase(c)
      BY <3>2, <3>6 DEF LookForBase, Merge, NoDoc, Knows
    <3>7. CASE ReadBase(c)
      BY <3>2, <3>7 DEF ReadBase, Merge, Knows
    <3>8. CASE Open(c)
      <4>1. PICK i \in Inodes :
              /\ OpenInode(c, i)
              /\ i = tmp["live"] \/ i \in Free
              /\ tmp' = [tmp EXCEPT !["live"] = i]
        BY <3>2, <3>8, OpenedInode
      <4>2. i # entry["staged"]
        BY <3>3, <4>1 DEF Free
      <4>3. UNCHANGED <<entry, doc>> /\ pc' = [pc EXCEPT ![c] = "write"] /\ pc[c] = "open"
        BY <3>8 DEF Open, OpenTmp
      <4>4. QED
        BY <3>2, <4>1, <4>2, <4>3 DEF OpenInode, Knows
    <3>9. CASE Write(c)
      <4>1. /\ pc[c] = "write" /\ pc' = [pc EXCEPT ![c] = "replace"]
            /\ UNCHANGED <<entry, tmp, doc>>
            /\ content' = [content EXCEPT ![fd[c]] = doc[c]]
        BY <3>2, <3>9 DEF Write, WriteTmp, Overwritten, Knows
      <4>2. fd[c] = tmp["live"] /\ fd[c] # NoFile
        BY <3>2, <4>1 DEF HandInv, Knows
      <4>3. QED
        BY <3>2, <3>3, <4>1, <4>2 DEF Knows
    <3>10. CASE Replace(c)
      <4>1. /\ pc[c] = "replace" /\ pc' = [pc EXCEPT ![c] = "exists"]
            /\ entry' = [entry EXCEPT !["live"] = tmp["live"]]
            /\ UNCHANGED <<content, doc>>
        BY <3>1, <3>2, <3>10 DEF Replace, ReplaceByTmp, Knows
      <4>2. QED
        BY <3>2, <4>1 DEF Knows
    <3>11. CASE UnlinkProposal(c) \/ Fail(c)
      BY <3>11 DEF UnlinkProposal, Fail, Knows
    <3>12. QED
      BY <2>4, <3>1, <3>4, <3>5, <3>6, <3>7, <3>8, <3>9, <3>10, <3>11
  <2>5. QED
    BY <2>1, <2>2, <2>3, <2>4 DEF Next
<1>3. QED
  BY <1>1, <1>2, TypeCorrect, SideInvariant, PTL DEF Spec

\* For any number of approvers: an approval that nobody acted beside removes a
\* proposal only once the live document has its rules.
THEOREM ApprovedBeforeGoneHolds == Spec => ApprovedBeforeGone
<1> USE FileAssumption, ProposalAssumption DEF FileAssumption, ProposalAssumption
<1> DEFINE Gone(c) == op[c] = "approve" /\ Exists("staged") /\ ~Exists("staged")'
           Made == /\ Exists("live")'
                   /\ \E r \in Rulesets, s, t \in Sources :
                        /\ Text("staged") = [source |-> s, rules |-> r]
                        /\ Text("live")' = [source |-> t, rules |-> r]
<1>1. ASSUME TypeOK, HandInv, SideInv, KnowsInv, [Next]_vars, NEW c \in undisturbed', Gone(c)
      PROVE  Made
  <2> USE DEF TypeOK, FileTypeOK, Exists, Text
  <2>1. PICK d \in Clients : UnlinkProposal(d)
    <3>1. entry["staged"] # NoFile /\ entry'["staged"] = NoFile
      BY <1>1
    <3>2. ASSUME NEW d \in Clients, Replace(d) PROVE FALSE
      BY <1>1, <3>1, <3>2 DEF Replace, ReplaceByTmp, Target, fileVars
    <3>3. ASSUME NEW d \in Clients, Open(d) PROVE FALSE
      BY <3>1, <3>3 DEF Open, OpenTmp, Free
    <3>4. QED
      BY <1>1, <3>1, <3>2, <3>3
         DEF Next, Stage, Approve, Discard, Call, LookForProposal, ReadProposal, LookForBase,
             ReadBase, Write, WriteTmp, LookForDiscard, Fail, CloseHalfWritten, EditByHand,
             vars, fileVars
  <2>2. c = d /\ c \in undisturbed /\ pc[c] = "unlink" /\ UNCHANGED content
    BY <1>1, <2>1 DEF UnlinkProposal, Unlink, Leave, Goto, fileVars
  <2>3. entry'["live"] = entry["live"]
    <3>1. entry' = [entry EXCEPT !["staged"] = NoFile] \/ entry' = entry
      BY <2>1 DEF UnlinkProposal, Unlink, fileVars
    <3>2. QED
      BY <1>1, <3>1
  <2>4. /\ Exists("live") /\ Text("live") \in Docs /\ Text("staged") \in Docs
        /\ Text("live").rules = Text("staged").rules
    BY <1>1, <2>2 DEF KnowsInv, Knows, Whole
  <2>5. Text("live")' = Text("live") /\ Exists("live")'
    BY <2>2, <2>3, <2>4
  <2>6. QED
    BY <2>4, <2>5
<1>2. TypeOK /\ HandInv /\ SideInv /\ KnowsInv /\ [Next]_vars
      => \A c \in undisturbed' : Gone(c) => Made
  BY <1>1
<1>3. TypeOK /\ HandInv /\ SideInv /\ KnowsInv /\ [Next]_vars
      => [\A c \in undisturbed' : Gone(c) => Made]_vars
  BY <1>2
<1>4. QED
  BY <1>3, TypeCorrect, SideInvariant, KnowsInvariant, PTL DEF Spec, ApprovedBeforeGone
=============================================================================
