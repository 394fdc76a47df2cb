-------------------------- MODULE AuthoringProofs --------------------------
(***************************************************************************)
(* Proofs about authoring, for any authors, proposals, turns and loads.    *)
(***************************************************************************)
EXTENDS Authoring, TLAPS

\* Where an author has a call in hand.
InCall == {"dispatch", "source", "validate", "look"} \cup WriteSteps

\* A call in hand is still to be answered, a session asks the model only while
\* it has turns left, and only a proposal that passed, or the
\* template, is written.
ControlInv ==
    \A a \in Authors :
        /\ pc[a] \in InCall => pending[a] > 0
        /\ pc[a] \in {"idle", "chat"} => turns[a] < MaxSteps
        /\ pc[a] \in {"look"} \cup WriteSteps => proposal[a] \in Valid \cup {Template}

\* What the end of a call leaves of the types and counts.
LEMMA AnswerKeepsControl ==
    ASSUME TypeOK, ControlInv, NEW a \in Authors, pc[a] \in InCall,
           NEW r \in Replies,
           Answer(a, r), UNCHANGED turns,
           \A b \in Authors \ {a} : proposal'[b] = proposal[b]
    PROVE  /\ pc' \in [Authors -> Places]
           /\ pending' \in [Authors -> 0..MaxToolCalls]
           /\ reply' \in [Authors -> Replies]
           /\ ControlInv'
<1> USE AuthoringAssumption DEF AuthoringAssumption, TypeOK, ControlInv, Answer, Goto, InCall,
      WriteSteps, Places
<1>1. pending[a] - 1 \in 0..MaxToolCalls
  OBVIOUS
<1>2. pc' = [pc EXCEPT ![a] = pc'[a]] /\ pc'[a] \in {"dispatch", "ended", "chat"}
  OBVIOUS
<1>3. pc'[a] = "dispatch" => pending'[a] > 0
  OBVIOUS
<1>4. pc'[a] = "chat" => turns'[a] < MaxSteps
  OBVIOUS
<1>5. ControlInv'
  BY <1>1, <1>2, <1>3, <1>4
<1>6. QED
  BY <1>1, <1>2, <1>5

\* The same for a call that raises.
LEMMA FailureKeepsControl ==
    ASSUME TypeOK, ControlInv, NEW a \in Authors, pc[a] \in InCall, Fails(a), UNCHANGED turns,
           \A b \in Authors \ {a} : proposal'[b] = proposal[b]
    PROVE  /\ pc' \in [Authors -> Places]
           /\ pending' \in [Authors -> 0..MaxToolCalls]
           /\ reply' \in [Authors -> Replies]
           /\ ControlInv'
<1>1. CASE a \in Callers
  BY <1>1 DEF Fails, Goto, TypeOK, ControlInv, InCall, WriteSteps, Places, Replies
<1>2. CASE a \notin Callers
  BY <1>2, AnswerKeepsControl DEF Fails, Replies
<1>3. QED
  BY <1>1, <1>2

\* Every variable keeps its type, and every author has a call to answer, a turn
\* left or a validated proposal where it needs one (harness.py:128-169).
THEOREM TypeCorrect == Spec => [](TypeOK /\ ControlInv)
<1> USE AuthoringAssumption DEF AuthoringAssumption
<1>1. Init => TypeOK /\ ControlInv
  <2> SUFFICES ASSUME Init PROVE TypeOK /\ ControlInv
    OBVIOUS
  <2>1. DirTypeOK
    <3>1. CASE DirInit({})
      BY <3>1 DEF DirInit, DirTypeOK, Entries, Files, Held
    <3>2. ASSUME NEW p \in Valid, DirInit({p}) PROVE DirTypeOK
      <4>1. (CHOOSE q \in {p} : TRUE) = p
        OBVIOUS
      <4>2. QED
        BY <3>2, <4>1 DEF DirInit, DirTypeOK, Entries, Files, Held
    <3>3. QED
      BY <3>1, <3>2 DEF Init
  <2>2. QED
    <3>1. TypeOK
      <4>1. registry \in [manifest : {"none", Torn} \cup Proposals,
                          pipeline : {"none", Torn} \cup Proposals]
        BY DEF Init, NoBot
      <4>2. /\ turns \in [Authors -> 0..MaxSteps] /\ pending \in [Authors -> 0..MaxToolCalls]
            /\ loads \in 0..MaxLoads
        BY DEF Init
      <4>3. QED
        BY <2>1, <4>1, <4>2 DEF Init, TypeOK, Places, Replies, Files
    <3>2. ControlInv
      <4>1. \A a \in Authors : pc[a] = "idle" /\ turns[a] < MaxSteps
        <5>1. turns = [a \in Authors |-> 0] /\ pc = [a \in Authors |-> "idle"]
          BY DEF Init
        <5>2. 0 < MaxSteps
          OBVIOUS
        <5>3. QED
          BY <5>1, <5>2
      <4>2. QED
        BY <4>1 DEF ControlInv, InCall, WriteSteps
    <3>3. QED
      BY <3>1, <3>2
<1>2. TypeOK /\ ControlInv /\ [Next]_vars => TypeOK' /\ ControlInv'
  <2> SUFFICES ASSUME TypeOK, ControlInv, [Next]_vars PROVE TypeOK' /\ ControlInv'
    OBVIOUS
  <2> USE DEF InCall, WriteSteps, Places, Replies
  <2>1. ASSUME UNCHANGED dirVars PROVE DirTypeOK'
    BY <2>1 DEF TypeOK, DirTypeOK, dirVars
  <2>2. ASSUME NEW a \in Authors, Begin(a) PROVE TypeOK' /\ ControlInv'
    <3>1. CASE a \in Callers
      BY <2>1, <2>2, <3>1 DEF Begin, Goto, Looks, TypeOK, ControlInv, loadVars
    <3>2. CASE a \notin Callers
      BY <2>1, <2>2, <3>2 DEF Begin, Goto, Looks, TypeOK, ControlInv, loadVars
    <3>3. QED
      BY <3>1, <3>2
  <2>3. ASSUME NEW a \in Authors, Chat(a) PROVE TypeOK' /\ ControlInv'
    <3>1. TypeOK'
      <4>1. CASE Goto(a, "ended")
        BY <2>1, <2>3, <4>1 DEF Chat, Goto, Looks, TypeOK, loadVars
      <4>2. ASSUME NEW n \in 1..MaxToolCalls,
                   pending' = [pending EXCEPT ![a] = n], turns' = [turns EXCEPT ![a] = @ + 1],
                   Goto(a, "dispatch"), UNCHANGED reply
            PROVE  TypeOK'
        <5>1. turns[a] + 1 \in 0..MaxSteps /\ n \in 0..MaxToolCalls
          BY <2>3 DEF Chat, TypeOK, ControlInv
        <5>2. QED
          BY <2>1, <2>3, <4>2, <5>1 DEF Chat, Goto, Looks, TypeOK, loadVars
      <4>3. QED
        BY <2>3, <4>1, <4>2 DEF Chat
    <3>2. ControlInv'
      BY <2>3 DEF Chat, Goto, TypeOK, ControlInv
    <3>3. QED
      BY <3>1, <3>2
  <2>4. ASSUME NEW a \in Authors, SourceAnswers(a) \/ UnknownTool(a) PROVE TypeOK' /\ ControlInv'
    <3>1. Answer(a, reply[a]) /\ reply[a] \in Replies
      BY <2>4 DEF SourceAnswers, UnknownTool, TypeOK
    <3>2. QED
      BY <2>1, <2>4, <3>1, AnswerKeepsControl DEF SourceAnswers, UnknownTool, Looks, TypeOK, loadVars
  <2>4a. ASSUME NEW a \in Authors, CallSource(a) \/ MalformedCall(a) PROVE TypeOK' /\ ControlInv'
    <3>1. TypeOK'
      BY <2>1, <2>4a DEF CallSource, MalformedCall, Goto, Looks, TypeOK, loadVars
    <3>2. ControlInv'
      BY <2>4a DEF CallSource, MalformedCall, Goto, TypeOK, ControlInv
    <3>3. QED
      BY <3>1, <3>2
  <2>5. ASSUME NEW a \in Authors, NEW p \in Proposals \ {Template}, Propose(a, p) PROVE TypeOK' /\ ControlInv'
    <3>1. /\ pc' \in [Authors -> Places]
          /\ pending' \in [Authors -> 0..MaxToolCalls]
          /\ reply' \in [Authors -> Replies]
          /\ worker' \in [Authors -> {"none", "running", "done"}]
          /\ ControlInv'
      <4>1. CASE Answer(a, "invalid") /\ UNCHANGED worker
        BY <2>5, <4>1, AnswerKeepsControl DEF Propose, TypeOK
      <4>2. CASE StartValidation(a)
        BY <2>5, <4>2 DEF Propose, StartValidation, Goto, TypeOK, ControlInv
      <4>3. QED
        BY <2>5, <4>1, <4>2 DEF Propose
    <3>2. QED
      BY <2>1, <2>5, <3>1 DEF Propose, Looks, TypeOK, loadVars
  <2>6. ASSUME NEW a \in Authors, WorkerEnds(a) PROVE TypeOK' /\ ControlInv'
    <3>1. TypeOK'
      BY <2>1, <2>6 DEF WorkerEnds, Looks, TypeOK, loadVars
    <3>2. ControlInv'
      BY <2>6 DEF WorkerEnds, ControlInv
    <3>3. QED
      BY <3>1, <3>2
  <2>7. ASSUME NEW a \in Authors, Joined(a) PROVE TypeOK' /\ ControlInv'
    <3>1. CASE Answer(a, "invalid")
      BY <2>1, <2>7, <3>1, AnswerKeepsControl DEF Joined, Looks, TypeOK, loadVars
    <3>2. CASE proposal[a] \in Valid /\ Goto(a, "look") /\ UNCHANGED <<reply, pending>>
      <4>1. TypeOK'
        BY <2>1, <2>7, <3>2 DEF Joined, Goto, Looks, TypeOK, loadVars
      <4>2. ControlInv'
        BY <2>7, <3>2 DEF Joined, Goto, TypeOK, ControlInv
      <4>3. QED
        BY <4>1, <4>2
    <3>3. QED
      BY <2>7, <3>1, <3>2 DEF Joined
  <2>8. ASSUME NEW a \in Authors, TimesOut(a) PROVE TypeOK' /\ ControlInv'
    BY <2>1, <2>8, AnswerKeepsControl DEF TimesOut, Looks, TypeOK, loadVars
  <2>9. ASSUME NEW a \in Authors, LookForDir(a) PROVE TypeOK' /\ ControlInv'
    <3>1. TypeOK'
      BY <2>1, <2>9 DEF LookForDir, EntersWriting, Goto, TypeOK, loadVars, Files
    <3>2. ControlInv'
      BY <2>9 DEF LookForDir, Goto, TypeOK, ControlInv
    <3>3. QED
      BY <3>1, <3>2
  <2>9a. ASSUME NEW a \in Authors, Create(a) PROVE TypeOK' /\ ControlInv'
    <3>1. proposal' \in [Authors -> Proposals \cup {"none"}] /\ alone' \subseteq Authors
      BY <2>9a DEF Create, TypeOK
    <3>2. CASE Fails(a) /\ UNCHANGED <<file, overlapped>>
      BY <2>1, <2>9a, <3>1, <3>2, FailureKeepsControl DEF Create, TypeOK, loadVars
    <3>3. CASE EntersWriting(a) /\ Goto(a, "mkdir") /\ UNCHANGED <<reply, pending>>
      <4>1. TypeOK'
        BY <2>1, <2>9a, <3>1, <3>3 DEF Create, EntersWriting, Goto, TypeOK, loadVars, Files
      <4>2. ControlInv'
        BY <2>9a, <3>3 DEF Create, Goto, TypeOK, ControlInv
      <4>3. QED
        BY <4>1, <4>2
    <3>4. QED
      BY <2>9a, <3>2, <3>3 DEF Create
  <2>10. ASSUME NEW a \in Authors, pc[a] \in WriteSteps, Raises(a), Writes(a)
         PROVE  TypeOK' /\ ControlInv'
    BY <2>1, <2>10, FailureKeepsControl DEF Raises, Writes, TypeOK
  <2>11. ASSUME NEW a \in Authors, List(a) PROVE TypeOK' /\ ControlInv'
    <3>1. Present \subseteq Entries
      BY DEF Present
    <3>2. CASE Raises(a)
      BY <2>10, <2>11, <3>2 DEF List
    <3>3. CASE ~Raises(a)
      <4>1. /\ pc[a] = "list" /\ Goto(a, "remove") /\ UNCHANGED <<dirVars, pending, reply, file>>
            /\ toRemove' = [toRemove EXCEPT ![a] = Present]
        BY <2>11, <3>3 DEF List
      <4>2. TypeOK'
        BY <2>1, <2>11, <3>1, <4>1 DEF List, Goto, Writes, TypeOK
      <4>3. ControlInv'
        BY <2>11, <4>1 DEF List, Goto, Writes, TypeOK, ControlInv
      <4>4. QED
        BY <4>2, <4>3
    <3>4. QED
      BY <3>2, <3>3
  <2>12. ASSUME NEW a \in Authors, NEW e \in Entries, RemoveEntry(a, e) PROVE TypeOK' /\ ControlInv'
    <3>1. CASE Raises(a)
      BY <2>10, <2>12, <3>1 DEF RemoveEntry
    <3>2. CASE ~Raises(a)
      <4>1. DirTypeOK'
        <5>1. Drop(e)
          BY <2>12, <3>2 DEF RemoveEntry
        <5>2. /\ disk' \in [Entries -> Held] /\ made' \in BOOLEAN
              /\ \A f \in Files : disk'[f] # "made"
          BY <5>1 DEF Drop, TypeOK, DirTypeOK, Held, Entries
        <5>3. openBy' \in [Files -> SUBSET Authors]
          BY <5>1 DEF Drop, TypeOK, DirTypeOK
        <5>4. QED
          BY <5>2, <5>3 DEF DirTypeOK
      <4>2. UNCHANGED <<pc, pending, reply, file>> /\ toRemove' = [toRemove EXCEPT ![a] = @ \ {e}]
        BY <2>12, <3>2 DEF RemoveEntry
      <4>3. TypeOK'
        BY <2>12, <4>1, <4>2 DEF RemoveEntry, Writes, TypeOK
      <4>4. ControlInv'
        BY <2>12, <4>2 DEF RemoveEntry, Writes, ControlInv
      <4>5. QED
        BY <4>3, <4>4
    <3>3. QED
      BY <3>1, <3>2
  <2>13. ASSUME NEW a \in Authors, RemoveDir(a) PROVE TypeOK' /\ ControlInv'
    <3>1. CASE Raises(a)
      BY <2>10, <2>13, <3>1 DEF RemoveDir
    <3>2. CASE ~Raises(a)
      <4>1. DirTypeOK'
        BY <2>13, <3>2 DEF RemoveDir, DropDir, TypeOK, DirTypeOK
      <4>2. QED
        <5>1. Goto(a, "mkdir") /\ UNCHANGED <<pending, reply, file, toRemove>>
          BY <2>13, <3>2 DEF RemoveDir
        <5>2. TypeOK'
          BY <2>13, <4>1, <5>1 DEF RemoveDir, Goto, Writes, TypeOK
        <5>3. ControlInv'
          BY <2>13, <5>1 DEF RemoveDir, Goto, Writes, TypeOK, ControlInv
        <5>4. QED
          BY <5>2, <5>3
    <3>3. QED
      BY <3>1, <3>2
  <2>14. ASSUME NEW a \in Authors, Mkdir(a) PROVE TypeOK' /\ ControlInv'
    <3>1. DirTypeOK'
      BY <2>14 DEF Mkdir, MakeDir, TypeOK, DirTypeOK
    <3>2. QED
      <4>1. TypeOK'
        BY <2>14, <3>1 DEF Mkdir, Goto, Writes, TypeOK
      <4>2. ControlInv'
        BY <2>14 DEF Mkdir, Goto, Writes, TypeOK, ControlInv
      <4>3. QED
        BY <4>1, <4>2
  <2>15. ASSUME NEW a \in Authors, MkTests(a) PROVE TypeOK' /\ ControlInv'
    <3>1. CASE Raises(a)
      BY <2>10, <2>15, <3>1 DEF MkTests
    <3>2. CASE ~Raises(a)
      <4>1. DirTypeOK'
        BY <2>15, <3>2 DEF MkTests, MakeTests, TypeOK, DirTypeOK, Entries, Files, Held
      <4>2. QED
        <5>1. Goto(a, "open") /\ UNCHANGED <<pending, reply, file, toRemove>>
          BY <2>15, <3>2 DEF MkTests
        <5>2. TypeOK'
          BY <2>15, <4>1, <5>1 DEF MkTests, Goto, Writes, TypeOK
        <5>3. ControlInv'
          BY <2>15, <5>1 DEF MkTests, Goto, Writes, TypeOK, ControlInv
        <5>4. QED
          BY <5>2, <5>3
    <3>3. QED
      BY <3>1, <3>2
  <2>16. ASSUME NEW a \in Authors, Open(a) PROVE TypeOK' /\ ControlInv'
    <3>1. CASE Raises(a)
      BY <2>10, <2>16, <3>1 DEF Open
    <3>2. CASE ~Raises(a)
      <4>1. DirTypeOK'
        BY <2>16, <3>2 DEF Open, OpenFile, TypeOK, DirTypeOK, Entries, Files, Held
      <4>2. QED
        <5>1. Goto(a, "fill") /\ UNCHANGED <<pending, reply, file, toRemove>>
          BY <2>16, <3>2 DEF Open
        <5>2. TypeOK'
          BY <2>16, <4>1, <5>1 DEF Open, Goto, Writes, TypeOK
        <5>3. ControlInv'
          BY <2>16, <5>1 DEF Open, Goto, Writes, TypeOK, ControlInv
        <5>4. QED
          BY <5>2, <5>3
    <3>3. QED
      BY <3>1, <3>2
  <2>17. ASSUME NEW a \in Authors, Fill(a) PROVE TypeOK' /\ ControlInv'
    <3>1. file[a] \in Files /\ After(file[a]) \subseteq Files
      BY DEF TypeOK, After, Files
    <3>2. DirTypeOK'
      <4>1. FillFile(a, file[a], proposal[a]) /\ proposal[a] \in Proposals
        BY <2>17 DEF Fill, ControlInv
      <4>2. Files \subseteq Entries /\ proposal[a] # "made" /\ Torn \in Held /\ Proposals \subseteq Held
        BY <4>1 DEF Entries, Held
      <4>3. disk' = disk \/ \E text \in {proposal[a], Torn} : disk' = [disk EXCEPT ![file[a]] = text]
        BY <4>1 DEF FillFile
      <4>4. Torn # "made" => disk' \in [Entries -> Held] /\ \A f \in Files : disk'[f] # "made"
        BY <3>1, <4>1, <4>2, <4>3 DEF TypeOK, DirTypeOK
      <4>5. openBy' \in [Files -> SUBSET Authors] /\ made' \in BOOLEAN
        BY <3>1, <4>1 DEF FillFile, TypeOK, DirTypeOK
      <4>6. QED
        BY <4>4, <4>5 DEF DirTypeOK
    <3>3. CASE Answer(a, "valid") /\ UNCHANGED file
      BY <2>17, <3>2, <3>3, AnswerKeepsControl DEF Fill, Writes, TypeOK
    <3>4. CASE \E f \in After(file[a]) :
                 /\ file' = [file EXCEPT ![a] = f]
                 /\ Goto(a, "open")
                 /\ UNCHANGED <<pending, reply>>
      <4>1. TypeOK'
        <5>1. PICK f \in Files : file' = [file EXCEPT ![a] = f]
          BY <3>1, <3>4
        <5>2. Goto(a, "open") /\ UNCHANGED <<pending, reply>>
          BY <3>4
        <5>3. QED
          BY <2>17, <3>2, <5>1, <5>2 DEF Fill, Goto, Writes, TypeOK
      <4>2. ControlInv'
        BY <2>17, <3>4 DEF Fill, Goto, Writes, TypeOK, ControlInv
      <4>3. QED
        BY <4>1, <4>2
    <3>5. QED
      BY <2>17, <3>3, <3>4 DEF Fill
  <2>18. ASSUME NEW a \in Authors, Die(a) PROVE TypeOK' /\ ControlInv'
    <3>1. DirTypeOK'
      BY <2>18 DEF Die, CloseAll, TypeOK, DirTypeOK
    <3>2. QED
      <4>1. TypeOK'
        BY <2>18, <3>1 DEF Die, Goto, TypeOK, loadVars, Files
      <4>2. ControlInv'
        BY <2>18 DEF Die, Goto, TypeOK, ControlInv
      <4>3. QED
        BY <4>1, <4>2
  <2>19. ASSUME UNCHANGED authorVars PROVE ControlInv'
    BY <2>19 DEF ControlInv, authorVars
  <2>20. ASSUME NEW found \in [manifest : {"none", Torn} \cup Proposals,
                               pipeline : {"none", Torn} \cup Proposals],
                LoadEnds(found), DirTypeOK'
         PROVE  TypeOK' /\ ControlInv'
    BY <2>19, <2>20 DEF LoadEnds, TypeOK, authorVars
  <2>21. NoBot \in [manifest : {"none", Torn} \cup Proposals, pipeline : {"none", Torn} \cup Proposals]
    BY DEF NoBot
  <2>22. CASE Load
    BY <2>1, <2>19, <2>22 DEF Load, TypeOK, authorVars
  <2>23. CASE LookForManifest
    <3>1. CASE LoadEnds(NoBot) /\ UNCHANGED dirVars
      BY <2>1, <2>20, <2>21, <3>1
    <3>2. CASE reading' = "manifest" /\ UNCHANGED <<dirVars, authorVars, got, steady, registry, loads>>
      BY <2>1, <2>19, <3>2 DEF TypeOK, authorVars
    <3>3. QED
      BY <2>23, <3>1, <3>2 DEF LookForManifest
  <2>24. CASE ReadManifest
    <3>1. CASE Skips /\ UNCHANGED dirVars
      BY <2>1, <2>20, <2>21, <3>1 DEF Skips
    <3>2. CASE ~(Skips /\ UNCHANGED dirVars)
      <4>1. disk["manifest"] \in {Torn} \cup Proposals
        BY <2>24, <3>2 DEF ReadManifest, TypeOK, DirTypeOK, Held, Files, Entries
      <4>2. QED
        BY <2>1, <2>19, <2>24, <3>2, <4>1 DEF ReadManifest, TypeOK, authorVars
    <3>3. QED
      BY <3>1, <3>2
  <2>25. CASE LoadPipeline
    <3>1. CASE Skips /\ UNCHANGED dirVars
      BY <2>1, <2>20, <2>21, <3>1 DEF Skips
    <3>2. CASE WriteCache
      <4>1. DirTypeOK'
        BY <3>2 DEF WriteCache, TypeOK, DirTypeOK, Entries, Files, Held
      <4>2. CASE Skips
        BY <2>20, <2>21, <4>1, <4>2 DEF Skips
      <4>3. CASE ~Skips
        <5>1. /\ disk["pipeline"] \notin {"absent", "empty"}
              /\ LoadEnds([manifest |-> got, pipeline |-> disk["pipeline"]])
          BY <2>25, <4>3 DEF LoadPipeline
        <5>2. disk["pipeline"] \in {Torn} \cup Proposals
          BY <5>1 DEF TypeOK, DirTypeOK, Held, Files, Entries
        <5>3. QED
          BY <2>20, <4>1, <5>1, <5>2 DEF TypeOK
      <4>4. QED
        BY <4>2, <4>3
    <3>3. QED
      BY <2>25, <3>1, <3>2 DEF LoadPipeline
  <2>25a. CASE LoadAborts
    <3>1. DirTypeOK'
      BY <2>1, <2>25a DEF LoadAborts, WriteCache, TypeOK, DirTypeOK, Entries, Files, Held
    <3>2. QED
      BY <2>19, <2>25a, <3>1 DEF LoadAborts, TypeOK, authorVars
  <2>26. CASE UNCHANGED vars
    BY <2>1, <2>19, <2>26 DEF vars, TypeOK, authorVars, loadVars
  <2>27. QED
    BY <2>2, <2>3, <2>4, <2>5, <2>6, <2>7, <2>8, <2>9, <2>11, <2>12, <2>13, <2>14, <2>15, <2>16,
       <2>17, <2>18, <2>22, <2>23, <2>24, <2>25, <2>26, <2>4a, <2>9a, <2>25a DEF Next, Author, Server
<1>3. QED
  BY <1>1, <1>2, PTL DEF Spec

\* Nothing but validated proposals in the files, in the manifest a load has read
\* and in the registry.
Clean(p) == p \in Proposals => p \in Valid \cup {Template}

ValidInv ==
    /\ \A f \in Files : Clean(disk[f])
    /\ Clean(got) /\ Clean(registry.manifest) /\ Clean(registry.pipeline)

LEMMA WriteKeepsClean ==
    ASSUME TypeOK, ControlInv, ValidInv, NEW a \in Authors, Fill(a)
    PROVE  \A f \in Files : Clean(disk'[f])
<1>1. FillFile(a, file[a], proposal[a]) /\ Clean(proposal[a])
  BY DEF Fill, ControlInv, WriteSteps, Clean
<1>2. disk' = disk \/ \E text \in {proposal[a], Torn} : disk' = [disk EXCEPT ![file[a]] = text]
  BY <1>1 DEF FillFile
<1>3. Clean(Torn)
  BY AuthoringAssumption DEF AuthoringAssumption, Clean
<1>4. QED
  BY <1>1, <1>2, <1>3 DEF ValidInv, TypeOK, DirTypeOK, Files, Entries

\* The directory only ever takes a text from a write.
LEMMA DirKeepsClean ==
    ASSUME TypeOK, ValidInv,
           \/ UNCHANGED dirVars
           \/ \E e \in Entries : Drop(e)
           \/ DropDir \/ MakeDir \/ MakeTests \/ WriteCache
           \/ \E a \in Authors : CloseAll(a)
           \/ \E a \in Authors, f \in Files : OpenFile(a, f)
    PROVE  \A f \in Files : Clean(disk'[f])
<1> USE AuthoringAssumption DEF AuthoringAssumption
<1>1. /\ "absent" \notin Proposals /\ "empty" \notin Proposals
      /\ Files \subseteq Entries /\ {"tests", "pycache"} \cap Files = {}
  BY DEF Files, Entries
<1>2. \/ disk' = disk
      \/ \E e \in Entries : disk' = [disk EXCEPT ![e] = "absent"]
      \/ \E f \in Files : disk' = [disk EXCEPT ![f] = "empty"]
      \/ \E e \in {"tests", "pycache"} : disk' = [disk EXCEPT ![e] = "made"]
  BY DEF dirVars, Drop, DropDir, MakeDir, MakeTests, WriteCache, CloseAll, OpenFile
<1>3. QED
  BY <1>1, <1>2 DEF ValidInv, Clean, TypeOK, DirTypeOK

\* Whoever writes and however it ends, what is of a proposal is of one that passed
\* validation in time, or of the template (register.py:241-245).
LEMMA CleanInvariant == Spec => []ValidInv
<1> USE AuthoringAssumption DEF AuthoringAssumption
<1>1. Init => ValidInv
  <2> SUFFICES ASSUME Init PROVE ValidInv
    OBVIOUS
  <2>1. Clean("none") /\ Clean("absent") /\ \A p \in Valid : Clean(p)
    BY DEF Clean
  <2>2. \A f \in Files : Clean(disk[f])
    <3>1. Files \subseteq Entries /\ {"tests", "pycache"} \cap Files = {}
      BY DEF Files, Entries
    <3>2. CASE DirInit({})
      BY <2>1, <3>1, <3>2 DEF DirInit
    <3>3. ASSUME NEW p \in Valid, DirInit({p}) PROVE \A f \in Files : Clean(disk[f])
      <4>1. (CHOOSE q \in {p} : TRUE) = p
        OBVIOUS
      <4>2. QED
        BY <2>1, <3>1, <3>3, <4>1 DEF DirInit
    <3>4. QED
      BY <3>2, <3>3 DEF Init
  <2>3. QED
    BY <2>1, <2>2 DEF Init, NoBot, ValidInv
<1>2. TypeOK /\ ControlInv /\ ValidInv /\ [Next]_vars => ValidInv'
  <2> SUFFICES ASSUME TypeOK, ControlInv, ValidInv, [Next]_vars PROVE ValidInv'
    OBVIOUS
  <2>1. ASSUME UNCHANGED <<got, registry>>, \A f \in Files : Clean(disk'[f]) PROVE ValidInv'
    BY <2>1 DEF ValidInv, Clean
  <2>2. ASSUME UNCHANGED dirVars PROVE \A f \in Files : Clean(disk'[f])
    BY <2>2, DirKeepsClean
  <2>3. CASE Looks
    BY <2>1, <2>2, <2>3 DEF Looks, loadVars
  <2>4. ASSUME NEW a \in Authors,
               \/ Begin(a) \/ Chat(a) \/ CallSource(a) \/ SourceAnswers(a) \/ UnknownTool(a)
               \/ MalformedCall(a) \/ Joined(a) \/ TimesOut(a) \/ WorkerEnds(a)
               \/ \E p \in Proposals \ {Template} : Propose(a, p)
        PROVE  Looks
    BY <2>4 DEF Begin, Chat, CallSource, SourceAnswers, UnknownTool, MalformedCall, Joined, TimesOut,
                WorkerEnds, Propose
  <2>5. ASSUME NEW a \in Authors,
               \/ LookForDir(a) \/ List(a) \/ RemoveDir(a) \/ Mkdir(a) \/ MkTests(a) \/ Open(a)
               \/ Die(a) \/ Create(a) \/ \E e \in Entries : RemoveEntry(a, e)
        PROVE  ValidInv'
    <3>1. UNCHANGED <<got, registry>>
      BY <2>5 DEF LookForDir, List, RemoveDir, Mkdir, MkTests, Open, Die, Create,
                  RemoveEntry, Writes,
                  loadVars
    <3>2. file[a] \in Files
      BY DEF TypeOK
    <3>3. \/ UNCHANGED dirVars \/ \E e \in Entries : Drop(e)
          \/ DropDir \/ MakeDir \/ MakeTests \/ CloseAll(a) \/ OpenFile(a, file[a])
      BY <2>5 DEF LookForDir, List, RemoveDir, Mkdir, MkTests, Open, Die, Create, RemoveEntry,
                  Raises
    <3>4. QED
      BY <2>1, <3>1, <3>2, <3>3, DirKeepsClean
  <2>6. ASSUME NEW a \in Authors, Fill(a) PROVE ValidInv'
    BY <2>1, <2>6, WriteKeepsClean DEF Fill, Writes
  <2>7. ASSUME NEW found, LoadEnds(found),
               Clean(found.manifest), Clean(found.pipeline), \A f \in Files : Clean(disk'[f])
        PROVE  ValidInv'
    <3>1. Clean("none")
      BY DEF Clean
    <3>2. QED
      BY <2>7, <3>1 DEF LoadEnds, ValidInv, Clean
  <2>8. Clean(NoBot.manifest) /\ Clean(NoBot.pipeline)
    BY DEF NoBot, Clean
  <2>9. CASE Load
    BY <2>1, <2>2, <2>9 DEF Load
  <2>10. CASE LookForManifest
    BY <2>1, <2>2, <2>7, <2>8, <2>10 DEF LookForManifest
  <2>11. CASE ReadManifest
    <3>1. CASE Skips /\ UNCHANGED dirVars
      BY <2>2, <2>7, <2>8, <3>1 DEF Skips
    <3>2. CASE got' = disk["manifest"] /\ UNCHANGED <<dirVars, registry>>
      BY <2>2, <3>2 DEF ValidInv, Clean, Files
    <3>3. QED
      BY <2>11, <3>1, <3>2 DEF ReadManifest
  <2>12. CASE LoadPipeline
    <3>1. \A f \in Files : Clean(disk'[f])
      BY <2>12, DirKeepsClean DEF LoadPipeline
    <3>2. CASE Skips
      BY <2>7, <2>8, <3>1, <3>2 DEF Skips
    <3>3. CASE LoadEnds([manifest |-> got, pipeline |-> disk["pipeline"]])
      <4>1. Clean(got) /\ Clean(disk["pipeline"])
        BY DEF ValidInv, Files
      <4>2. QED
        BY <2>7, <3>1, <3>3, <4>1
    <3>4. QED
      BY <2>12, <3>2, <3>3 DEF LoadPipeline
  <2>12a. CASE LoadAborts
    <3>1. \A f \in Files : Clean(disk'[f])
      BY <2>12a, DirKeepsClean DEF LoadAborts
    <3>2. UNCHANGED registry /\ Clean(got')
      BY <2>12a DEF LoadAborts, Clean
    <3>3. QED
      BY <3>1, <3>2 DEF ValidInv, Clean
  <2>13. CASE UNCHANGED vars
    BY <2>1, <2>2, <2>13 DEF vars, loadVars
  <2>14. QED
    BY <2>3, <2>4, <2>5, <2>6, <2>9, <2>10, <2>11, <2>12, <2>12a, <2>13 DEF Next, Author, Server
<1>3. QED
  BY <1>1, <1>2, TypeCorrect, PTL DEF Spec

-----------------------------------------------------------------------------
\* The files an author leaves and a load finds. The inductive invariant follows
\* _write_bot: an author nobody disturbed knows which files it has written and
\* that the others are absent, because it started on an empty directory.

\* A directory that is not there has no entries, a file that is open is there.
DirInv ==
    /\ made \/ \A e \in Entries : disk[e] = "absent"
    /\ \A f \in Files : openBy[f] # {} => disk[f] # "absent"

\* Who was told "valid" is between calls; a caller makes one call.
ReplyOf(a) ==
    /\ reply[a] = "valid" => pc[a] \in {"dispatch", "source", "chat", "ended"}
    /\ a \in Callers =>
        /\ pending[a] <= 1
        /\ pc[a] # "chat"
        /\ reply[a] = "valid" => pc[a] = "ended"

ReplyInv == \A a \in Authors : ReplyOf(a)

OneWriter ==
    ~overlapped =>
        \A a, b \in Authors : pc[a] \in WriteSteps /\ pc[b] \in WriteSteps => a = b

\* The files written before f.
Before(f) == CASE f = "manifest" -> {}
               [] f = "pipeline" -> {"manifest"}
               [] f = "test" -> {"manifest", "pipeline"}

\* What an author knows of the files at each step of _write_bot.
Stage(a) ==
    /\ pc[a] \in {"mkdir", "mktests"} => \A f \in Files : disk[f] = "absent"
    /\ pc[a] \in {"open", "fill"} => \A f \in Before(file[a]) : disk[f] = proposal[a]
    /\ pc[a] = "open" => \A f \in Files \ Before(file[a]) : disk[f] = "absent"
    /\ pc[a] = "fill" =>
        /\ disk[file[a]] = "empty" /\ a \in openBy[file[a]]
        /\ \A f \in Files \ (Before(file[a]) \cup {file[a]}) : disk[f] = "absent"

\* The manifest is the first.
Starts(a) == pc[a] \in {"list", "remove", "mkdir", "mktests"} => file[a] = "manifest"

\* An author that is alone, or the only one that writes, knows what it did.
StageInv ==
    \A a \in Authors :
        /\ Starts(a)
        /\ a \in alone \/ ~overlapped => Stage(a)

\* Two texts in the directory are of one proposal.
Agree ==
    \/ disk["manifest"] \in {"absent", "empty"}
    \/ disk["pipeline"] \in {"absent", "empty"}
    \/ disk["manifest"] = disk["pipeline"]

LoadInv ==
    ~overlapped =>
        /\ Agree
        /\ steady =>
            /\ reading = "pipeline" => got = disk["manifest"] /\ got \notin {"absent", "empty"}
            /\ reading = "no" => registry.manifest = registry.pipeline

FilesInv == DirInv /\ ReplyInv /\ OneWriter /\ StageInv /\ ValidMeansWritten /\ LoadInv

-----------------------------------------------------------------------------

Written(a) == \A f \in Files : disk[f] = proposal[a]

\* The state of the other authors stays.
OthersWait(a) ==
    \A b \in Authors \ {a} :
        /\ pc'[b] = pc[b] /\ reply'[b] = reply[b] /\ pending'[b] = pending[b]
        /\ proposal'[b] = proposal[b] /\ file'[b] = file[b]

LEMMA AnswerIsReply ==
    ASSUME TypeOK, ControlInv, ReplyInv, NEW a \in Authors, pc[a] \in InCall,
           NEW r, Answer(a, r)
    PROVE  /\ reply'[a] = r /\ pc'[a] \in {"dispatch", "chat", "ended"} /\ ReplyOf(a)'
           /\ \A b \in Authors \ {a} :
                pc'[b] = pc[b] /\ reply'[b] = reply[b] /\ pending'[b] = pending[b]
  <1>1. /\ reply'[a] = r /\ pc'[a] \in {"dispatch", "chat", "ended"}
        /\ pending'[a] = pending[a] - 1
        /\ \A b \in Authors \ {a} :
                pc'[b] = pc[b] /\ reply'[b] = reply[b] /\ pending'[b] = pending[b]
    BY DEF TypeOK, Answer, Goto
  <1>2. a \in Callers => pending[a] \in Nat /\ pending[a] <= 1 /\ pc'[a] = "ended"
    BY AuthoringAssumption DEF TypeOK, ReplyInv, ReplyOf, Answer, Goto
  <1> QED
    BY <1>1, <1>2 DEF ReplyOf

LEMMA FailureIsReply ==
    ASSUME TypeOK, ControlInv, ReplyInv, NEW a \in Authors, pc[a] \in InCall, Fails(a)
    PROVE  /\ reply'[a] # "valid" /\ pc'[a] \in {"dispatch", "chat", "ended"} /\ ReplyOf(a)'
           /\ \A b \in Authors \ {a} :
                pc'[b] = pc[b] /\ reply'[b] = reply[b] /\ pending'[b] = pending[b]
  <1>1. CASE a \in Callers
    BY <1>1 DEF Fails, Goto, TypeOK, ReplyInv, ReplyOf
  <1>2. CASE a \notin Callers
    BY <1>2, AnswerIsReply DEF Fails
  <1> QED
    BY <1>1, <1>2

\* A step outside _write_bot.
LEMMA LookKeepsFiles ==
    ASSUME TypeOK, FilesInv, NEW a \in Authors, UNCHANGED <<dirVars, overlapped, loadVars>>,
           OthersWait(a), alone' \subseteq alone \cup {a},
           pc'[a] \notin WriteSteps, ReplyOf(a)',
           reply'[a] = "valid" =>
                reply[a] = "valid" /\ proposal'[a] = proposal[a] /\ (a \in alone' => a \in alone)
    PROVE  FilesInv'
  <1>1. DirInv' /\ LoadInv'
    BY DEF FilesInv, DirInv, LoadInv, Agree, dirVars, loadVars
  <1>2. ReplyInv'
    BY DEF FilesInv, ReplyInv, ReplyOf, OthersWait
  <1>3. OneWriter'
    BY DEF FilesInv, OneWriter, OthersWait
  <1>4. StageInv'
    <2> SUFFICES ASSUME NEW b \in Authors
                 PROVE  Starts(b)' /\ (b \in alone' \/ ~overlapped' => Stage(b)')
      BY DEF StageInv
    <2>1. CASE b = a
      BY <2>1 DEF Starts, Stage, WriteSteps
    <2>2. CASE b # a
      BY <2>2 DEF FilesInv, StageInv, Starts, Stage, OthersWait, dirVars
    <2> QED
      BY <2>1, <2>2
  <1>5. ValidMeansWritten'
    <2> SUFFICES ASSUME NEW b \in alone', b \in Authors, reply'[b] = "valid"
                 PROVE  \A f \in Files : disk'[f] = proposal'[b]
      BY DEF ValidMeansWritten, TypeOK
    <2>1. b \in alone /\ reply[b] = "valid" /\ proposal'[b] = proposal[b]
      BY DEF OthersWait
    <2> QED
      BY <2>1 DEF FilesInv, ValidMeansWritten, dirVars
  <1> QED
    BY <1>1, <1>2, <1>3, <1>4, <1>5 DEF FilesInv

\* A step inside: whoever else writes is not the only one any more.
LEMMA WriteKeepsFiles ==
    ASSUME TypeOK, FilesInv, NEW a \in Authors, pc[a] \in WriteSteps,
           alone' = alone \cap {a}, steady' = FALSE, UNCHANGED overlapped, OthersWait(a),
           DirInv', ReplyOf(a)', Starts(a)',
           a \in alone \/ ~overlapped => Stage(a)' /\ (reply'[a] = "valid" => Written(a)'),
           ~overlapped => Agree'
    PROVE  FilesInv'
  <1>1. LoadInv'
    BY DEF LoadInv
  <1>2. ReplyInv'
    BY DEF FilesInv, ReplyInv, ReplyOf, OthersWait
  <1>3. ~overlapped => \A b \in Authors \ {a} : pc'[b] \notin WriteSteps
    BY DEF FilesInv, OneWriter, OthersWait
  <1>4. OneWriter'
    BY <1>3 DEF OneWriter
  <1>5. StageInv'
    <2> SUFFICES ASSUME NEW b \in Authors
                 PROVE  Starts(b)' /\ (b \in alone' \/ ~overlapped' => Stage(b)')
      BY DEF StageInv
    <2>1. CASE b = a
      BY <2>1
    <2>2. CASE b # a
      <3>1. Starts(b)'
        BY <2>2 DEF FilesInv, StageInv, Starts, OthersWait
      <3>2. ~overlapped' => Stage(b)'
        BY <1>3, <2>2 DEF Stage, WriteSteps
      <3> QED
        BY <2>2, <3>1, <3>2
    <2> QED
      BY <2>1, <2>2
  <1>6. ValidMeansWritten'
    BY DEF ValidMeansWritten, Written
  <1> QED
    BY <1>1, <1>2, <1>4, <1>5, <1>6 DEF FilesInv

-----------------------------------------------------------------------------
\* One lemma per kind of step.

LEMMA SessionStep ==
    ASSUME TypeOK, ControlInv, FilesInv, NEW a \in Authors,
           \/ Begin(a) \/ Chat(a) \/ CallSource(a) \/ SourceAnswers(a) \/ UnknownTool(a)
           \/ MalformedCall(a) \/ Joined(a) \/ TimesOut(a)
    PROVE  FilesInv'
  <1>1. UNCHANGED <<dirVars, overlapped, loadVars, proposal, file, alone>>
    BY DEF Begin, Chat, CallSource, SourceAnswers, UnknownTool, MalformedCall, Joined, TimesOut, Looks
  <1>2. /\ \A b \in Authors \ {a} :
                pc'[b] = pc[b] /\ reply'[b] = reply[b] /\ pending'[b] = pending[b]
        /\ pc'[a] \notin WriteSteps /\ ReplyOf(a)'
        /\ reply'[a] = "valid" => reply[a] = "valid"
    <2>1. CASE Begin(a)
      BY <2>1 DEF Begin, Goto, TypeOK, WriteSteps, FilesInv, ReplyInv, ReplyOf
    <2>2. CASE Chat(a)
      BY <2>2 DEF Chat, Goto, TypeOK, WriteSteps, FilesInv, ReplyInv, ReplyOf
    <2>2a. CASE CallSource(a) \/ MalformedCall(a)
      <3>1. a \notin Callers
        BY <2>2a DEF CallSource, MalformedCall
      <3>2. pc'[a] \in {"source", "ended"} /\ reply'[a] \in {reply[a], "callFailed"}
        BY <2>2a DEF CallSource, MalformedCall, Goto, TypeOK
      <3> QED
        BY <2>2a, <3>1, <3>2 DEF CallSource, MalformedCall, Goto, TypeOK, WriteSteps, ReplyOf
    <2>3. CASE SourceAnswers(a) \/ UnknownTool(a)
      <3>1. pc[a] \in InCall /\ Answer(a, reply[a])
        BY <2>3 DEF SourceAnswers, UnknownTool, InCall
      <3> QED
        BY <3>1, AnswerIsReply DEF FilesInv, WriteSteps
    <2>4. CASE pc[a] = "validate" /\ Answer(a, "invalid")
      BY <2>4, AnswerIsReply DEF FilesInv, WriteSteps, InCall
    <2>5. CASE pc[a] = "validate" /\ Goto(a, "look") /\ UNCHANGED <<reply, pending>>
      BY <2>5 DEF Goto, TypeOK, WriteSteps, FilesInv, ReplyInv, ReplyOf
    <2> QED
      BY <2>1, <2>2, <2>2a, <2>3, <2>4, <2>5 DEF Joined, TimesOut
  <1> QED
    BY <1>1, <1>2, LookKeepsFiles DEF OthersWait

LEMMA ProposeStep ==
    ASSUME TypeOK, ControlInv, FilesInv, NEW a \in Authors, NEW p \in Proposals, Propose(a, p)
    PROVE  FilesInv'
  <1>1. /\ UNCHANGED <<dirVars, overlapped, loadVars, file>> /\ alone' = alone \cup {a}
        /\ \A b \in Authors \ {a} : proposal'[b] = proposal[b]
    BY DEF Propose, Looks, TypeOK
  <1>2. /\ \A b \in Authors \ {a} :
                pc'[b] = pc[b] /\ reply'[b] = reply[b] /\ pending'[b] = pending[b]
        /\ pc'[a] \notin WriteSteps /\ ReplyOf(a)' /\ reply'[a] # "valid"
    <2>1. CASE Answer(a, "invalid")
      BY <2>1, AnswerIsReply DEF Propose, FilesInv, WriteSteps, InCall
    <2>2. CASE StartValidation(a)
      BY <2>2 DEF StartValidation, Goto, TypeOK, WriteSteps, FilesInv, ReplyInv, ReplyOf
    <2> QED
      BY <2>1, <2>2 DEF Propose
  <1> QED
    BY <1>1, <1>2, LookKeepsFiles DEF OthersWait

\* What an author finds that goes on to mkdir: nothing.
LEMMA EnterStep ==
    ASSUME TypeOK, FilesInv, NEW a \in Authors, EntersWriting(a),
           NEW next \in {"list", "mkdir"}, Goto(a, next), next = "mkdir" => ~made,
           pc[a] \notin WriteSteps, reply[a] # "valid", alone' \subseteq alone \cup {a},
           \A b \in Authors \ {a} : proposal'[b] = proposal[b],
           UNCHANGED <<dirVars, reply, pending, loadVars>>
    PROVE  FilesInv'
  <1>1. /\ OthersWait(a) /\ pc'[a] = next /\ file'[a] = "manifest"
        /\ overlapped => overlapped'
        /\ (\E b \in Authors \ {a} : pc[b] \in WriteSteps) => overlapped'
    BY DEF EntersWriting, Goto, OthersWait, TypeOK
  <1>2. DirInv' /\ LoadInv'
    BY <1>1 DEF FilesInv, DirInv, LoadInv, Agree, dirVars, loadVars
  <1>3. ReplyInv'
    BY <1>1 DEF FilesInv, ReplyInv, ReplyOf, OthersWait, TypeOK
  <1>4. OneWriter'
    BY <1>1 DEF OneWriter, OthersWait
  <1>5. StageInv'
    <2> SUFFICES ASSUME NEW b \in Authors
                 PROVE  Starts(b)' /\ (b \in alone' \/ ~overlapped' => Stage(b)')
      BY DEF StageInv
    <2>1. CASE b = a
      <3>1. next = "mkdir" => \A f \in Files : disk[f] = "absent"
        BY DEF FilesInv, DirInv, Files, Entries
      <3> QED
        BY <1>1, <2>1, <3>1 DEF Starts, Stage, dirVars
    <2>2. CASE b # a
      BY <1>1, <2>2 DEF FilesInv, StageInv, Starts, Stage, OthersWait, dirVars
    <2> QED
      BY <2>1, <2>2
  <1>6. ValidMeansWritten'
    BY <1>1 DEF FilesInv, ValidMeansWritten, OthersWait, dirVars, TypeOK
  <1> QED
    BY <1>2, <1>3, <1>4, <1>5, <1>6 DEF FilesInv

LEMMA CreateStep ==
    ASSUME TypeOK, ControlInv, FilesInv, NEW a \in Authors, Create(a)
    PROVE  FilesInv'
  <1>1. /\ pc[a] = "dispatch" /\ alone' = alone \cup {a} /\ UNCHANGED <<dirVars, loadVars>>
        /\ \A b \in Authors \ {a} : proposal'[b] = proposal[b]
        /\ a \in Callers
    BY DEF Create, TypeOK
  <1>2. reply[a] # "valid"
    BY <1>1 DEF FilesInv, ReplyInv, ReplyOf
  <1>3. CASE Fails(a) /\ UNCHANGED <<file, overlapped>>
    <2>1. /\ reply'[a] # "valid" /\ pc'[a] \notin WriteSteps /\ ReplyOf(a)' /\ OthersWait(a)
      BY <1>1, <1>3, FailureIsReply DEF FilesInv, WriteSteps, InCall, OthersWait
    <2> QED
      BY <1>1, <1>3, <2>1, LookKeepsFiles
  <1>4. CASE ~made /\ EntersWriting(a) /\ Goto(a, "mkdir") /\ UNCHANGED <<reply, pending>>
    BY <1>1, <1>2, <1>4, EnterStep DEF WriteSteps
  <1> QED
    BY <1>3, <1>4 DEF Create

LEMMA LookForDirStep ==
    ASSUME TypeOK, ControlInv, FilesInv, NEW a \in Authors, LookForDir(a)
    PROVE  FilesInv'
  <1>1. reply[a] # "valid"
    BY DEF LookForDir, FilesInv, ReplyInv, ReplyOf
  <1>2. PICK next \in {"list", "mkdir"} : Goto(a, next) /\ (next = "mkdir" => ~made)
    BY DEF LookForDir
  <1>3. /\ EntersWriting(a) /\ pc[a] \notin WriteSteps
        /\ UNCHANGED <<dirVars, reply, pending, proposal, alone, loadVars>>
    BY DEF LookForDir, WriteSteps
  <1> QED
    BY <1>1, <1>2, <1>3, EnterStep

-----------------------------------------------------------------------------
\* The steps of _write_bot.

\* One that does not end the call.
LEMMA GoesOn ==
    ASSUME TypeOK, FilesInv, NEW a \in Authors, pc[a] \in WriteSteps, Writes(a),
           NEW next \in WriteSteps, pc' = [pc EXCEPT ![a] = next], UNCHANGED <<reply, pending>>,
           file' = file \/ \E f \in Files : file' = [file EXCEPT ![a] = f]
    PROVE  /\ OthersWait(a) /\ ReplyOf(a)' /\ pc'[a] = next /\ reply'[a] # "valid"
           /\ alone' = alone \cap {a} /\ steady' = FALSE
           /\ UNCHANGED <<overlapped, proposal>>
  BY DEF Writes, WriteSteps, OthersWait, FilesInv, ReplyInv, ReplyOf, TypeOK

LEMMA RaisesStep ==
    ASSUME TypeOK, ControlInv, FilesInv, NEW a \in Authors, pc[a] \in WriteSteps,
           Raises(a), Writes(a)
    PROVE  FilesInv'
  <1>1. /\ reply'[a] # "valid" /\ pc'[a] \in {"dispatch", "chat", "ended"} /\ ReplyOf(a)'
        /\ OthersWait(a)
    BY FailureIsReply DEF FilesInv, InCall, Raises, Writes, OthersWait
  <1>2. Stage(a)' /\ Starts(a)'
    BY <1>1 DEF Stage, Starts
  <1>3. DirInv' /\ (~overlapped => Agree')
    BY DEF Raises, FilesInv, DirInv, LoadInv, Agree, dirVars
  <1> QED
    BY <1>1, <1>2, <1>3, WriteKeepsFiles DEF Writes

LEMMA ListStep ==
    ASSUME TypeOK, ControlInv, FilesInv, NEW a \in Authors, List(a)
    PROVE  FilesInv'
  <1>1. pc[a] \in WriteSteps /\ Writes(a)
    BY DEF List, WriteSteps
  <1>2. CASE Goto(a, "remove") /\ UNCHANGED <<dirVars, pending, reply, file>>
    <2>1. /\ OthersWait(a) /\ ReplyOf(a)' /\ pc'[a] = "remove" /\ reply'[a] # "valid"
          /\ alone' = alone \cap {a} /\ steady' = FALSE /\ UNCHANGED overlapped
      BY <1>1, <1>2, GoesOn DEF Goto, WriteSteps
    <2>2. Stage(a)' /\ Starts(a)'
      BY <1>2, <2>1 DEF Stage, Starts, List, FilesInv, StageInv
    <2>3. DirInv' /\ (~overlapped => Agree')
      BY <1>2 DEF FilesInv, DirInv, LoadInv, Agree, dirVars
    <2> QED
      BY <1>1, <2>1, <2>2, <2>3, WriteKeepsFiles
  <1> QED
    BY <1>1, <1>2, RaisesStep DEF List

LEMMA RemoveEntryStep ==
    ASSUME TypeOK, ControlInv, FilesInv, NEW a \in Authors, NEW e \in Entries, RemoveEntry(a, e)
    PROVE  FilesInv'
  <1>1. pc[a] = "remove" /\ pc[a] \in WriteSteps /\ Writes(a)
    BY DEF RemoveEntry, WriteSteps
  <1>2. CASE Drop(e) /\ UNCHANGED <<pc, pending, reply, file>>
    <2>1. /\ OthersWait(a) /\ ReplyOf(a)' /\ reply'[a] # "valid"
          /\ alone' = alone \cap {a} /\ steady' = FALSE /\ UNCHANGED overlapped
      BY <1>1, <1>2 DEF Writes, OthersWait, FilesInv, ReplyInv, ReplyOf
    <2>2. Stage(a)' /\ Starts(a)'
      BY <1>1, <1>2 DEF Stage, Starts, FilesInv, StageInv
    <2>3. /\ disk' = [disk EXCEPT ![e] = "absent"] /\ made' = made
          /\ \A f \in Files : openBy'[f] = {} \/ (openBy'[f] = openBy[f] /\ f # e)
      BY <1>2 DEF Drop, TypeOK, DirTypeOK
    <2>4. DirInv'
      BY <2>3 DEF FilesInv, DirInv, TypeOK, DirTypeOK, Entries, Files
    <2>5. ~overlapped => Agree'
      BY <2>3 DEF FilesInv, LoadInv, Agree, TypeOK, DirTypeOK, Entries, Files
    <2> QED
      BY <1>1, <2>1, <2>2, <2>4, <2>5, WriteKeepsFiles
  <1> QED
    BY <1>1, <1>2, RaisesStep DEF RemoveEntry

LEMMA RemoveDirStep ==
    ASSUME TypeOK, ControlInv, FilesInv, NEW a \in Authors, RemoveDir(a)
    PROVE  FilesInv'
  <1>1. pc[a] = "remove" /\ pc[a] \in WriteSteps /\ Writes(a)
    BY DEF RemoveDir, WriteSteps
  <1>2. CASE Present = {} /\ DropDir /\ Goto(a, "mkdir") /\ UNCHANGED <<pending, reply, file>>
    <2>1. /\ OthersWait(a) /\ ReplyOf(a)' /\ pc'[a] = "mkdir" /\ reply'[a] # "valid"
          /\ alone' = alone \cap {a} /\ steady' = FALSE /\ UNCHANGED overlapped
      BY <1>1, <1>2, GoesOn DEF Goto, WriteSteps
    <2>2. \A e \in Entries : disk'[e] = "absent"
      BY <1>2 DEF Present, DropDir
    <2>3. Stage(a)' /\ Starts(a)'
      BY <1>1, <1>2, <2>1, <2>2 DEF Stage, Starts, FilesInv, StageInv, Files, Entries
    <2>4. DirInv' /\ Agree'
      BY <1>2, <2>2 DEF DropDir, FilesInv, DirInv, Agree, Entries, Files
    <2> QED
      BY <1>1, <2>1, <2>3, <2>4, WriteKeepsFiles
  <1> QED
    BY <1>1, <1>2, RaisesStep DEF RemoveDir

LEMMA MkdirStep ==
    ASSUME TypeOK, ControlInv, FilesInv, NEW a \in Authors, Mkdir(a)
    PROVE  FilesInv'
  <1>1. pc[a] = "mkdir" /\ pc[a] \in WriteSteps /\ Writes(a)
    BY DEF Mkdir, WriteSteps
  <1>2. /\ OthersWait(a) /\ ReplyOf(a)' /\ pc'[a] = "mktests" /\ reply'[a] # "valid"
        /\ alone' = alone \cap {a} /\ steady' = FALSE /\ UNCHANGED overlapped
    BY <1>1, GoesOn DEF Mkdir, Goto, WriteSteps
  <1>3. Starts(a)' /\ (a \in alone \/ ~overlapped => Stage(a)')
    BY <1>1, <1>2 DEF Mkdir, MakeDir, Stage, Starts, FilesInv, StageInv
  <1>4. DirInv' /\ (~overlapped => Agree')
    BY DEF Mkdir, MakeDir, FilesInv, DirInv, LoadInv, Agree
  <1> QED
    BY <1>1, <1>2, <1>3, <1>4, WriteKeepsFiles

LEMMA MkTestsStep ==
    ASSUME TypeOK, ControlInv, FilesInv, NEW a \in Authors, MkTests(a)
    PROVE  FilesInv'
  <1>1. pc[a] = "mktests" /\ pc[a] \in WriteSteps /\ Writes(a)
    BY DEF MkTests, WriteSteps
  <1>2. CASE made /\ MakeTests /\ Goto(a, "open") /\ UNCHANGED <<pending, reply, file, toRemove>>
    <2>1. /\ OthersWait(a) /\ ReplyOf(a)' /\ pc'[a] = "open" /\ reply'[a] # "valid"
          /\ alone' = alone \cap {a} /\ steady' = FALSE /\ UNCHANGED <<overlapped, proposal>>
      BY <1>1, <1>2, GoesOn DEF Goto, WriteSteps
    <2>2. /\ made' = made /\ openBy' = openBy /\ made
          /\ \A f \in Files : disk'[f] = disk[f]
      BY <1>2 DEF MakeTests, TypeOK, DirTypeOK, Files, Entries
    <2>3. file'[a] = "manifest"
      BY <1>1, <1>2 DEF FilesInv, StageInv, Starts
    <2>4. Starts(a)' /\ (a \in alone \/ ~overlapped => Stage(a)')
      BY <1>1, <2>1, <2>2, <2>3 DEF Stage, Starts, FilesInv, StageInv, Before
    <2>5. DirInv' /\ (~overlapped => Agree')
      BY <2>2 DEF FilesInv, DirInv, LoadInv, Agree, Files
    <2> QED
      BY <1>1, <2>1, <2>4, <2>5, WriteKeepsFiles
  <1> QED
    BY <1>1, <1>2, RaisesStep DEF MkTests

LEMMA OpenStep ==
    ASSUME TypeOK, ControlInv, FilesInv, NEW a \in Authors, Open(a)
    PROVE  FilesInv'
  <1>1. pc[a] = "open" /\ pc[a] \in WriteSteps /\ Writes(a)
    BY DEF Open, WriteSteps
  <1>2. CASE /\ HasRoom(file[a]) /\ OpenFile(a, file[a])
             /\ Goto(a, "fill") /\ UNCHANGED <<pending, reply, file, toRemove>>
    <2>1. /\ OthersWait(a) /\ ReplyOf(a)' /\ pc'[a] = "fill" /\ reply'[a] # "valid"
          /\ alone' = alone \cap {a} /\ steady' = FALSE /\ UNCHANGED <<overlapped, proposal>>
      BY <1>1, <1>2, GoesOn DEF Goto, WriteSteps
    <2>2. /\ file[a] \in Files /\ file' = file /\ made' = made
          /\ disk' = [disk EXCEPT ![file[a]] = "empty"]
          /\ openBy' = [openBy EXCEPT ![file[a]] = @ \cup {a}]
      BY <1>2 DEF OpenFile, TypeOK
    <2>3. /\ disk'[file[a]] = "empty" /\ a \in openBy'[file[a]]
          /\ \A e \in Entries \ {file[a]} : disk'[e] = disk[e]
          /\ \A f \in Files \ {file[a]} : openBy'[f] = openBy[f]
      BY <2>2 DEF TypeOK, DirTypeOK, Files, Entries
    <2>4. file[a] \notin Before(file[a]) /\ Before(file[a]) \subseteq Files
      BY <2>2 DEF Before, Files
    <2>5. Starts(a)' /\ (a \in alone \/ ~overlapped => Stage(a)')
      BY <1>1, <2>1, <2>2, <2>3, <2>4 DEF Stage, Starts, FilesInv, StageInv, Files, Entries
    <2>6. made
      BY <1>2, <2>2 DEF HasRoom, FilesInv, DirInv, Files, Entries
    <2>7. DirInv'
      BY <2>2, <2>3, <2>6 DEF FilesInv, DirInv, Files, Entries
    <2>8. ~overlapped => Agree'
      BY <2>2, <2>3 DEF FilesInv, LoadInv, Agree, Files, Entries
    <2> QED
      BY <1>1, <2>1, <2>5, <2>7, <2>8, WriteKeepsFiles
  <1> QED
    BY <1>1, <1>2, RaisesStep DEF Open

LEMMA FillStep ==
    ASSUME TypeOK, ControlInv, FilesInv, NEW a \in Authors, Fill(a)
    PROVE  FilesInv'
  <1>1. /\ pc[a] = "fill" /\ pc[a] \in WriteSteps /\ Writes(a)
        /\ file[a] \in Files /\ proposal[a] \in Proposals
    BY AuthoringAssumption DEF Fill, WriteSteps, TypeOK, ControlInv
  <1>2. /\ made' = made /\ proposal' = proposal
        /\ \A e \in Entries \ {file[a]} : disk'[e] = disk[e]
        /\ \A f \in Files : openBy'[f] \subseteq openBy[f]
        /\ disk'[file[a]] = disk[file[a]] \/ disk'[file[a]] \in {proposal[a], Torn}
        /\ disk'[file[a]] = disk[file[a]] \/ openBy[file[a]] # {}
    BY <1>1 DEF Fill, FillFile, Writes, TypeOK, DirTypeOK, Files, Entries
  <1>3. ASSUME a \in alone \/ ~overlapped
        PROVE  disk'[file[a]] = proposal[a]
    <2>1. disk[file[a]] = "empty" /\ a \in openBy[file[a]]
      BY <1>1, <1>3 DEF FilesInv, StageInv, Stage
    <2> QED
      BY <1>1, <2>1 DEF Fill, FillFile, TypeOK, DirTypeOK, Files, Entries
  <1>4. DirInv'
    <2>1. "absent" \notin {proposal[a], Torn}
      BY <1>1, AuthoringAssumption
    <2> QED
      BY <1>1, <1>2, <2>1 DEF FilesInv, DirInv, Files, Entries
  <1>5. ASSUME a \in alone \/ ~overlapped
        PROVE  /\ \A f \in Before(file[a]) \cup {file[a]} : disk'[f] = proposal[a]
               /\ \A f \in Files \ (Before(file[a]) \cup {file[a]}) : disk'[f] = "absent"
    <2>1. Before(file[a]) \subseteq Files \ {file[a]}
      BY <1>1 DEF Before, Files
    <2> QED
      BY <1>1, <1>2, <1>3, <1>5, <2>1 DEF FilesInv, StageInv, Stage, Files, Entries
  <1>6. ~overlapped => Agree'
    <2>1. CASE file[a] = "manifest"
      BY <1>5, <2>1 DEF Agree, Before, Files
    <2>2. CASE file[a] # "manifest"
      BY <1>1, <1>5, <2>2 DEF Agree, Before, Files
    <2> QED
      BY <2>1, <2>2
  <1>7. CASE After(file[a]) = {} /\ Answer(a, "valid") /\ UNCHANGED file
    <2>1. /\ OthersWait(a) /\ ReplyOf(a)' /\ pc'[a] \in {"dispatch", "chat", "ended"}
      BY <1>1, <1>2, <1>7, AnswerIsReply DEF FilesInv, InCall, OthersWait
    <2>2. Starts(a)' /\ Stage(a)'
      BY <2>1 DEF Starts, Stage
    <2>3. a \in alone \/ ~overlapped => Written(a)'
      <3>1. Files = Before(file[a]) \cup {file[a]}
        BY <1>1, <1>7 DEF After, Before, Files
      <3> QED
        BY <1>2, <1>5, <3>1 DEF Written
    <2> QED
      BY <1>1, <1>4, <1>6, <2>1, <2>2, <2>3, WriteKeepsFiles DEF Writes
  <1>8. ASSUME NEW f \in After(file[a]), file' = [file EXCEPT ![a] = f], Goto(a, "open"),
               UNCHANGED <<pending, reply>>
        PROVE  FilesInv'
    <2>1. f \in Files /\ Before(f) = Before(file[a]) \cup {file[a]} /\ file'[a] = f
      BY <1>1, <1>8 DEF After, Before, Files, TypeOK
    <2>2. /\ OthersWait(a) /\ ReplyOf(a)' /\ pc'[a] = "open" /\ reply'[a] # "valid"
          /\ alone' = alone \cap {a} /\ steady' = FALSE /\ UNCHANGED <<overlapped, proposal>>
      BY <1>1, <1>8, <2>1, GoesOn DEF Goto, WriteSteps
    <2>3. Starts(a)' /\ (a \in alone \/ ~overlapped => Stage(a)')
      BY <1>5, <2>1, <2>2 DEF Starts, Stage
    <2> QED
      BY <1>1, <1>4, <1>6, <2>2, <2>3, WriteKeepsFiles
  <1> QED
    BY <1>7, <1>8 DEF Fill

\* A death closes what its author had open and leaves the files.
LEMMA DieStep ==
    ASSUME TypeOK, FilesInv, NEW a \in Authors, Die(a)
    PROVE  FilesInv'
  <1>1. /\ OthersWait(a) /\ pc'[a] = "ended" /\ reply'[a] = "none" /\ pending'[a] = 0
        /\ openBy' = [f \in Files |-> openBy[f] \ {a}]
        /\ UNCHANGED <<made, disk, alone, overlapped, loadVars>>
    BY DEF Die, CloseAll, Goto, OthersWait, TypeOK
  <1>2. DirInv' /\ LoadInv'
    BY <1>1 DEF FilesInv, DirInv, LoadInv, Agree, loadVars
  <1>3. ReplyInv'
    BY <1>1 DEF FilesInv, ReplyInv, ReplyOf, OthersWait
  <1>4. OneWriter'
    BY <1>1 DEF FilesInv, OneWriter, OthersWait, WriteSteps
  <1>5. StageInv'
    <2> SUFFICES ASSUME NEW b \in Authors
                 PROVE  Starts(b)' /\ (b \in alone' \/ ~overlapped' => Stage(b)')
      BY DEF StageInv
    <2>1. CASE b = a
      BY <1>1, <2>1 DEF Starts, Stage
    <2>2. CASE b # a
      BY <1>1, <2>2 DEF FilesInv, StageInv, Starts, Stage, OthersWait, TypeOK
    <2> QED
      BY <2>1, <2>2
  <1>6. ValidMeansWritten'
    BY <1>1 DEF FilesInv, ValidMeansWritten, OthersWait, TypeOK
  <1> QED
    BY <1>2, <1>3, <1>4, <1>5, <1>6 DEF FilesInv

\* What the server does, and the end of a validation thread, leave the files
\* and the authors' steps as they are.
LEMMA OutsideKeepsFiles ==
    ASSUME TypeOK, FilesInv, DirInv', LoadInv', \A f \in Files : disk'[f] = disk[f],
           UNCHANGED <<openBy, pc, pending, proposal, reply, file, alone, overlapped>>
    PROVE  FilesInv'
  <1>1. ReplyInv' /\ OneWriter'
    BY DEF FilesInv, ReplyInv, ReplyOf, OneWriter
  <1>2. StageInv'
    <2> SUFFICES ASSUME NEW a \in Authors
                 PROVE  Starts(a)' /\ (a \in alone' \/ ~overlapped' => Stage(a)')
      BY DEF StageInv
    <2>1. file[a] \in Files /\ Before(file[a]) \subseteq Files
      BY DEF TypeOK, Before, Files
    <2> QED
      BY <2>1 DEF FilesInv, StageInv, Starts, Stage
  <1>3. ValidMeansWritten'
    BY DEF FilesInv, ValidMeansWritten
  <1> QED
    BY <1>1, <1>2, <1>3 DEF FilesInv

LEMMA ServerStep ==
    ASSUME TypeOK, FilesInv, Server
    PROVE  FilesInv'
  <1>1. UNCHANGED <<made, openBy, pc, pending, proposal, reply, file, alone, overlapped>>
    BY DEF Server, Load, LookForManifest, ReadManifest, LoadPipeline, LoadAborts, Skips, LoadEnds,
           WriteCache, dirVars, authorVars
  <1>2. \/ disk' = disk
        \/ disk["pipeline"] # "absent" /\ disk' = [disk EXCEPT !["pycache"] = "made"]
    BY AuthoringAssumption
       DEF Server, Load, LookForManifest, ReadManifest, LoadPipeline, LoadAborts, Skips, LoadEnds,
           WriteCache, dirVars
  <1>3. \A f \in Files : disk'[f] = disk[f]
    BY <1>2 DEF TypeOK, DirTypeOK, Files, Entries
  <1>4. DirInv'
    BY <1>1, <1>2, <1>3 DEF FilesInv, DirInv, Files, Entries
  <1>5. LoadInv'
    <2> SUFFICES ASSUME ~overlapped
                 PROVE  LoadInv'
      BY <1>1 DEF LoadInv
    <2>1. Agree'
      BY <1>3 DEF FilesInv, LoadInv, Agree, Files
    <2>2. CASE Load
      BY <2>1, <2>2 DEF Load, LoadInv
    <2>3. CASE Skips
      BY <2>1, <2>3 DEF Skips, LoadEnds, LoadInv, NoBot
    <2>4. CASE reading' = "manifest"
      BY <2>1, <2>4 DEF LoadInv
    <2>5. CASE /\ disk["manifest"] \notin {"absent", "empty"}
               /\ got' = disk["manifest"] /\ reading' = "pipeline"
      BY <1>3, <2>1, <2>5 DEF LoadInv, Files
    <2>6. CASE /\ reading = "pipeline" /\ disk["pipeline"] \notin {"absent", "empty"}
               /\ LoadEnds([manifest |-> got, pipeline |-> disk["pipeline"]])
      BY <2>1, <2>6 DEF FilesInv, LoadInv, Agree, LoadEnds
    <2>7. CASE LoadAborts
      BY <2>1, <2>7 DEF LoadAborts, LoadInv
    <2> QED
      BY <2>2, <2>3, <2>4, <2>5, <2>6, <2>7
         DEF Server, LookForManifest, ReadManifest, LoadPipeline, Skips
  <1> QED
    BY <1>1, <1>3, <1>4, <1>5, OutsideKeepsFiles

LEMMA FilesInvariant == Spec => []FilesInv
  <1>1. Init => FilesInv
    <2> SUFFICES ASSUME Init
                 PROVE  FilesInv
      OBVIOUS
    <2>1. \A a \in Authors : pc[a] = "idle" /\ reply[a] = "none" /\ pending[a] = 0
      BY DEF Init
    <2>2. DirInv /\ Agree
      <3>1. CASE DirInit({})
        <4>1. (\A f \in Files : openBy[f] = {}) /\ \A e \in Entries : disk[e] = "absent"
          BY <3>1 DEF DirInit
        <4> QED
          BY <4>1 DEF DirInv, Agree, Entries, Files
      <3>2. ASSUME NEW p \in Valid, DirInit({p})
            PROVE  DirInv /\ Agree
        <4>1. made /\ (\A f \in Files : openBy[f] = {}) /\ disk["manifest"] = disk["pipeline"]
          BY <3>2 DEF DirInit, Files, Entries
        <4> QED
          BY <4>1 DEF DirInv, Agree
      <3> QED
        BY <3>1, <3>2 DEF Init
    <2>3. ReplyInv /\ OneWriter /\ StageInv /\ ValidMeansWritten
      BY <2>1 DEF Init, ReplyInv, ReplyOf, OneWriter, StageInv, Starts, Stage, ValidMeansWritten,
                  WriteSteps
    <2> QED
      BY <2>2, <2>3 DEF Init, FilesInv, LoadInv
  <1>2. TypeOK /\ ControlInv /\ FilesInv /\ [Next]_vars => FilesInv'
    <2> SUFFICES ASSUME TypeOK, ControlInv, FilesInv, [Next]_vars
                 PROVE  FilesInv'
      OBVIOUS
    <2>1. ASSUME UNCHANGED <<dirVars, pc, pending, proposal, reply, file, alone, overlapped, loadVars>>
          PROVE  FilesInv'
      <3>1. DirInv' /\ LoadInv'
        BY <2>1 DEF FilesInv, DirInv, LoadInv, Agree, dirVars, loadVars
      <3> QED
        BY <2>1, <3>1, OutsideKeepsFiles DEF dirVars
    <2>2. ASSUME NEW a \in Authors, WorkerEnds(a)
          PROVE  FilesInv'
      BY <2>1, <2>2 DEF WorkerEnds, Looks
    <2>3. CASE UNCHANGED vars
      BY <2>1, <2>3 DEF vars, authorVars
    <2> QED
      BY <2>2, <2>3, SessionStep, ProposeStep, CreateStep, LookForDirStep, ListStep,
         RemoveEntryStep, RemoveDirStep, MkdirStep, MkTestsStep, OpenStep, FillStep, DieStep,
         ServerStep
         DEF Next, Author
  <1> QED
    BY <1>1, <1>2, TypeCorrect, PTL DEF Spec

-----------------------------------------------------------------------------
\* As long as no two authors wrote at once no text is a mixture: who writes a
\* file opened it empty.

TornInv ==
    ~overlapped =>
        /\ \A f \in Files : disk[f] # Torn
        /\ Torn \notin {got, registry.manifest, registry.pipeline}

LEMMA TornInvariant == Spec => []TornInv
  <1> USE AuthoringAssumption DEF AuthoringAssumption
  <1>1. Init => TornInv
    <2> SUFFICES ASSUME Init
                 PROVE  TornInv
      OBVIOUS
    <2>1. CASE DirInit({})
      BY <2>1 DEF DirInit, Init, NoBot, TornInv, Files, Entries
    <2>2. ASSUME NEW p \in Valid, DirInit({p})
          PROVE  TornInv
      <3>1. (CHOOSE q \in {p} : TRUE) = p
        OBVIOUS
      <3>2. \A f \in Files : disk[f] = p
        BY <2>2, <3>1 DEF DirInit, Files, Entries
      <3> QED
        BY <2>2, <3>2 DEF Init, NoBot, TornInv
    <2> QED
      BY <2>1, <2>2 DEF Init
  <1>2. TypeOK /\ ControlInv /\ FilesInv /\ TornInv /\ [Next]_vars => TornInv'
    <2> SUFFICES ASSUME TypeOK, ControlInv, FilesInv, TornInv, [Next]_vars, ~overlapped'
                 PROVE  TornInv'
      BY DEF TornInv
    <2>1. ASSUME ~overlapped, UNCHANGED <<got, registry>>,
                 \A f \in Files : disk'[f] \in {disk[f], "absent", "empty"}
          PROVE  TornInv'
      BY <2>1 DEF TornInv
    <2>2. ASSUME NEW a \in Authors,
                 \/ Begin(a) \/ Chat(a) \/ CallSource(a) \/ SourceAnswers(a) \/ UnknownTool(a)
                 \/ MalformedCall(a) \/ Joined(a) \/ TimesOut(a) \/ WorkerEnds(a)
                 \/ \E p \in Proposals \ {Template} : Propose(a, p)
          PROVE  TornInv'
      BY <2>1, <2>2 DEF Begin, Chat, CallSource, SourceAnswers, UnknownTool, MalformedCall, Joined,
                        TimesOut, WorkerEnds, Propose, Looks, dirVars, loadVars
    <2>3. ASSUME NEW a \in Authors,
                 \/ LookForDir(a) \/ List(a) \/ RemoveDir(a) \/ Mkdir(a) \/ MkTests(a) \/ Open(a)
                 \/ Die(a) \/ Create(a) \/ \E e \in Entries : RemoveEntry(a, e)
          PROVE  TornInv'
      <3>1. /\ \/ overlapped' = overlapped
               \/ overlapped' = (overlapped \/ \E b \in Authors \ {a} : pc[b] \in WriteSteps)
            /\ UNCHANGED <<got, registry>>
        <4>1. CASE LookForDir(a) \/ Create(a)
          BY <4>1 DEF LookForDir, Create, EntersWriting, loadVars
        <4>2. CASE List(a) \/ RemoveDir(a) \/ Mkdir(a) \/ MkTests(a) \/ Open(a)
                   \/ \E e \in Entries : RemoveEntry(a, e)
          BY <4>2 DEF List, RemoveDir, Mkdir, MkTests, Open, RemoveEntry, Writes
        <4>3. CASE Die(a)
          BY <4>3 DEF Die, loadVars
        <4> QED
          BY <2>3, <4>1, <4>2, <4>3
      <3>2. ~overlapped
        BY <3>1
      <3>3. \/ UNCHANGED dirVars \/ \E e \in Entries : Drop(e)
            \/ DropDir \/ MakeDir \/ MakeTests \/ CloseAll(a) \/ OpenFile(a, file[a])
        BY <2>3 DEF LookForDir, List, RemoveDir, Mkdir, MkTests, Open, Die, Create, RemoveEntry,
                    Raises
      <3>4. \A f \in Files : disk'[f] \in {disk[f], "absent", "empty"}
        BY <3>3 DEF dirVars, Drop, DropDir, MakeDir, MakeTests, CloseAll, OpenFile, TypeOK, DirTypeOK,
                    Files, Entries
      <3> QED
        BY <2>1, <3>1, <3>4, <3>2
    <2>4. ASSUME NEW a \in Authors, Fill(a)
          PROVE  TornInv'
      <3>1. /\ ~overlapped /\ UNCHANGED <<got, registry>>
            /\ pc[a] = "fill" /\ FillFile(a, file[a], proposal[a])
        BY <2>4 DEF Fill, Writes
      <3>2. disk[file[a]] = "empty" /\ a \in openBy[file[a]]
        BY <3>1 DEF FilesInv, StageInv, Stage
      <3>3. disk' = [disk EXCEPT ![file[a]] = proposal[a]]
        BY <3>1, <3>2 DEF FillFile
      <3>4. proposal[a] \in Proposals
        BY <3>1 DEF ControlInv, WriteSteps
      <3> QED
        BY <3>1, <3>3, <3>4 DEF TornInv, TypeOK, DirTypeOK, Files, Entries
    <2>5. CASE Server
      <3>1. ~overlapped
        BY <2>5 DEF Server, Load, LookForManifest, ReadManifest, LoadPipeline, LoadAborts, Skips,
                    LoadEnds, authorVars
      <3>2. \A f \in Files : disk'[f] = disk[f]
        BY <2>5 DEF Server, Load, LookForManifest, ReadManifest, LoadPipeline, LoadAborts, WriteCache,
                    dirVars, TypeOK, DirTypeOK, Files, Entries
      <3>3. /\ got' \in {got, "none"} \cup {disk[f] : f \in Files}
            /\ registry' \in {registry, NoBot, [manifest |-> got, pipeline |-> disk["pipeline"]]}
        BY <2>5 DEF Server, Load, LookForManifest, ReadManifest, LoadPipeline, LoadAborts, Skips,
                    LoadEnds, Files
      <3> QED
        BY <3>1, <3>2, <3>3 DEF TornInv, NoBot, Files
    <2>6. CASE UNCHANGED vars
      BY <2>1, <2>6 DEF vars, dirVars, authorVars, loadVars
    <2> QED
      BY <2>2, <2>3, <2>4, <2>5, <2>6 DEF Next, Author
  <1> QED
    BY <1>1, <1>2, TypeCorrect, FilesInvariant, PTL DEF Spec

-----------------------------------------------------------------------------

\* Whoever writes and however it ends, a file of the bot and a registry hold texts
\* of a proposal that passed validation in time, the template, or, once two
\* authors wrote at once, a mixture (register.py:209-220, 241-245).
THEOREM ValidationHolds == Spec => []OnlyValidated
  <1>1. ValidInv /\ TornInv => OnlyValidated
    BY AuthoringAssumption DEF AuthoringAssumption, ValidInv, TornInv, OnlyValidated, Clean
  <1> QED
    BY <1>1, CleanInvariant, TornInvariant, PTL

\* "valid" means that the three files are there and the author's own, unless
\* someone wrote beside it (register.py:209-252).
THEOREM ValidMeansWrittenHolds == Spec => []ValidMeansWritten
  <1>1. FilesInv => ValidMeansWritten
    BY DEF FilesInv
  <1> QED
    BY <1>1, FilesInvariant, PTL

\* However many authors died half-way, a load nobody wrote beside has the
\* manifest and the pipeline of one proposal (register.py:209-220,
\* registry.py:51-73).
THEOREM LoadsAreOfOneProposal == Spec => []LoadedIsOneProposal
  <1>1. FilesInv => LoadedIsOneProposal
    BY DEF FilesInv, LoadInv, LoadedIsOneProposal
  <1> QED
    BY <1>1, FilesInvariant, PTL
=============================================================================
