----------------------------- MODULE Authoring -----------------------------
(***************************************************************************)
(* Agent sessions (harness.py) and callers that propose one bot            *)
(* (register.py) or make it from a template (scaffold.py) in a shared bots *)
(* directory, and the server that loads its registry from there            *)
(* (registry.py). Nothing is locked. A validation runs in a thread that    *)
(* may never end; an author's process may die.                             *)
(***************************************************************************)
EXTENDS BotsDir

CONSTANTS
    Callers,        \* authors that call propose_bot(overwrite=True) or create_bot;
                    \* the others are agent sessions
    Template,       \* the bot `silmari new` makes
    Valid,          \* proposals whose pipeline passes _validate_run, given the time
    Refused,        \* proposals _static_errors refuses
    MaxSteps,       \* model turns of a session (8 in the code)
    MaxToolCalls,   \* bound: tool calls of one turn
    MaxLoads        \* bound: registry loads

ASSUME AuthoringAssumption ==
    /\ Callers \subseteq Authors
    /\ Valid \subseteq Proposals /\ Refused \subseteq Proposals
    /\ Template \in Proposals \ Valid
    /\ Torn \notin {"none", "absent", "empty", "made"}
    /\ {"none", "absent", "empty", "made", Torn} \cap Proposals = {}
    /\ MaxSteps \in Nat \ {0} /\ MaxToolCalls \in Nat \ {0} /\ MaxLoads \in Nat

VARIABLES
    pc,         \* pc[a]: the next step of author a
    turns,      \* turns[a]: model turns so far
    pending,    \* pending[a]: tool calls of the last turn not yet answered
    proposal,   \* proposal[a]: what it proposes, a proposal once it does
    reply,      \* reply[a]: what its last proposal came to
    worker,     \* worker[a]: its validation thread
    file,       \* file[a]: the file it writes next
    toRemove,   \* toRemove[a]: entries it has still to remove
    alone,      \* authors beside whom no other wrote since they looked
    overlapped, \* two authors were writing at once
    reading,    \* the server's load: its next step
    got,        \* the manifest it read
    steady,     \* no one wrote since the load began, which was not aborted
    registry,   \* what the last load that ended found of this bot
    loads       \* loads begun

authorVars == <<pc, turns, pending, proposal, reply, worker, file, toRemove, alone, overlapped>>
loadVars == <<reading, got, steady, registry, loads>>
vars == <<dirVars, authorVars, loadVars>>

NoBot == [manifest |-> "none", pipeline |-> "none"]

WriteSteps == {"list", "remove", "mkdir", "mktests", "open", "fill"}
Places == {"idle", "chat", "dispatch", "source", "validate", "look", "ended"} \cup WriteSteps

Replies == {"none", "valid", "invalid", "error", "raised", "modelFailed", "callFailed"}

TypeOK ==
    /\ DirTypeOK
    /\ pc \in [Authors -> Places]
    /\ turns \in [Authors -> 0..MaxSteps]
    /\ pending \in [Authors -> 0..MaxToolCalls]
    /\ proposal \in [Authors -> Proposals \cup {"none"}]
    /\ reply \in [Authors -> Replies]
    /\ worker \in [Authors -> {"none", "running", "done"}]
    /\ file \in [Authors -> Files]
    /\ toRemove \in [Authors -> SUBSET Entries]
    /\ alone \subseteq Authors
    /\ overlapped \in BOOLEAN
    /\ reading \in {"no", "look", "manifest", "pipeline"}
    /\ got \in {"none", Torn} \cup Proposals
    /\ steady \in BOOLEAN
    /\ registry \in [manifest : {"none", Torn} \cup Proposals, pipeline : {"none", Torn} \cup Proposals]
    /\ loads \in 0..MaxLoads

Init ==
    /\ DirInit({}) \/ \E p \in Valid : DirInit({p})
    /\ pc = [a \in Authors |-> "idle"]
    /\ turns = [a \in Authors |-> 0]
    /\ pending = [a \in Authors |-> 0]
    /\ proposal = [a \in Authors |-> "none"]
    /\ reply = [a \in Authors |-> "none"]
    /\ worker = [a \in Authors |-> "none"]
    /\ file = [a \in Authors |-> "manifest"]
    /\ toRemove = [a \in Authors |-> {}]
    /\ alone = {}
    /\ overlapped = FALSE
    /\ reading = "no"
    /\ got = "none"
    /\ steady = FALSE
    /\ registry = NoBot
    /\ loads = 0

Goto(a, next) == pc' = [pc EXCEPT ![a] = next]

\* The first of the files comes next; others may be at it.
EntersWriting(a) ==
    /\ file' = [file EXCEPT ![a] = "manifest"]
    /\ overlapped' = (overlapped \/ \E b \in Authors \ {a} : pc[b] \in WriteSteps)

\* A step that leaves the bots directory alone.
Looks == UNCHANGED <<dirVars, overlapped, loadVars>>

-----------------------------------------------------------------------------
\* The agent loop. A library caller makes one call and no turn.

Begin(a) ==
    /\ pc[a] = "idle"
    /\ Goto(a, IF a \in Callers THEN "dispatch" ELSE "chat")
    /\ pending' = [pending EXCEPT ![a] = IF a \in Callers THEN 1 ELSE 0]
    /\ UNCHANGED <<turns, proposal, reply, worker, file, toRemove, alone>>
    /\ Looks

\* llm.chat: tool calls, a final text, or an exception.
Chat(a) ==
    /\ pc[a] = "chat"
    /\ \/ \E n \in 1..MaxToolCalls :
            /\ pending' = [pending EXCEPT ![a] = n]
            /\ turns' = [turns EXCEPT ![a] = @ + 1]
            /\ Goto(a, "dispatch")
            /\ UNCHANGED reply
       \/ Goto(a, "ended") /\ UNCHANGED <<turns, pending, reply>>
       \/ /\ Goto(a, "ended")
          /\ reply' = [reply EXCEPT ![a] = "modelFailed"]
          /\ UNCHANGED <<turns, pending>>
    /\ UNCHANGED <<proposal, worker, file, toRemove, alone>>
    /\ Looks

\* Mutant: one turn too many.
AnswerOneMore(a, r) ==
    /\ reply' = [reply EXCEPT ![a] = r]
    /\ pending' = [pending EXCEPT ![a] = @ - 1]
    /\ Goto(a, IF pending[a] > 1 THEN "dispatch"
               ELSE IF a \in Callers \/ turns[a] > MaxSteps THEN "ended" ELSE "chat")

\* The call in hand is answered: the next one, the next turn, or the end.
Answer(a, r) ==
    /\ reply' = [reply EXCEPT ![a] = r]
    /\ pending' = [pending EXCEPT ![a] = @ - 1]
    /\ Goto(a, IF pending[a] > 1 THEN "dispatch"
               ELSE IF a \in Callers \/ turns[a] = MaxSteps THEN "ended" ELSE "chat")

\* The tool raises: the toolbox answers the model with the error, a caller gets
\* the exception.
Fails(a) ==
    IF a \in Callers
    THEN /\ reply' = [reply EXCEPT ![a] = "raised"]
         /\ Goto(a, "ended")
         /\ UNCHANGED pending
    ELSE Answer(a, "error")

\* A source tool waits, without a timeout, for the lock of the source and for its
\* backend. Runs and validations left behind are at both.
CallSource(a) ==
    /\ pc[a] = "dispatch"
    /\ a \notin Callers
    /\ Goto(a, "source")
    /\ UNCHANGED <<turns, pending, proposal, reply, worker, file, toRemove, alone>>
    /\ Looks

\* The source answers or raises, and either is an answer to the model.
SourceAnswers(a) ==
    /\ pc[a] = "source"
    /\ Answer(a, reply[a])
    /\ UNCHANGED <<turns, proposal, worker, file, toRemove, alone>>
    /\ Looks

UnknownTool(a) ==
    /\ pc[a] = "dispatch"
    /\ a \notin Callers
    /\ Answer(a, reply[a])
    /\ UNCHANGED <<turns, proposal, worker, file, toRemove, alone>>
    /\ Looks

\* Arguments json.loads refuses with another error than a JSONDecodeError: it
\* is raised before the toolbox is asked and ends the session.
MalformedCall(a) ==
    /\ pc[a] = "dispatch"
    /\ a \notin Callers
    /\ reply' = [reply EXCEPT ![a] = "callFailed"]
    /\ Goto(a, "ended")
    /\ UNCHANGED <<turns, pending, proposal, worker, file, toRemove, alone>>
    /\ Looks

-----------------------------------------------------------------------------
\* propose_bot.

\* The id, the kind, the tables, a run function, no mutating keyword.
StaticErrors(p) == p \in Refused

\* The pipeline is written to a directory of its own and imported and called in
\* a thread.
StartValidation(a) ==
    /\ worker' = [worker EXCEPT ![a] = "running"]
    /\ reply' = [reply EXCEPT ![a] = "none"]
    /\ Goto(a, "validate")
    /\ UNCHANGED pending

\* The static checks and the look for a bot of that id.
Propose(a, p) ==
    /\ pc[a] = "dispatch"
    /\ proposal' = [proposal EXCEPT ![a] = p]
    /\ alone' = alone \cup {a}
    /\ \/ /\ StaticErrors(p) \/ (made /\ a \notin Callers)
          /\ Answer(a, "invalid")
          /\ UNCHANGED worker
       \/ ~StaticErrors(p) /\ (made => a \in Callers) /\ StartValidation(a)
    /\ UNCHANGED <<turns, file, toRemove>>
    /\ Looks

\* create_bot: the template, not validated, where no bot of that id is.
Create(a) ==
    /\ pc[a] = "dispatch"
    /\ a \in Callers
    /\ proposal' = [proposal EXCEPT ![a] = Template]
    /\ alone' = alone \cup {a}
    /\ \/ made /\ Fails(a) /\ UNCHANGED <<file, overlapped>>
       \/ /\ ~made
          /\ EntersWriting(a)
          /\ Goto(a, "mkdir")
          /\ UNCHANGED <<reply, pending>>
    /\ UNCHANGED <<dirVars, turns, worker, toRemove, loadVars>>

WorkerEnds(a) ==
    /\ worker[a] = "running"
    /\ worker' = [worker EXCEPT ![a] = "done"]
    /\ UNCHANGED <<pc, turns, pending, proposal, reply, file, toRemove, alone>>
    /\ Looks

\* The thread was joined: its verdict counts.
Joined(a) ==
    /\ pc[a] = "validate"
    /\ worker[a] = "done"
    /\ worker' = [worker EXCEPT ![a] = "none"]
    /\ \/ proposal[a] \in Valid /\ Goto(a, "look") /\ UNCHANGED <<reply, pending>>
       \/ proposal[a] \notin Valid /\ Answer(a, "invalid")
    /\ UNCHANGED <<turns, proposal, file, toRemove, alone>>
    /\ Looks

\* Mutant: join() without a timeout.
TimesOutNever(a) == worker[a] = "done" /\ Joined(a)

\* Mutant: a pipeline that only took too long is let through.
TimesOutValid(a) ==
    /\ pc[a] = "validate"
    /\ worker[a] = "running"
    /\ worker' = [worker EXCEPT ![a] = "none"]
    /\ Goto(a, "look")
    /\ UNCHANGED <<turns, pending, proposal, reply, file, toRemove, alone>>
    /\ Looks

\* The thread is still alive after the timeout: it is left behind, and what it
\* will put into its holder is not read any more.
TimesOut(a) ==
    /\ pc[a] = "validate"
    /\ worker[a] = "running"
    /\ worker' = [worker EXCEPT ![a] = "none"]
    /\ Answer(a, "invalid")
    /\ UNCHANGED <<turns, proposal, file, toRemove, alone>>
    /\ Looks

-----------------------------------------------------------------------------
\* _write_bot, one call into the file system after the other.

\* Mutant: what is there is written over.
LookForDirKeeps(a) ==
    /\ pc[a] = "look"
    /\ Goto(a, IF made THEN "open" ELSE "mkdir")
    /\ EntersWriting(a)
    /\ UNCHANGED <<dirVars, turns, pending, proposal, reply, worker, toRemove, alone, loadVars>>

LookForDir(a) ==
    /\ pc[a] = "look"
    /\ Goto(a, IF made THEN "list" ELSE "mkdir")
    /\ EntersWriting(a)
    /\ UNCHANGED <<dirVars, turns, pending, proposal, reply, worker, toRemove, alone, loadVars>>

\* A step of a inside _write_bot.
Writes(a) ==
    /\ alone' = alone \cap {a}
    /\ steady' = FALSE
    /\ UNCHANGED <<turns, proposal, worker, overlapped, reading, got, registry, loads>>

Raises(a) ==
    /\ Fails(a)
    /\ toRemove' = [toRemove EXCEPT ![a] = {}]
    /\ UNCHANGED <<dirVars, file>>

\* shutil.rmtree lists what is there, ...
List(a) ==
    /\ pc[a] = "list"
    /\ \/ /\ made
          /\ toRemove' = [toRemove EXCEPT ![a] = Present]
          /\ Goto(a, "remove")
          /\ UNCHANGED <<dirVars, pending, reply, file>>
       \/ ~made /\ Raises(a)
    /\ Writes(a)

\* ... removes it in any order, skipping what is gone by then, ...
RemoveEntry(a, e) ==
    /\ pc[a] = "remove"
    /\ e \in toRemove[a]
    /\ e = "tests" => "test" \notin toRemove[a]
    /\ \/ /\ e = "tests" => disk["test"] = "absent"
          /\ Drop(e)
          /\ toRemove' = [toRemove EXCEPT ![a] = @ \ {e}]
          /\ UNCHANGED <<pc, pending, reply, file>>
       \/ e = "tests" /\ disk["test"] # "absent" /\ Raises(a)
    /\ Writes(a)

\* ... and fails on a directory that is not empty, or no longer there.
RemoveDir(a) ==
    /\ pc[a] = "remove"
    /\ toRemove[a] = {}
    /\ \/ /\ made /\ Present = {}
          /\ DropDir
          /\ Goto(a, "mkdir")
          /\ UNCHANGED <<pending, reply, file, toRemove>>
       \/ (~made \/ Present # {}) /\ Raises(a)
    /\ Writes(a)

\* (bot_dir / "tests").mkdir(parents=True): the parent may exist, ...
Mkdir(a) ==
    /\ pc[a] = "mkdir"
    /\ MakeDir
    /\ Goto(a, "mktests")
    /\ UNCHANGED <<pending, reply, file, toRemove>>
    /\ Writes(a)

\* ... tests/ may not.
MkTests(a) ==
    /\ pc[a] = "mktests"
    /\ \/ /\ made /\ disk["tests"] = "absent"
          /\ MakeTests
          /\ Goto(a, "open")
          /\ UNCHANGED <<pending, reply, file, toRemove>>
       \/ (~made \/ disk["tests"] # "absent") /\ Raises(a)
    /\ Writes(a)

Open(a) ==
    /\ pc[a] = "open"
    /\ \/ /\ HasRoom(file[a])
          /\ OpenFile(a, file[a])
          /\ Goto(a, "fill")
          /\ UNCHANGED <<pending, reply, file, toRemove>>
       \/ ~HasRoom(file[a]) /\ Raises(a)
    /\ Writes(a)

\* Mutant: the generated test is forgotten.
AfterNoTest(f) == IF f = "manifest" THEN {"pipeline"} ELSE {}

\* The file written next, as a set.
After(f) ==
    CASE f = "manifest" -> {"pipeline"}
      [] f = "pipeline" -> {"test"}
      [] f = "test" -> {}

Fill(a) ==
    /\ pc[a] = "fill"
    /\ FillFile(a, file[a], proposal[a])
    /\ \/ /\ After(file[a]) = {}
          /\ Answer(a, "valid")
          /\ UNCHANGED file
       \/ \E f \in After(file[a]) :
            /\ file' = [file EXCEPT ![a] = f]
            /\ Goto(a, "open")
            /\ UNCHANGED <<pending, reply>>
    /\ UNCHANGED toRemove
    /\ Writes(a)

\* The author's process dies, and what it knew with it.
Die(a) ==
    /\ pc[a] \notin {"idle", "ended"}
    /\ Goto(a, "ended")
    /\ reply' = [reply EXCEPT ![a] = "none"]
    /\ worker' = [worker EXCEPT ![a] = "none"]
    /\ CloseAll(a)
    /\ turns' = [turns EXCEPT ![a] = 0]
    /\ pending' = [pending EXCEPT ![a] = 0]
    /\ proposal' = [proposal EXCEPT ![a] = "none"]
    /\ file' = [file EXCEPT ![a] = "manifest"]
    /\ toRemove' = [toRemove EXCEPT ![a] = {}]
    /\ UNCHANGED <<alone, overlapped, loadVars>>

-----------------------------------------------------------------------------
\* load_registry, at the server's start and by reload-registry. One load at a
\* time; Serving has the other bots of the directory.

Load ==
    /\ reading = "no"
    /\ loads < MaxLoads
    /\ loads' = loads + 1
    /\ reading' = "look"
    /\ steady' = TRUE
    /\ UNCHANGED <<dirVars, authorVars, got, registry>>

LoadEnds(found) ==
    /\ reading' = "no"
    /\ got' = "none"
    /\ registry' = found
    /\ UNCHANGED <<authorVars, steady, loads>>

\* load_bot raised, or there is no manifest: the bot is left out.
Skips == LoadEnds(NoBot)

LookForManifest ==
    /\ reading = "look"
    /\ \/ /\ disk["manifest"] # "absent"
          /\ reading' = "manifest"
          /\ UNCHANGED <<dirVars, authorVars, got, steady, registry, loads>>
       \/ disk["manifest"] = "absent" /\ LoadEnds(NoBot) /\ UNCHANGED dirVars

\* A file with parts of two proposals may parse or not.
ReadManifest ==
    /\ reading = "manifest"
    /\ \/ /\ disk["manifest"] \notin {"absent", "empty"}
          /\ got' = disk["manifest"]
          /\ reading' = "pipeline"
          /\ UNCHANGED <<dirVars, authorVars, steady, registry, loads>>
       \/ disk["manifest"] \in {"absent", "empty", Torn} /\ Skips /\ UNCHANGED dirVars

\* The pipeline is compiled, which leaves the cache, and executed; an empty
\* one has no run(). A torn one may not even compile.
LoadPipeline ==
    /\ reading = "pipeline"
    /\ \/ /\ disk["pipeline"] \notin {"absent", "empty"}
          /\ LoadEnds([manifest |-> got, pipeline |-> disk["pipeline"]])
          /\ WriteCache
       \/ disk["pipeline"] \in {"empty", Torn} /\ Skips /\ WriteCache
       \/ disk["pipeline"] \in {"absent", Torn} /\ Skips /\ UNCHANGED dirVars

\* What exists() raises, and what is no Exception (a SystemExit at import), is
\* not caught: the server keeps the registry it has, or does not start.
LoadAborts ==
    /\ \/ reading = "look" /\ UNCHANGED dirVars
       \/ reading = "pipeline" /\ disk["pipeline"] \notin {"absent", "empty"} /\ WriteCache
    /\ reading' = "no"
    /\ got' = "none"
    /\ steady' = FALSE
    /\ UNCHANGED <<authorVars, registry, loads>>

Server == Load \/ LookForManifest \/ ReadManifest \/ LoadPipeline \/ LoadAborts

\* What author a does of its own, the wait for its validation included.
Author(a) ==
    \/ Begin(a)
    \/ Chat(a)
    \/ CallSource(a)
    \/ UnknownTool(a)
    \/ MalformedCall(a)
    \/ \E p \in Proposals \ {Template} : Propose(a, p)
    \/ Create(a)
    \/ Joined(a)
    \/ TimesOut(a)
    \/ LookForDir(a)
    \/ List(a)
    \/ \E e \in Entries : RemoveEntry(a, e)
    \/ RemoveDir(a)
    \/ Mkdir(a)
    \/ MkTests(a)
    \/ Open(a)
    \/ Fill(a)

Next ==
    \/ \E a \in Authors : Author(a) \/ WorkerEnds(a) \/ SourceAnswers(a) \/ Die(a)
    \/ Server

Spec == Init /\ [][Next]_vars

\* An author goes on, the model answers, the timeout passes. Nothing is
\* assumed of the pipelines that are validated, nor of the source.
FairSpec == Spec /\ \A a \in Authors : WF_vars(Author(a))

-----------------------------------------------------------------------------

\* What is on disk or in a registry is of a proposal that passed validation in
\* time, or the template, however many threads of rejected ones are still at
\* work. A text that is of no proposal, parts of two that were validated apart,
\* is there only where two authors were writing at once (register.py:117-160,
\* 209-220, 241-245).
OnlyValidated ==
    \A p \in {disk[f] : f \in Files} \cup {registry.manifest, registry.pipeline} :
        /\ p \in Proposals => p \in Valid \cup {Template}
        /\ p = Torn => overlapped

\* A caller that was told its bot is valid and written, and beside whom nobody
\* wrote, finds all three files its own, whatever authors that died before it
\* left behind (register.py:209-252).
ValidMeansWritten ==
    \A a \in alone : reply[a] = "valid" => \A f \in Files : disk[f] = proposal[a]

\* A registry loaded while nobody wrote holds a manifest and a pipeline of one
\* proposal, also after authors died at any point of a write: the tables a
\* pipeline is let at are those it was validated with (register.py:209-220,
\* registry.py:51-73). Two writers at once can break it.
LoadedIsOneProposal ==
    steady /\ reading = "no" /\ ~overlapped => registry.manifest = registry.pipeline

\* A session ends, however long its validations run and whatever the model
\* asks for, unless it waits for the source for ever, the one thing it does
\* without a timeout; and what goes wrong with the files of a bot does not end
\* it: the model is told and goes on (harness.py:128-169, register.py:136-144,
\* tools.py:5-6, 74-121, source.py:104-106).
SessionsEnd ==
    \A a \in Authors :
        pc[a] # "idle" ~>
            \/ pc[a] = "ended" /\ (a \notin Callers => reply[a] # "raised")
            \/ [](pc[a] = "source")
=============================================================================
