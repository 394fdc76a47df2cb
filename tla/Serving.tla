------------------------------ MODULE Serving ------------------------------
(***************************************************************************)
(* The registry of the server and its users: create_app loads it at the    *)
(* start, reload-registry replaces it, and requests start bots from it.    *)
(* The handlers run in threads of their own, with no lock. The server      *)
(* schedules nothing itself: a program that embeds it may build the        *)
(* scheduler from the registry it starts with. Meanwhile bots are deployed *)
(* to and removed from the directory, whole bots at a time (Authoring has  *)
(* the files). A registry is a set of records, one per bot_id.             *)
(***************************************************************************)
EXTENDS Naturals, FiniteSets

CONSTANTS
    Dirs,       \* child directories, numbered as sorted() orders their names
    Manifests,  \* what a deployed manifest says: the bot_id (not always the
                \* directory's name), its cron trigger, and whether
                \* _begin_run refuses the bot (no tables, no opt-in)
    Ids,        \* bot_ids requests name
    Admins,     \* requests to reload-registry
    Callers,    \* requests to start a bot
    MaxDeploys  \* bound: changes of the directory

\* A crontab is any text: the manifest does not look into it.
Manifest == [id : Ids, cron : {"none", "crontab", "malformed"}, refused : BOOLEAN]

ASSUME ServingAssumption ==
    /\ Dirs \subseteq Nat /\ IsFiniteSet(Dirs)
    /\ Manifests \subseteq Manifest
    /\ MaxDeploys \in Nat

VARIABLES
    disk,       \* disk[d]: the record loading d yields, as a set; empty if d does
                \*          not load or is not there
    fatal,      \* directories whose load raises past the loop: a pipeline that
                \* exits when imported, a manifest.yaml exists() may not look at
    deploys,    \* changes of the directory so far
    source,     \* the server has a data source
    registry,   \* app.state.registry
    jobs,       \* records the scheduler's jobs hold, empty if there is none
    pc,         \* pc[p]: the next step of reload request p
    todo,       \* todo[p]: directories p listed and has still to load
    found,      \* found[p]: the registry p is building
    answer,     \* answer[p]: the bot_ids p was told
    alone,      \* reloads since whose begin no other replaced the registry
    quiet,      \* those of them since whose begin nothing was deployed either
    held,       \* held[c]: the record c is about to start, as a set
    reply       \* reply[c]: the status c was answered with, 0 before

reloadVars == <<pc, todo, found, answer, alone, quiet>>
callVars == <<held, reply>>
vars == <<disk, fatal, deploys, source, registry, jobs, reloadVars, callVars>>

\* A version is one deployment.
Record == [dir : Dirs, version : 0..MaxDeploys, says : Manifest]

TypeOK ==
    /\ disk \in [Dirs -> SUBSET Record]
    /\ fatal \subseteq Dirs
    /\ deploys \in 0..MaxDeploys
    /\ source \in BOOLEAN
    /\ registry \subseteq Record
    /\ jobs \subseteq Record
    /\ pc \in [Admins -> {"idle", "load", "answer", "done", "failed"}]
    /\ todo \in [Admins -> SUBSET Dirs]
    /\ found \in [Admins -> SUBSET Record]
    /\ answer \in [Admins -> SUBSET Ids]
    /\ alone \subseteq Admins /\ quiet \subseteq Admins
    /\ held \in [Callers -> SUBSET Record]
    /\ reply \in [Callers -> {0, 202, 400, 404, 503}]

-----------------------------------------------------------------------------
\* Loading.

Of(id, records) == {r \in records : r.says.id = id}

\* Mutant: the first directory that declares a bot_id wins.
PutFirst(records, new) == records \cup {r \in new : Of(r.says.id, records) = {}}

\* registry[record.manifest.bot_id] = record; nothing for a bot that raised.
Put(records, new) == {r \in records : \A s \in new : s.says.id # r.says.id} \cup new

\* The reference: of the directories that declare one bot_id, the last.
Served(dirs) ==
    {r \in UNION {disk[d] : d \in dirs} :
        \A s \in UNION {disk[d] : d \in dirs} : s.says.id = r.says.id => s.dir <= r.dir}

\* records serve the bot of r, by r itself or by a later directory.
Keeps(records, r) == \E s \in Of(r.says.id, records) : s = r \/ r.dir < s.dir

\* build_scheduler: the bots with a cron trigger; from_crontab raises for one it
\* cannot read, and then no bot is scheduled.
JobsOf(records) ==
    {r \in records : r.says.cron = "crontab" /\ \A s \in records : s.says.cron # "malformed"}

-----------------------------------------------------------------------------

\* create_app loads the registry; an embedding program builds the scheduler from
\* it or there is none. No request is in the server yet.
Init ==
    /\ \E says \in [Dirs -> SUBSET Manifests] :
        /\ \A d \in Dirs : \A m, n \in says[d] : m = n
        /\ disk = [d \in Dirs |-> {[dir |-> d, version |-> 0, says |-> m] : m \in says[d]}]
    /\ fatal = {}
    /\ deploys = 0
    /\ source \in BOOLEAN
    /\ registry = Served(Dirs)
    /\ jobs \in {{}, JobsOf(registry)}
    /\ pc = [p \in Admins |-> "idle"]
    /\ todo = [p \in Admins |-> {}]
    /\ found = [p \in Admins |-> {}]
    /\ answer = [p \in Admins |-> {}]
    /\ alone = {}
    /\ quiet = {}
    /\ held = [c \in Callers |-> {}]
    /\ reply = [c \in Callers |-> 0]

\* The server process ends and is started again, which fails as long as a load
\* of the registry does.
Restart ==
    /\ fatal = {}
    /\ registry' = Served(Dirs)
    /\ jobs' \in {{}, JobsOf(registry')}
    /\ pc' = [p \in Admins |-> "idle"]
    /\ todo' = [p \in Admins |-> {}]
    /\ found' = [p \in Admins |-> {}]
    /\ answer' = [p \in Admins |-> {}]
    /\ alone' = {}
    /\ quiet' = {}
    /\ held' = [c \in Callers |-> {}]
    /\ reply' = [c \in Callers |-> 0]
    /\ UNCHANGED <<disk, fatal, deploys, source>>

\* A bot is deployed to d, d is removed, or left in a state that does not load
\* and raises an Exception, or more than that.
Deploy(d) ==
    /\ deploys < MaxDeploys
    /\ deploys' = deploys + 1
    /\ \E new \in {{}} \cup {{[dir |-> d, version |-> deploys', says |-> m]} : m \in Manifests} :
        /\ disk' = [disk EXCEPT ![d] = new]
        /\ fatal' \in {fatal \ {d}} \cup {fatal \cup {e} : e \in IF new = {} THEN {d} ELSE {}}
    /\ quiet' = {}
    /\ UNCHANGED <<source, registry, jobs, pc, todo, found, answer, alone, callVars>>

-----------------------------------------------------------------------------
\* reload-registry.

\* What iterdir may list: every directory that has a bot or is fatal, of the
\* others those that are there.
Listings == {S \in SUBSET Dirs : \A d \in Dirs : disk[d] # {} \/ d \in fatal => d \in S}

\* The directory p loads next.
IsNext(p, d) == d \in todo[p] /\ \A e \in todo[p] : d <= e

\* Mutant: the registry is emptied and filled in place.
ReloadClears(p) ==
    /\ pc[p] \in {"idle", "done", "failed"}
    /\ pc' = [pc EXCEPT ![p] = "load"]
    /\ \E children \in Listings : todo' = [todo EXCEPT ![p] = children]
    /\ found' = [found EXCEPT ![p] = {}]
    /\ answer' = [answer EXCEPT ![p] = {}]
    /\ registry' = {}
    /\ alone' = alone \cup {p}
    /\ quiet' = quiet \cup {p}
    /\ UNCHANGED <<disk, fatal, deploys, source, jobs, callVars>>

\* load_registry: the children are listed, ...
Reload(p) ==
    /\ pc[p] \in {"idle", "done", "failed"}
    /\ pc' = [pc EXCEPT ![p] = "load"]
    /\ \E children \in Listings : todo' = [todo EXCEPT ![p] = children]
    /\ found' = [found EXCEPT ![p] = {}]
    /\ answer' = [answer EXCEPT ![p] = {}]
    /\ alone' = alone \cup {p}
    /\ quiet' = quiet \cup {p}
    /\ UNCHANGED <<disk, fatal, deploys, source, registry, jobs, callVars>>

\* Mutant: a bot that does not load ends the loop.
LoadNextOrStop(p) ==
    /\ pc[p] = "load"
    /\ \E d \in todo[p] \ fatal :
        /\ IsNext(p, d)
        /\ todo' = [todo EXCEPT ![p] = IF disk[d] = {} THEN {} ELSE @ \ {d}]
        /\ found' = [found EXCEPT ![p] = Put(@, disk[d])]
    /\ UNCHANGED <<disk, fatal, deploys, source, registry, jobs, pc, answer, alone, quiet,
                   callVars>>

\* ... loaded in order, those that raise an Exception left out, ...
LoadNext(p) ==
    /\ pc[p] = "load"
    /\ \E d \in todo[p] \ fatal :
        /\ IsNext(p, d)
        /\ todo' = [todo EXCEPT ![p] = @ \ {d}]
        /\ found' = [found EXCEPT ![p] = Put(@, disk[d])]
    /\ UNCHANGED <<disk, fatal, deploys, source, registry, jobs, pc, answer, alone, quiet,
                   callVars>>

\* (the loop catches nothing more: the request fails and the registry stays), ...
LoadAborts(p) ==
    /\ pc[p] = "load"
    /\ \E d \in fatal : IsNext(p, d)
    /\ pc' = [pc EXCEPT ![p] = "failed"]
    /\ todo' = [todo EXCEPT ![p] = {}]
    /\ found' = [found EXCEPT ![p] = {}]
    /\ alone' = alone \ {p}
    /\ quiet' = quiet \ {p}
    /\ UNCHANGED <<disk, fatal, deploys, source, registry, jobs, answer, callVars>>

\* Mutant: the scheduler is rebuilt as well, from a load of its own.
AssignAndReschedule(p) ==
    /\ pc[p] = "load"
    /\ todo[p] = {}
    /\ pc' = [pc EXCEPT ![p] = "answer"]
    /\ registry' = found[p]
    /\ jobs' = JobsOf(Served(Dirs))
    /\ alone' = alone \cap {p}
    /\ quiet' = quiet \cap {p}
    /\ UNCHANGED <<disk, fatal, deploys, source, todo, found, answer, callVars>>

\* ... and become the registry, whatever another reload made of it meanwhile.
Assign(p) ==
    /\ pc[p] = "load"
    /\ todo[p] = {}
    /\ pc' = [pc EXCEPT ![p] = "answer"]
    /\ registry' = found[p]
    /\ alone' = alone \cap {p}
    /\ quiet' = quiet \cap {p}
    /\ UNCHANGED <<disk, fatal, deploys, source, jobs, todo, found, answer, callVars>>

\* Mutant: the directories instead of the bot_ids.
AnswerDirs(p) ==
    /\ pc[p] = "answer"
    /\ pc' = [pc EXCEPT ![p] = "done"]
    /\ answer' = [answer EXCEPT ![p] = {r.dir : r \in registry}]
    /\ UNCHANGED <<disk, fatal, deploys, source, registry, jobs, todo, found, alone, quiet,
                   callVars>>

\* The answer names the bots of app.state.registry, read again.
Answer(p) ==
    /\ pc[p] = "answer"
    /\ pc' = [pc EXCEPT ![p] = "done"]
    /\ answer' = [answer EXCEPT ![p] = {r.says.id : r \in registry}]
    /\ UNCHANGED <<disk, fatal, deploys, source, registry, jobs, todo, found, alone, quiet,
                   callVars>>

-----------------------------------------------------------------------------
\* Starting bots.

\* trigger_run: one look at app.state.registry; the record is taken from the
\* registry that was looked at.
Trigger(c, id) ==
    /\ held[c] = {}
    /\ \/ Of(id, registry) = {} /\ reply' = [reply EXCEPT ![c] = 404] /\ UNCHANGED held
       \/ /\ Of(id, registry) # {} /\ ~source
          /\ reply' = [reply EXCEPT ![c] = 503]
          /\ UNCHANGED held
       \/ /\ source
          /\ \E r \in Of(id, registry) : held' = [held EXCEPT ![c] = {r}]
          /\ reply' = [reply EXCEPT ![c] = 0]
    /\ UNCHANGED <<disk, fatal, deploys, source, registry, jobs, reloadVars>>

\* start_run refuses the record or begins a run of it.
StartRun(c) ==
    /\ \E r \in held[c] : reply' = [reply EXCEPT ![c] = IF r.says.refused THEN 400 ELSE 202]
    /\ held' = [held EXCEPT ![c] = {}]
    /\ UNCHANGED <<disk, fatal, deploys, source, registry, jobs, reloadVars>>

Next ==
    \/ Restart
    \/ \E d \in Dirs : Deploy(d)
    \/ \E p \in Admins : Reload(p) \/ LoadNext(p) \/ LoadAborts(p) \/ Assign(p) \/ Answer(p)
    \/ \E c \in Callers : (\E id \in Ids : Trigger(c, id)) \/ StartRun(c)

Spec == Init /\ [][Next]_vars

-----------------------------------------------------------------------------

\* A reload that is answered, beside which nothing was deployed and no other
\* reload ended, serves exactly the bots that load, the last directory for a
\* bot_id that several declare, and names just these (registry.py:59-73,
\* routers.py:271-275).
QuietReloadServesDisk ==
    \A p \in quiet : pc[p] \in {"answer", "done"} =>
        /\ registry = Served(Dirs)
        /\ pc[p] = "done" => answer[p] = {r.says.id : r \in Served(Dirs)}

\* A reload takes nothing back that the disk still has: unless another replaced
\* the registry while it was loading, a bot whose files were left alone is still
\* served from them, or from a later directory that declares its bot_id too; and
\* a bot that is served from the same directory as before is in no older version.
\* A bot_id that several directories declare may go back to an older version
\* when it changes directories (routers.py:273, registry.py:64-72).
NoStepBack ==
    [][\A p \in alone : pc[p] = "load" /\ pc'[p] = "answer" =>
        \A r \in registry :
            /\ \A s \in Of(r.says.id, registry') : s.dir = r.dir => s.version >= r.version
            /\ r \in disk[r.dir] => Keeps(registry', r)]_vars

\* The scheduler's jobs keep the records of the start. However reloads overlap or
\* abort, a bot runs on its schedule in no newer version than it is served in,
\* if it is served from the same directory, and one whose files were left alone
\* is served from them or from a later directory of its bot_id. One whose
\* directory was removed may be served from an earlier directory in a version
\* older than its job's (scheduler.py:28-39, routers.py:273).
JobsAreNeverAhead ==
    \A j \in jobs :
        /\ \A r \in Of(j.says.id, registry) : r.dir = j.dir => j.version <= r.version
        /\ j \in disk[j.dir] => Keeps(registry, j)

\* A bot nobody touched since the server was first started is found by every
\* request, however many reloads are under way, overtake each other or meet
\* broken bots: the registry is replaced, never emptied and filled
\* (routers.py:86-88, 273).
UntouchedIsFound ==
    [][\A c \in Callers, id \in Ids :
        Trigger(c, id) /\ (\E d \in Dirs : \E r \in disk[d] : r.says.id = id /\ r.version = 0)
            => reply'[c] # 404]_vars

\* One broken bot does not take down the registry: a reload is answered with the
\* bots that load, whatever the others are (the comment at registry.py:69).
BrokenBotIsSkipped == \A p \in Admins : pc[p] # "failed"
=============================================================================
