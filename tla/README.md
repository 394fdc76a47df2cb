# TLA+ models of Silmari

Specifications of the two packages under `packages/` (`silmari-core`,
`silmari-runtime`), checked with TLC on small instances, with theorems checked by
TLAPS for every instance. The source is the reference: each definition names the
behaviour it models, and `PROJECT.json` ("map") the lines it was read from.

Silmari lets *bots* (a `manifest.yaml` and a `pipeline.py`) read a governed data
source, stores what they return, tells clients and webhooks about it, lets people
review the results and tune a threshold, lets them propose and approve changes to a
bot's ruleset, and lets an agent write new bots.

## 1. The system

| Component (source) | State it keeps | Operations | Talks to |
|---|---|---|---|
| Executor (`executor.py`) | one thread per run | `run_bot`, `start_run`, `_begin_run`, `execute`, `ctx.emit` | store, bus, source, webhooks |
| Result store (`store.py`) | table `bot_runs` | `create_running`, `mark_completed`, `mark_failed`, `get`, `latest`, `history`, `recent` | one transaction per method, one lock |
| Event bus, SSE (`sinks.py`, `routers.py`) | subscribers, one bounded queue each | `subscribe`, `publish`, `unsubscribe`, the SSE generator | called by run threads and clients |
| Webhooks (`sinks.py`) | subscriptions, in memory; a daemon thread per delivery | `register`, `remove`, `deliver_webhooks` | called by the executor and operators |
| Scheduler (`scheduler.py`) | cron jobs holding the bot records of the start | `build_scheduler` | takes records from a registry, calls `run_bot`; neither `app.py` nor `cli.py` builds one, a program that embeds the server does |
| Governed source (`source.py`, `sql.py`, `audit.py`) | a connection under a lock, the audit log | `query`, `sample`, `stats`, `schema`, `scoped` | called by runs, the data browser, agent tools, validations |
| Proposals (`proposals.py`) | a proposal file and `ruleset.json` per bot | `stage`, `get`, `discard`, `approve` | the file system; runs read `ruleset.json` when they start |
| Signals (`signal.py`, `prediction.py`) | none | `signal`, `prediction`, `result` | bots frame what a run stores with them |
| Ruleset engine (`ruleset.py`) | none | `validate_ruleset`, `evaluate`, `merge_ruleset`, `run_ruleset` | proposals, ruleset bots |
| Review and tuning (`review.py`) | table `review_decisions` | `set_decision`, `tally`, `collect_labels`, `tune` | the result store, in transactions of its own |
| Authoring (`agent/`, `scaffold.py`) | a session's transcript; `bots/<id>/` | the agent loop, `register_bot`, `propose_bot`, `create_bot` | the source, the bots directory |
| Registry (`registry.py`) | `app.state.registry` | `load_registry`, `load_bot`, `reload-registry` | the bots directory; requests and the scheduler read it |
| HTTP API (`api/`) | none of its own | a handler per operation above, each in a thread of a pool | everything above |
| Command line (`cli.py`) | none | `run`, `serve`, `new`, `demo` | everything above |

What is hard, and not reached by the tests:

* **Executor.** Runs, clients, (un)subscriptions and deliveries interleave. The
  outcome of a run is stored and announced in separate steps; queues drop what does
  not fit; `created_at` is read from the wall clock outside the lock; recording the
  outcome is outside the `try`; the process may die at any point. Right means: an event
  never says more than the store; a client sees a run go forward and is told one
  outcome; hooks are tried once and never forgotten; no run waits for a client.
* **Governed source.** Threads share a connection; backend and audit log may raise at
  each step; what the scope check is shown need not be what runs. Right means: no row without its audit row, nothing in the backend that did
  not pass the gates, one thread in the connection, no lock left held.
* **Proposals.** No lock at all, temporary names shared by all writers of a path,
  crashes between file operations, hand edits. Right means: what is live is whole,
  valid and reads the source the author chose.
* **Review.** Runs and decisions are in two databases with a lock each; listings and
  tunings take several transactions. Right means: labels and tallies agree with records
  and decisions, and the recommended threshold is the best one.
* **Authoring.** A look at the directory, up to ten seconds of validation in a thread
  that cannot be killed, then removal and in-place writes, while others do the same and
  the server loads. Right means: no proposal is loaded that was not validated, files of
  two proposals mix only where two wrote at once, sessions end.
* **Registry and its users.** Reloads take as long as the directory does, overlap,
  meet bots that do not load, or that abort the whole load, and replace the registry
  without a lock while requests and the scheduler hold records of it. Right means: a
  reload serves what is on the disk, takes nothing back that the disk still has, and
  nobody ever misses a bot that was there all along.

## 2. Modules

Components, each with its MC module (constants and instances for TLC):

| Module | Models | State and actions against the code |
|---|---|---|
| `RunIds` | runs, bots | ids in the order of their strings |
| `ResultStore` | `store.py` | `status`, `created` are the columns; a method is one step, as it is one transaction under the lock. `Latest`, `Completed` are `latest`, `history` |
| `EventBus` | `sinks.py` EventBus, `sse_stream` | `subscribers`, `queue`; `publish` is a snapshot under the lock, then one step per `put_nowait` |
| `Webhooks` | `SubscriptionStore`, `deliver_webhooks` | `registered`; `outbox` and `tried` of each delivery thread |
| `Executor` | `executor.py` over these three | `phase[r]` is the program counter of a run's thread, one step per store transaction, queue operation or call of the bot. A store method may raise before its commit or in the read after it (`StoreFaults`), a thread may not start (`ThreadFaults`); `Crash` and `CliExit` end processes. A thread that went through is `ended`, one that did not is `cut` |
| `RunLifecycle` | the promise | a run is absent, running, then finished; a client is told nothing, that it is underway, then its outcome |
| `ExecutorProps`, `MCExecutor` | | properties of the executor and the refinement mapping to `RunLifecycle` |
| `GovernedSource`, `MCSource` | `source.py`, `sql.py`, `audit.py` | `pc[c]` is where the access of a thread is: scope check, guard, lock, backend, audit. A statement is what the scope check is shown of it (`parses`, `refs`) and what runs (`kind`, `reads`), as `sample` and `stats` check one text and run another; masking may raise after the row. `log` holds the audit rows of each access; the refinement mapping to `AuditedReads` |
| `AuditedReads` | the promise | an access ends in one step, with what the caller gets and the audit rows it leaves; no gates, lock or backend |
| `AtomicFile` | `_atomic_write` | names, temporary names, inodes and descriptors |
| `LiveRuleset` | the promise | a live document, what is offered, what an approval took; no files, no half-done calls |
| `Proposals`, `MCProposals` | `proposals.py`, `merge_ruleset` | one step per look at the file system; `Fail` ends a call anywhere; `EditByHand`; the refinement mapping to `LiveRuleset` |
| `Ruleset` | `ruleset.py` | validation, criteria, unsupported rules and signals as operators on rules and rows; a value is what the operators look at, one of them an integer `float()` overflows on; a rule's output may name a `rule_id`, which overwrites the rule's own in its signals |
| `RulesetRun`, `MCRulesetRun` | `run_ruleset`, beside `Proposals` | the hot read, then the query and the evaluation, which may overflow |
| `Signals` | `signal.py`, `prediction.py` | operators on scores in units of 10^-7, finer than any rounding in the code |
| `Tuning`, `MCTuning` | `tune`, over `Signals` | operators, with an unrounded reference (`F1Best`, `BeatenByAtMost`) |
| `Review`, `MCReview` | `review.py` and its endpoints, over `ResultStore` and `Tuning` | one step per transaction: look-up, save, the three reads of a listing, the history and each run of a tuning. A run stores what `Result` makes of its bot's scores |
| `BotsDir` | `bots/<id>/` | entries of the directory, descriptors |
| `Authoring`, `MCAuthoring` | the agent loop, `propose_bot`, `_validate_run`, `_write_bot`, `create_bot`, `load_registry` | `pc[a]` is where an author is (`source` while a tool call waits for the data source); `worker[a]` its validation thread; the server's load is one look or read per step, and may abort (`LoadAborts`). A file two descriptors were written through holds `Torn`; `overlapped` says that two authors were writing at once |
| `Serving`, `MCServing` | `create_app`, `load_registry`, `reload-registry`, `build_scheduler`, `trigger_run` | `registry`, `jobs` and the records requests hold; `pc[p]` is where a reload is: the listing (`Listings`), one step per directory, then the assignment, then the answer; a directory that is `fatal` aborts it. Jobs are those of an embedding program, or none. Whole bots come and go (`Authoring` has the files) |

How they compose: `Executor` is built from `ResultStore`, `EventBus` and `Webhooks`;
`Review` from `ResultStore`, `Signals` and `Tuning`; `Proposals` from `AtomicFile`;
`RulesetRun` puts runs and the `Ruleset` engine beside `Proposals`; `Authoring` is built
from `BotsDir`, with the server's load among its authors.

Proof modules: `ExecutorProofs`, `GovernedSourceProofs`, `ProposalsProofs`,
`RulesetRunProofs` (over `ProposalsProofs`), `AuthoringProofs`, `ServingProofs`,
`TuningProofs` (about operators only) and `ReviewProofs` (over `TuningProofs`).

Operators marked *Mutant* in a comment are wrong variants of the definition below
them. They are used by no specification; replacing the definition by its mutant has to
break the property `PROJECT.json` pairs with it, which shows that the property depends
on that line of the code.

## 3. What is checked

| Run | Instance | Distinct states | Shows |
|---|---|---|---|
| `Executor.cfg` | two runs of one bot (API, scheduler) and a run that is refused, one client, a queue of two, two clock values, store faults before and after a commit, a run thread that may not start, one crash | 623,076 | types; events reflect the store; `CompletedIsVisible`; `OutcomeIsFinal`; refinement of `RunLifecycle` |
| `ExecutorProgress.cfg` | two runs (API, CLI), one client, a manifest sink and a subscription, a delivery thread that may not start, fair threads | 63,524 | `HooksFollowRecord`, `HooksAccounted`, `NoHookForgotten`; `RunsFinish`, `HooksTried`, `OutcomeReachesReader` |
| `Source.cfg` | a scoped bot and the data browser, two tables, seven statements (one a `stats` whose column reads another table), failing backend, masking and audit log | 228,561 | `BackendReadsInScope`, `BackendIsExclusive`, refinement of `AuditedReads`; `AccessEnds` |
| `Proposals.cfg` | module `MCRulesetRun`: two clients, one of whom approves, four rulesets (one that shares an id and is invalid), three calls or edits, runs without limit, six query results (one with an integer beyond `float()`) | 249,767 | `LiveIsReviewed`, `ApprovedBeforeGone`, refinement of `LiveRuleset`; `RunsFindAValidRuleset`, `ReportedNeverEmits`, `NothingLost` |
| `Review.cfg` | two runs of one bot, a limit of one, three results (with scores to round and to clamp, one without a score), one reviewer, three saves, two reads | 576,619 | `DecisionsHaveCases`, `LabelsMatchRecords`, `QuietTuningIsComplete`, `TallyMatchesCases`, `RecommendationIsSound`, `RecommendationCarriesOver` |
| `Authoring.cfg` | an agent session of two turns and a caller that overwrites or creates, five proposals (one is the template), one load, deaths anywhere, a source that need not answer | 485,015 | `OnlyValidated`, `ValidMeansWritten`, `LoadedIsOneProposal`, `SessionsEnd` |
| `Serving.cfg` | two directories, two manifests (either may be in both; one has a crontab nobody can read), two deployments, two reloads, one caller, restarts without limit | 1,428,058 | `QuietReloadServesDisk`, `JobsAreNeverAhead`, `NoStepBack`, `UntouchedIsFound` |

Every property's comment states it in words, with the lines it is about.

**Bounds and why they are enough.** *Executor:* ids and stamps are the only data the
store compares, so two runs and two stamps give every order (tie, forward, back); a
queue of two with four events per run overflows; one crash leaves every phase in its
row. `Crash` keeps the rows: the store's URL is assumed to name a file, as an operator
who wants to find results again has to see to; with the default, in memory, nothing
outlives the server for a client to be told wrong. The client may leave and come back
without limit. *Executor progress:* a subscription beside a manifest sink gives a delivery with a hook tried, one
waiting and one removed. *Source:* two accesses per
thread put one caller's second access beside the other's first; the statements cover
in scope, partly out of scope, a write, and one that does not parse. *Proposals:* three
calls or edits allow stage, edit and approve; `Inodes` has one per name, temporary name
and descriptor, so creation never runs out. The query results have no rows, no entity
id, missing columns, nulls and numbers written as text; between them the rulesets use
every operator, "and", "or" and no criteria. *Review:* a limit below the number of runs makes the crowding happen, case numbers
beyond the result are requested, and three saves decide two cases and change one of
them. *Authoring:* two authors make every race of two; two turns let a session try again.
*Serving:* two reloads overtake each other, two directories may declare one bot, and two
deployments change one twice or both, a removal or a fatal one included; requests are independent of each other, so one
caller, who may ask any number of times, is enough.
The bounds on calls, saves, reads, loads, accesses and deployments are the only ones that cut
behaviours short; where one stops the system the cfg says so and switches the deadlock
check off. In the executor, proposal and serving runs the check stays on.

**Fairness.** Threads are scheduled (`ThreadFairness`, `WF` of a source access, `WF` of
an author). Beyond that:
`RunsFinish` assumes that a pipeline that was called returns, because the executor
gives it no timeout (`executor.py:130`), and nothing of the clients; only
`OutcomeReachesReader` assumes a client that keeps reading. `AccessEnds` assumes that the backend answers or
raises; accesses are bounded, so nobody is starved of the lock for ever, which
`threading` does not promise either. `SessionsEnd` assumes that the model answers and
that the timeout passes, and nothing of the pipeline under validation nor of the source:
a tool call waits for its lock and backend without a timeout (`source.py:105`,
`tools.py:80-95`), so an endless statement, or a validation thread left behind inside
the source, holds a session for ever, and the property says "ends, or waits for the
source for ever".

**Refinements.** `Executor` implements `RunLifecycle`: `seen`, what a client was told
last of a run, is mapped to `told`. `GovernedSource` implements `AuditedReads`
(`ImplementsAuditedReads`): an access is `asked` from its call to its end, of the kind
its statement has for its caller, and `ended` pairs each result with the audit rows
written for it. Gates, lock and backend are stutters; only the step an access ends
in is `Answer`. What the promise says is that the pairs are the right ones: nothing the
gates allow is refused, nothing they forbid is read, and only a log that cannot be
written, or a masking that raises, separates a result from its row. "Allow" is by what
the gates are shown; that a `stats` is shown one text and runs another is the
disagreement below. `Proposals` with one approver implements
`LiveRuleset` (`ImplementsLiveRuleset`): `live` is the document behind the name
`ruleset.json`, `offered` the rules of the staged file if it is whole and valid, `taken`
those an approval has read. Calls, temporary files, failures and hand edits are stutters
or offers; only the `os.replace` of an approval is `GoLive`, and it keeps the source of
the document it replaces.

### Disagreements found

Each is a run in which TLC finds the quoted statement violated.

| Run | Statement | What the code does |
|---|---|---|
| `ExecutorStuck.cfg` | "runs never stick in `running`" (`test_executor_robustness.py:3`) | `mark_completed` is outside the `try` (`executor.py:148`): a result `json.dumps` refuses ends the thread with the row in `running` and no event |
| `SourceScope.cfg` | "rejects any query that reads a table outside the declared" allowlist (`source.py:10-11`) | `stats` has `SELECT * FROM {table}` checked (`source.py:183`) and runs its column expression (`source.py:130-131`): a subquery in it reads any table |
| `ProposalsTorn.cfg` | "a concurrent reader never sees a torn file" (`proposals.py:38`) | two approvals share a temporary file; the second truncates what the first moves into place |
| `TuningRounded.cfg` | "recommends the F1-best threshold" (`review.py:6-7`) | F1 is rounded to four digits before the maximum is taken; with 77 accepted and 3 rejected cases the worse threshold wins the tie |
| `RegistryAborts.cfg` | "one broken bot must not take down the whole registry" (`registry.py:69`) | only `Exception` is caught, and `exists()` is outside the `try` (`registry.py:65`): a pipeline that exits when imported, or a directory that may not be looked into, fails the reload, and a server that starts with it does not come up |

Two more were read in the code and have no run of their own. A subscription is fetched
"on every run completion" (`SECURITY.md:35-36`), but the scheduler's job passes neither
bus nor subscriptions (`scheduler.py:36`): `Executor` models it (`HasBus`, `HooksFor`).
"Every access writes exactly one audit row" (`docs/spec.md:242`), but a scoped statement
that does not parse, and a `schema()` the backend refuses, write none: `AuditedReads`
allows for these two.

## 4. What is proved

For any runs, bots, clients, hooks, tables, statements, rulesets and bounds, from the
assumptions the modules name (`ExecutorAssumption`, `StoreAssumption`,
`HookAssumption` and the others: shapes of the constants, which TLC evaluates on
every run).

**Executor** (`ExecutorProofs`).
* `TypeCorrect`.
* `OutcomesAreFinal`. The store would let a finished row be overwritten; that no thread
  does is `PhaseInv`, which ties the phase of a thread to the status of its row and the
  event it publishes.
* `EventsNeverAhead`, from `PhaseInv` and the stability of what a row says
  (`RecordedIsStable`).
* `CompletedRunsAreVisible`, from `LatestCovers`: the latest is at least as new, by
  `created_at` as the store orders rows, as every completed run. `Newer` is a total order
  on rows (`NewerIsTotalOrder`) and a step adds or completes at most one (`RowsOnlyGrow`,
  `LatestMoves`). After the clock stepped back the latest may be a run begun earlier.
* `HooksAfterRecord`, `HooksAreNotForgotten`, from `HookInv`.
* `StuckRunsHaveACause`, `HooksAreAccountedFor`, from `EndInv`, which says of a thread that
  is over what it can have left behind. `NeverStuckRunning`, the documented promise that
  `ExecutorStuck.cfg` refutes, fails for five causes only: the server died, the store
  raised, the thread did not start, `json.dumps` refused the result, or the pipeline
  raised what `except Exception` does not catch. `NothingSticksWithoutFaults` is the promise with these excluded, as
  assumptions on the constants. `HooksAccounted` is the other side of `NoHookForgotten`:
  the delivery of a run that went through starts with every hook of the manifest.
* `ExecutorImplementsLifecycle`: every step maps to a step of `RunLifecycle` or a
  stutter. It needs `StreamInv`: in each queue an outcome comes last among the events of
  its run, and none is left once the client has received it.

**Governed source** (`GovernedSourceProofs`). `TypeCorrect`; `BackendReadsOnlyInScope`
and `BackendStaysExclusive`, from `GateInv` (what each `pc` knows of the statement and
the lock), which also gives `LockIsNeverLeftHeld`. With `AccessesGoForward`, a measure every
step of an access lowers (`StepsLeft`), that is the safety half of `AccessEnds`; what is
left to fairness is that the thread runs and the backend answers. `RowsAreAlwaysAudited` (`RowsAreAudited`, which the refinement implies and
so no run checks separately), from `LogInv` (the row of the current access is
written exactly at its end). `BackendReadsOnlyInScope` says "declared tables only"
where the check was shown every table that is read; `ScopeIsEnforced`, without that
condition, is the claim `SourceScope.cfg` refutes. `ImplementsAuditedReadsHolds`: every step maps to a step of
`AuditedReads` or a stutter. It needs `VerdictInv`, what each `pc` knows of the verdict the
statement will get, and the lemma `EndingAnswers`: an ending step appends one result and
leaves the rows of earlier accesses alone, so it is one `Answer`.

**Proposals** (`ProposalsProofs`). `TypeCorrect`; `LiveStaysReviewed`, from `HandInv`
(what a client holds at each step) and `SideInv` (the inodes behind the two files stay
apart, and every whole document on the side of `ruleset.json` was reviewed);
`LiveStaysWhole`, for any number of approvers of whom no two are between the open and the
`os.replace` of their writes at once (`WritesApart`), from `WholeInv` (the temporary file
is empty while it is open and whole afterwards). Without that hypothesis it is false, as
`ProposalsTorn.cfg` shows, so a lock around the write of `ruleset.json`, or temporary
names of their own, is what the code lacks for it. `ApartImplementsLiveRuleset` needs
more, that no two approvals have read a proposal and not put it live (`ApprovalsApart`),
since an approval merges into the document it read at its start. `OneApproverIsApart`
discharges both for one approver (`ImplementsLiveRulesetHolds`, the instance TLC checks).
The refinement adds `ApplyInv`: what an approval is about to put live has the source of what is live, and
is what its temporary file holds. Lemma `LiveKept` says that nothing else changes the
live document. `ApprovedBeforeGoneHolds` needs no bound on the approvers: only the
client that acts stays undisturbed, so `KnowsInv` (up to `os.replace` the staged file is
the one the approval read, after it both files have the same rules) has to survive that
client's own steps only. The inodes of the two files being apart (`SideInv`) is what
keeps the write of the one from changing the other.

**Ruleset runs** (`RulesetRunProofs`, which builds on `ProposalsProofs`: runs leave the
files alone, so `BotSpec` implies `Spec`). `BotTypeCorrect` with `EvaluatedInv`: what a
run returns is the evaluation of one validated ruleset. `ApartRunsFindAValidRuleset`,
under `ApprovalsApart`: a `ruleset.json` that a run finds parses and validates
(`LiveStaysWhole`, `LiveStaysReviewed`), and a live document keeps its source
(`SourceIsSettled`, from the refinement's `ApplyInv`), so one found without a source
never gets one and a run under way reads the source of what is live.
`RunsAlwaysFindAValidRuleset` is its case of one approver. Runs still fail where there is
no `ruleset.json`, where the first one came from an approval and has no source, and where
a value overflows `float()` in a ruleset that validates (`ruleset.py:235`).
`ReportedNeverEmitsHolds` rests on the ids of a validated ruleset being distinct: a
signal that carries a reported rule's id is of another rule whose output names that id,
since the output is spread over the signal last (`ruleset.py:265`). `NothingIsLost` rests on two lemmas: a criterion
passes only where its fields are (`PassesWhereFieldsAre`), so a rule that holds of a row
is evaluated (`HoldsIsEvaluated`). It needs rows of one query to have the same columns,
and a baseline only where the operator uses it: a criterion such as `gt` that names an
absent `baseline_field` makes `_unsupported_reason` (`ruleset.py:152`) skip a rule that
could fire.

**Authoring** (`AuthoringProofs`). `TypeCorrect`, together with `ControlInv`: a call in
hand is still to be answered, a session that asks the model has turns left, and whoever
is past validation holds a validated proposal or the template. The types alone are not
inductive: the answer to a call decrements the calls pending, and a turn is counted up
to its bound. `ValidationHolds` (`OnlyValidated`), from `ValidInv`, which adds the
manifest a load has read and not yet used, and from `TornInv`: as long as no two authors
were writing at once every file holds one text (`StageInv`, below, leaves an author that
fills a file the only one that has it open). It holds for any number of sessions, callers
and deaths; once two did write at once a mixture of validated texts may be there and be
loaded.

**Files of a bot** (also `AuthoringProofs`).
`ValidMeansWrittenHolds` and `LoadsAreOfOneProposal`, from `FilesInv`: an author that is
alone, or the only one that writes, knows which files it has written and that the others
are absent, since `_write_bot` empties the directory before it makes one (`StageInv`); a
manifest and a pipeline with text in them are of one proposal, and a load that nobody
wrote beside has read what is still there (`LoadInv`). A load during a write may take the
old manifest with the new pipeline, also from a single author: nothing is claimed of it.
The files that are absent have to be in the invariant because an author that dies leaves a bot half
written, and the next one starts from what it left.

**Registry and its users** (`ServingProofs`). One inductive invariant says how old a
record can be: versions on the disk grow, nothing loaded is newer than the disk
(`LoadedInv`) or older than what the scheduler has from the same directory (`JobInv`),
and a registry in the making is no older than the one it replaces while no other reload
ends (`AloneInv`). A load that is past the directory of a record whose files were left
alone keeps its bot, from there or from a later directory (`Passed`, `Keeps`). From it
`TypeCorrect`, `QuietReloadsServeTheDisk` (with `PutServes`: putting the next directory
into what was served gives what is served with it), `JobsAreNeverAheadHolds` and
`NoReloadStepsBack`. All are about reloads that are answered: a fatal directory aborts a
load and leaves the registry alone. Versions are compared within a directory. Where
several declare one `bot_id`, the bot may go back to an older version when the directory
it was served from is changed, and a job may then be ahead of what is served.
`UntouchedIsAlwaysFound` needs `UntouchedInv` and, at a start,
that of finitely many directories that declare a bot_id one is the last (`ServedFinds`,
from the library's well-foundedness of strict inclusion between finite sets).

**Review** (`ReviewProofs`). `TypeCorrect`, `DecisionsKeepTheirCases`,
`LabelsAlwaysMatch`, `QuietTuningsAreComplete` and `TalliesMatchCases`, from one
invariant: only a completed run has records (`RunInv`), what a reviewer found stays there
(`LookInv`), what the tuner took along is what the runs hold (`TodoInv`), and a read
nobody wrote beside has seen the present (`QuietInv`, `ListInv`). `TallyCounts` turns
"total minus reviewed" into the number of cases shown as pending.

**Tuning** (`TuningProofs`), about the operators, for any finite set of labels and any
sequence of signals. `RoundedIsNear`: rounding a fraction is off by a half at most, so,
with F1 as the fraction `Twice / Size`, `RecommendationIsSoundFor`: four digits hide at
most one unit of the last. `RoundedOfEquals` (rounding looks at the value and not at the
terms) gives the tie rule: of thresholds exactly as good the highest is recommended.
`OneIsRecommended` finds the maximum without induction over the labels: the sets of those
that come before a threshold are finite, strict inclusion between them is well founded
(a library theorem), and a minimal one is empty. `SignalsAreOnTheGrid` and
`PrintedThresholdCarriesOver`: three digits survive being printed with six. `ResultSorts`:
`result()` keeps what the threshold leaves, each once, by falling score and stably; the
place of a signal is the number of those ahead of it.

**Recommendations of the review** (`ReviewProofs`). `RecommendationsAreSound` and
`RecommendationsCarryOver` put the two together: labels are finitely many
(`LabelsOfIsFinite`) and carry scores of records (`LabelsAlwaysMatch`), which are on the
grid (`SignalInv`). Their hypothesis `FromSignals` says that runs store what `signal()` and
`result()` frame. A bot that writes score dictionaries of its own is outside it: the
executor stores what it gets, and scores with more than six digits would be rounded when
the threshold is printed. TLC's instance satisfies it, `MCReview` makes its results that way.

**Only model-checked.** Liveness (`RunsFinish`, `HooksTried`, `OutcomeReachesReader`,
`AccessEnds`, `SessionsEnd`), which TLAPS does not do under fairness. The five
disagreements are counterexamples, found by TLC. Every other property a run checks is
stated by a theorem.

## 5. What is not modelled

* Labels, evidence and bands of signals, outputs of rules but for a `rule_id` in them,
  error texts, floating point beyond the
  rounding of scores and F1. A proposal's rules and metadata are one value, so a lost
  edit of one metadata key is not seen.
* The detail of `ctx.emit`, which is spread over the event last and may overwrite its
  `type`, `run_id` or `bot_id` (`executor.py:101`): bots in the model emit none.
* Which attempt the `propose` endpoint reports: the first `register_bot` step of the
  session, though a later one may be the one that was accepted (`routers.py:386`). No
  document says which it should be. The transcript of a session and the conversation
  store, which nothing in the program uses.
* Endpoints that only read one store (lists of bots, runs, subscriptions, schemas), the
  identifier checks of the data browser, authentication and settings.
* What a left-behind validation thread goes on reading (the source it shares need not
  answer); when cron fires. Pipelines that never end when they are imported: a load just
  does not go on.
* sqlglot's parse trees, pydantic's manifest schema, database drivers, language
  models: a verdict or an answer each.
* Masking and the sensitive-term filter (stateless functions of one row or one text),
  the texts of templates, demo data.

## 6. Where it could go on

Done, in this order, each component with its proofs: executor, governed source,
proposals, review and tuning, authoring and the loading of bots, ruleset evaluation and
ruleset runs, the live ruleset as an abstract specification, the registry and its users.

Open:
1. The reported attempt of `propose`, once its intention is written down.
2. Abstract specifications of authoring (a bot is absent, half written or one proposal)
   and of the registry (what is served is what some scan of the disk gave).
3. What liveness rests on short of fairness: a measure that every step of a run or of a
   session lowers, as `StepsLeft` is for an access.
