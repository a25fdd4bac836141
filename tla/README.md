# A TLA+ model of the mechanical design agent

TLA+ modules, TLC configurations and TLAPS proofs for the program in `src/`: an
MCP server and command line with which agents design mechanical parts in
FreeCAD, run static FEA on them and keep knowledge about past designs. The
modules are translated from the code; `PROJECT.json` maps each definition to its
lines.

## Inventory

All paths are under `src/src/mechanical_design_agent/`. The program is a
library behind an MCP server (`server.py`) and a CLI (`cli.py`). Many processes
(several servers, several CLIs, one detached FEA supervisor) share one workspace
directory; there is no daemon, so *files with atomic replacement* and
*OS file locks* are the program's shared memory, and PostgreSQL/Neo4j hold the
knowledge.

| Component | State | Operations | Hard behaviours | What makes it correct |
|---|---|---|---|---|
| **FEA scheduler** (`analysis_coordinator`, `analysis_queue`) | `queue.json`: entries, worker claim, `recovery_required`; `idempotency/<key>.json`; `queue.lock` | `submit`/`retry`, `reconcile`, `_ensure_worker`, `cancel`, `status` | several clients; deaths between file replacements; relaunch races | one run per key, one live run per analysis, a lost run is found and closed, progress |
| **FEA supervisor** (`analysis_worker`, `analysis_worker_control`) | `worker.lock`, its place in the loop, a cancel event, a control socket | `run`, `_take`, `_finish`, `launch_supervisor`, `request_cancel` | death anywhere; stale claims; cancel packets lost or late | at most one serves; it owns what it executes; outcomes are final; a cancel hits only its run |
| **Run records** (`analysis_runs`) | `run.json`, `events` (at most 512) | `change_run`, `record_event` | the last event record closes the run | legal transitions, terminal is final |
| **Analysis store and reviews** (`analysis_store`, `analysis_revision`, `analysis_session`) | `analysis.json`, revisions, review cards | create, `replace` (compare and swap on revision), `rebind_source`, `publish_revision`, `approve` | inputs go stale between check and use | only a current, approved review is solved |
| **Delivery** (`analysis_delivery*`, `analysis_reporting`) | presentation directories, head, index | `finalize_visual`, `_recover_published`, revise, accept | five writes per publication, recovery from any prefix | one head; a completed run is reported once |
| **Process control** (`analysis_process*`, `analysis_native*`, `analysis_scratch`, `analysis_budget`) | owned children, scratch directories | start, poll, terminate, commit | exit against timeout against cancel; orphans | every child is accounted for; one outcome each |
| **Numerical pipeline** (`analysis_execution`, `analysis_pipeline`, mesh, loads, deck, results, validation...) | values of one execution | generate, solve, converge, judge | tolerance at a boundary | the verdict follows the criteria |
| **GUI evidence, viewer** (`analysis_gui*`, `analysis_viewer`) | viewer process, evidence | open, view, close | viewer dies or outlives its owner | evidence belongs to the run shown |
| **Configuration, qualification** (`analysis_configuration`, `analysis_qualification*`, `analysis_runtime*`...) | local configuration files | configure, qualify | identity drifts after qualification | a solver is what was qualified |
| **FEA service/CLI** (`analysis_service`, `analysis_cli`) | none | argument checks | - | - |
| **CAD design session** (`design_session`, `approval_semantics`) | `design.json` and `model.FCStd` per design, `.design.lock` | `start`, `get`, `record_knowledge`, `record_result`, `confirm`, `record_lesson_review` | lazy invalidation; the model edited at any time | what is recorded is about the model that was validated and confirmed |
| **Design lessons** (`design_lesson_workflow`) | the review in the session, immutable card files in `lesson-review/` | `confirm`, `decide` | several sections of the session lock per call; session and PostgreSQL are two stores; retries | a card is published once, or declined, never both |
| **Design knowledge** (`design_knowledge`) | none | retrieve | - | - |
| **Knowledge repository** (`knowledge_repository`, `knowledge_service`, `knowledge_matching`) | PostgreSQL tables | publish, set status, supersede, query | concurrent transactions, idempotent retries | published knowledge is reviewed knowledge |
| **Projection, migrations** (`projection`, `migrations`, `database_bootstrap`) | Neo4j graph, migration table | rebuild, bootstrap | stale rebuild wins; concurrent bootstraps | the graph follows the records |
| **Product family knowledge** (`product_family_knowledge`) | one state file per family | analyse, review, publish | published then changed; publish and record are two writes | published is immutable |
| **Long-term migration** (`long_term_knowledge_*`) | export bundle, target database | export, back up, create, import, validate | death between steps | nothing lost, nothing twice |
| **Secure file system** (`secure_fs*`) | directory entries, lock files | publish new, replace, lock | crash atomicity, races on names | each operation is all or nothing |
| **Workspace bootstrap** (`workspace_bootstrap`, `bootstrap_*`, `config`) | template files, manifest | initialise, resume | death halfway, two initialisers | manifest implies complete |
| **Standard parts** (`standard_part*`) | provider configuration | configure, look up | compare and replace | - |
| **FreeCAD discovery, runner** (`freecad_*`) | child process | find, run with timeout | timeout against exit | - |
| **FCStd inspection, assembly metrics, tool profiles, hashing** | none (pure) | inspect, measure, select | limits | result follows the definition |

How they interact: a client approves a review (*store*), submits (*scheduler*),
which freezes inputs into a run record and launches the *supervisor*; the
supervisor runs the *pipeline* through *process control* and ends the run or
leaves it `awaiting_visual_review`; *delivery* finalises it after the *viewer*
was used. The *scheduler*, *supervisor*, *store* and *delivery* all write
`analysis.json`, under `queue.lock`. The *design session* feeds *design lessons*
and these, with *product families*, the *knowledge repository*, from which
*projection* builds the graph.

The *workspace*, the *catalog of parts* and the *FreeCAD* executable are what a
project is set up with; everything the processes share lies in *managed files*.

The hazards of this code, each at its line, are in `PROJECT.json`, with the
properties that would catch them.

## Modules and plan

| Module | Models | Checked in |
|---|---|---|
| `FeaScheduler`, `RunLedger` | queue, supervisors, run records; what they promise | `scheduler_*` |
| `AnalysisReview` | reviews, approval, publication and acceptance of reports | `analysis_review`, `retries` |
| `RunExecution` | one execution: stages, processes, checkpoints, evidence | `execution` |
| `LessonWorkflow` | confirmation and decision of design lessons | `lesson_review`, `retries` |
| `KnowledgeBase` | database, family onboarding, lessons, graph, retrieval | `knowledge_graph`, `platform` |
| `ManagedFiles`, `AtomicStore` | file operations as system calls; what they promise | `files` |
| `LongTermMigration` | `knowledge-migrate` | `platform` |
| `Workspace` | initialisation, catalog binding | `platform` |
| `FreeCADTrust` | which executable is trusted and run | `platform` |
| `DesignStart` | how a design comes to be on disk | `platform` |
| `PartCatalog` | registration and copies of standard parts | `platform` |

`Platform` (of which `MCPlatform` is the small instance) and `MCRetries` put components
that share no state side by side: the initial state says which of them a behaviour is
about, the others rest. The other `MC` modules extend the module they are named after.
`AnalysisReview` and `FeaScheduler` describe `analysis.json` from two sides: the
scheduler takes reviews and deliveries as the actions `Revise`, `Approve`,
`Finalize` and `Recover`; the review module takes the supervisor as `Execute`.
`LessonWorkflow` and `KnowledgeBase` meet in the table of lessons, of which the
first keeps the rows of one card and the second the status and the graph.

Theorems about a component are in its `_proofs` module; the scheduler's are in three
that build on each other: `FeaScheduler_proofs` (processes), `FeaSchedulerRuns_proofs`
(run records) and `FeaSchedulerAnalysis_proofs` (analyses); those about the parts of
`Platform` are together in `Platform_proofs`. Every safety property a run checks is
proved. What would come next: that `LessonWorkflow` and `KnowledgeBase`, which share the
table of lessons, change it in the same way.

No module declares a RECURSIVE operator, so that all of them can be proved about.

## FeaScheduler

### Correspondence

| TLA+ | code |
|---|---|
| `queue`, `recovery`, `claim` | `queue.json`: `entries` (`after` keeps their order), `recovery_required`, `worker` |
| `run` | `run.json` of each run: `status`, `worker_claim`, `cancel_requested`; `evidence` is what can be shown of it: nothing, the sealed execution, one version of its report, several without `delivery-head.json`, or a head |
| `analysis` | `analysis.json`: `active_run_id`, `latest_run_id`, approval, `status` |
| `index` | `idempotency/<key>.json` |
| `outdated` | the runs whose request no longer matches the current review and source |
| `owner` | the OS lock `worker.lock` |
| `sup`, `client` | where each process is; they are gone when it dies |
| `signals` | cancel packets on their way to a supervisor's socket |

A handler that mutates files holds `queue.lock` (`scheduler_guard`) throughout,
so it is one action. It makes several atomic file replacements, and the process
may die, or a write may fail, between any two: the action's parameter `n` (or
`finished`) says how many were made. `n` at its maximum is normal return;
any other costs one of `MaxCrashes`. Because the lock is released by the OS at
death, a half-made handler followed by anybody's next handler is exactly what
the program can meet.

A `submit` is four such sections, between which others run: `Reconcile`,
`Ensure*`, then a check outside the locks (`CheckSubmit`), then
`CommitSubmit`/`CommitExisting` with the compare-and-swap on the analysis
revision (`fresh`, reset by `Noticed` when anybody replaces `analysis.json`), and
`Ensure*` once more. `EnsureLaunches` selects a claim; `LaunchSpawn`,
`LaunchReturns`, `LaunchRaises`, `LaunchSpared`, `LaunchFailed` are
`launch_supervisor` and its caller's `except`. A supervisor is `Boot` (takes
`worker.lock`), `CheckClaim`, `PublishReady`, then `Take`/`Finish` per run, then
`Stop` and `Exit`. `CancelQueued` and `CancelActive` are the two branches of
`cancel`. `Revise`, `Approve`, `Finalize` and `Recover` are the other writers of
`analysis.json`, with the guards they have there. `Finalize` is the locked section of
`_publish` for a paused run, of which a death leaves the version of the report with its
entry in the index, then the completed run, then the head, then `analysis.json`;
`Recover` is `_recover_published`, which refuses a completed run of two or more versions
without a head (`SelectsVersion` is `_selected`).

### Abstractions

- The phases of one execution (mesh, solve, results) are the status `running`;
  they change nothing the scheduler looks at.
- Time: a claim `starting` counts as young as long as `EnsureNothing` says so
  and as older than 30 s as soon as `Unattended` is enabled: both are possible
  at any moment. The 8 s launch deadline may expire at any moment.
- A probe of `worker.lock` by a client (`_observe_worker`) can make a booting
  supervisor's `try_lock` fail: that is `BootBlocked` without an owner.
- Acceptance and revision of a delivered presentation also replace
  `analysis.json`, and `latest_delivery` is not kept: they act on runs whose analysis
  was released, and at most refuse a waiting commit, which `Revise` and `Approve` make
  happen too. `AnalysisReview` has them.
- A fresh claim uuid is a member of `Workers` without any trace left
  (`Fresh`), so that a small set can stand for an unbounded supply.
- Definitions marked *Wrong* are slips a programmer could make in the definition
  that follows. They are not reachable from `Spec`; each breaks a property.

### Runs

Deadlock checking is on in every run.

| Run | Bounds | Shows |
|---|---|---|
| `scheduler_crashes` | 1 analysis, 2 keys/runs, 2 workers, 1 client, 2 crashes; the first run may use up its 512 records | `TypeOK`, `WorkerInv` (of which `ClaimPinned`, `RecoveryHalts`, `RunningHasEntry`, `OneClaimed` and `ExecutionOwned` are parts), `EntryMatchesAnalysis`, `ReleasedLater`, `OneLiveRun`, `FrozenInputs` |
| `scheduler_workspace` | 2 analyses, a key/run each, 2 workers, 1 client, 1 crash | `CancelOnlySelected`, `CancelHonoured`, and the refinement `LedgerSpec` |
| `scheduler_clients` | 1 key with 2 candidate runs, 3 workers, 2 clients, 1 crash | `OneRunPerKey`, `ClaimPinned` |
| `scheduler_liveness` | 1 run, 2 workers, 1 client, 2 crashes, fairness | `QueuedProgress`, `CancelEnds` |
| `scheduler_retry` | 1 run, 1 crash | refutes `RetryRemainsPossible` (disagreement 1) |

Why the bounds are enough for the questions. A second crash reaches the death of
the process that recovers from the first, and that of a second publication of a
report. Two keys of one analysis reach a retry
that quotes a parent and the `ANALYSIS_BUSY` conflicts; two analyses reach a
cancel packet that arrives in the next execution. Two runs of one key and two
clients are what a lost idempotency index needs to go wrong. Three workers are
the one that is slow, the one that replaces it and the one that is launched
after both. Permutations of workers and of clients are a symmetry of the
specification and used in the safety runs only.

`RunLedger` is what the scheduler promises of the run records: a run is
executed at most once and alone, it ends once, an accepted cancellation wins over
every result and only a reviewed run is completed. The mapping takes `status`
and `cancel_requested` from `run.json` and the run being executed from the
supervisor that is executing.

### Fairness

`FairSpec` lets living processes make steps: weak fairness per supervisor
(its loop polls), per client for its own next section, and for the delivery or
loss of a packet. Clients are taken to submit again and again, because nothing
else in the program calls `reconcile` or `_ensure_worker`: without a further
submission a queued run whose supervisor died waits, and the code does not claim
otherwise. Strong fairness of `Recovering(c)` says that a client does not always
find the claim younger than 30 s. No fairness is given to deaths, failed writes,
revisions, cancellations or the user's visual review.

The liveness properties have the premise `PromptStarts`: eventually each
supervisor is through its start before the next is launched, and each launcher is
through its 8 s before the next one begins. Both are needed. Launches come 30 s
apart, and two supervisors slower than that can refuse each other forever, the
older holding `worker.lock` without the claim, the newer holding the claim
without the lock; and two clients can exchange each other's claim forever. The
second conjunct says nothing with the one client of the run; that the properties
hold with two clients and one crash was checked once, with an instance too large
to be kept as a run. `QueuedProgress` ends in "taken up, closed or
`recovery_required`": after an interrupted execution the code deliberately waits
for an explicit retry.

### Disagreements

1. **A paused run cancelled halfway cannot be released**
   (`analysis_coordinator.py:325`, run `scheduler_retry`). `cancel` writes
   `run.json` and then `analysis.json`. A death in between, for a run
   `awaiting_visual_review`, leaves `active_run_id` at a cancelled run without a
   queue entry; no operation looks at such a run again and the analysis refuses
   every retry and revision as busy, although "a failed, cancelled, interrupted or
   timed-out solve needs an explicit new retry"
   (`docs/FEA_STATIC_ANALYSIS.md:105`). For a *queued* run the entry remains and
   `reconcile` releases it. `ReleasedLater` says that this (`CancelledHalfway`) and
   disagreement 7 (`Unselectable`) are the only two ways, with up to two deaths, in
   which an analysis stays active with a run that ended and nothing will release it.
2. **Recovery that asks for an impossible retry** (`analysis_coordinator.py:217`).
   `recovery_required`, "Interrupted claimed runs require explicit retry", is
   cleared only by a retry of an interrupted run with unchanged inputs. After a
   revision of that analysis no such retry is accepted and no run of the
   workspace starts. (In the model: a state with `recovery` in which every
   interrupted run is in `outdated`.)

Also visible in the model, without a statement in the repository that it would
contradict: recovery replaces `queue.json` twice and a death between the two
replacements loses `recovery_required` (`EnsureInterrupts` with `n = 3`); a
launch failure closes a paused run whose entry a crash left behind as failed
(`LaunchFailed`), though recovery spares it (`Lost`). When `recovery_required` is lost
the interrupted runs still say so in `run.json`, but what was queued behind them starts
without the retry; no property is about it, since nothing says that it may not. `Repaired`
never takes `latest_run_id` from a run that is active (`CanSync`), which
`ReleasedLater` needs of a completion that is to be recovered. The recovery check in
`CheckClaim` and the `ANALYSIS_WORKER_LOST` branch of `_take` are backstops:
`RecoveryHalts` and `OneClaimed` show that other guards exclude the case.

### Proofs

`FeaScheduler_proofs` proves, for all values of the constants that satisfy
`SchedulerAssumption` (any number of analyses, keys, runs, workers, clients and
crashes):

| Theorem | States |
|---|---|
| `TypeCorrect` | `Spec => []TypeOK` |
| `WorkersCorrect` | `Spec => []WorkerInv` |
| `ClaimStaysPinned` | a supervisor past its claim check holds `worker.lock` alone and keeps the claim |
| `RecoveryStopsWork` | nothing is executed while recovery is demanded |
| `OneRunClaimed` | at most one entry is claimed, and none while a supervisor is idle |
| `ExecutionIsOwned` | what is executed is claimed by, and stamped with, its worker |
| `RunningRunsAreFound` | a `running` run has the claimed entry recovery goes by |

The five safety properties are not inductive one by one. That an idle supervisor
meets no claimed entry, for example, rests on the claim being `starting` only
while nothing is claimed, which rests on the probe of `worker.lock` before a
launch, which says something only because everybody past `Boot` holds that lock.
`WorkerInv` is their conjunction with these three links (who holds the lock;
what the claim says at each place of the supervisor; an executing supervisor's
run is the only claimed one). It is an invariant of run `scheduler_crashes` as
well, where wrong variants of the claim, the recovery and the launch break it, and
its proof has one lemma per action, or group of actions that leave the same
variables alone.

`FeaSchedulerRuns_proofs` adds what the files say of each other beside the analyses
(`Recorded`: who has an entry, an index, a cancellation, a packet or a worker) and
proves that every action is a step of `RunLedger`, or leaves it alone:

| Theorem | States |
|---|---|
| `RecordsAgree` | `Spec => []Recorded` |
| `LedgerImplemented` | `Spec => LedgerSpec`: one execution per run, one at a time, final outcomes |
| `CancellationsWin` | an accepted cancellation is never overtaken by a result (`CancelHonoured`) |
| `OnlySelectedCancelled` | only a run that was named is cancelled, whatever packets race |
| `KeysGetOneRun` | an idempotency key gets one run, whatever crashed between run and index |

The holder of the ledger is the run of the executing supervisor. That it is at most
one is `WorkerInv`; that a supervisor ends only what it holds, and that a packet for
the previous run of a worker does not cancel the next one, is what `Recorded` adds.

`FeaSchedulerAnalysis_proofs` ties `analysis.json` to both. Its invariant
`AnalysisInv` is `EntryMatchesAnalysis`, `FrozenInputs` and `ActiveWorks`: an analysis
is active only with a run of its own that is the latest and has an entry, is paused, or
was completed or cancelled from its pause. What such a run can show is `EvidenceInv`
(`EvidenceShown`): a paused run has its sealed execution, a completed one a version
of its report; a paused run with a version is the trace of one death, and a completed run
of several versions without a head that of two. `ReleasedInTime` follows from both: a completion with one version or a head is
one that `_recover_published` accepts. Every handler is shown to *synchronise* the runs of
a set and to drop no other entries (`Syncs`, `Drops`); whatever does that keeps the
invariant, by the steps the ledger allows.

| Theorem | States |
|---|---|
| `AnalysesAgree` | `Spec => []AnalysisInv` |
| `EntriesMatch` | an entry is the only one of its analysis, which is active with it or with nothing |
| `OneRunLive` | an analysis has at most one run that is queued, executing or paused |
| `FrozenRuns` | no revision or rebinding gets under such a run |
| `EvidenceShown` | `Spec => []EvidenceInv` |
| `ReleasedInTime` | an analysis stays active with an ended run only while its entry or a completion recovery accepts is left, or as `CancelledHalfway` or `Unselectable` |

The liveness properties of the scheduler are only model-checked.

## LessonWorkflow

### Correspondence

| TLA+ | code |
|---|---|
| `file` | the content (SHA-256) of `model.FCStd`, which FreeCAD may save at any time (`Edit`, external) |
| `session` | `design.json`: `model_status`, the SHA-256 of the validated and of the confirmed model, `lesson_review` with the card its path and checksum name |
| `cards` | the read-only files of `lesson-review/` |
| `stored` | the rows of `design_lessons` by the card they came from: the words of the approval, and whether a status was changed since |
| `client` | the tool call each process is in, with the values its local variables carry |

`design.json` is read and written under `.design.lock`, so each method of
`DesignSessionService` is one action. A tool call is several of them:

- `DesignLessonWorkflow.confirm`: `Confirm` (`confirm`), `Context`
  (`confirmation_context`), `Evaluate` (`get`, the evaluation, the card file) or
  `EvaluateRaises`, and `Record` (`record_lesson_review`);
- `decide`: `Decide` (`get` and the early returns; those that leave the review
  alone are `Get`), `Check` (`confirmation_context`, the card, rejection or
  selection), `Record` for a bound selection, `Publish`, `Resume` or `PublishFails`
  (the database), and `Record`.

`Record` serves all the calls of `record_lesson_review`, which replaces whatever
review is on record after comparing the model only. `Get` is also
`design_session_get`. `RecordResult(passed)` is `record_result` with the outcome of
`_check_validation`. `Retire` is `set_design_lesson_status`. `Abandon` is an exception
or the death of the process anywhere between two sections.

### Abstractions

- A member of `Lists` stands for what an evaluation makes of candidates,
  screening, evidence and validation report, that is for the content of a card
  besides its model; `"errors"` and `"none"` are its other outcomes. Title and design
  id are those of the session. `Long` are the lists of ten or more lessons, whose
  ids do not sort by number.
- A member of `Selections` is a list of lesson numbers, `None` the whole card. The
  number checks of `_prepare_selected_review_card` raise (`Abandon`).
- A member of `Texts` is an approval as `classify_approval` reads it; `None` is a
  rejection; an unclear text changes nothing but what `Get` does.
- Evidence files stay where `record_result` found them, and the model file is
  never deleted: their loss makes `_require_confirmable` raise, as an edit does.
- A corrected card (`review_revision_text`) is corrected in turn only into itself, a
  bound for TLC.
- The transaction of `publish_design_lesson_review` is one step, which commits and
  answers (`published`), commits and loses the answer, or does neither
  (`PublishFails`). Of two concurrent publishers the primary key lets one commit.

### Runs

| Run | Bounds | Shows |
|---|---|---|
| `lesson_review` | 2 models, 1 list, 2 selections, 1 wording, 2 clients, corrections, `Few` | `TypeOK`, `ReviewBound`, `PublishedIsStored`, `CallsBound`, `DecidesAsNamed` |
| `retries`, part "lesson" | 1 model, 1 list, 1 wording, 1 client, corrections, fairness | `RetryEnds` |

Two models reach every way in which a review can be about the wrong one, and a
return to the first; two clients every overtaking of a call by another; two
selections are the one that is bound and the other one somebody decides (refused by
`Agrees`), and two that are bound in turn. `Few` bounds how these meet: a second model, a
second selection and a correction each come without the other two, an administrator
retires lessons only where there is one model and no correction, and one call at a time
corrects. A correction thus meets the decision of the card it replaces, and a second
selection meets a retirement. One list suffices because a base card of a model is unique and cards of two models differ.
The proofs cover all the values without `Few`. Permutations of clients, models and
selections are a symmetry and used in the safety run only. The part in `retries` has one
model: edits are over by its premise.

`DecidesAsNamed` compares what happens to the database and to `design.json` with the
lessons the caller named in the beginning: recording the card on display instead of the
one that was decided (`CardShown`), or leaving out the refusal of a selection other than
the bound one (`AgreesAlways`), breaks it.

### Fairness

`Fairness` says for `RetryEnds`: the session is read now and then (`Get`); every
call ends (`Abandon`, weakly); the user approves again and again in one wording
(`Decide`, strongly, since a read may come between); the call gets through its
checks and to the database, which is not down every time it is asked (`Check`,
`Publish \/ Resume`); and not every call dies just after the database answered
(`Record` of `published`). The code retries nothing by itself: without a user who
repeats the decision, a publication that has to be retried stays so, which
`next_action: retry_publication` says. A database that refuses a card every time, say
for a product family it does not have, is excluded by this fairness. `Alone` is
the premise that nobody else works on the session any more. The conclusion excepts
cards the database holds in other words or another state: disagreement 4.

### Disagreements

3. **A published card can be declined** (`design_lesson_workflow.py:241`). "Clear
   rejection records `declined` and publishes nothing"
   (`docs/ENGINEER_LEARNING_PLAYBOOK.md:46`): after a publication whose answer was
   lost, whose process died before the session was written, or that a further
   `design_confirm` set back to `review_pending`, a rejection is recorded although the
   lessons are active in the database, and nothing withdraws them.
4. **Publication is idempotent only in the same words**
   (`knowledge_repository.py:255`), against `docs/ARCHITECTURE.md:89`: the compared
   rows hold the text of the approval. The same refusal meets whole cards of ten or
   more lessons, whose expected rows are in numeric and whose stored rows in text
   order, and cards of which an administrator changed a lesson.
5. **One file name for the selections of all cards**
   (`design_lesson_workflow.py:373`): the same lesson numbers can be selected from
   one card of a design only.

All three are reachable states of the module (a `declined` session with rows in
`stored`; `Publish` refused; `Check` of a second selection refused).

Also visible, without a property: `decide` takes the words of a decision and not
the card they were about. If another process corrects the pending card in between,
the approval publishes a card that was not displayed, which
`docs/ENGINEER_LEARNING_PLAYBOOK.md:45` excludes; which card a user saw is not part of any
state of the program. The same document (line 59) speaks of an outbox that the code does
not have: the projection is rebuilt from the tables.

### Proofs

`LessonWorkflow_proofs` proves, for all values of the constants that satisfy
`LessonAssumption`, `Spec => []ReviewInv` and from it

| Theorem | States |
|---|---|
| `LessonTypeCorrect` | `Spec => []TypeOK` |
| `ReviewsAreBound` | a pending or decided review is of the confirmed model and its card exists |
| `PublishedReviewsAreStored` | what the session calls published is in the database |
| `CallsCarryCards` | what a call carries between sections is fit to be recorded |
| `DecisionsAsNamed` | a decision that names lessons adds no rows but those it named, and records no other selection |

`ReviewInv` is the conjunction of the four invariants; the last theorem is about steps. `ReviewBound` and `PublishedIsStored` are not
inductive: what `Record` writes was settled one or more sections earlier, so that the
invariant has to speak of the calls in between, which `CallsBound` does. Cards are
never removed and rows never disappear, so one call's steps leave what the others
carry intact (lemma `CallStep`, which every action goes through); that a record is
about the right model is the comparison in `record_lesson_review` (`Recordable`).
`CallsBound` also says that the card a call carries to the database has the selection the
call named, from which `DecisionsAsNamed` follows whatever else is decided by then.
`ReviewBound` compares models and not confirmations, as the code does: a call overtaken
by a new result and confirmation of the same model still records.

`RetryEnds` is only model-checked.

## AnalysisReview

### Correspondence

| TLA+ | code |
|---|---|
| `origin`, `model` | the source file a request names and `model.FCStd`; CAD work replaces either at any time (`CadWork`, external) |
| `analysis` | `analysis.json`: bound source, specification, status, the current revision and its approval, active and latest run, delivery and acceptance |
| `revisions` | the immutable directories `revisions/`, in order of publication |
| `run` | `run.json` with `request.json`; `queued` whether the queue has an entry |
| `figures` | the native reconstructions under `gui/` of a run |
| `versions`, `indexed`, `head` | presentation directories, `by-manifest/`, `delivery-head.json` |
| `receipts` | acceptance records |
| `client` | what a request holds between two locked sections |

A request alternates between long parts without a lock (geometry, preview,
report) and sections under `queue.lock` and the locks of design and analysis. A
section is one action, whose parameter `n` says how many of its file replacements
were made before the process died or a write failed. `prepare` is `PrepareNew`,
`PrepareSource` or `PrepareRebind`, then `Draft` and `PublishDraft`; `approve` is
`Approve`, `ApproveCurrent` and `PublishApproval`; `finalize_visual` is `Finalize`
or, for a completed run, `Recover` and `RecoverPublished`, then `Build` and
`PublishDelivery`; `revise_delivery` is `Recover` with the figures it names and the
same two; `confirm` is `Confirm` and `ConfirmDelivery`. `submit` and the supervisor
appear as far as they create, repair and end runs (`Submit`, `CommitSubmit`,
`Resubmit`, `Execute`, `Cancel`); `FeaScheduler` has their own steps.

### Abstractions

- The state revision is not a number: `stale` says of a client that `analysis.json`
  was replaced since the revision its request quotes. This is what the code
  compares.
- A specification is a number that grows with every draft; whether a draft is
  ready is chosen, but never against `Current`.
- Texts and pictures of a report are left out; a version says whose it is, its
  number and which figures it shows.
- `MaxRevisions`, `MaxVersions` and `MaxDeaths` are bounds, as is that a run has at
  most two reconstructions of its figures.

### Runs

| Run | Bounds | Shows |
|---|---|---|
| `analysis_review` | 2 clients, 1 run, 2 contents, 3 revisions, 2 versions, 1 death; clients and contents are symmetric | `TypeOK` (no reference to what was not published), `ApprovalReviewed`, `DeliveredSelectable`, `HeadComplete`, `AcceptsSelected` |
| `retries`, part "analysis" | 1 client, 1 run, 2 contents, 2 revisions, 2 versions, 1 death, fairness | `PublicationEnds` |

Three revisions are a review, its approval and a later draft; two versions are a
publication and one that revises it; one death is enough to leave each prefix of a
publication, and what follows it is what recovery has to deal with. One run is
enough for the hazards of a publication. What several runs do to one analysis is
checked with `FeaScheduler`, up to the moment the analysis is released; that an orphan's
repair makes a later, delivered run unacceptable (below) needs two runs here and is not in
this run.

### Fairness

`Fairness` for `PublicationEnds`: a call that began goes on until it returns, and
somebody asks again for the publication of a run until it is recorded (strongly,
since CAD work and other calls come between). The code repeats nothing by itself.

### Disagreements

6. **Currentness is checked before the locks** (`analysis_delivery_service.py:223`).
   "Only the exact current completed report may be accepted": `confirm` compares
   the files with the revision in `get_report`, and then takes the locks. CAD work
   in between is not noticed and the report of another geometry is accepted.
   (`ConfirmDelivery` with `origin` changed since `Confirm`; for this reason
   `AcceptsSelected` speaks of the revision in force and not of the files.)
7. **A publication that died cannot always be retried**
   (`analysis_delivery_service.py:154`). The message says "retry report
   finalization; the solver is not rerun". If one publication dies after its
   directory and before `run.json` names it, and the next one dies after `run.json`
   and before the head, there are two versions and no head: none is selectable, and
   the analysis stays active with a run that is completed. `PublicationEnds` holds
   for one death and would not for these two; `DeliveredSelectable` is about at most
   one death for the same reason. Run `scheduler_crashes` reaches it
   (`FeaScheduler!Unselectable`), and shows that one death does not.

Also visible: `Resubmit` of an orphaned request points `latest_run_id` at it, after
which a later run that was delivered can no longer be confirmed or recovered.

### Proofs

`AnalysisReview_proofs` proves, for any number of clients, runs, contents, revisions
and deaths (`ReviewAssumption`: the null value is none of the values):

| Theorem | States |
|---|---|
| `ReviewCorrect` | `Spec => []Inv` |
| `ReviewTypeCorrect` | `Spec => []TypeOK`: every reference names what was published before |
| `ApprovalsAreReviewed` | the approval in force froze a ready review of what is in force |
| `HeadsAreComplete` | a head is seen only with the index entry and the completed run it stands for |
| `DeliveriesAreSelectable` | with at most one death, the delivery an analysis names can be selected, or a later one |
| `AcceptancesAreSelected` | an acceptance is of what its run selects at that moment, from the approval in force |

`Inv` has four parts. `ClientInv` says what a client holds between two locked
sections: a revision that had the status it read still has it, since records are
immutable, and a run and a version exist where a later section uses them. `ReviewInv`
adds to `ApprovalReviewed` that runs are of approved records and that an approved
record which is the current revision is the approval in force, from which
`AcceptsSelected` follows although `confirm` never compares the approval.
`DeliveryInv` says of every run which prefixes of a publication it can show
(`Presented`): with no death a completed run has a head, with one a run without a
head has a single version, which is why `_selected` may fall back on the completion;
and of the delivery an analysis names that the run selects it or a later one
(`Shown`). It distinguishes no, one and more deaths because the code's fallback does.
Steps that replace nothing but one client's memory, `analysis.json` alone, a revision
or a delivery have a lemma each, and every action goes through one of them.

`PublicationEnds` is only model-checked.

## RunExecution

### Correspondence

| TLA+ | code |
|---|---|
| `changed` | which reviewed files are not what was reviewed: installed package, tools, runtime inventory, files of the sealed attempt |
| `stops` | cancellation, deadline, a budget that is exceeded |
| `scratch` | the root lock of the native scratch |
| `at` | where the supervisor is in `execute_run` |
| `process` | the owned child and its group |
| `rows` | the validated levels of every load case |
| `spoiled` | whether evidence was made by something that had changed |
| `files`, `bound`, `outcome` | files of the attempt, its entry in the run record, the outcome |

`Load`, `EnterAttempt`, then for each level and case the native phases `StartProcess`,
`AfterProcess`, `NextStage` and `ValidateLevel`; `SealAttempt`, `RecordAttempt`,
`Recorded`, `BindAttempt`; then the GUI phase in a transaction of its own
(`IssueRequest`, `EnterGui`, ..., `WriteReceipt`, `WriteExecution`), `Verify` and
`Finish`. An error goes through `Unwind`. `Forced` and `Checkpoint` are the two ways
`BudgetGuard.checkpoint` is called: the second looks at the budgets only when half a
second has passed. `ChildExits`, `GroupKilled`, `Stop`, `Change`, `OtherOwner` and
`Die` are what happens around the supervisor.

### Abstractions

- What the native tools compute is left out: an observed value is 0 or 1, the one
  of level 0 called 0 without loss of generality, and equal values are those that agree
  within the tolerance. Agreement is judged between neighbouring levels, as in
  `evaluate_convergence`, although a tolerance is not transitive.
- A changed file does not become what it was again: one that is put back between
  two verifications is not noticed by the code, and could not be.
- `MaxChanges` bounds the kinds of things that change.

### Run

`execution`: 2 cases, 4 levels (one more than convergence needs, so that an early
agreement, a late one and none all happen), one kind of change, every reason to stop,
fairness. It shows `TypeOK`, `ReviewableSound`, `StopHonoured` and `RunEnds`.

Fairness: the supervisor goes on, a running child is interrupted in the end (every
stage has a timeout), time passes, the guardian is scheduled. Nothing is assumed of
the child or of another owner of the scratch: the wait for its lock is ended by the
deadline.

`RunExecution_proofs` proves, for any number of cases and levels and every change
(`NoneAssumption`: the null value is no outcome):

| Theorem | States |
|---|---|
| `ExecutionCorrect` | `Spec => []ExecutionInv` |
| `ExecutionTypeCorrect` | `Spec => []TypeOK` |
| `ReviewsAreSound` | `ReviewableSound`: what awaits review was validated on every level of every case, by tools that had not changed |
| `StopsAreHonoured` | `StopHonoured`: a cancellation before the end wins, and nothing goes on beside a living process |

`ReviewableSound` speaks of the end of an execution only. The invariant says of every
place on the way what is behind it: the loops over levels and cases have validated
exactly what comes before where they are (`LoopInv`), the files tell the phase
(`FilesInv`), evidence is spoiled only by a change that the next seal compares
(`SpoilInv`), and a process lives only in a stage or while an error is unwound
(`EndInv`). That convergence on every case gives what the review needs is the lemma
`ConvergedRefines`. `RunEnds` is only model-checked.

Also visible: `attempt.json` may stand beside `failure.json`, since one forced
checkpoint follows it; memory above the budget between two probes is not seen; a
guardian killed from outside leaves the descendants of its child.

## LongTermMigration

`source`, `analysis`, `backup`, `target`, `outcome` and `env` are the prior database,
the analysis report, `source-export.json`, the target databases, the execution report
and the environment file. `Analyze`, `Backup` and `WriteAnalysis` are
`--analyze-only`; `Execute`, `Create`, `Import`, `Verify`, `WriteOutcome` and
`CutOver` are `--execute`; `Stop` is an error or a death between any two. The export,
the payload, the constraints of the target schema and the parity probes are
operators (`Export`, `Payload`, `Importable`, `Parity`). Texts, evidence and
authorization travel unchanged and are left out; a row keeps its id, scope,
references, terms and approval.

Run `platform`, part "migration": two operators, two targets, nine sources chosen so
that each rule of the export decides something (a superseded assertion that is
approved no more, families with a common term or of two scopes, a lesson with two
revisions, one that supersedes itself, one whose last revision is not approved),
and the source may become any other at any time. It shows `ExportsSound` and
`CutoverServes`.

### Disagreements

8. **A cutover after the execution** is documented as a third, explicit operation
   (`docs/DATABASE_DEPLOYMENT.md:97-112`), but `--execute --cutover-env` creates its
   target and refuses one that exists (`long_term_knowledge_target.py:311`): a target
   that was executed without cutover cannot be cut over to by the command.
9. **An analysis that passed may not be importable**
   (`long_term_knowledge_migration.py:240`): an approved assertion may refer to a family
   of another scope or to one that is not exported, which only the constraints of the
   target refuse, after the database was created.
10. **The report comes first** (`cli.py:361-374`): it says that the cutover takes
    place, and the command may die before it does.

## KnowledgeBase

### Correspondence

| TLA+ | code |
|---|---|
| `schema`, `family`, `lesson` | the tables of PostgreSQL: `product_families` with `knowledge_assertions`, `design_lessons` |
| `onboarding` | `onboarding/<id>.json`, under a lock that is held across the database transaction |
| `graph` | the nodes this package owns in Neo4j |
| `knowledge` | the knowledge record of a design session |

A transaction is one action. What a process reads in several statements it reads in
several actions, since PostgreSQL's default isolation gives every statement its own
snapshot: a rebuild is `ReadFamilies`, `ReadAssertions`, `ReadLessons` and then
`Rebuild`, and rebuilds overlap. `Bootstrap`/`Migrate` are the check and the
application of a migration. `Publish(o, n)` is the publication of a family, which
writes the database and then the file, with a possible death between. Of a search,
only which rows may be found is modelled; ranking is not.

### Runs

| Run | Bounds | Shows |
|---|---|---|
| `platform`, part "knowledge" | 1 family, 2 analyses, 2 onboardings, 2 lessons, 1 client, `Few` | `PublishedIsStored`, `GraphWithin`, `RowsStep` |
| `knowledge_graph` | 1 family, 1 lesson, 1 onboarding, 2 clients, fairness | `GraphCatchesUp`, `PublicationEnds`, `RowsAreFinal` (`RowsStep`) |

Two onboardings name one family and disagree; two lessons are a lesson and its
replacement; `Few` looks at two onboardings, or at two lessons with one onboarding of one
analysis, since the two meet only in the family. Two clients
bootstrap and rebuild at the same time in `knowledge_graph` only: there a bootstrap that
created the tables anew would break `RowsAreFinal`. Fairness: somebody goes on
rebuilding and Neo4j is not unreachable for ever, somebody publishes an approved family
again. The graph is rebuilt on demand only, so the code promises no more.

### Disagreements

11. **A published family can be reviewed again** (`product_family_knowledge.py:97`).
    "Published Product Family Knowledge is immutable" is checked by `analyze` and not by
    `review` (lines 105-135), after which the onboarding of a published family is
    approved or rejected. The rows in the database do not change (`RowsStep`).

Also visible: supersessions may form a cycle or end in a lesson that was revoked.

## ManagedFiles and AtomicStore

`entry` is what a name leads to (content, read-only, link count), `lock` the OS lock,
`process` what a process holds between two system calls: a temporary file, an open
handle, and whether the name still leads to what it opened (`fresh`). Three names
stand for the ways the program uses the operations: `state` (read and replaced under
a lock, as `design.json`), `card` (published once, as review cards and backups) and
`blob` (ingested under its digest). POSIX links and unlinks, Windows moves, and there
an open handle keeps a name from being replaced: both are in the model, the initial
state chooses.

`AtomicStore` is what the other modules take these operations for: cells that change
in one step. `Atomic` says that the system calls implement it, for every interleaving
and with processes killed between any two. Run `files` (2 processes, 2 texts, 2 deaths,
both platforms) shows it, with `IngestedHolds` and, under strong fairness of `Acquire`
and weak fairness of running processes, `LockPassesOn`: the operating system releases
what a dead process held. Somebody can always do something, so the run looks for
deadlocks as well.

`ManagedFiles_proofs` proves the first two for any number of processes and texts
(`FilesAssumption`: names and processes are told apart from the null value):
`FilesTypeCorrect` (`TypeOK`), `StoreImplemented` (`Spec => Atomic`, the refinement) and
`IngestionHolds`. Each lemma about an action shows at once that it keeps the types and
`FilesInv` and is a step of the store or none, since the one needs the other: that a
replacement of `state` adds one text to what is there now and not to an older version
is the invariant that who reads or replaces it holds the lock; that a card which is
linked is not published twice is that `entry` had no such name, and one process at a
time is between link and unlink; that a sealed `blob` holds what its digest says is
that nothing is made read-only before it was verified. `LockPassesOn` is only
model-checked.

Also visible: a death between the publication of a backup and
`set_managed_file_readonly` (`long_term_knowledge_database.py:99`) leaves it writable
for good, since a second call only compares; a death between link and unlink leaves a
card at two names, which its readers refuse.

Directory moves, removal of trees and the pinning of parent directories against
exchange are not modelled.

## Workspace

`dirs`, `sources` and `manifest` are the managed directories (which are made in a fixed
order), `standard_parts_sources.json` and `mechanical_design.json`; `lock` is the file
`.mechanical-design-init.lock`, which a death leaves behind and somebody removes by hand,
perhaps while its owner lives (`RemoveLock`); `leads` says which directory a catalog path
leads to. `initialize_workspace` is `Begin` to `Unlock`. Configuring a catalog locks
nothing, so that each look at the file system is a step of its own:

| TLA+ | code |
|---|---|
| `Enable`, `EnableLoads` | `load_standard_part_sources`: the file is read, then the root it names is resolved |
| `Resolve`, `Probe` | `_resolve_catalog_root` of what was asked for; `probe_standard_part_catalog`, and whether this is configured already |
| `Disable`, `DisableLoads` | the same load, and whether it is disabled already |
| `ReplaceSources`, `ReadBack`, `Verify` | `_publish_sources`, its second load, and the comparison of what it returned |
| `LoadSettings`, `SettingsLoad` | `standard_part_settings` |

Checked in `platform` (2 users, 1 actor, 1 group, 2 places and a protected one, 1 death;
of the two places `Few` keeps one what it is, places move once there is a manifest, and
the catalog is configured under one of its identities, of which it knows nothing):
`InitializedComplete`, `IdentityStep` and
`CatalogStep`. Two users overlap in every way, also both under a lock that was taken away.
`CatalogStep` says that, whatever place moves or leads into the workspace by then, the
sources are never written with a protected directory, nobody is given one by
`standard_part_settings` or told that one is configured, and who is told "configured" is
told of what the binding led to that it read last. It does not say that this is still the
binding in the file once the answer is given: nothing in the code could.

Also visible: a killed initialization answers every later one with "locked" until the
file is removed; a catalog whose directory vanished can neither be disabled nor
replaced, since the sources are loaded first; a file of sources of the legacy version is
accepted by `load_standard_part_sources` and refused by
`_validate_initialized_managed_state`.

## FreeCADTrust

Four places (argument, environment, `.env`, manifest) name a command and the digest of
the reviewed build (`Setting`). `ReadBefore`, `Pin`, `Probe` and `ReadAfter` are the
validation of one candidate, which `GetDesign` (the lazily made service of a server, with
its double-checked lock), `Status` and `Discover` start; `RunPin`, `Execute` and
`RunReturns` are `run_freecad_script`. Files are installed, overwritten, copied and linked
between any two steps. Checked in `platform` (2 calls, of which `Few` lets one discover, since a
discovery leaves nothing to other calls; 2 places of which discovery meets one twice; 3
builds): `RunsReviewed` and `ServiceStep`. A build is its bytes, their digest and the
version it prints; it does not come back once replaced, so that an executable that is
exchanged for the moment of its execution and put back is outside the model, as it is
outside what the code can notice.

Also visible: a blank environment variable hides the value of the `.env` file;
discovery is not called by the program outside its tests.

## DesignStart and PartCatalog

`DesignStart` is `DesignSessionService.start` read by read and write by write, under the
lock of all designs, while the CAD file is edited: `ReadSource`, `HashSource`, `MakeModel`,
`RehashSource`, `CompareSource`, then the rename (`PublishDesign`); and `record_knowledge`.
`platform` (2 users, 2 intents, 2 edits, 1 death) shows `MadeOfOneSource` and `KeptStep`.
`PartCatalog` is `register_download` and `copy_into_design`, which lock nothing; `platform`
(2 users, 2 provenances, 2 edits, 1 death) shows `CopiesHoldDigest` and `DescribedStep`.
In both, contents are numbers that grow: a file that is edited and edited back between two
reads is the same to the code.

Also visible: a start that is killed leaves its `.creating-` directory for good; a download
that changes between its digest and its reading leaves a wrong file under the digest,
which every later registration of it then refuses; an existing copy in a design is not
compared; a validation report is not bound to the digest of the file.

## The runs `platform` and `retries`

| Run | Shows |
|---|---|
| `platform` | for six parts (`Workspace`, `FreeCADTrust`, `DesignStart`, `PartCatalog`, `LongTermMigration`, `KnowledgeBase`) `TypeOK`, `FilesAgree`, `KnowledgeAgrees`, `NothingExchanged`, the conjunctions of their properties; two users or operators each, which are symmetric, but for the knowledge database with one client |
| `retries` | `RetryEnds` and `PublicationEnds` for the lessons and the analyses |

A part that rests is set to `None`, or to an initial state where none of its fair actions
is enabled, so that the behaviours checked are exactly those of the parts. Each conjunct
has wrong variants that break it. The paths discovery looks at (`ThreePaths`) and the
rows a source may hold (`SmallSources`) are definitions of `MCPlatform`.

### Proofs

`Platform_proofs` proves the four properties of `platform` for any number of processes,
places, contents, builds, rows, targets, edits and deaths, and for every set of sources:

| Theorem | States |
|---|---|
| `PlatformCorrect` | `Spec => []PlatformInv`: the part a behaviour is about keeps its inductive invariant |
| `PlatformTyped` | `TypeOK` |
| `PlatformFilesAgree` | `FilesAgree`: `InitializedComplete`, `RunsReviewed`, `MadeOfOneSource`, `CopiesHoldDigest` |
| `PlatformKnowledgeAgrees` | `KnowledgeAgrees`: `PublishedIsStored`, `GraphWithin`, `ExportsSound`, `CutoverServes` |
| `PlatformKeepsWhatWasFound` | `NothingExchanged`: `IdentityStep`, `CatalogStep`, `ServiceStep`, `KeptStep`, `DescribedStep`, `RowsStep` |

Each part has an invariant of its own, lemmas for the steps that change one process's
memory alone, and a lemma for each action; `PlatformSteps` puts them together. TLC finds
`PlatformInv` to hold on the bounds of `platform` as well. What the invariants add to the properties is what a process relies on between two steps:

- `WorkspaceInv`: directories and sources are never taken away, so whoever is about to
  write the manifest may rely on what it made, although its lock may be gone; sources that
  were read name no protected place and stay well formed; what a place leads to leads to
  itself; a place that is to be bound was found outside the protected trees.
- `FreeCADInv`: a file that is replaced or overwritten is `Newer` (a higher identity, or
  the same with a later build), so that a file which is the same at two looks was there
  all the time, and what was executed in between is what was looked at (`Sound`,
  `Served`). This is where "bytes do not come back" is used. At most one call validates
  a service, under the lock, while there is none.
- `DesignInv`: what was read is no newer than the digest, and that no newer than the
  file, so that the last comparison makes all three the same.
- `CatalogInv`: a stored part is of the digest it lies under or was edited; who is to
  describe or match it has seen that it is there.
- `KnowledgeInv`: rows are never removed and retired lessons stay as they are, so that
  what a client read some time ago may still be written to the graph (`Within`); a
  published onboarding was analyzed and has its row.
- `MigrationInv`: the backup is written once, hence the analysis, the export of every
  execution and the payload of every target that is filled are the same; what is cut
  over to was imported under the constraints and answered every probe. `FamiliesApart`
  derives from the probes alone that no two families of a scope share a term: a
  shared term would make one probe match two ids.

Assumed of the constants, beside that the null value is no other value: a bound is a
number, the id of a family names one row of a source (its primary key) and every lesson
with an approved revision has a latest one, as a finite table has (`SourceAssumption`);
there is a path to look at (`FreeCADAssumption`).

## Beyond the prover

Liveness under fairness and anything with ENABLED is out of this prover's reach,
and so are inductions over data and what RECURSIVE operators compute. So
`QueuedProgress`, `CancelEnds`, `RetryEnds`, both `PublicationEnds`, `GraphCatchesUp`,
`LockPassesOn` and `RunEnds` stay with TLC. Proved are all safety properties of
`FeaScheduler` (with the refinement of `RunLedger`), `AnalysisReview`, `RunExecution`,
`LessonWorkflow`, `ManagedFiles` (with the refinement of `AtomicStore`) and the six parts
of `Platform`. That a finite set of revisions has a highest one would take an induction
and is assumed.

## Not modelled

- floating-point numerics, meshing, the solver and FreeCAD itself: their results are
  verdicts (`RunExecution`);
- the interactive viewer; its use matters to the other parts only in that the scratch
  may have another owner;
- identity and schema checks of FEA configuration and qualification, argument checks of
  the FEA service and command line: no interleaving of their own;
- FCStd inspection and assembly metrics: pure functions of bytes and floating-point
  boxes;
- ranking and term normalisation of retrieval; SQL text;
- registration of tools, tool profiles, packaging, skills, tests, scripts that run
  inside FreeCAD.
