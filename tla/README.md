# TLA+ specifications of the Causal Delay Copilot core

This directory specifies the Core service of the Causal Delay Copilot (the
Python package `src/backend/app`, with the operator scripts that touch its
state) in TLA+. TLC checks the modules on small instances; TLAPS proves theorems
about them for every value of the constants.

Contents: the system, the modules and how they correspond to the code, the runs
with their bounds and fairness, where the code and the documents differ, the
proofs, and what is left out.

## The system

The Core is one FastAPI process over one SQLite database (one connection, one
re-entrant lock, `BEGIN IMMEDIATE` transactions) and one artifact directory. It
starts one runner thread, which starts at most one compute subprocess. A
launcher, a setup script and recovery commands work on the state root from
other processes.

| Component | State it keeps | Operations | Correct when |
|---|---|---|---|
| Durable compute queue, `operations.py` | table `durable_operations` | admit, retry, cancel, claim, finish, interrupt queued, recover, runner loop, bounded stop | limits hold, terminal rows never change, nothing is stranded, cancelled work never succeeds, the stop receipt is true |
| Compute worker, `operation_worker.py`, `analysis_runs.py` | its temporary directory, the sealed bundle | run one request through the stages of the engine, write the result | one alive at a time; no reading of the future; no effect without its evidence |
| Quarantine of operations, `artifacts.py` | `temporary/`, `runs/`, `quarantine/` | move material into an event, write its manifest | artifact state of the row agrees with the directories |
| Lifespan and stop endpoint, `main.py` | the process | start, recover, serve, stop, end | a stop ends; what it left is recovered before the next serves |
| Publication, promotion, cleanup, `references.py`, `artifacts.py` | objects, run directories, leases, quarantine, registry | publish, verify, promote, quarantine, retain | retention never removes pinned evidence, failures keep their material, what is suppressed stays so |
| Workspace ledger, `workspace.py`, `audit.py` | workspaces, mutations, results, Gemini attempts, occurrences | issue, resolve, expire, charge | every rolling quota holds, replays charge nothing, refusals leave no trace in a live workspace |
| Evaluation heads and currentness, `decision_support_heads.py`, `decision_support_currentness.py` | series heads, invalidations, checks, claims | publish, invalidate, check, claim | heads form one chain, one answer per check |
| Briefs, selections, monitoring, drafts, manager decisions, historical replay | briefs, selections, matches, draft versions, decisions | render, accept, match, prepare, edit, dispose, decide, replay | what is acted on was current in the same transaction; history does not change |
| State root, recovery and baselines, `state.py`, `recovery.py`, `start.ps1`, `setup.ps1` | sealed root, archives, baseline, pending marker, lock | initialise, archive, reset, restore, start | after a crash at any step nothing is lost and some command leads on |
| Decision-support rules, `decision_support_*.py` | none | eligibility, value, comparison, outcome of a case | what is recommended is undominated; what came late never helps |
| Intake and canonical lineage, `ingestion.py`, `lineage.py` | datasets, runs, snapshots | import, bind, read | contradictions reject the run, repeats deduplicate, fields are observed |
| Eligibility, validity, diagnostics, refuters, risk | none | functions of records | an effect is shown only with its evidence; a correction never strengthens |

Interactions: HTTP handlers, the runner thread and the stop procedure meet in
the database under one lock, but a handler may be several transactions and the
runner touches files between them. The worker shares only the filesystem. The
stop endpoint calls the runner's stop and then asks the server to exit; start-up
recovery runs before the runner thread exists. Retention and promotion are
commands of their own: the mutation lock of `artifacts.py` is local to each
process.

Hard behaviours: the runner reads the stop event, the row and the return code
one after the other; results are published before they are committed and counted
after; quarantine and publication are several file moves; a stop that times out
leaves its thread running; callers read their clock before they wait for the
lock; a draft awaits its provider between the check and the store; a recovery
command may die between any two renames; the process may die between any two of
these; a store call may raise.

## Modules

| Module | Role |
|---|---|
| `DurableOperations`, `OperationLifecycle` | queue, runner, worker, quarantine, stop, recovery; what a client is promised about its operations |
| `StateRecovery` | state root, archives, baseline, marker, launcher and recovery commands |
| `ArtifactPublication` | publishers, readers, promotion and retention over one artifact root |
| `WorkspaceLedger` | workspaces, their counters and rolling quotas |
| `CurrentAdvice`, over `AdviceDependencies`, `MonitoringTriggers`, `HistoricalReplay` | the log of evaluations, invalidations, checks, claims, selections, matches, drafts and decisions; the standing of dependencies; triggers; what the log replays at a cutoff |
| `FreshAnalysis`, over `SupplierLoad`, `PopulationEligibility`, `EvidenceRules` | recorded order lines, the analysis of them, its evidence verdict, its reproduction |
| `OptionDecision`, over `OptionEligibility`, `OptionComparison` | the evaluation of a case of the ten options |
| `DatasetIntake`, over `SourceMapping` | imports of the three sources and the lineage they publish |
| `MC*` | instances for TLC |
| `*_proofs` | invariants and theorems |

### Durable operations

One action is one SQLite transaction or one filesystem effect, so TLC explores
every interleaving of handlers, runner thread, worker and stop procedure.

* Rows: `state`, `artifact`, `failure`, `owner`, `kind`, `queuedAt` are columns;
  `recorded` is the set of `workspace_results` rows of terminal fresh bundles.
  `ABSENT` is an operation id that was not handed out yet.
* Files: `temp`, `run` are `temporary/<operation>` and `runs/<operation>`;
  `bundle` is the sealed bundle the worker writes; `direct` and `events` are the
  quarantine events, `open` meaning that the manifest is still missing.
* The runner thread: `pc` is its place in `_run_loop`, `_execute` and
  `_quarantine_and_finish`; `cur` and `outcome` are the local variables
  `operation` and `terminal_state` (`RESCUE` is the `except` branch).
* The stop: `stopPc` is its place in `stop`; `pending`, `interrupted`, `late`
  are the snapshot and the two lists of the receipt; `todo`, `rec`, `recOk` are
  the loop of `recover_interrupted_operations`, shared by start-up and by a stop
  that finds the thread dead.
* The process: `phase`, `freshOpen` (admission gate), `stopEvent`.

`Crash` loses all memory and keeps rows and files. A raising call is an action
of its own (`PrepareRaises`, `PublishRaises`, `StoreRaises`, `ClaimRaises`,
`QuarantineRaises`, the second disjunct of `RunnerFails`); a quarantine that
raises may have moved any prefix of its material. Request payloads, hashes and
idempotency keys are left out: a replay returns the stored row and changes
nothing. A request may always be refused for reasons outside the queue, which is
stuttering. A deadline may pass at any turn of the polling loop. Whether the
ledger refuses to count a bundle is a free choice (`RecordRefused`).
`FRESH_REPRODUCTION` takes the path of the other kinds. Two assumptions narrow
the faults: a killed subprocess is gone within the second that `_terminate`
waits for it, and the stop's own store calls do not raise.

### State recovery

The prepared local deployment only. One operator runs either setup or one
recovery command at a time; the launcher may come in between any two of its
steps. The lock file of a live launcher makes a rename of the root fail, as
Windows does, and a copy that includes it: the copy of a missing baseline at the
start of the Core may fail for it (`CoreRefuses`). Copies that recovery commands
make under a foreign lock are taken to succeed; they only read the root. A tree of files is a version and a health (`SOUND`, `CORRUPT`,
`FOREIGN`); `busy` stands for unfinished rows or an unreadable database. One
action is one effect on the disk, and a crash may follow each. A setup that dies
while it initialises leaves a corrupt root. A reset whose baseline is corrupt
moves the baseline and then, in a step of its own, the current root, sound or
not (`ResetDisplacesRoot`). Dead ends by design, excepted by
`SomethingLeadsOn`: a pending marker over a busy or unreadable root, no copy
left, a foreign root.

### Artifact publication

Publishers are children of the worker, one at a time; readers live in the Core;
the retention command runs anywhere, so its steps interleave with all of them. A
retention period outlasts every execution, command and read (`Tick`), and the
cutoff of a command lies in the past. `Whole` abstracts what `_verify_bundle`
accepts; `PinnedRuns` is the least set closed under what sealed manifests name.
`evidence` is a history variable: the runs that a row or the registry named, or
their targets, when a command read its pins, if they were whole then. An object
that a publisher has put into the store and may still take back (`Provisional`)
does not make a run whole: a run whose object an earlier command removed looks
whole again while a failing publisher has just restored that object. One
reference is promoted. Promotion takes no lease and is not excluded from
retention. Readers read recorded runs and the registry: the verification of
every run directory (`references.py:1329-1381`) has no caller in the
application. In `DurableOperations` the quarantine of a run by a reader that
finds it damaged (`analysis_runs.py:5649-5657`) is left out with the damage that
it needs; here it is `Read`.

### Workspace ledger

A call reads its clock before it waits for the lock, so a call is `Call` and a
serving step, in any order of the clocks. `Spent` counts every row from one span
before the caller's clock on, with no upper end: that is what makes a stale
clock harmless. Keys of Gemini charges are fresh. The availability of a
reference and the state of the operation of a bundle are free refusals. A touch
with an older stamp may move `last_seen` back. Workspaces of an older release
count until they are inactive. Artifacts and operations of a workspace are
charged like the modelled kinds.

The lookup of a workspace commits the retirement of a lapsed one in the
transaction of its caller and then raises (`workspace.py:386-392`). Most callers
look up before they write. A brief and an approval do not: a brief publishes or
withdraws an evaluation first (`governance.py:1233-1324`), an approval writes its
check and claim (`manager_decisions.py:1270-1288`). `WrittenAhead` names the kind
of call that has, `Expire` commits what it wrote, and `occurrences` holds the
audit rows by which the leftover shows. The configuration's `VIEW` leaves out
what no step reads (the answer of the last call; when a retired workspace was
last seen, and its release); TLC evaluates action properties on every step all
the same.

### Current advice

Handlers run on one event loop and the store calls in them are synchronous, so a
handler is one step; only the preparation of a draft awaits its provider and is
two. The state is the log `audit_events` with the rows of the same transactions;
an occurrence is named by its position, and the head of a series is derived. A
request has one series. Render and observation times come from the client; the
operations that the server times use `expired`. Refusals and replays are not
steps, but for one case: a brief or an approval whose workspace turns out to
have lapsed when the mutation is charged leaves its evaluation, invalidation or
check behind (`LapsePermittedBrief`, `LapseDeniedBrief`, `LapseApproval`), and
sets `retired`, after which nothing is a step. `publish_decision_support_currentness_authority` and
`publish_decision_support_evaluation` have no caller in the application; they
are modelled because everything else rests on them.

Monitoring: an observation is registered before it is matched and cannot be
changed; a candidate stands for the one selection published of it; attempts are
named by their order. For `DATE`, `DATETIME` and `INSTANT` values `EQ` never and
`NEQ` always accepts, `IN_SET` works; `Accepts` says so.

### Fresh analysis

`Record`, `Correct` and `End` build the record of order lines; `Admit` freezes
a request and reads it at a cutoff through the same operators as the code
(commitments, loads, outcomes, populations), then takes any outcome the stages
may have. Departures from the outcome of a supported analysis are bounded, and a
role other than the hero, a subject, or a request on the last day each cost one.
Adapters, diagnostics and refuters are abstracted to the results they can
report. The 14 diagnostics, the verdict and what is shown of it are functions of
those. Release changes are left out: a state root belongs to one release.

### Option decision

Operators evaluate a case at a cutoff: validation of its records, governance
links, rules, values, comparison, outcome. `Init` is a complete case; every
other action but `Evaluate` and `ReviewAgain` withdraws, delays or changes one
record. The rules of a rubric read their inputs by equality or by bounds (what a
rule `accepts`), and only the `needed` inputs must be there. Amounts are small integers, receipts
and reasons are left out, and the 4096-bit limit of rationals is not reached.

### Dataset intake

Adapters are functions from rows to records and findings (`SourceMapping`); the
import is a transaction that may fail before or in its last commit. One
canonical field stands for the nine, a supplier carries its group, a digest is
the content it covers, and the files of a release are fixed (`bundled`). The
hero mapping is checked for its shape only, so one with other paths is another
source. The zone that Olist assumes is always found: the locked dependencies
bring the database. The run that a lineage names beside its version is the
earliest by its start, a reading of the clock, so `ViewLineage` lets it be any
run of the version; `PublicationIsFirst` speaks of the version and its records.
Quota refusals and refused workspaces are no steps.

## Runs

| Run | Bounds | Shows |
|---|---|---|
| `queue_safety` | 2 analyses, 2 workspaces, limit 1 + 1, one bundle per workspace, 2 faults, 1 crash, 1 stop | no stranded row; counted bundles stay; artifact states are true; one subprocess; STOPPED is quiescent; the receipt is true; cancellation is honoured; terminal rows are frozen; executions only advance and let go of terminal rows |
| `queue_admission` | 3 operations, 3 workspaces, 2 queue times, 1 crash | the capacity limits, and the refinement of `OperationLifecycle` |
| `queue_liveness` | 2 operations, 2 workspaces, 1 crash, 1 stop, fairness | every operation ends |
| `state_recovery` | 1 write of data, 1 crash, 1 damage, 1 change of release | archived bytes are preserved, no Core serves over the gap of a reset, receipts are faithful, something leads on, the setup baseline stays |
| `torn_baseline` | 1 crash | violation, see below |
| `artifact_publication` | 2 runs sharing an object, 2 periods, 1 damage, 1 retention command | pinned evidence stays, a failed publication keeps its material, what is withdrawn is not served again |
| `workspace_ledger` | 2 callers, 2 workspaces, 2 keys, spans of 1 and 2 ticks, 3 instants, 2 releases, in the second one caller at a time | rolling quotas, counters and rows, refusals without trace in a live workspace |
| `current_advice` | 2 briefs, 2 keys, 2 candidates, 1 change, 2 checks, 8 rows | single chains of heads and drafts, one answer per check, acts on the current head, stable replay |
| `fresh_analysis` | 3 lines, 2 suppliers, 4 days, 2 departures | effects need evidence, reproductions repeat the verdict, worsening never strengthens, later facts do not change readings |
| `option_decision` | 10 options, both modes, 1 departure | late records never help; recommendations are undominated, a real choice, and stay when they get cheaper |
| `evaluation_lost` | 2 options, 2 departures | violation, see below |
| `dataset_intake` | 3 sources, files of at most 2 rows, 2 keys, 2 workspaces | contradictions reject the run, repeats deduplicate, fields are observed, the first publication stays |

Why these bounds. Two operations are what the claim rule, the queue order and
the one-running limit relate; a third workspace is needed to be refused for
capacity rather than for its own outstanding operation. One stop covers a
process's life, because the receipt is memoised. One crash gives a recovery, and
a recovery that crashed is the same recovery again; two faults reach the rescue
of a failed execution and the second exception that leaves it. In the state root
one crash inside a recovery command is followed by a command that starts from
what it left. In the artifact root two runs that share one object reach
every conflict between a publisher and a pin, and two periods separate what is
old from what is new. In the ledger two ticks of clock against spans of one and
two ticks put two charges into, across and outside each span. In the log eight
rows hold a brief, its acceptance, a draft, an edit, a decision and a second
evaluation. Two rows of a file reach every pair of findings the adapters relate.
The bounds that the proofs remove are listed under "Proofs".

Deadlock is not checked where the system comes to rest: when all bounded counters
are used up, when all operations have ended, or in `queue_safety` when a dead
runner thread rests for ever.

Symmetry is used over names that are compared only for equality (operations,
workspaces, keys, candidates, suppliers, selections), and never in the liveness
run. Claims are ordered by `queuedAt`, with the tie between equal times (broken
in the code by the random id) left open.

Fairness (`FairSpec`). The runner thread, the worker's deadline (`PollStops`),
recovery and the stop are straight-line code with bounded waits: the poll
interval, the operation deadline and the join timeout. `ProcessStep` holds the
end of the process after its stop, and the next start. The start is an
assumption about the environment, not about this code: the deployment starts a
failed process again (`railway.toml`: `ON_FAILURE`, three retries) but not one
that was stopped in order and exits with status 0, for which somebody must run
`start.ps1`. `EveryOperationEnds` says of a process that is started again that
what it finds ends; that it is started is not concluded. Nothing is assumed of clients, the worker, faults,
crashes or stop requests. There are no faults in the liveness run, because one
store error while claiming ends the runner thread and then nothing ends: a
hazard listed for `operations.py:1416`.

`OneComputeSubprocess` needs `OrphanWorkers = FALSE`: the subprocess is started
without a job object or process group, so on a host that lets it survive a
killed Core it may write while its successor runs.

## Where the code and the documents differ

Two runs show a disagreement.

* `torn_baseline`: `finalize_baseline_after_setup` interrupted inside its
  `rmtree` leaves a directory without manifest and state. `_baseline_exists`
  says there is none, `_create_baseline` refuses to make one, and every later
  setup or start ends with `CORE_STATE_BACKUP_INVALID`, although
  `restore_baseline` answers `RUN_SETUP_PS1_WHILE_ONLINE`.
* `evaluation_lost`: an option that fails a rule and lacks a value input ends the
  evaluation with a `KeyError`, because reasons are sorted by a key that only
  some of them have.

The others were met while reading and are modelled as the code behaves.

Operations and artifacts:

* A cancelled run whose quarantine failed keeps serving its estimate under
  `FAILED` (`analysis_runs.py:5874`; the reproducibility contract, lines 88-89,
  says otherwise). Recovery repairs the quarantine of `INTERRUPTED` rows only.
* A reset over a corrupt baseline moves the current root aside too, even when it
  is sound (`recovery.py:197-207`), and leaves neither in place; the bytes
  stay in the quarantine.
* A bundle that the ledger refuses after `SUCCEEDED` is quarantined although it
  was served; the artifact contract calls transitions one-way (257-263).
* A crash after the worker sealed is recorded `RUN_EXECUTION_INTERRUPTED`;
  `RUN_DELIVERY_INTERRUPTED` (contract 1046-1048) is never written. A crash
  between `SUCCEEDED` and the count leaves a bundle no limit counts.
* Retention deletes old objects that a kept but unpinned run shares, although
  the contract (944) deletes only objects whose reference count is zero.

Advice and monitoring:

* A brief or an approval that is refused because its workspace has lapsed keeps
  the evaluation, head, check and audit rows that it wrote before the lookup
  (`governance.py:1233-1324`, `manager_decisions.py:1270-1288`): the lookup
  commits the retirement with them (`workspace.py:386-392`). The same commit
  retires the workspace for good and every handler resolves the workspace first,
  so nobody is shown them; no document promises otherwise.
* `EQ` and `NEQ` on dates are accepted by validation and never compare
  (`monitoring.py:710-724`; trade-off contract 1817-1819).
* A recommendation that a trade-off selected can be rendered and drafted, but
  never approved nor monitored (`manager_decisions.py:562-577`).
* A repeated old render replays its `PROVEN` claim after an invalidation, so
  stale evidence can reach a draft; an invalidation may also land during the
  awaited call.
* Replay is unavailable for good once an evaluation follows an invalidation,
  and at a cutoff between a snapshot and its decision; it ignores invalidations.
* An evaluation that consumed a dependency that was not effective is never
  current.

Analysis:

* A trimmed row in a supported primary cohort fails finalization. A subject of a
  run that is out of domain fails the run. A sensitivity cohort with one empty
  arm fails the run.
* Support gates carry `supported` where eligibility requires `passed`, and the
  overlap gate is always `unavailable`: every option variant is scientifically
  unavailable. A bundle is released when its rows froze without an error,
  whatever eligibility concluded (`analysis_runs.py:1095`).
* Support of late risk counts untrimmed rows; failing benchmark groups are
  dropped and can raise the grade; a suite submitted by the client bypasses
  eligibility; `record["exposure"]` is overwritten per variant;
  `math.ceil(0.67 * n)` is exact except at n = 1500 below 2000.
* A commitment corrected after the cutoff unresolves a load that was resolved
  (`risk.py:755-768`), against the temporal contract (146-147);
  `ReadingsIgnoreLaterFacts` excepts it.

Options:

* `OPTION_RETIRED` is unreachable, because a library with an inactive option is
  refused. A missing composite link while a composite review exists refuses the
  whole case. A refused value record without a `basis` is a second `KeyError`
  that ends the evaluation (`decision_support_value.py:1433-1435`). A rule may be
  met with the time of another option
  (`decision_support_constraints.py:1612-1615`). `VALUE_UNCERTAINTY` says
  "incomparable" of dominated options; a robust third option of the frontier may
  appear in neither candidate; the composite is always incomparable in time.

Intake:

* A repeated hero row whose revision precedes its promise is rejected as
  `EVENT_ID_CONTENT_CONFLICT` although exact repeats deduplicate (lineage
  contract 385); `RepeatedRowsDeduplicate` excepts it (`LooksAhead`).
* Public adapters publish kind and milestone, and Olist its known and available
  times, without source observations; `FieldsAreObserved` excepts them.
* `ADAPTER_CONTRACT_VIOLATION` quarantines a record below the registry's minimum
  of rejecting the run, and the quarantined row's line is still published. Rows
  without identity collapse into one finding, so `quarantine_records`
  understates. A promise revision with an unknown target is never reported. A
  number in a timestamp column is invalid without finding. The order of rows
  decides which commitment dates the observations of a line. A failed key
  replays `FAILED` with status 200.

## Proofs

Eight modules hold theorems. They assume nothing but the named `ASSUME`s of the
modules, which say what the constants are: kinds and bounds
(`ConstantsAssumption` twice, `ContentAssumption`, `BoundAssumption`,
`ValuesAssumption`, `MinHistoryAssumption`, `DeparturesAssumption`,
`PartsAssumption`, `CutoffAssumption`, `OptionsAssumption`, `CasesAssumption`,
`NoneIsNoRow`), which run, if any, a run reproduces (`ReproducesAssumption`), that
records consumed or live hold one resolution per identity and that a reference
names one observation (`AdviceAssumption`), that the groups of checks are finitely many and none is a
named check (`GroupsAssumption`), what adapters may return
(`AdapterAssumption`), and that a source file lists its rows and a hero row its
events (`SourcesAssumption`: the adapter fails the run on anything else and reads
other events as none). TLC evaluates each of them in a passing run. The theorems
remove the bounds on the numbers of operations, workspaces, runs, objects,
cases, rows, source files, their rows and events, commands, crashes and faults
that the runs need.

Each module proves one inductive invariant and derives its properties from it.

`DurableOperations_proofs`: `IInv == TypeOK /\ ControlInv /\ RowInv /\
BundleInv /\ FileInv /\ ReceiptInv`. No property is inductive alone, because
most are about moments between two writes: `ControlInv` ties the program counters
of the runner, the recovery and the stop to their local variables, `RowInv` says
who will answer for a row that executes (the runner, or the recovery that still
has it to do), `BundleInv` keeps the execution in progress apart from the bundles
already counted, and `FileInv` carries the result of a quarantine from the file
system to the row. From it: no stranded row, counted bundles stay, true artifact
states, quiescent stop, true receipts, frozen terminal rows, and one subprocess
if subprocesses die with their Core. `Refinement` maps every step to one of
`OperationLifecycle` or a stutter; `CapacityBound` and `CancellationHonoured` are
promises of that module which the implementation inherits.

Liveness of the queue stays with TLC, but not the steps its argument rests on.
`ExecutionsEnd`: `Ahead` counts the steps the runner may yet take with its
operation, ten at most; every step of the runner, errors included, lowers it,
nobody else moves the runner, and the row is terminal when the runner lets go of
it, unless the thread or the process dies. `RunnerIsReady`: the two steps that
need something find it. In particular `runs/<operation>` never exists before the
runner publishes, so the error that `_publish_success` raises for it
(`operations.py:1577-1578`) cannot occur, which is why the model has no branch
for it. `PlaceInv` is the strengthening. What is left to fairness is that
the runner takes its steps and that a process that went down comes back.

`StateRecovery_proofs`: types, preserved bytes, who may serve over the gap of a
reset, who holds the root while it is moved, where a move has landed, and what
leads on from each intermediate state of the disk. `SomethingLeads` needs
`~TornRemoval`, the switch that the violation run sets.

`ArtifactPublication_proofs`: two facts about time. A retention command works
with a cutoff before the current period and so never touches what a publisher has
just moved. An item is never older than the seal of its run: when retention may
delete the item, its earlier sweep has removed the run directory, or the run is
pinned. Without `Provisional` in `Whole` the statement that pinned evidence stays
was not inductive for more than one cleanup, which is how that case was found.

`WorkspaceLedger_proofs`: quotas, counters and payments. The quota holds for any
order of clocks because a call counts the rows after its own clock too.
`RefusalsLeaveNoLiveTrace` shows that the rollback of a refused call never has a
sweep to undo, and that the rows a lapsed call leaves are in the workspace that
the same step retires; nothing is ever added to a retired one, because every step
that stores looks up a workspace that is not retired.

`CurrentAdvice_proofs`: the log only grows, so the argument is about rows.
`RowAllowed` says which row may follow which log, each action appends at most
three allowed rows, and an allowed row keeps the invariant of the log (heads,
checks, claims, drafts, acts, horizons). A claim directly follows the check that
accepted it. `ReplayKept` is about `HistoricalReplay` alone: what is read up to a
cutoff is the same in every log that continues.

`FreshAnalysis_proofs`: a sealed result is a function of its request, stage and
checks, and a reproduction agrees with its target in all three, which is all that
`ReproductionRepeats` needs. `EvidenceIsNeeded` and `WorseningIsMonotone` are
facts about the diagnostics, check by check; the exception is that an opposite
interval excuses opposed comparisons, but then the evidence is insufficient. For
`LaterFactsIgnored` the record is shown to hold its facts in the order they became
known, so the facts known by a cutoff are a prefix.

`DatasetIntake_proofs`: `IInv` covers names and views: a run that succeeded
names a version that stands, a version is named first by the run that published
it, and the views of a version show what stands. `PublishedAccepted` adds what a
version is: the bundle of a source that was read whole and rejected by no
finding. The other properties of the intake are then facts about bundles, so
about the folds of the adapters. Each fold is shown to be a walk, a function of
the number of rows (or, in a hero row, of events) already read. What a step of
the walk adds, it keeps: records only grow (`Grows`), and what a row found and
observed is held by every later bundle, or a finding rejects it (`Gathered`,
`HeldNow`). At the end of the walk this says for every row what
`ContradictionsRejectRun` asks, and for every record that some row wrote each of
its fields, which is `FieldsAreObserved`. A repeated row finds everything it
writes in place and changes nothing; where its revisions point, the walk that
reads it again settles on the same event, as long as no revision stands before
its promise (`LinksSettle`). Hence `RepeatedRowsDeduplicate`.

`OptionDecision_proofs`: the last verdict is that of the case as it stands.
Dominance is a strict order on profiles, so every eligible option that is not on
the frontier is dominated from it, and ties are broken by place, so every best
choice exists. Then a recommendation other than to monitor is the option that
dominates all others (`RecommendationsUndominated`), whichever branch published
it; the branch that recommends a sole member of the frontier cannot be reached.
A cheaper option keeps its results but for its worth and its cost, both better,
so it alone dominates still (`CheaperKeepsRecommendation`). For
`LateDoesNotHelp`: a standing fact is the only candidate of its rule and in time,
so it is the only candidate among the facts in time; a sound record is not late.
Everything that an evaluation reads from a case, a link, a review or a value
record is walked once.

Induction over data is used in three places of the models: the batteries of
checks (`FreshAnalysis`), the frontier (`OptionDecision`), and the rows and
events of a file (`DatasetIntake`). The argument is a least counterexample
instead of an induction theorem, from the well-foundedness of `<` on the naturals
and of strict inclusion of finite sets.

Only model-checked:

* `EveryOperationEnds`, which needs fairness and `ENABLED`; `ExecutionsEnd` (the
  property `ExecutionsAdvance`) and `RunnerIsReady` prove the single steps behind
  it.
* The two properties that a run violates.

## Not modelled

Numerical estimation, statistics of diagnostics and refuters, the predictive
baseline and the batch evaluation are numerical functions without state that
interleaves; the models take every result they may report. Parsing,
serialization, hashes and receipts are abstracted to what they cover. Local and
reference fallbacks, contracts, settings, errors, security, logging,
qualification scripts and the frontend keep no state of the core. Installation
of packages by the setup is not modelled; its effects on the state root are.
