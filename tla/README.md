# A verification of the security assessment dashboard's backend

TLA+ modules that model the backend of *security-assessment-dashboard*
(`src/security-assessment-dashboard/`), TLC configurations that model-check
them on small instances, and theorems about them that TLAPS checks. Paths below
are relative to `backend/` unless they start with another directory.

## 1. The system

A FastAPI application over one SQLite database. A user creates an
*assessment*, adds *targets*, and asks for *tools* (nmap, nikto, nuclei,
sslscan, ...) to be run against them. Each (target, tool) pair becomes one
*job*, a row of `tool_executions`, which one asyncio task executes as a
subprocess. The outputs are parsed into an inventory of hosts, services and
observations, from which a correlation engine derives findings; a *pipeline*
can start follow-up scans from what an nmap job found. One process, one event
loop: what interleaves are coroutines, at their awaits.

| component | state it keeps | operations | how it interacts |
|---|---|---|---|
| Job state machine (`workers/state.py`) | none | transition table, status groups | asked by the manager |
| Execution queue (`workers/queue.py`) | heap of (priority, sequence, job), set of cancellation flags | enqueue, dequeue, cancel_queued | filled by requests, drained by the dispatcher |
| Execution manager (`workers/manager.py`) | semaphore, map of running tasks, cohorts per assessment, safety-net tasks | enqueue, cancel, retry, shutdown; dispatcher loop, worker task, done callback, safety net | writes job and assessment rows; calls plugins, the pipeline hook, the inventory |
| Execution service, planner (`services/execution_service.py`, `workers/planner.py`) | job rows | execute, cancel_job, retry_job, plan | HTTP requests; commit the plan, then call the manager |
| Pipeline (`pipeline/`, `workers/pipeline_hook.py`) | run and stage rows | start, advance after recon, schedule follow-ups, try_finalize | called when a job ends, calls the manager again |
| Assessments (`services/assessment_service.py`) | status, previous status, soft deletion | create, update, archive, restore, duplicate, delete | shares the status with a run |
| Targets (`services/target_service.py`) | target rows | add, bulk import, update, delete | read by the planner |
| Host inventory (`services/host_inventory_service.py`) | hosts, services, technologies, observations | persist (an upsert of a whole scan) | called by a job that produced output |
| Correlation (`services/correlation_service.py`) | findings | correlate: upsert, merge, confidence | called by requests and by the pipeline |
| Plugins (`plugins/manager`, `registry`, `loader`) | registry, configurations | discover, reload, enable | read by planner and manager |
| Process runner (`plugins/sdk/process_runner.py`) | one subprocess | run, time out, terminate | inside a plugin's execute() |
| Tool service, scan profiles, dashboard, queries, API, frontend | catalogue, files, nothing | CRUD and reads | |

What is hard in it, in the order of how much it matters:

* **Four kinds of coroutine share a job.** A request that cancels or retries
  it, the dispatcher that has taken it from the queue, the task that runs it,
  and the safety net that its done callback spawns. Each reads the row or the
  map of running tasks, awaits, and acts on what it read.
* **Cancellation reaches a task at any await**, before its first step (where no
  code of the coroutine runs at all), in a commit (which then has or has not
  taken effect), or after its last write (where its bookkeeping is skipped).
* **A retry can make two tasks of one job**: the queue cannot remove an entry,
  it only flags the job, and a retry lifts the flag.
* **Assessment and jobs change in different transactions.** The cohort that
  tells when a run is over is in memory and is updated after the commit.
* **Nothing recovers rows** of a process that was shut down or died.
* Elsewhere: a pipeline run advanced by the very jobs it schedules, an
  assessment archived while it runs, upserts that look up and then insert, a
  subprocess under two timeouts.

What makes each part correct: a job is executed by one task at a time and never
more than `max_concurrent_executions` are; a job ends, once, in a terminal
status, and stays there until it is retried; an assessment is RUNNING exactly
while a run of it is; shutdown leaves no task behind; a pipeline run completes
when, and only when, its follow-ups have; a repeated scan or correlation
changes nothing; a name in the plugin registry has one plugin.

## 2. The modules

```
LaneQueue <...implements... ExecutionQueue <- ExecutionQueueProofs
    ^    JobStates
    |       ^
ExecutionManager <- ExecutionManagerProofs <- LoneTaskProofs
    ^    :...implements (no cancel, no retry)...> JobLifecycle
MCExecutionManager

Pipeline <- PipelineProofs        PipelineRules
    ^                                  ^
    +------------ MCPipeline ----------+

SchemaModels <- Migrations     HostInventory     CorrelationRules <- Correlation
Assessments    Targets    ProcessRunner    Plugins    ScanProfiles    ExecutionQueue
    ^             ^             ^             ^             ^
    +---------- MCBackend extends all of these -------------+

ServiceProofs extends Assessments, ProcessRunner and ScanProfiles; InventoryProofs
extends HostInventory and Targets; PluginProofs and CorrelationProofs extend the
module they are named after.
```

`A <- B`: B extends A. Three groups share no state in the models: the execution
engine, one pipeline run over jobs that behave as the engine shows them to, and
the services around them, each in a module of its own. A definition whose
comment begins with "Mutant" is a variant of the one below it with a plausible
bug in it, kept to show that a property notices; nothing else uses it.

### JobStates

The statuses, the three status groups and `AllowedTransitions`, as the tables of
`workers/state.py`. `"ABSENT"`, used by the manager, is a row that was not
inserted yet.

### LaneQueue and ExecutionQueue

`LaneQueue` is what the queue promises to the manager: a retry lane and a
default lane, first in, first out, and a set of flagged jobs. `Put`, `Flag`,
`Skip` and `Take` are steps of it and of the manager's actions. `ExecutionQueue`
is the class itself: `entries` of (priority, sequence, job), of which `get()`
takes the least, `flagged`, the set `_cancelled`, and the counter `sequence`, never reset. Its
`Lanes == INSTANCE LaneQueue WITH ...` reads each lane off the entries of one
priority, each at the place its `Rank` gives it (how many come before it), and `ImplementsLanes` says that every behaviour
of the class is one of the lanes. The loop of `dequeue()` is one step per entry
it drops: the manager's dispatcher is the only reader.

`ExecutionQueueProofs` proves, for any number of jobs and entries,
`QueueTypeCorrect`; `LeastUnique`, that `get()` has one answer (`LeastIsUnique`): sequence numbers of
the entries are below the counter and differ (`Numbered`), so the comparison is
never left to the job id, which it ignores; and the refinement `QueueIsTwoLanes`,
`HeapSpec => ImplementsLanes`. Ranks differ and grow with the order (`RanksGrow`), and each
rank below the size of the lane is taken (`Ranked`, which the steps preserve, so
that no induction over the set is needed). A new entry has the highest
sequence number and is appended (`AddLast`, `LanePut`); the least entry is the head of
its lane and the others move up by one (`DropFirst`, `LanePop`), and if it is of
the default lane the retry lane is empty.

### ExecutionManager

One step is what a coroutine does between two awaits that suspend it: a database
transaction, or the tool. `queue.put()` on an unbounded queue,
`semaphore.acquire()` with a permit left, and publishing an event to the log do
not suspend and belong to the step around them. A transaction whose read decides
something has a step for the read and one for the commit; one that writes
regardless is one step.

| variables | code |
|---|---|
| `status`, `aStatus`, `aPrev` | `tool_executions.status`, `assessments.status`, `.previous_status` |
| `queue`, `flagged` (of `LaneQueue`) | the heap, as one FIFO lane per priority; `_cancelled` |
| `permits`, `running` | `_semaphore`, `_running_tasks` (one task per job, as in the dict) |
| `pending`, `statuses` | `_cohort_pending` ({} is an absent key: an empty set is always deleted), `_cohort_statuses` |
| `hand` | the job the dispatcher awaits a permit for |
| `pc`, `job`, `out`, `owned`, `asked` | where each task and request is, its locals, and a `Task.cancel()` not yet delivered |
| `mode`, `draining`, `stops` | the process, the tasks shutdown() gathers |

| actions | code |
|---|---|
| `DispatchSkip/Spawn/Hold/Held` | `_dispatch_loop` and `dequeue()`; `Hold` and `Held` split it where `acquire()` suspends |
| `WorkerLoad`, `Claim`, `PrepareFails`, `Start`, `Executed`, `Persisted`, `PersistFails` | `_execute_job`; its exits by exception are disjuncts |
| `WorkerCancelled` | `CancelledError` at each await of `_execute_job` and of what it calls |
| `Finalize`, `LeaveCohort`, `Settle` | `_finalize`, `_on_job_terminal`, `_finalize_assessment`; run by a worker, a safety net, or (the last two) a cancel request |
| `WorkerDone`, `NetCheck` | `_on_worker_done`, `_ensure_cancelled_finalized` |
| `Plan`, `EnqueueBegin/Commit/Put` | `execute_assessment`, `enqueue()` |
| `CancelBegin/Read/Act` | `cancel()`: before its first await, its read, and what follows the transaction |
| `RetryRead/Commit/Put` | `retry()` |
| `ShutdownBegin/End`, `Restart`, `Crash` | `shutdown()`, the lifespan, the loss of the process |

Abstractions: the pipeline hook inside `_on_job_terminal` is a suspension
without effect on these variables; `_persist_scan_results` and the writing of
the output files succeed or raise; output, timestamps, retry counts, history
entries and events are left out; every job has a positive timeout. An error of
the database other than in `_persist_scan_results` is not modelled. A shutdown
begins when every request was answered, as the server does it; a crash at any
moment. A commit whose caller is cancelled takes effect or does not.

### JobLifecycle

What the manager comes to for a user who executes assessments and interferes with no
job: the rows, one `line` of jobs that wait, what the process is doing with each job
(`work`), and whether the process is `up`. Jobs begin at the head of the line, when
fewer than `MaxConcurrent` are busy; a tool runs once; a row gets the outcome of that
run (`Record`), or CANCELLED when the task ended without one (`Lose`, `Rescue`) or was
aborted by a shutdown; a new process starts with no line and no work, and leaves the rows.
`ExecutionManager`'s `Lifecycle == INSTANCE JobLifecycle WITH ...` reads the line off the
dispatcher's hand and the default lane, and the work on a job off the task or net that
has it (`At`, `Stage`). The permits, the map of running tasks, the cohorts, the
two steps of a hold, a done callback and its safety net do not show, and
`ImplementsLifecycle` says so: that is what each of them is for.

| `JobLifecycle` | steps of `ExecutionManager` |
|---|---|
| `PlanJobs`, `QueueJobs`, `JoinLine` | `Plan`, `EnqueueCommit`, `EnqueuePut` |
| `Begin` | `DispatchSpawn`, `DispatchHeld` (`DispatchHold` is not seen) |
| `Prepare`, `PrepareFails`, `RunTool`, `ToolEnds` | `WorkerClaim`, `PrepareFails`, `Start`, `Executed` |
| `Record` | `Finalize`, or `WorkerCancelled` in its commit |
| `Lose`, `Rescue` | `WorkerPersistFails` or a cancellation that leaves the row; `NetCheck` |
| `Stop`, `Abort`, `Renew` | `ShutdownBegin`, `WorkerCancelled`, `Restart` and `Crash` |

### PipelineRules and Pipeline

`PipelineRules` holds the decisions of `pipeline/registry.py`, `rules/` and
`endpoint_generator.py`, and the stage rows that `_advance_host` makes of them,
as functions from services to a sequence of steps, the *plan*. `Pipeline` is one
run over a plan: job 0 is the recon (nmap) job, job i the follow-up of step i.

| variables | code |
|---|---|
| `run`, `node`, `skips`, `correlated` | `pipeline_runs.status`; `pipeline_jobs.status` by job, the SKIPPED rows of a failed recon, the CORRELATE rows |
| `exec`, `cohort`, `assessment` | `tool_executions.status`; the manager's cohort and the assessment it settles |
| `held`, `starting`, `retrying` | the jobs in the manager's queue or tasks; where the `enqueue()` of `start()` is; retries between their commit and their `enqueue` |
| `hook`, `ended`, `saw`, `pos`, `dirty`, `locked` | where each call of `on_job_terminal` is, the status it was called with, what it decided, the step the recon hook is at, rows it has not committed, whether it holds SQLite's write lock |
| `lost`, `races` | history: jobs whose last hook was cut short before it committed; which of the overlaps below have happened |

| actions | code |
|---|---|
| `Start`, `StartJoins`, `StartMarks` | `PipelineEngine.start()`; the `enqueue` of the recon job: the cohort at once, then the transaction |
| `JobStarts`, `JobDropped`, `JobEnds`, `Cancel`, `RetryMarks`, `RetryJoins` | what the manager does to a job, seen from the pipeline |
| `ScanHookReadsRun`, `ScanHookReadsRows`, `ScanHookCommits` | the hook of a follow-up: `on_job_terminal` and `try_finalize`, which reads the run and then, after another await, its rows |
| `ReconFails` | `advance_after_recon_failure` |
| `ReconReads`, `AddSkippedRow`, `PlanFollowUp`, `JoinFollowUp`, `EnqueueFollowUp`, `ReconReadsRows`, `ReconRaises`, `ReconCommits` | `advance_after_nmap`: a session that commits before every `enqueue()`, so the jobs it starts run and end while it goes on |
| `LeaveCohort`, `Settle` | `_on_job_terminal` after the hook, and `_finalize_assessment`, a transaction of its own |
| `HookIsCut`, `StartIsCut`, `Restart` | a hook or `start()` ended at an await, by a cancel of its job's task, a shutdown or an error; the process lost or shut down |

A hook's session does not flush by itself and shows nothing until it commits;
that is where the races come from. The hook runs in its job's task, so `cancel()`
can end it at any of its awaits: what was not committed is gone (`RolledBack`), a
commit that was under way may or may not go through, and nothing calls the hook again
but a retry. `RowsFollowJobs` says whose rows are behind then: those of `lost`.
A job is not run or retried while a hook call for it is under way, and `retry()` of the
recon job not during `start()`: what comes of two tasks of one job is
`ExecutionManager`'s subject. What the code leaves open is in the properties as an
exception, never hidden. A run may stay RUNNING (`QuietRunIsOver`; so `RunSettles`,
which the comment at `engine.py:222` is after, is false and a property of no run) when
recon found no host (`engine.py:310`), when two follow-ups each read the other's row
before it was committed (`engine.py:303`), when a correlation or the recon hook raised,
or when a cut was not made up for by a retry. It may be completed early, or without the
steps a recon hook that raised or was cut never planned (`CompletedRunIsDone`). It may be
correlated once more when another hook completes it between a hook's read of the run and
of its rows (`engine.py:299-303`; `"torn"` in `CorrelatedTwiceAtMost`). And the
assessment may be settled over a job that joined between the end of the old cohort and
the transaction that settles it (`manager.py:554-556`; `"late"` in
`CohortKeepsRunning`). That an *earlier* cohort's jobs are settled over is what
`pipeline_settles` shows (section 5). `pipeline/registry.py:7`, "exactly one rule should
ever claim a given service", does not hold either: "http" on port 443 or 22 is
claimed twice, and the first rule wins (`Decide`).

### SchemaModels and Migrations

`SchemaModels` is the 30 tables of `models/`: required and optional columns,
foreign keys with their ON DELETE, unique keys, CHECKs (an enum's by its column
and size). `Migrations` is the 11 revisions of `database/migrations/versions` as
changes of such a schema, each with what SQLite refuses (`Fits`) and what a script
itself raises on (`Refuses`: old enum values or names that are no longer unique,
observations that d151's backfill cannot fingerprint, findings), and one
database going up and down them (`Upgrade`, `Downgrade`, `Fill`: some rows
appear). SQLite's DDL is not undone here: pysqlite opens a transaction only before a
statement that writes rows, so an attempt that fails or is interrupted leaves what was
done up to some statement, a new table or an `_alembic_tmp_` one (`StopsHalfway`,
`Remains`; the copy of a batch block's rows is where a transaction begins), while
`alembic_version` still says the old revision. `left` remembers which attempts did.
`sheds` is whether a batch rebuild can drop a column that has an enum's CHECK (if
not, such a downgrade fails, as the revisions' comments say). Shown: whatever the path, a
database at the newest revision has the ORM's schema and besides it only temporary
tables (`HeadMatchesModels`, whose one exception is revision 9's downgrade stopped
between two unique keys); `UpgradesRun` lists when an upgrade cannot be applied: 15d3
adds a NOT NULL `tools.status` without a default; d151's backfill calls fingerprint
functions the code no longer has, so a database with assets is stuck before it; the next
refuses findings; two downgrades cannot be undone; and an upgrade that stopped halfway
fails again on what it left.

### HostInventory

`persist()` for the jobs of one target: `ReadInventory` is the lookups before the
first flush (SQLite opens the write transaction only there, so they may be stale),
`Persist` the rest as one session (`Flush`, `Insert`, `Merge` and `Link` over a
record of what the session sees and has pending), `RollBack` its failure. Rows are
the members of a bag, told by their unique columns, so that a row inserted twice
where no unique key applies (a NULL in it) is seen. `Interrupt` is a cancel or shutdown
that reaches the job in `persist()`: it is rolled back, or its commit was already under
way and goes through. `DeleteTarget` deletes the target with its jobs and hosts under the
running job, whose `_resolve_target_id` or first insert then fails. What goes wrong is in
`LosesOutputOnlyIf` and `OneRowPerSystem`: one output that names an observation
twice breaks a unique key and loses the whole output
(`plugins/nuclei/normalizer.py:98` can), and so does one that names an address or
a technology of a host twice with nothing flushed in between, the second lookup not
seeing the first insert (`NamesTwice`; `FlushesAt` says which rows flush); a
retried job's second `persist()` is lost; two jobs may insert one operating system twice, and from then on every scan
that finds it again is lost; and so is the output of a job whose target was deleted, or that was cancelled in
`persist()`.

### CorrelationRules and Correlation

The 23 rules of `correlation/rules` as functions of what is known of a host: a
text is the set of the rules' needles in it, a version the set of their prefixes.
Most are rows of two tables (`ScriptRules`, `Exposed`). `Correlation` puts them
under `CorrelationService`: `Scan` merges a sighting into the host, `StartCorrelation`
inserts the run row, which takes the write lock, and looks findings up,
`EndCorrelation` upserts findings, evidence, links and confidence, `AbortCorrelation`
rolls back. Shown: correlations of one assessment do not collide because the run row
comes first (`CorrelationsSucceed`), a correlation is complete
(`FindingsCoverHost`), takes nothing back and is idempotent (`ConfirmsOnly`), and
which findings can be stale, none being ever closed
(`OnlyRestatedFactsGoStale`): an observation keeps the detail it was first seen
with, so a certificate that was replaced keeps its finding.

### Assessments

Each request of `AssessmentService` reads (`CreateReads`, ..., `RestoreReads`),
then writes the columns that differ from what it read (`RequestWrites`). Runs and
retries come beside them in the steps the manager makes: `Execute` replaces the cohort,
`RunMarks` writes RUNNING; `RetryMarks` writes RUNNING and `RetryJoins` joins the cohort
later; the last job leaves it (`LastJobLeaves`), and a later transaction writes the
outcome (`Settles`). A transaction of the manager reads and writes the one row with no
await between that suspends it elsewhere, so each is one step. `marking`, `joining` and
`settling` count those under way. `touched` and `before` are history variables, of what
requests wrote since a mark and of the status the mark found. Shown: ARCHIVED is
left only through the ways `LeavesArchive` lists (three of them a careful reader would
not expect: a run or a retry marks an archived assessment RUNNING, which nothing
checks, and settling writes COMPLETED over ARCHIVED), and the first settling after a mark
leaves COMPLETED or the status the mark found, unless a request wrote it
(`GivesStatusBack`). A cohort that settles once more has nothing to give back, and the
assessment becomes READY.

### Targets

Requests of `TargetService` against one another and against the pipeline's
`_get_or_create_pipeline_target`: validation and normalisation by the form of a
text, `bulk_import` as a fold over a file's rows, and the unique index as what
refuses a write. An update sets what its payload names on the row it read, and the
session writes the columns that changed (`WriteColumns`): of two updates that overlap one
may write the type and the other the value, each checked against the old row, and the
target is an IPv4 address whose value is a domain. `mixed` remembers that it happened;
`TargetTypeOK` says that until then each value fits its type. `ImportsAllUnlessRaced`: an import adds exactly what it promised,
or, when another request took a value meanwhile, nothing (the IntegrityError is
not caught, against the docstring's "never erroring the whole import").

### ProcessRunner

`run_subprocess()` with a clock: `Spawn`, `Return`, `TimeOut`, `TerminateWaits`,
`Drained`, and what ends it from outside, `ManagerTimesOut` and `JobCancelled`.
Calls in `Managed` are awaited by the manager under a timeout of the same length
that started earlier. `OnlyAbandonedProcessesLive`: a call that comes back leaves
no process, and under the manager the runner's own timeout never fires. So every
job that times out or is cancelled leaves its process running, against
`plugins/sdk/process_runner.py:55` and `workers/manager.py:25`.

### Plugins

The registry and live settings in memory and the saved ones in the database:
`ScanDirectory` one directory at a time, `ReloadEnds`, `DiscoverReads/Writes`,
`ToolReads`, `UpdateSwitches`, `UpdateWrites`, `ProfileWrites`, `RefreshWrites`,
`Plan` (the planner's choice), `MachineChanges`, `Restarted`. A request keeps the
plugin object it found while a reload in a thread replaces it. Five history variables
say which exceptions apply to which tool: `unsynced` (loaded, and since then neither
discovered nor updated), `standing` (the switch of a tool whose row was not asked since
it was loaded: on, or what a refused update left), `cleared` (the timeout that was in
force when it was taken back), `contested` (two updates of its switch overlapped) and
`raced` (two requests did). `LivesBySavedSettings` says, for a moment without requests
and without races before it, exactly by what each live setting goes. `PlansAsSwitched`
says it of the switches and of every plan, also beside other requests and after races:
a plan runs the healthy tools that are switched on (`SwitchedOn`), and only those; it may
leave some out only while a scan loads them, and only a tool that is being switched, or
is contested, may do otherwise. What both have to except matters most: no discovery
restores `enabled`, so a tool that was switched off runs again after a restart or a
reload, as `tool_switch` shows (section 5).

### ScanProfiles

One file per custom profile, edited by plain functions in threads: `Begin`, `Get`,
`Check`, `OpenFile` (truncates), `FillFile`/`FillLost`, `Unlink`, `Die`.
`ProfilesKept`: when no edit is under way every profile says what its last edit
promised, unless that edit was interrupted or ran beside another one of the same
id (`contended`). Two such edits may tear a file or bring a deleted profile back;
a crash between truncation and writing leaves an empty file, which is skipped.

## 3. What is proved

Eight modules, for every value of the constants, from the assumptions named in the
modules they extend. Inductive invariants are conjunctions of named parts; a
step is one lemma per action or group of actions.

### The execution engine

`ExecutionQueueProofs` is described with the queue above.

`ExecutionManagerProofs` proves, for any number of jobs, assessments, runs, task
slots, requests, permits and stops of the process, from the assumptions named in
`ExecutionManager` (the actors' sets are disjoint, `Jobs` and `Workers` are
finite, every job has a run and every run an assessment,
`max_concurrent_executions` is positive):

* `TypeCorrect`: `Spec => []TypeOK`. `TypeOK` is inductive because it says, next
  to the types, what an actor knows where it is (`ActorsKnow`): its job once it
  took its first step, its outcome once it is about to write it. One lemma per
  group of actions; `ReturnType` is the fact most of them share.
* `MapSound`: `Spec => []RunningMapSound`. Inductive given the types. A task is
  entered in the map while its slot is idle, so no other entry names it, and its
  done callback, the only step that ends it, pops its job's entry.
* `PermitsAreConserved`: `Spec => []PermitsConserved`. `PoolStep` classifies
  every step: it spawns a task, is a done callback, starts a new process, or
  leaves tasks and permits alone (`Steady`). The first two change the set of live
  tasks by one element, and the permits by one.
* `ToolsAreBounded`: at most `max_concurrent_executions` tools run, since a task
  that executes is live and the permits are never negative.

It also proves `NoJobIsStuck`: `Spec => []NoStuckJob`, the property
the safety net and the lifting of stale flags exist for. `CarriedBy` splits what
carries a job into the queue with the dispatcher's hand (`Waiting`) and one
`Carrier` per kind of actor. A step of one actor leaves the others' jobs with
them (`OthersCarryOn`), so each action has to answer for the jobs of its own
actor only (`ActorStep`): it keeps the job, hands it on (`Take` to a task, a
task to its safety net, a request to the queue), or ends it. A cancel that flags
a job's entry takes the job over itself, unless a task has it; that the map's
task is then a live task of that job is `MapSound`, which the proof uses as it
does the types. `StopsCounted` says that the process is up while `stops` is 0.

`LoneTaskProofs` proves what holds until a user interferes. `Unretried` says that no
retry has begun, `Uncancelled` that no cancel has, `Undisturbed` both; a request
that has begun stays begun (`NotBegun`), so each is a fact about the past and a
theorem `Spec => [](Unretried => P)` covers every prefix up to the first retry of any
instance, whatever the other requests, stops and crashes do. Section 5 has the run
that breaks each property once the hypothesis is gone. `StepKinds` says what one
step can be: a spawn, a done callback, the process, or one actor's act that leaves
the places and program counters of the others alone.

* `NoJobRunsTwice`, by `Lone`: a job is in one place, the queue (once), the
  dispatcher's hand, or one task or net, and in none before its run's `enqueue` is
  over. The steps that put no job anywhere keep it at once (`KeptLone`); a run's
  `put`, the dispatcher's pop and hold, the spawn and the done callback move a job.
* `ShutdownsAreClean`, by two invariants. `Drains`: while the process is up the map
  names every live task (two tasks of one job would overwrite each other, which is why it
  rests on `Lone`), so the tasks `shutdown()` cancels and awaits are all of them.
  `StartedAttended`: until a process has been left for another, a PREPARING or
  RUNNING job has a live task, or a safety net that has yet to look at it or to write.
* `StatusesFollowTheTable`, by `Orderly`: where a job is tells its status (a queued job
  is QUEUED, a task about to persist has a RUNNING one, an outcome about to be written
  is in the table's row for the status it replaces). `LegalTransitions` is an action
  property, so "until" has to be an assumption on the constants: `Cancels` and
  `Retries` empty, as in the run `plain`.
* `AssessmentsRunWithTheirJobs`, by `Cohorts`: a job that is under way is in its
  assessment's cohort, or that cohort is empty because the process that held it is
  gone, and a task that settles an assessment has none of its jobs under way. It assumes
  `OneExecution`, no two runs of one assessment: a second run's `mark_running` and the
  first one's `_finalize_assessment` may be written in either order.
* `ManagerImplementsLifecycle`: `Spec => ImplementsLifecycle`, the refinement of
  `JobLifecycle`, for empty `Cancels` and `Retries` (a property of all steps cannot be
  cut off at the first request, and section 5 says what breaks it afterwards). `Lone` makes
  the mapping a function of the job: the one task that has it tells the work
  (`WorkAt`). `Orderly` gives the row's status where a step of `JobLifecycle` asks for
  it, `Drains` and `Quiet` that requests move only while the process is up,
  `PermitsConserved` that a permit left means room for one more busy job
  (`RoomLeft`, by the cardinalities of the live tasks and their jobs), and `Calm` that no
  job is flagged, no task is asked to end while the process is up, and nets do only
  what nets do. Then a step at a time: a task's step is a step of its job, from the
  stage before it to the stage after it, with the line left alone (`TaskWork`,
  `TaskBecomes`), whose name `WorkerLives` and `OutcomeLives` find; a run's steps
  are about all its jobs (`RunRefines`); `SpawnRefines` is `Begin`, `HoldRefines`
  and `DoneRefines` are stutters, and `ProcessRefines` is `Stop`, `Renew` or a stutter.

### The pipeline

`PipelineProofs`: `RunInv` = `TypeOK` and
* `HookKnows`: what a hook call knows where it is (the job ended, the recon hook's
  position is in the plan);
* `ReconFirst`: nothing is scheduled, scanned or decided before the recon job has
  completed, and its hook walks the plan once;
* `RowsOfReached`: a step has a row only if the recon hook has reached it, and every
  step it passed has one or is still `dirty`, unless it raised or was cut;
* `SawKnows`: a hook that decided to finalize saw what `CompletedRunIsDone` needs,
  and it still holds when it commits, since a terminal row stays terminal;
* `CohortInv`: `CohortKeepsRunning`, and while the end of a cohort is about to be
  written the next one is empty, or a job that joined it is `"late"`.

From `RunInv`: `RunTypeCorrect`, `CohortsRun`, `CompletedRunsAreDone` and the action
property `OutcomesAreFinal` (a hook that commits COMPLETED read RUNNING, and in between
only another hook can have completed the run; the recon failure, which also writes
the run's status, comes before every follow-up).

What the rows say of the jobs needs more, `EndInv`, inductive with `RunInv`:
* `RowsOfEnds`: a job ended the way its hook was last told, unless it runs again, and
  once that hook has committed the row is `MapStatus` of that end; what the recon
  hook has in hand has not run; a recon job that did not complete fails the run;
* `SomeoneDecides`: while a run is RUNNING, a hook has decided to finalize, or a row
  waits whose job's hook has not yet read the rows. A hook that decides not to
  finalize saw a waiting row, which is another's; that one's hook has read nothing yet,
  or the two overlapped. So of the hooks that decide not to, each leaves another to
  decide, and the last one decides, because every other row it reads is terminal;
* `Correlators`: without cancels, retries and torn readings a job ends once, so at most
  one follow-up decides next to the recon hook, and none after the run is COMPLETED.

From both: `RowsFollowTheJobs`, `QuietRunsAreOver`, `RunsCorrelateTwiceAtMost`. A cut has
a lemma of its own in either half (`HookIsCutInv`, `HookIsCutEnds`; `RestartInv`,
`RestartEnds`): it takes a hook back to where none is, and the jobs whose rows it loses
into `lost`. All of this holds for every set of plans and any number of cancels, retries
and cuts, of which TLC has one each.

### The services

`ServiceProofs`, on three services that share no state:

* Assessments: `StatusInv` = the types, `RequestsKnow` (what a request keeps
  between its read and its write: an archive or an update saw a status that was not
  ARCHIVED, and the assessment it writes exists), `AbsentIsIdle` (an assessment not
  yet created has no run, mark or settling under way) and `MarkIsKept` (from a mark to the
  next settling, until a request interferes, the status is RUNNING and the previous one
  is what the mark found: further marks find RUNNING and write nothing).
  `ArchiveIsLeft` and `RunGivesBack` are action properties that follow from it step
  by step, for any number of assessments, requests, runs and retries.
* The process runner: `AbandonedOnly`, with `DrainsTheDead` (what is drained is
  dead) and the lemma `ManagerIsFirst`: the manager's timer started no later and is
  as long, and the clock does not pass a timer that is due. Any number of calls,
  any timeouts.
* Profiles: `ProfilesAreKept` for any number of profiles, contents and
  editors. `EditsTyped`; `LoneKnows`: an edit that is not contended shares no id
  with another and knows what its file holds; `ClosedIsDue`: a file no edit affects,
  and that is not contended, holds what it should. `OthersKnow` says that a step of one
  edit leaves what the others know alone, so each action answers for its own editor.

### Plugins

`PluginProofs` has two invariants, for any directories, tools, requests and number of
scans. `PluginAssumption` gives the constants their types.

`SettingsInv` holds until two requests overlap (`SettingsHold`). It is made of
* `NoneCollide`: a scan or an update that is under way is alone (`Lonely`), so each of
  its steps may count on what it read; looks at the machine may overlap;
* `Loads`: while plugins are loaded, the registry and the failures are those of the
  directories seen so far, and nothing has been said of settings yet; otherwise of
  all directories. It is what "every plugin that loads is there" grows from;
* `Agree`: for which fields a plugin and its row agree, and by what it goes otherwise;
* `Knows`: what a request that will write still has in common with the plugin it found
  and the row it read. A look at the machine knows less than an update, because another
  look may have written the status in between.

`PlanInv` holds always (`PlanInvHolds`), whatever overlaps:
* `Fresh`: every plugin and every request has a scan that was begun, and no two scans
  share one, so a plugin that was replaced is never taken for the new one;
* `Loaded`: the scan that began last leaves no plugin out, whoever else loads some;
* `Single`: of the updates that switch a tool that is not contested only one holds the
  plugin that is registered, and it read the switch the row still has; the others hold
  one that was replaced;
* `Agreed`, with `Standing`: a plugin is switched as `SwitchedOn` says, or an update of it
  is about to say so in the row.

`PlansSwitched` is read off `PlanInv`. `LivesBySettings` takes the switches from it
and everything else from `SettingsInv`; that a contested tool means a race is
`ContestedRaced`.

### Correlation

`CorrelationProofs`: `CorrelationInv` for any scans, sightings and number of
correlations at once (`CorrelationAssumption`: a sighting has finitely many
observations, and the surface that counts as large is positive):
* `RowsInv`: links are of scans that ended, to observations that are there;
* `LockInv`: at most one correlation runs, and what it looked up is what there is: the
  write lock, from which `NeverCollides` is immediate;
* `FindingsInv`: a finding is `Sound` (each evidence once, links to observations if its
  rule cites any, a confidence no higher than its links justify), it still matches
  or is of a `Restated` rule, and if no scan ended since the last correlation, every
  match has a finding that `Covers` it.

`FindingsSayAll` and `StaleFindings` are read off it, `NothingIsTakenBack` needs the
step as well (`Upserted`: what one upsert adds; `SaidAlready`: nothing, when the
finding covers the rule's candidates). The lemmas below it are about the 23 rules:
which observations they cite (`Cites`), that nothing is known of a host never seen
(`NothingKnown`), that a scan only adds to what a rule that is not restated matches on
(`StillMatches`), and that confidence grows with links and scans (`LevelGrows`,
`EvidenceSum`).

### The inventory and the targets

Both fold over data: an import over a file's rows, a session over an output's. So
`InventoryProofs` starts with induction. The library's induction theorems take a
predicate as a parameter; its `WFMin` does not, and gives `Least` (numbers, if there
are any, have a least one) and `UpTo` (a set that has 0 and each next number has
n). With them the functions that `FoldLeft` and `FlattenSeq` define recursively
exist, and `ImportSteps` and `SessionSteps` unfold a fold into a sequence of states,
each the last one with one more row. The rest is an invariant of that sequence.
`TargetAssumption` and `InventoryAssumption` say that files and outputs are made of
finite sequences, of any length.

* `ImportsAll`, by `TargetInv`: no two targets have one value (the unique key), and
  what an import found is distinct and new to what it had read (`Fresh`, by
  `ImportsFresh` over the file). Whether its rows go in is then a matter of what was
  written since (`WithFresh`).
* `MergeFacts` says what merging a row does to a session, case by case: it is found
  or not, inserted at once or left to wait, linked or not. `Records` holds of
  a session that stands after any number of rows: unique keys are kept, and each
  host or observation it inserted has `is_new` and a link that is there or waits.
  `InventoryInv` keeps of it, for the rows of all sessions, what
  `FirstsAreDiscoveries` needs (`FirstsInv`): a lookup that was stale makes the flush
  fail on the unique key, so no row is new to two jobs.
* `Tidy`, for an output that names nothing twice over rows that did not change: a row
  that waits does so once, is not there yet, and was named with no flush since.
  So a second insert would be a row named twice, and `SystemsAreSingle` follows.
* `Clear`, if the job also has no links yet: what it touched is what it linked, once.
  With `Tidy`, no lookup finds two rows and no flush breaks a key (`ClearMerge`), so
  the session stands (`SessionStands`): `OutputsLost` is the contrapositive, with a
  cancel and the deletion of the target as the ways in which a session that would stand
  is rolled back.

The attempt to prove `OutputsLost` found that its first form was false: it did not
have the technology named twice among its reasons, and no output of the run did so.
The run has one now.

### Only model-checked

Every safety invariant of the engine, the pipeline and the services that a run
checks is a theorem, but for the migrations', and so are both refinements. What stays with TLC:

* `HeadMatchesModels`, `UpgradesRun`, `UpgradesKeepRows` and `DeletesCascade` of the
  migrations, which are one finite computation with no constant to generalise over;
* `TypeOK` of `MCBackend`, which is the conjunction of the parts' types;
* liveness under fairness (`EveryJobSettles`, `CancelRescues`, `AssessmentSettles`,
  `RowsSettle`), which this prover does not reach.

## 4. Runs

| run | instance | checks |
|---|---|---|
| `races` | 2 jobs, 2 permits, 2 task and 2 net slots, a cancel, a retry | `TypeOK`, `PermitsConserved`, `RunningMapSound`, `NoStuckJob` |
| `plain` | 3 jobs, 2 permits, 2 + 2 slots, a stop | `NoDoubleExecution`, `AssessmentRunsWithItsJobs`, `ShutdownIsClean`, `LegalTransitions`, `ImplementsLifecycle`, `AssessmentSettles` |
| `lives` | 1 job, 1 permit, 2 + 2 slots, a cancel, a retry, a stop | `EveryJobSettles`, `CancelRescues` |
| `pipeline` (`MCPipeline`) | recon that found no host, an SSH host, or a web host; two of a cancel, a retry and a cut | `TypeOK`, `RowsFollowJobs`, `QuietRunIsOver`, `CorrelatedTwiceAtMost`, `CompletedRunIsDone`, `CohortKeepsRunning`, `OutcomeIsFinal` |
| `pipeline_lives` | the same plans; a cut | `RowsSettle` |
| `backend` (`MCBackend`) | nine components, one at a time | `TypeOK`; `HeadMatchesModels`, `UpgradesRun`, `UpgradesKeepRows`, `DeletesCascade`; `DiscoveredOnce`, `OneRowPerSystem`, `LosesOutputOnlyIf`; `CorrelationsSucceed`, `FindingsCoverHost`, `OnlyRestatedFactsGoStale`, `ConfirmsOnly`; `LeavesArchiveOnlyBy`, `RunGivesStatusBack`; `ImportsAllUnlessRaced`; `OnlyAbandonedProcessesLive`; `LivesBySavedSettings`, `PlansAsSwitched`; `ProfilesKept`; `ImplementsLanes` |
| `cancel_stale`, `retry_early`, `cancel_cohort` | 1 job and a cancel or a retry | one property each, which the code does not have |
| `pipeline_early`, `pipeline_settles` | the web host | `CompletesAfterItsScans`, `SettlesAfterItsJobs`, which the code does not have |
| `tool_switch` (`MCBackend`) | the plugins alone | `SkipsDisabled`, which the code does not have |

Deadlock is not checked: once every request was answered and every job has ended, or
every entry was made and taken, nothing has to happen.

**Bounds of the engine.** Three jobs are one more than the permits, so a job waits
in the dispatcher's hand while others run; a cancel and a retry of one job are
enough for two queue entries and two tasks of it. A slot is free again when its
task's done callback has run, which is also when its permit is, so as many slots as
permits hide nothing; a net slot that is busy delays a done callback, and two let
two nets overlap. `MaxStops` bounds shutdowns and crashes; one shows what a new
process finds. Four entries of the queue put two of one priority around two of the
other, and a job's second and third entry behind a flag for its first. Symmetry (jobs of one
run, slots, requests) is used in `races` only, which has no temporal property.

**Bounds of the pipeline.** A web host makes several follow-ups, so that two hooks
overlap and a follow-up can end while a later one is scheduled; an SSH host makes a
plan with only skipped steps, and no host an empty one. One cancel and one retry put
a failed recon, a late retry in a run that is over, and a retried follow-up in
reach; one cut puts every await of every hook, of `start()` and of the process in reach
of one end. A run has two of the three at most (`FewUpsets`): a cut hook and its retry, a
cancel and its retry, a cancel that is cut. `pipeline_lives` has the cut alone, since
liveness needs the whole graph without that constraint. The theorems lift these bounds.

**Bounds of the backend.** The variable `part` says which component moves; the others
stay in their initial state, so the states add up instead of multiplying (about 240
thousand in all, the queue's among them). Migrations: one attempt stops halfway, at any statement of any
revision. Inventory: 2 jobs, one of them run twice (`FewAttempts`), a cancel of either and
a deletion at any moment, with a host seen with or without a MAC address, a service, an
operating system, twice or once, and a product twice. Correlation: 3 scans, 2
correlations, four sightings that make and break the
rules' matches (an old server and a bad certificate, the host after an update, what the web
scanners say, the other rules). Assessments: 2 assessments, 2 requests, and 2 runs or
retries of each; of runs, retries and requests three in all when both assessments have
some (`FewRuns`), so that one assessment meets all combinations of its own. Targets: 3
texts, 2 files, 3 users, 4 rows; the third user, who is there to follow up on what two
overlapping ones left, makes a request only while there is one target at most
(`FewRequests`). Process runner: a
managed and a direct call, timeout 2, grace 1, ticks to 5, which lets the direct
one go through both timers. Plugins: three directories (broken, good, repeated) of one tool, 3
requests, 2 scans. Profiles: one built-in and two custom ids, 2 contents, 2 editors. Two
requests are enough for a read of one before a write of the other; the third
of the plugins is a reload between them. The users of the targets are symmetric; the run
has no liveness property.

**Fairness.** In the manager, weak fairness of the dispatcher, of each task, safety
net and begun request: the event loop resumes a coroutine whose await has ended,
SQLite answers, and a tool ends or runs into `wait_for`'s timeout. None of any
request being made, of a stop, or of a restart. `EveryJobSettles` and
`AssessmentSettles` speak of a process that is not stopped; `CancelRescues` of one
that was stopped for the last time and is up again. In the pipeline, for the same
reasons, of the enqueue that `start()` goes on to, the recon hook, each job (with the
`enqueue` of a retry that has committed) and each follow-up's hook; none of `start()`,
cancels, retries and cuts.

## 5. Where the code differs from what it says

Each of these runs ends in a counterexample; the first three with a single job:

* `cancel_stale`: `cancel()` reads whether a task owns the job before its first
  await (`workers/manager.py:148`), and acts on it after. The dispatcher spawns
  the task in between; CANCELLED is written, and overwritten by PREPARING. The
  user was told the job is cancelled and it runs to its end, against
  `workers/state.py:27` and the danger the docstring itself describes
  (`manager.py:137-142`).
* `retry_early`: a job's failure is committed before its task ends. A retry
  accepted in between re-queues it, and the safety net of the old task's done
  callback, finding it not terminal, cancels it (`manager.py:282`).
* `cancel_cohort`: `task.cancel()` delivered between a job's final commit and
  the cohort's update skips the update, and the safety net returns early since
  the row is terminal. The assessment stays RUNNING
  (`tests/test_executions.py:322` expects the opposite of a cancelled run).
* `pipeline_early`: a follow-up that ends while the recon job's hook is still
  scheduling takes the stage rows committed so far for all there are
  (`pipeline/engine.py:303-312`), correlates and completes the run. The later
  follow-ups run in a COMPLETED run, against `engine.py:296`, "once every
  scan-stage job is terminal".
* `pipeline_settles`: each follow-up is enqueued by itself, and `enqueue()` replaces the
  cohort (`manager.py:110`). When the last one ends the assessment is settled, though
  the ones before it are still queued or running, against `manager.py:84`, "a single
  in-flight run per assessment is assumed".
* `tool_switch`: a tool that the user disabled is planned and run after the next
  discovery, since `_apply_to_live_config` (`tool_service.py:439-453`) sets every live
  setting but `enabled`, and the planner asks that one alone. `workers/planner.py:5-9`
  promises a SKIPPED job for a disabled tool, `DECISIONS.md:796` that the settings survive
  a restart.

Four more of the manager that have no run of their own. The model takes all these steps:

* A retry breaks two properties of `plain`, which is why that run has none.
  `retry()` joins the cohort after its commit (`manager.py:190`): when the last job leaves
  it in between, the assessment is completed while the retried job is under way, against
  `AssessmentRunsWithItsJobs`. And a second task of a retried job takes the first one's
  entry in `_running_tasks` (`manager.py:248`), so that `shutdown()` sees one of them,
  against `ShutdownIsClean`. `LoneTaskProofs` proves both until the first retry.
* A cancel between the commit of a plan (`execution_service.py:72`) and the transaction of
  `enqueue()` takes the job from PENDING to CANCELLED, and `enqueue()` makes it QUEUED
  again (`manager.py:116`), without a retry, against `workers/state.py:27`.
  `TerminalStable` allows every return to QUEUED and does not show it.
* An error in `_persist_scan_results`, outside the `try` (`manager.py:418`), ends a task
  whose job the safety net then records as cancelled "before it started running".

What the passing properties have as exceptions is listed with each module in
section 2, with the lines: those are differences too, and hold in the model because
the property names them.

## 6. What is not modelled

* **Tool plugins**: command lines and output parsers of nmap, nikto, nuclei, sslscan
  and the rest. They map strings to strings and share no state. What the models need of
  them is an output's shape: which hosts, services and observations it may name.
* **Queries and the dashboard**, the **HTTP API and schemas**, the **frontend**: they
  read, route, validate and render. The frontend polls and keeps nothing the
  server depends on.
* Within modelled parts: lock timeouts of SQLite and other database errors (apart
  from those in `_persist_scan_results` and correlations); configuration and logging
  of the lifespan; history entries, tags, timestamps and events; `correlate_all()`;
  column types, plain indexes and the values that d151's backfills compute; the
  validation of one plugin directory (it loads or not) and dependencies between
  plugins, which are only reported; two pipelines of one assessment at a time.
* Two calls of the pipeline hook for one job at a time, and a retry of the recon job while
  `start()` is still enqueueing it.
* Hazards without a property. That the name of an active assessment is unique rests on the
  unique index alone (`services/assessment_service.py:366`), which the model takes as a
  guard, so a property of it would say nothing. A job that is cancelled before its
  `enqueue()` is described in section 5. For subprocesses of abandoned calls, details of observations that
  stay as first seen, and overlapping or interrupted edits of profiles and profile
  switches the properties say what the code does by excepting exactly these cases, and
  nothing in the repository promises more.

## 7. What is left

`JobLifecycle` has no cancel and no retry. To add them, the manager's misbehaviour in
section 5 would have to be part of what it promises.
