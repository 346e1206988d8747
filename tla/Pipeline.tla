------------------------------ MODULE Pipeline ------------------------------
(***************************************************************************)
(* One run of the assessment pipeline: backend/pipeline/engine.py, the     *)
(* hook that a job's end calls (workers/pipeline_hook.py), and the rows of *)
(* pipeline_runs and pipeline_jobs, over jobs that behave as               *)
(* ExecutionManager shows them to.  Job 0 is the recon (nmap) job, job i   *)
(* the follow-up of the i-th step of the plan that PipelineRules makes     *)
(* from what it found.                                                     *)
(*                                                                         *)
(* The hook runs in one session with autoflush off: it reads committed     *)
(* rows, keeps the objects it holds, and shows nothing until it commits.   *)
(* The recon hook commits before every enqueue(), so the jobs it starts    *)
(* run, and end, while it goes on.  A session that has flushed holds       *)
(* SQLite's write lock until it commits.                                   *)
(*                                                                         *)
(* Every action is what happens between two awaits that matter.  At any of *)
(* them a hook may be cut short, by a cancel() that found its job running, *)
(* by an error of the database, or with the whole process: what its        *)
(* session had not committed is gone, and so is the rest of the hook.      *)
(***************************************************************************)
EXTENDS Naturals, Sequences, FiniteSets

CONSTANTS
    Plans,        \* the plans a recon job may lead to: sequences of steps
    MaxCancels,   \* bound: cancel requests
    MaxRetries,   \* bound: retry requests
    MaxCuts       \* bound: hooks cut short, and ends of the process

ASSUME BoundsAssumption == MaxCancels \in Nat /\ MaxRetries \in Nat /\ MaxCuts \in Nat
ASSUME PlansAssumption == Plans \subseteq Seq([kind : {"plan", "skip"}, tool : STRING])

VARIABLES
    plan,         \* what the recon job will have found
    run,          \* pipeline_runs.status; "NONE" before start()
    node,         \* [Jobs -> pipeline_jobs.status]; "ABSENT" until committed
    skips,        \* the SKIPPED rows that failed recon jobs added
    correlated,   \* the CORRELATE rows, one for each correlation
    exec,         \* [Jobs -> tool_executions.status]
    hook,         \* [Jobs -> where the job's terminal hook is]
    ended,        \* [Jobs -> the status the hook was called with]
    saw,          \* [Jobs -> whether the hook decided to finalize the run]
    pos,          \* the step of the plan the recon hook is at
    dirty,        \* steps whose SKIPPED rows it has not committed
    locked,       \* it has flushed, and holds the write lock
    cohort,       \* the manager's _cohort_pending for the assessment
    assessment,   \* "IDLE", "RUNNING", "SETTLED"
    held,         \* the jobs in the manager's queue or in one of its tasks
    starting,     \* where start()'s enqueue() of the recon job is
    retrying,     \* the jobs whose retry() has committed, and not queued them
    cancels, retries, cuts,
    lost,         \* history: the jobs whose last hook never committed, or
                  \* that no one will now run
    races         \* history: "overlap", two follow-ups' hooks were between
                  \* read and commit at once; "torn", the run was completed
                  \* between a hook's reading of it and of its rows; "early",
                  \* a hook decided to finalize while the recon hook was still
                  \* scheduling; "fault", a correlation raised; "raised", the
                  \* recon hook did; "late", a job joined the cohort while an
                  \* earlier cohort's end was about to be written

rowsButNode == <<run, skips, correlated>>
rowVars == <<run, node, skips, correlated>>
hookVars == <<hook, ended, saw, pos, dirty, locked>>
cohortVars == <<cohort, assessment>>
managerVars == <<cohort, assessment, held, starting, retrying>>
userVars == <<cancels, retries, cuts>>
history == <<lost, races>>
vars == <<plan, rowVars, exec, hookVars, managerVars, userVars, history>>

Jobs == 0..Len(plan)
Scans == 1..Len(plan)
Positions == {0} \cup UNION {DOMAIN p : p \in Plans}

Active == {"PENDING", "QUEUED", "RUNNING"}
Terminal == {"COMPLETED", "FAILED", "CANCELLED", "SKIPPED"}
NodeTerminal == {"COMPLETED", "FAILED", "SKIPPED"}

(* Mutant: a cancelled job has no status of its own in the graph.          *)
MapStatusPartly(s) ==
    CASE s \in {"PENDING", "QUEUED"} -> "WAITING"
      [] OTHER -> s

(* EXECUTION_STATUS_TO_PIPELINE_JOB_STATUS.  A TIMEOUT is a FAILED to      *)
(* every reader of this module, and PREPARING a QUEUED.                    *)
MapStatus(s) ==
    CASE s \in {"PENDING", "QUEUED"} -> "WAITING"
      [] s \in {"FAILED", "CANCELLED"} -> "FAILED"
      [] OTHER -> s

(* What PipelineService shows: a WAITING row takes its job's live status.  *)
Shown(i) == IF node[i] = "WAITING" THEN MapStatus(exec[i]) ELSE node[i]

ReconPcs == {"advance", "enqueue", "mark", "final"}
HookPcs == {"idle", "due", "rows", "commit", "cohort", "settle"} \cup ReconPcs

(* The recon hook has not shown all of its rows.                            *)
Scheduling == hook[0] \in ReconPcs \cup {"commit"}

(* The rows are written.                                                   *)
Written == {"idle", "cohort", "settle"}

Races == {"overlap", "torn", "early", "fault", "raised", "late"}

TypeOK ==
    /\ plan \in Plans
    /\ run \in {"NONE", "RUNNING", "COMPLETED", "FAILED"}
    /\ node \in [Jobs -> {"ABSENT", "WAITING"} \cup NodeTerminal]
    /\ skips \in Nat /\ correlated \in Nat
    /\ exec \in [Jobs -> {"NONE"} \cup Active \cup Terminal]
    /\ hook \in [Jobs -> HookPcs]
    /\ hook[0] # "rows" /\ \A i \in Scans : hook[i] \notin ReconPcs
    /\ ended \in [Jobs -> {"NONE"} \cup Terminal]
    /\ saw \in [Jobs -> BOOLEAN]
    /\ pos \in 0..Len(plan) + 1
    /\ dirty \subseteq Scans
    /\ locked \in BOOLEAN
    /\ cohort \subseteq Jobs /\ held \subseteq Jobs /\ retrying \subseteq Jobs
    /\ assessment \in {"IDLE", "RUNNING", "SETTLED"}
    /\ starting \in {"new", "enqueue", "mark", "done"}
    /\ cancels \in 0..MaxCancels /\ retries \in 0..MaxRetries /\ cuts \in 0..MaxCuts
    /\ lost \subseteq Jobs /\ races \subseteq Races

Init ==
    /\ plan \in Plans
    /\ run = "NONE"
    /\ node = [i \in Jobs |-> "ABSENT"]
    /\ skips = 0 /\ correlated = 0
    /\ exec = [i \in Jobs |-> "NONE"]
    /\ hook = [i \in Jobs |-> "idle"]
    /\ ended = [i \in Jobs |-> "NONE"]
    /\ saw = [i \in Jobs |-> FALSE]
    /\ pos = 0 /\ dirty = {} /\ locked = FALSE
    /\ cohort = {} /\ assessment = "IDLE"
    /\ held = {} /\ starting = "new" /\ retrying = {}
    /\ cancels = 0 /\ retries = 0 /\ cuts = 0
    /\ lost = {} /\ races = {}

-----------------------------------------------------------------------------
(* start(): the recon job was planned, or could not be.                    *)
Start ==
    /\ run = "NONE"
    /\ \/ /\ run' = "RUNNING"
          /\ node' = [node EXCEPT ![0] = "WAITING"]
          /\ exec' = [exec EXCEPT ![0] = "PENDING"]
          /\ starting' = "enqueue"
       \/ /\ run' = "FAILED"
          /\ node' = [node EXCEPT ![0] = "SKIPPED"]
          /\ exec' = [exec EXCEPT ![0] = "SKIPPED"]
          /\ starting' = "done"
    /\ UNCHANGED <<plan, skips, correlated, hookVars, cohortVars, held, retrying, userVars, history>>

(* An earlier cohort's end is about to be written, or has been over the    *)
(* mark that this job made.                                                *)
Late(i) ==
    \/ \E j \in Jobs : hook[j] = "settle"
    \/ exec[i] \in {"QUEUED", "RUNNING"} /\ assessment # "RUNNING"

(* ExecutionManager.enqueue(): a new cohort, at once; then, in a           *)
(* transaction, QUEUED whatever the row holds and the assessment RUNNING.  *)
NewCohort(i) ==
    /\ cohort' = {i}
    /\ races' = IF Late(i) THEN races \cup {"late"} ELSE races

MarkQueued(i) ==
    /\ exec' = [exec EXCEPT ![i] = "QUEUED"]
    /\ assessment' = "RUNNING"

StartJoins ==
    /\ starting = "enqueue"
    /\ NewCohort(0)
    /\ starting' = "mark"
    /\ UNCHANGED <<plan, rowVars, exec, hookVars, assessment, held, retrying, userVars, lost>>

StartMarks ==
    /\ starting = "mark" /\ ~locked
    /\ MarkQueued(0)
    /\ held' = held \cup {0}
    /\ starting' = "done"
    /\ UNCHANGED <<plan, rowVars, hookVars, cohort, retrying, userVars, history>>

-----------------------------------------------------------------------------
(* The jobs, and the requests that cancel and retry them.  A job that ends *)
(* owes a call of the hook, in its own task or in the cancel() request.    *)
(* Two calls for one job do not overlap here: the second waits for the     *)
(* first (what two ends of a job do to each other is ExecutionManager's    *)
(* subject).                                                               *)

JobStarts(i) ==
    /\ i \in held /\ exec[i] = "QUEUED" /\ ~locked
    /\ exec' = [exec EXCEPT ![i] = "RUNNING"]
    /\ UNCHANGED <<plan, rowVars, hookVars, managerVars, userVars, history>>

(* A worker that finds its row neither queued nor its own returns.         *)
JobDropped(i) ==
    /\ i \in held /\ exec[i] \notin {"QUEUED", "RUNNING"}
    /\ held' = held \ {i}
    /\ UNCHANGED <<plan, rowVars, exec, hookVars, cohortVars, starting, retrying, userVars, history>>

Ends(i, outcome) ==
    /\ hook[i] = "idle" /\ ~locked
    /\ hook' = [hook EXCEPT ![i] = "due"]
    /\ ended' = [ended EXCEPT ![i] = outcome]
    /\ UNCHANGED <<plan, rowVars, saw, pos, dirty, locked, cohortVars, starting, retrying, history>>

JobEnds(i) ==
    /\ i \in held /\ exec[i] = "RUNNING"
    /\ \E outcome \in {"COMPLETED", "FAILED"} :
          exec' = [exec EXCEPT ![i] = outcome] /\ Ends(i, outcome)
    /\ held' = held \ {i}
    /\ UNCHANGED userVars

(* Nothing of the job is left to run, or a worker that read QUEUED before   *)
(* the cancel was committed writes PREPARING over it, and goes on.         *)
Cancel(i) ==
    /\ exec[i] \in Active /\ cancels < MaxCancels
    /\ Ends(i, "CANCELLED")
    /\ \/ exec' = [exec EXCEPT ![i] = "CANCELLED"] /\ held' = held \ {i}
       \/ exec[i] = "QUEUED" /\ i \in held /\ UNCHANGED <<exec, held>>
    /\ cancels' = cancels + 1
    /\ UNCHANGED <<retries, cuts>>

(* retry() commits the row and the assessment, and then, on its own, joins *)
(* the cohort and the queue.  The recon job is not retried while start()    *)
(* is at work: it would be run twice over, and followed up twice.          *)
RetryMarks(i) ==
    /\ i = 0 => starting = "done"
    /\ exec[i] \in {"FAILED", "CANCELLED"} /\ retries < MaxRetries /\ ~locked
    /\ MarkQueued(i)
    /\ retrying' = retrying \cup {i}
    /\ retries' = retries + 1
    /\ UNCHANGED <<plan, rowVars, hookVars, cohort, held, starting, cancels, cuts, history>>

RetryJoins(i) ==
    /\ i \in retrying
    /\ retrying' = retrying \ {i}
    /\ cohort' = cohort \cup {i}
    /\ held' = held \cup {i}
    /\ races' = IF Late(i) THEN races \cup {"late"} ELSE races
    /\ UNCHANGED <<plan, rowVars, exec, hookVars, assessment, starting, userVars, lost>>

-----------------------------------------------------------------------------
(* The hook of a follow-up: on_job_terminal and try_finalize.              *)

ScanHookReadsRun(i) ==
    /\ i \in Scans /\ hook[i] = "due"
    /\ saw' = [saw EXCEPT ![i] = (run = "RUNNING")]
    /\ hook' = [hook EXCEPT ![i] = "rows"]
    /\ UNCHANGED <<plan, ended, rowVars, exec, pos, dirty, locked, managerVars, userVars, history>>

Overlaps(i) == \E j \in Scans \ {i} : hook[j] = "commit"

(* Mutant: the session's own row counts as it was committed.               *)
ScanHookReadsCommitted(i) ==
    LET decides == /\ saw[i]
                   /\ \A j \in Scans : node[j] = "ABSENT" \/ node[j] \in NodeTerminal
    IN  /\ i \in Scans /\ hook[i] = "rows"
        /\ saw' = [saw EXCEPT ![i] = decides]
        /\ races' = races
              \cup (IF Overlaps(i) THEN {"overlap"} ELSE {})
              \cup (IF decides /\ run # "RUNNING" THEN {"torn"} ELSE {})
              \cup (IF decides /\ Scheduling THEN {"early"} ELSE {})
        /\ hook' = [hook EXCEPT ![i] = "commit"]
        /\ UNCHANGED <<plan, ended, rowVars, exec, pos, dirty, locked, managerVars, userVars, lost>>

(* Mutant: a run that is over is finalized again.                          *)
ScanHookReadsRowsAnyhow(i) ==
    LET mine == [node EXCEPT ![i] = MapStatus(ended[i])]
        decides == \A j \in Scans : mine[j] = "ABSENT" \/ mine[j] \in NodeTerminal
    IN  /\ i \in Scans /\ hook[i] = "rows"
        /\ saw' = [saw EXCEPT ![i] = decides]
        /\ races' = races
              \cup (IF Overlaps(i) THEN {"overlap"} ELSE {})
              \cup (IF decides /\ saw[i] /\ run # "RUNNING" THEN {"torn"} ELSE {})
              \cup (IF decides /\ Scheduling THEN {"early"} ELSE {})
        /\ hook' = [hook EXCEPT ![i] = "commit"]
        /\ UNCHANGED <<plan, ended, rowVars, exec, pos, dirty, locked, managerVars, userVars, lost>>

(* A second statement reads the stage rows.  The hook's own row has its    *)
(* new status in memory only, and counts with it.                          *)
ScanHookReadsRows(i) ==
    LET mine == [node EXCEPT ![i] = MapStatus(ended[i])]
        decides == /\ saw[i]
                   /\ \A j \in Scans : mine[j] = "ABSENT" \/ mine[j] \in NodeTerminal
    IN  /\ i \in Scans /\ hook[i] = "rows"
        /\ saw' = [saw EXCEPT ![i] = decides]
        /\ races' = races
              \cup (IF Overlaps(i) THEN {"overlap"} ELSE {})
              \cup (IF decides /\ run # "RUNNING" THEN {"torn"} ELSE {})
              \cup (IF decides /\ Scheduling THEN {"early"} ELSE {})
        /\ hook' = [hook EXCEPT ![i] = "commit"]
        /\ UNCHANGED <<plan, ended, rowVars, exec, pos, dirty, locked, managerVars, userVars, lost>>

(* Correlate and complete the run.                                         *)
CompleteRun ==
    /\ run' = "COMPLETED"
    /\ correlated' = correlated + 1
    /\ UNCHANGED skips

(* A correlation that raises is logged, and the rest is committed without  *)
(* it.                                                                     *)
CorrelateRun ==
    \/ CompleteRun /\ UNCHANGED races
    \/ races' = races \cup {"fault"} /\ UNCHANGED rowsButNode

Returns(i) ==
    /\ hook' = [hook EXCEPT ![i] = "cohort"]
    /\ saw' = [saw EXCEPT ![i] = FALSE]
    /\ lost' = lost \ {i}

(* Mutant: the run is completed before its stage rows are looked at.       *)
ScanHookCommitsBlindly(i) ==
    /\ i \in Scans /\ hook[i] = "commit" /\ ~locked
    /\ node' = [node EXCEPT ![i] = MapStatus(ended[i])]
    /\ IF run = "RUNNING" THEN CompleteRun ELSE UNCHANGED rowsButNode
    /\ Returns(i)
    /\ UNCHANGED <<plan, ended, exec, pos, dirty, locked, managerVars, userVars, races>>

(* Mutant: the stage row keeps its status.                                 *)
ScanHookForgetsRow(i) ==
    /\ i \in Scans /\ hook[i] = "commit" /\ ~locked
    /\ UNCHANGED node
    /\ IF saw[i] THEN CompleteRun ELSE UNCHANGED rowsButNode
    /\ Returns(i)
    /\ UNCHANGED <<plan, ended, exec, pos, dirty, locked, managerVars, userVars, races>>

(* Mutant: a row that has its outcome keeps it when the job is retried.     *)
ScanHookStampsOnce(i) ==
    /\ i \in Scans /\ hook[i] = "commit" /\ ~locked
    /\ node' = [node EXCEPT ![i] = IF @ = "WAITING" THEN MapStatus(ended[i]) ELSE @]
    /\ IF saw[i] THEN CompleteRun ELSE UNCHANGED rowsButNode
    /\ Returns(i)
    /\ UNCHANGED <<plan, ended, exec, pos, dirty, locked, managerVars, userVars, races>>

(* Mutant: a follow-up that did not complete fails the whole run.          *)
ScanHookFailsRun(i) ==
    /\ i \in Scans /\ hook[i] = "commit" /\ ~locked
    /\ node' = [node EXCEPT ![i] = MapStatus(ended[i])]
    /\ IF saw[i] THEN CompleteRun
       ELSE /\ run' = IF ended[i] = "COMPLETED" THEN run ELSE "FAILED"
            /\ UNCHANGED <<skips, correlated>>
    /\ Returns(i)
    /\ UNCHANGED <<plan, ended, exec, pos, dirty, locked, managerVars, userVars, races>>

(* What was decided on is committed.                                       *)
ScanHookCommits(i) ==
    /\ i \in Scans /\ hook[i] = "commit" /\ ~locked
    /\ node' = [node EXCEPT ![i] = MapStatus(ended[i])]
    /\ IF saw[i] THEN CorrelateRun ELSE UNCHANGED <<rowsButNode, races>>
    /\ Returns(i)
    /\ UNCHANGED <<plan, ended, exec, pos, dirty, locked, managerVars, userVars>>

-----------------------------------------------------------------------------
(* The hook of the recon job.                                              *)

(* advance_after_recon_failure(): three rows say that nothing was scanned. *)
(* If it raises, its own row is all that is committed.                     *)
ReconFails ==
    /\ hook[0] = "due" /\ ended[0] # "COMPLETED" /\ ~locked
    /\ node' = [node EXCEPT ![0] = MapStatus(ended[0])]
    /\ \/ skips' = skips + 3 /\ run' = "FAILED" /\ UNCHANGED races
       \/ races' = races \cup {"raised"} /\ UNCHANGED <<skips, run>>
    /\ Returns(0)
    /\ UNCHANGED <<plan, ended, correlated, exec, pos, dirty, locked, managerVars, userVars>>

(* advance_after_nmap() reads the run once and keeps the object: what      *)
(* try_finalize() later gets from the session is this status.              *)
ReconReads ==
    /\ hook[0] = "due" /\ ended[0] = "COMPLETED"
    /\ saw' = [saw EXCEPT ![0] = (run = "RUNNING")]
    /\ pos' = 1
    /\ hook' = [hook EXCEPT ![0] = IF plan = <<>> THEN "final" ELSE "advance"]
    /\ UNCHANGED <<plan, ended, rowVars, exec, dirty, locked, managerVars, userVars, history>>

NextStep == IF pos = Len(plan) THEN "final" ELSE "advance"

(* A row that is SKIPPED: by a rule, by the planner, which flushes a       *)
(* SKIPPED job with it, or because the planner raised.                     *)
AddSkippedRow ==
    /\ hook[0] = "advance"
    /\ dirty' = dirty \cup {pos}
    /\ \/ plan[pos].kind = "skip" /\ UNCHANGED <<locked, exec>>
       \/ /\ plan[pos].kind = "plan"
          /\ locked' \in {locked, TRUE}
          /\ UNCHANGED exec
       \/ /\ plan[pos].kind = "plan"
          /\ locked' = TRUE
          /\ exec' = [exec EXCEPT ![pos] = "SKIPPED"]
    /\ pos' = pos + 1
    /\ hook' = [hook EXCEPT ![0] = NextStep]
    /\ UNCHANGED <<plan, ended, rowVars, saw, managerVars, userVars, history>>

(* What the recon hook's session holds becomes visible.                    *)
Committed(rows) ==
    [i \in Jobs |-> IF i = 0 THEN MapStatus(ended[0])
                    ELSE IF i \in dirty THEN "SKIPPED" ELSE rows[i]]

(* _schedule_follow_up(): the job is planned, and everything committed.    *)
PlanFollowUp ==
    /\ hook[0] = "advance" /\ plan[pos].kind = "plan"
    /\ exec' = [exec EXCEPT ![pos] = "PENDING"]
    /\ node' = Committed([node EXCEPT ![pos] = "WAITING"])
    /\ dirty' = {} /\ locked' = FALSE
    /\ hook' = [hook EXCEPT ![0] = "enqueue"]
    /\ UNCHANGED <<plan, ended, rowsButNode, saw, pos, managerVars, userVars, history>>

JoinFollowUp ==
    /\ hook[0] = "enqueue"
    /\ NewCohort(pos)
    /\ hook' = [hook EXCEPT ![0] = "mark"]
    /\ UNCHANGED <<plan, rowVars, exec, ended, saw, pos, dirty, locked, assessment, held,
                   starting, retrying, userVars, lost>>

EnqueueFollowUp ==
    /\ hook[0] = "mark"
    /\ MarkQueued(pos)
    /\ held' = held \cup {pos}
    /\ pos' = pos + 1
    /\ hook' = [hook EXCEPT ![0] = NextStep]
    /\ UNCHANGED <<plan, ended, rowVars, saw, dirty, locked, cohort, starting, retrying,
                   userVars, history>>

(* The planner, a query or enqueue() raises: what is there is committed,   *)
(* the steps that are left are not taken, and the job in hand is not run.  *)
ReconRaises ==
    /\ hook[0] \in ReconPcs
    /\ hook' = [hook EXCEPT ![0] = "commit"]
    /\ saw' = [saw EXCEPT ![0] = FALSE]
    /\ lost' = IF hook[0] \in {"enqueue", "mark"} THEN lost \cup {pos} ELSE lost
    /\ races' = races \cup {"raised"}
    /\ UNCHANGED <<plan, rowVars, exec, ended, pos, dirty, locked, managerVars, userVars>>

(* The last flush, and try_finalize()'s reading of the stage rows: of the  *)
(* rows as they are, but of the run as it was.                             *)
ReconReadsRows ==
    LET all == Committed(node)
    IN  /\ hook[0] = "final"
        /\ saw' = [saw EXCEPT ![0] = /\ saw[0]
                                     /\ \E j \in Scans : all[j] # "ABSENT"
                                     /\ \A j \in Scans : all[j] # "WAITING"]
        /\ locked' = (all # node)
        /\ hook' = [hook EXCEPT ![0] = "commit"]
        /\ UNCHANGED <<plan, ended, rowVars, exec, pos, dirty, managerVars, userVars, history>>

ReconCommits ==
    /\ hook[0] = "commit"
    /\ node' = Committed(node)
    /\ IF saw[0] THEN CorrelateRun ELSE UNCHANGED <<rowsButNode, races>>
    /\ dirty' = {} /\ locked' = FALSE
    /\ Returns(0)
    /\ UNCHANGED <<plan, ended, exec, pos, managerVars, userVars>>

-----------------------------------------------------------------------------
(* Mutant: the first job that ends settles the assessment.                 *)
LeaveCohortSettles(i) ==
    /\ hook[i] = "cohort"
    /\ hook' = [hook EXCEPT ![i] = "settle"]
    /\ cohort' = cohort \ {i}
    /\ UNCHANGED <<plan, ended, rowVars, exec, saw, pos, dirty, locked, assessment, held,
                   starting, retrying, userVars, history>>

(* After the hook, _on_job_terminal takes the job out of the cohort.  The  *)
(* last one out settles the assessment, in a transaction of its own.       *)
LeaveCohort(i) ==
    /\ hook[i] = "cohort"
    /\ cohort' = cohort \ {i}
    /\ hook' = [hook EXCEPT ![i] = IF cohort # {} /\ cohort' = {} THEN "settle" ELSE "idle"]
    /\ UNCHANGED <<plan, ended, rowVars, exec, saw, pos, dirty, locked, assessment, held,
                   starting, retrying, userVars, history>>

Settle(i) ==
    /\ hook[i] = "settle" /\ ~locked
    /\ assessment' = "SETTLED"
    /\ hook' = [hook EXCEPT ![i] = "idle"]
    /\ UNCHANGED <<plan, ended, rowVars, exec, saw, pos, dirty, locked, cohort, held,
                   starting, retrying, userVars, history>>

-----------------------------------------------------------------------------
(* The jobs that the recon hook's session flushed go with it.              *)
RolledBack(jobs) == [i \in Jobs |-> IF i \in dirty THEN "NONE" ELSE jobs[i]]

(* A hook is cut short.  enqueue() has a transaction of its own, which may *)
(* have been committed by then; the job is in no queue all the same.       *)
HookIsCut(i) ==
    /\ hook[i] # "idle" /\ cuts < MaxCuts
    /\ hook' = [hook EXCEPT ![i] = "idle"]
    /\ saw' = [saw EXCEPT ![i] = FALSE]
    /\ lost' = lost \cup (IF hook[i] \in Written THEN {} ELSE {i})
                    \cup (IF hook[i] \in {"enqueue", "mark"} THEN {pos} ELSE {})
    /\ IF i = 0
       THEN /\ dirty' = {} /\ locked' = FALSE
            /\ \/ exec' = RolledBack(exec) /\ UNCHANGED assessment
               \/ hook[0] = "mark" /\ MarkQueued(pos)
       ELSE UNCHANGED <<dirty, locked, exec, assessment>>
    /\ cuts' = cuts + 1
    /\ UNCHANGED <<plan, rowVars, ended, pos, cohort, held, starting, retrying, cancels,
                   retries, races>>

(* start()'s enqueue() fails, before its transaction or after it.          *)
StartIsCut ==
    /\ starting \in {"enqueue", "mark"} /\ cuts < MaxCuts
    /\ starting' = "done"
    /\ lost' = lost \cup {0}
    /\ \/ UNCHANGED <<exec, assessment>>
       \/ starting = "mark" /\ ~locked /\ MarkQueued(0)
    /\ cuts' = cuts + 1
    /\ UNCHANGED <<plan, rowVars, hookVars, cohort, held, retrying, cancels, retries, races>>

(* The process ends, and another is started: it has the rows, and neither  *)
(* looks at those that were active nor calls a hook for them.              *)
Restart ==
    /\ cuts < MaxCuts /\ run # "NONE"
    /\ hook' = [i \in Jobs |-> "idle"]
    /\ saw' = [i \in Jobs |-> FALSE]
    /\ dirty' = {} /\ locked' = FALSE
    /\ exec' = RolledBack(exec)
    /\ cohort' = {} /\ held' = {} /\ retrying' = {} /\ starting' = "done"
    /\ lost' = lost \cup {i \in Jobs : hook[i] \notin Written \/ exec[i] \in Active}
    /\ cuts' = cuts + 1
    /\ UNCHANGED <<plan, rowVars, ended, pos, assessment, cancels, retries, races>>

ReconHook ==
    \/ ReconFails \/ ReconReads \/ AddSkippedRow \/ PlanFollowUp \/ JoinFollowUp
    \/ EnqueueFollowUp \/ ReconReadsRows \/ ReconCommits \/ LeaveCohort(0) \/ Settle(0)

Starting == Start \/ StartJoins \/ StartMarks
JobNext(i) == JobStarts(i) \/ JobDropped(i) \/ JobEnds(i) \/ RetryJoins(i)
Request(i) == Cancel(i) \/ RetryMarks(i)
ScanHook(i) ==
    \/ ScanHookReadsRun(i) \/ ScanHookReadsRows(i) \/ ScanHookCommits(i)
    \/ LeaveCohort(i) \/ Settle(i)

Next ==
    \/ Starting \/ ReconHook \/ ReconRaises \/ StartIsCut \/ Restart
    \/ \E i \in Jobs : JobNext(i) \/ Request(i) \/ HookIsCut(i)
    \/ \E i \in Scans : ScanHook(i)

Spec == Init /\ [][Next]_vars

(* The loop resumes every hook and request, and a job that runs ends: see  *)
(* ExecutionManager.                                                       *)
Fairness ==
    /\ WF_vars(StartJoins \/ StartMarks) /\ WF_vars(ReconHook)
    /\ \A i \in Positions : WF_vars(i \in Jobs /\ JobNext(i))
    /\ \A i \in Positions \ {0} : WF_vars(i \in Jobs /\ ScanHook(i))

FairSpec == Spec /\ Fairness

-----------------------------------------------------------------------------
Quiet == /\ \A i \in Jobs : hook[i] = "idle" /\ exec[i] \notin Active
         /\ run # "NONE"

(* Once a job's hook has returned its stage row holds the job's outcome,   *)
(* whatever became of the hooks of the other jobs, and a row never says    *)
(* COMPLETED of a job that did not complete: the execution graph is never  *)
(* ahead of the jobs, and left behind only by a job whose own last hook    *)
(* was cut short before its commit (pipeline_hook.py, pipeline_service.py).*)
(* A job that is both cancelled and retried before enqueue() gets to it is *)
(* run once more after it completed.                                       *)
RowsFollowJobs == \A i \in Jobs :
    /\ node[i] = "COMPLETED" => exec[i] = "COMPLETED" \/ (cancels > 0 /\ retries > 0)
    /\ hook[i] = "idle" /\ exec[i] \in Terminal /\ node[i] # "ABSENT" /\ i \notin lost =>
          Shown(i) = MapStatus(exec[i])

(* A run whose jobs have all ended, with nothing left to call back, is     *)
(* over, save where the code leaves it open: recon found no host, so there *)
(* is no scan row to end (engine.py:310); two follow-ups ended together    *)
(* and each read the other's row before it was committed (engine.py:303);  *)
(* a correlation or the recon hook raised; or some hook was cut short and  *)
(* its job has not been retried since.  A cut that is made up for by a     *)
(* retry leaves no run behind.                                             *)
QuietRunIsOver ==
    Quiet /\ run = "RUNNING" =>
        \/ plan = <<>> \/ races \cap {"overlap", "fault", "raised"} # {}
        \/ lost # {}

(* COMPLETED and FAILED are final, however often a job of the run is       *)
(* retried or cancelled afterwards, and whatever is cut short.             *)
OutcomeIsFinal ==
    [][(run \in {"COMPLETED", "FAILED"}) => run' = run]_vars

(* Nothing of a completed run is still to be scanned, unless the recon     *)
(* hook did not get to the end of its plan, or a follow-up that ended      *)
(* while it was scheduling took the rows committed so far for all of them  *)
(* (engine.py:152).                                                        *)
CompletedRunIsDone ==
    run = "COMPLETED" =>
        \/ \A i \in Scans : node[i] \in NodeTerminal
        \/ races \cap {"early", "raised"} # {} \/ 0 \in lost

(* Though every follow-up's hook, and the recon hook with its old copy of  *)
(* the run, may find the run ready to finalize, no more than two do when   *)
(* no job is cancelled or retried, unless the run was completed between a  *)
(* hook's reading of it and its reading of the rows.                       *)
CorrelatedTwiceAtMost ==
    cancels = 0 /\ retries = 0 /\ "torn" \notin races => correlated <= 2

(* While a job of the latest cohort is under way the assessment RUNS,      *)
(* unless the job joined while the end of an earlier cohort was about to   *)
(* be written (manager.py:555).                                            *)
CohortKeepsRunning ==
    (\E i \in cohort : exec[i] \in {"QUEUED", "RUNNING"}) =>
        assessment = "RUNNING" \/ "late" \in races

(* Every scan row that waits gets its job's outcome, unless the job's hook *)
(* was cut short or no one will run it.                                    *)
RowsSettle == \A i \in Positions :
    (i \in Jobs /\ node[i] = "WAITING") ~> (i \in Jobs /\ (node[i] # "WAITING" \/ i \in lost))

(* manager.py:84: "A single in-flight run per assessment is assumed": an   *)
(* assessment is not settled while jobs of it are queued or running.       *)
SettlesAfterItsJobs ==
    [][assessment # "SETTLED" /\ assessment' = "SETTLED" =>
          \A i \in Jobs : exec[i] \notin {"QUEUED", "RUNNING"}]_vars

(* engine.py:296: "once every scan-stage job is terminal, correlate".      *)
CompletesAfterItsScans ==
    [][run = "RUNNING" /\ run' = "COMPLETED" =>
          \A i \in Scans : node'[i] \in NodeTerminal]_vars
=============================================================================
