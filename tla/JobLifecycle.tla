---------------------------- MODULE JobLifecycle ----------------------------
(***************************************************************************)
(* What backend/workers promises to a user who executes assessments and    *)
(* neither cancels nor retries a job.  Jobs are started in the order in    *)
(* which they were queued, at most MaxConcurrent of them at a time.  The   *)
(* tool of a job is run once at most, and the job's row ends with the      *)
(* outcome of that run, or with CANCELLED when the job's task ended        *)
(* without one.  A process that stops may leave a job where it is; nothing *)
(* starts it again, and nothing writes to its row.                         *)
(*                                                                         *)
(* ExecutionManager implements this: the dispatcher, its tasks and safety  *)
(* nets, the cohorts and the map of running tasks are not seen here.       *)
(***************************************************************************)
EXTENDS Naturals, FiniteSets, SequencesExt, JobStates

CONSTANTS
    Jobs,            \* ids of ToolExecution rows
    MaxConcurrent    \* settings.max_concurrent_executions

VARIABLES
    row,             \* [Jobs -> status]: what the API shows of a job
    line,            \* the jobs that wait to be started, the next one first
    work,            \* [Jobs -> Works]: what the process is doing with a job
    up               \* FALSE from the call of shutdown() to the next process

lifecycleVars == <<row, line, work, up>>

(* Nothing; a request is about to put it in the line; its task is on the   *)
(* way to its tool, or runs it; an outcome is about to be recorded; or the *)
(* task ended without recording one.                                       *)
Works == {"none", "accepted", "task", "tool", "lost"} \cup FinalOutcomes

LifecycleInit ==
    /\ row = [j \in Jobs |-> "ABSENT"]
    /\ line = <<>>
    /\ work = [j \in Jobs |-> "none"]
    /\ up = TRUE

(* The step is about j: its row becomes s, its work w.                     *)
Becomes(j, s, w) ==
    /\ row' = [row EXCEPT ![j] = s]
    /\ work' = [work EXCEPT ![j] = w]

-----------------------------------------------------------------------------
(* The requests.                                                           *)

(* Some jobs are planned, and the planner skips some of them.              *)
PlanJobs ==
    /\ up
    /\ \E S \in SUBSET {j \in Jobs : row[j] = "ABSENT"}, skipped \in SUBSET Jobs :
          row' = [j \in Jobs |-> IF j \notin S THEN row[j]
                                ELSE IF j \in skipped THEN "SKIPPED" ELSE "PENDING"]
    /\ UNCHANGED <<line, work, up>>

QueueJobs ==
    /\ up
    /\ \E S \in SUBSET {j \in Jobs : row[j] = "PENDING"} :
          /\ row' = [j \in Jobs |-> IF j \in S THEN "QUEUED" ELSE row[j]]
          /\ work' = [j \in Jobs |-> IF j \in S THEN "accepted" ELSE work[j]]
    /\ UNCHANGED <<line, up>>

(* Jobs that were queued together join the line, in any order.             *)
JoinLine ==
    /\ up
    /\ \E S \in SUBSET {j \in Jobs : work[j] = "accepted"} :
          /\ work' = [j \in Jobs |-> IF j \in S THEN "none" ELSE work[j]]
          /\ \E order \in SetToSeqs(S) : line' = line \o order
    /\ UNCHANGED <<row, up>>

-----------------------------------------------------------------------------
(* The life of a job.                                                      *)

Busy == {j \in Jobs : work[j] \in {"task", "tool"}}

(* The first of the line gets a task, if there is room for one.            *)
Begin(j) ==
    /\ up /\ line # <<>> /\ j = Head(line)
    /\ row[j] = "QUEUED" /\ work[j] = "none"
    /\ Cardinality(Busy) < MaxConcurrent
    /\ line' = Tail(line)
    /\ work' = [work EXCEPT ![j] = "task"]
    /\ UNCHANGED <<row, up>>

Prepare(j) ==
    /\ work[j] = "task" /\ row[j] = "QUEUED"
    /\ Becomes(j, "PREPARING", "task")
    /\ UNCHANGED <<line, up>>

PrepareFails(j) ==
    /\ work[j] = "task" /\ row[j] = "PREPARING"
    /\ Becomes(j, row[j], "FAILED")
    /\ UNCHANGED <<line, up>>

RunTool(j) ==
    /\ work[j] = "task" /\ row[j] = "PREPARING"
    /\ Becomes(j, "RUNNING", "tool")
    /\ UNCHANGED <<line, up>>

ToolEnds(j) ==
    /\ work[j] = "tool" /\ row[j] = "RUNNING"
    /\ \E o \in {"COMPLETED", "FAILED", "TIMEOUT"} : Becomes(j, row[j], o)
    /\ UNCHANGED <<line, up>>

(* The row gets the outcome, and keeps it: it is in no end state yet.      *)
Record(j) ==
    /\ work[j] \in FinalOutcomes
    /\ IsTransitionAllowed(row[j], work[j])
    /\ Becomes(j, work[j], "none")
    /\ UNCHANGED <<line, up>>

(* The task ends with nothing recorded: what the tool found could not be   *)
(* stored, or the process is stopping.                                     *)
Lose(j) ==
    /\ work[j] \in FinalOutcomes \/ (~up /\ work[j] = "task")
    /\ Becomes(j, row[j], "lost")
    /\ UNCHANGED <<line, up>>

Rescue(j) ==
    /\ work[j] = "lost"
    /\ row[j] \in {"QUEUED", "PREPARING", "RUNNING"}
    /\ Becomes(j, row[j], "CANCELLED")
    /\ UNCHANGED <<line, up>>

-----------------------------------------------------------------------------
(* The process.                                                            *)

(* shutdown(): a job the dispatcher held for a free task is dropped.       *)
Stop ==
    /\ up /\ up' = FALSE
    /\ UNCHANGED line \/ (line # <<>> /\ line' = Tail(line))
    /\ UNCHANGED <<row, work>>

(* The task is cancelled, while it commits that it prepares or runs the    *)
(* tool or at any other moment before the tool has ended.                  *)
Abort(j) ==
    /\ ~up /\ work[j] \in {"task", "tool"}
    /\ \/ Becomes(j, row[j], "CANCELLED")
       \/ work[j] = "task" /\ row[j] = "QUEUED" /\ Becomes(j, "PREPARING", "CANCELLED")
       \/ work[j] = "task" /\ row[j] = "PREPARING" /\ Becomes(j, "RUNNING", "CANCELLED")
    /\ UNCHANGED <<line, up>>

(* The process died or has ended, and another one runs.                    *)
Renew ==
    /\ up' = TRUE
    /\ line' = <<>>
    /\ work' = [j \in Jobs |-> "none"]
    /\ UNCHANGED row

-----------------------------------------------------------------------------
LifecycleNext ==
    \/ PlanJobs \/ QueueJobs \/ JoinLine
    \/ \E j \in Jobs :
          \/ Begin(j) \/ Prepare(j) \/ PrepareFails(j) \/ RunTool(j) \/ ToolEnds(j)
          \/ Record(j) \/ Lose(j) \/ Rescue(j) \/ Abort(j)
    \/ Stop \/ Renew

LifecycleSpec == LifecycleInit /\ [][LifecycleNext]_lifecycleVars
=============================================================================
