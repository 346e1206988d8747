-------------------------- MODULE ExecutionManager --------------------------
(***************************************************************************)
(* backend/workers/manager.py: the dispatcher loop, the bounded pool of    *)
(* asyncio workers, and the three requests (enqueue, cancel, retry) that   *)
(* the HTTP API makes of it, over the rows of tool_executions and          *)
(* assessments.                                                            *)
(*                                                                         *)
(* Everything runs on one event loop, so a step of the model is what a     *)
(* coroutine does between two suspension points: an `await' that reaches   *)
(* the database or the tool process.  `await queue.put()' on an unbounded  *)
(* queue, `await semaphore.acquire()' with a permit left and a publish to  *)
(* a subscriber that only logs never suspend, and are part of the step     *)
(* around them.  A transaction's read and its commit are two steps when    *)
(* the code decides on what it read, and one when it writes regardless.    *)
(*                                                                         *)
(* Actors: the dispatcher; Workers, the slots of _run_job tasks; Nets, the *)
(* slots of the _ensure_cancelled_finalized tasks; and Runs, Cancels and   *)
(* Retries, the HTTP requests, each of which is made at most once.         *)
(***************************************************************************)
EXTENDS LaneQueue, FiniteSets, SequencesExt, JobStates

CONSTANTS
    Assessments,     \* ids of Assessment rows
    Runs,            \* /execute requests
    RunOf,           \* [Jobs -> Runs]: the request that plans the job
    AssessmentOf,    \* [Runs -> Assessments]
    Workers,         \* bound: worker task slots (more than MaxConcurrent)
    Nets,            \* bound: safety-net task slots
    Cancels,         \* bound: cancel requests
    Retries,         \* bound: retry requests
    MaxConcurrent,   \* settings.max_concurrent_executions
    MaxStops,        \* bound: shutdowns and crashes of the process
    None             \* Python's None

ASSUME MaxConcurrentAssumption == MaxConcurrent \in Nat \ {0}
ASSUME BoundAssumption == MaxStops \in Nat
ASSUME FiniteAssumption == IsFiniteSet(Workers) /\ IsFiniteSet(Jobs)
ASSUME RunAssumption == /\ RunOf \in [Jobs -> Runs]
                        /\ AssessmentOf \in [Runs -> Assessments]
ASSUME NoneAssumption == None \notin Jobs \cup Workers
ASSUME ActorsDisjoint ==
    /\ Workers \cap (Nets \cup Runs \cup Cancels \cup Retries) = {}
    /\ Nets \cap (Runs \cup Cancels \cup Retries) = {}
    /\ Runs \cap (Cancels \cup Retries) = {}
    /\ Cancels \cap Retries = {}

Actors == Workers \cup Nets \cup Runs \cup Cancels \cup Retries

Owner(j) == AssessmentOf[RunOf[j]]      \* job.assessment_id

AssessmentStatus == {"DRAFT", "READY", "RUNNING", "COMPLETED"}

VARIABLES
    \* the database
    status,          \* tool_executions.status
    aStatus,         \* assessments.status
    aPrev,           \* assessments.previous_status
    \* the manager, next to its queue and flagged
    permits,         \* the semaphore's value
    running,         \* _running_tasks: [Jobs -> Workers \cup {None}]
    pending,         \* _cohort_pending; {} is an absent key
    statuses,        \* _cohort_statuses; "NONE" where a job has no entry
    \* the tasks and requests
    hand,            \* the job the dispatcher holds while it awaits a permit
    pc, job, out,    \* per actor: where it is, its job, the status it writes
    owned,           \* Cancels: owned_by_worker, read before the first await
    asked,           \* Workers: task.cancel() was called, not yet delivered
    \* the process
    mode,            \* "up", "stopping" (in shutdown()), "down"
    draining,        \* the tasks shutdown() cancelled and gathers
    stops            \* how often the process was stopped

dbVars    == <<status, aStatus, aPrev>>
queueVars == <<queue, flagged>>
poolVars  == <<permits, running, hand, asked>>
cohortVars == <<pending, statuses>>
modeVars  == <<mode, draining, stops>>
vars == <<dbVars, queueVars, poolVars, cohortVars, pc, job, out, owned, modeVars>>

-----------------------------------------------------------------------------
(* Where an actor can be.                                                  *)

(* A task in one of these holds a permit of the semaphore.  "done" is a    *)
(* finished task whose done callback has not run yet.                      *)
WorkerPcs == {"spawned", "claim", "prepare", "execute", "persist",
              "finalize", "hook", "settle", "done"}
NetPcs     == {"check", "finalize", "hook", "settle"}
RunPcs     == {"planned", "enqueue", "put", "end"}
CancelPcs  == {"read", "act", "hook", "settle", "end"}
RetryPcs   == {"reset", "put", "end"}

Live == {w \in Workers : pc[w] \in WorkerPcs}   \* asyncio tasks of the pool

Goto(a, label) == pc' = [pc EXCEPT ![a] = label]

(* The coroutine ends and its locals are gone.  A worker leaves its done   *)
(* callback to run, which knows the job; a safety net frees its slot; a    *)
(* request has been answered.                                              *)
Return(a) ==
    /\ Goto(a, IF a \in Workers THEN "done" ELSE IF a \in Nets THEN "idle" ELSE "end")
    /\ job' = IF a \in Workers THEN job ELSE [job EXCEPT ![a] = None]
    /\ out' = [out EXCEPT ![a] = "NONE"]
    /\ owned' = [c \in Cancels |-> owned[c] /\ c # a]

RunnableJobs(r) == {j \in Jobs : RunOf[j] = r /\ status[j] # "SKIPPED"}

-----------------------------------------------------------------------------
DbOK ==
    /\ status \in [Jobs -> JobStatus \cup {"ABSENT"}]
    /\ aStatus \in [Assessments -> AssessmentStatus]
    /\ aPrev \in [Assessments -> AssessmentStatus \cup {"NONE"}]

PoolOK ==
    /\ permits \in Nat
    /\ running \in [Jobs -> Workers \cup {None}]
    /\ hand \in Jobs \cup {None}
    /\ asked \in [Workers -> BOOLEAN]

CohortOK ==
    /\ pending \in [Assessments -> SUBSET Jobs]
    /\ statuses \in [Assessments -> [Jobs -> FinalOutcomes \cup {"NONE"}]]

ActorsOK ==
    /\ pc \in [Actors -> {"idle"} \cup WorkerPcs \cup NetPcs \cup RunPcs
                            \cup CancelPcs \cup RetryPcs]
    /\ job \in [Actors -> Jobs \cup {None}]
    /\ out \in [Actors -> FinalOutcomes \cup {"NONE"}]
    /\ owned \in [Cancels -> BOOLEAN]

(* What an actor knows where it is.                                        *)
ActorsKnow ==
    /\ \A w \in Workers : pc[w] \in {"idle"} \cup WorkerPcs
    /\ \A a \in Actors \ Runs : pc[a] \notin {"idle", "end"} => job[a] \in Jobs
    /\ \A a \in Actors :
            pc[a] \in {"persist", "finalize", "hook", "settle"} => out[a] \in FinalOutcomes

ModeOK ==
    /\ mode \in {"up", "stopping", "down"}
    /\ draining \subseteq Workers
    /\ stops \in 0..MaxStops

TypeOK == DbOK /\ QueueOK /\ PoolOK /\ CohortOK /\ ActorsOK /\ ActorsKnow /\ ModeOK

NoStatuses == [j \in Jobs |-> "NONE"]

(* ExecutionManager.__init__, and the event loop it runs on.               *)
InitMemory ==
    /\ QueueInit
    /\ permits = MaxConcurrent
    /\ running = [j \in Jobs |-> None]
    /\ pending = [a \in Assessments |-> {}]
    /\ statuses = [a \in Assessments |-> NoStatuses]
    /\ hand = None
    /\ pc = [a \in Actors |-> "idle"]
    /\ job = [a \in Actors |-> None]
    /\ out = [a \in Actors |-> "NONE"]
    /\ owned = [c \in Cancels |-> FALSE]
    /\ asked = [w \in Workers |-> FALSE]

Init ==
    /\ status = [j \in Jobs |-> "ABSENT"]
    /\ aStatus = [a \in Assessments |-> "DRAFT"]
    /\ aPrev = [a \in Assessments |-> "NONE"]
    /\ InitMemory
    /\ mode = "up"
    /\ draining = {}
    /\ stops = 0

-----------------------------------------------------------------------------
(* The dispatcher.                                                         *)

DispatchSkip ==
    /\ mode = "up" /\ hand = None
    /\ Skip
    /\ UNCHANGED <<dbVars, poolVars, cohortVars, pc, job, out, owned, modeVars>>

Spawn(w, j) ==
    /\ permits > 0
    /\ pc[w] = "idle"
    /\ permits' = permits - 1
    /\ running' = [running EXCEPT ![j] = w]
    /\ job' = [job EXCEPT ![w] = j]
    /\ asked' = [asked EXCEPT ![w] = FALSE]
    /\ hand' = None
    /\ Goto(w, "spawned")

(* Mutant: the entry is peeked at, and stays in the queue.                 *)
DispatchSpawnPeeks(w) ==
    /\ mode = "up" /\ hand = None /\ ~Empty
    /\ NextJob \notin flagged
    /\ Spawn(w, NextJob)
    /\ UNCHANGED <<dbVars, queueVars, cohortVars, out, owned, modeVars>>

(* dequeue() returned a job and acquire() did not suspend.                 *)
DispatchSpawn(w) ==
    /\ mode = "up" /\ hand = None
    /\ Take
    /\ Spawn(w, NextJob)
    /\ UNCHANGED <<dbVars, cohortVars, out, owned, modeVars>>

(* dequeue() returned a job and every permit is taken.                     *)
DispatchHold ==
    /\ mode = "up" /\ hand = None
    /\ permits = 0
    /\ Take
    /\ hand' = NextJob
    /\ UNCHANGED <<dbVars, permits, running, asked, cohortVars,
                   pc, job, out, owned, modeVars>>

(* acquire() returned: the job in hand is spawned whatever happened since. *)
DispatchHeld(w) ==
    /\ mode = "up" /\ hand # None
    /\ Spawn(w, hand)
    /\ UNCHANGED <<dbVars, queueVars, cohortVars, out, owned, modeVars>>

-----------------------------------------------------------------------------
(* _finalize, _on_job_terminal and _finalize_assessment, run by a worker,  *)
(* a safety net, or (the last two) a cancel request.                       *)

CanStep(a) == a \in Workers => ~asked[a]

(* The status is written whatever the row holds.                           *)
Finalize(a) ==
    /\ pc[a] = "finalize" /\ CanStep(a)
    /\ status' = [status EXCEPT ![job[a]] = out[a]]
    /\ Goto(a, "hook")
    /\ UNCHANGED <<aStatus, aPrev, queueVars, poolVars, cohortVars, job, out,
                   owned, modeVars>>

(* Mutant: the first job that ends settles the assessment.                 *)
LeaveCohortFirst(a) ==
    /\ pc[a] = "hook" /\ CanStep(a)
    /\ pending' = [pending EXCEPT ![Owner(job[a])] = {}]
    /\ Goto(a, "settle")
    /\ UNCHANGED <<dbVars, queueVars, poolVars, statuses, job, out, owned, modeVars>>

(* Mutant: a job that ends is noted and never leaves the pending set.      *)
LeaveCohortStays(a) ==
    /\ pc[a] = "hook" /\ CanStep(a)
    /\ statuses' = [statuses EXCEPT ![Owner(job[a])][job[a]] = out[a]]
    /\ Return(a)
    /\ UNCHANGED <<dbVars, queueVars, poolVars, pending, modeVars>>

(* The pipeline hook returned: leave the cohort; the last one to leave it  *)
(* settles the assessment.  out becomes the run's outcome.                 *)
LeaveCohort(a) ==
    LET o == Owner(job[a])
        left == pending[o] \ {job[a]}
        ended == [statuses[o] EXCEPT ![job[a]] = out[a]]
        allCancelled == \A j \in Jobs : ended[j] \in {"NONE", "CANCELLED"}
    IN  /\ pc[a] = "hook" /\ CanStep(a)
        /\ \/ /\ pending[o] = {}
              /\ Return(a)
              /\ UNCHANGED cohortVars
           \/ /\ pending[o] # {} /\ left # {}
              /\ pending' = [pending EXCEPT ![o] = left]
              /\ statuses' = [statuses EXCEPT ![o] = ended]
              /\ Return(a)
           \/ /\ pending[o] # {} /\ left = {}
              /\ pending' = [pending EXCEPT ![o] = {}]
              /\ statuses' = [statuses EXCEPT ![o] = NoStatuses]
              /\ out' = [out EXCEPT ![a] = IF allCancelled THEN "CANCELLED"
                                                           ELSE "COMPLETED"]
              /\ Goto(a, "settle")
              /\ UNCHANGED <<job, owned>>
        /\ UNCHANGED <<dbVars, queueVars, poolVars, modeVars>>

FinalizeAssessment(o, outcome) ==
    /\ aStatus' = [aStatus EXCEPT ![o] =
                      IF outcome # "CANCELLED" THEN "COMPLETED"
                      ELSE IF aPrev[o] = "NONE" THEN "READY" ELSE aPrev[o]]
    /\ aPrev' = [aPrev EXCEPT ![o] = "NONE"]

Settle(a) ==
    /\ pc[a] = "settle" /\ CanStep(a)
    /\ FinalizeAssessment(Owner(job[a]), out[a])
    /\ Return(a)
    /\ UNCHANGED <<status, queueVars, poolVars, cohortVars, modeVars>>

MarkAssessmentRunning(o) ==
    IF aStatus[o] = "RUNNING" THEN UNCHANGED <<aStatus, aPrev>>
    ELSE /\ aPrev' = [aPrev EXCEPT ![o] = aStatus[o]]
         /\ aStatus' = [aStatus EXCEPT ![o] = "RUNNING"]

-----------------------------------------------------------------------------
(* _run_job and _execute_job.  A worker whose cancel() was requested takes *)
(* no ordinary step: CancelledError is raised at its next resumption.      *)

WorkerAt(w, label) == pc[w] = label /\ ~asked[w]

WorkerFrame == <<queueVars, poolVars, cohortVars, job, owned, modeVars>>

(* The job's row is read; a job that is not QUEUED any more is dropped.    *)
WorkerLoad(w) ==
    /\ WorkerAt(w, "spawned")
    /\ Goto(w, IF status[job[w]] = "QUEUED" THEN "claim" ELSE "done")
    /\ UNCHANGED <<dbVars, out, WorkerFrame>>

(* The transaction that read QUEUED commits PREPARING.                     *)
WorkerClaim(w) ==
    /\ WorkerAt(w, "claim")
    /\ status' = [status EXCEPT ![job[w]] = "PREPARING"]
    /\ Goto(w, "prepare")
    /\ UNCHANGED <<aStatus, aPrev, out, WorkerFrame>>

(* get_plugin(), prepare() or build_command() raised.                      *)
WorkerPrepareFails(w) ==
    /\ WorkerAt(w, "prepare")
    /\ out' = [out EXCEPT ![w] = "FAILED"]
    /\ Goto(w, "finalize")
    /\ UNCHANGED <<dbVars, WorkerFrame>>

WorkerStart(w) ==
    /\ WorkerAt(w, "prepare")
    /\ status' = [status EXCEPT ![job[w]] = "RUNNING"]
    /\ Goto(w, "execute")
    /\ UNCHANGED <<aStatus, aPrev, out, WorkerFrame>>

(* wait_for(execute(), timeout) returned or raised: an exit code, with     *)
(* output to persist or without; an exception; or the timeout.             *)
WorkerExecuted(w) ==
    /\ WorkerAt(w, "execute")
    /\ \/ \E o \in {"COMPLETED", "FAILED"} :
              /\ out' = [out EXCEPT ![w] = o]
              /\ Goto(w, "persist") \/ Goto(w, "finalize")
       \/ /\ out' = [out EXCEPT ![w] = "TIMEOUT"]
          /\ Goto(w, "finalize")
    /\ UNCHANGED <<dbVars, WorkerFrame>>

WorkerPersisted(w) ==
    /\ WorkerAt(w, "persist")
    /\ Goto(w, "finalize")
    /\ UNCHANGED <<dbVars, out, WorkerFrame>>

(* Mutant: when its output cannot be persisted the tool is run once more.  *)
WorkerPersistFailsAgain(w) ==
    /\ WorkerAt(w, "persist")
    /\ Goto(w, "execute")
    /\ UNCHANGED <<dbVars, out, WorkerFrame>>

(* Persisting raised: outside the try, so _run_job only logs it.           *)
WorkerPersistFails(w) ==
    /\ WorkerAt(w, "persist")
    /\ Return(w)
    /\ UNCHANGED <<dbVars, queueVars, poolVars, cohortVars, modeVars>>

(* CancelledError is raised inside w.  Before the first step nothing of    *)
(* the coroutine runs.  A commit that was awaited may have reached the     *)
(* database or not.  Inside the try the handler finalizes CANCELLED;       *)
(* outside it, or in a handler, the task just ends.                        *)
WorkerCancelled(w) ==
    /\ asked[w]
    /\ asked' = [asked EXCEPT ![w] = FALSE]
    /\ \/ /\ pc[w] = "spawned"
          /\ Return(w)
          /\ UNCHANGED dbVars
       \/ /\ pc[w] \in {"spawned", "claim", "prepare", "execute"}
          /\ \/ UNCHANGED status
             \/ /\ pc[w] = "claim"
                /\ status' = [status EXCEPT ![job[w]] = "PREPARING"]
             \/ /\ pc[w] = "prepare"
                /\ status' = [status EXCEPT ![job[w]] = "RUNNING"]
          /\ out' = [out EXCEPT ![w] = "CANCELLED"]
          /\ Goto(w, "finalize")
          /\ UNCHANGED <<aStatus, aPrev, job, owned>>
       \/ /\ pc[w] \in {"persist", "finalize", "hook"}
          /\ \/ UNCHANGED status
             \/ /\ pc[w] = "finalize"
                /\ status' = [status EXCEPT ![job[w]] = out[w]]
          /\ Return(w)
          /\ UNCHANGED <<aStatus, aPrev>>
       \/ /\ pc[w] = "settle"
          /\ UNCHANGED <<aStatus, aPrev>> \/ FinalizeAssessment(Owner(job[w]), out[w])
          /\ Return(w)
          /\ UNCHANGED status
    /\ UNCHANGED <<queueVars, permits, running, hand, cohortVars, modeVars>>

(* Mutant: the permit is given back by code of the coroutine, which a task *)
(* cancelled before its first step never enters.                           *)
WorkerDoneLeaks(w, n) ==
    /\ pc[w] = "done" /\ pc[n] = "idle"
    /\ running' = [running EXCEPT ![job[w]] = None]
    /\ permits' = IF status[job[w]] = "QUEUED" THEN permits ELSE permits + 1
    /\ asked' = [asked EXCEPT ![w] = FALSE]
    /\ pc' = [pc EXCEPT ![w] = "idle", ![n] = "check"]
    /\ job' = [job EXCEPT ![w] = None, ![n] = job[w]]
    /\ UNCHANGED <<dbVars, queueVars, hand, cohortVars, out, owned, modeVars>>

(* Mutant: the entry of the map is left behind.                            *)
WorkerDoneKeepsEntry(w, n) ==
    /\ pc[w] = "done" /\ pc[n] = "idle"
    /\ permits' = permits + 1
    /\ asked' = [asked EXCEPT ![w] = FALSE]
    /\ pc' = [pc EXCEPT ![w] = "idle", ![n] = "check"]
    /\ job' = [job EXCEPT ![w] = None, ![n] = job[w]]
    /\ UNCHANGED <<dbVars, queueVars, running, hand, cohortVars, out, owned, modeVars>>

(* Mutant: the callback looks its job up after the task is gone.           *)
WorkerDoneForgets(w, n) ==
    /\ pc[w] = "done" /\ pc[n] = "idle"
    /\ running' = [running EXCEPT ![job[w]] = None]
    /\ permits' = permits + 1
    /\ asked' = [asked EXCEPT ![w] = FALSE]
    /\ pc' = [pc EXCEPT ![w] = "idle", ![n] = "check"]
    /\ job' = [job EXCEPT ![w] = None]
    /\ UNCHANGED <<dbVars, queueVars, hand, cohortVars, out, owned, modeVars>>

(* _on_worker_done: pops the job's map entry, whichever task it names.     *)
WorkerDone(w, n) ==
    /\ pc[w] = "done" /\ pc[n] = "idle"
    /\ running' = [running EXCEPT ![job[w]] = None]
    /\ permits' = permits + 1
    /\ asked' = [asked EXCEPT ![w] = FALSE]
    /\ pc' = [pc EXCEPT ![w] = "idle", ![n] = "check"]
    /\ job' = [job EXCEPT ![w] = None, ![n] = job[w]]
    /\ UNCHANGED <<dbVars, queueVars, hand, cohortVars, out, owned, modeVars>>

(* Mutant: only a job that got past the queue is looked after.             *)
NetCheckStarted(n) ==
    /\ pc[n] = "check"
    /\ IF status[job[n]] \notin {"PREPARING", "RUNNING"}
       THEN Return(n)
       ELSE /\ Goto(n, "finalize")
            /\ out' = [out EXCEPT ![n] = "CANCELLED"]
            /\ UNCHANGED <<job, owned>>
    /\ UNCHANGED <<dbVars, queueVars, poolVars, cohortVars, modeVars>>

(* Mutant: every job whose task ended is cancelled.                        *)
NetCheckBlindly(n) ==
    /\ pc[n] = "check"
    /\ Goto(n, "finalize")
    /\ out' = [out EXCEPT ![n] = "CANCELLED"]
    /\ UNCHANGED <<dbVars, queueVars, poolVars, cohortVars, job, owned, modeVars>>

(* _ensure_cancelled_finalized: a no-op once the job is terminal.          *)
NetCheck(n) ==
    /\ pc[n] = "check"
    /\ IF status[job[n]] \in TerminalStatuses
       THEN Return(n)
       ELSE /\ Goto(n, "finalize")
            /\ out' = [out EXCEPT ![n] = "CANCELLED"]
            /\ UNCHANGED <<job, owned>>
    /\ UNCHANGED <<dbVars, queueVars, poolVars, cohortVars, modeVars>>

-----------------------------------------------------------------------------
(* execute_assessment and enqueue().                                       *)

RequestFrame == <<poolVars, out, owned, modeVars>>

(* The plan is committed: a job is PENDING, or SKIPPED by the planner.     *)
Plan(r) ==
    /\ mode = "up" /\ pc[r] = "idle"
    /\ \E skipped \in SUBSET {j \in Jobs : RunOf[j] = r} :
          status' = [j \in Jobs |-> IF RunOf[j] # r THEN status[j]
                                   ELSE IF j \in skipped THEN "SKIPPED" ELSE "PENDING"]
    /\ Goto(r, "planned")
    /\ UNCHANGED <<aStatus, aPrev, queueVars, cohortVars, job, RequestFrame>>

(* enqueue() with no job returns at once; otherwise the cohort is replaced. *)
EnqueueBegin(r) ==
    LET o == AssessmentOf[r]
    IN  /\ pc[r] = "planned"
        /\ IF RunnableJobs(r) = {}
           THEN Goto(r, "end") /\ UNCHANGED cohortVars
           ELSE /\ pending' = [pending EXCEPT ![o] = RunnableJobs(r)]
                /\ statuses' = [statuses EXCEPT ![o] = NoStatuses]
                /\ Goto(r, "enqueue")
        /\ UNCHANGED <<dbVars, queueVars, job, RequestFrame>>

(* Every job becomes QUEUED, whatever its row holds by now.                *)
EnqueueCommit(r) ==
    /\ pc[r] = "enqueue"
    /\ status' = [j \in Jobs |-> IF j \in RunnableJobs(r) THEN "QUEUED" ELSE status[j]]
    /\ MarkAssessmentRunning(AssessmentOf[r])
    /\ Goto(r, "put")
    /\ UNCHANGED <<queueVars, cohortVars, job, RequestFrame>>

(* The planner's order, which is some order of the jobs.                   *)
EnqueuePut(r) ==
    /\ pc[r] = "put"
    /\ \E order \in SetToSeqs(RunnableJobs(r)) : Put("default", order)
    /\ Goto(r, "end")
    /\ UNCHANGED <<dbVars, cohortVars, job, RequestFrame>>

(* cancel(): the part before the first await.                              *)
CancelBegin(c, j) ==
    /\ mode = "up" /\ pc[c] = "idle" /\ status[j] # "ABSENT"
    /\ Flag(j)
    /\ owned' = [owned EXCEPT ![c] = (running[j] # None)]
    /\ job' = [job EXCEPT ![c] = j]
    /\ Goto(c, "read")
    /\ UNCHANGED <<dbVars, poolVars, cohortVars, out, modeVars>>

(* JobNotCancellableError leaves the queue's flag behind.                  *)
CancelRead(c) ==
    /\ pc[c] = "read"
    /\ IF status[job[c]] \in ActiveStatuses
       THEN Goto(c, "act") /\ UNCHANGED <<job, out, owned>>
       ELSE Return(c)
    /\ UNCHANGED <<dbVars, queueVars, poolVars, cohortVars, modeVars>>

(* Mutant: a job nobody owns is left to the dispatcher to skip.            *)
CancelActFlagsOnly(c) ==
    /\ pc[c] = "act"
    /\ asked' = [v \in Workers |-> asked[v] \/
                    (owned[c] /\ v = running[job[c]] /\ pc[v] # "done")]
    /\ Return(c)
    /\ UNCHANGED <<dbVars, queueVars, permits, running, hand, cohortVars, modeVars>>

(* The transaction is over: nobody owned the job when cancel() began, so   *)
(* CANCELLED was written; or its task, if there is one now, is cancelled.  *)
CancelAct(c) ==
    LET w == running[job[c]]
    IN  /\ pc[c] = "act"
        /\ \/ /\ ~owned[c]
              /\ status' = [status EXCEPT ![job[c]] = "CANCELLED"]
              /\ out' = [out EXCEPT ![c] = "CANCELLED"]
              /\ Goto(c, "hook")
              /\ UNCHANGED <<asked, job, owned>>
           \/ /\ owned[c]
              /\ asked' = [v \in Workers |-> asked[v] \/ (v = w /\ pc[v] # "done")]
              /\ Return(c)
              /\ UNCHANGED status
        /\ UNCHANGED <<aStatus, aPrev, queueVars, permits, running, hand,
                       cohortVars, modeVars>>

(* retry(): the status is read, written, and the entry put, in three steps. *)
RetryRead(r, j) ==
    /\ mode = "up" /\ pc[r] = "idle"
    /\ status[j] \in RetriableStatuses
    /\ job' = [job EXCEPT ![r] = j]
    /\ Goto(r, "reset")
    /\ UNCHANGED <<dbVars, queueVars, cohortVars, RequestFrame>>

RetryCommit(r) ==
    /\ pc[r] = "reset"
    /\ status' = [status EXCEPT ![job[r]] = "QUEUED"]
    /\ MarkAssessmentRunning(Owner(job[r]))
    /\ Goto(r, "put")
    /\ UNCHANGED <<queueVars, cohortVars, job, RequestFrame>>

RetryPut(r) ==
    /\ pc[r] = "put"
    /\ pending' = [pending EXCEPT ![Owner(job[r])] = @ \cup {job[r]}]
    /\ Put("retry", <<job[r]>>)
    /\ Return(r)
    /\ UNCHANGED <<dbVars, statuses, poolVars, modeVars>>

-----------------------------------------------------------------------------
(* shutdown(), called by the application's lifespan once the server has    *)
(* answered every request; and the loss of the process at any moment.      *)

Quiet == \A a \in Runs \cup Cancels \cup Retries : pc[a] \in {"idle", "end"}

(* Every task of the map and the dispatcher are cancelled; a job the       *)
(* dispatcher held is dropped with it.                                     *)
ShutdownBegin ==
    /\ mode = "up" /\ Quiet /\ stops < MaxStops
    /\ mode' = "stopping"
    /\ draining' = {running[j] : j \in Jobs} \ {None}
    /\ asked' = [w \in Workers |->
                   asked[w] \/ (w \in draining' /\ pc[w] # "done")]
    /\ hand' = None
    /\ stops' = stops + 1
    /\ UNCHANGED <<dbVars, queueVars, permits, running, cohortVars, pc, job, out, owned>>

(* Mutant: the safety nets that the cancellations spawn are not awaited.   *)
ShutdownEndEarly ==
    /\ mode = "stopping"
    /\ \A w \in draining : pc[w] = "idle"
    /\ running' = [j \in Jobs |-> None]
    /\ draining' = {}
    /\ mode' = "down"
    /\ UNCHANGED <<dbVars, queueVars, permits, hand, asked, cohortVars,
                   pc, job, out, owned, stops>>

(* gather() returned and no safety net is left.                            *)
ShutdownEnd ==
    /\ mode = "stopping"
    /\ \A w \in draining : pc[w] = "idle"
    /\ \A n \in Nets : pc[n] = "idle"
    /\ running' = [j \in Jobs |-> None]
    /\ draining' = {}
    /\ mode' = "down"
    /\ UNCHANGED <<dbVars, queueVars, permits, hand, asked, cohortVars,
                   pc, job, out, owned, stops>>

(* A new process: nothing reads the rows a previous one left behind.       *)
FreshProcess ==
    /\ queue' = [l \in Lanes |-> <<>>]
    /\ flagged' = {}
    /\ permits' = MaxConcurrent
    /\ running' = [j \in Jobs |-> None]
    /\ pending' = [a \in Assessments |-> {}]
    /\ statuses' = [a \in Assessments |-> NoStatuses]
    /\ hand' = None
    /\ pc' = [a \in Actors |-> IF a \in Workers \cup Nets \/ pc[a] = "idle"
                              THEN "idle" ELSE "end"]
    /\ job' = [a \in Actors |-> None]
    /\ out' = [a \in Actors |-> "NONE"]
    /\ owned' = [c \in Cancels |-> FALSE]
    /\ asked' = [w \in Workers |-> FALSE]
    /\ mode' = "up"
    /\ draining' = {}
    /\ UNCHANGED dbVars

Restart == mode = "down" /\ FreshProcess /\ UNCHANGED stops

Crash == mode # "down" /\ stops < MaxStops /\ FreshProcess /\ stops' = stops + 1

-----------------------------------------------------------------------------
WorkerNext(w) ==
    \/ WorkerLoad(w) \/ WorkerClaim(w) \/ WorkerPrepareFails(w) \/ WorkerStart(w)
    \/ WorkerExecuted(w) \/ WorkerPersisted(w) \/ WorkerPersistFails(w)
    \/ WorkerCancelled(w) \/ Finalize(w) \/ LeaveCohort(w) \/ Settle(w)
    \/ \E n \in Nets : WorkerDone(w, n)

NetNext(n) == NetCheck(n) \/ Finalize(n) \/ LeaveCohort(n) \/ Settle(n)

DispatchNext ==
    \/ DispatchSkip \/ DispatchHold
    \/ \E w \in Workers : DispatchSpawn(w) \/ DispatchHeld(w)

(* What a request does once it has begun.                                  *)
RunNext(r) == EnqueueBegin(r) \/ EnqueueCommit(r) \/ EnqueuePut(r)
CancelNext(c) == CancelRead(c) \/ CancelAct(c) \/ LeaveCohort(c) \/ Settle(c)
RetryNext(r) == RetryCommit(r) \/ RetryPut(r)

UserNext ==
    \/ \E r \in Runs : Plan(r)
    \/ \E c \in Cancels, j \in Jobs : CancelBegin(c, j)
    \/ \E r \in Retries, j \in Jobs : RetryRead(r, j)

ProcessNext == ShutdownBegin \/ ShutdownEnd \/ Restart \/ Crash

Next ==
    \/ DispatchNext
    \/ \E w \in Workers : WorkerNext(w)
    \/ \E n \in Nets : NetNext(n)
    \/ \E r \in Runs : RunNext(r)
    \/ \E c \in Cancels : CancelNext(c)
    \/ \E r \in Retries : RetryNext(r)
    \/ UserNext
    \/ ProcessNext

Spec == Init /\ [][Next]_vars

(* The event loop resumes every coroutine whose await has ended, a tool    *)
(* ends or is timed out, and nobody must make a request.                   *)
Fairness ==
    /\ WF_vars(DispatchNext)
    /\ \A w \in Workers : WF_vars(WorkerNext(w))
    /\ \A n \in Nets : WF_vars(NetNext(n))
    /\ \A r \in Runs : WF_vars(RunNext(r))
    /\ \A c \in Cancels : WF_vars(CancelNext(c))
    /\ \A r \in Retries : WF_vars(RetryNext(r))
    /\ WF_vars(ShutdownEnd)

FairSpec == Spec /\ Fairness

-----------------------------------------------------------------------------
(* Safety.  The first four hold however requests, workers and safety nets  *)
(* interleave.                                                             *)

(* Every permit is in the semaphore or held by exactly one task, however   *)
(* the task ended: it returned, raised, was cancelled, or was cancelled    *)
(* before its first step (_dispatch_loop, _on_worker_done).                *)
PermitsConserved == permits + Cardinality(Live) = MaxConcurrent

(* No more than max_concurrent_executions tools run at once.               *)
ConcurrencyBound == Cardinality({w \in Workers : pc[w] = "execute"}) <= MaxConcurrent

(* _running_tasks, through which cancel() and shutdown() act, never names  *)
(* a task whose done callback ran, or a task of another job.               *)
RunningMapSound ==
    \A j \in Jobs : running[j] # None =>
        running[j] \in Live /\ job[running[j]] = j

InQueue(j) == \E l \in Lanes : Contains(queue[l], j)

(* What will still move an unfinished job: an entry the dispatcher will    *)
(* take, the dispatcher itself, a task, a safety net that has yet to look  *)
(* or to write, or a request that has yet to put the entry or the status.  *)
Carried(j) ==
    \/ hand = j
    \/ InQueue(j) /\ j \notin flagged
    \/ \E w \in Live : job[w] = j
    \/ \E n \in Nets : job[n] = j /\ pc[n] \in {"check", "finalize"}
    \/ pc[RunOf[j]] = "put"
    \/ \E r \in Retries : job[r] = j /\ pc[r] = "put"
    \/ \E c \in Cancels : job[c] = j /\ pc[c] \in {"read", "act"} /\ ~owned[c]

(* While the process lives no job is left QUEUED, PREPARING or RUNNING     *)
(* with nothing to finish it: the failure _on_worker_done's safety net and *)
(* enqueue()'s discarding of a stale cancellation flag exist to prevent.   *)
NoStuckJob ==
    stops = 0 => \A j \in Jobs :
        status[j] \in {"QUEUED", "PREPARING", "RUNNING"} => Carried(j)

(* Two workers never run the tool of one job at the same time.             *)
NoDoubleExecution ==
    \A v, w \in Workers :
        pc[v] = "execute" /\ pc[w] = "execute" /\ job[v] = job[w] => v = w

(* An assessment is RUNNING as long as one of its jobs is under way        *)
(* (_mark_assessment_running, the cohort, _finalize_assessment).           *)
AssessmentRunsWithItsJobs ==
    \A j \in Jobs : status[j] \in {"QUEUED", "PREPARING", "RUNNING"} =>
        aStatus[Owner(j)] = "RUNNING"

(* When shutdown() returns no task of the pool outlives it, and no job it  *)
(* had started is left in a status only a task could change.  (A later     *)
(* process finds the rows that an earlier one left when it crashed.)       *)
ShutdownIsClean ==
    mode = "down" => /\ Live = {}
                     /\ stops = 1 => \A j \in Jobs :
                            status[j] \notin {"PREPARING", "RUNNING"}

-----------------------------------------------------------------------------
(* What a step may never do.                                               *)

(* A row in a terminal status changes only by a retry (state.py).          *)
TerminalStable ==
    [][\A j \in Jobs : status[j] \in TerminalStatuses =>
          status'[j] \in {status[j], "QUEUED"}]_vars

(* Every change of a row's status is one of the transition table.          *)
LegalTransitions ==
    [][\A j \in Jobs : status[j] \in JobStatus /\ status'[j] # status[j] =>
          IsTransitionAllowed(status[j], status'[j])]_vars

(* The safety net cancels a job only when nothing else will finish it: no  *)
(* queue entry and no task that has yet to write its outcome.              *)
NetCatchesOnlyStuckJobs ==
    [][\A n \in Nets : pc[n] = "check" /\ pc'[n] = "finalize" =>
          /\ ~InQueue(job[n])
          /\ \A w \in Live : job[w] = job[n] => pc[w] \in {"hook", "settle", "done"}]_vars

-----------------------------------------------------------------------------
(* What a user who neither cancels nor retries sees of all this.           *)

Tasks == Workers \cup Nets

At(a, j) == pc[a] # "idle" /\ job[a] = j     \* the task has the job

(* How far a task has come with its job.  Once the job's row has its       *)
(* outcome there is nothing left to do for it.                             *)
Stage(a) ==
    CASE pc[a] \in {"spawned", "claim", "prepare"} -> "task"
      [] pc[a] = "execute" -> "tool"
      [] pc[a] \in {"persist", "finalize"} -> out[a]
      [] pc[a] \in {"done", "check"} /\ status[job[a]] \notin TerminalStatuses -> "lost"
      [] OTHER -> "none"

Work(j) ==
    IF \E a \in Tasks : At(a, j) THEN Stage(CHOOSE a \in Tasks : At(a, j))
    ELSE IF pc[RunOf[j]] = "put" /\ status[j] = "QUEUED" THEN "accepted" ELSE "none"

(* The jobs that wait: the one the dispatcher holds, then the queue's.     *)
Line == (IF hand = None THEN <<>> ELSE <<hand>>) \o queue["default"]

Lifecycle == INSTANCE JobLifecycle WITH
                row <- status,
                line <- Line,
                work <- [j \in Jobs |-> Work(j)],
                up <- (mode = "up")

(* As long as nobody cancels or retries, the manager is no more than a     *)
(* line of jobs, each started in its turn, run once and recorded once,     *)
(* whatever the dispatcher, the pool, the safety nets and the shutdowns do *)
(* in between (_dispatch_loop, _run_job, _on_worker_done, shutdown).       *)
ImplementsLifecycle == Lifecycle!LifecycleSpec

-----------------------------------------------------------------------------
(* Liveness.                                                               *)

(* While the process lives, every job that was planned ends.               *)
EveryJobSettles == \A j \in Jobs :
    status[j] \in ActiveStatuses ~> status[j] \in TerminalStatuses \/ stops > 0

(* Nor does an assessment stay RUNNING once its jobs have ended.           *)
AssessmentSettles == \A a \in Assessments :
    aStatus[a] = "RUNNING" ~> aStatus[a] # "RUNNING" \/ stops > 0

(* Nothing recovers the jobs of a process that died, but a user can: once  *)
(* the last stop is over, a job whose cancellation is accepted ends.       *)
CancelRescues == \A c \in Cancels, j \in Jobs :
    stops = MaxStops /\ mode = "up" /\ pc[c] = "act" /\ job[c] = j
        ~> status[j] \in TerminalStatuses
=============================================================================
