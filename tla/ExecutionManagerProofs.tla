----------------------- MODULE ExecutionManagerProofs -----------------------
(***************************************************************************)
(* The execution manager's types, the soundness of the map of running      *)
(* tasks and the conservation of the semaphore's permits, for any number   *)
(* of jobs, workers, requests and restarts; and that, while the process    *)
(* lives, every job that is QUEUED, PREPARING or RUNNING has something     *)
(* that will still move it.                                                *)
(***************************************************************************)
EXTENDS ExecutionManager, FiniteSetTheorems, TLAPS

(* The tuples an action frames itself with, the shape of its updates, and  *)
(* the operations of the queue.                                            *)
USE DEF dbVars, queueVars, poolVars, cohortVars, modeVars, WorkerFrame,
        RequestFrame, Goto, QueueInit, Skip, Take, Put, Flag

-----------------------------------------------------------------------------
(* The operators the actions are built from.                               *)

(* The jobs of a run in some order are a sequence of jobs.                 *)
LEMMA OrdersAreSeqs ==
    ASSUME NEW S, S \subseteq Jobs, NEW order \in SetToSeqs(S)
    PROVE  order \in Seq(Jobs)
<1>1. IsFiniteSet(S)
  BY FiniteAssumption, FS_Subset DEF FiniteAssumption
<1>2. Cardinality(S) \in Nat
  BY <1>1, FS_CardinalityType
<1>3. order \in [1..Cardinality(S) -> Jobs]
  BY DEF SetToSeqs
<1> QED BY <1>2, <1>3

(* Every job has an assessment.                                            *)
LEMMA OwnerType == \A j \in Jobs : Owner(j) \in Assessments
BY RunAssumption DEF RunAssumption, Owner

(* A non-empty queue has a next job, and is a queue without it.            *)
LEMMA PoppedType ==
    ASSUME QueueOK, ~Empty
    PROVE  NextJob \in Jobs /\ Popped \in [Lanes -> Seq(Jobs)]
BY DEF QueueOK, Empty, NextJob, Popped, HeadLane, Lanes

(* A coroutine that returns leaves every actor well-typed.                 *)
LEMMA ReturnType ==
    ASSUME ActorsOK, ActorsKnow, NEW a \in Actors \ Runs, Return(a),
           a \in Workers => job[a] \in Jobs
    PROVE  ActorsOK' /\ ActorsKnow'
<1> DEFINE last == IF a \in Workers THEN "done" ELSE IF a \in Nets THEN "idle" ELSE "end"
<1>1. IF a \in Workers THEN last = "done" ELSE last \in {"idle", "end"}
  OBVIOUS
<1>2. pc' = [pc EXCEPT ![a] = last]
  BY DEF Return
<1>3. /\ job' = IF a \in Workers THEN job ELSE [job EXCEPT ![a] = None]
      /\ out' = [out EXCEPT ![a] = "NONE"]
      /\ owned' \in [Cancels -> BOOLEAN]
  BY DEF Return, ActorsOK
<1> HIDE DEF last
<1>4. ActorsOK'
  BY <1>1, <1>2, <1>3 DEF ActorsOK, Actors, WorkerPcs, RunPcs
<1>5. ActorsKnow'
  <2>1. \A b \in Actors : pc'[b] = IF b = a THEN last ELSE pc[b]
    BY <1>2 DEF ActorsOK
  <2>2. \A b \in Actors : b # a => out'[b] = out[b] /\ job'[b] = job[b]
    BY <1>3 DEF ActorsOK
  <2>3. a \in Workers => job'[a] = job[a]
    BY <1>3
  <2> QED BY <1>1, <2>1, <2>2, <2>3 DEF ActorsKnow, Actors, WorkerPcs
<1> QED BY <1>4, <1>5

(* The two writes of an assessment's row keep it well-typed.               *)
LEMMA MarkRunningType ==
    ASSUME DbOK, NEW o \in Assessments, MarkAssessmentRunning(o)
    PROVE  /\ aStatus' \in [Assessments -> AssessmentStatus]
           /\ aPrev' \in [Assessments -> AssessmentStatus \cup {"NONE"}]
BY DEF DbOK, MarkAssessmentRunning, AssessmentStatus

LEMMA FinalizeAssessmentType ==
    ASSUME DbOK, NEW o \in Assessments, NEW outcome, FinalizeAssessment(o, outcome)
    PROVE  /\ aStatus' \in [Assessments -> AssessmentStatus]
           /\ aPrev' \in [Assessments -> AssessmentStatus \cup {"NONE"}]
BY DEF DbOK, FinalizeAssessment, AssessmentStatus

(* What an actor knows when it takes a step.                               *)
LEMMA ActorKnowledge ==
    ASSUME ActorsKnow, NEW a \in Actors \ Runs, pc[a] \notin {"idle", "end"}
    PROVE  /\ job[a] \in Jobs
           /\ pc[a] \in {"persist", "finalize", "hook", "settle"} =>
                out[a] \in FinalOutcomes /\ out[a] \in JobStatus
BY DEF ActorsKnow, FinalOutcomes, JobStatus

-----------------------------------------------------------------------------
(* Types, one lemma per group of actions.                                  *)

LEMMA DispatchType == TypeOK /\ DispatchNext => TypeOK'
<1> SUFFICES ASSUME TypeOK, DispatchNext PROVE TypeOK'
  OBVIOUS
<1>1. CASE DispatchSkip
  <2>1. QueueOK'
    BY <1>1, PoppedType DEF TypeOK, QueueOK, DispatchSkip
  <2> QED BY <1>1, <2>1 DEF TypeOK, DispatchSkip, DbOK, PoolOK, CohortOK, ActorsOK,
             ActorsKnow, ModeOK
<1>2. CASE DispatchHold
  <2>1. QueueOK' /\ PoolOK'
    BY <1>2, PoppedType DEF TypeOK, QueueOK, PoolOK, DispatchHold
  <2> QED BY <1>2, <2>1 DEF TypeOK, DispatchHold, DbOK, CohortOK, ActorsOK, ActorsKnow,
             ModeOK
<1>3. ASSUME NEW w \in Workers, NEW j \in Jobs, Spawn(w, j), UNCHANGED <<out, owned>>
      PROVE  PoolOK' /\ ActorsOK' /\ ActorsKnow'
  BY <1>3, ActorsDisjoint
  DEF TypeOK, PoolOK, ActorsOK, ActorsKnow, Spawn, Actors, WorkerPcs, ActorsDisjoint
<1>4. ASSUME NEW w \in Workers, DispatchSpawn(w) PROVE TypeOK'
  <2>1. QueueOK' /\ NextJob \in Jobs
    BY <1>4, PoppedType DEF TypeOK, QueueOK, DispatchSpawn
  <2>2. PoolOK' /\ ActorsOK' /\ ActorsKnow'
    BY <1>3, <1>4, <2>1 DEF DispatchSpawn
  <2> QED BY <1>4, <2>1, <2>2 DEF TypeOK, DispatchSpawn, DbOK, CohortOK, ModeOK
<1>5. ASSUME NEW w \in Workers, DispatchHeld(w) PROVE TypeOK'
  <2>1. hand \in Jobs
    BY <1>5 DEF TypeOK, PoolOK, DispatchHeld
  <2>2. PoolOK' /\ ActorsOK' /\ ActorsKnow'
    BY <1>3, <1>5, <2>1 DEF DispatchHeld
  <2> QED BY <1>5, <2>2 DEF TypeOK, DispatchHeld, DbOK, QueueOK, CohortOK, ModeOK
<1> QED BY <1>1, <1>2, <1>4, <1>5 DEF DispatchNext

(* _finalize, _on_job_terminal and _finalize_assessment, whoever runs them. *)
LEMMA TerminalType ==
    ASSUME TypeOK, NEW a \in Workers \cup Nets \cup Cancels,
           Finalize(a) \/ LeaveCohort(a) \/ Settle(a)
    PROVE  TypeOK'
<1> DEFINE o == Owner(job[a])
<1>1. a \in Actors \ Runs
  BY ActorsDisjoint DEF ActorsDisjoint, Actors
<1>2. /\ job[a] \in Jobs /\ o \in Assessments
      /\ out[a] \in FinalOutcomes /\ out[a] \in JobStatus
  BY <1>1, ActorKnowledge, OwnerType DEF TypeOK, Finalize, LeaveCohort, Settle
<1> HIDE DEF o
<1>3. CASE Finalize(a)
  <2>1. DbOK'
    BY <1>2, <1>3 DEF TypeOK, DbOK, Finalize
  <2>2. ActorsOK' /\ ActorsKnow'
    BY <1>1, <1>2, <1>3 DEF TypeOK, ActorsOK, ActorsKnow, Finalize, WorkerPcs
  <2> QED BY <1>3, <2>1, <2>2 DEF TypeOK, Finalize, QueueOK, PoolOK, CohortOK, ModeOK
<1>4. CASE LeaveCohort(a)
  <2> DEFINE ended == [statuses[o] EXCEPT ![job[a]] = out[a]]
  <2>1. ended \in [Jobs -> FinalOutcomes \cup {"NONE"}]
    BY <1>2 DEF TypeOK, CohortOK
  <2>2. \/ Return(a) /\ UNCHANGED cohortVars
        \/ /\ Return(a)
           /\ pending' = [pending EXCEPT ![o] = pending[o] \ {job[a]}]
           /\ statuses' = [statuses EXCEPT ![o] = ended]
        \/ /\ pending' = [pending EXCEPT ![o] = {}]
           /\ statuses' = [statuses EXCEPT ![o] = NoStatuses]
           /\ \E oc \in {"CANCELLED", "COMPLETED"} : out' = [out EXCEPT ![a] = oc]
           /\ Goto(a, "settle")
           /\ UNCHANGED <<job, owned>>
    BY <1>4 DEF LeaveCohort, o
  <2>3. UNCHANGED <<dbVars, queueVars, poolVars, modeVars>>
    BY <1>4 DEF LeaveCohort
  <2> HIDE DEF ended
  <2>4. CohortOK'
    BY <1>2, <2>1, <2>2 DEF TypeOK, CohortOK, NoStatuses
  <2>5. ActorsOK' /\ ActorsKnow'
    <3>1. CASE Return(a)
      BY <1>1, <1>2, <3>1, ReturnType DEF TypeOK
    <3>2. CASE ~Return(a)
      <4>1. PICK oc \in {"CANCELLED", "COMPLETED"} : out' = [out EXCEPT ![a] = oc]
        BY <2>2, <3>2
      <4>2. pc' = [pc EXCEPT ![a] = "settle"] /\ UNCHANGED <<job, owned>>
        BY <2>2, <3>2
      <4>3. oc \in FinalOutcomes
        BY DEF FinalOutcomes
      <4> QED BY <1>1, <1>2, <4>1, <4>2, <4>3 DEF TypeOK, ActorsOK, ActorsKnow, WorkerPcs
    <3> QED BY <3>1, <3>2
  <2> QED BY <2>3, <2>4, <2>5 DEF TypeOK, DbOK, QueueOK, PoolOK, ModeOK
<1>5. CASE Settle(a)
  <2>1. DbOK'
    BY <1>2, <1>5, FinalizeAssessmentType DEF TypeOK, DbOK, Settle, o
  <2>2. ActorsOK' /\ ActorsKnow'
    BY <1>1, <1>2, <1>5, ReturnType DEF TypeOK, Settle
  <2> QED BY <1>5, <2>1, <2>2 DEF TypeOK, Settle, QueueOK, PoolOK, CohortOK, ModeOK
<1> QED BY <1>3, <1>4, <1>5

(* The steps of a worker task, of its done callback and of a safety net.   *)
LEMMA WorkerType ==
    ASSUME TypeOK, NEW w \in Workers, WorkerNext(w)
    PROVE  TypeOK'
<1>1. w \in Actors \ Runs
  BY ActorsDisjoint DEF ActorsDisjoint, Actors
<1>2. pc[w] \notin {"idle", "end"} => job[w] \in Jobs
  BY <1>1, ActorKnowledge DEF TypeOK
<1>3. pc[w] \in {"persist", "finalize", "hook", "settle"} =>
        out[w] \in FinalOutcomes /\ out[w] \in JobStatus
  BY <1>1, ActorKnowledge DEF TypeOK
<1>4. ASSUME NEW label \in WorkerPcs, NEW o \in FinalOutcomes,
             pc[w] # "idle", Goto(w, label),
             \/ UNCHANGED out /\ (label \notin {"persist", "finalize"} \/ pc[w] = "persist")
             \/ out' = [out EXCEPT ![w] = o],
             label \notin {"hook", "settle"},
             UNCHANGED <<job, owned>>
      PROVE  ActorsOK' /\ ActorsKnow'
  <2>1. ActorsOK'
    BY <1>1, <1>4 DEF TypeOK, ActorsOK
  <2>2. ActorsKnow'
    BY <1>1, <1>2, <1>3, <1>4 DEF TypeOK, ActorsOK, ActorsKnow, WorkerPcs
  <2> QED BY <2>1, <2>2
<1>5. CASE WorkerLoad(w)
  <2>1. ActorsOK' /\ ActorsKnow'
    BY <1>4, <1>5 DEF WorkerLoad, WorkerAt, WorkerPcs, FinalOutcomes
  <2> QED BY <1>5, <2>1 DEF TypeOK, WorkerLoad, DbOK, QueueOK, PoolOK, CohortOK, ModeOK
<1>6. CASE WorkerClaim(w) \/ WorkerStart(w)
  <2>1. ActorsOK' /\ ActorsKnow'
    BY <1>4, <1>6 DEF WorkerClaim, WorkerStart, WorkerAt, WorkerPcs, FinalOutcomes
  <2>2. DbOK'
    BY <1>2, <1>6 DEF TypeOK, DbOK, WorkerClaim, WorkerStart, WorkerAt, JobStatus
  <2> QED BY <1>6, <2>1, <2>2 DEF TypeOK, WorkerClaim, WorkerStart, QueueOK, PoolOK,
             CohortOK, ModeOK
<1>7. CASE WorkerPrepareFails(w) \/ WorkerExecuted(w) \/ WorkerPersisted(w)
  <2>1. ActorsOK' /\ ActorsKnow'
    BY <1>4, <1>7 DEF WorkerPrepareFails, WorkerExecuted, WorkerPersisted, WorkerAt,
                      WorkerPcs, FinalOutcomes
  <2> QED BY <1>7, <2>1 DEF TypeOK, WorkerPrepareFails, WorkerExecuted, WorkerPersisted,
             DbOK, QueueOK, PoolOK, CohortOK, ModeOK
<1>8. CASE WorkerPersistFails(w)
  <2>1. ActorsOK' /\ ActorsKnow'
    BY <1>1, <1>2, <1>8, ReturnType DEF TypeOK, WorkerPersistFails, WorkerAt
  <2> QED BY <1>8, <2>1 DEF TypeOK, WorkerPersistFails, DbOK, QueueOK, PoolOK, CohortOK, ModeOK
<1>9. CASE WorkerCancelled(w)
  <2>1. pc[w] # "idle" /\ pc[w] # "end" /\ job[w] \in Jobs
    BY <1>2, <1>9 DEF WorkerCancelled
  <2>2. ActorsOK' /\ ActorsKnow'
    <3>1. CASE Return(w)
      BY <1>1, <2>1, <3>1, ReturnType DEF TypeOK
    <3>2. CASE ~Return(w)
      BY <1>4, <1>9, <2>1, <3>2 DEF WorkerCancelled, WorkerPcs, FinalOutcomes
    <3> QED BY <3>1, <3>2
  <2>3. /\ aStatus' \in [Assessments -> AssessmentStatus]
        /\ aPrev' \in [Assessments -> AssessmentStatus \cup {"NONE"}]
    <3>1. CASE UNCHANGED <<aStatus, aPrev>>
      BY <3>1 DEF TypeOK, DbOK
    <3>2. CASE FinalizeAssessment(Owner(job[w]), out[w])
      BY <2>1, <3>2, OwnerType, FinalizeAssessmentType DEF TypeOK
    <3> QED BY <1>9, <3>1, <3>2 DEF WorkerCancelled
  <2>4. status' \in [Jobs -> JobStatus \cup {"ABSENT"}]
    <3>1. \/ UNCHANGED status
          \/ \E s \in JobStatus : status' = [status EXCEPT ![job[w]] = s]
      BY <1>3, <1>9 DEF WorkerCancelled, JobStatus
    <3> QED BY <2>1, <3>1 DEF TypeOK, DbOK
  <2>5. PoolOK'
    BY <1>9 DEF TypeOK, PoolOK, WorkerCancelled
  <2> QED BY <1>9, <2>2, <2>3, <2>4, <2>5 DEF TypeOK, WorkerCancelled, DbOK, QueueOK,
             CohortOK, ModeOK
<1>10. CASE Finalize(w) \/ LeaveCohort(w) \/ Settle(w)
  BY <1>10, TerminalType
<1>11. ASSUME NEW n \in Nets, WorkerDone(w, n) PROVE TypeOK'
  <2>1. n \in Actors \ Runs /\ n # w /\ n \notin Workers
    BY ActorsDisjoint DEF ActorsDisjoint, Actors
  <2>2. job[w] \in Jobs
    BY <1>2, <1>11 DEF WorkerDone
  <2>3. PoolOK'
    BY <1>11, <2>2 DEF TypeOK, PoolOK, WorkerDone
  <2>4. ActorsOK'
    BY <1>1, <1>11, <2>1, <2>2 DEF TypeOK, ActorsOK, WorkerDone, NetPcs
  <2>5. ActorsKnow'
    BY <1>1, <1>11, <2>1, <2>2 DEF TypeOK, ActorsOK, ActorsKnow, WorkerDone, Actors
  <2> QED BY <1>11, <2>3, <2>4, <2>5 DEF TypeOK, WorkerDone, DbOK, QueueOK, CohortOK, ModeOK
<1> QED BY <1>5, <1>6, <1>7, <1>8, <1>9, <1>10, <1>11 DEF WorkerNext

LEMMA NetType ==
    ASSUME TypeOK, NEW n \in Nets, NetNext(n)
    PROVE  TypeOK'
<1>1. CASE NetCheck(n)
  <2>1. n \in Actors \ Runs /\ n \notin Workers
    BY ActorsDisjoint DEF ActorsDisjoint, Actors
  <2>2. job[n] \in Jobs
    BY <1>1, <2>1, ActorKnowledge DEF TypeOK, NetCheck
  <2>3. ActorsOK' /\ ActorsKnow'
    <3>1. CASE Return(n)
      BY <2>1, <3>1, ReturnType DEF TypeOK
    <3>2. CASE ~Return(n)
      <4>1. /\ pc' = [pc EXCEPT ![n] = "finalize"]
            /\ out' = [out EXCEPT ![n] = "CANCELLED"]
            /\ UNCHANGED <<job, owned>>
        BY <1>1, <3>2 DEF NetCheck
      <4> QED BY <2>1, <2>2, <4>1
              DEF TypeOK, ActorsOK, ActorsKnow, NetPcs, FinalOutcomes
    <3> QED BY <3>1, <3>2
  <2> QED BY <1>1, <2>3 DEF TypeOK, NetCheck, DbOK, QueueOK, PoolOK, CohortOK, ModeOK
<1>2. CASE Finalize(n) \/ LeaveCohort(n) \/ Settle(n)
  BY <1>2, TerminalType
<1> QED BY <1>1, <1>2 DEF NetNext

(* The steps of an /execute request.                                       *)
LEMMA RunType ==
    ASSUME TypeOK, NEW r \in Runs, Plan(r) \/ RunNext(r)
    PROVE  TypeOK'
<1>1. /\ r \in Actors /\ AssessmentOf[r] \in Assessments
      /\ r \notin Workers \cup Nets \cup Cancels \cup Retries
  BY RunAssumption, ActorsDisjoint DEF RunAssumption, ActorsDisjoint, Actors
<1>2. ASSUME NEW label \in RunPcs, Goto(r, label), UNCHANGED <<job, out, owned>>
      PROVE  ActorsOK' /\ ActorsKnow'
  BY <1>1, <1>2 DEF TypeOK, ActorsOK, ActorsKnow, RunPcs
<1>3. ActorsOK' /\ ActorsKnow'
  BY <1>2 DEF Plan, RunNext, EnqueueBegin, EnqueueCommit, EnqueuePut, RunPcs
<1>4. RunnableJobs(r) \subseteq Jobs
  BY DEF RunnableJobs
<1>5. CASE Plan(r)
  <2>1. DbOK'
    BY <1>5 DEF TypeOK, DbOK, Plan, JobStatus
  <2> QED BY <1>3, <1>5, <2>1 DEF TypeOK, Plan, QueueOK, PoolOK, CohortOK, ModeOK
<1>6. CASE EnqueueBegin(r)
  <2>1. CohortOK'
    <3>1. CASE UNCHANGED cohortVars
      BY <3>1 DEF TypeOK, CohortOK
    <3>2. CASE ~UNCHANGED cohortVars
      <4>1. /\ pending' = [pending EXCEPT ![AssessmentOf[r]] = RunnableJobs(r)]
            /\ statuses' = [statuses EXCEPT ![AssessmentOf[r]] = NoStatuses]
        BY <1>6, <3>2 DEF EnqueueBegin
      <4> QED BY <1>1, <1>4, <4>1 DEF TypeOK, CohortOK, NoStatuses
    <3> QED BY <3>1, <3>2
  <2> QED BY <1>3, <1>6, <2>1 DEF TypeOK, EnqueueBegin, DbOK, QueueOK, PoolOK, ModeOK
<1>7. CASE EnqueueCommit(r)
  <2>1. DbOK'
    BY <1>1, <1>7, MarkRunningType DEF TypeOK, DbOK, EnqueueCommit, JobStatus
  <2> QED BY <1>3, <1>7, <2>1 DEF TypeOK, EnqueueCommit, QueueOK, PoolOK, CohortOK, ModeOK
<1>8. CASE EnqueuePut(r)
  <2>1. PICK order \in SetToSeqs(RunnableJobs(r)) :
            queue' = [queue EXCEPT !["default"] = @ \o order]
    BY <1>8 DEF EnqueuePut
  <2>2. order \in Seq(Jobs)
    BY <1>4, OrdersAreSeqs
  <2>3. queue \in [Lanes -> Seq(Jobs)] /\ "default" \in Lanes
    BY DEF TypeOK, QueueOK, Lanes
  <2>4. queue["default"] \o order \in Seq(Jobs)
    BY <2>2, <2>3
  <2>5. QueueOK'
    BY <1>8, <2>1, <2>3, <2>4 DEF TypeOK, QueueOK, EnqueuePut
  <2> QED BY <1>3, <1>8, <2>5 DEF TypeOK, EnqueuePut, DbOK, PoolOK, CohortOK, ModeOK
<1> QED BY <1>5, <1>6, <1>7, <1>8 DEF RunNext

(* The steps of a cancel request.                                          *)
LEMMA CancelType ==
    ASSUME TypeOK, NEW c \in Cancels,
           CancelNext(c) \/ \E j \in Jobs : CancelBegin(c, j)
    PROVE  TypeOK'
<1>1. c \in Actors \ Runs /\ c \notin Workers
  BY ActorsDisjoint DEF ActorsDisjoint, Actors
<1>2. pc[c] \notin {"idle", "end"} => job[c] \in Jobs
  BY <1>1, ActorKnowledge DEF TypeOK
<1>3. ASSUME NEW j \in Jobs, CancelBegin(c, j) PROVE TypeOK'
  <2>1. ActorsOK' /\ ActorsKnow'
    BY <1>1, <1>3 DEF TypeOK, ActorsOK, ActorsKnow, CancelBegin, CancelPcs
  <2> QED BY <1>3, <2>1 DEF TypeOK, CancelBegin, DbOK, QueueOK, PoolOK, CohortOK, ModeOK
<1>4. CASE CancelRead(c)
  <2>1. ActorsOK' /\ ActorsKnow'
    <3>1. CASE Return(c)
      BY <1>1, <3>1, ReturnType DEF TypeOK
    <3>2. CASE ~Return(c)
      <4>1. pc' = [pc EXCEPT ![c] = "act"] /\ UNCHANGED <<job, out, owned>>
        BY <1>4, <3>2 DEF CancelRead
      <4> QED BY <1>1, <1>2, <1>4, <4>1 DEF TypeOK, ActorsOK, ActorsKnow, CancelPcs, CancelRead
    <3> QED BY <3>1, <3>2
  <2> QED BY <1>4, <2>1 DEF TypeOK, CancelRead, DbOK, QueueOK, PoolOK, CohortOK, ModeOK
<1>5. CASE CancelAct(c)
  <2>1. job[c] \in Jobs
    BY <1>2, <1>5 DEF CancelAct
  <2>2. CASE ~owned[c]
    <3>1. /\ status' = [status EXCEPT ![job[c]] = "CANCELLED"]
          /\ out' = [out EXCEPT ![c] = "CANCELLED"]
          /\ pc' = [pc EXCEPT ![c] = "hook"]
          /\ UNCHANGED <<aStatus, aPrev, queueVars, poolVars, cohortVars, job, owned, modeVars>>
      BY <1>5, <2>2 DEF CancelAct
    <3>2. DbOK'
      BY <2>1, <3>1 DEF TypeOK, DbOK, JobStatus
    <3>3. ActorsOK' /\ ActorsKnow'
      BY <1>1, <2>1, <3>1 DEF TypeOK, ActorsOK, ActorsKnow, CancelPcs, FinalOutcomes
    <3> QED BY <3>1, <3>2, <3>3 DEF TypeOK, QueueOK, PoolOK, CohortOK, ModeOK
  <2>3. CASE owned[c]
    <3>1. /\ Return(c)
          /\ asked' \in [Workers -> BOOLEAN]
          /\ UNCHANGED <<dbVars, queueVars, permits, running, hand, cohortVars, modeVars>>
      BY <1>5, <2>3 DEF CancelAct, TypeOK, PoolOK
    <3>2. ActorsOK' /\ ActorsKnow'
      BY <1>1, <3>1, ReturnType DEF TypeOK
    <3> QED BY <3>1, <3>2 DEF TypeOK, DbOK, QueueOK, PoolOK, CohortOK, ModeOK
  <2> QED BY <2>2, <2>3
<1>6. CASE LeaveCohort(c) \/ Settle(c)
  BY <1>6, TerminalType
<1> QED BY <1>3, <1>4, <1>5, <1>6 DEF CancelNext

(* The steps of a retry request.                                           *)
LEMMA RetryType ==
    ASSUME TypeOK, NEW r \in Retries,
           RetryNext(r) \/ \E j \in Jobs : RetryRead(r, j)
    PROVE  TypeOK'
<1>1. r \in Actors \ Runs /\ r \notin Workers
  BY ActorsDisjoint DEF ActorsDisjoint, Actors
<1>2. pc[r] \notin {"idle", "end"} => job[r] \in Jobs /\ Owner(job[r]) \in Assessments
  BY <1>1, ActorKnowledge, OwnerType DEF TypeOK
<1>3. ASSUME NEW j \in Jobs, RetryRead(r, j) PROVE TypeOK'
  <2>1. ActorsOK' /\ ActorsKnow'
    BY <1>1, <1>3 DEF TypeOK, ActorsOK, ActorsKnow, RetryRead, RetryPcs
  <2> QED BY <1>3, <2>1 DEF TypeOK, RetryRead, DbOK, QueueOK, PoolOK, CohortOK, ModeOK
<1>4. CASE RetryCommit(r)
  <2>1. job[r] \in Jobs /\ Owner(job[r]) \in Assessments
    BY <1>2, <1>4 DEF RetryCommit
  <2>2. DbOK'
    BY <1>4, <2>1, MarkRunningType DEF TypeOK, DbOK, RetryCommit, JobStatus
  <2>3. ActorsOK' /\ ActorsKnow'
    BY <1>1, <1>4, <2>1 DEF TypeOK, ActorsOK, ActorsKnow, RetryCommit, RetryPcs
  <2> QED BY <1>4, <2>2, <2>3 DEF TypeOK, RetryCommit, QueueOK, PoolOK, CohortOK, ModeOK
<1>5. CASE RetryPut(r)
  <2>1. job[r] \in Jobs /\ Owner(job[r]) \in Assessments
    BY <1>2, <1>5 DEF RetryPut
  <2>2. QueueOK'
    BY <1>5, <2>1 DEF TypeOK, QueueOK, RetryPut, Lanes
  <2>3. CohortOK'
    BY <1>5, <2>1 DEF TypeOK, CohortOK, RetryPut
  <2>4. ActorsOK' /\ ActorsKnow'
    BY <1>1, <1>5, ReturnType DEF TypeOK, RetryPut
  <2> QED BY <1>5, <2>2, <2>3, <2>4 DEF TypeOK, RetryPut, DbOK, PoolOK, ModeOK
<1> QED BY <1>3, <1>4, <1>5 DEF RetryNext

(* Stopping and starting the process.                                      *)
LEMMA ProcessType == TypeOK /\ ProcessNext => TypeOK'
<1> SUFFICES ASSUME TypeOK, ProcessNext PROVE TypeOK'
  OBVIOUS
<1>1. CASE ShutdownBegin
  <2>1. PoolOK' /\ ModeOK'
    BY <1>1, BoundAssumption DEF TypeOK, PoolOK, ModeOK, ShutdownBegin, BoundAssumption
  <2> QED BY <1>1, <2>1 DEF TypeOK, ShutdownBegin, DbOK, QueueOK, CohortOK, ActorsOK, ActorsKnow
<1>2. CASE ShutdownEnd
  BY <1>2 DEF TypeOK, ShutdownEnd, DbOK, QueueOK, PoolOK, CohortOK, ActorsOK, ActorsKnow, ModeOK
<1>3. ASSUME FreshProcess
      PROVE  DbOK' /\ QueueOK' /\ PoolOK' /\ CohortOK' /\ ActorsOK' /\ ActorsKnow'
  <2>1. DbOK' /\ QueueOK' /\ PoolOK' /\ CohortOK'
    BY <1>3, MaxConcurrentAssumption
    DEF TypeOK, FreshProcess, DbOK, QueueOK, PoolOK, CohortOK, NoStatuses, Lanes,
        MaxConcurrentAssumption
  <2>2. ActorsOK' /\ ActorsKnow'
    BY <1>3 DEF FreshProcess, ActorsOK, ActorsKnow, RunPcs, Actors
  <2> QED BY <2>1, <2>2
<1>4. CASE Restart
  BY <1>3, <1>4 DEF TypeOK, Restart, FreshProcess, ModeOK
<1>5. CASE Crash
  BY <1>3, <1>5, BoundAssumption DEF TypeOK, Crash, FreshProcess, ModeOK, BoundAssumption
<1> QED BY <1>1, <1>2, <1>4, <1>5 DEF ProcessNext

(* The type invariant holds of every reachable state.                      *)
THEOREM TypeCorrect == Spec => []TypeOK
<1>1. Init => TypeOK
  BY MaxConcurrentAssumption, BoundAssumption
  DEF Init, InitMemory, TypeOK, DbOK, QueueOK, PoolOK, CohortOK, ActorsOK, ActorsKnow,
      ModeOK, AssessmentStatus, Lanes, NoStatuses, Actors, MaxConcurrentAssumption,
      BoundAssumption
<1>2. TypeOK /\ [Next]_vars => TypeOK'
  <2> SUFFICES ASSUME TypeOK, [Next]_vars PROVE TypeOK'
    OBVIOUS
  <2>1. CASE UNCHANGED vars
    BY <2>1 DEF vars, TypeOK, DbOK, QueueOK, PoolOK, CohortOK, ActorsOK, ActorsKnow, ModeOK
  <2>2. CASE UserNext
    BY <2>2, RunType, CancelType, RetryType DEF UserNext
  <2> QED
    BY <2>1, <2>2, DispatchType, WorkerType, NetType, RunType, CancelType, RetryType,
       ProcessType
    DEF Next
<1> QED BY <1>1, <1>2, PTL DEF Spec

-----------------------------------------------------------------------------
(* The pool: what a step can do to the tasks, the map and the semaphore.   *)

(* The tasks stay the same tasks, at work on the same jobs.                *)
SameTasks == \A w \in Workers : /\ pc'[w] \in WorkerPcs <=> pc[w] \in WorkerPcs
                                /\ job'[w] = job[w]

(* A step that is neither a spawn, nor a done callback, nor the start of a *)
(* new process changes no task, no permit, and at most empties the map.    *)
Steady == /\ SameTasks
          /\ permits' = permits
          /\ \A j \in Jobs : running'[j] \in {running[j], None}

(* A coroutine of a worker that goes on or returns is still the same task. *)
LEMMA CoroutineSteady ==
    ASSUME TypeOK, NEW a \in Actors,
           a \in Workers => pc[a] \in WorkerPcs,
           \/ Return(a)
           \/ \E label \in WorkerPcs : Goto(a, label) /\ UNCHANGED job
           \/ /\ a \notin Workers
              /\ \E label : pc' = [pc EXCEPT ![a] = label]
              /\ UNCHANGED job \/ \E j : job' = [job EXCEPT ![a] = j],
           UNCHANGED <<permits, running>>
    PROVE  Steady
<1>1. SameTasks
  <2>1. CASE Return(a)
    BY <2>1 DEF TypeOK, ActorsOK, Return, SameTasks, WorkerPcs, Actors
  <2>2. CASE ~Return(a)
    BY <2>2 DEF TypeOK, ActorsOK, SameTasks, Actors
  <2> QED BY <2>1, <2>2
<1> QED BY <1>1 DEF Steady

LEMMA WorkerSteady ==
    ASSUME TypeOK, NEW w \in Workers, WorkerNext(w)
    PROVE  Steady \/ \E n \in Nets : WorkerDone(w, n)
<1>1. w \in Actors
  BY DEF Actors
<1>2. CASE \E n \in Nets : WorkerDone(w, n)
  BY <1>2
<1>3. CASE ~\E n \in Nets : WorkerDone(w, n)
  <2>1. pc[w] \in WorkerPcs
    BY <1>3 DEF WorkerNext, WorkerLoad, WorkerClaim, WorkerPrepareFails, WorkerStart,
       WorkerExecuted, WorkerPersisted, WorkerPersistFails, WorkerCancelled, WorkerAt,
       Finalize, LeaveCohort, Settle, WorkerPcs
  <2>2. UNCHANGED <<permits, running>>
    BY <1>3 DEF WorkerNext, WorkerLoad, WorkerClaim, WorkerPrepareFails, WorkerStart,
       WorkerExecuted, WorkerPersisted, WorkerPersistFails, WorkerCancelled,
       Finalize, LeaveCohort, Settle
  <2>3. Return(w) \/ \E label \in WorkerPcs : Goto(w, label) /\ UNCHANGED job
    BY <1>3 DEF WorkerNext, WorkerLoad, WorkerClaim, WorkerPrepareFails, WorkerStart,
       WorkerExecuted, WorkerPersisted, WorkerPersistFails, WorkerCancelled,
       Finalize, LeaveCohort, Settle, WorkerPcs
  <2> QED BY <1>1, <2>1, <2>2, <2>3, CoroutineSteady
<1> QED BY <1>2, <1>3

LEMMA OthersSteady ==
    ASSUME TypeOK,
           \/ \E n \in Nets : NetNext(n)
           \/ \E r \in Runs : RunNext(r)
           \/ \E c \in Cancels : CancelNext(c)
           \/ \E r \in Retries : RetryNext(r)
           \/ UserNext
    PROVE  Steady
<1>1. UNCHANGED <<permits, running>>
  BY DEF NetNext, RunNext, CancelNext, RetryNext, UserNext, NetCheck, Finalize, LeaveCohort,
     Settle, EnqueueBegin, EnqueueCommit, EnqueuePut, CancelRead, CancelAct, RetryCommit,
     RetryPut, Plan, CancelBegin, RetryRead
<1>2. PICK a \in Actors \ Workers :
          \/ Return(a)
          \/ /\ \E label : pc' = [pc EXCEPT ![a] = label]
             /\ UNCHANGED job \/ \E j : job' = [job EXCEPT ![a] = j]
  <2>1. /\ Nets \subseteq Actors \ Workers /\ Runs \subseteq Actors \ Workers
        /\ Cancels \subseteq Actors \ Workers /\ Retries \subseteq Actors \ Workers
    BY ActorsDisjoint DEF ActorsDisjoint, Actors
  <2>2. CASE \E n \in Nets : NetNext(n)
    BY <2>1, <2>2 DEF NetNext, NetCheck, Finalize, LeaveCohort, Settle
  <2>3. CASE \E r \in Runs : RunNext(r) \/ Plan(r)
    BY <2>1, <2>3 DEF RunNext, EnqueueBegin, EnqueueCommit, EnqueuePut, Plan
  <2>4. CASE \E c \in Cancels : CancelNext(c) \/ \E j \in Jobs : CancelBegin(c, j)
    BY <2>1, <2>4 DEF CancelNext, CancelRead, CancelAct, LeaveCohort, Settle, CancelBegin
  <2>5. CASE \E r \in Retries : RetryNext(r) \/ \E j \in Jobs : RetryRead(r, j)
    BY <2>1, <2>5 DEF RetryNext, RetryCommit, RetryPut, RetryRead
  <2> QED BY <2>2, <2>3, <2>4, <2>5 DEF UserNext
<1> QED BY <1>1, <1>2, CoroutineSteady

LEMMA PoolStep ==
    ASSUME TypeOK, [Next]_vars
    PROVE  \/ Steady
           \/ \E w \in Workers, j \in Jobs : Spawn(w, j)
           \/ \E w \in Workers, n \in Nets : WorkerDone(w, n)
           \/ FreshProcess
<1>1. CASE UNCHANGED vars
  BY <1>1 DEF vars, Steady, SameTasks
<1>2. CASE DispatchNext
  <2>1. CASE DispatchSkip \/ DispatchHold
    BY <2>1 DEF DispatchSkip, DispatchHold, Steady, SameTasks
  <2>2. ASSUME NEW w \in Workers, DispatchSpawn(w) \/ DispatchHeld(w)
        PROVE  \E j \in Jobs : Spawn(w, j)
    BY <2>2, PoppedType DEF TypeOK, PoolOK, DispatchSpawn, DispatchHeld
  <2> QED BY <1>2, <2>1, <2>2 DEF DispatchNext
<1>3. CASE ProcessNext
  BY <1>3 DEF ProcessNext, ShutdownBegin, ShutdownEnd, Restart, Crash, Steady, SameTasks
<1> QED BY <1>1, <1>2, <1>3, WorkerSteady, OthersSteady DEF Next

(* The map never names a task that ended or a task of another job.         *)
THEOREM MapSound == Spec => []RunningMapSound
<1>1. Init => RunningMapSound
  BY DEF Init, InitMemory, RunningMapSound
<1>2. TypeOK /\ TypeOK' /\ RunningMapSound /\ [Next]_vars => RunningMapSound'
  <2> SUFFICES ASSUME TypeOK, RunningMapSound, [Next]_vars,
                      NEW j \in Jobs, running'[j] # None
               PROVE  running'[j] \in Live' /\ job'[running'[j]] = j
    BY DEF RunningMapSound
  <2>1. CASE Steady
    BY <2>1 DEF Steady, SameTasks, RunningMapSound, Live
  <2>2. ASSUME NEW w \in Workers, NEW k \in Jobs, Spawn(w, k)
        PROVE  running'[j] \in Live' /\ job'[running'[j]] = j
    BY <2>2 DEF Spawn, RunningMapSound, Live, TypeOK, PoolOK, ActorsOK, Actors, WorkerPcs
  <2>3. ASSUME NEW w \in Workers, NEW n \in Nets, WorkerDone(w, n)
        PROVE  running'[j] \in Live' /\ job'[running'[j]] = j
    <3>1. running'[j] = running[j] /\ running[j] \in Live /\ job[running[j]] = j
      BY <2>3 DEF WorkerDone, RunningMapSound, TypeOK, PoolOK
    <3>2. running[j] # w
      BY <2>3, <3>1 DEF WorkerDone, TypeOK, PoolOK
    <3>3. running[j] # n /\ running[j] \in Workers
      BY <3>1, ActorsDisjoint DEF Live, ActorsDisjoint
    <3> QED BY <2>3, <3>1, <3>2, <3>3 DEF WorkerDone, Live, TypeOK, ActorsOK, Actors
  <2>4. CASE FreshProcess
    BY <2>4 DEF FreshProcess
  <2> QED BY <2>1, <2>2, <2>3, <2>4, PoolStep
<1> QED BY <1>1, <1>2, TypeCorrect, PTL DEF Spec

(* However the tasks end, no permit of the semaphore is lost or made up.   *)
THEOREM PermitsAreConserved == Spec => []PermitsConserved
<1>1. Init => PermitsConserved
  <2> SUFFICES ASSUME Init PROVE PermitsConserved
    OBVIOUS
  <2>1. Live = {}
    BY DEF Init, InitMemory, Live, WorkerPcs, Actors
  <2> QED BY <2>1, FS_EmptySet, MaxConcurrentAssumption
          DEF Init, InitMemory, PermitsConserved, MaxConcurrentAssumption
<1>2. TypeOK /\ PermitsConserved /\ [Next]_vars => PermitsConserved'
  <2> SUFFICES ASSUME TypeOK, PermitsConserved, [Next]_vars PROVE PermitsConserved'
    OBVIOUS
  <2>1. IsFiniteSet(Live) /\ Cardinality(Live) \in Nat /\ permits \in Nat
    BY FiniteAssumption, FS_Subset, FS_CardinalityType DEF Live, TypeOK, PoolOK, FiniteAssumption
  <2>2. CASE Steady
    <3>1. Live' = Live
      BY <2>2 DEF Steady, SameTasks, Live
    <3> QED BY <2>2, <3>1 DEF Steady, PermitsConserved
  <2>3. ASSUME NEW w \in Workers, NEW j \in Jobs, Spawn(w, j) PROVE PermitsConserved'
    <3>1. Live' = Live \cup {w} /\ w \notin Live
      BY <2>3 DEF Spawn, Live, WorkerPcs, TypeOK, ActorsOK, Actors
    <3>2. Cardinality(Live') = Cardinality(Live) + 1
      BY <2>1, <3>1, FS_AddElement
    <3> QED BY <2>1, <2>3, <3>2 DEF Spawn, PermitsConserved
  <2>4. ASSUME NEW w \in Workers, NEW n \in Nets, WorkerDone(w, n) PROVE PermitsConserved'
    <3>1. n \notin Workers
      BY ActorsDisjoint DEF ActorsDisjoint
    <3>2. Live' = Live \ {w} /\ w \in Live
      BY <2>4, <3>1 DEF WorkerDone, Live, WorkerPcs, TypeOK, ActorsOK, Actors
    <3>3. Cardinality(Live') = Cardinality(Live) - 1
      BY <2>1, <3>2, FS_RemoveElement
    <3> QED BY <2>1, <2>4, <3>3 DEF WorkerDone, PermitsConserved
  <2>5. CASE FreshProcess
    <3>1. Live' = {}
      BY <2>5 DEF FreshProcess, Live, WorkerPcs, Actors
    <3> QED BY <2>5, <3>1, FS_EmptySet, MaxConcurrentAssumption
            DEF FreshProcess, PermitsConserved, MaxConcurrentAssumption
  <2> QED BY <2>2, <2>3, <2>4, <2>5, PoolStep
<1> QED BY <1>1, <1>2, TypeCorrect, PTL DEF Spec

(* So the tools that run at once never exceed max_concurrent_executions.   *)
THEOREM ToolsAreBounded == Spec => []ConcurrencyBound
<1>1. TypeOK /\ PermitsConserved => ConcurrencyBound
  <2> SUFFICES ASSUME TypeOK, PermitsConserved PROVE ConcurrencyBound
    OBVIOUS
  <2> DEFINE executing == {w \in Workers : pc[w] = "execute"}
  <2>1. IsFiniteSet(Live) /\ executing \subseteq Live
    BY FiniteAssumption, FS_Subset DEF Live, WorkerPcs, FiniteAssumption
  <2>2. /\ Cardinality(executing) <= Cardinality(Live)
        /\ Cardinality(executing) \in Nat /\ Cardinality(Live) \in Nat
    BY <2>1, FS_Subset, FS_CardinalityType
  <2> QED BY <2>2, MaxConcurrentAssumption
          DEF TypeOK, PoolOK, PermitsConserved, ConcurrencyBound, MaxConcurrentAssumption
<1> QED BY <1>1, TypeCorrect, PermitsAreConserved, PTL

-----------------------------------------------------------------------------
(* The carrier of a job: each step keeps it, hands the job on to another,  *)
(* or ends the job.                                                        *)
Unfinished == {"QUEUED", "PREPARING", "RUNNING"}

(* Carried, by what carries: the queue and the dispatcher, or an actor.    *)
Waiting(j) == hand = j \/ (InQueue(j) /\ j \notin flagged)

Carrier(a, j) ==
    \/ a \in Workers /\ pc[a] \in WorkerPcs /\ job[a] = j
    \/ a \in Nets /\ pc[a] \in {"check", "finalize"} /\ job[a] = j
    \/ a \in Runs /\ pc[a] = "put" /\ RunOf[j] = a
    \/ a \in Retries /\ pc[a] = "put" /\ job[a] = j
    \/ a \in Cancels /\ pc[a] \in {"read", "act"} /\ ~owned[a] /\ job[a] = j

LEMMA CarriedBy ==
    ASSUME NEW j \in Jobs
    PROVE  Carried(j) <=> Waiting(j) \/ \E a \in Actors : Carrier(a, j)
BY RunAssumption DEF Carried, Waiting, Carrier, Live, Actors, RunAssumption

LEMMA CarriedByNext ==
    ASSUME NEW j \in Jobs
    PROVE  Carried(j)' <=> Waiting(j)' \/ \E a \in Actors : Carrier(a, j)'
BY RunAssumption DEF Carried, Waiting, Carrier, Live, Actors, RunAssumption

(* A step of the one actor a.                                              *)
OnlyActor(a) ==
    /\ \A b \in Actors \ {a} : pc'[b] = pc[b] /\ job'[b] = job[b]
    /\ \A c \in Cancels \ {a} : owned'[c] = owned[c]

(* It takes no other actor's jobs.                                         *)
LEMMA OthersCarryOn ==
    ASSUME NEW a \in Actors, OnlyActor(a),
           NEW b \in Actors \ {a}, NEW j \in Jobs, Carrier(b, j)
    PROVE  Carrier(b, j)'
BY DEF OnlyActor, Carrier

(* So a job it does not carry stays carried, and one it does is its to     *)
(* carry on, to hand on, or to end.                                        *)
LEMMA ActorStep ==
    ASSUME NEW a \in Actors, OnlyActor(a), NEW j \in Jobs,
           status'[j] \in Unfinished => status[j] \in Unfinished \/ Carrier(a, j)',
           status[j] \in Unfinished => Carried(j),
           Waiting(j) => Waiting(j)' \/ Carrier(a, j)',
           Carrier(a, j) /\ status'[j] \in Unfinished => Carried(j)',
           status'[j] \in Unfinished
    PROVE  Carried(j)'
<1>1. CASE Carrier(a, j)'
  BY <1>1, CarriedByNext
<1>2. CASE ~Carrier(a, j)'
  <2>1. Waiting(j) \/ \E b \in Actors : Carrier(b, j)
    BY <1>2, CarriedBy
  <2> QED BY <1>2, <2>1, CarriedByNext, OthersCarryOn
<1> QED BY <1>1, <1>2

(* What Goto and Return touch.                                             *)
LEMMA GotoOnly ==
    ASSUME TypeOK, NEW a \in Actors, NEW label, Goto(a, label), UNCHANGED <<job, owned>>
    PROVE  OnlyActor(a) /\ pc'[a] = label /\ job'[a] = job[a]
BY DEF TypeOK, ActorsOK, OnlyActor

LEMMA ReturnOnly ==
    ASSUME TypeOK, NEW a \in Actors, Return(a)
    PROVE  /\ OnlyActor(a)
           /\ a \in Workers => pc'[a] = "done" /\ job'[a] = job[a]
           /\ a \notin Workers => pc'[a] \in {"idle", "end"}
BY DEF TypeOK, ActorsOK, OnlyActor, Return

LEMMA WaitingSame ==
    ASSUME UNCHANGED <<queueVars, hand>>, NEW j \in Jobs
    PROVE  Waiting(j)' <=> Waiting(j)
BY DEF Waiting, InQueue

-----------------------------------------------------------------------------
(* The queue.                                                              *)

(* Taking the next entry leaves every other job's entries.                 *)
LEMMA OthersStayQueued ==
    ASSUME QueueOK, ~Empty, queue' = Popped,
           NEW j \in Jobs, j # NextJob, InQueue(j)
    PROVE  InQueue(j)'
<1>1. PICK l \in Lanes : Contains(queue[l], j)
  BY DEF InQueue
<1>2. HeadLane \in Lanes /\ queue[HeadLane] # <<>> /\ queue[HeadLane] \in Seq(Jobs)
  BY DEF QueueOK, Empty, HeadLane, Lanes
<1>3. CASE l # HeadLane
  <2>1. queue'[l] = queue[l]
    BY <1>2, <1>3 DEF Popped, QueueOK
  <2> QED BY <1>1, <2>1 DEF InQueue
<1>4. CASE l = HeadLane
  <2> DEFINE s == queue[HeadLane]
  <2>1. queue'[l] = Tail(s)
    BY <1>2, <1>4 DEF Popped, QueueOK
  <2>2. s \in Seq(Jobs) /\ s # <<>> /\ j # Head(s) /\ Contains(s, j)
    BY <1>1, <1>2, <1>4 DEF NextJob
  <2> HIDE DEF s
  <2>3. PICK i \in 1..Len(s) : s[i] = j
    BY <2>2 DEF Contains
  <2>4. i # 1 /\ i - 1 \in 1..Len(Tail(s)) /\ Tail(s)[i - 1] = j
    BY <2>2, <2>3
  <2>5. Contains(Tail(s), j)
    BY <2>4 DEF Contains
  <2> QED BY <2>1, <2>5 DEF InQueue
<1> QED BY <1>3, <1>4

(* Put queues its jobs, unflagged, and no other entry is lost.             *)
LEMMA PutQueues ==
    ASSUME QueueOK, NEW lane \in Lanes, NEW jobs \in Seq(Jobs), Put(lane, jobs),
           NEW j \in Jobs
    PROVE  /\ InQueue(j) /\ j \notin flagged => InQueue(j)' /\ j \notin flagged'
           /\ Contains(jobs, j) => InQueue(j)' /\ j \notin flagged'
<1>1. /\ queue[lane] \in Seq(Jobs)
      /\ queue'[lane] = queue[lane] \o jobs
      /\ \A l \in Lanes : l # lane => queue'[l] = queue[l]
  BY DEF QueueOK
<1>2. ASSUME NEW l \in Lanes, Contains(queue[l], j) PROVE InQueue(j)'
  <2>1. CASE l # lane
    BY <1>1, <1>2, <2>1 DEF InQueue
  <2>2. CASE l = lane
    <3>1. PICK i \in 1..Len(queue[lane]) : queue[lane][i] = j
      BY <1>2, <2>2 DEF Contains
    <3>2. i \in 1..Len(queue'[lane]) /\ queue'[lane][i] = j
      BY <1>1, <3>1
    <3> QED BY <3>2 DEF InQueue, Contains
  <2> QED BY <2>1, <2>2
<1>3. ASSUME Contains(jobs, j) PROVE InQueue(j)' /\ j \notin flagged'
  <2>1. PICK i \in 1..Len(jobs) : jobs[i] = j
    BY <1>3 DEF Contains
  <2>2. DOMAIN jobs = 1..Len(jobs)
    OBVIOUS
  <2>3. j \notin flagged'
    BY <2>1, <2>2
  <2>4. /\ Len(queue[lane]) + i \in 1..Len(queue'[lane])
        /\ queue'[lane][Len(queue[lane]) + i] = j
    BY <1>1, <2>1
  <2> QED BY <2>3, <2>4 DEF InQueue, Contains
<1>4. flagged' \subseteq flagged
  OBVIOUS
<1> QED BY <1>2, <1>3, <1>4 DEF InQueue

(* An order of a set of jobs contains each of them.                        *)
LEMMA OrdersContain ==
    ASSUME NEW S, S \subseteq Jobs, NEW order \in SetToSeqs(S), NEW j \in S
    PROVE  Contains(order, j)
<1> DEFINE D == 1..Cardinality(S)
<1>1. IsFiniteSet(S) /\ Cardinality(S) \in Nat
  BY FiniteAssumption, FS_Subset, FS_CardinalityType DEF FiniteAssumption
<1>2. order \in [D -> S] /\ \A i, k \in D : i # k => order[i] # order[k]
  BY DEF SetToSeqs
<1>3. Len(order) = Cardinality(S)
  BY <1>1, <1>2
<1>4. IsFiniteSet(D) /\ Cardinality(D) = Cardinality(S)
  BY <1>1, FS_Interval
<1>5. \E i \in D : order[i] = j
  <2> SUFFICES ASSUME \A i \in D : order[i] # j PROVE FALSE
    OBVIOUS
  <2>1. order \in [D -> S \ {j}]
    BY <1>2
  <2>2. IsFiniteSet(S \ {j}) /\ Cardinality(S \ {j}) = Cardinality(S) - 1
    BY <1>1, FS_RemoveElement
  <2>3. Cardinality(S \ {j}) < Cardinality(D)
    BY <1>1, <1>4, <2>2
  <2> HIDE DEF D
  <2>4. \E x, y \in D : x # y /\ order[x] = order[y]
    BY <1>4, <2>1, <2>2, <2>3, FS_PigeonHole
  <2> QED BY <1>2, <2>4
<1> QED BY <1>3, <1>5 DEF Contains

-----------------------------------------------------------------------------
(* One lemma per kind of actor.  Each assumes that a job was carried, if   *)
(* it was unfinished, and that it is unfinished after the step.            *)

LEMMA DispatchCarries ==
    ASSUME TypeOK, DispatchNext, NEW j \in Jobs,
           status[j] \in Unfinished => Carried(j), status'[j] \in Unfinished
    PROVE  Carried(j)'
<1>1. QueueOK /\ UNCHANGED status
  BY DEF TypeOK, DispatchNext, DispatchSkip, DispatchHold, DispatchSpawn, DispatchHeld
<1>2. Waiting(j) \/ \E a \in Actors : Carrier(a, j)
  BY <1>1, CarriedBy
<1>3. ASSUME UNCHANGED <<pc, job, owned>>, Waiting(j) => Waiting(j)'
      PROVE  Carried(j)'
  BY <1>2, <1>3, CarriedByNext DEF Carrier
<1>4. ASSUME NEW w \in Workers, NEW k \in Jobs, Spawn(w, k), UNCHANGED owned,
             Waiting(j) => Waiting(j)' \/ j = k
      PROVE  Carried(j)'
  <2>1. /\ pc'[w] = "spawned" /\ job'[w] = k /\ pc[w] = "idle"
        /\ \A b \in Actors \ {w} : pc'[b] = pc[b] /\ job'[b] = job[b]
    BY <1>4 DEF Spawn, TypeOK, ActorsOK, Actors
  <2>2. w \in Actors /\ OnlyActor(w) /\ ~Carrier(w, j)
    BY <1>4, <2>1, ActorsDisjoint DEF OnlyActor, Carrier, Actors, ActorsDisjoint, WorkerPcs
  <2>3. j = k => Carrier(w, j)'
    BY <2>1 DEF Carrier, WorkerPcs
  <2>4. CASE Waiting(j)
    BY <1>4, <2>2, <2>3, <2>4, CarriedByNext
  <2>5. CASE \E a \in Actors : Carrier(a, j)
    BY <2>2, <2>5, OthersCarryOn, CarriedByNext
  <2> QED BY <1>2, <2>4, <2>5
<1>5. CASE DispatchSkip
  BY <1>1, <1>3, <1>5, OthersStayQueued DEF DispatchSkip, Waiting
<1>6. CASE DispatchHold
  BY <1>1, <1>3, <1>6, OthersStayQueued, NoneAssumption
  DEF DispatchHold, Waiting, NoneAssumption
<1>7. ASSUME NEW w \in Workers, DispatchSpawn(w) PROVE Carried(j)'
  <2>1. NextJob \in Jobs
    BY <1>1, <1>7, PoppedType DEF DispatchSpawn
  <2>2. Waiting(j) => Waiting(j)' \/ j = NextJob
    BY <1>1, <1>7, OthersStayQueued DEF DispatchSpawn, Waiting, Spawn
  <2> QED BY <1>4, <1>7, <2>1, <2>2 DEF DispatchSpawn
<1>8. ASSUME NEW w \in Workers, DispatchHeld(w) PROVE Carried(j)'
  <2>1. hand \in Jobs
    BY <1>8 DEF DispatchHeld, TypeOK, PoolOK
  <2>2. Waiting(j) => Waiting(j)' \/ j = hand
    BY <1>8 DEF DispatchHeld, Waiting, InQueue
  <2> QED BY <1>4, <1>8, <2>1, <2>2 DEF DispatchHeld
<1> QED BY <1>5, <1>6, <1>7, <1>8 DEF DispatchNext

LEMMA WorkerCarries ==
    ASSUME TypeOK, NEW w \in Workers, WorkerNext(w), NEW j \in Jobs,
           status[j] \in Unfinished => Carried(j), status'[j] \in Unfinished
    PROVE  Carried(j)'
<1>1. w \in Actors
  BY DEF Actors
<1>2. Waiting(j)' <=> Waiting(j)
  <2>1. UNCHANGED <<queueVars, hand>>
    BY DEF WorkerNext, WorkerLoad, WorkerClaim, WorkerPrepareFails, WorkerStart,
       WorkerExecuted, WorkerPersisted, WorkerPersistFails, WorkerCancelled,
       Finalize, LeaveCohort, Settle, WorkerDone
  <2> QED BY <2>1, WaitingSame
<1>3. CASE \E n \in Nets : WorkerDone(w, n)
  <2>1. PICK n \in Nets : WorkerDone(w, n)
    BY <1>3
  <2>2. n \in Actors /\ n # w /\ n \notin Workers
    BY ActorsDisjoint DEF ActorsDisjoint, Actors
  <2>3. /\ pc'[n] = "check" /\ job'[n] = job[w] /\ pc[n] = "idle"
        /\ \A b \in Actors \ {w, n} : pc'[b] = pc[b] /\ job'[b] = job[b]
        /\ UNCHANGED <<owned, status>>
    BY <1>1, <2>1, <2>2 DEF WorkerDone, TypeOK, ActorsOK
  <2>4. PICK a \in Actors : Waiting(j) \/ Carrier(a, j)
    BY <1>1, <2>3, CarriedBy
  <2>5. CASE Waiting(j)
    BY <1>2, <2>5, CarriedByNext
  <2>6. CASE a = w /\ Carrier(a, j)
    <3>1. job[w] = j
      BY <2>6, ActorsDisjoint DEF Carrier, ActorsDisjoint
    <3>2. Carrier(n, j)'
      BY <2>3, <3>1 DEF Carrier
    <3> QED BY <2>2, <3>2, CarriedByNext
  <2>7. CASE a # w /\ Carrier(a, j)
    <3>1. a # n
      BY <2>3, <2>7, ActorsDisjoint DEF Carrier, ActorsDisjoint, WorkerPcs
    <3>2. Carrier(a, j)'
      BY <2>3, <2>7, <3>1 DEF Carrier
    <3> QED BY <3>2, CarriedByNext
  <2> QED BY <2>4, <2>5, <2>6, <2>7
<1>4. CASE ~\E n \in Nets : WorkerDone(w, n)
  <2>1. pc[w] \in WorkerPcs
    BY <1>4 DEF WorkerNext, WorkerLoad, WorkerClaim, WorkerPrepareFails, WorkerStart,
       WorkerExecuted, WorkerPersisted, WorkerPersistFails, WorkerCancelled, WorkerAt,
       Finalize, LeaveCohort, Settle, WorkerPcs
  <2>2. pc'[w] \in WorkerPcs /\ job'[w] = job[w]
    BY <1>4, <2>1, WorkerSteady DEF WorkerNext, Steady, SameTasks
  <2>3. OnlyActor(w)
    <3>1. \/ Return(w)
          \/ \E label \in WorkerPcs : Goto(w, label) /\ UNCHANGED <<job, owned>>
      BY <1>4 DEF WorkerNext, WorkerLoad, WorkerClaim, WorkerPrepareFails, WorkerStart,
         WorkerExecuted, WorkerPersisted, WorkerPersistFails, WorkerCancelled,
         Finalize, LeaveCohort, Settle, WorkerPcs
    <3> QED BY <1>1, <3>1, GotoOnly, ReturnOnly
  <2>4. status'[j] = status[j] \/ job[w] = j
    <3>1. \/ UNCHANGED status
          \/ \E s : status' = [status EXCEPT ![job[w]] = s]
      BY <1>4 DEF WorkerNext, WorkerLoad, WorkerClaim, WorkerPrepareFails, WorkerStart,
         WorkerExecuted, WorkerPersisted, WorkerPersistFails, WorkerCancelled,
         Finalize, LeaveCohort, Settle
    <3> QED BY <3>1 DEF TypeOK, DbOK
  <2>5. job[w] = j => Carrier(w, j)'
    BY <2>2 DEF Carrier
  <2>6. Carrier(w, j) => job[w] = j
    BY ActorsDisjoint DEF Carrier, ActorsDisjoint
  <2>7. Carrier(w, j)' => Carried(j)'
    BY <1>1, CarriedByNext
  <2> QED BY <1>1, <1>2, <2>3, <2>4, <2>5, <2>6, <2>7, ActorStep
<1> QED BY <1>3, <1>4

(* The tail of a coroutine that no longer carries its job.                 *)
LEMMA TailCarries ==
    ASSUME TypeOK, NEW a \in Nets \cup Cancels, LeaveCohort(a) \/ Settle(a),
           NEW j \in Jobs,
           status[j] \in Unfinished => Carried(j), status'[j] \in Unfinished
    PROVE  Carried(j)'
<1>1. a \in Actors /\ a \notin Workers \cup Runs \cup Retries
  BY ActorsDisjoint DEF ActorsDisjoint, Actors
<1>2. ~Carrier(a, j)
  BY <1>1 DEF Carrier, LeaveCohort, Settle
<1>3. OnlyActor(a)
  <2>1. Return(a) \/ (Goto(a, "settle") /\ UNCHANGED <<job, owned>>)
    BY DEF LeaveCohort, Settle
  <2> QED BY <1>1, <2>1, GotoOnly, ReturnOnly
<1>4. UNCHANGED <<status, queueVars, hand>>
  BY DEF LeaveCohort, Settle
<1> QED BY <1>1, <1>2, <1>3, <1>4, WaitingSame, ActorStep

LEMMA NetCarries ==
    ASSUME TypeOK, NEW n \in Nets, NetNext(n), NEW j \in Jobs,
           status[j] \in Unfinished => Carried(j), status'[j] \in Unfinished
    PROVE  Carried(j)'
<1>1. n \in Actors /\ n \notin Workers \cup Runs \cup Retries \cup Cancels
  BY ActorsDisjoint DEF ActorsDisjoint, Actors
<1>2. CASE NetCheck(n)
  <2>1. /\ UNCHANGED <<status, queueVars, hand>>
        /\ \/ status[job[n]] \in TerminalStatuses /\ Return(n)
           \/ Goto(n, "finalize") /\ UNCHANGED <<job, owned>>
    BY <1>2 DEF NetCheck
  <2>2. OnlyActor(n)
    BY <1>1, <2>1, GotoOnly, ReturnOnly
  <2>3. Carrier(n, j) => Carrier(n, j)'
    <3>1. ASSUME Carrier(n, j) PROVE status[job[n]] \notin TerminalStatuses
      BY <1>1, <2>1, <3>1 DEF Carrier, Unfinished, TerminalStatuses
    <3> QED BY <1>1, <2>1, <3>1, GotoOnly DEF Carrier
  <2> QED BY <1>1, <2>1, <2>2, <2>3, WaitingSame, ActorStep, CarriedByNext
<1>3. CASE Finalize(n)
  <2>1. job[n] \in Jobs /\ out[n] \in FinalOutcomes
    BY <1>1, <1>3, ActorKnowledge DEF TypeOK, Finalize
  <2>2. /\ status' = [status EXCEPT ![job[n]] = out[n]]
        /\ UNCHANGED <<queueVars, hand>> /\ Goto(n, "hook") /\ UNCHANGED <<job, owned>>
    BY <1>3 DEF Finalize
  <2>3. job[n] # j /\ status'[j] = status[j]
    BY <2>1, <2>2 DEF TypeOK, DbOK, FinalOutcomes, Unfinished
  <2>4. ~Carrier(n, j)
    BY <1>1, <2>3 DEF Carrier
  <2> QED BY <1>1, <2>2, <2>3, <2>4, GotoOnly, WaitingSame, ActorStep
<1> QED BY <1>2, <1>3, TailCarries DEF NetNext

LEMMA RunCarries ==
    ASSUME TypeOK, NEW r \in Runs, Plan(r) \/ RunNext(r), NEW j \in Jobs,
           status[j] \in Unfinished => Carried(j), status'[j] \in Unfinished
    PROVE  Carried(j)'
<1>1. r \in Actors /\ r \notin Workers \cup Nets \cup Retries \cup Cancels
  BY ActorsDisjoint DEF ActorsDisjoint, Actors
<1>2. OnlyActor(r)
  <2>1. UNCHANGED <<job, owned>> /\ \E label : Goto(r, label)
    BY DEF Plan, RunNext, EnqueueBegin, EnqueueCommit, EnqueuePut
  <2> QED BY <1>1, <2>1, GotoOnly
<1>3. UNCHANGED hand
  BY DEF Plan, RunNext, EnqueueBegin, EnqueueCommit, EnqueuePut
<1>4. CASE Plan(r)
  <2>1. status'[j] = status[j]
    BY <1>4 DEF Plan, Unfinished
  <2>2. ~Carrier(r, j)
    BY <1>1, <1>4 DEF Plan, Carrier
  <2> QED BY <1>1, <1>2, <1>3, <1>4, <2>1, <2>2, WaitingSame, ActorStep DEF Plan
<1>5. CASE EnqueueBegin(r)
  <2>1. ~Carrier(r, j)
    BY <1>1, <1>5 DEF EnqueueBegin, Carrier
  <2> QED BY <1>1, <1>2, <1>3, <1>5, <2>1, WaitingSame, ActorStep DEF EnqueueBegin
<1>6. CASE EnqueueCommit(r)
  <2>1. ~Carrier(r, j) /\ UNCHANGED queueVars
    BY <1>1, <1>6 DEF EnqueueCommit, Carrier
  <2>2. pc'[r] = "put"
    BY <1>1, <1>6, GotoOnly DEF EnqueueCommit
  <2>3. status'[j] = status[j] \/ Carrier(r, j)'
    BY <1>6, <2>2 DEF EnqueueCommit, Carrier, RunnableJobs
  <2> QED BY <1>1, <1>2, <1>3, <2>1, <2>3, WaitingSame, ActorStep
<1>7. CASE EnqueuePut(r)
  <2>1. PICK order \in SetToSeqs(RunnableJobs(r)) : Put("default", order)
    BY <1>7 DEF EnqueuePut
  <2>2. RunnableJobs(r) \subseteq Jobs
    BY DEF RunnableJobs
  <2>3. order \in Seq(Jobs) /\ QueueOK /\ "default" \in Lanes
    BY <2>2, OrdersAreSeqs DEF TypeOK, Lanes
  <2>4. /\ Waiting(j) => Waiting(j)'
        /\ Contains(order, j) => Waiting(j)'
    BY <1>3, <2>1, <2>3, PutQueues DEF Waiting
  <2>5. status' = status
    BY <1>7 DEF EnqueuePut
  <2>6. Carrier(r, j) => j \in RunnableJobs(r)
    BY <1>1, <2>5 DEF Carrier, RunnableJobs, Unfinished
  <2>7. Carrier(r, j) => Waiting(j)'
    BY <2>2, <2>4, <2>6, OrdersContain
  <2> QED BY <1>1, <1>2, <2>4, <2>5, <2>7, ActorStep, CarriedByNext
<1> QED BY <1>4, <1>5, <1>6, <1>7 DEF RunNext

LEMMA CancelCarries ==
    ASSUME TypeOK, RunningMapSound, NEW c \in Cancels, NEW j \in Jobs,
           CancelNext(c) \/ \E k \in Jobs : CancelBegin(c, k),
           status[j] \in Unfinished => Carried(j), status'[j] \in Unfinished
    PROVE  Carried(j)'
<1>1. c \in Actors /\ c \notin Workers \cup Nets \cup Retries \cup Runs
  BY ActorsDisjoint DEF ActorsDisjoint, Actors
<1>2. ASSUME NEW k \in Jobs, CancelBegin(c, k) PROVE Carried(j)'
  <2>1. /\ flagged' = flagged \cup {k} /\ UNCHANGED <<queue, hand, status, running>>
        /\ OnlyActor(c)
        /\ pc'[c] = "read" /\ job'[c] = k /\ owned'[c] = (running[k] # None)
    BY <1>1, <1>2 DEF CancelBegin, OnlyActor, TypeOK, ActorsOK
  <2>2. ~Carrier(c, j)
    BY <1>1, <1>2 DEF CancelBegin, Carrier
  <2>3. CASE j # k
    <3>1. Waiting(j) => Waiting(j)'
      BY <2>1, <2>3 DEF Waiting, InQueue
    <3> QED BY <1>1, <2>1, <2>2, <3>1, ActorStep
  <2>4. CASE j = k /\ running[k] = None
    <3>1. Carrier(c, j)'
      BY <2>1, <2>4 DEF Carrier
    <3> QED BY <1>1, <3>1, CarriedByNext
  <2>5. CASE j = k /\ running[k] # None
    <3>1. running[k] \in Live /\ job[running[k]] = j
      BY <2>5 DEF RunningMapSound
    <3>2. running[k] \in Actors \ {c} /\ Carrier(running[k], j)
      BY <1>1, <3>1 DEF Carrier, Live, Actors
    <3> QED BY <1>1, <2>1, <3>2, OthersCarryOn, CarriedByNext
  <2> QED BY <2>3, <2>4, <2>5
<1>3. CASE CancelRead(c)
  <2>1. /\ UNCHANGED <<status, queueVars, hand>>
        /\ \/ status[job[c]] \notin ActiveStatuses /\ Return(c)
           \/ Goto(c, "act") /\ UNCHANGED <<job, owned>>
    BY <1>3 DEF CancelRead
  <2>2. OnlyActor(c)
    BY <1>1, <2>1, GotoOnly, ReturnOnly
  <2>3. Carrier(c, j) => Carrier(c, j)'
    <3>1. ASSUME Carrier(c, j) PROVE status[job[c]] \in ActiveStatuses
      BY <1>1, <2>1, <3>1 DEF Carrier, Unfinished, ActiveStatuses
    <3> QED BY <1>1, <2>1, <3>1, GotoOnly DEF Carrier
  <2> QED BY <1>1, <2>1, <2>2, <2>3, WaitingSame, ActorStep, CarriedByNext
<1>4. CASE CancelAct(c)
  <2>1. job[c] \in Jobs
    BY <1>1, <1>4, ActorKnowledge DEF TypeOK, CancelAct
  <2>2. UNCHANGED <<queueVars, hand>>
    BY <1>4 DEF CancelAct
  <2>3. CASE ~owned[c]
    <3>1. /\ status' = [status EXCEPT ![job[c]] = "CANCELLED"]
          /\ Goto(c, "hook") /\ UNCHANGED <<job, owned>>
      BY <1>4, <2>3 DEF CancelAct
    <3>2. job[c] # j /\ status'[j] = status[j]
      BY <2>1, <3>1 DEF TypeOK, DbOK, Unfinished
    <3>3. ~Carrier(c, j)
      BY <1>1, <3>2 DEF Carrier
    <3> QED BY <1>1, <2>2, <3>1, <3>2, <3>3, GotoOnly, WaitingSame, ActorStep
  <2>4. CASE owned[c]
    <3>1. Return(c) /\ UNCHANGED status
      BY <1>4, <2>4 DEF CancelAct
    <3>2. ~Carrier(c, j)
      BY <1>1, <2>4 DEF Carrier
    <3> QED BY <1>1, <2>2, <3>1, <3>2, ReturnOnly, WaitingSame, ActorStep
  <2> QED BY <2>3, <2>4
<1> QED BY <1>2, <1>3, <1>4, TailCarries DEF CancelNext

LEMMA RetryCarries ==
    ASSUME TypeOK, NEW r \in Retries, NEW j \in Jobs,
           RetryNext(r) \/ \E k \in Jobs : RetryRead(r, k),
           status[j] \in Unfinished => Carried(j), status'[j] \in Unfinished
    PROVE  Carried(j)'
<1>1. r \in Actors /\ r \notin Workers \cup Nets \cup Cancels \cup Runs
  BY ActorsDisjoint DEF ActorsDisjoint, Actors
<1>2. UNCHANGED hand
  BY DEF RetryNext, RetryRead, RetryCommit, RetryPut
<1>3. ASSUME NEW k \in Jobs, RetryRead(r, k) PROVE Carried(j)'
  <2>1. OnlyActor(r) /\ ~Carrier(r, j) /\ UNCHANGED <<status, queueVars>>
    BY <1>1, <1>3 DEF RetryRead, OnlyActor, Carrier, TypeOK, ActorsOK
  <2> QED BY <1>1, <1>2, <2>1, WaitingSame, ActorStep
<1>4. CASE RetryCommit(r)
  <2>1. ~Carrier(r, j) /\ UNCHANGED queueVars
    BY <1>1, <1>4 DEF RetryCommit, Carrier
  <2>2. OnlyActor(r) /\ pc'[r] = "put" /\ job'[r] = job[r]
    BY <1>1, <1>4, GotoOnly DEF RetryCommit
  <2>3. status'[j] = status[j] \/ Carrier(r, j)'
    BY <1>4, <2>2 DEF RetryCommit, Carrier, TypeOK, DbOK
  <2> QED BY <1>1, <1>2, <2>1, <2>2, <2>3, WaitingSame, ActorStep
<1>5. CASE RetryPut(r)
  <2>1. job[r] \in Jobs
    BY <1>1, <1>5, ActorKnowledge DEF TypeOK, RetryPut
  <2>2. /\ <<job[r]>> \in Seq(Jobs) /\ QueueOK /\ "retry" \in Lanes
        /\ Put("retry", <<job[r]>>) /\ Return(r) /\ UNCHANGED status
    BY <1>5, <2>1 DEF TypeOK, Lanes, RetryPut
  <2>3. Contains(<<job[r]>>, job[r])
    BY DEF Contains
  <2>4. /\ Waiting(j) => Waiting(j)'
        /\ job[r] = j => Waiting(j)'
    BY <1>2, <2>2, <2>3, PutQueues DEF Waiting
  <2>5. Carrier(r, j) => job[r] = j
    BY <1>1 DEF Carrier
  <2> QED BY <1>1, <2>2, <2>4, <2>5, ReturnOnly, ActorStep, CarriedByNext
<1> QED BY <1>3, <1>4, <1>5 DEF RetryNext

-----------------------------------------------------------------------------
(* The process stops only at the price of a stop.                          *)
StopsCounted == mode # "up" => stops > 0

(* While the process lives no unfinished job is without a carrier.         *)
THEOREM NoJobIsStuck == Spec => []NoStuckJob
<1> DEFINE Inv == NoStuckJob /\ StopsCounted
<1>1. Init => Inv
  BY DEF Init, NoStuckJob, StopsCounted
<1>2. TypeOK /\ TypeOK' /\ RunningMapSound /\ Inv /\ [Next]_vars => Inv'
  <2> SUFFICES ASSUME TypeOK, TypeOK', RunningMapSound, Inv, [Next]_vars PROVE Inv'
    OBVIOUS
  <2>1. stops \in Nat /\ stops' \in Nat
    BY BoundAssumption DEF TypeOK, ModeOK, BoundAssumption
  <2>2. CASE UNCHANGED vars
    BY <2>2 DEF vars, NoStuckJob, StopsCounted, Carried, InQueue, Live
  <2>3. CASE ProcessNext
    <3>1. stops' > 0
      BY <2>1, <2>3 DEF ProcessNext, ShutdownBegin, ShutdownEnd, Restart, Crash, StopsCounted
    <3> QED BY <2>1, <3>1 DEF NoStuckJob, StopsCounted
  <2>4. CASE ~ProcessNext /\ Next
    <3>1. UNCHANGED <<mode, stops>>
      <4>1. CASE \E w \in Workers : WorkerNext(w)
        BY <4>1 DEF WorkerNext, WorkerLoad, WorkerClaim, WorkerPrepareFails, WorkerStart,
           WorkerExecuted, WorkerPersisted, WorkerPersistFails, WorkerCancelled,
           Finalize, LeaveCohort, Settle, WorkerDone
      <4>2. CASE DispatchNext \/ \E n \in Nets : NetNext(n)
        BY <4>2 DEF DispatchNext, DispatchSkip, DispatchHold, DispatchSpawn, DispatchHeld,
           NetNext, NetCheck, Finalize, LeaveCohort, Settle
      <4>3. CASE UserNext \/ \E r \in Runs : RunNext(r)
        BY <4>3 DEF UserNext, Plan, CancelBegin, RetryRead, RunNext, EnqueueBegin,
           EnqueueCommit, EnqueuePut
      <4>4. CASE (\E c \in Cancels : CancelNext(c)) \/ \E r \in Retries : RetryNext(r)
        BY <4>4 DEF CancelNext, CancelRead, CancelAct, LeaveCohort, Settle,
           RetryNext, RetryCommit, RetryPut
      <4> QED BY <2>4, <4>1, <4>2, <4>3, <4>4 DEF Next
    <3>2. ASSUME stops' = 0, NEW j \in Jobs, status'[j] \in Unfinished
          PROVE  Carried(j)'
      <4>1. status[j] \in Unfinished => Carried(j)
        BY <3>1, <3>2 DEF NoStuckJob, Unfinished
      <4> QED BY <2>4, <3>2, <4>1, DispatchCarries, WorkerCarries, NetCarries, RunCarries,
                 CancelCarries, RetryCarries
              DEF Next, UserNext
    <3> QED BY <3>1, <3>2 DEF NoStuckJob, StopsCounted, Unfinished
  <2> QED BY <2>2, <2>3, <2>4
<1> QED BY <1>1, <1>2, TypeCorrect, MapSound, PTL DEF Spec
=============================================================================
