---------------------------- MODULE PipelineProofs ---------------------------
(***************************************************************************)
(* A run of the pipeline over any plan, with any number of cancels,        *)
(* retries, hooks cut short and ends of the process.                       *)
(***************************************************************************)
EXTENDS Pipeline, TLAPS

(* Where a hook is, it knows how its job ended; the recon hook schedules   *)
(* steps of the plan.                                                      *)
HookKnows ==
    /\ \A i \in Jobs : hook[i] # "idle" => ended[i] # "NONE"
    /\ hook[0] \in {"advance", "enqueue", "mark"} => pos \in Scans

(* Nothing is scheduled, scanned or decided before the recon job completed, *)
(* which it does once.                                                      *)
ReconFirst ==
    /\ run = "NONE" => /\ exec[0] = "NONE" /\ node[0] = "ABSENT"
                         /\ starting = "new" /\ hook[0] = "idle"
    /\ starting # "done" => exec[0] \in {"NONE", "PENDING", "CANCELLED"}
    /\ starting \in {"enqueue", "mark"} => exec[0] # "NONE"
    /\ exec[0] = "COMPLETED" <=> ended[0] = "COMPLETED"
    /\ Scheduling => exec[0] = "COMPLETED"
    /\ \A i \in Scans : exec[i] # "NONE" \/ hook[i] # "idle" => exec[0] = "COMPLETED"
    /\ \A i \in Jobs : saw[i] => exec[0] = "COMPLETED" /\ run \in {"RUNNING", "COMPLETED"}
    /\ run = "COMPLETED" => exec[0] = "COMPLETED"

(* The recon hook has not come to the step.                                *)
Untouched(j) ==
    \/ exec[0] # "COMPLETED" \/ hook[0] = "due"
    \/ hook[0] = "advance" /\ j >= pos
    \/ hook[0] \in {"enqueue", "mark"} /\ j > pos

(* It is past the step, which it has shown a row for, or will with its     *)
(* next commit -- unless it raised, or was cut short.                      *)
ReconOver == hook[0] \in Written
ReconDone == ReconOver /\ exec[0] = "COMPLETED"
ReconCut == ReconDone /\ 0 \in lost
Reached(j) ==
    \/ hook[0] = "advance" /\ j < pos
    \/ hook[0] \in {"enqueue", "mark"} /\ j <= pos
    \/ hook[0] \in {"final", "commit"} /\ "raised" \notin races
    \/ ReconDone /\ "raised" \notin races /\ 0 \notin lost

RowsOfReached ==
    /\ \A j \in Scans : Reached(j) => node[j] # "ABSENT" \/ j \in dirty
    /\ \A j \in Scans : Untouched(j) =>
          node[j] = "ABSENT" /\ exec[j] = "NONE" /\ hook[j] = "idle" /\ j \notin dirty
    /\ ReconOver \/ hook[0] = "due" => dirty = {}

(* A hook that decided to finalize the run found every row, its own        *)
(* included, terminal -- unless the recon hook was still scheduling, or    *)
(* never showed all of its rows.                                           *)
Deciding(i) == saw[i] /\ hook[i] = "commit"
SawKnows ==
    /\ \A i \in Scans : saw[i] => hook[i] \in {"rows", "commit"}
    /\ saw[0] => Scheduling
    /\ races \cap {"early", "raised"} = {} /\ ~ReconCut =>
        /\ \A i \in Scans : Deciding(i) =>
              ReconOver /\ \A j \in Scans \ {i} : node[j] \in NodeTerminal
        /\ Deciding(0) => \A j \in Scans : j \in dirty \/ node[j] \in NodeTerminal
        /\ run = "COMPLETED" => ReconOver /\ \A j \in Scans : node[j] \in NodeTerminal

(* Nothing is in the cohort of which the end is about to be written.       *)
CohortInv ==
    /\ CohortKeepsRunning
    /\ "late" \notin races => ((\E j \in Jobs : hook[j] = "settle") => cohort = {})

RunInv == TypeOK /\ HookKnows /\ ReconFirst /\ RowsOfReached /\ SawKnows /\ CohortInv

-----------------------------------------------------------------------------
LEMMA PlanHasJobs ==
    ASSUME plan \in Plans
    PROVE  /\ Len(plan) \in Nat /\ plan \in Seq([kind : {"plan", "skip"}, tool : STRING])
           /\ 0 \in Jobs /\ 0 \notin Scans /\ Scans \subseteq Jobs
           /\ \A i \in Jobs : i # 0 => i \in Scans
           /\ Scans \subseteq Nat
<1>1. plan \in Seq([kind : {"plan", "skip"}, tool : STRING])
  BY PlansAssumption
<1>2. Len(plan) \in Nat
  BY <1>1
<1> QED BY <1>1, <1>2 DEF Jobs, Scans

LEMMA RowOfEnded == \A s \in Terminal : MapStatus(s) \in NodeTerminal
  BY DEF Terminal, NodeTerminal, MapStatus

LEMMA RunInitInv == Init => RunInv
<1> SUFFICES ASSUME Init PROVE RunInv
  OBVIOUS
<1> USE PlanHasJobs, BoundsAssumption DEF Init
<1>1. TypeOK
  <2>1. 0 \in 0 .. Len(plan) + 1 /\ 0 \in 0 .. MaxCancels /\ 0 \in 0 .. MaxRetries /\ 0 \in 0 .. MaxCuts
    OBVIOUS
  <2> QED BY <2>1 DEF TypeOK, HookPcs, ReconPcs
<1>2. HookKnows /\ CohortInv
  BY DEF HookKnows, CohortInv, CohortKeepsRunning
<1>3. ReconFirst
  BY DEF ReconFirst, Scheduling, ReconPcs
<1>4. RowsOfReached
  BY DEF RowsOfReached, Reached, ReconDone
<1>5. SawKnows
  BY DEF SawKnows, Deciding
<1> QED BY <1>1, <1>2, <1>3, <1>4, <1>5 DEF RunInv

-----------------------------------------------------------------------------
(* start(), and the enqueue() it makes.                                    *)
LEMMA StartInv == RunInv /\ Start => RunInv'
<1> SUFFICES ASSUME RunInv, Start PROVE RunInv'
  OBVIOUS
<1> USE PlanHasJobs DEF RunInv, TypeOK
<1>0. plan' = plan /\ Jobs' = Jobs /\ Scans' = Scans
  BY DEF Start, Jobs, Scans
<1>1. run = "NONE" /\ exec[0] = "NONE" /\ \A i \in Jobs : ~saw[i]
  BY DEF Start, ReconFirst
<1>2. PICK n \in {"WAITING", "SKIPPED"}, x \in {"PENDING", "SKIPPED"} :
        /\ node' = [node EXCEPT ![0] = n] /\ exec' = [exec EXCEPT ![0] = x]
        /\ starting' = IF x = "PENDING" THEN "enqueue" ELSE "done"
  BY DEF Start
<1>3. /\ run' \in {"RUNNING", "FAILED"}
      /\ UNCHANGED <<plan, skips, correlated, hook, ended, saw, pos, dirty, locked, cohort, assessment,
                     held, retrying, cancels, retries, cuts, lost, races>>
  BY DEF Start, hookVars, cohortVars, userVars, history
<1>4. TypeOK'
  <2>1. node' \in [Jobs -> {"ABSENT", "WAITING"} \cup NodeTerminal]
    BY <1>2 DEF NodeTerminal
  <2>2. exec' \in [Jobs -> {"NONE"} \cup Active \cup Terminal]
    BY <1>2 DEF Active, Terminal
  <2> QED BY <1>0, <1>2, <1>3, <2>1, <2>2 DEF TypeOK
<1>5. HookKnows' /\ CohortInv'
  BY <1>0, <1>2, <1>3 DEF HookKnows, CohortInv, CohortKeepsRunning
<1>6. ReconFirst'
  BY <1>0, <1>1, <1>2, <1>3 DEF ReconFirst, Scheduling, ReconPcs
<1>7. RowsOfReached'
  BY <1>0, <1>1, <1>2, <1>3 DEF RowsOfReached, Reached, Untouched, ReconDone, ReconOver
<1>8. SawKnows'
  BY <1>0, <1>1, <1>3 DEF SawKnows, Deciding
<1> QED BY <1>4, <1>5, <1>6, <1>7, <1>8

(* enqueue()'s transaction for the recon job, whether start() or what was  *)
(* left of it gets there; or start() ends before that.                     *)
LEMMA MarkReconInv == RunInv /\ (StartMarks \/ StartIsCut) => RunInv'
<1> SUFFICES ASSUME RunInv, StartMarks \/ StartIsCut PROVE RunInv'
  OBVIOUS
<1> USE PlanHasJobs DEF RunInv, TypeOK
<1>0. plan' = plan /\ Jobs' = Jobs /\ Scans' = Scans
  BY DEF StartMarks, StartIsCut, Jobs, Scans
<1>1. /\ starting \in {"enqueue", "mark"} /\ starting' = "done"
      /\ \/ exec' = [exec EXCEPT ![0] = "QUEUED"] /\ assessment' = "RUNNING"
         \/ UNCHANGED <<exec, assessment>>
      /\ held' \subseteq Jobs /\ lost \subseteq lost' /\ lost' \subseteq Jobs
      /\ cuts' \in 0 .. MaxCuts
      /\ UNCHANGED <<run, node, skips, correlated, hook, ended, saw, pos, dirty, locked, cohort,
                     retrying, cancels, retries, races>>
  <2>1. CASE StartMarks
    BY <2>1 DEF StartMarks, MarkQueued, rowVars, hookVars, userVars, history
  <2>2. CASE StartIsCut
    <3>1. cuts + 1 \in 0 .. MaxCuts
      BY <2>2, BoundsAssumption DEF StartIsCut
    <3> QED BY <2>2, <3>1 DEF StartIsCut, MarkQueued, rowVars, hookVars
  <2> QED BY <2>1, <2>2
<1>2. exec[0] \in {"PENDING", "CANCELLED"} /\ run # "NONE" /\ ~Scheduling
  BY <1>1 DEF ReconFirst
<1>3. TypeOK'
  BY <1>0, <1>1 DEF TypeOK, Active
<1>4. HookKnows' /\ CohortInv'
  BY <1>0, <1>1 DEF HookKnows, CohortInv, CohortKeepsRunning
<1>5. ReconFirst'
  BY <1>0, <1>1, <1>2 DEF ReconFirst, Scheduling
<1>6. RowsOfReached'
  BY <1>0, <1>1, <1>2 DEF RowsOfReached, Reached, Untouched, ReconDone, ReconOver, Scheduling, ReconPcs
<1>7. SawKnows'
  <2>1. \A i \in Jobs : ~saw[i]
    BY <1>2 DEF ReconFirst
  <2> QED BY <1>0, <1>1, <1>2, <2>1 DEF SawKnows, Deciding, ReconFirst
<1> QED BY <1>3, <1>4, <1>5, <1>6, <1>7

(* A job joins a cohort, or leaves the queue: no row changes.              *)
LEMMA JoinInv ==
    ASSUME RunInv, NEW i \in Jobs,
           StartJoins \/ JoinFollowUp \/ JobDropped(i) \/ RetryJoins(i)
    PROVE  RunInv'
<1> USE PlanHasJobs DEF RunInv, TypeOK
<1>0. plan' = plan /\ Jobs' = Jobs /\ Scans' = Scans
  BY DEF StartJoins, JoinFollowUp, JobDropped, RetryJoins, Jobs, Scans
<1>1. /\ UNCHANGED <<run, node, skips, correlated, exec, ended, saw, pos, dirty, locked, assessment,
                     cancels, retries, cuts, lost>>
      /\ hook' = hook \/ (hook[0] = "enqueue" /\ hook' = [hook EXCEPT ![0] = "mark"])
      /\ starting' = starting \/ (starting = "enqueue" /\ starting' = "mark")
  BY DEF StartJoins, JoinFollowUp, JobDropped, RetryJoins, rowVars, hookVars, cohortVars, userVars, history
<1>2. PICK k \in Jobs :
        /\ cohort' = cohort \/ (cohort' \in {{k}, cohort \cup {k}} /\ (Late(k) => "late" \in races'))
        /\ races' \in {races, races \cup {"late"}}
        /\ held' \subseteq Jobs /\ retrying' \subseteq Jobs
  <2>1. CASE StartJoins
    BY <2>1 DEF StartJoins, NewCohort
  <2>2. CASE JoinFollowUp
    BY <2>2 DEF JoinFollowUp, NewCohort, HookKnows
  <2>3. CASE JobDropped(i)
    BY <2>3 DEF JobDropped, cohortVars, history
  <2>4. CASE RetryJoins(i)
    BY <2>4 DEF RetryJoins
  <2> QED BY <2>1, <2>2, <2>3, <2>4
<1>3. TypeOK'
  BY <1>0, <1>1, <1>2 DEF TypeOK, HookPcs, ReconPcs, Races
<1>4. HookKnows'
  BY <1>0, <1>1 DEF HookKnows
<1>5. CohortInv'
  BY <1>0, <1>1, <1>2 DEF CohortInv, CohortKeepsRunning, Late
<1>6. ReconFirst'
  BY <1>0, <1>1 DEF ReconFirst, Scheduling, ReconPcs
<1>7. RowsOfReached'
  BY <1>0, <1>1, <1>2 DEF RowsOfReached, Reached, Untouched, ReconDone, ReconOver, Written
<1>8. SawKnows'
  BY <1>0, <1>1, <1>2 DEF SawKnows, Deciding, ReconCut, ReconDone, ReconOver, Written, Scheduling, ReconPcs
<1> QED BY <1>3, <1>4, <1>5, <1>6, <1>7, <1>8

-----------------------------------------------------------------------------
(* The jobs, and the requests of users.                                    *)
LEMMA JobInv ==
    ASSUME RunInv, NEW i \in Jobs, JobStarts(i) \/ RetryMarks(i)
    PROVE  RunInv'
<1> USE PlanHasJobs DEF RunInv, TypeOK
<1>0. /\ plan' = plan /\ Jobs' = Jobs /\ Scans' = Scans
      /\ UNCHANGED <<run, node, skips, correlated, hook, ended, saw, pos, dirty, locked, cohort, held,
                     starting, cancels, cuts, lost, races>>
  BY DEF JobStarts, RetryMarks, Jobs, Scans, rowVars, hookVars, managerVars, userVars, history
<1>1. /\ exec[i] \in {"QUEUED", "FAILED", "CANCELLED"}
      /\ exec' = [exec EXCEPT ![i] = exec'[i]] /\ exec'[i] \in {"QUEUED", "RUNNING"}
      /\ assessment' = "RUNNING" \/ (exec[i] = "QUEUED" /\ assessment' = assessment)
      /\ retrying' \subseteq Jobs /\ retries' \in 0 .. MaxRetries
      /\ i = 0 => starting = "done"
  <2>1. CASE JobStarts(i)
    BY <2>1 DEF JobStarts, managerVars, userVars, ReconFirst
  <2>2. CASE RetryMarks(i)
    <3>1. retries + 1 \in 0 .. MaxRetries
      BY <2>2, BoundsAssumption DEF RetryMarks
    <3> QED BY <2>2, <3>1 DEF RetryMarks, MarkQueued
  <2> QED BY <2>1, <2>2
<1>2. TypeOK'
  BY <1>0, <1>1 DEF TypeOK, Active
<1>3. HookKnows'
  BY <1>0 DEF HookKnows
<1>4. CohortInv'
  BY <1>0, <1>1 DEF CohortInv, CohortKeepsRunning
<1>5. ReconFirst'
  BY <1>0, <1>1 DEF ReconFirst, Scheduling
<1>6. RowsOfReached'
  BY <1>0, <1>1 DEF RowsOfReached, Reached, Untouched, ReconDone, ReconOver, ReconFirst
<1>7. SawKnows'
  BY <1>0, <1>1 DEF SawKnows, Deciding, ReconCut, ReconDone, ReconOver, Scheduling
<1> QED BY <1>2, <1>3, <1>4, <1>5, <1>6, <1>7

LEMMA EndsInv ==
    ASSUME RunInv, NEW i \in Jobs, JobEnds(i) \/ Cancel(i)
    PROVE  RunInv'
<1> USE PlanHasJobs DEF RunInv, TypeOK
<1>0. /\ plan' = plan /\ Jobs' = Jobs /\ Scans' = Scans
      /\ UNCHANGED <<run, node, skips, correlated, saw, pos, dirty, locked, cohort, assessment, starting,
                     retrying, retries, cuts, lost, races>>
      /\ hook[i] = "idle" /\ hook' = [hook EXCEPT ![i] = "due"] /\ held' \subseteq Jobs
  BY DEF JobEnds, Cancel, Ends, Jobs, Scans, rowVars, cohortVars, userVars, history
<1>1. PICK outcome \in {"COMPLETED", "FAILED", "CANCELLED"} :
        /\ exec[i] \in Active /\ ended' = [ended EXCEPT ![i] = outcome]
        /\ \/ exec' = [exec EXCEPT ![i] = outcome]
           \/ outcome = "CANCELLED" /\ exec[i] = "QUEUED" /\ exec' = exec
        /\ outcome \in {"COMPLETED", "FAILED"} => exec[i] = "RUNNING"
        /\ cancels' \in 0 .. MaxCancels
  <2>1. CASE JobEnds(i)
    BY <2>1 DEF JobEnds, Ends, userVars, Active
  <2>2. CASE Cancel(i)
    <3>1. cancels + 1 \in 0 .. MaxCancels
      BY <2>2, BoundsAssumption DEF Cancel
    <3> QED BY <2>2, <3>1 DEF Cancel, Ends
  <2> QED BY <2>1, <2>2
<1>2. /\ \A j \in Jobs : exec'[j] = exec[j] \/ (j = i /\ exec'[j] = outcome)
      /\ \A j \in Jobs : exec'[j] \in {"QUEUED", "RUNNING"} => exec'[j] = exec[j]
  BY <1>1
<1>3. TypeOK'
  BY <1>0, <1>1 DEF TypeOK, Active, Terminal, HookPcs, ReconPcs
<1>4. HookKnows'
  BY <1>0, <1>1 DEF HookKnows
<1>5. CohortInv'
  BY <1>0, <1>2 DEF CohortInv, CohortKeepsRunning
<1>6. ReconFirst'
  BY <1>0, <1>1 DEF ReconFirst, Scheduling, ReconPcs, Active
<1>7. RowsOfReached'
  <2>1. hook[0] = "idle" => dirty = {}
    BY DEF RowsOfReached, ReconOver, Written
  <2>2. i # 0 => exec[0] = "COMPLETED" /\ exec'[0] = exec[0] /\ hook'[0] = hook[0] /\ ~Untouched(i)
    BY <1>0, <1>1 DEF ReconFirst, RowsOfReached, Active
  <2>3. i = 0 => exec[0] # "COMPLETED"
    BY <1>1 DEF Active
  <2> QED BY <1>0, <1>1, <1>2, <2>1, <2>2, <2>3
          DEF RowsOfReached, Reached, Untouched, ReconDone, ReconOver, Written
<1>8. SawKnows'
  <2>1. i = 0 => exec[0] # "COMPLETED" /\ run # "COMPLETED" /\ \A j \in Jobs : ~saw[j]
    BY <1>1 DEF Active, ReconFirst
  <2>2. i # 0 => ReconCut' = ReconCut /\ ReconOver' = ReconOver
    BY <1>0, <1>1 DEF ReconCut, ReconDone, ReconOver
  <2>3. \A j \in Jobs : saw[j] => hook'[j] = hook[j]
    BY <1>0 DEF SawKnows, Scheduling, ReconPcs
  <2>4. \A j \in Jobs : Deciding(j)' => Deciding(j)
    BY <1>0 DEF Deciding
  <2>5. CASE i = 0
    BY <1>0, <2>1, <2>4, <2>5 DEF SawKnows
  <2>6. CASE i # 0
    <3>1. hook'[0] = hook[0]
      BY <1>0, <2>6
    <3>2. Scheduling' <=> Scheduling
      BY <3>1 DEF Scheduling
    <3> QED BY <1>0, <2>2, <2>3, <2>4, <2>6, <3>2 DEF SawKnows
  <2> QED BY <2>5, <2>6
<1> QED BY <1>3, <1>4, <1>5, <1>6, <1>7, <1>8

LEMMA LeaveInv == ASSUME RunInv, NEW i \in Jobs, LeaveCohort(i) \/ Settle(i) PROVE RunInv'
<1> USE PlanHasJobs DEF RunInv, TypeOK
<1>0. /\ plan' = plan /\ Jobs' = Jobs /\ Scans' = Scans
      /\ UNCHANGED <<run, node, skips, correlated, exec, ended, saw, pos, dirty, locked, held, starting,
                     retrying, cancels, retries, cuts, lost, races>>
      /\ hook[i] \in {"cohort", "settle"}
      /\ hook' = [hook EXCEPT ![i] = hook'[i]] /\ hook'[i] \in {"idle", "settle"}
  BY DEF LeaveCohort, Settle, Jobs, Scans, rowVars, userVars, history
<1>1. /\ cohort' \subseteq cohort /\ assessment' \in {assessment, "SETTLED"}
      /\ hook'[i] = "settle" => cohort' = {}
      /\ assessment' # assessment => hook[i] = "settle" /\ cohort' = cohort
  BY <1>0 DEF LeaveCohort, Settle
<1>2. TypeOK'
  BY <1>0, <1>1 DEF TypeOK, HookPcs, ReconPcs
<1>3. HookKnows'
  BY <1>0 DEF HookKnows
<1>4. CohortInv'
  BY <1>0, <1>1 DEF CohortInv, CohortKeepsRunning
<1>5. hook'[0] = hook[0] \/ (hook[0] \in Written /\ hook'[0] \in Written)
  BY <1>0 DEF Written
<1>6. ReconFirst'
  BY <1>0, <1>5 DEF ReconFirst, Scheduling, ReconPcs, Written
<1>7. RowsOfReached'
  BY <1>0, <1>5 DEF RowsOfReached, Reached, Untouched, ReconDone, ReconOver, Written
<1>8. SawKnows'
  BY <1>0, <1>5 DEF SawKnows, Deciding, ReconCut, ReconDone, ReconOver, Written, Scheduling, ReconPcs
<1> QED BY <1>2, <1>3, <1>4, <1>6, <1>7, <1>8

-----------------------------------------------------------------------------
(* The hook of a follow-up.                                                *)
LEMMA ScanReadsRunInv == ASSUME RunInv, NEW i \in Scans, ScanHookReadsRun(i) PROVE RunInv'
<1> USE PlanHasJobs DEF RunInv, TypeOK
<1>0. /\ plan' = plan /\ Jobs' = Jobs /\ Scans' = Scans /\ i \in Jobs /\ i # 0
      /\ UNCHANGED <<run, node, skips, correlated, exec, ended, pos, dirty, locked, cohort, assessment, held,
                     starting, retrying, cancels, retries, cuts, lost, races>>
      /\ hook[i] = "due" /\ hook' = [hook EXCEPT ![i] = "rows"]
      /\ saw' = [saw EXCEPT ![i] = (run = "RUNNING")]
  BY DEF ScanHookReadsRun, Jobs, Scans, rowVars, managerVars, userVars, history
<1>1. exec[0] = "COMPLETED"
  BY <1>0 DEF ReconFirst
<1>2. TypeOK'
  BY <1>0 DEF TypeOK, HookPcs, ReconPcs
<1>3. HookKnows' /\ CohortInv'
  BY <1>0 DEF HookKnows, CohortInv, CohortKeepsRunning
<1>4. ReconFirst'
  BY <1>0, <1>1 DEF ReconFirst, Scheduling
<1>5. RowsOfReached'
  BY <1>0 DEF RowsOfReached, Reached, Untouched, ReconDone, ReconOver
<1>6. SawKnows'
  BY <1>0 DEF SawKnows, Deciding, ReconCut, ReconDone, ReconOver, Scheduling
<1> QED BY <1>2, <1>3, <1>4, <1>5, <1>6

LEMMA ScanReadsInv == ASSUME RunInv, NEW i \in Scans, ScanHookReadsRows(i) PROVE RunInv'
<1> USE PlanHasJobs DEF RunInv, TypeOK
<1> DEFINE mine == [node EXCEPT ![i] = MapStatus(ended[i])]
<1>0. /\ plan' = plan /\ Jobs' = Jobs /\ Scans' = Scans /\ i \in Jobs /\ i # 0
      /\ UNCHANGED <<run, node, skips, correlated, exec, ended, pos, dirty, locked, cohort, assessment, held,
                     starting, retrying, cancels, retries, cuts, lost>>
      /\ hook[i] = "rows" /\ hook' = [hook EXCEPT ![i] = "commit"]
      /\ saw' = [saw EXCEPT ![i] = /\ saw[i]
                                   /\ \A j \in Scans : mine[j] = "ABSENT" \/ mine[j] \in NodeTerminal]
      /\ races \subseteq races' /\ races' \subseteq races \cup {"overlap", "torn", "early"}
      /\ saw'[i] /\ Scheduling => "early" \in races'
  BY DEF ScanHookReadsRows, Jobs, Scans, rowVars, managerVars, userVars
<1>1. saw' \in [Jobs -> BOOLEAN] /\ (saw'[i] => saw[i])
      /\ (saw'[i] => \A j \in Scans : mine[j] = "ABSENT" \/ mine[j] \in NodeTerminal)
      /\ \A j \in Jobs : j # i => saw'[j] = saw[j]
  BY <1>0
<1>2. exec[0] = "COMPLETED" /\ hook[0] # "due"
  BY <1>0 DEF ReconFirst, RowsOfReached, Untouched
<1>3. TypeOK'
  BY <1>0, <1>1 DEF TypeOK, HookPcs, ReconPcs, Races
<1>4. HookKnows'
  BY <1>0 DEF HookKnows
<1>5. CohortInv'
  BY <1>0 DEF CohortInv, CohortKeepsRunning
<1>6. ReconFirst'
  BY <1>0, <1>1, <1>2 DEF ReconFirst, Scheduling
<1>7. RowsOfReached'
  BY <1>0 DEF RowsOfReached, Reached, Untouched, ReconDone, ReconOver, ReconFirst
<1>8. SawKnows'
  <2>1. ASSUME races' \cap {"early", "raised"} = {}, ~ReconCut, saw'[i]
        PROVE  ReconOver /\ \A j \in Scans \ {i} : node[j] \in NodeTerminal
    <3>1. ~Scheduling
      BY <1>0, <2>1
    <3>2. ReconOver
      BY <1>2, <3>1 DEF Scheduling, HookPcs, ReconOver, Written
    <3>3. \A j \in Scans : node[j] # "ABSENT"
      BY <1>0, <1>2, <2>1, <3>2 DEF RowsOfReached, Reached, ReconCut, ReconDone
    <3>4. \A j \in Scans \ {i} : mine[j] = node[j]
      BY <1>0
    <3>5. \A j \in Scans \ {i} : node[j] \in NodeTerminal
      BY <1>1, <2>1, <3>3, <3>4
    <3> QED BY <3>2, <3>5
  <2> HIDE DEF mine
  <2>2. \A j \in Jobs : j # i => (Deciding(j)' <=> Deciding(j))
    BY <1>0, <1>1 DEF Deciding
  <2>3. (ReconOver' <=> ReconOver) /\ (ReconCut' <=> ReconCut) /\ (Scheduling' <=> Scheduling)
    BY <1>0 DEF ReconOver, ReconCut, ReconDone, Scheduling
  <2>4. Deciding(i)' => saw'[i]
    BY DEF Deciding
  <2> QED BY <1>0, <1>1, <2>1, <2>2, <2>3, <2>4 DEF SawKnows
<1> QED BY <1>3, <1>4, <1>5, <1>6, <1>7, <1>8

(* What the last step of a hook does to the run.                           *)
LEMMA RunOfCorrelation ==
    ASSUME RunInv, NEW i \in Jobs, IF saw[i] THEN CorrelateRun ELSE UNCHANGED <<rowsButNode, races>>
    PROVE  /\ \/ run' = run /\ correlated' = correlated /\ races' = races /\ ~saw[i]
              \/ run' = run /\ correlated' = correlated /\ races' = races \cup {"fault"} /\ saw[i]
              \/ run' = "COMPLETED" /\ correlated' = correlated + 1 /\ races' = races /\ saw[i]
           /\ skips' = skips /\ correlated' \in Nat
           /\ races \subseteq races' /\ races' \subseteq Races
<1> USE DEF RunInv, TypeOK
<1>1. /\ \/ run' = run /\ correlated' = correlated /\ races' = races /\ ~saw[i]
         \/ run' = run /\ correlated' = correlated /\ races' = races \cup {"fault"} /\ saw[i]
         \/ run' = "COMPLETED" /\ correlated' = correlated + 1 /\ races' = races /\ saw[i]
      /\ skips' = skips
  BY DEF CorrelateRun, CompleteRun, rowsButNode
<1>2. correlated' \in Nat
  BY <1>1
<1> QED BY <1>1, <1>2 DEF Races

LEMMA ScanCommitsInv == ASSUME RunInv, NEW i \in Scans, ScanHookCommits(i) PROVE RunInv'
<1> USE PlanHasJobs DEF RunInv, TypeOK
<1>0. /\ plan' = plan /\ Jobs' = Jobs /\ Scans' = Scans /\ i \in Jobs /\ i # 0
      /\ UNCHANGED <<exec, ended, pos, dirty, locked, cohort, assessment, held, starting, retrying,
                     cancels, retries, cuts>>
      /\ hook[i] = "commit" /\ hook' = [hook EXCEPT ![i] = "cohort"]
      /\ saw' = [saw EXCEPT ![i] = FALSE] /\ lost' = lost \ {i}
      /\ node' = [node EXCEPT ![i] = MapStatus(ended[i])]
  BY DEF ScanHookCommits, Returns, Jobs, Scans, userVars, managerVars
<1>1. /\ races' \in {races, races \cup {"fault"}} /\ races' \subseteq Races
      /\ run' = run \/ (run' = "COMPLETED" /\ saw[i])
      /\ skips' = skips /\ correlated' \in Nat
  BY <1>0, RunOfCorrelation DEF ScanHookCommits
<1>2. MapStatus(ended[i]) \in NodeTerminal
  BY <1>0, RowOfEnded DEF HookKnows
<1>3. exec[0] = "COMPLETED" /\ ~Untouched(i)
  BY <1>0 DEF ReconFirst, RowsOfReached
<1>4. TypeOK'
  BY <1>0, <1>1, <1>2 DEF TypeOK, HookPcs, ReconPcs
<1>5. HookKnows' /\ CohortInv'
  BY <1>0, <1>1 DEF HookKnows, CohortInv, CohortKeepsRunning
<1>6. ReconFirst'
  BY <1>0, <1>1, <1>3 DEF ReconFirst, Scheduling
<1>7. RowsOfReached'
  BY <1>0, <1>1, <1>2, <1>3 DEF RowsOfReached, Reached, Untouched, ReconDone, ReconOver, NodeTerminal
<1>8. SawKnows'
  <2>1. (ReconOver' <=> ReconOver) /\ (ReconCut' <=> ReconCut) /\ (Scheduling' <=> Scheduling)
    BY <1>0 DEF ReconOver, ReconCut, ReconDone, Scheduling
  <2>2. /\ ~Deciding(i)' /\ (saw[i] => Deciding(i))
        /\ \A j \in Jobs : j # i => (Deciding(j)' <=> Deciding(j))
    BY <1>0 DEF Deciding
  <2> QED BY <1>0, <1>1, <1>2, <2>1, <2>2 DEF SawKnows
<1> QED BY <1>4, <1>5, <1>6, <1>7, <1>8

-----------------------------------------------------------------------------
(* The hook of the recon job.                                              *)
LEMMA ReconFailsInv == RunInv /\ ReconFails => RunInv'
<1> SUFFICES ASSUME RunInv, ReconFails PROVE RunInv'
  OBVIOUS
<1> USE PlanHasJobs DEF RunInv, TypeOK
<1>1. /\ plan' = plan /\ Jobs' = Jobs /\ Scans' = Scans
      /\ hook[0] = "due" /\ ended[0] # "COMPLETED" /\ exec[0] # "COMPLETED"
      /\ hook' = [hook EXCEPT ![0] = "cohort"] /\ node' = [node EXCEPT ![0] = MapStatus(ended[0])]
      /\ run' \in {run, "FAILED"} /\ skips' \in {skips, skips + 3}
      /\ saw' = [saw EXCEPT ![0] = FALSE] /\ lost' \subseteq Jobs /\ races' \in {races, races \cup {"raised"}}
      /\ UNCHANGED <<correlated, exec, ended, pos, dirty, locked, cohort, assessment, held, starting, retrying,
                     cancels, retries, cuts>>
  BY DEF ReconFails, ReconFirst, Returns, managerVars, userVars, Jobs, Scans
<1>2. MapStatus(ended[0]) \in NodeTerminal /\ \A i \in Jobs : ~saw[i]
  BY <1>1, RowOfEnded DEF HookKnows, ReconFirst
<1>3. TypeOK'
  BY <1>1, <1>2 DEF TypeOK, HookPcs, ReconPcs, Races
<1>4. HookKnows' /\ CohortInv'
  BY <1>1 DEF HookKnows, CohortInv, CohortKeepsRunning
<1>5. ReconFirst'
  <2>1. run # "NONE"
    BY <1>1 DEF ReconFirst, HookKnows
  <2> QED BY <1>1, <1>2, <2>1 DEF ReconFirst, Scheduling, ReconPcs
<1>6. RowsOfReached'
  BY <1>1 DEF RowsOfReached, Reached, Untouched, ReconDone
<1>7. SawKnows'
  BY <1>1, <1>2 DEF SawKnows, Deciding, ReconFirst
<1> QED BY <1>3, <1>4, <1>5, <1>6, <1>7

LEMMA ReconReadsInv == RunInv /\ ReconReads => RunInv'
<1> SUFFICES ASSUME RunInv, ReconReads PROVE RunInv'
  OBVIOUS
<1> USE PlanHasJobs DEF RunInv, TypeOK
<1>1. /\ plan' = plan /\ Jobs' = Jobs /\ Scans' = Scans
      /\ hook[0] = "due" /\ ended[0] = "COMPLETED" /\ exec[0] = "COMPLETED"
      /\ saw' = [saw EXCEPT ![0] = (run = "RUNNING")] /\ pos' = 1
      /\ hook' = [hook EXCEPT ![0] = IF plan = <<>> THEN "final" ELSE "advance"]
      /\ UNCHANGED <<run, node, skips, correlated, exec, ended, dirty, locked, cohort, assessment, held, starting,
                     retrying, cancels, retries, cuts, lost, races>>
  BY DEF ReconReads, ReconFirst, rowVars, managerVars, userVars, history, Jobs, Scans
<1>2. /\ plan = <<>> => Scans = {}
      /\ plan # <<>> => 1 \in Scans
      /\ 1 \in 0 .. Len(plan) + 1
  BY DEF Scans
<1>3. \A j \in Scans : ~(j < 1)
  BY DEF Scans
<1>4. \A j \in Scans : node[j] = "ABSENT" /\ exec[j] = "NONE" /\ hook[j] = "idle" /\ j \notin dirty
  BY <1>1 DEF RowsOfReached, Untouched
<1>5. TypeOK'
  BY <1>1, <1>2 DEF TypeOK, HookPcs, ReconPcs
<1>6. HookKnows' /\ CohortInv'
  BY <1>1, <1>2 DEF HookKnows, CohortInv, CohortKeepsRunning
<1>7. ReconFirst'
  BY <1>1 DEF ReconFirst, Scheduling
<1>8. RowsOfReached'
  BY <1>1, <1>2, <1>3, <1>4 DEF RowsOfReached, Reached, Untouched, ReconDone, ReconOver, Written
<1>9. SawKnows'
  <2>1. run # "COMPLETED" \/ Scans = {} \/ races \cap {"early", "raised"} # {}
    BY <1>1, <1>4 DEF SawKnows, ReconCut, ReconDone, ReconOver, Written
  <2>2. \A j \in Scans : ~saw'[j]
    BY <1>1, <1>4 DEF SawKnows
  <2>3. Scheduling'
    BY <1>1 DEF Scheduling, ReconPcs
  <2>4. ~Deciding(0)'
    BY <1>1 DEF Deciding
  <2>5. run # "COMPLETED" \/ races \cap {"early", "raised"} # {}
    BY <1>1 DEF SawKnows, ReconCut, ReconDone, ReconOver, Written
  <2> QED BY <1>1, <2>2, <2>3, <2>4, <2>5 DEF SawKnows, Deciding
<1> QED BY <1>5, <1>6, <1>7, <1>8, <1>9

LEMMA StepsOfPlan ==
    ASSUME plan \in Plans, pos \in Scans
    PROVE  /\ pos \in 0 .. Len(plan) + 1 /\ pos + 1 \in 0 .. Len(plan) + 1
           /\ \A j \in Scans : (j < pos + 1 <=> j <= pos) /\ (j <= pos <=> j < pos \/ j = pos)
           /\ \A j \in Scans : (j >= pos + 1 <=> j > pos) /\ (j > pos <=> j >= pos /\ j # pos)
           /\ NextStep \in {"advance", "final"}
           /\ NextStep = "advance" => pos + 1 \in Scans
           /\ NextStep = "final" => \A j \in Scans : j <= pos
  BY PlanHasJobs DEF Scans, NextStep

LEMMA AddInv == RunInv /\ AddSkippedRow => RunInv'
<1> SUFFICES ASSUME RunInv, AddSkippedRow PROVE RunInv'
  OBVIOUS
<1> USE PlanHasJobs DEF RunInv, TypeOK
<1>0. plan' = plan /\ Jobs' = Jobs /\ Scans' = Scans
  BY DEF AddSkippedRow, Jobs, Scans
<1>1. pos \in Scans /\ pos \in Jobs /\ pos # 0 /\ exec[0] = "COMPLETED"
  BY DEF AddSkippedRow, HookKnows, ReconFirst, Scheduling, ReconPcs
<1>2. /\ hook[0] = "advance" /\ hook' = [hook EXCEPT ![0] = NextStep] /\ pos' = pos + 1
      /\ dirty' = dirty \cup {pos} /\ locked' \in BOOLEAN
      /\ exec' = exec \/ exec' = [exec EXCEPT ![pos] = "SKIPPED"]
      /\ UNCHANGED <<run, node, skips, correlated, ended, saw, cohort, assessment, held, starting, retrying,
                     cancels, retries, cuts, lost, races>>
  BY DEF AddSkippedRow, rowVars, managerVars, userVars, history
<1>3. TypeOK'
  BY <1>0, <1>1, <1>2, StepsOfPlan DEF TypeOK, HookPcs, ReconPcs, Terminal
<1>4. HookKnows'
  BY <1>0, <1>1, <1>2, StepsOfPlan DEF HookKnows
<1>5. CohortInv'
  <2>1. \A j \in Jobs : hook'[j] = "settle" => hook[j] = "settle"
    BY <1>1, <1>2, StepsOfPlan
  <2> QED BY <1>0, <1>1, <1>2, <2>1 DEF CohortInv, CohortKeepsRunning
<1>6. ReconFirst'
  BY <1>0, <1>1, <1>2, StepsOfPlan DEF ReconFirst, Scheduling, ReconPcs
<1>7. RowsOfReached'
  BY <1>0, <1>1, <1>2, StepsOfPlan DEF RowsOfReached, Reached, Untouched, ReconDone, ReconOver, Written
<1>8. SawKnows'
  <2>1. ~ReconOver /\ ~ReconCut /\ ~Deciding(0) /\ ~Deciding(0)' /\ Scheduling'
    BY <1>1, <1>2, StepsOfPlan DEF ReconOver, ReconCut, ReconDone, Written, Deciding, Scheduling, ReconPcs
  <2>2. \A j \in Scans : hook'[j] = hook[j]
    BY <1>2
  <2>3. \A j \in Scans : Deciding(j)' <=> Deciding(j)
    BY <1>2, <2>2 DEF Deciding
  <2> QED BY <1>0, <1>2, <2>1, <2>2, <2>3 DEF SawKnows
<1> QED BY <1>3, <1>4, <1>5, <1>6, <1>7, <1>8

(* What a commit of the recon hook shows.                                  *)
LEMMA CommittedRows ==
    ASSUME RunInv, ended[0] # "NONE", NEW rows \in [Jobs -> {"ABSENT", "WAITING"} \cup NodeTerminal]
    PROVE  /\ Committed(rows) \in [Jobs -> {"ABSENT", "WAITING"} \cup NodeTerminal]
           /\ Committed(rows)[0] \in NodeTerminal
           /\ \A j \in Scans : Committed(rows)[j] = IF j \in dirty THEN "SKIPPED" ELSE rows[j]
<1> USE PlanHasJobs DEF RunInv, TypeOK
<1>1. MapStatus(ended[0]) \in NodeTerminal
  BY RowOfEnded
<1> QED BY <1>1 DEF Committed, NodeTerminal

LEMMA PlanInv == RunInv /\ PlanFollowUp => RunInv'
<1> SUFFICES ASSUME RunInv, PlanFollowUp PROVE RunInv'
  OBVIOUS
<1> USE PlanHasJobs DEF RunInv, TypeOK
<1>0. plan' = plan /\ Jobs' = Jobs /\ Scans' = Scans
  BY DEF PlanFollowUp, Jobs, Scans
<1>1. pos \in Scans /\ pos \in Jobs /\ pos # 0 /\ exec[0] = "COMPLETED" /\ ended[0] # "NONE"
  BY DEF PlanFollowUp, HookKnows, ReconFirst, Scheduling, ReconPcs
<1>2. /\ hook[0] = "advance" /\ hook' = [hook EXCEPT ![0] = "enqueue"]
      /\ exec' = [exec EXCEPT ![pos] = "PENDING"]
      /\ node' = Committed([node EXCEPT ![pos] = "WAITING"])
      /\ dirty' = {} /\ locked' = FALSE
      /\ UNCHANGED <<run, skips, correlated, ended, saw, pos, cohort, assessment, held, starting, retrying,
                     cancels, retries, cuts, lost, races>>
  BY DEF PlanFollowUp, managerVars, userVars, rowsButNode, history
<1>3. /\ node' \in [Jobs -> {"ABSENT", "WAITING"} \cup NodeTerminal] /\ node'[0] \in NodeTerminal
      /\ \A j \in Scans : node'[j] = IF j \in dirty THEN "SKIPPED"
                                     ELSE IF j = pos THEN "WAITING" ELSE node[j]
  <2>1. [node EXCEPT ![pos] = "WAITING"] \in [Jobs -> {"ABSENT", "WAITING"} \cup NodeTerminal]
    BY <1>1
  <2> QED BY <1>1, <1>2, <2>1, CommittedRows
<1>4. TypeOK'
  BY <1>0, <1>1, <1>2, <1>3 DEF TypeOK, HookPcs, ReconPcs, Active
<1>5. HookKnows'
  BY <1>0, <1>1, <1>2 DEF HookKnows
<1>6. CohortInv'
  BY <1>0, <1>1, <1>2 DEF CohortInv, CohortKeepsRunning
<1>7. ReconFirst'
  BY <1>0, <1>1, <1>2, <1>3 DEF ReconFirst, Scheduling, ReconPcs
<1>8. RowsOfReached'
  <2>1. \A j \in Scans : Reached(j)' <=> j <= pos
    BY <1>0, <1>1, <1>2 DEF Reached, ReconDone, ReconOver, Written
  <2>2. \A j \in Scans : Reached(j) <=> j < pos
    BY <1>0, <1>1, <1>2 DEF Reached, ReconDone, ReconOver, Written
  <2>3. \A j \in Scans : Untouched(j)' <=> j > pos
    BY <1>0, <1>1, <1>2 DEF Untouched
  <2>4. \A j \in Scans : Untouched(j) <=> j >= pos
    BY <1>0, <1>1, <1>2 DEF Untouched
  <2>5. hook'[0] = "enqueue" /\ \A j \in Scans : hook'[j] = hook[j]
    BY <1>2
  <2>6. \A j \in Scans : node'[j] = "ABSENT" => node[j] = "ABSENT" /\ j \notin dirty
    BY <1>3
  <2>7. \A j \in Scans : Reached(j)' => node'[j] # "ABSENT"
    BY <1>3, <2>1, <2>2, <2>6, StepsOfPlan DEF RowsOfReached
  <2>8. \A j \in Scans : Untouched(j)' => Untouched(j) /\ j # pos
    BY <1>1, <2>3, <2>4, StepsOfPlan
  <2>9. \A j \in Scans : Untouched(j)' => node'[j] = "ABSENT" /\ exec'[j] = "NONE" /\ hook'[j] = "idle"
    <3> SUFFICES ASSUME NEW j \in Scans, Untouched(j)'
                 PROVE  node'[j] = "ABSENT" /\ exec'[j] = "NONE" /\ hook'[j] = "idle"
      OBVIOUS
    <3>1. j # pos /\ node[j] = "ABSENT" /\ exec[j] = "NONE" /\ hook[j] = "idle" /\ j \notin dirty
      BY <2>8 DEF RowsOfReached
    <3> QED BY <1>1, <1>2, <1>3, <2>5, <3>1
  <2> QED BY <1>0, <1>2, <2>7, <2>9 DEF RowsOfReached
<1>9. SawKnows'
  <2>1. ~ReconOver /\ ~ReconCut /\ ~Deciding(0) /\ ~Deciding(0)' /\ Scheduling'
    BY <1>1, <1>2 DEF ReconOver, ReconCut, ReconDone, Written, Deciding, Scheduling, ReconPcs
  <2>2. \A j \in Scans : hook'[j] = hook[j] /\ (Deciding(j)' <=> Deciding(j))
    BY <1>2 DEF Deciding
  <2> QED BY <1>0, <1>2, <2>1, <2>2 DEF SawKnows
<1> QED BY <1>4, <1>5, <1>6, <1>7, <1>8, <1>9

LEMMA EnqueueInv == RunInv /\ EnqueueFollowUp => RunInv'
<1> SUFFICES ASSUME RunInv, EnqueueFollowUp PROVE RunInv'
  OBVIOUS
<1> USE PlanHasJobs DEF RunInv, TypeOK
<1>0. plan' = plan /\ Jobs' = Jobs /\ Scans' = Scans
  BY DEF EnqueueFollowUp, Jobs, Scans
<1>1. pos \in Scans /\ pos \in Jobs /\ pos # 0 /\ exec[0] = "COMPLETED"
  BY DEF EnqueueFollowUp, HookKnows, ReconFirst, Scheduling, ReconPcs
<1>2. /\ hook[0] = "mark" /\ hook' = [hook EXCEPT ![0] = NextStep] /\ pos' = pos + 1
      /\ exec' = [exec EXCEPT ![pos] = "QUEUED"] /\ assessment' = "RUNNING" /\ held' \subseteq Jobs
      /\ UNCHANGED <<run, node, skips, correlated, ended, saw, dirty, locked, cohort, starting, retrying,
                     cancels, retries, cuts, lost, races>>
  BY <1>1 DEF EnqueueFollowUp, MarkQueued, rowVars, userVars, history
<1>3. TypeOK'
  BY <1>0, <1>1, <1>2, StepsOfPlan DEF TypeOK, HookPcs, ReconPcs, Active
<1>4. HookKnows'
  BY <1>0, <1>1, <1>2, StepsOfPlan DEF HookKnows
<1>5. CohortInv'
  <2>1. \A j \in Jobs : hook'[j] = "settle" => hook[j] = "settle"
    BY <1>1, <1>2, StepsOfPlan
  <2> QED BY <1>0, <1>2, <2>1 DEF CohortInv, CohortKeepsRunning
<1>6. ReconFirst'
  BY <1>0, <1>1, <1>2, StepsOfPlan DEF ReconFirst, Scheduling, ReconPcs
<1>7. RowsOfReached'
  BY <1>0, <1>1, <1>2, StepsOfPlan DEF RowsOfReached, Reached, Untouched, ReconDone, ReconOver, Written
<1>8. SawKnows'
  <2>1. ~ReconOver /\ ~ReconCut /\ ~Deciding(0) /\ ~Deciding(0)' /\ Scheduling'
    BY <1>1, <1>2, StepsOfPlan DEF ReconOver, ReconCut, ReconDone, Written, Deciding, Scheduling, ReconPcs
  <2>2. \A j \in Scans : hook'[j] = hook[j]
    BY <1>2
  <2>3. \A j \in Scans : Deciding(j)' <=> Deciding(j)
    BY <1>2, <2>2 DEF Deciding
  <2> QED BY <1>0, <1>2, <2>1, <2>2, <2>3 DEF SawKnows
<1> QED BY <1>3, <1>4, <1>5, <1>6, <1>7, <1>8

LEMMA RaisesInv == RunInv /\ ReconRaises => RunInv'
<1> SUFFICES ASSUME RunInv, ReconRaises PROVE RunInv'
  OBVIOUS
<1> USE PlanHasJobs DEF RunInv, TypeOK
<1>1. /\ plan' = plan /\ Jobs' = Jobs /\ Scans' = Scans
      /\ hook[0] \in ReconPcs /\ hook' = [hook EXCEPT ![0] = "commit"] /\ saw' = [saw EXCEPT ![0] = FALSE]
      /\ races' = races \cup {"raised"}
      /\ UNCHANGED <<run, node, skips, correlated, exec, ended, pos, dirty, locked, cohort, assessment, held,
                     starting, retrying, cancels, retries, cuts>>
  BY DEF ReconRaises, rowVars, managerVars, userVars, Jobs, Scans
<1>2. exec[0] = "COMPLETED"
  BY <1>1 DEF ReconFirst, Scheduling
<1>3. lost' \subseteq Jobs
  BY DEF ReconRaises, HookKnows
<1>4. TypeOK'
  BY <1>1, <1>3 DEF TypeOK, HookPcs, ReconPcs, Races
<1>5. HookKnows' /\ CohortInv'
  BY <1>1 DEF HookKnows, CohortInv, CohortKeepsRunning, ReconPcs
<1>6. ReconFirst'
  BY <1>1, <1>2 DEF ReconFirst, Scheduling
<1>7. RowsOfReached'
  BY <1>1, <1>2 DEF RowsOfReached, Reached, Untouched, ReconDone, ReconOver, Written
<1>8. SawKnows'
  <2>1. \A j \in Scans : saw'[j] = saw[j] /\ hook'[j] = hook[j]
    BY <1>1
  <2>2. ~saw'[0]
    BY <1>1
  <2> QED BY <1>1, <2>1, <2>2 DEF SawKnows
<1> QED BY <1>4, <1>5, <1>6, <1>7, <1>8

LEMMA DecideInv == RunInv /\ ReconReadsRows => RunInv'
<1> SUFFICES ASSUME RunInv, ReconReadsRows PROVE RunInv'
  OBVIOUS
<1> USE PlanHasJobs DEF RunInv, TypeOK
<1> DEFINE all == Committed(node)
<1>0. plan' = plan /\ Jobs' = Jobs /\ Scans' = Scans
  BY DEF ReconReadsRows, Jobs, Scans
<1>1. /\ hook[0] = "final" /\ hook' = [hook EXCEPT ![0] = "commit"] /\ locked' \in BOOLEAN
      /\ saw' = [saw EXCEPT ![0] = /\ saw[0]
                                   /\ \E j \in Scans : all[j] # "ABSENT"
                                   /\ \A j \in Scans : all[j] # "WAITING"]
      /\ UNCHANGED <<run, node, skips, correlated, exec, ended, pos, dirty, cohort, assessment, held, starting,
                     retrying, cancels, retries, cuts, lost, races>>
  BY DEF ReconReadsRows, rowVars, managerVars, userVars, history
<1>2. exec[0] = "COMPLETED" /\ ended[0] # "NONE"
  BY <1>1 DEF ReconFirst, Scheduling, ReconPcs
<1>3. /\ saw' \in [Jobs -> BOOLEAN] /\ \A j \in Scans : saw'[j] = saw[j]
      /\ saw'[0] => saw[0] /\ \A j \in Scans : all[j] # "WAITING"
  BY <1>1
<1>4. \A j \in Scans : all[j] = IF j \in dirty THEN "SKIPPED" ELSE node[j]
  BY <1>2, CommittedRows
<1>5. "raised" \notin races => \A j \in Scans : all[j] # "WAITING" => j \in dirty \/ node[j] \in NodeTerminal
  BY <1>1, <1>4 DEF RowsOfReached, Reached
<1> HIDE DEF all
<1>6. TypeOK'
  BY <1>0, <1>1, <1>3 DEF TypeOK, HookPcs, ReconPcs
<1>7. HookKnows' /\ CohortInv'
  BY <1>0, <1>1 DEF HookKnows, CohortInv, CohortKeepsRunning
<1>8. ReconFirst'
  BY <1>0, <1>1, <1>2, <1>3 DEF ReconFirst, Scheduling
<1>9. RowsOfReached'
  BY <1>0, <1>1, <1>2 DEF RowsOfReached, Reached, Untouched, ReconDone, ReconOver, Written
<1>10. SawKnows'
  <2>1. ~ReconOver /\ ~ReconCut /\ ~ReconOver' /\ Scheduling'
    BY <1>1 DEF ReconOver, ReconCut, ReconDone, Written, Scheduling
  <2>2. \A j \in Scans : hook'[j] = hook[j] /\ (Deciding(j)' <=> Deciding(j))
    BY <1>1, <1>3 DEF Deciding
  <2>3. Deciding(0)' => saw'[0]
    BY DEF Deciding
  <2> QED BY <1>0, <1>1, <1>3, <1>5, <2>1, <2>2, <2>3 DEF SawKnows
<1> QED BY <1>6, <1>7, <1>8, <1>9, <1>10

LEMMA ReconCommitsInv == RunInv /\ ReconCommits => RunInv'
<1> SUFFICES ASSUME RunInv, ReconCommits PROVE RunInv'
  OBVIOUS
<1> USE PlanHasJobs DEF RunInv, TypeOK
<1>0. plan' = plan /\ Jobs' = Jobs /\ Scans' = Scans
  BY DEF ReconCommits, Jobs, Scans
<1>1. /\ hook[0] = "commit" /\ hook' = [hook EXCEPT ![0] = "cohort"]
      /\ node' = Committed(node) /\ dirty' = {} /\ locked' = FALSE
      /\ saw' = [saw EXCEPT ![0] = FALSE] /\ lost' = lost \ {0}
      /\ UNCHANGED <<exec, ended, pos, cohort, assessment, held, starting, retrying, cancels, retries, cuts>>
  BY DEF ReconCommits, Returns, managerVars, userVars
<1>2. /\ races' \in {races, races \cup {"fault"}} /\ races' \subseteq Races
      /\ run' = run \/ (run' = "COMPLETED" /\ saw[0])
      /\ skips' = skips /\ correlated' \in Nat
  BY RunOfCorrelation DEF ReconCommits
<1>3. exec[0] = "COMPLETED" /\ ended[0] # "NONE"
  BY <1>1 DEF ReconFirst, Scheduling
<1>4. /\ node' \in [Jobs -> {"ABSENT", "WAITING"} \cup NodeTerminal] /\ node'[0] \in NodeTerminal
      /\ \A j \in Scans : node'[j] = IF j \in dirty THEN "SKIPPED" ELSE node[j]
  BY <1>1, <1>3, CommittedRows
<1>5. TypeOK'
  BY <1>0, <1>1, <1>2, <1>4 DEF TypeOK, HookPcs, ReconPcs
<1>6. HookKnows' /\ CohortInv'
  BY <1>0, <1>1, <1>2 DEF HookKnows, CohortInv, CohortKeepsRunning
<1>7. ReconFirst'
  BY <1>0, <1>1, <1>2, <1>3 DEF ReconFirst, Scheduling, ReconPcs
<1>8. RowsOfReached'
  <2>1. \A j \in Scans : "raised" \notin races' => Reached(j)
    BY <1>1, <1>2 DEF Reached
  <2>2. \A j \in Scans : ~Untouched(j)' /\ (Reached(j)' => "raised" \notin races')
    BY <1>1, <1>3 DEF Untouched, Reached
  <2> QED BY <1>0, <1>1, <1>4, <2>1, <2>2 DEF RowsOfReached
<1>9. SawKnows'
  <2>1. ~ReconCut /\ ReconOver' /\ ~ReconOver
    BY <1>1 DEF ReconCut, ReconDone, ReconOver, Written
  <2>2. \A j \in Scans : hook'[j] = hook[j] /\ saw'[j] = saw[j] /\ (Deciding(j)' <=> Deciding(j))
    BY <1>1 DEF Deciding
  <2>3. ~saw'[0] /\ ~Deciding(0)' /\ (saw[0] => Deciding(0))
    BY <1>1 DEF Deciding
  <2>4. \A j \in Scans : j \in dirty \/ node[j] \in NodeTerminal => node'[j] \in NodeTerminal
    BY <1>4 DEF NodeTerminal
  <2>5. races' \cap {"early", "raised"} = races \cap {"early", "raised"}
    BY <1>2
  <2> QED BY <1>0, <1>2, <2>1, <2>2, <2>3, <2>4, <2>5 DEF SawKnows
<1> QED BY <1>5, <1>6, <1>7, <1>8, <1>9

-----------------------------------------------------------------------------
(* What a rollback leaves of the jobs.                                     *)
LEMMA RolledBackJobs ==
    ASSUME RunInv
    PROVE  /\ RolledBack(exec) \in [Jobs -> {"NONE"} \cup Active \cup Terminal]
           /\ RolledBack(exec)[0] = exec[0]
           /\ \A j \in Jobs : RolledBack(exec)[j] = IF j \in dirty THEN "NONE" ELSE exec[j]
  BY PlanHasJobs DEF RunInv, TypeOK, RolledBack

LEMMA HookIsCutInv == ASSUME RunInv, NEW i \in Jobs, HookIsCut(i) PROVE RunInv'
<1> USE PlanHasJobs DEF RunInv, TypeOK
<1>0. /\ plan' = plan /\ Jobs' = Jobs /\ Scans' = Scans
      /\ UNCHANGED <<run, node, skips, correlated, ended, pos, cohort, held, starting, retrying, cancels, retries,
                     races>>
      /\ hook' = [hook EXCEPT ![i] = "idle"] /\ saw' = [saw EXCEPT ![i] = FALSE]
      /\ hook[i] # "idle" /\ lost \subseteq lost'
      /\ hook[i] \notin Written => i \in lost'
      /\ i # 0 => UNCHANGED <<dirty, locked, exec, assessment>>
  BY DEF HookIsCut, Jobs, Scans, rowVars
<1>1. lost' \subseteq Jobs /\ cuts' \in 0 .. MaxCuts
  <2>1. cuts + 1 \in 0 .. MaxCuts
    BY BoundsAssumption DEF HookIsCut
  <2>2. hook[i] \in {"enqueue", "mark"} => pos \in Jobs
    BY DEF HookKnows, ReconPcs
  <2> QED BY <2>1, <2>2 DEF HookIsCut
<1>2. ASSUME i = 0
      PROVE  /\ dirty' = {} /\ locked' = FALSE
             /\ \/ exec' = RolledBack(exec) /\ assessment' = assessment
                \/ /\ hook[0] = "mark" /\ pos \in Scans /\ exec' = [exec EXCEPT ![pos] = "QUEUED"]
                   /\ assessment' = "RUNNING"
  BY <1>2 DEF HookIsCut, MarkQueued, HookKnows
<1>3. /\ exec' \in [Jobs -> {"NONE"} \cup Active \cup Terminal] /\ exec'[0] = exec[0]
      /\ assessment' \in {assessment, "RUNNING"} /\ dirty' \subseteq dirty
      /\ \A j \in Jobs : exec'[j] \in {"NONE", exec[j]} \/ (assessment' = "RUNNING" /\ hook[0] = "mark" /\ j = pos)
  <2>1. CASE i = 0
    BY <1>2, <2>1, RolledBackJobs DEF Active
  <2>2. CASE i # 0
    BY <1>0, <2>2
  <2> QED BY <2>1, <2>2
<1>4. TypeOK'
  <2>1. locked' \in BOOLEAN
    BY <1>0, <1>2
  <2> QED BY <1>0, <1>1, <1>3, <2>1 DEF TypeOK, HookPcs, ReconPcs
<1>5. HookKnows'
  BY <1>0 DEF HookKnows
<1>6. CohortInv'
  <2>1. \A j \in Jobs : hook'[j] = "settle" => hook[j] = "settle"
    BY <1>0
  <2>2. \A j \in Jobs : exec'[j] \in {"QUEUED", "RUNNING"} => assessment' = "RUNNING" \/ exec[j] = exec'[j]
    BY <1>3
  <2> QED BY <1>0, <1>3, <2>1, <2>2 DEF CohortInv, CohortKeepsRunning
<1>7. ReconFirst'
  <2>1. hook[0] = "mark" => exec[0] = "COMPLETED"
    BY DEF ReconFirst, Scheduling, ReconPcs
  <2>2. Scheduling' => Scheduling
    BY <1>0 DEF Scheduling, ReconPcs
  <2>3. \A j \in Jobs : saw'[j] => saw[j]
    BY <1>0
  <2>4. \A j \in Scans : exec'[j] # "NONE" \/ hook'[j] # "idle" => exec[0] = "COMPLETED"
    BY <1>0, <1>3, <2>1 DEF ReconFirst
  <2> QED BY <1>0, <1>3, <2>2, <2>3, <2>4 DEF ReconFirst
<1>8. RowsOfReached'
  <2>1. CASE i = 0
    <3>1. \A j \in Scans : Untouched(j)' => Untouched(j) /\ exec[0] # "COMPLETED"
      BY <1>0, <1>3, <2>1 DEF Untouched
    <3>2. \A j \in Scans : Reached(j)' => Reached(j) /\ hook[0] \in Written
      BY <1>0, <1>1, <1>3, <2>1 DEF Reached, ReconDone, ReconOver, Written
    <3>3. hook[0] \in Written => dirty = {}
      BY DEF RowsOfReached, ReconOver
    <3>4. ASSUME NEW j \in Scans, Untouched(j)'
          PROVE  node'[j] = "ABSENT" /\ exec'[j] = "NONE" /\ hook'[j] = "idle" /\ j \notin dirty'
      <4>1. exec[0] # "COMPLETED" /\ node[j] = "ABSENT" /\ exec[j] = "NONE" /\ hook[j] = "idle"
        BY <3>1, <3>4 DEF RowsOfReached
      <4>2. hook[0] # "mark"
        BY <4>1 DEF ReconFirst, Scheduling, ReconPcs
      <4> QED BY <1>0, <1>2, <1>3, <2>1, <4>1, <4>2
    <3> QED BY <1>0, <1>2, <2>1, <3>2, <3>3, <3>4 DEF RowsOfReached
  <2>2. CASE i # 0
    BY <1>0, <1>1, <2>2 DEF RowsOfReached, Reached, Untouched, ReconDone, ReconOver
  <2> QED BY <2>1, <2>2
<1>9. SawKnows'
  <2>1. /\ \A j \in Jobs : saw'[j] => saw[j] /\ j # i /\ hook'[j] = hook[j]
        /\ \A j \in Jobs : Deciding(j)' => Deciding(j)
    BY <1>0 DEF Deciding
  <2>2. ~ReconCut' => ~ReconCut
    BY <1>0, <1>3 DEF ReconCut, ReconDone, ReconOver, Written
  <2>3. Scheduling /\ i # 0 => Scheduling'
    BY <1>0 DEF Scheduling
  <2>4. ReconOver => ReconOver'
    BY <1>0 DEF ReconOver, Written
  <2>5. Deciding(0)' => i # 0 /\ dirty' = dirty
    BY <1>0 DEF Deciding
  <2> QED BY <1>0, <2>1, <2>2, <2>3, <2>4, <2>5 DEF SawKnows
<1> QED BY <1>4, <1>5, <1>6, <1>7, <1>8, <1>9

LEMMA RestartInv == RunInv /\ Restart => RunInv'
<1> SUFFICES ASSUME RunInv, Restart PROVE RunInv'
  OBVIOUS
<1> USE PlanHasJobs DEF RunInv, TypeOK
<1>0. /\ plan' = plan /\ Jobs' = Jobs /\ Scans' = Scans
      /\ UNCHANGED <<run, node, skips, correlated, ended, pos, assessment, cancels, retries, races>>
      /\ run # "NONE" /\ cuts' \in 0 .. MaxCuts
      /\ hook' = [i \in Jobs |-> "idle"] /\ saw' = [i \in Jobs |-> FALSE]
      /\ dirty' = {} /\ locked' = FALSE /\ exec' = RolledBack(exec)
      /\ cohort' = {} /\ held' = {} /\ retrying' = {} /\ starting' = "done"
      /\ lost \subseteq lost' /\ lost' \subseteq Jobs
      /\ \A i \in Jobs : hook[i] \notin Written => i \in lost'
  <2>1. cuts + 1 \in 0 .. MaxCuts
    BY BoundsAssumption DEF Restart
  <2> QED BY <2>1 DEF Restart, Jobs, Scans, rowVars
<1>1. /\ exec' \in [Jobs -> {"NONE"} \cup Active \cup Terminal] /\ exec'[0] = exec[0]
      /\ \A j \in Jobs : exec'[j] \in {"NONE", exec[j]}
  BY <1>0, RolledBackJobs
<1>2. TypeOK'
  BY <1>0, <1>1 DEF TypeOK, HookPcs, ReconPcs
<1>3. HookKnows' /\ CohortInv'
  BY <1>0 DEF HookKnows, CohortInv, CohortKeepsRunning
<1>4. ReconFirst'
  BY <1>0, <1>1 DEF ReconFirst, Scheduling, ReconPcs
<1>5. RowsOfReached'
  <2>1. \A j \in Scans : Untouched(j)' => Untouched(j)
    BY <1>0, <1>1 DEF Untouched
  <2>2. \A j \in Scans : Reached(j)' => Reached(j) /\ hook[0] \in Written
    BY <1>0, <1>1 DEF Reached, ReconDone, ReconOver, Written
  <2>3. hook[0] \in Written => dirty = {}
    BY DEF RowsOfReached, ReconOver
  <2> QED BY <1>0, <1>1, <2>1, <2>2, <2>3 DEF RowsOfReached
<1>6. SawKnows'
  <2>1. ~ReconCut' => ~ReconCut
    BY <1>0, <1>1 DEF ReconCut, ReconDone, ReconOver, Written
  <2>2. ReconOver'
    BY <1>0 DEF ReconOver, Written
  <2> QED BY <1>0, <2>1, <2>2 DEF SawKnows, Deciding
<1> QED BY <1>2, <1>3, <1>4, <1>5, <1>6

-----------------------------------------------------------------------------
LEMMA RunInvHolds == Spec => []RunInv
<1>1. RunInv /\ [Next]_vars => RunInv'
  <2> SUFFICES ASSUME RunInv, [Next]_vars PROVE RunInv'
    OBVIOUS
  <2>1. 0 \in Jobs /\ Scans \subseteq Jobs
    BY PlanHasJobs DEF RunInv, TypeOK
  <2>2. CASE Starting \/ StartIsCut
    BY <2>1, <2>2, StartInv, MarkReconInv, JoinInv DEF Starting
  <2>3. CASE ReconHook
    BY <2>1, <2>3, ReconFailsInv, ReconReadsInv, AddInv, PlanInv, JoinInv, EnqueueInv, DecideInv,
       ReconCommitsInv, LeaveInv DEF ReconHook
  <2>4. CASE ReconRaises \/ Restart
    BY <2>4, RaisesInv, RestartInv
  <2>5. CASE \E i \in Jobs : JobNext(i) \/ Request(i) \/ HookIsCut(i)
    BY <2>5, JobInv, EndsInv, JoinInv, HookIsCutInv DEF JobNext, Request
  <2>6. CASE \E i \in Scans : ScanHook(i)
    BY <2>1, <2>6, ScanReadsRunInv, ScanReadsInv, ScanCommitsInv, LeaveInv DEF ScanHook
  <2>7. CASE UNCHANGED vars
    BY <2>7 DEF vars, rowVars, hookVars, managerVars, userVars, history, RunInv, TypeOK, Jobs, Scans,
       HookKnows, ReconFirst, Scheduling, RowsOfReached, Reached, Untouched, ReconDone, ReconOver, ReconCut,
       SawKnows, Deciding, CohortInv, CohortKeepsRunning
  <2> QED BY <2>2, <2>3, <2>4, <2>5, <2>6, <2>7 DEF Next
<1> QED BY <1>1, RunInitInv, PTL DEF Spec

(* The variables of a run keep their types.                                *)
THEOREM RunTypeCorrect == Spec => []TypeOK
<1>1. RunInv => TypeOK
  BY DEF RunInv
<1> QED BY <1>1, RunInvHolds, PTL

(* While a job of the latest cohort is under way the assessment RUNS,      *)
(* unless a job joined while an earlier cohort's end was to be written.    *)
THEOREM CohortsRun == Spec => []CohortKeepsRunning
<1>1. RunInv => CohortKeepsRunning
  BY DEF RunInv, CohortInv
<1> QED BY <1>1, RunInvHolds, PTL

(* A run that is completed has scanned everything, unless a follow-up      *)
(* decided while the recon hook was still scheduling, or that hook did not *)
(* get to the end of its plan.                                             *)
THEOREM CompletedRunsAreDone == Spec => []CompletedRunIsDone
<1>1. RunInv => CompletedRunIsDone
  BY DEF RunInv, SawKnows, ReconCut, CompletedRunIsDone
<1> QED BY <1>1, RunInvHolds, PTL

(* The outcome of a run is final: what is retried, cancelled or cut short  *)
(* after it changes the rows of the jobs only.                             *)
THEOREM OutcomesAreFinal == Spec => OutcomeIsFinal
<1>1. RunInv /\ [Next]_vars => [(run \in {"COMPLETED", "FAILED"}) => run' = run]_vars
  <2> SUFFICES ASSUME RunInv, Next, run \in {"COMPLETED", "FAILED"} PROVE run' = run
    BY DEF vars, rowVars
  <2> USE PlanHasJobs DEF RunInv, TypeOK
  <2>1. CASE Starting \/ StartIsCut \/ ReconRaises \/ Restart
    BY <2>1 DEF Starting, Start, StartJoins, StartMarks, StartIsCut, ReconRaises, Restart, rowVars
  <2>2. CASE ReconFails
    BY <2>2 DEF ReconFails, ReconFirst
  <2>3. CASE ReconCommits
    BY <2>3 DEF ReconCommits, ReconFirst, CorrelateRun, CompleteRun, rowsButNode
  <2>4. CASE ReconHook /\ ~ReconFails /\ ~ReconCommits
    BY <2>4 DEF ReconHook, ReconReads, AddSkippedRow, PlanFollowUp, JoinFollowUp, EnqueueFollowUp,
                ReconReadsRows, LeaveCohort, Settle, rowVars, rowsButNode
  <2>5. CASE \E i \in Jobs : JobNext(i) \/ Request(i) \/ HookIsCut(i)
    BY <2>5 DEF JobNext, JobStarts, JobDropped, JobEnds, RetryJoins, Request, Cancel, RetryMarks, Ends,
                HookIsCut, rowVars
  <2>6. ASSUME NEW i \in Scans, ScanHook(i) PROVE run' = run
    <3>1. saw[i] => run = "COMPLETED"
      BY DEF ReconFirst
    <3> QED BY <2>6, <3>1 DEF ScanHook, ScanHookReadsRun, ScanHookReadsRows, ScanHookCommits, LeaveCohort,
                              Settle, CorrelateRun, CompleteRun, rowsButNode, rowVars
  <2> QED BY <2>1, <2>2, <2>3, <2>4, <2>5, <2>6 DEF Next
<1> QED BY <1>1, RunInvHolds, PTL DEF Spec, OutcomeIsFinal

-----------------------------------------------------------------------------
(* How the rows relate to the ends of the jobs.                            *)

(* A follow-up that was cancelled and retried before enqueue() got to it is *)
(* queued twice.                                                            *)
Redone == cancels > 0 /\ retries > 0

(* A job has ended the way its hook was last told, unless it runs again,   *)
(* and once that hook has committed the stage row says so.                 *)
EndsOfJob(i) ==
    /\ ended[i] = "NONE" => node[i] \in {"ABSENT", "WAITING", "SKIPPED"}
    /\ ended[i] = "NONE" => (exec[i] \in Active <=> node[i] = "WAITING")
    /\ exec[i] \in {"NONE", "SKIPPED"} => ended[i] = "NONE"
    /\ exec[i] \in Terminal => ended[i] = exec[i] \/ exec[i] = "SKIPPED"
    /\ hook[i] \in Written /\ ended[i] # "NONE" /\ i \notin lost => node[i] = MapStatus(ended[i])
    /\ node[i] = "COMPLETED" \/ ended[i] = "COMPLETED" => exec[i] = "COMPLETED" \/ Redone
    /\ exec[i] = "CANCELLED" => cancels > 0

(* What the recon hook has in hand has not run.                            *)
InHand ==
    /\ \A j \in dirty : exec[j] \in {"NONE", "SKIPPED"}
    /\ hook[0] \in {"enqueue", "mark"} =>
        /\ exec[pos] \notin {"NONE", "SKIPPED"}
        /\ exec[pos] \in {"PENDING", "CANCELLED"} \/ Redone

(* A recon job that ended without completing fails the run.                *)
ReconOutcome ==
    /\ exec[0] = "NONE" => run = "NONE"
    /\ exec[0] = "SKIPPED" => run = "FAILED"
    /\ ReconOver /\ ended[0] \notin {"NONE", "COMPLETED"} =>
          run = "FAILED" \/ "raised" \in races \/ 0 \in lost

RowsOfEnds == (\A i \in Jobs : EndsOfJob(i)) /\ InHand /\ ReconOutcome

(* While a run is RUNNING, a row is still to be read by the hook of its    *)
(* job, or a hook has decided to finalize.  A hook that decided not to is  *)
(* not the last: another row waits, whose hook has not read the rows.      *)
Sound == races \cap {"overlap", "fault", "raised"} = {}
UndecidedBut(i) == \E j \in Scans \ {i} : node[j] = "WAITING" /\ hook[j] # "commit"
Undecided == \E j \in Scans : node[j] = "WAITING" /\ hook[j] # "commit"
Decided == \E i \in Scans : Deciding(i)
SomeoneDecides ==
    run = "RUNNING" =>
      /\ hook[0] \in ReconPcs => saw[0]
      /\ \A i \in Scans : hook[i] = "rows" => saw[i]
      /\ Sound =>
           /\ \A i \in Scans : hook[i] = "commit" /\ ~saw[i] => UndecidedBut(i)
           /\ hook[0] = "commit" /\ ~saw[0] =>
                 Scans = {} \/ Undecided \/ Decided \/ lost \cap Scans # {}
           /\ ReconDone => Scans = {} \/ Undecided \/ Decided \/ lost # {}

(* Without cancels and retries a job ends once; one follow-up at most has  *)
(* decided to finalize, and none does once the run is COMPLETED.           *)
Unasked == cancels = 0 /\ retries = 0 /\ "torn" \notin races
Correlators ==
    /\ run # "COMPLETED" => correlated = 0
    /\ Unasked =>
        /\ \A i \in Jobs : exec[i] \in Active => ended[i] = "NONE"
        /\ \A i \in Scans : hook[i] \in {"due", "rows", "commit"} => node[i] = "WAITING"
        /\ \A i, j \in Scans : Deciding(i) /\ Deciding(j) => i = j
        /\ correlated <= IF ReconDone THEN 2 ELSE 1
        /\ Decided => correlated <= IF ReconDone THEN 1 ELSE 0

EndInv == RowsOfEnds /\ SomeoneDecides /\ Correlators

-----------------------------------------------------------------------------
LEMMA StatusOfRow ==
    \A s \in {"NONE"} \cup Active \cup Terminal :
        /\ (MapStatus(s) = "COMPLETED" <=> s = "COMPLETED")
        /\ (MapStatus(s) = "WAITING" <=> s \in {"PENDING", "QUEUED"})
        /\ s \in Terminal => MapStatus(s) \in NodeTerminal /\ MapStatus(s) # "ABSENT"
  BY DEF MapStatus, Active, Terminal, NodeTerminal

LEMMA EndInitInv == Init => EndInv
<1> SUFFICES ASSUME Init PROVE EndInv
  OBVIOUS
<1> USE PlanHasJobs DEF Init
<1>1. \A i \in Jobs : EndsOfJob(i)
  BY DEF EndsOfJob, Active, Terminal
<1>2. InHand /\ ReconOutcome
  BY DEF InHand, ReconOutcome
<1>3. SomeoneDecides
  BY DEF SomeoneDecides
<1>4. Correlators
  BY DEF Correlators, Decided, Deciding, ReconDone, Active
<1> QED BY <1>1, <1>2, <1>3, <1>4 DEF EndInv, RowsOfEnds

LEMMA StartEnds == RunInv /\ EndInv /\ Start => EndInv'
<1> SUFFICES ASSUME RunInv, EndInv, Start PROVE EndInv'
  OBVIOUS
<1> USE PlanHasJobs DEF RunInv, TypeOK
<1>0. plan' = plan /\ Jobs' = Jobs /\ Scans' = Scans
  BY DEF Start, Jobs, Scans
<1>1. /\ run = "NONE" /\ exec[0] = "NONE" /\ node[0] = "ABSENT" /\ ended[0] = "NONE"
      /\ hook[0] = "idle" /\ correlated = 0
  BY DEF Start, ReconFirst, EndInv, RowsOfEnds, EndsOfJob, Correlators
<1>2. PICK n \in {"WAITING", "SKIPPED"}, x \in {"PENDING", "SKIPPED"} :
        /\ node' = [node EXCEPT ![0] = n] /\ exec' = [exec EXCEPT ![0] = x]
        /\ run' = IF x = "PENDING" THEN "RUNNING" ELSE "FAILED"
        /\ n = IF x = "PENDING" THEN "WAITING" ELSE "SKIPPED"
  BY DEF Start
<1>3. UNCHANGED <<plan, skips, correlated, hook, ended, saw, pos, dirty, cancels, retries, lost, races>>
  BY DEF Start, hookVars, userVars, history
<1>4. \A i \in Jobs : EndsOfJob(i)'
  <2> SUFFICES ASSUME NEW i \in Jobs PROVE EndsOfJob(i)'
    BY <1>0
  <2>1. CASE i = 0
    BY <1>1, <1>2, <1>3, <2>1 DEF EndsOfJob, Active, Terminal
  <2>2. CASE i # 0
    BY <1>2, <1>3, <2>2 DEF EndsOfJob, Redone, EndInv, RowsOfEnds
  <2> QED BY <2>1, <2>2
<1>5. InHand'
  BY <1>0, <1>1, <1>2, <1>3 DEF EndInv, RowsOfEnds, InHand
<1>6. ReconOutcome'
  BY <1>1, <1>2, <1>3 DEF ReconOutcome, ReconOver
<1>7. \A j \in Scans : /\ node'[j] = node[j] /\ exec[j] = "NONE" /\ node[j] = "ABSENT" /\ hook[j] = "idle"
                       /\ ~saw[j]
  BY <1>1, <1>2 DEF RowsOfReached, Untouched, ReconFirst
<1>8. SomeoneDecides'
  BY <1>0, <1>1, <1>2, <1>3, <1>7 DEF SomeoneDecides, ReconDone, ReconPcs
<1>9. Correlators'
  <2>1. ~Decided'
    BY <1>0, <1>3, <1>7 DEF Deciding, Decided
  <2>2. \A i \in Jobs : exec'[i] \in Active => ended'[i] = "NONE"
    BY <1>1, <1>2, <1>3, <1>7 DEF EndInv, RowsOfEnds, EndsOfJob, Active
  <2> QED BY <1>0, <1>1, <1>2, <1>3, <1>7, <2>1, <2>2 DEF Correlators, Decided, Deciding
<1> QED BY <1>0, <1>4, <1>5, <1>6, <1>8, <1>9 DEF EndInv, RowsOfEnds

LEMMA MarkReconEnds == RunInv /\ EndInv /\ (StartMarks \/ StartIsCut) => EndInv'
<1> SUFFICES ASSUME RunInv, EndInv, StartMarks \/ StartIsCut PROVE EndInv'
  OBVIOUS
<1> USE PlanHasJobs DEF RunInv, TypeOK
<1>0. plan' = plan /\ Jobs' = Jobs /\ Scans' = Scans
  BY DEF StartMarks, StartIsCut, Jobs, Scans
<1>1. /\ starting \in {"enqueue", "mark"}
      /\ exec' = [exec EXCEPT ![0] = "QUEUED"] \/ exec' = exec
      /\ lost \subseteq lost'
      /\ UNCHANGED <<run, node, skips, correlated, hook, ended, saw, pos, dirty, cancels, retries, races>>
  BY DEF StartMarks, StartIsCut, MarkQueued, rowVars, hookVars, userVars, history
<1>2. exec[0] \in {"PENDING", "CANCELLED"} /\ ~Scheduling
  BY <1>1 DEF ReconFirst
<1>3. \A i \in Jobs : EndsOfJob(i)'
  <2> SUFFICES ASSUME NEW i \in Jobs PROVE EndsOfJob(i)'
    BY <1>0
  <2>0. EndsOfJob(i)
    BY DEF EndInv, RowsOfEnds
  <2>1. CASE i = 0
    BY <1>1, <1>2, <2>0, <2>1 DEF EndsOfJob, Active, Terminal, Redone
  <2>2. CASE i # 0
    BY <1>1, <2>0, <2>2 DEF EndsOfJob, Redone
  <2> QED BY <2>1, <2>2
<1>4. InHand'
  BY <1>0, <1>1 DEF EndInv, RowsOfEnds, InHand, Redone, HookKnows
<1>5. ReconOutcome'
  BY <1>1, <1>2 DEF EndInv, RowsOfEnds, ReconOutcome, ReconOver
<1>6. ~ReconDone /\ ~ReconDone' /\ hook[0] \notin ReconPcs \cup {"commit"}
  BY <1>1, <1>2 DEF ReconDone, Scheduling
<1>7. SomeoneDecides'
  BY <1>0, <1>1, <1>6 DEF EndInv, SomeoneDecides, UndecidedBut, Sound
<1>8. Correlators'
  <2>1. cancels = 0 => exec[0] \in Active
    BY <1>2 DEF EndInv, RowsOfEnds, EndsOfJob, Active
  <2>2. Unasked' => \A i \in Jobs : exec'[i] \in Active => ended'[i] = "NONE"
    BY <1>1, <2>1 DEF EndInv, Correlators, Unasked
  <2> QED BY <1>0, <1>1, <1>6, <2>2 DEF EndInv, Correlators, Decided, Deciding, Unasked
<1> QED BY <1>0, <1>3, <1>4, <1>5, <1>7, <1>8 DEF EndInv, RowsOfEnds

LEMMA JoinEnds ==
    ASSUME RunInv, EndInv, NEW i \in Jobs,
           StartJoins \/ JoinFollowUp \/ JobDropped(i) \/ RetryJoins(i)
    PROVE  EndInv'
<1> USE PlanHasJobs DEF RunInv, TypeOK
<1>0. /\ plan' = plan /\ Jobs' = Jobs /\ Scans' = Scans
      /\ UNCHANGED <<run, node, skips, correlated, exec, ended, saw, pos, dirty, cancels, retries, lost>>
      /\ hook' = hook \/ (hook[0] = "enqueue" /\ hook' = [hook EXCEPT ![0] = "mark"])
      /\ races' \in {races, races \cup {"late"}}
  BY DEF StartJoins, JoinFollowUp, JobDropped, RetryJoins, NewCohort, Jobs, Scans, rowVars, hookVars, userVars,
         history
<1>1. /\ ReconOver' <=> ReconOver
      /\ hook'[0] \in ReconPcs <=> hook[0] \in ReconPcs
      /\ hook'[0] = "commit" <=> hook[0] = "commit"
      /\ hook'[0] \in {"enqueue", "mark"} <=> hook[0] \in {"enqueue", "mark"}
      /\ hook'[0] \in Written <=> hook[0] \in Written
  BY <1>0 DEF ReconOver, ReconPcs, Written
<1>2. \A j \in Scans : hook'[j] = hook[j]
  BY <1>0
<1>3. \A j \in Jobs : EndsOfJob(j)'
  BY <1>0, <1>1, <1>2 DEF EndInv, RowsOfEnds, EndsOfJob, Redone
<1>4. InHand' /\ ReconOutcome'
  BY <1>0, <1>1 DEF EndInv, RowsOfEnds, InHand, ReconOutcome, Redone
<1>5. (ReconDone' <=> ReconDone) /\ (Sound' <=> Sound) /\ (Unasked' => Unasked)
  BY <1>0, <1>1 DEF ReconDone, Sound, Unasked
<1>6. /\ \A j \in Scans : (Deciding(j)' <=> Deciding(j)) /\ (UndecidedBut(j)' <=> UndecidedBut(j))
      /\ (Undecided' <=> Undecided) /\ (Decided' <=> Decided)
  BY <1>0, <1>2 DEF Deciding, UndecidedBut, Undecided, Decided
<1>7. SomeoneDecides'
  BY <1>0, <1>1, <1>2, <1>5, <1>6 DEF EndInv, SomeoneDecides
<1>8. Correlators'
  BY <1>0, <1>2, <1>5, <1>6 DEF EndInv, Correlators
<1> QED BY <1>0, <1>3, <1>4, <1>7, <1>8 DEF EndInv, RowsOfEnds

-----------------------------------------------------------------------------
(* A job starts, or is retried: no row changes, and no hook is called.     *)
LEMMA RunsEnds ==
    ASSUME RunInv, EndInv, NEW i \in Jobs, JobStarts(i) \/ RetryMarks(i)
    PROVE  EndInv'
<1> USE PlanHasJobs DEF RunInv, TypeOK
<1>0. /\ plan' = plan /\ Jobs' = Jobs /\ Scans' = Scans
      /\ UNCHANGED <<run, node, skips, correlated, hook, ended, saw, pos, dirty, locked, cancels, lost, races>>
      /\ exec[i] \in {"QUEUED", "FAILED", "CANCELLED"}
      /\ exec[i] # "QUEUED" => retries' = retries + 1
      /\ exec[i] = "QUEUED" => retries' = retries
      /\ exec' = [exec EXCEPT ![i] = exec'[i]] /\ exec'[i] \in {"QUEUED", "RUNNING"}
  BY DEF JobStarts, RetryMarks, MarkQueued, Jobs, Scans, rowVars, hookVars, userVars, history
<1>1. /\ cancels \in Nat /\ retries \in Nat /\ retries' \in Nat /\ retries <= retries'
      /\ retries' = 0 => exec[i] = "QUEUED" /\ retries = 0
      /\ Redone => Redone'
      /\ exec[i] = "CANCELLED" => Redone'
  BY <1>0, BoundsAssumption DEF EndInv, RowsOfEnds, EndsOfJob, Redone
<1>2. \A j \in Jobs : EndsOfJob(j)'
  <2> SUFFICES ASSUME NEW j \in Jobs PROVE EndsOfJob(j)'
    BY <1>0
  <2>0. EndsOfJob(j)
    BY DEF EndInv, RowsOfEnds
  <2>1. CASE j = i
    BY <1>0, <1>1, <2>0, <2>1 DEF EndsOfJob, Active, Terminal
  <2>2. CASE j # i
    BY <1>0, <1>1, <2>0, <2>2 DEF EndsOfJob
  <2> QED BY <2>1, <2>2
<1>3. InHand'
  <2>1. i \notin dirty
    BY <1>0 DEF EndInv, RowsOfEnds, InHand
  <2>2. hook[0] \in {"enqueue", "mark"} => pos \in Jobs
    BY DEF HookKnows
  <2> QED BY <1>0, <1>1, <2>1, <2>2 DEF EndInv, RowsOfEnds, InHand
<1>4. ReconOutcome'
  BY <1>0 DEF EndInv, RowsOfEnds, ReconOutcome, ReconOver
<1>5. ReconDone' <=> ReconDone
  BY <1>0 DEF ReconDone, ReconOver
<1>6. SomeoneDecides'
  BY <1>0, <1>5 DEF EndInv, SomeoneDecides, Undecided, UndecidedBut, Decided, Deciding, Sound
<1>7. Correlators'
  BY <1>0, <1>1, <1>5 DEF EndInv, Correlators, Decided, Deciding, Active, Unasked
<1> QED BY <1>0, <1>2, <1>3, <1>4, <1>6, <1>7 DEF EndInv, RowsOfEnds

(* A job ends, or is cancelled.                                            *)
LEMMA EndsEnds ==
    ASSUME RunInv, EndInv, NEW i \in Jobs, JobEnds(i) \/ Cancel(i)
    PROVE  EndInv'
<1> USE PlanHasJobs DEF RunInv, TypeOK
<1>0. /\ plan' = plan /\ Jobs' = Jobs /\ Scans' = Scans
      /\ UNCHANGED <<run, node, skips, correlated, saw, pos, dirty, locked, retries, lost, races>>
      /\ hook[i] = "idle" /\ hook' = [hook EXCEPT ![i] = "due"]
  BY DEF JobEnds, Cancel, Ends, Jobs, Scans, rowVars, userVars, history
<1>1. PICK outcome \in {"COMPLETED", "FAILED", "CANCELLED"} :
        /\ exec[i] \in Active /\ ended' = [ended EXCEPT ![i] = outcome]
        /\ \/ exec' = [exec EXCEPT ![i] = outcome]
           \/ outcome = "CANCELLED" /\ exec[i] = "QUEUED" /\ exec' = exec
        /\ outcome # "CANCELLED" => exec[i] = "RUNNING" /\ cancels' = cancels
        /\ outcome = "CANCELLED" => cancels' = cancels + 1
  <2>1. CASE JobEnds(i)
    BY <2>1 DEF JobEnds, Ends, userVars, Active
  <2>2. CASE Cancel(i)
    BY <2>2 DEF Cancel, Ends
  <2> QED BY <2>1, <2>2
<1>2. /\ cancels \in Nat /\ retries \in Nat /\ cancels' \in Nat /\ cancels <= cancels'
      /\ cancels' = 0 => outcome # "CANCELLED" /\ cancels = 0
      /\ outcome = "CANCELLED" => cancels' > 0
      /\ Redone => Redone'
  BY <1>0, <1>1, BoundsAssumption DEF Redone
<1>3. \A j \in Jobs : EndsOfJob(j)'
  <2> SUFFICES ASSUME NEW j \in Jobs PROVE EndsOfJob(j)'
    BY <1>0
  <2>0. EndsOfJob(j)
    BY DEF EndInv, RowsOfEnds
  <2>1. CASE j = i
    <3>1. node[i] = "COMPLETED" => Redone
      BY <1>1, <2>0, <2>1 DEF EndsOfJob, Active
    <3>2. hook'[i] = "due" /\ ended'[i] = outcome /\ (exec'[i] = outcome \/ exec'[i] = "QUEUED")
      BY <1>0, <1>1
    <3>3. outcome = "COMPLETED" => exec'[i] = "COMPLETED"
      BY <1>1
    <3> QED BY <1>0, <1>1, <1>2, <2>0, <2>1, <3>1, <3>2, <3>3 DEF EndsOfJob, Written, Terminal
  <2>2. CASE j # i
    BY <1>0, <1>1, <1>2, <2>0, <2>2 DEF EndsOfJob
  <2> QED BY <2>1, <2>2
<1>4. InHand'
  <2>1. i \notin dirty
    BY <1>1 DEF EndInv, RowsOfEnds, InHand, Active
  <2>2. hook[0] \in {"enqueue", "mark"} => pos \in Jobs /\ i # 0
    BY <1>0 DEF HookKnows
  <2>3. hook'[0] \in {"enqueue", "mark"} => hook[0] \in {"enqueue", "mark"}
    BY <1>0
  <2>4. ASSUME hook[0] \in {"enqueue", "mark"}, pos = i
        PROVE  exec'[i] \in {"PENDING", "CANCELLED"} \/ Redone'
    <3>1. exec[i] = "PENDING" \/ Redone
      BY <1>1, <2>4 DEF EndInv, RowsOfEnds, InHand, Active
    <3> QED BY <1>1, <1>2, <3>1
  <2>5. ASSUME hook[0] \in {"enqueue", "mark"}, pos = i PROVE exec'[i] \notin {"NONE", "SKIPPED"}
    BY <1>1, <2>5 DEF Active
  <2> QED BY <1>0, <1>1, <1>2, <2>1, <2>2, <2>3, <2>4, <2>5 DEF EndInv, RowsOfEnds, InHand
<1>5. ReconOutcome'
  BY <1>0, <1>1 DEF EndInv, RowsOfEnds, ReconOutcome, ReconOver, Active, Written
<1>6. /\ ReconDone' <=> ReconDone
      /\ hook'[0] \in ReconPcs <=> hook[0] \in ReconPcs
      /\ hook'[0] = "commit" <=> hook[0] = "commit"
  <2>1. CASE i = 0
    <3>1. exec[0] # "COMPLETED" /\ ~Scheduling
      BY <1>1, <2>1 DEF Active, ReconFirst
    <3> QED BY <1>0, <1>1, <2>1, <3>1 DEF ReconDone, ReconOver, Written, ReconPcs
  <2>2. CASE i # 0
    BY <1>0, <1>1, <2>2 DEF ReconDone, ReconOver
  <2> QED BY <2>1, <2>2
<1>7. /\ \A j \in Scans : (Deciding(j)' <=> Deciding(j)) /\ (UndecidedBut(j)' <=> UndecidedBut(j))
      /\ (Undecided' <=> Undecided) /\ (Decided' <=> Decided)
  BY <1>0 DEF Deciding, UndecidedBut, Undecided, Decided
<1>8. SomeoneDecides'
  <2>1. \A j \in Scans : hook'[j] \in {"rows", "commit"} => hook'[j] = hook[j]
    BY <1>0
  <2> QED BY <1>0, <1>6, <1>7, <2>1 DEF EndInv, SomeoneDecides, Sound
<1>9. Correlators'
  <2>1. Unasked' => Unasked /\ exec[i] = "RUNNING" /\ exec'[i] \notin Active
    BY <1>0, <1>1, <1>2 DEF Unasked, Active
  <2>2. Unasked' /\ i # 0 => node[i] = "WAITING"
    BY <1>1, <2>1 DEF EndInv, RowsOfEnds, EndsOfJob, Correlators
  <2>3. Unasked' => \A j \in Jobs : exec'[j] \in Active => ended'[j] = "NONE"
    BY <1>1, <2>1 DEF EndInv, Correlators
  <2>4. Unasked' => \A j \in Scans : hook'[j] \in {"due", "rows", "commit"} => node'[j] = "WAITING"
    BY <1>0, <2>1, <2>2 DEF EndInv, Correlators
  <2> QED BY <1>0, <1>6, <1>7, <2>1, <2>3, <2>4 DEF EndInv, Correlators
<1> QED BY <1>0, <1>3, <1>4, <1>5, <1>8, <1>9 DEF EndInv, RowsOfEnds

LEMMA LeaveEnds == ASSUME RunInv, EndInv, NEW i \in Jobs, LeaveCohort(i) \/ Settle(i) PROVE EndInv'
<1> USE PlanHasJobs DEF RunInv, TypeOK
<1>0. /\ plan' = plan /\ Jobs' = Jobs /\ Scans' = Scans
      /\ UNCHANGED <<run, node, skips, correlated, exec, ended, saw, pos, dirty, locked, cancels, retries, lost,
                     races>>
      /\ hook[i] \in {"cohort", "settle"}
      /\ hook' = [hook EXCEPT ![i] = hook'[i]] /\ hook'[i] \in {"idle", "settle"}
  BY DEF LeaveCohort, Settle, Jobs, Scans, rowVars, userVars, history
<1>1. \A j \in Jobs : hook'[j] = hook[j] \/ (hook[j] \in Written /\ hook'[j] \in Written)
  BY <1>0 DEF Written
<1>2. \A j \in Jobs : EndsOfJob(j)'
  BY <1>0, <1>1 DEF EndInv, RowsOfEnds, EndsOfJob, Redone
<1>3. /\ ReconOver' <=> ReconOver
      /\ hook'[0] \notin Written => hook'[0] = hook[0]
  BY <1>1 DEF ReconOver
<1>4. InHand' /\ ReconOutcome'
  BY <1>0, <1>3 DEF EndInv, RowsOfEnds, InHand, ReconOutcome, Redone, Written
<1>5. ReconDone' <=> ReconDone
  BY <1>0, <1>3 DEF ReconDone
<1>6. /\ \A j \in Scans : (Deciding(j)' <=> Deciding(j)) /\ (UndecidedBut(j)' <=> UndecidedBut(j))
      /\ (Undecided' <=> Undecided) /\ (Decided' <=> Decided)
  BY <1>0, <1>1 DEF Deciding, UndecidedBut, Undecided, Decided, Written
<1>7. SomeoneDecides'
  <2>1. \A j \in Jobs : hook'[j] \notin Written => hook'[j] = hook[j]
    BY <1>1
  <2> QED BY <1>0, <1>5, <1>6, <2>1 DEF EndInv, SomeoneDecides, Sound, ReconPcs, Written
<1>8. Correlators'
  <2>1. \A j \in Scans : hook'[j] \in {"due", "rows", "commit"} => hook'[j] = hook[j]
    BY <1>1 DEF Written
  <2> QED BY <1>0, <1>5, <1>6, <2>1 DEF EndInv, Correlators, Unasked
<1> QED BY <1>0, <1>2, <1>4, <1>7, <1>8 DEF EndInv, RowsOfEnds

-----------------------------------------------------------------------------
(* The hook of a follow-up reads, and commits.                             *)
LEMMA ScanReadsRunEnds == ASSUME RunInv, EndInv, NEW i \in Scans, ScanHookReadsRun(i) PROVE EndInv'
<1> USE PlanHasJobs DEF RunInv, TypeOK
<1>0. /\ plan' = plan /\ Jobs' = Jobs /\ Scans' = Scans /\ i \in Jobs /\ i # 0
      /\ UNCHANGED <<run, node, skips, correlated, exec, ended, pos, dirty, locked, cancels, retries, lost, races>>
      /\ hook[i] = "due" /\ hook' = [hook EXCEPT ![i] = "rows"]
      /\ saw' = [saw EXCEPT ![i] = (run = "RUNNING")]
  BY DEF ScanHookReadsRun, Jobs, Scans, rowVars, userVars, history
<1>1. \A j \in Jobs : EndsOfJob(j)'
  BY <1>0 DEF EndInv, RowsOfEnds, EndsOfJob, Redone, Written
<1>2. (ReconOver' <=> ReconOver) /\ (ReconDone' <=> ReconDone) /\ hook'[0] = hook[0] /\ saw'[0] = saw[0]
  BY <1>0 DEF ReconOver, ReconDone
<1>3. InHand' /\ ReconOutcome'
  BY <1>0, <1>2 DEF EndInv, RowsOfEnds, InHand, ReconOutcome, Redone
<1>4. /\ \A j \in Scans : (Deciding(j)' <=> Deciding(j)) /\ (UndecidedBut(j)' <=> UndecidedBut(j))
      /\ (Undecided' <=> Undecided) /\ (Decided' <=> Decided)
  BY <1>0 DEF Deciding, UndecidedBut, Undecided, Decided
<1>5. SomeoneDecides'
  <2>1. \A j \in Scans : hook'[j] = "commit" => hook[j] = "commit" /\ saw'[j] = saw[j]
    BY <1>0
  <2>2. run = "RUNNING" => \A j \in Scans : hook'[j] = "rows" => saw'[j]
    BY <1>0 DEF EndInv, SomeoneDecides
  <2> QED BY <1>0, <1>2, <1>4, <2>1, <2>2 DEF EndInv, SomeoneDecides, Sound
<1>6. Correlators'
  BY <1>0, <1>2, <1>4 DEF EndInv, Correlators, Unasked
<1> QED BY <1>0, <1>1, <1>3, <1>5, <1>6 DEF EndInv, RowsOfEnds

LEMMA ScanReadsEnds == ASSUME RunInv, EndInv, NEW i \in Scans, ScanHookReadsRows(i) PROVE EndInv'
<1> USE PlanHasJobs DEF RunInv, TypeOK
<1> DEFINE mine == [node EXCEPT ![i] = MapStatus(ended[i])]
<1>0. /\ plan' = plan /\ Jobs' = Jobs /\ Scans' = Scans /\ i \in Jobs /\ i # 0
      /\ UNCHANGED <<run, node, skips, correlated, exec, ended, pos, dirty, locked, cancels, retries, lost>>
      /\ hook[i] = "rows" /\ hook' = [hook EXCEPT ![i] = "commit"]
      /\ saw' = [saw EXCEPT ![i] = /\ saw[i]
                                   /\ \A j \in Scans : mine[j] = "ABSENT" \/ mine[j] \in NodeTerminal]
      /\ races \subseteq races'
      /\ (\E j \in Scans \ {i} : hook[j] = "commit") => "overlap" \in races'
      /\ saw'[i] /\ run # "RUNNING" => "torn" \in races'
  BY DEF ScanHookReadsRows, Overlaps, Jobs, Scans, rowVars, userVars
<1>1. MapStatus(ended[i]) \in NodeTerminal
  BY <1>0, StatusOfRow DEF HookKnows
<1>2. /\ saw' \in [Jobs -> BOOLEAN] /\ \A j \in Jobs : j # i => saw'[j] = saw[j]
      /\ saw'[i] => \A j \in Scans \ {i} : node[j] # "WAITING"
      /\ saw[i] /\ ~saw'[i] => \E j \in Scans \ {i} : node[j] = "WAITING"
  <2>1. \A j \in Scans \ {i} : mine[j] = node[j]
    BY <1>0
  <2>2. mine[i] \in NodeTerminal
    BY <1>0, <1>1
  <2>3. \A j \in Scans : node[j] = "WAITING" <=> ~(node[j] = "ABSENT" \/ node[j] \in NodeTerminal)
    BY DEF NodeTerminal
  <2>4. saw'[i] <=> saw[i] /\ \A j \in Scans : mine[j] = "ABSENT" \/ mine[j] \in NodeTerminal
    BY <1>0
  <2> HIDE DEF mine
  <2> QED BY <1>0, <2>1, <2>2, <2>3, <2>4
<1> HIDE DEF mine
<1>3. \A j \in Jobs : EndsOfJob(j)'
  BY <1>0 DEF EndInv, RowsOfEnds, EndsOfJob, Redone, Written
<1>4. (ReconOver' <=> ReconOver) /\ (ReconDone' <=> ReconDone) /\ hook'[0] = hook[0] /\ saw'[0] = saw[0]
  BY <1>0, <1>2 DEF ReconOver, ReconDone
<1>5. InHand' /\ ReconOutcome'
  BY <1>0, <1>4 DEF EndInv, RowsOfEnds, InHand, ReconOutcome, Redone
<1>6. \A j \in Scans : j # i => hook'[j] = hook[j] /\ saw'[j] = saw[j] /\ (Deciding(j)' <=> Deciding(j))
  BY <1>0, <1>2 DEF Deciding
<1>7. Deciding(i)' <=> saw'[i]
  BY <1>0 DEF Deciding
<1>8. SomeoneDecides'
  <2> SUFFICES ASSUME run = "RUNNING" PROVE SomeoneDecides'
    BY <1>0 DEF SomeoneDecides
  <2>1. saw[i] /\ (Sound' => Sound) /\ (Sound' => \A j \in Scans \ {i} : hook[j] # "commit")
    BY <1>0 DEF EndInv, SomeoneDecides, Sound
  <2>2. Sound' /\ ~saw'[i] => UndecidedBut(i)'
    BY <1>0, <1>2, <1>6, <2>1 DEF UndecidedBut
  <2>3. Sound' => \A j \in Scans : hook'[j] = "commit" => j = i
    BY <1>0, <1>6, <2>1
  <2>4. UndecidedBut(i)' => Undecided'
    BY DEF UndecidedBut, Undecided
  <2>5. saw'[i] => Decided'
    BY <1>0, <1>7 DEF Decided
  <2>6. \A j \in Scans : hook'[j] = "rows" => saw'[j]
    BY <1>0, <1>6 DEF EndInv, SomeoneDecides
  <2> QED BY <1>0, <1>4, <2>1, <2>2, <2>3, <2>4, <2>5, <2>6 DEF EndInv, SomeoneDecides
<1>9. Correlators'
  <2> SUFFICES ASSUME Unasked' PROVE Correlators'
    BY <1>0 DEF EndInv, Correlators
  <2>1. Unasked /\ (saw'[i] => run = "RUNNING" /\ correlated = 0)
    BY <1>0 DEF Unasked, EndInv, Correlators
  <2>2. \A j \in Scans : Deciding(j) => node[j] = "WAITING"
    BY <2>1 DEF EndInv, Correlators, Deciding
  <2>3. \A j, k \in Scans : Deciding(j)' /\ Deciding(k)' => j = k
    BY <1>2, <1>6, <1>7, <2>1, <2>2 DEF EndInv, Correlators
  <2>4. Decided' => Decided \/ correlated = 0
    BY <1>0, <1>6, <1>7, <2>1 DEF Decided
  <2> QED BY <1>0, <1>4, <2>1, <2>3, <2>4 DEF EndInv, Correlators
<1> QED BY <1>0, <1>3, <1>5, <1>8, <1>9 DEF EndInv, RowsOfEnds

LEMMA ScanCommitsEnds == ASSUME RunInv, EndInv, NEW i \in Scans, ScanHookCommits(i) PROVE EndInv'
<1> USE PlanHasJobs DEF RunInv, TypeOK
<1>0. /\ plan' = plan /\ Jobs' = Jobs /\ Scans' = Scans /\ i \in Jobs /\ i # 0
      /\ UNCHANGED <<exec, ended, pos, dirty, locked, cancels, retries>>
      /\ hook[i] = "commit" /\ hook' = [hook EXCEPT ![i] = "cohort"]
      /\ saw' = [saw EXCEPT ![i] = FALSE] /\ lost' = lost \ {i}
      /\ node' = [node EXCEPT ![i] = MapStatus(ended[i])]
  BY DEF ScanHookCommits, Returns, Jobs, Scans, userVars
<1>1. \/ run' = run /\ correlated' = correlated /\ races' = races /\ ~saw[i]
      \/ run' = run /\ correlated' = correlated /\ races' = races \cup {"fault"} /\ saw[i]
      \/ run' = "COMPLETED" /\ correlated' = correlated + 1 /\ races' = races /\ saw[i]
  BY <1>0, RunOfCorrelation DEF ScanHookCommits
<1>2. /\ MapStatus(ended[i]) \in NodeTerminal /\ ended[i] # "NONE"
      /\ (MapStatus(ended[i]) = "COMPLETED" <=> ended[i] = "COMPLETED")
  BY <1>0, StatusOfRow DEF HookKnows
<1>3. \A j \in Jobs : EndsOfJob(j)'
  BY <1>0, <1>2 DEF EndInv, RowsOfEnds, EndsOfJob, Redone
<1>4. (ReconOver' <=> ReconOver) /\ (ReconDone' <=> ReconDone) /\ hook'[0] = hook[0] /\ saw'[0] = saw[0]
  BY <1>0 DEF ReconOver, ReconDone
<1>5. exec[0] = "COMPLETED" /\ ended[0] = "COMPLETED"
  BY <1>0 DEF ReconFirst
<1>6. InHand' /\ ReconOutcome'
  BY <1>0, <1>4, <1>5 DEF EndInv, RowsOfEnds, InHand, ReconOutcome, Redone
<1>7. \A j \in Scans : j # i => hook'[j] = hook[j] /\ saw'[j] = saw[j] /\ (Deciding(j)' <=> Deciding(j))
  BY <1>0 DEF Deciding
<1>8. ~Deciding(i)' /\ (Deciding(i) <=> saw[i])
  BY <1>0 DEF Deciding
<1>9. SomeoneDecides'
  <2> SUFFICES ASSUME run' = "RUNNING" PROVE SomeoneDecides'
    BY DEF SomeoneDecides
  <2>1. run = "RUNNING" /\ (Sound' => Sound /\ ~saw[i])
    BY <1>1 DEF Sound
  <2>2. Sound' => Undecided'
    <3> SUFFICES ASSUME Sound' PROVE Undecided'
      OBVIOUS
    <3>1. PICK j \in Scans \ {i} : node[j] = "WAITING" /\ hook[j] # "commit"
      BY <1>0, <2>1 DEF EndInv, SomeoneDecides, UndecidedBut
    <3> QED BY <1>0, <3>1 DEF Undecided
  <2>3. ASSUME Sound', NEW j \in Scans, hook'[j] = "commit", ~saw'[j] PROVE UndecidedBut(j)'
    <3>1. j # i /\ hook[j] = "commit" /\ ~saw[j]
      BY <1>0, <2>3
    <3>2. PICK k \in Scans \ {j} : node[k] = "WAITING" /\ hook[k] # "commit"
      BY <2>1, <2>3, <3>1 DEF EndInv, SomeoneDecides, UndecidedBut
    <3> QED BY <1>0, <3>2 DEF UndecidedBut
  <2>4. \A j \in Scans : hook'[j] = "rows" => saw'[j]
    BY <1>0, <2>1 DEF EndInv, SomeoneDecides
  <2> QED BY <1>0, <1>4, <2>1, <2>2, <2>3, <2>4 DEF EndInv, SomeoneDecides
<1>10. Correlators'
  <2>1. correlated' = 0 \/ run' = "COMPLETED"
    BY <1>1 DEF EndInv, Correlators
  <2> SUFFICES ASSUME Unasked' PROVE Correlators'
    BY <2>1 DEF Correlators
  <2>2. Unasked
    BY <1>0, <1>1 DEF Unasked
  <2>3. ASSUME saw[i] PROVE ~Decided' /\ correlated' <= IF ReconDone THEN 2 ELSE 1
    <3>1. \A j \in Scans : ~Deciding(j)'
      BY <1>7, <1>8, <2>2, <2>3 DEF EndInv, Correlators
    <3>2. correlated <= IF ReconDone THEN 1 ELSE 0
      BY <1>8, <2>2, <2>3 DEF EndInv, Correlators, Decided
    <3> QED BY <1>0, <1>1, <3>1, <3>2 DEF Decided
  <2>4. ASSUME ~saw[i] PROVE correlated' = correlated /\ (Decided' => Decided)
    BY <1>0, <1>1, <1>7, <1>8, <2>4 DEF Decided
  <2>5. /\ \A j \in Jobs : exec'[j] \in Active => ended'[j] = "NONE"
        /\ \A j \in Scans : hook'[j] \in {"due", "rows", "commit"} => node'[j] = "WAITING"
        /\ \A j, k \in Scans : Deciding(j)' /\ Deciding(k)' => j = k
    BY <1>0, <1>7, <1>8, <2>2 DEF EndInv, Correlators
  <2>6. /\ correlated' <= IF ReconDone THEN 2 ELSE 1
        /\ Decided' => correlated' <= IF ReconDone THEN 1 ELSE 0
    BY <2>2, <2>3, <2>4 DEF EndInv, Correlators
  <2> QED BY <1>0, <1>4, <2>1, <2>5, <2>6 DEF Correlators
<1> QED BY <1>0, <1>3, <1>6, <1>9, <1>10 DEF EndInv, RowsOfEnds

-----------------------------------------------------------------------------
(* The hook of the recon job.                                              *)
LEMMA ReconReadsEnds == RunInv /\ EndInv /\ (ReconFails \/ ReconReads) => EndInv'
<1> SUFFICES ASSUME RunInv, EndInv, ReconFails \/ ReconReads PROVE EndInv'
  OBVIOUS
<1> USE PlanHasJobs DEF RunInv, TypeOK
<1>0. /\ plan' = plan /\ Jobs' = Jobs /\ Scans' = Scans /\ hook[0] = "due"
      /\ UNCHANGED <<exec, ended, dirty, correlated, cancels, retries>>
  BY DEF ReconFails, ReconReads, Jobs, Scans, rowVars, userVars, history
<1>1. ended[0] # "NONE" /\ MapStatus(ended[0]) \in NodeTerminal
      /\ (MapStatus(ended[0]) = "COMPLETED" <=> ended[0] = "COMPLETED")
  BY <1>0, StatusOfRow DEF HookKnows
<1>2. \A j \in Scans : node[j] = "ABSENT" /\ exec[j] = "NONE" /\ hook[j] = "idle" /\ ~saw[j]
  BY <1>0 DEF RowsOfReached, Untouched, SawKnows
<1>3. CASE ReconFails
  <2>1. /\ ended[0] # "COMPLETED" /\ exec[0] # "COMPLETED" /\ run # "COMPLETED"
        /\ node' = [node EXCEPT ![0] = MapStatus(ended[0])] /\ hook' = [hook EXCEPT ![0] = "cohort"]
        /\ saw' = [saw EXCEPT ![0] = FALSE] /\ lost' = lost \ {0}
        /\ \/ run' = "FAILED" /\ races' = races
           \/ run' = run /\ races' = races \cup {"raised"}
    BY <1>3 DEF ReconFails, ReconFirst, Returns
  <2>2. \A j \in Jobs : EndsOfJob(j)'
    BY <1>0, <1>1, <2>1 DEF EndInv, RowsOfEnds, EndsOfJob, Redone
  <2>3. InHand'
    BY <1>0, <2>1 DEF EndInv, RowsOfEnds, InHand
  <2>4. ReconOutcome'
    <3>1. exec[0] # "NONE" /\ exec[0] # "SKIPPED"
      BY <1>0, <1>1 DEF EndInv, RowsOfEnds, EndsOfJob
    <3> QED BY <1>0, <2>1, <3>1 DEF ReconOutcome
  <2>5. ~ReconDone /\ ~ReconDone' /\ ~Decided'
    BY <1>0, <1>2, <2>1 DEF ReconDone, Decided, Deciding
  <2>6. \A j \in Scans : hook'[j] = "idle"
    BY <1>0, <1>2, <2>1
  <2>7. SomeoneDecides'
    BY <1>0, <2>1, <2>5, <2>6 DEF SomeoneDecides, Sound, ReconPcs
  <2>8. Correlators'
    <3>1. correlated' = 0
      BY <1>0, <2>1 DEF EndInv, Correlators
    <3> QED BY <1>0, <1>2, <2>1, <2>5, <2>6, <3>1 DEF EndInv, Correlators, Deciding, Unasked
  <2> QED BY <1>0, <2>2, <2>3, <2>4, <2>7, <2>8 DEF EndInv, RowsOfEnds
<1>4. CASE ReconReads
  <2>1. /\ ended[0] = "COMPLETED" /\ exec[0] = "COMPLETED"
        /\ saw' = [saw EXCEPT ![0] = (run = "RUNNING")]
        /\ hook' = [hook EXCEPT ![0] = IF plan = <<>> THEN "final" ELSE "advance"]
        /\ UNCHANGED <<run, node, lost, races>>
    BY <1>4 DEF ReconReads, ReconFirst, rowVars, history
  <2>2. \A j \in Jobs : EndsOfJob(j)'
    BY <1>0, <1>1, <2>1 DEF EndInv, RowsOfEnds, EndsOfJob, Redone, Written
  <2>3. InHand'
    BY <1>0, <2>1 DEF EndInv, RowsOfEnds, InHand
  <2>4. ReconOutcome'
    BY <1>0, <2>1 DEF EndInv, RowsOfEnds, ReconOutcome
  <2>5. ~ReconDone /\ ~ReconDone'
    BY <1>0, <1>2, <2>1 DEF ReconDone, ReconOver, Written
  <2>6. \A j \in Scans : hook'[j] = "idle" /\ ~saw'[j] /\ ~Deciding(j)'
    BY <1>0, <1>2, <2>1 DEF Deciding
  <2>7. SomeoneDecides'
    BY <1>0, <2>1, <2>5, <2>6 DEF SomeoneDecides
  <2>8. Correlators'
    BY <1>0, <2>1, <2>5, <2>6 DEF EndInv, Correlators, Decided, Unasked
  <2> QED BY <1>0, <2>2, <2>3, <2>4, <2>7, <2>8 DEF EndInv, RowsOfEnds
<1> QED BY <1>3, <1>4

LEMMA AddEnds == RunInv /\ EndInv /\ AddSkippedRow => EndInv'
<1> SUFFICES ASSUME RunInv, EndInv, AddSkippedRow PROVE EndInv'
  OBVIOUS
<1> USE PlanHasJobs DEF RunInv, TypeOK
<1>0. plan' = plan /\ Jobs' = Jobs /\ Scans' = Scans
  BY DEF AddSkippedRow, Jobs, Scans
<1>1. pos \in Scans /\ pos \in Jobs /\ pos # 0 /\ exec[0] = "COMPLETED" /\ exec[pos] = "NONE"
  BY DEF AddSkippedRow, HookKnows, ReconFirst, Scheduling, ReconPcs, RowsOfReached, Untouched
<1>2. /\ hook[0] = "advance" /\ hook' = [hook EXCEPT ![0] = NextStep]
      /\ NextStep \in {"advance", "final"}
      /\ dirty' = dirty \cup {pos}
      /\ exec' = exec \/ exec' = [exec EXCEPT ![pos] = "SKIPPED"]
      /\ UNCHANGED <<run, node, correlated, ended, saw, cancels, retries, lost, races>>
  BY DEF AddSkippedRow, NextStep, rowVars, userVars, history
<1>3. \A j \in Jobs : EndsOfJob(j)'
  <2>1. \A j \in Jobs : hook'[j] \in Written => hook'[j] = hook[j]
    BY <1>2 DEF Written
  <2> QED BY <1>0, <1>1, <1>2, <2>1 DEF EndInv, RowsOfEnds, EndsOfJob, Redone, Active, Terminal
<1>4. InHand' /\ ReconOutcome'
  BY <1>0, <1>1, <1>2 DEF EndInv, RowsOfEnds, InHand, ReconOutcome, ReconOver, Written
<1>5. ~ReconDone /\ ~ReconDone' /\ \A j \in Scans : hook'[j] = hook[j]
  BY <1>0, <1>1, <1>2 DEF ReconDone, ReconOver, Written
<1>6. SomeoneDecides'
  BY <1>0, <1>2, <1>5 DEF EndInv, SomeoneDecides, Undecided, UndecidedBut, Decided, Deciding, Sound, ReconPcs
<1>7. Correlators'
  <2>1. \A j \in Jobs : exec'[j] \in Active => exec[j] \in Active
    BY <1>1, <1>2 DEF Active
  <2> QED BY <1>0, <1>2, <1>5, <2>1 DEF EndInv, Correlators, Decided, Deciding, Unasked
<1> QED BY <1>0, <1>3, <1>4, <1>6, <1>7 DEF EndInv, RowsOfEnds

LEMMA PlanEnds == RunInv /\ EndInv /\ PlanFollowUp => EndInv'
<1> SUFFICES ASSUME RunInv, EndInv, PlanFollowUp PROVE EndInv'
  OBVIOUS
<1> USE PlanHasJobs DEF RunInv, TypeOK
<1>0. plan' = plan /\ Jobs' = Jobs /\ Scans' = Scans
  BY DEF PlanFollowUp, Jobs, Scans
<1>1. /\ pos \in Scans /\ pos \in Jobs /\ pos # 0 /\ exec[0] = "COMPLETED" /\ ended[0] = "COMPLETED"
      /\ exec[pos] = "NONE" /\ hook[pos] = "idle" /\ pos \notin dirty
  BY DEF PlanFollowUp, HookKnows, ReconFirst, Scheduling, ReconPcs, RowsOfReached, Untouched
<1>2. /\ hook[0] = "advance" /\ hook' = [hook EXCEPT ![0] = "enqueue"]
      /\ exec' = [exec EXCEPT ![pos] = "PENDING"]
      /\ node' = Committed([node EXCEPT ![pos] = "WAITING"])
      /\ dirty' = {}
      /\ UNCHANGED <<run, correlated, ended, saw, pos, cancels, retries, lost, races>>
  BY DEF PlanFollowUp, userVars, rowsButNode, history
<1>3. /\ node'[0] = "COMPLETED"
      /\ \A j \in Scans : node'[j] = IF j \in dirty THEN "SKIPPED"
                                     ELSE IF j = pos THEN "WAITING" ELSE node[j]
  BY <1>1, <1>2 DEF Committed, MapStatus
<1>4. ended[pos] = "NONE"
  BY <1>1 DEF EndInv, RowsOfEnds, EndsOfJob
<1>5. \A j \in dirty : /\ exec[j] \in {"NONE", "SKIPPED"} /\ ended[j] = "NONE" /\ hook[j] = "idle"
                       /\ node[j] # "WAITING"
  BY DEF EndInv, RowsOfEnds, EndsOfJob, InHand, HookKnows, Active
<1>6. \A j \in Jobs : EndsOfJob(j)'
  <2> SUFFICES ASSUME NEW j \in Jobs PROVE EndsOfJob(j)'
    BY <1>0
  <2>0. EndsOfJob(j)
    BY DEF EndInv, RowsOfEnds
  <2>1. CASE j = 0
    BY <1>1, <1>2, <1>3, <2>0, <2>1 DEF EndsOfJob, Redone, MapStatus
  <2>2. CASE j \in dirty
    BY <1>1, <1>2, <1>3, <1>5, <2>0, <2>2 DEF EndsOfJob, Redone, Active
  <2>3. CASE j = pos
    BY <1>1, <1>2, <1>3, <1>4, <2>0, <2>3 DEF EndsOfJob, Redone, Active, Terminal
  <2>4. CASE j # 0 /\ j # pos /\ j \notin dirty
    <3>1. node'[j] = node[j] /\ exec'[j] = exec[j] /\ hook'[j] = hook[j]
      BY <1>1, <1>2, <1>3, <2>4
    <3> QED BY <1>2, <2>0, <3>1 DEF EndsOfJob, Redone
  <2> QED BY <2>1, <2>2, <2>3, <2>4
<1>7. InHand' /\ ReconOutcome'
  BY <1>0, <1>1, <1>2, <1>4 DEF InHand, ReconOutcome
<1>8. ~ReconDone /\ ~ReconDone' /\ \A j \in Scans : hook'[j] = hook[j]
  BY <1>0, <1>1, <1>2 DEF ReconDone, ReconOver, Written
<1>9. SomeoneDecides'
  <2>1. \A j \in Scans : node[j] = "WAITING" => node'[j] = "WAITING"
    BY <1>3, <1>5
  <2>2. \A j \in Scans : UndecidedBut(j) => UndecidedBut(j)'
    BY <1>0, <1>8, <2>1 DEF UndecidedBut
  <2>3. hook'[0] # "commit"
    BY <1>2
  <2> QED BY <1>0, <1>2, <1>8, <2>2, <2>3 DEF EndInv, SomeoneDecides, Sound, ReconPcs
<1>10. Correlators'
  <2>1. \A j \in Jobs : exec'[j] \in Active => exec[j] \in Active \/ j = pos
    BY <1>1, <1>2
  <2>2. \A j \in Scans : hook[j] \in {"due", "rows", "commit"} => node'[j] = node[j]
    BY <1>1, <1>3, <1>5
  <2> QED BY <1>0, <1>2, <1>4, <1>8, <2>1, <2>2 DEF EndInv, Correlators, Decided, Deciding, Unasked
<1> QED BY <1>0, <1>6, <1>7, <1>9, <1>10 DEF EndInv, RowsOfEnds

LEMMA EnqueueEnds == RunInv /\ EndInv /\ EnqueueFollowUp => EndInv'
<1> SUFFICES ASSUME RunInv, EndInv, EnqueueFollowUp PROVE EndInv'
  OBVIOUS
<1> USE PlanHasJobs DEF RunInv, TypeOK
<1>0. plan' = plan /\ Jobs' = Jobs /\ Scans' = Scans
  BY DEF EnqueueFollowUp, Jobs, Scans
<1>1. pos \in Scans /\ pos \in Jobs /\ pos # 0 /\ exec[0] = "COMPLETED"
  BY DEF EnqueueFollowUp, HookKnows, ReconFirst, Scheduling, ReconPcs
<1>2. /\ hook[0] = "mark" /\ hook' = [hook EXCEPT ![0] = NextStep]
      /\ NextStep \in {"advance", "final"}
      /\ exec' = [exec EXCEPT ![pos] = "QUEUED"]
      /\ UNCHANGED <<run, node, correlated, ended, saw, dirty, cancels, retries, lost, races>>
  BY DEF EnqueueFollowUp, MarkQueued, NextStep, rowVars, userVars, history
<1>3. /\ exec[pos] # "NONE" /\ exec[pos] # "SKIPPED"
      /\ exec[pos] \in Active \/ ended[pos] # "NONE"
      /\ exec[pos] = "COMPLETED" => Redone
      /\ cancels = 0 => exec[pos] = "PENDING"
  <2>1. /\ exec[pos] \notin {"NONE", "SKIPPED"}
        /\ exec[pos] \in {"PENDING", "CANCELLED"} \/ Redone
    BY <1>2 DEF EndInv, RowsOfEnds, InHand
  <2> QED BY <1>1, <2>1 DEF EndInv, RowsOfEnds, EndsOfJob, Active, Terminal, Redone
<1>4. \A j \in Jobs : EndsOfJob(j)'
  <2>1. \A j \in Jobs : hook'[j] \in Written => hook'[j] = hook[j]
    BY <1>2 DEF Written
  <2> QED BY <1>0, <1>1, <1>2, <1>3, <2>1 DEF EndInv, RowsOfEnds, EndsOfJob, Redone, Active, Terminal
<1>5. InHand' /\ ReconOutcome'
  BY <1>0, <1>1, <1>2, <1>3 DEF EndInv, RowsOfEnds, InHand, ReconOutcome, ReconOver, Written
<1>6. ~ReconDone /\ ~ReconDone' /\ \A j \in Scans : hook'[j] = hook[j]
  BY <1>0, <1>1, <1>2 DEF ReconDone, ReconOver, Written
<1>7. SomeoneDecides'
  BY <1>0, <1>2, <1>6 DEF EndInv, SomeoneDecides, Undecided, UndecidedBut, Decided, Deciding, Sound, ReconPcs
<1>8. Correlators'
  <2>1. cancels = 0 => exec[pos] \in Active
    BY <1>3 DEF Active
  <2> QED BY <1>0, <1>1, <1>2, <1>6, <2>1 DEF EndInv, Correlators, Decided, Deciding, Unasked
<1> QED BY <1>0, <1>4, <1>5, <1>7, <1>8 DEF EndInv, RowsOfEnds

LEMMA RaisesEnds == RunInv /\ EndInv /\ ReconRaises => EndInv'
<1> SUFFICES ASSUME RunInv, EndInv, ReconRaises PROVE EndInv'
  OBVIOUS
<1> USE PlanHasJobs DEF RunInv, TypeOK
<1>0. /\ plan' = plan /\ Jobs' = Jobs /\ Scans' = Scans
      /\ hook[0] \in ReconPcs /\ hook' = [hook EXCEPT ![0] = "commit"] /\ saw' = [saw EXCEPT ![0] = FALSE]
      /\ "raised" \in races' /\ races \subseteq races' /\ lost \subseteq lost'
      /\ UNCHANGED <<run, node, skips, correlated, exec, ended, pos, dirty, cancels, retries>>
  BY DEF ReconRaises, rowVars, userVars, Jobs, Scans
<1>1. exec[0] = "COMPLETED" /\ ended[0] = "COMPLETED"
  BY <1>0 DEF ReconFirst, Scheduling
<1>2. \A j \in Scans : hook'[j] = hook[j] /\ saw'[j] = saw[j] /\ (Deciding(j)' <=> Deciding(j))
  BY <1>0 DEF Deciding
<1>3. \A j \in Jobs : EndsOfJob(j)'
  BY <1>0 DEF EndInv, RowsOfEnds, EndsOfJob, Redone, Written
<1>4. InHand' /\ ReconOutcome'
  BY <1>0, <1>1 DEF EndInv, RowsOfEnds, InHand, ReconOutcome
<1>5. ~ReconDone /\ ~ReconDone' /\ ~Sound'
  BY <1>0 DEF ReconDone, ReconOver, Written, ReconPcs, Sound
<1>6. SomeoneDecides'
  BY <1>0, <1>2, <1>5 DEF EndInv, SomeoneDecides, ReconPcs
<1>7. Correlators'
  BY <1>0, <1>2, <1>5 DEF EndInv, Correlators, Decided, Unasked
<1> QED BY <1>0, <1>3, <1>4, <1>6, <1>7 DEF EndInv, RowsOfEnds

LEMMA DecideEnds == RunInv /\ EndInv /\ ReconReadsRows => EndInv'
<1> SUFFICES ASSUME RunInv, EndInv, ReconReadsRows PROVE EndInv'
  OBVIOUS
<1> USE PlanHasJobs DEF RunInv, TypeOK
<1> DEFINE all == Committed(node)
<1>0. plan' = plan /\ Jobs' = Jobs /\ Scans' = Scans
  BY DEF ReconReadsRows, Jobs, Scans
<1>1. /\ hook[0] = "final" /\ hook' = [hook EXCEPT ![0] = "commit"]
      /\ saw' = [saw EXCEPT ![0] = /\ saw[0]
                                   /\ \E j \in Scans : all[j] # "ABSENT"
                                   /\ \A j \in Scans : all[j] # "WAITING"]
      /\ UNCHANGED <<run, node, correlated, exec, ended, pos, dirty, cancels, retries, lost, races>>
  BY DEF ReconReadsRows, rowVars, userVars, history
<1>2. \A j \in Scans : saw'[j] = saw[j] /\ hook'[j] = hook[j] /\ (Deciding(j)' <=> Deciding(j))
  BY <1>1 DEF Deciding
<1>3. \A j \in Scans : all[j] = IF j \in dirty THEN "SKIPPED" ELSE node[j]
  BY DEF Committed
<1>4. "raised" \notin races /\ saw[0] /\ ~saw'[0] /\ Scans # {} => \E j \in Scans : node[j] = "WAITING"
  <2>1. "raised" \notin races => \A j \in Scans : node[j] # "ABSENT" \/ j \in dirty
    BY <1>1 DEF RowsOfReached, Reached
  <2>2. "raised" \notin races => \A j \in Scans : all[j] # "ABSENT"
    BY <1>3, <2>1
  <2>3. \A j \in Scans : all[j] = "WAITING" => node[j] = "WAITING"
    BY <1>3
  <2> HIDE DEF all
  <2>4. saw'[0] <=> saw[0] /\ (\E j \in Scans : all[j] # "ABSENT") /\ \A j \in Scans : all[j] # "WAITING"
    BY <1>1
  <2> QED BY <2>2, <2>3, <2>4
<1> HIDE DEF all
<1>5. \A j \in Jobs : EndsOfJob(j)'
  BY <1>0, <1>1 DEF EndInv, RowsOfEnds, EndsOfJob, Redone, Written
<1>6. InHand' /\ ReconOutcome'
  BY <1>0, <1>1 DEF EndInv, RowsOfEnds, InHand, ReconOutcome, ReconOver, Written
<1>7. ~ReconDone /\ ~ReconDone'
  BY <1>1 DEF ReconDone, ReconOver, Written
<1>8. (Undecided' <=> Undecided) /\ (Decided' <=> Decided) /\ \A j \in Scans : UndecidedBut(j)' <=> UndecidedBut(j)
  BY <1>0, <1>1, <1>2 DEF Undecided, UndecidedBut, Decided
<1>9. SomeoneDecides'
  <2> SUFFICES ASSUME run = "RUNNING" PROVE SomeoneDecides'
    BY <1>1 DEF SomeoneDecides
  <2>1. saw[0]
    BY <1>1 DEF EndInv, SomeoneDecides, ReconPcs
  <2>2. ASSUME Sound, NEW j \in Scans, node[j] = "WAITING" PROVE Undecided \/ Decided
    <3>1. CASE hook[j] # "commit"
      BY <2>2, <3>1 DEF Undecided
    <3>2. CASE hook[j] = "commit" /\ saw[j]
      BY <3>2 DEF Decided, Deciding
    <3>3. CASE hook[j] = "commit" /\ ~saw[j]
      BY <2>2, <3>3 DEF EndInv, SomeoneDecides, UndecidedBut, Undecided
    <3> QED BY <3>1, <3>2, <3>3
  <2>3. Sound /\ ~saw'[0] => Scans = {} \/ Undecided \/ Decided
    BY <1>4, <2>1, <2>2 DEF Sound
  <2>4. hook'[0] \notin ReconPcs
    BY <1>1 DEF ReconPcs
  <2> QED BY <1>0, <1>1, <1>2, <1>7, <1>8, <2>3, <2>4 DEF EndInv, SomeoneDecides, Sound
<1>10. Correlators'
  BY <1>0, <1>1, <1>2, <1>7, <1>8 DEF EndInv, Correlators, Unasked
<1> QED BY <1>0, <1>5, <1>6, <1>9, <1>10 DEF EndInv, RowsOfEnds

LEMMA ReconCommitsEnds == RunInv /\ EndInv /\ ReconCommits => EndInv'
<1> SUFFICES ASSUME RunInv, EndInv, ReconCommits PROVE EndInv'
  OBVIOUS
<1> USE PlanHasJobs DEF RunInv, TypeOK
<1>0. plan' = plan /\ Jobs' = Jobs /\ Scans' = Scans
  BY DEF ReconCommits, Jobs, Scans
<1>1. /\ hook[0] = "commit" /\ hook' = [hook EXCEPT ![0] = "cohort"]
      /\ node' = Committed(node) /\ dirty' = {} /\ lost' = lost \ {0}
      /\ saw' = [saw EXCEPT ![0] = FALSE]
      /\ UNCHANGED <<exec, ended, pos, cancels, retries>>
  BY DEF ReconCommits, Returns, userVars
<1>2. \/ run' = run /\ correlated' = correlated /\ races' = races /\ ~saw[0]
      \/ run' = run /\ correlated' = correlated /\ races' = races \cup {"fault"} /\ saw[0]
      \/ run' = "COMPLETED" /\ correlated' = correlated + 1 /\ races' = races /\ saw[0]
  BY RunOfCorrelation DEF ReconCommits
<1>3. exec[0] = "COMPLETED" /\ ended[0] = "COMPLETED"
  BY <1>1 DEF ReconFirst, Scheduling
<1>4. /\ node'[0] = "COMPLETED"
      /\ \A j \in Scans : node'[j] = IF j \in dirty THEN "SKIPPED" ELSE node[j]
      /\ \A j \in Scans : saw'[j] = saw[j] /\ hook'[j] = hook[j] /\ (Deciding(j)' <=> Deciding(j))
  BY <1>1, <1>3 DEF Committed, MapStatus, Deciding
<1>5. \A j \in dirty : /\ exec[j] \in {"NONE", "SKIPPED"} /\ ended[j] = "NONE" /\ hook[j] = "idle"
                       /\ node[j] # "WAITING"
  BY DEF EndInv, RowsOfEnds, EndsOfJob, InHand, HookKnows, Active
<1>6. \A j \in Jobs : EndsOfJob(j)'
  <2> SUFFICES ASSUME NEW j \in Jobs PROVE EndsOfJob(j)'
    BY <1>0
  <2>0. EndsOfJob(j)
    BY DEF EndInv, RowsOfEnds
  <2>1. CASE j = 0
    BY <1>1, <1>3, <1>4, <2>0, <2>1 DEF EndsOfJob, Redone, MapStatus
  <2>2. CASE j \in dirty
    BY <1>1, <1>4, <1>5, <2>0, <2>2 DEF EndsOfJob, Redone, Active
  <2>3. CASE j # 0 /\ j \notin dirty
    <3>1. node'[j] = node[j] /\ hook'[j] = hook[j]
      BY <1>1, <1>4, <2>3
    <3> QED BY <1>1, <2>0, <2>3, <3>1 DEF EndsOfJob, Redone
  <2> QED BY <2>1, <2>2, <2>3
<1>7. InHand'
  BY <1>0, <1>1 DEF InHand
<1>8. ReconOutcome'
  BY <1>1, <1>3 DEF ReconOutcome
<1>9. ~ReconDone /\ ReconDone'
  BY <1>1, <1>3 DEF ReconDone, ReconOver, Written
<1>10. Decided' <=> Decided
  BY <1>0, <1>4 DEF Decided
<1>11. SomeoneDecides'
  <2> SUFFICES ASSUME run' = "RUNNING" PROVE SomeoneDecides'
    BY DEF SomeoneDecides
  <2>1. run = "RUNNING" /\ (Sound' => Sound /\ ~saw[0])
    BY <1>2 DEF Sound
  <2>2. \A j \in Scans : node'[j] = "WAITING" <=> node[j] = "WAITING"
    BY <1>4, <1>5
  <2>3. (Undecided' <=> Undecided) /\ \A j \in Scans : UndecidedBut(j)' <=> UndecidedBut(j)
    BY <1>0, <1>4, <2>2 DEF Undecided, UndecidedBut
  <2>4. lost \cap Scans # {} => lost' # {}
    BY <1>1
  <2>5. Sound' => Scans = {} \/ Undecided' \/ Decided' \/ lost' # {}
    BY <1>1, <1>10, <2>1, <2>3, <2>4 DEF EndInv, SomeoneDecides
  <2> QED BY <1>0, <1>1, <1>4, <2>1, <2>3, <2>5 DEF EndInv, SomeoneDecides, ReconPcs
<1>12. Correlators'
  <2>1. correlated' = 0 \/ run' = "COMPLETED"
    BY <1>2 DEF EndInv, Correlators
  <2> SUFFICES ASSUME Unasked' PROVE Correlators'
    BY <2>1 DEF Correlators
  <2>2. Unasked
    BY <1>1, <1>2 DEF Unasked
  <2>3. correlated' <= 2 /\ (Decided' => correlated' <= 1)
    <3>1. correlated <= 1 /\ (Decided => correlated <= 0)
      BY <1>9, <2>2 DEF EndInv, Correlators
    <3>2. correlated' \in {correlated, correlated + 1}
      BY <1>2
    <3> QED BY <1>10, <3>1, <3>2
  <2>4. \A j \in Scans : hook[j] \in {"due", "rows", "commit"} => node'[j] = node[j]
    BY <1>4, <1>5
  <2>5. \A j \in Jobs : exec'[j] \in Active => ended'[j] = "NONE"
    BY <1>1, <2>2 DEF EndInv, Correlators
  <2>6. \A j \in Scans : hook'[j] \in {"due", "rows", "commit"} => node'[j] = "WAITING"
    BY <1>4, <2>2, <2>4 DEF EndInv, Correlators
  <2>7. \A j, k \in Scans : Deciding(j)' /\ Deciding(k)' => j = k
    BY <1>4, <2>2 DEF EndInv, Correlators
  <2> QED BY <1>0, <1>9, <2>1, <2>3, <2>5, <2>6, <2>7 DEF Correlators
<1> QED BY <1>0, <1>6, <1>7, <1>8, <1>11, <1>12 DEF EndInv, RowsOfEnds

-----------------------------------------------------------------------------
(* A hook is cut short, or all of them are.                                *)
LEMMA HookIsCutEnds == ASSUME RunInv, EndInv, NEW i \in Jobs, HookIsCut(i) PROVE EndInv'
<1> USE PlanHasJobs DEF RunInv, TypeOK
<1>0. /\ plan' = plan /\ Jobs' = Jobs /\ Scans' = Scans
      /\ UNCHANGED <<run, node, skips, correlated, ended, pos, cancels, retries, races>>
      /\ hook' = [hook EXCEPT ![i] = "idle"] /\ saw' = [saw EXCEPT ![i] = FALSE]
      /\ hook[i] # "idle" /\ lost \subseteq lost'
      /\ hook[i] \notin Written => i \in lost'
      /\ i # 0 => UNCHANGED <<dirty, locked, exec, assessment>>
  BY DEF HookIsCut, Jobs, Scans, rowVars
<1>1. /\ \A j \in dirty : exec[j] \in {"NONE", "SKIPPED"} /\ ended[j] = "NONE"
      /\ \A j \in dirty : node[j] # "WAITING" /\ hook[j] = "idle" /\ j # i
  BY <1>0 DEF EndInv, RowsOfEnds, EndsOfJob, InHand, Active, HookKnows
<1>2. /\ dirty' \subseteq dirty
      /\ \A j \in Jobs : \/ exec'[j] = exec[j]
                         \/ exec'[j] = "NONE" /\ j \in dirty /\ j \notin dirty'
                         \/ i = 0 /\ hook[0] = "mark" /\ j = pos /\ exec'[j] = "QUEUED"
  <2>1. CASE i # 0
    BY <1>0, <2>1
  <2>2. CASE i = 0
    <3>1. dirty' = {}
      BY <2>2 DEF HookIsCut
    <3>2. CASE exec' = RolledBack(exec)
      BY <3>1, <3>2, RolledBackJobs
    <3>3. CASE hook[0] = "mark" /\ MarkQueued(pos)
      BY <2>2, <3>1, <3>3 DEF MarkQueued
    <3> QED BY <2>2, <3>2, <3>3 DEF HookIsCut
  <2> QED BY <2>1, <2>2
<1>3. hook[0] = "mark" =>
        /\ pos \in Scans /\ pos # 0
        /\ exec[pos] # "NONE" /\ exec[pos] # "SKIPPED"
        /\ exec[pos] \in Active \/ ended[pos] # "NONE"
        /\ exec[pos] = "COMPLETED" => Redone
        /\ cancels = 0 => exec[pos] \in Active
  <2>1. hook[0] = "mark" => /\ exec[pos] \notin {"NONE", "SKIPPED"} /\ pos \in Scans
                            /\ exec[pos] \in {"PENDING", "CANCELLED"} \/ Redone
    BY DEF EndInv, RowsOfEnds, InHand, HookKnows
  <2> QED BY <2>1 DEF EndInv, RowsOfEnds, EndsOfJob, Active, Terminal, Redone
<1>4. \A j \in Jobs : EndsOfJob(j)'
  <2> SUFFICES ASSUME NEW j \in Jobs PROVE EndsOfJob(j)'
    BY <1>0
  <2>0. EndsOfJob(j) /\ (Redone' <=> Redone)
    BY <1>0 DEF EndInv, RowsOfEnds, Redone
  <2>1. hook'[j] \in Written /\ j \notin lost' => hook[j] \in Written /\ j \notin lost
    BY <1>0 DEF Written
  <2>2. CASE exec'[j] = exec[j]
    BY <1>0, <2>0, <2>1, <2>2 DEF EndsOfJob
  <2>3. CASE exec'[j] = "NONE" /\ j \in dirty
    BY <1>0, <1>1, <2>0, <2>1, <2>3 DEF EndsOfJob, Active, Terminal
  <2>4. CASE hook[0] = "mark" /\ j = pos /\ exec'[j] = "QUEUED"
    BY <1>0, <1>3, <2>0, <2>1, <2>4 DEF EndsOfJob, Active, Terminal
  <2> QED BY <1>2, <2>2, <2>3, <2>4
<1>5. exec'[0] = exec[0]
  BY <1>2, <1>3
<1>6. InHand'
  <2>1. \A j \in dirty' : exec'[j] \in {"NONE", "SKIPPED"}
    BY <1>1, <1>2, <1>3
  <2>2. hook'[0] \in {"enqueue", "mark"} => i # 0 /\ hook'[0] = hook[0]
    BY <1>0
  <2> QED BY <1>0, <2>1, <2>2 DEF EndInv, RowsOfEnds, InHand, Redone
<1>7. ReconOutcome'
  <2>1. ReconOver' => ReconOver \/ 0 \in lost'
    BY <1>0 DEF ReconOver
  <2> QED BY <1>0, <1>5, <2>1 DEF EndInv, RowsOfEnds, ReconOutcome
<1>8. ReconDone' => ReconDone \/ 0 \in lost'
  BY <1>0, <1>5 DEF ReconDone, ReconOver
<1>9. /\ \A j \in Jobs : hook'[j] # "idle" => hook'[j] = hook[j] /\ saw'[j] = saw[j]
      /\ \A j \in Scans : Deciding(j)' => Deciding(j)
      /\ \A j \in Scans : UndecidedBut(j) => UndecidedBut(j)'
      /\ Undecided => Undecided'
  BY <1>0 DEF Deciding, UndecidedBut, Undecided
<1>10. SomeoneDecides'
  <2>1. Decided => Decided' \/ lost' \cap Scans # {}
    <3>1. ASSUME NEW j \in Scans, Deciding(j) PROVE Decided' \/ lost' \cap Scans # {}
      <4>1. CASE j = i
        BY <1>0, <3>1, <4>1 DEF Deciding, Written
      <4>2. CASE j # i
        BY <1>0, <3>1, <4>2 DEF Deciding, Decided
      <4> QED BY <4>1, <4>2
    <3> QED BY <3>1 DEF Decided
  <2>2. lost \cap Scans # {} => lost' \cap Scans # {}
    BY <1>0
  <2>3. hook'[0] \in ReconPcs \cup {"commit"} => hook'[0] = hook[0] /\ saw'[0] = saw[0]
    BY <1>9 DEF ReconPcs
  <2> QED BY <1>0, <1>8, <1>9, <2>1, <2>2, <2>3 DEF EndInv, SomeoneDecides, Sound
<1>11. Correlators'
  <2> SUFFICES ASSUME Unasked' PROVE Correlators'
    BY <1>0 DEF EndInv, Correlators
  <2>1. Unasked /\ cancels = 0
    BY <1>0 DEF Unasked
  <2>2. \A j \in Jobs : exec'[j] \in Active => exec[j] \in Active
    BY <1>2, <1>3, <2>1 DEF Active
  <2>3. Decided' => Decided
    BY <1>0, <1>9 DEF Decided
  <2>4. ReconDone => ReconDone'
    BY <1>0, <1>5 DEF ReconDone, ReconOver, Written
  <2> QED BY <1>0, <1>9, <2>1, <2>2, <2>3, <2>4 DEF EndInv, Correlators
<1> QED BY <1>0, <1>4, <1>6, <1>7, <1>10, <1>11 DEF EndInv, RowsOfEnds

LEMMA RestartEnds == RunInv /\ EndInv /\ Restart => EndInv'
<1> SUFFICES ASSUME RunInv, EndInv, Restart PROVE EndInv'
  OBVIOUS
<1> USE PlanHasJobs DEF RunInv, TypeOK
<1>0. /\ plan' = plan /\ Jobs' = Jobs /\ Scans' = Scans
      /\ UNCHANGED <<run, node, skips, correlated, ended, pos, cancels, retries, races>>
      /\ hook' = [i \in Jobs |-> "idle"] /\ saw' = [i \in Jobs |-> FALSE]
      /\ dirty' = {} /\ exec' = RolledBack(exec) /\ lost \subseteq lost'
      /\ \A i \in Jobs : hook[i] \notin Written => i \in lost'
  BY DEF Restart, Jobs, Scans, rowVars
<1>1. \A j \in dirty : exec[j] \in {"NONE", "SKIPPED"} /\ ended[j] = "NONE" /\ node[j] # "WAITING"
  BY DEF EndInv, RowsOfEnds, EndsOfJob, InHand, Active
<1>2. /\ exec'[0] = exec[0]
      /\ \A j \in Jobs : exec'[j] = IF j \in dirty THEN "NONE" ELSE exec[j]
  BY <1>0, RolledBackJobs
<1>3. \A j \in Jobs : EndsOfJob(j)'
  <2> SUFFICES ASSUME NEW j \in Jobs PROVE EndsOfJob(j)'
    BY <1>0
  <2>0. EndsOfJob(j) /\ (Redone' <=> Redone)
    BY <1>0 DEF EndInv, RowsOfEnds, Redone
  <2>1. j \notin lost' => hook[j] \in Written /\ j \notin lost
    BY <1>0
  <2>2. CASE j \in dirty
    BY <1>0, <1>1, <1>2, <2>0, <2>1, <2>2 DEF EndsOfJob, Active, Terminal
  <2>3. CASE j \notin dirty
    BY <1>0, <1>2, <2>0, <2>1, <2>3 DEF EndsOfJob
  <2> QED BY <2>2, <2>3
<1>4. InHand'
  BY <1>0 DEF InHand
<1>5. ReconOutcome'
  <2>1. ReconOver \/ 0 \in lost'
    BY <1>0 DEF ReconOver
  <2> QED BY <1>0, <1>2, <2>1 DEF EndInv, RowsOfEnds, ReconOutcome
<1>6. ReconDone' => ReconDone \/ 0 \in lost'
  BY <1>0, <1>2 DEF ReconDone, ReconOver
<1>7. SomeoneDecides'
  <2>1. Decided => lost' # {}
    BY <1>0 DEF Decided, Deciding, Written
  <2>2. Undecided => Undecided'
    BY <1>0 DEF Undecided
  <2> QED BY <1>0, <1>6, <2>1, <2>2 DEF EndInv, SomeoneDecides, Sound, ReconPcs
<1>8. Correlators'
  <2>1. ~Decided' /\ \A j \in Scans : ~Deciding(j)'
    BY <1>0 DEF Decided, Deciding
  <2>2. ReconDone => ReconDone'
    BY <1>0, <1>2 DEF ReconDone, ReconOver, Written
  <2>3. \A j \in Jobs : exec'[j] \in Active => exec[j] \in Active
    BY <1>2 DEF Active
  <2> QED BY <1>0, <2>1, <2>2, <2>3 DEF EndInv, Correlators, Unasked
<1> QED BY <1>0, <1>3, <1>4, <1>5, <1>7, <1>8 DEF EndInv, RowsOfEnds

-----------------------------------------------------------------------------
LEMMA EndInvHolds == Spec => []EndInv
<1>1. RunInv /\ EndInv /\ [Next]_vars => EndInv'
  <2> SUFFICES ASSUME RunInv, EndInv, [Next]_vars PROVE EndInv'
    OBVIOUS
  <2>1. 0 \in Jobs /\ Scans \subseteq Jobs
    BY PlanHasJobs DEF RunInv, TypeOK
  <2>2. CASE Starting \/ StartIsCut
    BY <2>1, <2>2, StartEnds, MarkReconEnds, JoinEnds DEF Starting
  <2>3. CASE ReconHook
    BY <2>1, <2>3, ReconReadsEnds, AddEnds, PlanEnds, JoinEnds, EnqueueEnds, DecideEnds, ReconCommitsEnds,
       LeaveEnds DEF ReconHook
  <2>4. CASE ReconRaises \/ Restart
    BY <2>4, RaisesEnds, RestartEnds
  <2>5. CASE \E i \in Jobs : JobNext(i) \/ Request(i) \/ HookIsCut(i)
    BY <2>5, RunsEnds, EndsEnds, JoinEnds, HookIsCutEnds DEF JobNext, Request
  <2>6. CASE \E i \in Scans : ScanHook(i)
    BY <2>1, <2>6, ScanReadsRunEnds, ScanReadsEnds, ScanCommitsEnds, LeaveEnds DEF ScanHook
  <2>7. CASE UNCHANGED vars
    BY <2>7 DEF vars, rowVars, hookVars, managerVars, userVars, history, Jobs, Scans, EndInv, RowsOfEnds,
       EndsOfJob, Redone, InHand, ReconOutcome, ReconOver, SomeoneDecides, Sound, UndecidedBut, Undecided,
       Decided, Deciding, ReconDone, Correlators, Unasked
  <2> QED BY <2>2, <2>3, <2>4, <2>5, <2>6, <2>7 DEF Next
<1> QED BY <1>1, EndInitInv, RunInvHolds, PTL DEF Spec

(* Once the hook of a job has returned, the stage row holds the outcome of *)
(* the job, unless the job's own last hook was cut short, and no row says  *)
(* COMPLETED of a job that did not complete.                               *)
THEOREM RowsFollowTheJobs == Spec => []RowsFollowJobs
<1>1. RunInv /\ EndInv => RowsFollowJobs
  <2> SUFFICES ASSUME RunInv, EndInv, NEW i \in Jobs
               PROVE  /\ node[i] = "COMPLETED" => exec[i] = "COMPLETED" \/ Redone
                      /\ hook[i] = "idle" /\ exec[i] \in Terminal /\ node[i] # "ABSENT" /\ i \notin lost =>
                           Shown(i) = MapStatus(exec[i])
    BY DEF RowsFollowJobs, Redone
  <2>1. EndsOfJob(i)
    BY DEF EndInv, RowsOfEnds
  <2>2. CASE ended[i] = "NONE"
    BY <2>1, <2>2 DEF EndsOfJob, Shown, MapStatus, Active, Terminal
  <2>3. CASE ended[i] # "NONE"
    <3>1. ASSUME exec[i] \in Terminal PROVE ended[i] = exec[i] /\ MapStatus(exec[i]) \in NodeTerminal
      BY <2>1, <2>3, <3>1, RowOfEnded DEF EndsOfJob, Terminal
    <3> QED BY <2>1, <2>3, <3>1 DEF EndsOfJob, Shown, NodeTerminal, Written
  <2> QED BY <2>2, <2>3
<1> QED BY <1>1, RunInvHolds, EndInvHolds, PTL

(* A run whose jobs have ended is over, unless its plan was empty, two     *)
(* follow-ups decided at once, a correlation or the recon hook raised, or  *)
(* some hook was cut short and has not been made up for.                   *)
THEOREM QuietRunsAreOver == Spec => []QuietRunIsOver
<1>1. RunInv /\ EndInv => QuietRunIsOver
  <2> SUFFICES ASSUME RunInv, EndInv, Quiet, run = "RUNNING", Sound, lost = {}
               PROVE  plan = <<>>
    BY DEF QuietRunIsOver, Sound
  <2> USE PlanHasJobs DEF RunInv, TypeOK
  <2>1. \A i \in Jobs : hook[i] = "idle" /\ exec[i] \notin Active /\ EndsOfJob(i)
    BY DEF Quiet, EndInv, RowsOfEnds
  <2>2. exec[0] = "COMPLETED"
    <3>1. exec[0] \in Terminal /\ exec[0] # "SKIPPED"
      BY <2>1 DEF EndInv, RowsOfEnds, ReconOutcome
    <3>2. ended[0] = exec[0]
      BY <2>1, <3>1 DEF EndsOfJob
    <3> QED BY <2>1, <3>1, <3>2 DEF EndInv, RowsOfEnds, ReconOutcome, ReconOver, Terminal, Sound, Written
  <2>3. ~Decided
    BY <2>1 DEF Decided, Deciding
  <2>4. ~Undecided
    <3>1. ASSUME NEW j \in Scans, node[j] = "WAITING" PROVE FALSE
      <4>1. ended[j] # "NONE"
        BY <2>1, <3>1 DEF EndsOfJob
      <4>2. MapStatus(ended[j]) \in NodeTerminal /\ node[j] = MapStatus(ended[j])
        BY <2>1, <4>1, RowOfEnded DEF EndsOfJob, Written
      <4> QED BY <3>1, <4>2 DEF NodeTerminal
    <3> QED BY <3>1 DEF Undecided
  <2>5. Scans = {}
    BY <2>1, <2>2, <2>3, <2>4 DEF EndInv, SomeoneDecides, ReconDone, ReconOver, Written
  <2> QED BY <2>5 DEF Scans
<1> QED BY <1>1, RunInvHolds, EndInvHolds, PTL

(* With no cancel and no retry a run is correlated twice at the most,      *)
(* unless it was completed between a hook's two readings.                  *)
THEOREM RunsCorrelateTwiceAtMost == Spec => []CorrelatedTwiceAtMost
<1>1. RunInv /\ EndInv => CorrelatedTwiceAtMost
  BY DEF RunInv, TypeOK, EndInv, Correlators, Unasked, CorrelatedTwiceAtMost
<1> QED BY <1>1, RunInvHolds, EndInvHolds, PTL
=============================================================================
