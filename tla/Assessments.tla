---------------------------- MODULE Assessments -----------------------------
(***************************************************************************)
(* AssessmentService and the writes of the execution manager.  A request   *)
(* reads an assessment, decides on what it read and writes the columns it  *)
(* changes; other sessions commit in between.  The manager marks an        *)
(* assessment RUNNING when jobs are queued, and when one is queued again,  *)
(* and settles it once the last job has left its cohort.  Cohorts are      *)
(* joined and left in memory, before or after the transaction that goes    *)
(* with it.  A transaction of the manager is taken as one step.            *)
(***************************************************************************)
EXTENDS Naturals, FiniteSets

CONSTANTS Ids, First,            \* assessments, and the one that exists already
          Names, FirstName,
          Requests,              \* each is made once
          Editable,              \* the statuses an update asks for
          Endpoints,             \* target values the pipeline adds
          MaxRuns                \* bound on the runs and retries of an assessment

Unset == "none"
Statuses == {"DRAFT", "READY", "RUNNING", "PAUSED", "COMPLETED", "CANCELLED", "ARCHIVED"}
ASSUME FirstAssumption == First \in Ids /\ FirstName \in Names /\ Editable \subseteq Statuses
                          /\ Unset \notin Names /\ MaxRuns \in Nat

VARIABLES row,          \* the assessments; one that is not created has no name
          request,      \* what a request does, with the row it read
          cohort,       \* the assessment has a cohort of jobs
          runs,         \* how often its jobs were queued
          marking,      \* the runs that joined and have yet to mark it
          joining,      \* the retries that marked it and have yet to join
          settling,     \* the cohorts that ended and have yet to settle it, by
                        \* whether all their jobs were cancelled
          before,       \* history: the status that the last mark found, until
                        \* it is settled
          touched       \* history: a request wrote either status since

cohortVars == <<cohort, runs, marking, joining, settling>>
assessmentVars == <<row, request, cohortVars, before, touched>>

Absent == [name |-> Unset, status |-> "DRAFT", previous |-> Unset, deleted |-> FALSE, targets |-> {}]
Fresh(name, targets) == [Absent EXCEPT !.name = name, !.targets = targets]
Active(a) == row[a].name # Unset /\ ~row[a].deleted
Taken(name) == \E a \in Ids : Active(a) /\ row[a].name = name

-----------------------------------------------------------------------------
Waiting == [op |-> "waiting", a |-> First, to |-> Unset, seen |-> Absent]
Done == [Waiting EXCEPT !.op = "done"]

Reads(r, op, a, to) ==
    request' = [request EXCEPT ![r] = [op |-> op, a |-> a, to |-> to, seen |-> row[a]]]

CreateReads(r) ==
    \E a \in Ids, n \in Names :
        row[a].name = Unset /\ ~Taken(n) /\ Reads(r, "create", a, n)

(* The copy's name is the one asked for, or the first free "(Copy)" name.  *)
DuplicateReads(r) ==
    \E a, b \in Ids, n \in Names :
        /\ Active(a) /\ row[b].name = Unset /\ ~Taken(n)
        /\ request' = [request EXCEPT ![r] = [op |-> "create", a |-> b, to |-> n, seen |-> row[a]]]

(* An update is told here by the column it writes: the name or the status. *)
RenameReads(r) ==
    \E a \in Ids, n \in Names :
        Active(a) /\ n # row[a].name /\ ~Taken(n) /\ Reads(r, "rename", a, n)

(* Mutant: ARCHIVED is only refused as the new status.                     *)
UpdateReadsAny(r) ==
    \E a \in Ids, s \in Editable \ {"ARCHIVED"} : Active(a) /\ Reads(r, "update", a, s)

UpdateReads(r) ==
    \E a \in Ids, s \in Editable \ {"ARCHIVED"} :
        Active(a) /\ row[a].status # "ARCHIVED" /\ Reads(r, "update", a, s)

DeleteReads(r) == \E a \in Ids : Active(a) /\ Reads(r, "delete", a, Unset)

ArchiveReads(r) ==
    \E a \in Ids : Active(a) /\ row[a].status # "ARCHIVED" /\ Reads(r, "archive", a, "ARCHIVED")

RestoreReads(r) ==
    \E a \in Ids :
        /\ Active(a) /\ row[a].status = "ARCHIVED"
        /\ Reads(r, "restore", a, IF row[a].previous = Unset THEN "READY" ELSE row[a].previous)

RequestReads(r) ==
    /\ request[r] = Waiting
    /\ \/ CreateReads(r) \/ DuplicateReads(r) \/ RenameReads(r) \/ UpdateReads(r)
       \/ DeleteReads(r) \/ ArchiveReads(r) \/ RestoreReads(r)
    /\ UNCHANGED <<row, cohortVars, before, touched>>

-----------------------------------------------------------------------------
(* uq_assessments_name_active; an id is new.                               *)
NameFree(q) == ~Taken(q.to)

(* Only a column whose value differs from the one read is written.  The    *)
(* answer reads the assessment again: one deleted meanwhile is not found,  *)
(* and the session is rolled back.                                         *)
Column(old, seen, new) == IF new = seen THEN old ELSE new

Written(q) ==
    LET old == row[q.a]
        Status(previous) ==
            [old EXCEPT !.status = Column(@, q.seen.status, q.to),
                        !.previous = Column(@, q.seen.previous, previous)]
    IN  CASE q.op = "create" -> Fresh(q.to, {[t EXCEPT !.origin = "USER"] : t \in q.seen.targets})
          [] q.op = "rename" -> [old EXCEPT !.name = q.to]
          [] q.op = "update" -> Status(q.seen.previous)
          [] q.op = "delete" -> [old EXCEPT !.deleted = TRUE]
          [] q.op = "archive" -> Status(q.seen.status)
          [] q.op = "restore" -> Status(Unset)

Commits(q) ==
    /\ q.op \in {"create", "rename"} => NameFree(q)
    /\ q.op \in {"rename", "update", "archive", "restore"} => ~row[q.a].deleted
    /\ q.op = "create" => row[q.a].name = Unset

RequestWrites(r) ==
    LET q == request[r] IN
    /\ q.op \notin {"waiting", "done"}
    /\ row' = IF Commits(q) THEN [row EXCEPT ![q.a] = Written(q)] ELSE row
    /\ touched' = [touched EXCEPT ![q.a] = @ \/ <<row'[q.a].status, row'[q.a].previous>>
                                               # <<row[q.a].status, row[q.a].previous>>]
    /\ request' = [request EXCEPT ![r] = Done]
    /\ UNCHANGED <<cohortVars, before>>

-----------------------------------------------------------------------------
(* A user, or the pipeline, adds a target.                                 *)
AddTarget(a) ==
    /\ Active(a)
    /\ \E v \in Endpoints \ {t.value : t \in row[a].targets}, o \in {"USER", "PIPELINE"} :
          row' = [row EXCEPT ![a].targets = @ \cup {[value |-> v, origin |-> o]}]
    /\ UNCHANGED <<request, cohortVars, before, touched>>

(* enqueue() replaces the cohort: any status will do.                      *)
Execute(a) ==
    /\ Active(a) /\ runs[a] < MaxRuns
    /\ cohort' = [cohort EXCEPT ![a] = TRUE]
    /\ runs' = [runs EXCEPT ![a] = @ + 1]
    /\ marking' = [marking EXCEPT ![a] = @ + 1]
    /\ UNCHANGED <<row, request, joining, settling, before, touched>>

(* Mutant: every mark saves the status.                                    *)
MarkedAgain(x) == [x EXCEPT !.previous = x.status, !.status = "RUNNING"]

MarkedRunning(x) ==
    IF x.status = "RUNNING" THEN x
    ELSE [x EXCEPT !.previous = x.status, !.status = "RUNNING"]

MarkRunning(a) ==
    /\ row' = [row EXCEPT ![a] = MarkedRunning(@)]
    /\ IF row[a].status = "RUNNING" THEN UNCHANGED <<before, touched>>
       ELSE /\ before' = [before EXCEPT ![a] = row[a].status]
            /\ touched' = [touched EXCEPT ![a] = FALSE]

RunMarks(a) ==
    /\ marking[a] > 0
    /\ MarkRunning(a)
    /\ marking' = [marking EXCEPT ![a] = @ - 1]
    /\ UNCHANGED <<request, cohort, runs, joining, settling>>

(* retry() of a job that ended: nothing looks at the assessment first.     *)
RetryMarks(a) ==
    /\ 0 < runs[a] /\ runs[a] < MaxRuns
    /\ MarkRunning(a)
    /\ runs' = [runs EXCEPT ![a] = @ + 1]
    /\ joining' = [joining EXCEPT ![a] = @ + 1]
    /\ UNCHANGED <<request, cohort, marking, settling>>

RetryJoins(a) ==
    /\ joining[a] > 0
    /\ joining' = [joining EXCEPT ![a] = @ - 1]
    /\ cohort' = [cohort EXCEPT ![a] = TRUE]
    /\ UNCHANGED <<row, request, runs, marking, settling, before, touched>>

(* Jobs that ended otherwise than by a cancel had been marked before.      *)
LastJobLeaves(a) ==
    /\ cohort[a]
    /\ cohort' = [cohort EXCEPT ![a] = FALSE]
    /\ \E cancelled \in BOOLEAN :
          /\ cancelled \/ marking[a] < runs[a]
          /\ settling' = [settling EXCEPT ![a][cancelled] = @ + 1]
    /\ UNCHANGED <<row, request, runs, marking, joining, before, touched>>

(* _finalize_assessment(): whatever the status is by now.                  *)
Settled(x, cancelled) ==
    [x EXCEPT !.previous = Unset,
              !.status = IF ~cancelled THEN "COMPLETED"
                         ELSE IF x.previous # Unset THEN x.previous ELSE "READY"]

Settles(a) ==
    /\ \E cancelled \in BOOLEAN :
          /\ settling[a][cancelled] > 0
          /\ settling' = [settling EXCEPT ![a][cancelled] = @ - 1]
          /\ row' = [row EXCEPT ![a] = Settled(@, cancelled)]
    /\ before' = [before EXCEPT ![a] = Unset]
    /\ UNCHANGED <<request, cohort, runs, marking, joining, touched>>

AssessmentInit ==
    /\ row = [a \in Ids |-> IF a = First THEN Fresh(FirstName, {}) ELSE Absent]
    /\ request = [r \in Requests |-> Waiting]
    /\ cohort = [a \in Ids |-> FALSE] /\ touched = cohort
    /\ runs = [a \in Ids |-> 0] /\ marking = runs /\ joining = runs
    /\ settling = [a \in Ids |-> [cancelled \in BOOLEAN |-> 0]]
    /\ before = [a \in Ids |-> Unset]

AssessmentNext ==
    \/ \E r \in Requests : RequestReads(r) \/ RequestWrites(r)
    \/ \E a \in Ids : \/ AddTarget(a) \/ Execute(a) \/ RunMarks(a) \/ RetryMarks(a)
                       \/ RetryJoins(a) \/ LastJobLeaves(a) \/ Settles(a)

AssessmentSpec == AssessmentInit /\ [][AssessmentNext]_assessmentVars

-----------------------------------------------------------------------------
AssessmentTypeOK ==
    /\ \A a \in Ids : /\ row[a].name \in Names \cup {Unset} /\ row[a].status \in Statuses
                      /\ row[a].previous \in Statuses \cup {Unset} /\ row[a].deleted \in BOOLEAN
                      /\ row[a].targets \subseteq [value : Endpoints, origin : {"USER", "PIPELINE"}]
    /\ cohort \in [Ids -> BOOLEAN] /\ touched \in [Ids -> BOOLEAN]
    /\ \A a \in Ids : /\ runs[a] \in 0 .. MaxRuns /\ marking[a] + joining[a] \in 0 .. runs[a]
                      /\ \A c \in BOOLEAN : settling[a][c] \in Nat
    /\ before \in [Ids -> Statuses \cup {Unset}]

(* An archived assessment leaves ARCHIVED through restore(), through an    *)
(* update that read it before it was archived, with the mark of a run or   *)
(* of a retry, which nobody keeps from an archived assessment, or when a   *)
(* run of it is settled -- and no other way.                               *)
LeavesArchive(a) ==
    row[a].status = "ARCHIVED" /\ row'[a].status # "ARCHIVED" =>
        \/ row'[a].status = "RUNNING" /\ (marking'[a] < marking[a] \/ joining'[a] > joining[a])
        \/ \E c \in BOOLEAN : settling'[a][c] < settling[a][c]
        \/ \E r \in Requests : /\ request[r].a = a /\ request'[r] # request[r]
                               /\ \/ request[r].op = "restore"
                                  \/ /\ request[r].op = "update"
                                     /\ request[r].seen.status # "ARCHIVED"

LeavesArchiveOnlyBy == [][\A a \in Ids : LeavesArchive(a)]_assessmentVars

(* Runs and retries mark an assessment as often as they like: the first    *)
(* cohort that settles it after a mark gives it the status that the mark   *)
(* found, if all its jobs were cancelled, and leaves it COMPLETED if not,  *)
(* unless a request wrote the status, or the previous one, meanwhile.  A   *)
(* cohort that settles it once more, or before it is marked, does not.     *)
GivesStatusBack(a) ==
    before[a] # Unset /\ before'[a] = Unset /\ ~touched[a]
        => row'[a].status \in {"COMPLETED", before[a]}

RunGivesStatusBack == [][\A a \in Ids : GivesStatusBack(a)]_assessmentVars
=============================================================================
