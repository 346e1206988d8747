----------------------------- MODULE JobStates -----------------------------
(***************************************************************************)
(* The job state machine of backend/workers/state.py: the statuses a       *)
(* ToolExecution row can hold, the transition table the docstring calls    *)
(* authoritative, and the three groups the execution manager asks about.   *)
(* "ABSENT" is a row that the planner has not inserted yet.                *)
(***************************************************************************)

JobStatus == {"PENDING", "QUEUED", "PREPARING", "RUNNING", "COMPLETED",
              "FAILED", "CANCELLED", "TIMEOUT", "SKIPPED"}

(* Jobs cancel() may act on.                                               *)
ActiveStatuses == {"PENDING", "QUEUED", "PREPARING", "RUNNING"}

(* Jobs that reached an end state.                                         *)
TerminalStatuses == {"COMPLETED", "FAILED", "CANCELLED", "TIMEOUT", "SKIPPED"}

(* Jobs retry() accepts.                                                   *)
RetriableStatuses == {"FAILED", "CANCELLED", "TIMEOUT"}

(* The end states a job's own execution or a cancellation can produce.     *)
FinalOutcomes == {"COMPLETED", "FAILED", "CANCELLED", "TIMEOUT"}

AllowedTransitions ==
    [s \in JobStatus |->
        CASE s = "PENDING"   -> {"QUEUED", "SKIPPED"}
          [] s = "QUEUED"    -> {"PREPARING", "CANCELLED"}
          [] s = "PREPARING" -> {"RUNNING", "FAILED", "CANCELLED"}
          [] s = "RUNNING"   -> {"COMPLETED", "FAILED", "CANCELLED", "TIMEOUT"}
          [] s \in RetriableStatuses -> {"QUEUED"}
          [] OTHER -> {}]

IsTransitionAllowed(current, target) == target \in AllowedTransitions[current]
=============================================================================
