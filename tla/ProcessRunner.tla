--------------------------- MODULE ProcessRunner ----------------------------
(***************************************************************************)
(* run_subprocess(): a tool's process, its timeout and its termination, as *)
(* ExecutionManager._execute_job() awaits it -- under a timeout of its own *)
(* of the same length, started earlier -- or called by itself.             *)
(***************************************************************************)
EXTENDS Naturals

CONSTANTS Calls, Managed,      \* calls, and those that the manager awaits
          Timeout, Grace,      \* timeout_seconds, _TERMINATE_GRACE_SECONDS
          LastTick             \* bound on the clock

ASSUME ClockAssumption == /\ Timeout \in Nat /\ Grace \in Nat /\ LastTick \in Nat
                          /\ Managed \subseteq Calls

VARIABLES now, call, process, began, stubborn

runnerVars == <<now, call, process, began, stubborn>>

Ended == {"returned", "timed out", "abandoned"}

-----------------------------------------------------------------------------
(* When the timer of the phase a call is in is due.                        *)
DueAt(c) == began[c] + IF call[c] = "waiting" THEN Timeout ELSE Grace
Timed == {"waiting", "terminating", "draining"}
Due(c) == call[c] \in Timed /\ now >= DueAt(c)

Enters(c, phase) ==
    /\ call' = [call EXCEPT ![c] = phase]
    /\ began' = [began EXCEPT ![c] = now]

(* The manager's wait_for() has been counting from the start, at tick 0.   *)
ManagerIsDue(c) == c \in Managed /\ now >= Timeout

Spawn(c) ==
    /\ call[c] = "spawning" /\ ~ManagerIsDue(c)
    /\ Enters(c, "waiting")
    /\ process' = [process EXCEPT ![c] = "running"]
    /\ \E ignores \in BOOLEAN : stubborn' = [stubborn EXCEPT ![c] = ignores]
    /\ UNCHANGED now

(* The process ends by itself, or because it was asked to.                 *)
ProcessExits(c) ==
    /\ process[c] \in {"running", "asked"} /\ ~(process[c] = "asked" /\ stubborn[c])
    /\ process' = [process EXCEPT ![c] = "dead"]
    /\ UNCHANGED <<now, call, began, stubborn>>

(* communicate() returns once the process has ended.                       *)
Return(c) ==
    /\ call[c] = "waiting" /\ process[c] = "dead" /\ ~ManagerIsDue(c)
    /\ Enters(c, "returned")
    /\ UNCHANGED <<now, process, stubborn>>

(* The timeout of run_subprocess() itself.                                 *)
TimeOut(c) ==
    /\ call[c] = "waiting" /\ Due(c) /\ ~ManagerIsDue(c)
    /\ Enters(c, "terminating")
    /\ process' = [process EXCEPT ![c] = IF @ = "running" THEN "asked" ELSE @]
    /\ UNCHANGED <<now, stubborn>>

(* Mutant: a process that ignores terminate() is left alone.               *)
TerminateGivesUp(c) ==
    /\ call[c] = "terminating" /\ (process[c] = "dead" \/ Due(c))
    /\ Enters(c, "draining")
    /\ UNCHANGED <<now, process, stubborn>>

(* terminate_process(): a process that ignores terminate() is killed.      *)
TerminateWaits(c) ==
    /\ call[c] = "terminating"
    /\ \/ /\ process[c] = "dead" /\ UNCHANGED process
       \/ /\ process[c] # "dead" /\ Due(c)
          /\ process' = [process EXCEPT ![c] = "dead"]
    /\ Enters(c, "draining")
    /\ UNCHANGED <<now, stubborn>>

(* What is left of the output is read, for as long as Grace.               *)
Drained(c) ==
    /\ call[c] = "draining"
    /\ Enters(c, "timed out")
    /\ UNCHANGED <<now, process, stubborn>>

(* The manager's timeout, or the cancellation of the job's task: the call  *)
(* is cancelled where it is.  Nothing in it catches that; asyncio itself   *)
(* closes a process that is still being spawned.                           *)
Abandon(c) ==
    /\ call[c] \notin Ended
    /\ Enters(c, "abandoned")
    /\ UNCHANGED <<now, process, stubborn>>

ManagerTimesOut(c) == ManagerIsDue(c) /\ Abandon(c)
JobCancelled(c) == c \in Managed /\ Abandon(c)

(* A timer that is due goes off before the clock moves on.                 *)
Tick ==
    /\ now < LastTick
    /\ \A c \in Calls : call[c] \notin Ended => ~Due(c) /\ ~ManagerIsDue(c)
    /\ now' = now + 1
    /\ UNCHANGED <<call, process, began, stubborn>>

RunnerInit ==
    /\ now = 0
    /\ call = [c \in Calls |-> "spawning"] /\ process = [c \in Calls |-> "none"]
    /\ began = [c \in Calls |-> 0] /\ stubborn = [c \in Calls |-> FALSE]

RunnerNext ==
    \/ Tick
    \/ \E c \in Calls :
          \/ Spawn(c) \/ ProcessExits(c) \/ Return(c) \/ TimeOut(c) \/ TerminateWaits(c)
          \/ Drained(c) \/ ManagerTimesOut(c) \/ JobCancelled(c)

RunnerSpec == RunnerInit /\ [][RunnerNext]_runnerVars

-----------------------------------------------------------------------------
RunnerTypeOK ==
    /\ now \in 0 .. LastTick /\ began \in [Calls -> 0 .. LastTick]
    /\ call \in [Calls -> {"spawning"} \cup Timed \cup Ended]
    /\ process \in [Calls -> {"none", "running", "asked", "dead"}]

(* "On timeout, the process is terminated (then killed ...)": a call that  *)
(* comes back leaves no process, even one that ignores terminate().  Under *)
(* the manager that timeout never gets its turn -- the manager's own goes  *)
(* off first -- so a process outlives its job exactly when the job timed   *)
(* out or was cancelled.                                                   *)
OnlyAbandonedProcessesLive ==
    \A c \in Calls :
        /\ call[c] \in {"returned", "timed out"} => process[c] = "dead"
        /\ c \in Managed => call[c] \notin {"terminating", "draining", "timed out"}
=============================================================================
