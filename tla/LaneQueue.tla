----------------------------- MODULE LaneQueue -----------------------------
(***************************************************************************)
(* What the ExecutionQueue of backend/workers/queue.py promises: two       *)
(* first-in first-out lanes of job ids, retries ahead of fresh jobs, and a *)
(* flag that makes dequeue() drop the next entry of a cancelled job.  An   *)
(* entry cannot be removed, so a job may have several.                     *)
(*                                                                         *)
(* ExecutionQueue implements this; ExecutionManager is built on it.        *)
(***************************************************************************)
EXTENDS Naturals, Sequences

CONSTANT Jobs    \* ids of ToolExecution rows

VARIABLES
    queue,       \* [Lanes -> Seq(Jobs)]
    flagged      \* _cancelled

(* The two priorities of queue.py.                                         *)
Lanes == {"retry", "default"}

QueueOK ==
    /\ queue \in [Lanes -> Seq(Jobs)]
    /\ flagged \subseteq Jobs

QueueInit == queue = [l \in Lanes |-> <<>>] /\ flagged = {}

Empty == \A l \in Lanes : queue[l] = <<>>
HeadLane == IF queue["retry"] # <<>> THEN "retry" ELSE "default"
NextJob == Head(queue[HeadLane])
Popped == [queue EXCEPT ![HeadLane] = Tail(@)]

(* enqueue() of some jobs, one after the other: their flags are discarded. *)
Put(lane, jobs) ==
    /\ queue' = [queue EXCEPT ![lane] = @ \o jobs]
    /\ flagged' = flagged \ {jobs[i] : i \in DOMAIN jobs}

(* cancel_queued().                                                        *)
Flag(j) == flagged' = flagged \cup {j} /\ UNCHANGED queue

(* dequeue() drops the entry of a flagged job, and its flag.               *)
Skip ==
    /\ ~Empty /\ NextJob \in flagged
    /\ flagged' = flagged \ {NextJob}
    /\ queue' = Popped

(* dequeue() returns NextJob.                                              *)
Take ==
    /\ ~Empty /\ NextJob \notin flagged
    /\ queue' = Popped
    /\ UNCHANGED flagged

QueueNext ==
    \/ \E l \in Lanes, j \in Jobs : Put(l, <<j>>)
    \/ \E j \in Jobs : Flag(j)
    \/ Skip
    \/ Take

QueueSpec == QueueInit /\ [][QueueNext]_<<queue, flagged>>
=============================================================================
