--------------------------- MODULE ExecutionQueue ---------------------------
(***************************************************************************)
(* backend/workers/queue.py as it is written: one asyncio.PriorityQueue of *)
(* entries ordered by (priority, sequence), a set of cancelled job ids and *)
(* a counter.  The priority queue is a set of entries of which get() takes *)
(* the least.  Every method runs without suspending, except that dequeue() *)
(* waits while the queue is empty; the entries it drops on the way are     *)
(* steps of their own.                                                     *)
(***************************************************************************)
EXTENDS Naturals, FiniteSets, Sequences

CONSTANTS
    Jobs,            \* ids of ToolExecution rows
    MaxSequence      \* bound: how many entries are ever made

ASSUME SequenceAssumption == MaxSequence \in Nat

VARIABLES
    entries,         \* _queue
    flagged,         \* _cancelled
    sequence         \* the next value of _sequence

heapVars == <<entries, flagged, sequence>>

DEFAULT_PRIORITY == 100
RETRY_PRIORITY == 0
Priorities == {DEFAULT_PRIORITY, RETRY_PRIORITY}

QueueEntry == [priority : Priorities, sequence : Nat, job : Jobs]

(* The order of the dataclass: by sort_key, the job id left out.           *)
Before(e, f) == \/ e.priority < f.priority
                \/ e.priority = f.priority /\ e.sequence < f.sequence

HeapTypeOK ==
    /\ entries \subseteq QueueEntry
    /\ IsFiniteSet(entries)
    /\ flagged \subseteq Jobs
    /\ sequence \in Nat

HeapInit == entries = {} /\ flagged = {} /\ sequence = 0

Entry(j, priority) == [priority |-> priority, sequence |-> sequence, job |-> j]

(* Mutant: a job that was cancelled in the queue stays cancelled.          *)
EnqueueKeepsFlag(j, priority) ==
    /\ sequence < MaxSequence
    /\ entries' = entries \cup {Entry(j, priority)}
    /\ sequence' = sequence + 1
    /\ UNCHANGED flagged

(* enqueue().                                                              *)
Enqueue(j, priority) ==
    /\ sequence < MaxSequence
    /\ flagged' = flagged \ {j}
    /\ entries' = entries \cup {Entry(j, priority)}
    /\ sequence' = sequence + 1

(* What get() returns: an entry no other comes before.                     *)
Least(e) == e \in entries /\ \A f \in entries : ~Before(f, e)

DequeueSkips(e) ==
    /\ Least(e) /\ e.job \in flagged
    /\ flagged' = flagged \ {e.job}
    /\ entries' = entries \ {e}
    /\ UNCHANGED sequence

DequeueReturns(e) ==
    /\ Least(e) /\ e.job \notin flagged
    /\ entries' = entries \ {e}
    /\ UNCHANGED <<flagged, sequence>>

CancelQueued(j) ==
    /\ flagged' = flagged \cup {j}
    /\ UNCHANGED <<entries, sequence>>

HeapNext ==
    \/ \E j \in Jobs, p \in Priorities : Enqueue(j, p)
    \/ \E e \in entries : DequeueSkips(e) \/ DequeueReturns(e)
    \/ \E j \in Jobs : CancelQueued(j)

HeapSpec == HeapInit /\ [][HeapNext]_heapVars

-----------------------------------------------------------------------------
(* Some entries in the order get() returns them.                           *)
Rank(S, e) == Cardinality({f \in S : Before(f, e)})
InOrder(S) == [i \in 1..Cardinality(S) |-> CHOOSE e \in S : Rank(S, e) = i - 1]

(* The jobs of one priority in the order get() will return them.           *)
EntriesOf(priority) == {e \in entries : e.priority = priority}
LaneOf(priority) ==
    [i \in 1..Cardinality(EntriesOf(priority)) |-> InOrder(EntriesOf(priority))[i].job]

PriorityOf(lane) == IF lane = "retry" THEN RETRY_PRIORITY ELSE DEFAULT_PRIORITY

(* The heap and the flags are two first-in first-out lanes to whoever uses *)
(* the queue: retries first, in the order they were put, a cancelled job's *)
(* next entry dropped, and an entry put again after its cancellation kept. *)
Lanes == INSTANCE LaneQueue WITH
            queue <- [l \in {"retry", "default"} |-> LaneOf(PriorityOf(l))]

ImplementsLanes == Lanes!QueueSpec

(* get() has one answer: no two entries compare equal, which the job id,   *)
(* left out of the comparison, could not settle.                           *)
LeastIsUnique == \A e, f \in entries : Least(e) /\ Least(f) => e = f
=============================================================================
