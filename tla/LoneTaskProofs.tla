--------------------------- MODULE LoneTaskProofs ---------------------------
(***************************************************************************)
(* What holds of the execution manager until the first retry, and until    *)
(* the first retry or cancellation, for any number of jobs, workers,       *)
(* requests and restarts.  Until the first retry a job is in one place: an *)
(* entry of the queue, the dispatcher's hand, a task or a safety net.      *)
(* From that place and its status follow what the manager makes of the job *)
(* and, when nobody cancels or retries, that it implements JobLifecycle.   *)
(***************************************************************************)
EXTENDS ExecutionManagerProofs, SequenceTheorems

USE DEF dbVars, queueVars, poolVars, cohortVars, modeVars, WorkerFrame,
        RequestFrame, Goto, QueueInit, Skip, Take, Put, Flag

(* No retry, and no cancellation, has been requested yet.                  *)
Unretried == \A t \in Retries : pc[t] = "idle"
Uncancelled == \A c \in Cancels : pc[c] = "idle"

(* The actors are of one kind each.                                        *)
LEMMA Kinds ==
    /\ Workers \subseteq Actors /\ Nets \subseteq Actors /\ Runs \subseteq Actors
    /\ Cancels \subseteq Actors /\ Retries \subseteq Actors
    /\ \A a \in Workers : a \notin Nets /\ a \notin Runs /\ a \notin Cancels /\ a \notin Retries
    /\ \A a \in Nets : a \notin Runs /\ a \notin Cancels /\ a \notin Retries
    /\ \A a \in Runs : a \notin Cancels /\ a \notin Retries
    /\ \A a \in Cancels : a \notin Retries
  BY ActorsDisjoint DEF ActorsDisjoint, Actors

-----------------------------------------------------------------------------
(* What one step can be, by who takes it.                                  *)
Acts(a) ==
    \/ a \in Workers /\ WorkerNext(a) /\ ~\E n \in Nets : WorkerDone(a, n)
    \/ a \in Nets /\ NetNext(a)
    \/ a \in Runs /\ (Plan(a) \/ RunNext(a))
    \/ a \in Cancels /\ (CancelNext(a) \/ \E j \in Jobs : CancelBegin(a, j))
    \/ a \in Retries /\ (RetryNext(a) \/ \E j \in Jobs : RetryRead(a, j))

(* A task is spawned for the job in hand, or for the next of the queue.    *)
Spawns(w, j) ==
    /\ mode = "up" /\ Spawn(w, j)
    /\ \/ hand = j /\ UNCHANGED queue
       \/ hand = None /\ queue' = Popped /\ ~Empty /\ j = NextJob
    /\ UNCHANGED <<dbVars, cohortVars, out, modeVars>>

LEMMA OneActs ==
    ASSUME TypeOK, NEW a \in Actors, Acts(a)
    PROVE  /\ OnlyActor(a) /\ UNCHANGED <<running, modeVars>>
           /\ \A w \in Workers : /\ pc'[w] \in WorkerPcs <=> pc[w] \in WorkerPcs
                                 /\ job'[w] = job[w]
<1>1. CASE a \in Workers /\ WorkerNext(a) /\ ~\E n \in Nets : WorkerDone(a, n)
  <2>1. pc[a] \in WorkerPcs
    BY <1>1 DEF WorkerNext, WorkerLoad, WorkerClaim, WorkerPrepareFails, WorkerStart,
       WorkerExecuted, WorkerPersisted, WorkerPersistFails, WorkerCancelled, WorkerAt,
       Finalize, LeaveCohort, Settle, WorkerPcs
  <2>2. UNCHANGED <<running, modeVars>>
    BY <1>1 DEF WorkerNext, WorkerLoad, WorkerClaim, WorkerPrepareFails, WorkerStart,
       WorkerExecuted, WorkerPersisted, WorkerPersistFails, WorkerCancelled,
       Finalize, LeaveCohort, Settle
  <2>3. \/ Return(a)
        \/ \E label \in WorkerPcs : Goto(a, label) /\ UNCHANGED <<job, owned>>
    BY <1>1 DEF WorkerNext, WorkerLoad, WorkerClaim, WorkerPrepareFails, WorkerStart,
       WorkerExecuted, WorkerPersisted, WorkerPersistFails, WorkerCancelled,
       Finalize, LeaveCohort, Settle, WorkerPcs
  <2>4. OnlyActor(a) /\ pc'[a] \in WorkerPcs /\ job'[a] = job[a]
    BY <1>1, <2>3, GotoOnly, ReturnOnly DEF WorkerPcs
  <2> QED BY <2>1, <2>2, <2>4, Kinds DEF OnlyActor
<1>2. CASE a \in Nets /\ NetNext(a)
  <2>1. UNCHANGED <<running, modeVars>>
    BY <1>2 DEF NetNext, NetCheck, Finalize, LeaveCohort, Settle
  <2>2. Return(a) \/ \E label : Goto(a, label) /\ UNCHANGED <<job, owned>>
    BY <1>2 DEF NetNext, NetCheck, Finalize, LeaveCohort, Settle
  <2> QED BY <1>2, <2>1, <2>2, GotoOnly, ReturnOnly, Kinds DEF OnlyActor
<1>3. CASE a \in Runs /\ (Plan(a) \/ RunNext(a))
  <2>1. UNCHANGED <<running, modeVars>> /\ \E label : Goto(a, label) /\ UNCHANGED <<job, owned>>
    BY <1>3 DEF Plan, RunNext, EnqueueBegin, EnqueueCommit, EnqueuePut
  <2> QED BY <1>3, <2>1, GotoOnly, Kinds DEF OnlyActor
<1>4. CASE a \in Cancels /\ (CancelNext(a) \/ \E j \in Jobs : CancelBegin(a, j))
  <2>1. UNCHANGED <<running, modeVars>>
    BY <1>4 DEF CancelNext, CancelRead, CancelAct, LeaveCohort, Settle, CancelBegin
  <2>2. ASSUME NEW j \in Jobs, CancelBegin(a, j) PROVE OnlyActor(a)
    BY <1>4, <2>2 DEF CancelBegin, OnlyActor, TypeOK, ActorsOK
  <2>3. ASSUME CancelNext(a) PROVE OnlyActor(a)
    <3>1. Return(a) \/ \E label : Goto(a, label) /\ UNCHANGED <<job, owned>>
      BY <2>3 DEF CancelNext, CancelRead, CancelAct, LeaveCohort, Settle
    <3> QED BY <3>1, GotoOnly, ReturnOnly
  <2> QED BY <1>4, <2>1, <2>2, <2>3, Kinds DEF OnlyActor
<1>5. CASE a \in Retries /\ (RetryNext(a) \/ \E j \in Jobs : RetryRead(a, j))
  <2>1. UNCHANGED <<running, modeVars>>
    BY <1>5 DEF RetryNext, RetryCommit, RetryPut, RetryRead
  <2>2. ASSUME NEW j \in Jobs, RetryRead(a, j) PROVE OnlyActor(a)
    BY <1>5, <2>2 DEF RetryRead, OnlyActor, TypeOK, ActorsOK
  <2>3. ASSUME RetryNext(a) PROVE OnlyActor(a)
    <3>1. Return(a) \/ \E label : Goto(a, label) /\ UNCHANGED <<job, owned>>
      BY <2>3 DEF RetryNext, RetryCommit, RetryPut
    <3> QED BY <3>1, GotoOnly, ReturnOnly
  <2> QED BY <1>5, <2>1, <2>2, <2>3, Kinds DEF OnlyActor
<1> QED BY <1>1, <1>2, <1>3, <1>4, <1>5 DEF Acts

LEMMA StepKinds ==
    ASSUME TypeOK, [Next]_vars
    PROVE  \/ UNCHANGED vars \/ ProcessNext
           \/ DispatchSkip \/ DispatchHold
           \/ \E w \in Workers, j \in Jobs : Spawns(w, j)
           \/ \E w \in Workers, n \in Nets : WorkerDone(w, n)
           \/ \E a \in Actors : Acts(a)
<1>1. ASSUME NEW w \in Workers, DispatchSpawn(w) \/ DispatchHeld(w)
      PROVE  \E j \in Jobs : Spawns(w, j)
  BY <1>1, PoppedType DEF TypeOK, PoolOK, DispatchSpawn, DispatchHeld, Spawns
<1>2. CASE DispatchNext
  BY <1>1, <1>2 DEF DispatchNext
<1>3. ASSUME NEW w \in Workers, WorkerNext(w)
      PROVE  (\E n \in Nets : WorkerDone(w, n)) \/ Acts(w)
  BY <1>3 DEF Acts
<1> QED BY <1>2, <1>3, Kinds DEF Next, UserNext, Acts

(* A request that has begun stays begun.                                   *)
LEMMA NotBegun ==
    ASSUME TypeOK, [Next]_vars, NEW b \in Cancels \cup Retries, pc'[b] = "idle"
    PROVE  pc[b] = "idle" /\ ~Acts(b)
<1>1. b \in Actors /\ b \notin Tasks /\ b \notin Runs
  BY Kinds DEF Tasks
<1>2. ~Acts(b)
  BY <1>1, Kinds
     DEF Acts, Tasks, CancelNext, CancelRead, CancelAct, LeaveCohort, Settle, CancelBegin,
         RetryNext, RetryCommit, RetryPut, RetryRead, Return, TypeOK, ActorsOK
<1>3. CASE UNCHANGED vars \/ ProcessNext \/ DispatchSkip \/ DispatchHold
  BY <1>1, <1>2, <1>3 DEF vars, ProcessNext, ShutdownBegin, ShutdownEnd, Restart, Crash,
     FreshProcess, DispatchSkip, DispatchHold, Tasks
<1>4. CASE \/ \E w \in Workers, j \in Jobs : Spawns(w, j)
           \/ \E w \in Workers, n \in Nets : WorkerDone(w, n)
  BY <1>1, <1>2, <1>4 DEF Spawns, Spawn, WorkerDone, TypeOK, ActorsOK, Tasks
<1>5. CASE \E a \in Actors : Acts(a)
  BY <1>1, <1>2, <1>5, OneActs DEF OnlyActor
<1> QED BY <1>2, <1>3, <1>4, <1>5, StepKinds

LEMMA UnretriedSteps ==
    ASSUME TypeOK, [Next]_vars, Unretried'
    PROVE  /\ Unretried
           /\ ~\E t \in Retries : RetryNext(t) \/ \E j \in Jobs : RetryRead(t, j)
BY NotBegun, Kinds DEF Unretried, Acts

LEMMA UncancelledSteps ==
    ASSUME TypeOK, [Next]_vars, Uncancelled'
    PROVE  Uncancelled /\ ~\E c \in Cancels : Acts(c)
BY NotBegun DEF Uncancelled

-----------------------------------------------------------------------------
(* Until the first retry a job is in one place.                            *)

LoneEntries ==
    /\ queue["retry"] = <<>>
    /\ \A i, k \in 1..Len(queue["default"]) :
            queue["default"][i] = queue["default"][k] => i = k

(* A job is in at most one place, and in none before its request is over.  *)
LoneJob(j) ==
    /\ \A a, b \in Tasks : At(a, j) /\ At(b, j) => a = b
    /\ InQueue(j) => hand # j /\ \A a \in Tasks : ~At(a, j)
    /\ hand = j => \A a \in Tasks : ~At(a, j)
    /\ pc[RunOf[j]] # "end" => hand # j /\ ~InQueue(j) /\ \A a \in Tasks : ~At(a, j)

Lone == LoneEntries /\ \A j \in Jobs : LoneJob(j)

-----------------------------------------------------------------------------
(* The steps that put no job anywhere.                                     *)
Kept ==
    /\ \A l \in Lanes : queue'[l] \in {queue[l], <<>>}
    /\ hand' \in {hand, None}
    /\ \A a \in Tasks : pc'[a] # "idle" => pc[a] # "idle" /\ job'[a] = job[a]
    /\ \A r \in Runs : pc'[r] # "end" => pc[r] # "end"

LEMMA KeptLone ==
    ASSUME Lone, Kept
    PROVE  Lone'
<1>1. LoneEntries'
  BY DEF Lone, Kept, LoneEntries, Lanes
<1>2. ASSUME NEW j \in Jobs PROVE LoneJob(j)'
  <2>1. InQueue(j)' => InQueue(j)
    BY DEF Kept, InQueue, Contains
  <2>2. hand' = j => hand = j
    BY NoneAssumption DEF Kept, NoneAssumption
  <2>3. \A a \in Tasks : At(a, j)' => At(a, j)
    BY DEF Kept, At
  <2>4. pc'[RunOf[j]] # "end" => pc[RunOf[j]] # "end"
    BY RunAssumption DEF Kept, RunAssumption
  <2> QED BY <2>1, <2>2, <2>3, <2>4 DEF Lone, LoneJob
<1> QED BY <1>1, <1>2 DEF Lone

(* A coroutine that goes on, or returns, puts no job anywhere.             *)
LEMMA CoroutineKept ==
    ASSUME TypeOK, NEW a \in Actors,
           a \in Tasks \cup Retries => pc[a] # "idle",
           a \in Runs => pc[a] # "end" /\ ~Return(a),
           \/ Return(a)
           \/ (\E label : Goto(a, label)) /\ UNCHANGED job
           \/ /\ a \notin Tasks
              /\ \E label : Goto(a, label)
              /\ \E j : job' = [job EXCEPT ![a] = j],
           UNCHANGED <<queue, hand>>
    PROVE  Kept
<1>1. \A b \in Actors : b # a => pc'[b] = pc[b] /\ job'[b] = job[b]
  BY DEF TypeOK, ActorsOK, Return
<1>2. a \in Tasks /\ pc'[a] # "idle" => job'[a] = job[a]
  BY Kinds DEF TypeOK, ActorsOK, Return, Tasks
<1> QED BY <1>1, <1>2, Kinds DEF Kept, Tasks

LEMMA TaskKept ==
    ASSUME TypeOK, NEW a \in Tasks, a \in Workers => WorkerNext(a), a \in Nets => NetNext(a),
           ~\E n \in Nets : WorkerDone(a, n)
    PROVE  Kept
<1>1. a \in Actors /\ a \notin Runs
  BY Kinds DEF Tasks
<1>2. CASE a \in Workers
  <2>1. pc[a] # "idle"
    BY <1>2 DEF WorkerNext, WorkerLoad, WorkerClaim, WorkerPrepareFails, WorkerStart,
       WorkerExecuted, WorkerPersisted, WorkerPersistFails, WorkerCancelled, WorkerAt,
       Finalize, LeaveCohort, Settle
  <2>2. UNCHANGED <<queue, hand>>
    BY <1>2 DEF WorkerNext, WorkerLoad, WorkerClaim, WorkerPrepareFails, WorkerStart,
       WorkerExecuted, WorkerPersisted, WorkerPersistFails, WorkerCancelled,
       Finalize, LeaveCohort, Settle
  <2>3. Return(a) \/ ((\E label : Goto(a, label)) /\ UNCHANGED job)
    BY <1>2 DEF WorkerNext, WorkerLoad, WorkerClaim, WorkerPrepareFails, WorkerStart,
       WorkerExecuted, WorkerPersisted, WorkerPersistFails, WorkerCancelled,
       Finalize, LeaveCohort, Settle
  <2> QED BY <1>1, <2>1, <2>2, <2>3, CoroutineKept
<1>3. CASE a \in Nets
  <2>1. pc[a] # "idle" /\ UNCHANGED <<queue, hand>>
    BY <1>3 DEF NetNext, NetCheck, Finalize, LeaveCohort, Settle
  <2>2. Return(a) \/ ((\E label : Goto(a, label)) /\ UNCHANGED job)
    BY <1>3 DEF NetNext, NetCheck, Finalize, LeaveCohort, Settle
  <2> QED BY <1>1, <2>1, <2>2, CoroutineKept
<1> QED BY <1>2, <1>3 DEF Tasks

LEMMA RequestKept ==
    ASSUME TypeOK,
           \/ \E r \in Runs : Plan(r) \/ EnqueueBegin(r) \/ EnqueueCommit(r)
           \/ \E c \in Cancels : CancelNext(c) \/ \E j \in Jobs : CancelBegin(c, j)
    PROVE  Kept
<1>1. ASSUME NEW r \in Runs, Plan(r) \/ EnqueueBegin(r) \/ EnqueueCommit(r) PROVE Kept
  <2>1. /\ pc[r] # "end" /\ UNCHANGED <<queue, hand, job>>
        /\ \E label : Goto(r, label)
    BY <1>1 DEF Plan, EnqueueBegin, EnqueueCommit
  <2>2. \A b \in Actors : b # r => pc'[b] = pc[b]
    BY <2>1 DEF TypeOK, ActorsOK
  <2> QED BY <2>1, <2>2, Kinds DEF Kept, Tasks
<1>2. ASSUME NEW c \in Cancels, CancelNext(c) PROVE Kept
  <2>1. /\ UNCHANGED <<queue, hand>>
        /\ Return(c) \/ ((\E label : Goto(c, label)) /\ UNCHANGED job)
    BY <1>2 DEF CancelNext, CancelRead, CancelAct, LeaveCohort, Settle
  <2> QED BY <2>1, CoroutineKept, Kinds DEF Tasks
<1>3. ASSUME NEW c \in Cancels, NEW j \in Jobs, CancelBegin(c, j) PROVE Kept
  <2>1. /\ UNCHANGED <<queue, hand>> /\ Goto(c, "read") /\ job' = [job EXCEPT ![c] = j]
    BY <1>3 DEF CancelBegin
  <2>2. \A b \in Actors : b # c => pc'[b] = pc[b] /\ job'[b] = job[b]
    BY <2>1 DEF TypeOK, ActorsOK
  <2> QED BY <2>1, <2>2, Kinds DEF Kept, Tasks
<1> QED BY <1>1, <1>2, <1>3

LEMMA LoneCases ==
    ASSUME TypeOK, [Next]_vars, Unretried'
    PROVE  \/ Kept
           \/ DispatchSkip \/ DispatchHold
           \/ \E w \in Workers : DispatchSpawn(w) \/ DispatchHeld(w)
           \/ \E w \in Workers, n \in Nets : WorkerDone(w, n)
           \/ \E r \in Runs : EnqueuePut(r)
<1>1. CASE UNCHANGED vars
  BY <1>1 DEF vars, Kept
<1>2. CASE ProcessNext
  <2>1. CASE ShutdownBegin \/ ShutdownEnd
    BY <2>1 DEF ShutdownBegin, ShutdownEnd, Kept
  <2>2. CASE FreshProcess
    BY <2>2, Kinds DEF FreshProcess, Kept, Tasks, Actors
  <2> QED BY <1>2, <2>1, <2>2 DEF ProcessNext, Restart, Crash
<1>3. ASSUME NEW w \in Workers, WorkerNext(w), ~\E n \in Nets : WorkerDone(w, n) PROVE Kept
  BY <1>3, TaskKept, Kinds DEF Tasks
<1>4. ASSUME NEW n \in Nets, NetNext(n) PROVE Kept
  <2>1. ~\E m \in Nets : WorkerDone(n, m)
    BY <1>4 DEF NetNext, NetCheck, Finalize, LeaveCohort, Settle, WorkerDone
  <2> QED BY <1>4, <2>1, TaskKept, Kinds DEF Tasks
<1> QED BY <1>1, <1>2, <1>3, <1>4, RequestKept, UnretriedSteps
        DEF Next, DispatchNext, RunNext, UserNext

-----------------------------------------------------------------------------
(* The steps that move a job from one place to the next.                   *)

(* With no retry the queue is its default lane.                            *)
LEMMA DefaultLane ==
    ASSUME queue["retry"] = <<>>, QueueOK, NEW j \in Jobs
    PROVE  InQueue(j) <=> \E i \in 1..Len(queue["default"]) : queue["default"][i] = j
<1>1. ~Contains(queue["retry"], j)
  BY DEF Contains
<1> QED BY <1>1 DEF InQueue, Lanes, Contains

(* The entry that is taken was the only one of its job.                    *)
LEMMA PopLone ==
    ASSUME QueueOK, QueueOK', LoneEntries, ~Empty, queue' = Popped
    PROVE  /\ LoneEntries'
           /\ \E k \in Jobs : k = NextJob /\ InQueue(k) /\ ~InQueue(k)'
           /\ \A j \in Jobs : InQueue(j)' => InQueue(j)
<1> DEFINE q == queue["default"]
           t == queue'["default"]
<1>1. /\ queue["retry"] = <<>> /\ HeadLane = "default" /\ q \in Seq(Jobs) /\ q # <<>>
      /\ \A i, k \in 1..Len(q) : q[i] = q[k] => i = k
  BY DEF QueueOK, LoneEntries, Empty, HeadLane, Lanes
<1>2. NextJob = q[1] /\ queue'["retry"] = <<>> /\ t = Tail(q)
  BY <1>1 DEF NextJob, Popped, QueueOK, Lanes
<1> HIDE DEF q, t
<1>3. /\ Len(q) \in Nat /\ 1 \in 1..Len(q) /\ Len(t) = Len(q) - 1
      /\ \A i \in 1..Len(t) : i + 1 \in 1..Len(q) /\ t[i] = q[i + 1]
  BY <1>1, <1>2
<1>4. LoneEntries'
  <2>1. ASSUME NEW i \in 1..Len(t), NEW k \in 1..Len(t), t[i] = t[k]
        PROVE  i = k
    <3>1. i + 1 \in 1..Len(q) /\ k + 1 \in 1..Len(q) /\ q[i + 1] = q[k + 1]
      BY <1>3, <2>1
    <3>2. \A m, n \in 1..Len(q) : q[m] = q[n] => m = n
      BY <1>1
    <3>3. i + 1 = k + 1
      BY <3>1, <3>2, Zenon
    <3>4. i \in Nat /\ k \in Nat
      BY <1>3
    <3> QED BY <3>3, <3>4
  <2>2. \A i, k \in 1..Len(t) : t[i] = t[k] => i = k
    BY <2>1, Zenon
  <2> QED BY <1>2, <2>2, Zenon DEF LoneEntries, t
<1>5. ASSUME NEW j \in Jobs PROVE InQueue(j) <=> \E i \in 1..Len(q) : q[i] = j
  BY <1>1, DefaultLane DEF q
<1>6. ASSUME NEW j \in Jobs PROVE InQueue(j)' <=> \E i \in 1..Len(t) : t[i] = j
  <2>1. InQueue(j)' <=> \E i \in 1..Len(queue'["default"]) : queue'["default"][i] = j
    <3>1. ~Contains(queue["retry"], j)'
      BY <1>2 DEF Contains
    <3> QED BY <3>1 DEF InQueue, Lanes, Contains
  <2> QED BY <2>1 DEF t
<1>7. PICK k \in Jobs : k = q[1]
  BY <1>1, <1>3
<1>8. ~InQueue(k)'
  <2> SUFFICES ASSUME NEW i \in 1..Len(t), t[i] = q[1] PROVE FALSE
    BY <1>6, <1>7
  <2>1. q[i + 1] = q[1] /\ i + 1 \in 1..Len(q)
    BY <1>3
  <2> QED BY <1>1, <1>3, <2>1
<1>9. \A j \in Jobs : InQueue(j)' => InQueue(j)
  BY <1>3, <1>5, <1>6
<1> QED BY <1>2, <1>3, <1>4, <1>5, <1>7, <1>8, <1>9

(* Entries of jobs that have none are added.                               *)
LEMMA PutLone ==
    ASSUME QueueOK, QueueOK', LoneEntries, NEW S \in SUBSET Jobs, NEW order \in SetToSeqs(S),
           Put("default", order), \A j \in S : ~InQueue(j)
    PROVE  /\ LoneEntries'
           /\ \A j \in Jobs : InQueue(j)' => InQueue(j) \/ j \in S
<1> DEFINE q == queue["default"]
<1>1. /\ queue["retry"] = <<>> /\ q \in Seq(Jobs)
      /\ \A i, k \in 1..Len(q) : q[i] = q[k] => i = k
      /\ queue'["retry"] = <<>> /\ queue'["default"] = q \o order
  BY DEF QueueOK, LoneEntries, Lanes
<1>2. order \in Seq(Jobs) /\ order \in [1..Len(order) -> S]
      /\ \A i, k \in 1..Len(order) : order[i] = order[k] => i = k
  <2>1. order \in Seq(Jobs)
    BY OrdersAreSeqs
  <2>2. /\ order \in [1..Cardinality(S) -> S]
        /\ \A i, k \in 1..Cardinality(S) : i # k => order[i] # order[k]
    BY DEF SetToSeqs
  <2>3. 1..Len(order) = 1..Cardinality(S)
    BY <2>1, <2>2
  <2> QED BY <2>1, <2>2, <2>3
<1>3. ASSUME NEW j \in Jobs PROVE InQueue(j) <=> \E i \in 1..Len(q) : q[i] = j
  BY <1>1, DefaultLane DEF q
<1> DEFINE qq == queue'["default"]
<1>4. ASSUME NEW j \in Jobs PROVE InQueue(j)' <=> \E i \in 1..Len(qq) : qq[i] = j
  <2>1. ~Contains(queue["retry"], j)'
    BY <1>1 DEF Contains
  <2> QED BY <2>1 DEF InQueue, Lanes, Contains
<1>5. qq = q \o order
  BY <1>1
<1> HIDE DEF q, qq
<1>6. /\ Len(q) \in Nat /\ Len(order) \in Nat /\ Len(qq) = Len(q) + Len(order)
      /\ \A i \in 1..Len(q) : qq[i] = q[i]
      /\ \A i \in 1..Len(qq) : i > Len(q) => i - Len(q) \in 1..Len(order) /\ qq[i] = order[i - Len(q)]
  BY <1>1, <1>2, <1>5
<1>7. \A i \in 1..Len(qq) : i > Len(q) => qq[i] \in S
  BY <1>2, <1>6
<1>8. \A i \in 1..Len(q) : qq[i] \notin S
  <2> SUFFICES ASSUME NEW i \in 1..Len(q), q[i] \in S PROVE FALSE
    BY <1>6
  <2> QED BY <1>3
<1>9. LoneEntries'
  <2>1. ASSUME NEW i \in 1..Len(qq), NEW k \in 1..Len(qq), qq[i] = qq[k] PROVE i = k
    <3>1. CASE i \in 1..Len(q) /\ k \in 1..Len(q)
      BY <1>1, <1>6, <2>1, <3>1
    <3>2. CASE i > Len(q) /\ k > Len(q)
      <4>1. order[i - Len(q)] = order[k - Len(q)]
        BY <1>6, <2>1, <3>2
      <4>2. i - Len(q) = k - Len(q)
        BY <1>2, <1>6, <3>2, <4>1
      <4> QED BY <1>6, <4>2
    <3>3. CASE (i > Len(q) /\ k \in 1..Len(q)) \/ (i \in 1..Len(q) /\ k > Len(q))
      BY <1>7, <1>8, <2>1, <3>3
    <3> QED BY <1>6, <3>1, <3>2, <3>3
  <2> QED BY <1>1, <2>1 DEF LoneEntries, qq
<1>10. ASSUME NEW j \in Jobs, InQueue(j)' PROVE InQueue(j) \/ j \in S
  <2>1. PICK i \in 1..Len(qq) : qq[i] = j
    BY <1>4, <1>10
  <2>2. CASE i \in 1..Len(q)
    BY <1>3, <1>6, <2>1, <2>2
  <2>3. CASE i > Len(q)
    BY <1>7, <2>1, <2>3
  <2> QED BY <1>6, <2>2, <2>3
<1> QED BY <1>9, <1>10

LEMMA DispatchLone ==
    ASSUME TypeOK, TypeOK', Lone,
           \/ DispatchSkip \/ DispatchHold
           \/ \E w \in Workers : DispatchSpawn(w) \/ DispatchHeld(w)
    PROVE  Lone'
<1>1. QueueOK /\ QueueOK' /\ LoneEntries /\ \A j \in Jobs : LoneJob(j)
  BY DEF TypeOK, Lone
<1>2. CASE DispatchSkip \/ DispatchHold
  <2>1. /\ queue' = Popped /\ ~Empty /\ hand = None
        /\ hand' = None \/ hand' = NextJob
        /\ UNCHANGED <<pc, job>>
    BY <1>2 DEF DispatchSkip, DispatchHold
  <2>2. /\ LoneEntries' /\ \A j \in Jobs : InQueue(j)' => InQueue(j)
        /\ \E k \in Jobs : k = NextJob /\ InQueue(k) /\ ~InQueue(k)'
    BY <1>1, <2>1, PopLone
  <2>3. ASSUME NEW j \in Jobs PROVE LoneJob(j)'
    <3>1. hand' = j => InQueue(j) /\ ~InQueue(j)'
      BY <2>1, <2>2, NoneAssumption DEF NoneAssumption
    <3>2. \A a \in Tasks : At(a, j)' <=> At(a, j)
      BY <2>1 DEF At
    <3>3. pc'[RunOf[j]] = pc[RunOf[j]]
      BY <2>1
    <3>4. LoneJob(j) /\ (InQueue(j)' => InQueue(j))
      BY <1>1, <2>2
    <3> QED BY <3>1, <3>2, <3>3, <3>4 DEF LoneJob
  <2> QED BY <2>2, <2>3 DEF Lone
<1>3. ASSUME NEW w \in Workers, NEW k \in Jobs, Spawn(w, k), LoneEntries', ~InQueue(k)',
             \A j \in Jobs : InQueue(j)' => InQueue(j),
             \A a \in Tasks : ~At(a, k), pc[RunOf[k]] = "end"
      PROVE  Lone'
  <2>1. /\ pc' = [pc EXCEPT ![w] = "spawned"] /\ job' = [job EXCEPT ![w] = k] /\ hand' = None
        /\ pc[w] = "idle"
    BY <1>3 DEF Spawn
  <2>2. ASSUME NEW j \in Jobs PROVE LoneJob(j)'
    <3>1. \A a \in Tasks : At(a, j)' <=> (At(a, j) \/ (a = w /\ j = k))
      BY <2>1, Kinds DEF At, TypeOK, ActorsOK, Tasks
    <3>2. hand' # j
      BY <2>1, NoneAssumption DEF NoneAssumption
    <3>3. pc'[RunOf[j]] = pc[RunOf[j]]
      BY <2>1, Kinds, RunAssumption DEF TypeOK, ActorsOK, RunAssumption
    <3>4. LoneJob(j) /\ (InQueue(j)' => InQueue(j))
      BY <1>1, <1>3
    <3>5. CASE j = k
      BY <1>3, <3>1, <3>2, <3>3, <3>5 DEF LoneJob
    <3>6. CASE j # k
      BY <3>1, <3>2, <3>3, <3>4, <3>6 DEF LoneJob
    <3> QED BY <3>5, <3>6
  <2> QED BY <1>3, <2>2 DEF Lone
<1>4. ASSUME NEW w \in Workers, DispatchSpawn(w) PROVE Lone'
  <2>1. queue' = Popped /\ ~Empty /\ Spawn(w, NextJob)
    BY <1>4 DEF DispatchSpawn
  <2>2. /\ LoneEntries' /\ \A j \in Jobs : InQueue(j)' => InQueue(j)
        /\ \E k \in Jobs : k = NextJob /\ InQueue(k) /\ ~InQueue(k)'
    BY <1>1, <2>1, PopLone
  <2>3. PICK k \in Jobs : k = NextJob /\ InQueue(k) /\ ~InQueue(k)'
    BY <2>2
  <2>4. Spawn(w, k)
    BY <2>1, <2>3
  <2>5. (\A a \in Tasks : ~At(a, k)) /\ pc[RunOf[k]] = "end"
    BY <1>1, <2>3 DEF LoneJob
  <2> QED BY <1>3, <2>2, <2>3, <2>4, <2>5
<1>5. ASSUME NEW w \in Workers, DispatchHeld(w) PROVE Lone'
  <2>1. hand \in Jobs /\ Spawn(w, hand) /\ UNCHANGED queue
    BY <1>5 DEF DispatchHeld, TypeOK, PoolOK
  <2>2. (\A a \in Tasks : ~At(a, hand)) /\ pc[RunOf[hand]] = "end" /\ ~InQueue(hand)
    BY <1>1, <2>1 DEF LoneJob
  <2>3. LoneEntries' /\ \A j \in Jobs : InQueue(j)' <=> InQueue(j)
    BY <1>1, <2>1 DEF LoneEntries, InQueue
  <2> QED BY <1>3, <2>1, <2>2, <2>3
<1> QED BY <1>2, <1>4, <1>5

LEMMA LoneStep ==
    ASSUME TypeOK, TypeOK', Unretried => Lone, [Next]_vars
    PROVE  Unretried' => Lone'
<1> SUFFICES ASSUME Unretried' PROVE Lone'
  OBVIOUS
<1>1. Lone
  BY UnretriedSteps
<1>2. ASSUME NEW w \in Workers, NEW n \in Nets, WorkerDone(w, n) PROVE Lone'
  <2>1. /\ pc' = [pc EXCEPT ![w] = "idle", ![n] = "check"] /\ pc[w] = "done" /\ pc[n] = "idle"
        /\ job' = [job EXCEPT ![w] = None, ![n] = job[w]]
        /\ UNCHANGED <<queue, hand>>
    BY <1>2 DEF WorkerDone
  <2>2. LoneEntries'
    BY <1>1, <2>1 DEF Lone, LoneEntries
  <2>3. ASSUME NEW j \in Jobs PROVE LoneJob(j)'
    <3>1. /\ \A a \in Tasks : a # n /\ a # w => (At(a, j)' <=> At(a, j))
          /\ ~At(w, j)' /\ (At(n, j)' <=> At(w, j))
      BY <2>1, Kinds DEF At, TypeOK, ActorsOK, Tasks
    <3>2. pc'[RunOf[j]] = pc[RunOf[j]]
      BY <2>1, Kinds, RunAssumption DEF TypeOK, ActorsOK, RunAssumption
    <3>3. (InQueue(j)' <=> InQueue(j)) /\ hand' = hand
      BY <2>1 DEF InQueue
    <3>4. LoneJob(j) /\ w \in Tasks /\ n \in Tasks
      BY <1>1 DEF Lone, Tasks
    <3> QED BY <3>1, <3>2, <3>3, <3>4 DEF LoneJob
  <2> QED BY <2>2, <2>3 DEF Lone
<1>3. ASSUME NEW r \in Runs, EnqueuePut(r) PROVE Lone'
  <2>1. PICK order \in SetToSeqs(RunnableJobs(r)) : Put("default", order)
    BY <1>3 DEF EnqueuePut
  <2>2. /\ pc[r] = "put" /\ pc' = [pc EXCEPT ![r] = "end"] /\ UNCHANGED <<job, hand>>
        /\ RunnableJobs(r) \in SUBSET Jobs /\ \A j \in RunnableJobs(r) : RunOf[j] = r
    BY <1>3 DEF EnqueuePut, RunnableJobs
  <2>3. \A j \in Jobs : RunOf[j] = r => hand # j /\ ~InQueue(j) /\ \A a \in Tasks : ~At(a, j)
    BY <1>1, <2>2 DEF Lone, LoneJob
  <2>4. LoneEntries' /\ \A j \in Jobs : InQueue(j)' => InQueue(j) \/ j \in RunnableJobs(r)
    <3>1. QueueOK /\ QueueOK' /\ LoneEntries
      BY <1>1 DEF TypeOK, Lone
    <3>2. \A j \in RunnableJobs(r) : ~InQueue(j)
      BY <2>2, <2>3
    <3> QED BY <2>1, <2>2, <3>1, <3>2, PutLone
  <2>5. ASSUME NEW j \in Jobs PROVE LoneJob(j)'
    <3>1. \A a \in Tasks : At(a, j)' <=> At(a, j)
      BY <2>2, Kinds DEF At, TypeOK, ActorsOK, Tasks
    <3>2. pc'[RunOf[j]] # "end" => pc[RunOf[j]] # "end" /\ RunOf[j] # r
      BY <2>2, Kinds, RunAssumption DEF TypeOK, ActorsOK, RunAssumption
    <3>3. (InQueue(j)' => InQueue(j) \/ RunOf[j] = r) /\ hand' = hand
      BY <2>2, <2>4
    <3>4. LoneJob(j)
      BY <1>1 DEF Lone
    <3> QED BY <2>3, <3>1, <3>2, <3>3, <3>4 DEF LoneJob
  <2> QED BY <2>4, <2>5 DEF Lone
<1> QED BY <1>1, <1>2, <1>3, LoneCases, KeptLone, DispatchLone

LEMMA LoneInit == Init => Lone
<1> SUFFICES ASSUME Init PROVE Lone
  OBVIOUS
<1>0. \A l \in Lanes : queue[l] = <<>>
  BY DEF Init, InitMemory
<1>1. LoneEntries /\ \A j \in Jobs : ~InQueue(j) /\ hand # j
  <2>1. LoneEntries
    BY <1>0 DEF LoneEntries, Lanes
  <2>2. \A j \in Jobs : ~InQueue(j)
    BY <1>0 DEF InQueue, Contains
  <2>3. \A j \in Jobs : hand # j
    BY NoneAssumption DEF Init, InitMemory, NoneAssumption
  <2> QED BY <2>1, <2>2, <2>3
<1>2. \A a \in Tasks : pc[a] = "idle"
  BY Kinds DEF Init, InitMemory, Tasks
<1> QED BY <1>1, <1>2 DEF Lone, LoneJob, At

(* Until the first retry every job is in one place at most.                *)
LEMMA LoneTasks == Spec => [](Unretried => Lone)
<1>1. Init => (Unretried => Lone)
  BY LoneInit
<1>2. TypeOK /\ TypeOK' /\ (Unretried => Lone) /\ [Next]_vars => (Unretried => Lone)'
  BY LoneStep
<1> QED BY <1>1, <1>2, TypeCorrect, PTL DEF Spec

(* Until the first retry no tool is run by two workers at the same time,   *)
(* however jobs are cancelled and the process is stopped.                  *)
THEOREM NoJobRunsTwice == Spec => [](Unretried => NoDoubleExecution)
<1>1. TypeOK /\ (Unretried => Lone) => (Unretried => NoDoubleExecution)
  <2> SUFFICES ASSUME TypeOK, Lone, NEW v \in Workers, NEW w \in Workers,
                      pc[v] = "execute", pc[w] = "execute", job[v] = job[w]
               PROVE  v = w
    BY DEF NoDoubleExecution
  <2>1. job[v] \in Jobs
    BY Kinds DEF TypeOK, ActorsKnow
  <2> QED BY <2>1 DEF Lone, LoneJob, At, Tasks
<1> QED BY <1>1, LoneTasks, TypeCorrect, PTL

-----------------------------------------------------------------------------
(* shutdown(): with a job in one task at most, the map it cancels the      *)
(* tasks of names them all, and nothing but tasks runs until it returns.   *)
Drains ==
    /\ mode = "up" => \A w \in Live : running[job[w]] = w
    /\ mode = "stopping" => Live \subseteq draining
    /\ mode = "down" => Live = {} /\ \A n \in Nets : pc[n] = "idle"
    /\ mode # "up" => Quiet

LEMMA DrainsStep ==
    ASSUME TypeOK, TypeOK', Lone, Lone', Drains, [Next]_vars
    PROVE  Drains'
<1>1. \A w \in Live : job[w] \in Jobs /\ w \in Actors
  BY Kinds DEF TypeOK, ActorsKnow, Live, WorkerPcs
<1>2. CASE UNCHANGED vars \/ DispatchSkip \/ DispatchHold
  BY <1>2 DEF vars, DispatchSkip, DispatchHold, Drains, Live, Quiet
<1>3. CASE ProcessNext
  <2>1. CASE ShutdownBegin
    <3>1. Live' = Live /\ \A w \in Live : w \in draining'
      BY <1>1, <2>1, NoneAssumption DEF ShutdownBegin, Drains, Live, NoneAssumption
    <3> QED BY <2>1, <3>1 DEF ShutdownBegin, Drains, Quiet
  <2>2. CASE ShutdownEnd
    <3>1. Live' = {}
      BY <2>2 DEF ShutdownEnd, Drains, Live, WorkerPcs
    <3> QED BY <2>2, <3>1 DEF ShutdownEnd, Drains, Quiet
  <2>3. CASE FreshProcess
    <3>1. Live' = {} /\ mode' = "up"
      BY <2>3, Kinds DEF FreshProcess, Live, WorkerPcs
    <3> QED BY <3>1 DEF Drains
  <2> QED BY <1>3, <2>1, <2>2, <2>3 DEF ProcessNext, Restart, Crash
<1>4. ASSUME NEW w \in Workers, NEW j \in Jobs, Spawns(w, j) PROVE Drains'
  <2>1. /\ mode = "up" /\ mode' = "up" /\ running' = [running EXCEPT ![j] = w]
        /\ \A v \in Live' : v # w => v \in Live /\ job'[v] = job[v]
        /\ job'[w] = j /\ pc'[w] = "spawned"
    BY <1>4, Kinds DEF Spawns, Spawn, Live, TypeOK, ActorsOK, WorkerPcs
  <2>2. ASSUME NEW v \in Live', v # w PROVE job[v] # j
    <3>1. job'[v] = j => v = w
      BY <2>1 DEF Lone, LoneJob, At, Tasks, Live, WorkerPcs
    <3> QED BY <2>1, <2>2, <3>1
  <2>3. \A v \in Live' : running'[job'[v]] = v
    BY <1>1, <2>1, <2>2 DEF Drains, TypeOK, PoolOK
  <2> QED BY <2>1, <2>3 DEF Drains
<1>5. ASSUME NEW w \in Workers, NEW n \in Nets, WorkerDone(w, n) PROVE Drains'
  <2>1. /\ w \in Live /\ UNCHANGED modeVars /\ running' = [running EXCEPT ![job[w]] = None]
        /\ \A v \in Live' : v # w /\ v \in Live /\ job'[v] = job[v]
    BY <1>5, Kinds DEF WorkerDone, Live, TypeOK, ActorsOK, WorkerPcs
  <2>2. \A v \in Live' : job[v] # job[w]
    <3>1. job[w] \in Jobs
      BY <1>1, <2>1
    <3> QED BY <2>1, <3>1 DEF Lone, LoneJob, At, Tasks, Live, WorkerPcs
  <2>3. mode = "up" => \A v \in Live' : running'[job'[v]] = v
    BY <1>1, <2>1, <2>2 DEF Drains, TypeOK, PoolOK
  <2>4. \A a \in Runs \cup Cancels \cup Retries : pc'[a] = pc[a]
    BY <1>5, Kinds DEF WorkerDone, TypeOK, ActorsOK
  <2> QED BY <2>1, <2>3, <2>4 DEF Drains, Quiet
<1>6. ASSUME NEW a \in Actors, Acts(a) PROVE Drains'
  <2>1. Live' = Live /\ UNCHANGED <<running, modeVars>> /\ \A w \in Workers : job'[w] = job[w]
    BY <1>6, OneActs DEF Live
  <2>2. \A b \in Actors : b # a => pc'[b] = pc[b]
    BY <1>6, OneActs DEF OnlyActor
  <2>3. a \in Nets => mode # "down"
    BY <1>6, Kinds DEF Acts, NetNext, NetCheck, Finalize, LeaveCohort, Settle, Drains
  <2>4. a \in Runs \cup Cancels \cup Retries => mode = "up"
    BY <1>6, Kinds DEF Acts, Plan, RunNext, EnqueueBegin, EnqueueCommit, EnqueuePut,
       CancelNext, CancelRead, CancelAct, LeaveCohort, Settle, CancelBegin,
       RetryNext, RetryCommit, RetryPut, RetryRead, Drains, Quiet
  <2> QED BY <2>1, <2>2, <2>3, <2>4, Kinds DEF Drains, Quiet, Live
<1> QED BY <1>2, <1>3, <1>4, <1>5, <1>6, StepKinds

LEMMA DrainsHolds == Spec => [](Unretried => Drains)
<1>1. Init => (Unretried => Drains)
  <2> SUFFICES ASSUME Init PROVE Drains
    OBVIOUS
  <2>1. Live = {} /\ mode = "up"
    BY Kinds DEF Init, InitMemory, Live, WorkerPcs
  <2> QED BY <2>1 DEF Drains
<1>2. /\ TypeOK /\ TypeOK' /\ (Unretried => Lone) /\ (Unretried => Lone)'
      /\ (Unretried => Drains) /\ [Next]_vars
      => (Unretried => Drains)'
  BY UnretriedSteps, DrainsStep
<1> QED BY <1>1, <1>2, TypeCorrect, LoneTasks, PTL DEF Spec

(* A started job has a task, or a safety net that has yet to look or to    *)
(* write, in the process that started it.                                  *)
Started == {"PREPARING", "RUNNING"}
Attended(j) ==
    \/ \E w \in Live : job[w] = j
    \/ \E n \in Nets : job[n] = j /\ pc[n] \in {"check", "finalize"}
FirstLife == stops = 0 \/ (stops = 1 /\ mode # "up")
StartedAttended == FirstLife => \A j \in Jobs : status[j] \in Started => Attended(j)

LEMMA AttendedStep ==
    ASSUME TypeOK, [Next]_vars, ~Restart, ~Crash, NEW j \in Jobs,
           status[j] \in Started => Attended(j), status'[j] \in Started
    PROVE  Attended(j)'
<1>1. CASE UNCHANGED vars \/ DispatchSkip \/ DispatchHold \/ ProcessNext
  BY <1>1 DEF vars, DispatchSkip, DispatchHold, ProcessNext, ShutdownBegin, ShutdownEnd,
     Restart, Crash, Attended, Live
<1>2. ASSUME NEW w \in Workers, NEW k \in Jobs, Spawns(w, k) PROVE Attended(j)'
  <2>1. /\ UNCHANGED status /\ \A v \in Live : v # w /\ v \in Live' /\ job'[v] = job[v]
        /\ \A n \in Nets : pc'[n] = pc[n] /\ job'[n] = job[n]
    BY <1>2, Kinds DEF Spawns, Spawn, Live, TypeOK, ActorsOK, WorkerPcs
  <2> QED BY <2>1 DEF Attended
<1>3. ASSUME NEW w \in Workers, NEW n \in Nets, WorkerDone(w, n) PROVE Attended(j)'
  <2>1. /\ UNCHANGED status /\ \A v \in Live : v # w => v \in Live' /\ job'[v] = job[v]
        /\ pc'[n] = "check" /\ job'[n] = job[w] /\ pc[n] = "idle"
        /\ \A m \in Nets : m # n => pc'[m] = pc[m] /\ job'[m] = job[m]
    BY <1>3, Kinds DEF WorkerDone, Live, TypeOK, ActorsOK, WorkerPcs
  <2> QED BY <2>1 DEF Attended
<1>4. ASSUME NEW a \in Actors, Acts(a) PROVE Attended(j)'
  <2>1. /\ Live' = Live /\ \A w \in Live : job'[w] = job[w]
        /\ \A n \in Nets : n # a => pc'[n] = pc[n] /\ job'[n] = job[n]
    BY <1>4, OneActs, Kinds DEF Live, OnlyActor
  <2>2. CASE a \in Workers
    <3>1. WorkerNext(a) /\ ~\E n \in Nets : WorkerDone(a, n)
      BY <1>4, <2>2, Kinds DEF Acts
    <3>2. a \in Live
      BY <2>2, <3>1 DEF WorkerNext, WorkerLoad, WorkerClaim, WorkerPrepareFails, WorkerStart,
         WorkerExecuted, WorkerPersisted, WorkerPersistFails, WorkerCancelled, WorkerAt,
         Finalize, LeaveCohort, Settle, WorkerPcs, Live
    <3>3. UNCHANGED status \/ \E s : status' = [status EXCEPT ![job[a]] = s]
      BY <3>1 DEF WorkerNext, WorkerLoad, WorkerClaim, WorkerPrepareFails, WorkerStart,
         WorkerExecuted, WorkerPersisted, WorkerPersistFails, WorkerCancelled,
         Finalize, LeaveCohort, Settle
    <3>4. status'[j] = status[j] \/ job[a] = j
      BY <3>3 DEF TypeOK, DbOK
    <3> QED BY <2>1, <2>2, <3>2, <3>4, Kinds DEF Attended
  <2>3. CASE a \in Nets
    <3>1. NetNext(a) /\ job[a] \in Jobs
      BY <1>4, <2>3, Kinds
         DEF Acts, NetNext, NetCheck, Finalize, LeaveCohort, Settle, TypeOK, ActorsKnow
    <3>2. CASE NetCheck(a)
      <4>1. /\ pc[a] = "check" /\ UNCHANGED status
            /\ \/ status[job[a]] \in TerminalStatuses
               \/ pc'[a] = "finalize" /\ job'[a] = job[a]
        BY <3>2 DEF NetCheck, TypeOK, ActorsOK
      <4>2. status[j] \notin TerminalStatuses
        BY <4>1 DEF Started, TerminalStatuses
      <4> QED BY <2>1, <2>3, <4>1, <4>2 DEF Attended
    <3>3. CASE Finalize(a)
      <4>1. status' = [status EXCEPT ![job[a]] = out[a]] /\ out[a] \in FinalOutcomes
        BY <2>3, <3>3, Kinds DEF Finalize, TypeOK, ActorsKnow
      <4>2. job[a] # j /\ status'[j] = status[j]
        BY <3>1, <4>1 DEF TypeOK, DbOK, FinalOutcomes, Started
      <4> QED BY <2>1, <4>2 DEF Attended
    <3>4. CASE LeaveCohort(a) \/ Settle(a)
      BY <2>1, <2>3, <3>4 DEF LeaveCohort, Settle, Attended
    <3> QED BY <3>1, <3>2, <3>3, <3>4 DEF NetNext
  <2>4. CASE a \in Runs \cup Cancels \cup Retries
    <3>1. status'[j] = status[j]
      <4>1. CASE a \in Runs
        BY <1>4, <4>1, Kinds DEF Acts, Plan, RunNext, EnqueueBegin, EnqueueCommit, EnqueuePut,
           Started
      <4>2. CASE a \in Cancels
        BY <1>4, <4>2, Kinds DEF Acts, CancelNext, CancelRead, CancelAct, LeaveCohort, Settle,
           CancelBegin, Started, TypeOK, DbOK
      <4>3. CASE a \in Retries
        BY <1>4, <4>3, Kinds DEF Acts, RetryNext, RetryCommit, RetryPut, RetryRead,
           Started, TypeOK, DbOK
      <4> QED BY <2>4, <4>1, <4>2, <4>3
    <3> QED BY <2>1, <2>4, <3>1, Kinds DEF Attended
  <2> QED BY <2>2, <2>3, <2>4 DEF Actors
<1> QED BY <1>1, <1>2, <1>3, <1>4, StepKinds

LEMMA StopsSteps ==
    ASSUME TypeOK, [Next]_vars, StopsCounted
    PROVE  /\ StopsCounted'
           /\ FirstLife' => FirstLife /\ ~Restart /\ ~Crash
<1>1. stops \in Nat
  BY BoundAssumption DEF TypeOK, ModeOK, BoundAssumption
<1>2. CASE UNCHANGED modeVars
  BY <1>1, <1>2 DEF StopsCounted, FirstLife, FreshProcess, Restart, Crash
<1>3. CASE ProcessNext
  BY <1>1, <1>3 DEF ProcessNext, ShutdownBegin, ShutdownEnd, Restart, Crash, FreshProcess,
     StopsCounted, FirstLife
<1> QED BY <1>2, <1>3, StepKinds, OneActs
        DEF vars, DispatchSkip, DispatchHold, Spawns, WorkerDone

LEMMA StartedJobsAttended == Spec => [](StopsCounted /\ StartedAttended)
<1>1. Init => StopsCounted /\ StartedAttended
  BY DEF Init, StopsCounted, StartedAttended, Started
<1>2. TypeOK /\ StopsCounted /\ StartedAttended /\ [Next]_vars
      => (StopsCounted /\ StartedAttended)'
  BY StopsSteps, AttendedStep DEF StartedAttended
<1> QED BY <1>1, <1>2, TypeCorrect, PTL DEF Spec

(* Until the first retry, shutdown() returns only when every task of the   *)
(* pool is over, and leaves no job it had started unfinished.              *)
THEOREM ShutdownsAreClean == Spec => [](Unretried => ShutdownIsClean)
<1>1. StartedAttended /\ (Unretried => Drains) => (Unretried => ShutdownIsClean)
  BY DEF Drains, StartedAttended, FirstLife, Started, Attended, ShutdownIsClean
<1> QED BY <1>1, StartedJobsAttended, DrainsHolds, PTL

-----------------------------------------------------------------------------
(* Until the first retry or cancellation, where a job is tells its status. *)
TaskOrder(a) ==
    LET s == status[job[a]]
    IN  /\ pc[a] \in {"spawned", "claim"} => s = "QUEUED"
        /\ pc[a] = "prepare" => s = "PREPARING"
        /\ pc[a] \in {"execute", "persist"} => s = "RUNNING"
        /\ pc[a] = "finalize" => s \in Unfinished /\ out[a] \in AllowedTransitions[s]
        /\ pc[a] \in {"hook", "settle"} => s \in TerminalStatuses
        /\ pc[a] \in {"done", "check"} => s \in Unfinished \cup TerminalStatuses

JobOrder(j) ==
    /\ InQueue(j) \/ hand = j => status[j] = "QUEUED"
    /\ pc[RunOf[j]] = "idle" => status[j] = "ABSENT"
    /\ pc[RunOf[j]] \in {"planned", "enqueue"} => status[j] \in {"PENDING", "SKIPPED"}
    /\ pc[RunOf[j]] = "put" => status[j] \in {"QUEUED", "SKIPPED"}

Orderly == (\A a \in Tasks : TaskOrder(a)) /\ \A j \in Jobs : JobOrder(j)

LegalStep ==
    \A j \in Jobs : status[j] \in JobStatus /\ status'[j] # status[j] =>
        IsTransitionAllowed(status[j], status'[j])

LEMMA TableRows ==
    /\ AllowedTransitions["PENDING"] = {"QUEUED", "SKIPPED"}
    /\ AllowedTransitions["QUEUED"] = {"PREPARING", "CANCELLED"}
    /\ AllowedTransitions["PREPARING"] = {"RUNNING", "FAILED", "CANCELLED"}
    /\ AllowedTransitions["RUNNING"] = FinalOutcomes
<1>1. AllowedTransitions["PENDING"] = {"QUEUED", "SKIPPED"}
  BY DEF AllowedTransitions, JobStatus, RetriableStatuses
<1>2. AllowedTransitions["QUEUED"] = {"PREPARING", "CANCELLED"}
  BY DEF AllowedTransitions, JobStatus, RetriableStatuses
<1>3. AllowedTransitions["PREPARING"] = {"RUNNING", "FAILED", "CANCELLED"}
  BY DEF AllowedTransitions, JobStatus, RetriableStatuses
<1>4. AllowedTransitions["RUNNING"] = FinalOutcomes
  BY DEF AllowedTransitions, JobStatus, RetriableStatuses, FinalOutcomes
<1> QED BY <1>1, <1>2, <1>3, <1>4

(* A task that acts takes its job, and no other, along the table.          *)
LEMMA TaskActs ==
    ASSUME TypeOK, NEW a \in Tasks, Acts(a), TaskOrder(a)
    PROVE  /\ job[a] \in Jobs
           /\ \A j \in Jobs : j # job[a] => status'[j] = status[j]
           /\ status'[job[a]] # status[job[a]] =>
                 /\ status[job[a]] \in Unfinished
                 /\ status'[job[a]] \in AllowedTransitions[status[job[a]]]
           /\ TaskOrder(a)'
<1> DEFINE k == job[a]
<1>0. \/ a \in Workers /\ WorkerNext(a) /\ ~\E n \in Nets : WorkerDone(a, n)
      \/ a \in Nets /\ NetNext(a)
  <2>1. a \notin Runs /\ a \notin Cancels /\ a \notin Retries
    BY Kinds DEF Tasks
  <2> QED BY <2>1 DEF Acts
<1>1. k \in Jobs
  <2>1. a \in Workers /\ WorkerNext(a) => pc[a] \in WorkerPcs
    BY DEF WorkerNext, WorkerLoad, WorkerClaim, WorkerPrepareFails, WorkerStart,
       WorkerExecuted, WorkerPersisted, WorkerPersistFails, WorkerCancelled, WorkerAt,
       Finalize, LeaveCohort, Settle, WorkerDone, WorkerPcs
  <2>2. a \in Nets /\ NetNext(a) => pc[a] \in NetPcs
    BY DEF NetNext, NetCheck, Finalize, LeaveCohort, Settle, NetPcs
  <2> QED BY <1>0, <2>1, <2>2, Kinds DEF Tasks, TypeOK, ActorsKnow, WorkerPcs, NetPcs
<1>2. /\ k \in Jobs /\ status[k] \in JobStatus \cup {"ABSENT"} /\ a \in Actors
      /\ pc[a] \in {"persist", "finalize", "hook", "settle"} => out[a] \in FinalOutcomes
      /\ \A s : status' = [status EXCEPT ![k] = s] =>
            status'[k] = s /\ \A j \in Jobs : j # k => status'[j] = status[j]
  BY <1>1, Kinds DEF Tasks, TypeOK, ActorsKnow, DbOK
<1>3. /\ AllowedTransitions["QUEUED"] = {"PREPARING", "CANCELLED"}
      /\ AllowedTransitions["PREPARING"] = {"RUNNING", "FAILED", "CANCELLED"}
      /\ AllowedTransitions["RUNNING"] = FinalOutcomes
  BY TableRows
<1>4. \A s : Goto(a, s) => pc'[a] = s
  BY <1>2 DEF TypeOK, ActorsOK
<1>5. Return(a) => pc'[a] \in {"done", "idle"} /\ (pc'[a] = "done" => job'[a] = k)
  BY <1>2, Kinds DEF TypeOK, ActorsOK, Return, Tasks
<1> DEFINE old == status[k]
           new == status'[k]
<1>6. CASE Finalize(a)
  <2>1. /\ pc[a] = "finalize" /\ status' = [status EXCEPT ![k] = out[a]]
        /\ pc'[a] = "hook" /\ job'[a] = k /\ out[a] \in FinalOutcomes
    BY <1>2, <1>4, <1>6 DEF Finalize
  <2> QED BY <1>2, <2>1 DEF TaskOrder, FinalOutcomes, TerminalStatuses
<1>7. CASE LeaveCohort(a) \/ Settle(a)
  <2>1. /\ pc[a] \in {"hook", "settle"} /\ UNCHANGED status
        /\ pc'[a] \in {"done", "idle", "settle"} /\ (pc'[a] # "idle" => job'[a] = k)
    BY <1>4, <1>5, <1>7 DEF LeaveCohort, Settle
  <2> QED BY <1>2, <2>1 DEF TaskOrder
<1>8. CASE NetCheck(a)
  <2>1. /\ pc[a] = "check" /\ UNCHANGED status
        /\ \/ pc'[a] = "idle"
           \/ pc'[a] = "done" /\ job'[a] = k
           \/ /\ pc'[a] = "finalize" /\ job'[a] = k /\ out'[a] = "CANCELLED"
              /\ old \notin TerminalStatuses
    BY <1>2, <1>4, <1>5, <1>8 DEF NetCheck, TypeOK, ActorsOK
  <2> QED BY <1>2, <1>3, <2>1 DEF TaskOrder, Unfinished, FinalOutcomes
<1>9. CASE a \in Workers /\ WorkerNext(a) /\ ~\E n \in Nets : WorkerDone(a, n)
  <2>1. CASE WorkerLoad(a)
    BY <1>2, <1>4, <2>1 DEF WorkerLoad, WorkerAt, TaskOrder
  <2>2. CASE WorkerClaim(a)
    BY <1>2, <1>3, <1>4, <2>2 DEF WorkerClaim, WorkerAt, TaskOrder, Unfinished
  <2>3. CASE WorkerPrepareFails(a)
    BY <1>2, <1>3, <1>4, <2>3
       DEF WorkerPrepareFails, WorkerAt, TaskOrder, Unfinished, TypeOK, ActorsOK
  <2>4. CASE WorkerStart(a)
    BY <1>2, <1>3, <1>4, <2>4 DEF WorkerStart, WorkerAt, TaskOrder, Unfinished
  <2>5. CASE WorkerExecuted(a)
    <3>1. /\ pc[a] = "execute" /\ UNCHANGED <<status, job>> /\ out'[a] \in FinalOutcomes
          /\ pc'[a] \in {"persist", "finalize"}
      BY <1>2, <1>4, <2>5 DEF WorkerExecuted, WorkerAt, TypeOK, ActorsOK, FinalOutcomes
    <3> QED BY <1>2, <1>3, <3>1 DEF TaskOrder, Unfinished
  <2>6. CASE WorkerPersisted(a)
    BY <1>2, <1>3, <1>4, <2>6 DEF WorkerPersisted, WorkerAt, TaskOrder, Unfinished
  <2>7. CASE WorkerPersistFails(a)
    BY <1>2, <1>5, <2>7 DEF WorkerPersistFails, WorkerAt, TaskOrder, Unfinished
  <2>8. CASE WorkerCancelled(a)
    <3>1. CASE Return(a)
      <4>1. pc'[a] \in {"done", "idle"} /\ (pc'[a] = "done" => job'[a] = k)
        BY <1>5, <3>1
      <4>2. /\ old \in Unfinished \cup TerminalStatuses
            /\ \/ UNCHANGED status
               \/ pc[a] = "finalize" /\ status' = [status EXCEPT ![k] = out[a]]
        BY <2>8, <3>1, <4>1, <1>4 DEF WorkerCancelled, TaskOrder, Unfinished
      <4> QED BY <1>2, <4>1, <4>2 DEF TaskOrder, FinalOutcomes, TerminalStatuses
    <3>2. CASE ~Return(a)
      <4>1. /\ pc[a] \in {"spawned", "claim", "prepare", "execute"}
            /\ \/ UNCHANGED status
               \/ pc[a] = "claim" /\ status' = [status EXCEPT ![k] = "PREPARING"]
               \/ pc[a] = "prepare" /\ status' = [status EXCEPT ![k] = "RUNNING"]
            /\ pc'[a] = "finalize" /\ out'[a] = "CANCELLED" /\ job'[a] = k
        BY <1>2, <1>4, <2>8, <3>2 DEF WorkerCancelled, TypeOK, ActorsOK
      <4> QED BY <1>2, <1>3, <4>1 DEF TaskOrder, Unfinished, FinalOutcomes
    <3> QED BY <3>1, <3>2
  <2> QED BY <1>6, <1>7, <1>9, <2>1, <2>2, <2>3, <2>4, <2>5, <2>6, <2>7, <2>8 DEF WorkerNext
<1> QED BY <1>0, <1>6, <1>7, <1>8, <1>9 DEF NetNext

LEMMA TaskFrame ==
    ASSUME TypeOK, NEW a \in Tasks, Acts(a)
    PROVE  /\ pc[a] # "idle" /\ UNCHANGED <<queue, hand>>
           /\ \A b \in Actors : b # a => pc'[b] = pc[b] /\ job'[b] = job[b] /\ out'[b] = out[b]
<1>1. \/ a \in Workers /\ WorkerNext(a) /\ ~\E n \in Nets : WorkerDone(a, n)
      \/ a \in Nets /\ NetNext(a)
  <2>1. a \notin Runs /\ a \notin Cancels /\ a \notin Retries
    BY Kinds DEF Tasks
  <2> QED BY <2>1 DEF Acts
<1>2. a \in Actors
  BY Kinds DEF Tasks
<1>3. \A b \in Actors : b # a => pc'[b] = pc[b] /\ job'[b] = job[b]
  BY <1>2, OneActs DEF OnlyActor
<1>4. CASE a \in Workers /\ WorkerNext(a) /\ ~\E n \in Nets : WorkerDone(a, n)
  <2>1. pc[a] # "idle" /\ UNCHANGED <<queue, hand>>
    BY <1>4 DEF WorkerNext, WorkerLoad, WorkerClaim, WorkerPrepareFails, WorkerStart,
       WorkerExecuted, WorkerPersisted, WorkerPersistFails, WorkerCancelled, WorkerAt,
       Finalize, LeaveCohort, Settle
  <2>2. UNCHANGED out \/ \E o : out' = [out EXCEPT ![a] = o]
    BY <1>4 DEF WorkerNext, WorkerLoad, WorkerClaim, WorkerPrepareFails, WorkerStart,
       WorkerExecuted, WorkerPersisted, WorkerPersistFails, WorkerCancelled,
       Finalize, LeaveCohort, Settle, Return
  <2> QED BY <1>3, <2>1, <2>2 DEF TypeOK, ActorsOK
<1>5. CASE a \in Nets /\ NetNext(a)
  <2>1. pc[a] # "idle" /\ UNCHANGED <<queue, hand>>
    BY <1>5 DEF NetNext, NetCheck, Finalize, LeaveCohort, Settle
  <2>2. UNCHANGED out \/ \E o : out' = [out EXCEPT ![a] = o]
    BY <1>5 DEF NetNext, NetCheck, Finalize, LeaveCohort, Settle, Return
  <2> QED BY <1>3, <2>1, <2>2 DEF TypeOK, ActorsOK
<1> QED BY <1>1, <1>4, <1>5

(* A task the step leaves alone, at a job it leaves alone.                 *)
LEMMA TaskRests ==
    ASSUME NEW a \in Tasks, TaskOrder(a),
           \/ pc'[a] = "idle"
           \/ /\ pc'[a] = pc[a] /\ job'[a] = job[a] /\ out'[a] = out[a]
              /\ pc[a] \in {"idle", "end"} \/ status'[job[a]] = status[job[a]]
    PROVE  TaskOrder(a)'
BY DEF TaskOrder

LEMMA TasksOrderly ==
    ASSUME TypeOK, Lone, Orderly, NEW a \in Tasks, Acts(a)
    PROVE  Orderly' /\ LegalStep
<1>1. /\ job[a] \in Jobs /\ TaskOrder(a)'
      /\ \A j \in Jobs : j # job[a] => status'[j] = status[j]
      /\ status'[job[a]] # status[job[a]] =>
            status'[job[a]] \in AllowedTransitions[status[job[a]]]
  BY TaskActs DEF Orderly
<1>2. ASSUME NEW b \in Tasks, b # a PROVE TaskOrder(b)'
  <2>1. /\ pc'[b] = pc[b] /\ job'[b] = job[b] /\ out'[b] = out[b] /\ TaskOrder(b)
        /\ pc[a] # "idle"
    BY <1>2, TaskFrame, Kinds DEF Tasks, Orderly
  <2>2. pc[b] \in {"idle", "end"} \/ job[b] # job[a]
    BY <1>1, <1>2, <2>1 DEF Lone, LoneJob, At
  <2>3. pc[b] \in {"idle", "end"} \/ status'[job[b]] = status[job[b]]
    <3>1. pc[b] \notin {"idle", "end"} => job[b] \in Jobs
      BY Kinds DEF Tasks, TypeOK, ActorsKnow, ActorsOK
    <3> QED BY <1>1, <2>2, <3>1
  <2> QED BY <2>1, <2>3, TaskRests
<1>3. ASSUME NEW j \in Jobs PROVE JobOrder(j)'
  <2>1. pc'[RunOf[j]] = pc[RunOf[j]] /\ (InQueue(j)' <=> InQueue(j)) /\ hand' = hand
    BY TaskFrame, Kinds, RunAssumption DEF Tasks, InQueue, RunAssumption
  <2>2. JobOrder(j) /\ LoneJob(j) /\ (At(a, j) \/ status'[j] = status[j])
    BY <1>1, TaskFrame DEF Orderly, Lone, At
  <2> QED BY <2>1, <2>2 DEF JobOrder, LoneJob
<1> QED BY <1>1, <1>2, <1>3 DEF Orderly, LegalStep, IsTransitionAllowed

LEMMA RunsOrderly ==
    ASSUME TypeOK, TypeOK', Lone, Orderly, NEW r \in Runs, Plan(r) \/ RunNext(r)
    PROVE  Orderly' /\ LegalStep
<1>1. /\ UNCHANGED <<job, out, hand>> /\ r \in Actors /\ r \notin Tasks
      /\ \A b \in Actors : b # r => pc'[b] = pc[b]
      /\ pc[r] # "end"
  BY Kinds DEF Plan, RunNext, EnqueueBegin, EnqueueCommit, EnqueuePut, Tasks, TypeOK, ActorsOK
<1>2. ASSUME NEW j \in Jobs, RunOf[j] # r
      PROVE  pc'[RunOf[j]] = pc[RunOf[j]] /\ status'[j] = status[j]
  BY <1>1, <1>2, RunAssumption, Kinds
     DEF RunAssumption, Plan, RunNext, EnqueueBegin, EnqueueCommit, EnqueuePut, RunnableJobs
<1>3. ASSUME NEW b \in Tasks PROVE TaskOrder(b)'
  <2>1. pc'[b] = pc[b] /\ TaskOrder(b)
    BY <1>1, Kinds DEF Tasks, Orderly
  <2>2. pc[b] \in {"idle", "end"} \/ (job[b] \in Jobs /\ RunOf[job[b]] # r)
    <3>1. pc[b] \notin {"idle", "end"} => job[b] \in Jobs
      BY Kinds DEF Tasks, TypeOK, ActorsKnow, ActorsOK
    <3> QED BY <1>1, <3>1 DEF Lone, LoneJob, At
  <2> QED BY <1>1, <1>2, <2>1, <2>2, TaskRests
<1>4. ASSUME NEW j \in Jobs, RunOf[j] # r PROVE JobOrder(j)'
  <2>1. InQueue(j)' => InQueue(j)
    <3>1. UNCHANGED queue \/ EnqueuePut(r)
      BY DEF Plan, RunNext, EnqueueBegin, EnqueueCommit
    <3>2. CASE UNCHANGED queue
      BY <3>2 DEF InQueue
    <3>3. CASE EnqueuePut(r)
      <4>1. PICK order \in SetToSeqs(RunnableJobs(r)) : Put("default", order)
        BY <3>3 DEF EnqueuePut
      <4>2. /\ QueueOK /\ QueueOK' /\ LoneEntries /\ RunnableJobs(r) \in SUBSET Jobs
            /\ \A k \in RunnableJobs(r) : ~InQueue(k) /\ RunOf[k] = r
        BY <1>1 DEF TypeOK, Lone, LoneJob, RunnableJobs
      <4> QED BY <1>4, <4>1, <4>2, PutLone
    <3> QED BY <3>1, <3>2, <3>3
  <2>2. JobOrder(j)
    BY DEF Orderly
  <2> QED BY <1>1, <1>2, <1>4, <2>1, <2>2 DEF JobOrder
<1>5. ASSUME NEW j \in Jobs, RunOf[j] = r
      PROVE  /\ JobOrder(j)'
             /\ status[j] \in JobStatus /\ status'[j] # status[j] =>
                   IsTransitionAllowed(status[j], status'[j])
  <2>1. JobOrder(j) /\ ~InQueue(j) /\ hand # j
    BY <1>1, <1>5 DEF Orderly, Lone, LoneJob
  <2>2. CASE Plan(r)
    <3>1. /\ status[j] = "ABSENT" /\ status'[j] \in {"PENDING", "SKIPPED"}
          /\ pc'[r] = "planned" /\ UNCHANGED queue
      BY <1>1, <1>5, <2>1, <2>2 DEF Plan, JobOrder, TypeOK, ActorsOK
    <3> QED BY <1>1, <1>5, <2>1, <3>1 DEF JobOrder, InQueue, JobStatus
  <2>3. CASE EnqueueBegin(r)
    <3>1. pc[r] = "planned" /\ pc'[r] \in {"enqueue", "end"} /\ UNCHANGED <<status, queue>>
      BY <1>1, <2>3 DEF EnqueueBegin, TypeOK, ActorsOK
    <3> QED BY <1>1, <1>5, <2>1, <3>1 DEF JobOrder, InQueue
  <2>4. CASE EnqueueCommit(r)
    <3>1. /\ pc[r] = "enqueue" /\ pc'[r] = "put" /\ UNCHANGED queue
          /\ \/ status[j] = "SKIPPED" /\ status'[j] = status[j]
             \/ status[j] = "PENDING" /\ status'[j] = "QUEUED"
      BY <1>1, <1>5, <2>1, <2>4 DEF EnqueueCommit, JobOrder, RunnableJobs, TypeOK, ActorsOK
    <3> QED BY <1>1, <1>5, <2>1, <3>1, TableRows DEF JobOrder, InQueue, IsTransitionAllowed
  <2>5. CASE EnqueuePut(r)
    <3>1. PICK order \in SetToSeqs(RunnableJobs(r)) : Put("default", order)
      BY <2>5 DEF EnqueuePut
    <3>2. /\ QueueOK /\ QueueOK' /\ LoneEntries /\ RunnableJobs(r) \in SUBSET Jobs
          /\ \A k \in RunnableJobs(r) : ~InQueue(k)
      BY <1>1 DEF TypeOK, Lone, LoneJob, RunnableJobs
    <3>3. InQueue(j)' => j \in RunnableJobs(r)
      BY <2>1, <3>1, <3>2, PutLone
    <3>4. pc[r] = "put" /\ pc'[r] = "end" /\ UNCHANGED status
      BY <1>1, <2>5 DEF EnqueuePut, TypeOK, ActorsOK
    <3> QED BY <1>1, <1>5, <2>1, <3>3, <3>4 DEF JobOrder, RunnableJobs
  <2> QED BY <2>2, <2>3, <2>4, <2>5 DEF RunNext
<1> QED BY <1>2, <1>3, <1>4, <1>5 DEF Orderly, LegalStep

LEMMA PoolOrderly ==
    ASSUME TypeOK, TypeOK', Lone, Orderly,
           \/ DispatchSkip \/ DispatchHold \/ ProcessNext
           \/ \E w \in Workers, j \in Jobs : Spawns(w, j)
           \/ \E w \in Workers, n \in Nets : WorkerDone(w, n)
    PROVE  Orderly' /\ UNCHANGED status
<1>1. QueueOK /\ QueueOK' /\ LoneEntries /\ \A j \in Jobs : JobOrder(j)
  BY DEF TypeOK, Lone, Orderly
<1>2. CASE DispatchSkip \/ DispatchHold
  <2>1. /\ queue' = Popped /\ ~Empty /\ hand' \in {None, NextJob}
        /\ UNCHANGED <<pc, job, out, status>>
    BY <1>2 DEF DispatchSkip, DispatchHold
  <2>2. /\ \A j \in Jobs : InQueue(j)' => InQueue(j)
        /\ \E k \in Jobs : k = NextJob /\ InQueue(k)
    BY <1>1, <2>1, PopLone
  <2>3. ASSUME NEW j \in Jobs PROVE JobOrder(j)'
    <3>1. InQueue(j)' \/ hand' = j => InQueue(j)
      BY <2>1, <2>2, NoneAssumption DEF NoneAssumption
    <3> QED BY <1>1, <2>1, <3>1 DEF JobOrder
  <2> QED BY <2>1, <2>3, TaskRests DEF Orderly
<1>3. CASE ProcessNext
  <2>1. CASE ShutdownBegin \/ ShutdownEnd
    <3>1. UNCHANGED <<queue, pc, job, out, status>> /\ hand' \in {None, hand}
      BY <2>1 DEF ShutdownBegin, ShutdownEnd
    <3>2. \A j \in Jobs : JobOrder(j)'
      BY <1>1, <3>1, NoneAssumption DEF JobOrder, InQueue, NoneAssumption
    <3> QED BY <3>1, <3>2, TaskRests DEF Orderly
  <2>2. CASE FreshProcess
    <3>1. /\ \A a \in Tasks : pc'[a] = "idle"
          /\ \A r \in Runs : pc'[r] = "end" \/ (pc'[r] = "idle" /\ pc[r] = "idle")
          /\ UNCHANGED status /\ hand' = None /\ \A j \in Jobs : ~InQueue(j)'
      BY <2>2, Kinds DEF FreshProcess, Tasks, InQueue, Contains
    <3>2. \A j \in Jobs : JobOrder(j)'
      BY <1>1, <3>1, NoneAssumption, RunAssumption DEF JobOrder, NoneAssumption, RunAssumption
    <3>3. \A a \in Tasks : TaskOrder(a)'
      BY <3>1 DEF TaskOrder
    <3> QED BY <3>1, <3>2, <3>3 DEF Orderly
  <2> QED BY <1>3, <2>1, <2>2 DEF ProcessNext, Restart, Crash
<1>4. ASSUME NEW w \in Workers, NEW k \in Jobs, Spawns(w, k) PROVE Orderly' /\ UNCHANGED status
  <2>1. /\ UNCHANGED status /\ hand' = None /\ pc'[w] = "spawned" /\ job'[w] = k
        /\ \A b \in Actors : b # w => pc'[b] = pc[b] /\ job'[b] = job[b]
        /\ UNCHANGED out
    BY <1>4, Kinds DEF Spawns, Spawn, TypeOK, ActorsOK
  <2>2. /\ \A j \in Jobs : InQueue(j)' => InQueue(j)
        /\ hand = k \/ InQueue(k)
    <3>1. CASE hand = k /\ UNCHANGED queue
      BY <3>1 DEF InQueue
    <3>2. CASE queue' = Popped /\ ~Empty /\ k = NextJob
      BY <1>1, <3>2, PopLone
    <3> QED BY <1>4, <3>1, <3>2 DEF Spawns
  <2>3. \A j \in Jobs : JobOrder(j)'
    BY <1>1, <2>1, <2>2, Kinds, NoneAssumption, RunAssumption
       DEF JobOrder, NoneAssumption, RunAssumption
  <2>4. TaskOrder(w)'
    BY <1>1, <2>1, <2>2 DEF TaskOrder, JobOrder
  <2>5. \A b \in Tasks : b # w => TaskOrder(b)'
    BY <2>1, Kinds, TaskRests DEF Tasks, Orderly
  <2> QED BY <2>1, <2>3, <2>4, <2>5 DEF Orderly
<1>5. ASSUME NEW w \in Workers, NEW n \in Nets, WorkerDone(w, n)
      PROVE  Orderly' /\ UNCHANGED status
  <2>1. /\ UNCHANGED <<status, queue, hand, out>> /\ pc[w] = "done"
        /\ pc'[w] = "idle" /\ pc'[n] = "check" /\ job'[n] = job[w]
        /\ \A b \in Actors : b # w /\ b # n => pc'[b] = pc[b] /\ job'[b] = job[b]
    BY <1>5, Kinds DEF WorkerDone, TypeOK, ActorsOK
  <2>2. \A j \in Jobs : JobOrder(j)'
    BY <1>1, <2>1, Kinds, RunAssumption DEF JobOrder, InQueue, RunAssumption
  <2>3. TaskOrder(w)' /\ TaskOrder(n)'
    BY <2>1 DEF Orderly, TaskOrder, Tasks
  <2>4. \A b \in Tasks : b # w /\ b # n => TaskOrder(b)'
    BY <2>1, Kinds, TaskRests DEF Tasks, Orderly
  <2> QED BY <2>1, <2>2, <2>3, <2>4 DEF Orderly
<1> QED BY <1>2, <1>3, <1>4, <1>5

Undisturbed == Unretried /\ Uncancelled

LEMMA OrderlyStep ==
    ASSUME TypeOK, TypeOK', Lone, Orderly, [Next]_vars, Undisturbed'
    PROVE  Orderly' /\ LegalStep
<1>1. CASE UNCHANGED vars
  <2>1. UNCHANGED <<queue, hand, pc, job, out, status>>
    BY <1>1 DEF vars
  <2> QED BY <2>1 DEF Orderly, TaskOrder, JobOrder, InQueue, LegalStep
<1>2. ASSUME NEW a \in Actors, Acts(a) PROVE Orderly' /\ LegalStep
  <2>1. a \notin Cancels /\ a \notin Retries
    BY <1>2, NotBegun DEF Undisturbed, Unretried, Uncancelled
  <2>2. CASE a \in Tasks
    BY <1>2, <2>2, TasksOrderly
  <2>3. CASE a \in Runs
    <3>1. Plan(a) \/ RunNext(a)
      BY <1>2, <2>3, Kinds DEF Acts
    <3> QED BY <2>3, <3>1, RunsOrderly
  <2> QED BY <2>1, <2>2, <2>3 DEF Actors, Tasks
<1>3. UNCHANGED status => LegalStep
  BY DEF LegalStep
<1> QED BY <1>1, <1>2, <1>3, PoolOrderly, StepKinds

LEMMA UndisturbedSteps ==
    ASSUME TypeOK, [Next]_vars, Undisturbed'
    PROVE  Undisturbed
BY UnretriedSteps, UncancelledSteps DEF Undisturbed

LEMMA OrderlyHolds == Spec => [](Undisturbed => Orderly)
<1>1. Init => (Undisturbed => Orderly)
  <2> SUFFICES ASSUME Init PROVE Orderly
    OBVIOUS
  <2>1. \A a \in Actors : pc[a] = "idle"
    BY DEF Init, InitMemory
  <2>2. \A a \in Tasks : TaskOrder(a)
    BY <2>1, Kinds DEF Tasks, TaskOrder
  <2>3. \A j \in Jobs : JobOrder(j)
    <3>0. \A l \in Lanes : queue[l] = <<>>
      BY DEF Init, InitMemory
    <3>1. \A j \in Jobs : ~InQueue(j) /\ hand # j /\ status[j] = "ABSENT"
      <4>1. \A j \in Jobs : ~InQueue(j)
        BY <3>0 DEF InQueue, Contains
      <4>2. \A j \in Jobs : hand # j /\ status[j] = "ABSENT"
        BY NoneAssumption DEF Init, InitMemory, NoneAssumption
      <4> QED BY <4>1, <4>2
    <3>2. \A j \in Jobs : pc[RunOf[j]] = "idle"
      BY <2>1, Kinds, RunAssumption DEF RunAssumption
    <3> QED BY <3>1, <3>2 DEF JobOrder
  <2> QED BY <2>2, <2>3 DEF Orderly
<1>2. /\ TypeOK /\ TypeOK' /\ (Unretried => Lone) /\ (Undisturbed => Orderly) /\ [Next]_vars
      => (Undisturbed => Orderly)'
  BY UndisturbedSteps, OrderlyStep DEF Undisturbed
<1> QED BY <1>1, <1>2, TypeCorrect, LoneTasks, PTL DEF Spec

(* While no user cancels or retries, every change of a row's status is one *)
(* of the transition table, whatever tools and processes do.               *)
THEOREM StatusesFollowTheTable ==
    ASSUME Cancels = {}, Retries = {}
    PROVE  Spec => LegalTransitions
<1>1. Undisturbed /\ Undisturbed'
  BY DEF Undisturbed, Unretried, Uncancelled
<1>2. /\ TypeOK /\ TypeOK' /\ (Unretried => Lone) /\ (Undisturbed => Orderly) /\ [Next]_vars
      => LegalStep
  BY <1>1, OrderlyStep DEF Undisturbed
<1>3. LegalTransitions <=> [][LegalStep]_vars
  BY DEF LegalTransitions, LegalStep
<1> QED BY <1>2, <1>3, TypeCorrect, LoneTasks, OrderlyHolds, PTL DEF Spec

-----------------------------------------------------------------------------
(* The cohort of an assessment that is executed once.  A job that is under *)
(* way is in it, or the last job left it in a process that died.           *)
OneExecution == \A r, s \in Runs : AssessmentOf[r] = AssessmentOf[s] => r = s

Cohorts ==
    /\ \A j \in Jobs : status[j] \in Unfinished =>
            /\ aStatus[Owner(j)] = "RUNNING"
            /\ pending[Owner(j)] = {} \/ j \in pending[Owner(j)]
    /\ \A r \in Runs : pc[r] \in {"enqueue", "put"} =>
            RunnableJobs(r) \subseteq pending[AssessmentOf[r]]
    /\ \A a \in Tasks : pc[a] = "settle" =>
            \A j \in Jobs : Owner(j) = Owner(job[a]) => status[j] \notin Unfinished

(* The steps that start no job, settle nothing and leave the cohorts be.   *)
LEMMA CohortsKept ==
    ASSUME Cohorts, UNCHANGED <<aStatus, pending>>,
           \A j \in Jobs : \/ status'[j] = status[j]
                           \/ status[j] \in Unfinished
                           \/ status'[j] \notin Unfinished /\ status[j] # "SKIPPED",
           \A r \in Runs : pc'[r] \in {"enqueue", "put"} => pc[r] \in {"enqueue", "put"},
           \A a \in Tasks : pc'[a] = "settle" => pc[a] = "settle" /\ job'[a] = job[a]
    PROVE  Cohorts'
<1>1. \A j \in Jobs : /\ status'[j] \in Unfinished => status[j] \in Unfinished
                      /\ status'[j] # "SKIPPED" => status[j] # "SKIPPED"
  BY DEF Unfinished
<1>2. \A r \in Runs : RunnableJobs(r)' \subseteq RunnableJobs(r)
  BY <1>1 DEF RunnableJobs
<1> QED BY <1>1, <1>2 DEF Cohorts, Owner

(* What a task does to the assessment and to its cohort.                   *)
LEMMA TaskCohort ==
    ASSUME TypeOK, NEW a \in Tasks, Acts(a)
    PROVE  LET o == Owner(job[a]) IN
           \/ pc'[a] # "settle" /\ UNCHANGED <<aStatus, pending>>
           \/ /\ pc[a] = "hook" /\ UNCHANGED <<aStatus, status>> /\ pending[o] # {}
              /\ \/ /\ pc'[a] # "settle"
                    /\ pending' = [pending EXCEPT ![o] = pending[o] \ {job[a]}]
                 \/ /\ pc'[a] = "settle" /\ job'[a] = job[a]
                    /\ pending[o] \ {job[a]} = {} /\ pending' = [pending EXCEPT ![o] = {}]
           \/ /\ pc[a] = "settle" /\ pc'[a] # "settle" /\ UNCHANGED <<status, pending>>
              /\ \E v : aStatus' = [aStatus EXCEPT ![o] = v]
<1>1. \/ a \in Workers /\ WorkerNext(a) /\ ~\E n \in Nets : WorkerDone(a, n)
      \/ a \in Nets /\ NetNext(a)
  <2>1. a \notin Runs /\ a \notin Cancels /\ a \notin Retries
    BY Kinds DEF Tasks
  <2> QED BY <2>1 DEF Acts
<1>2. /\ \A s : Goto(a, s) => pc'[a] = s
      /\ Return(a) => pc'[a] # "settle"
  BY Kinds DEF TypeOK, ActorsOK, Return, Tasks
<1>3. CASE LeaveCohort(a)
  BY <1>2, <1>3 DEF LeaveCohort
<1>4. CASE Settle(a)
  <2>1. /\ pc[a] = "settle" /\ pc'[a] # "settle" /\ UNCHANGED <<status, pending>>
        /\ FinalizeAssessment(Owner(job[a]), out[a])
    BY <1>2, <1>4 DEF Settle
  <2> QED BY <2>1 DEF FinalizeAssessment
<1>5. CASE NetCheck(a) \/ Finalize(a)
  BY <1>2, <1>5 DEF NetCheck, Finalize
<1>6. CASE WorkerCancelled(a)
  <2>1. CASE pc[a] = "settle"
    <3>1. /\ pc'[a] # "settle" /\ UNCHANGED <<status, pending>>
          /\ UNCHANGED aStatus \/ FinalizeAssessment(Owner(job[a]), out[a])
      BY <1>2, <1>6, <2>1 DEF WorkerCancelled
    <3> QED BY <2>1, <3>1 DEF FinalizeAssessment
  <2>2. CASE pc[a] # "settle"
    BY <1>2, <1>6, <2>2 DEF WorkerCancelled
  <2> QED BY <2>1, <2>2
<1>7. CASE \/ WorkerLoad(a) \/ WorkerClaim(a) \/ WorkerPrepareFails(a) \/ WorkerStart(a)
           \/ WorkerExecuted(a) \/ WorkerPersisted(a) \/ WorkerPersistFails(a)
  <2>1. UNCHANGED <<aStatus, pending>>
    BY <1>7 DEF WorkerLoad, WorkerClaim, WorkerPrepareFails, WorkerStart, WorkerExecuted,
       WorkerPersisted, WorkerPersistFails
  <2>2. Return(a) \/ \E s \in WorkerPcs : s # "settle" /\ Goto(a, s)
    BY <1>7 DEF WorkerLoad, WorkerClaim, WorkerPrepareFails, WorkerStart, WorkerExecuted,
       WorkerPersisted, WorkerPersistFails, WorkerPcs
  <2> QED BY <1>2, <2>1, <2>2
<1> QED BY <1>1, <1>3, <1>4, <1>5, <1>6, <1>7 DEF WorkerNext, NetNext

LEMMA TasksCohorts ==
    ASSUME OneExecution, TypeOK, Lone, Orderly, Cohorts, NEW a \in Tasks, Acts(a)
    PROVE  Cohorts'
<1> DEFINE k == job[a]
           o == Owner(k)
<1>1. /\ k \in Jobs /\ o \in Assessments /\ pending \in [Assessments -> SUBSET Jobs]
      /\ aStatus \in [Assessments -> AssessmentStatus]
      /\ \A j \in Jobs : Owner(j) \in Assessments
      /\ \A r \in Runs : AssessmentOf[r] \in Assessments
      /\ o = AssessmentOf[RunOf[k]] /\ RunOf[k] \in Runs
  BY TaskActs, OwnerType, RunAssumption DEF Orderly, TypeOK, CohortOK, DbOK, Owner, RunAssumption
<1>2. /\ \A j \in Jobs : status'[j] = status[j] \/ status[j] \in Unfinished
      /\ pc[a] \in {"hook", "settle"} => status[k] \in TerminalStatuses
  BY TaskActs DEF Orderly, TaskOrder
<1>3. /\ \A b \in Tasks : b # a => pc'[b] = pc[b] /\ job'[b] = job[b]
      /\ \A r \in Runs : pc'[r] = pc[r]
      /\ At(a, k)
  BY TaskFrame, Kinds DEF Tasks, At
<1>4. \A r \in Runs : AssessmentOf[r] = o => pc[r] = "end"
  BY <1>1, <1>3 DEF OneExecution, Lone, LoneJob
<1>5. CASE pc'[a] # "settle" /\ UNCHANGED <<aStatus, pending>>
  BY <1>2, <1>3, <1>5, CohortsKept
<1>6. \A j \in Jobs : Owner(j)' = Owner(j)
  BY DEF Owner
<1>7. CASE /\ pc[a] = "hook" /\ UNCHANGED <<aStatus, status>> /\ pending[o] # {}
           /\ \/ /\ pc'[a] # "settle"
                 /\ pending' = [pending EXCEPT ![o] = pending[o] \ {k}]
              \/ /\ pc'[a] = "settle" /\ job'[a] = k
                 /\ pending[o] \ {k} = {} /\ pending' = [pending EXCEPT ![o] = {}]
  <2>1. \A b \in Assessments : pending'[b] = IF b = o THEN pending[o] \ {k} ELSE pending[b]
    BY <1>1, <1>7
  <2>2. \A j \in Jobs : Owner(j) = o /\ status[j] \in Unfinished => j \in pending[o] \ {k}
    BY <1>2, <1>7 DEF Cohorts, Unfinished, TerminalStatuses
  <2>3. ASSUME NEW j \in Jobs, status'[j] \in Unfinished
        PROVE  aStatus'[Owner(j)] = "RUNNING" /\ (pending'[Owner(j)] = {} \/ j \in pending'[Owner(j)])
    <3>1. status[j] \in Unfinished /\ Owner(j) \in Assessments
      BY <1>1, <1>7, <2>3
    <3> QED BY <1>7, <2>1, <2>2, <3>1 DEF Cohorts
  <2>4. ASSUME NEW r \in Runs, pc'[r] \in {"enqueue", "put"}
        PROVE  RunnableJobs(r)' \subseteq pending'[AssessmentOf[r]]
    <3>1. AssessmentOf[r] # o /\ AssessmentOf[r] \in Assessments
      BY <1>1, <1>3, <1>4, <2>4
    <3>2. RunnableJobs(r)' = RunnableJobs(r) /\ pc[r] \in {"enqueue", "put"}
      BY <1>3, <1>7, <2>4 DEF RunnableJobs
    <3> QED BY <2>1, <3>1, <3>2 DEF Cohorts
  <2>5. ASSUME NEW b \in Tasks, pc'[b] = "settle", NEW j \in Jobs, Owner(j) = Owner(job'[b])
        PROVE  status'[j] \notin Unfinished
    <3>1. CASE b = a
      <4>1. pending[o] \ {k} = {} /\ Owner(j) = o
        BY <1>7, <2>5, <3>1
      <4> QED BY <1>7, <2>2, <4>1
    <3>2. CASE b # a
      BY <1>3, <1>7, <2>5, <3>2 DEF Cohorts
    <3> QED BY <3>1, <3>2
  <2> QED BY <2>3, <2>4, <2>5, <1>6 DEF Cohorts, Owner
<1>8. CASE /\ pc[a] = "settle" /\ pc'[a] # "settle" /\ UNCHANGED <<status, pending>>
           /\ \E v : aStatus' = [aStatus EXCEPT ![o] = v]
  <2>1. \A j \in Jobs : status[j] \in Unfinished => Owner(j) # o
    BY <1>8 DEF Cohorts
  <2>2. \A j \in Jobs : status[j] \in Unfinished => aStatus'[Owner(j)] = "RUNNING"
    BY <1>1, <1>8, <2>1 DEF Cohorts
  <2>3. \A r \in Runs : RunnableJobs(r)' = RunnableJobs(r)
    BY <1>8 DEF RunnableJobs
  <2> QED BY <1>3, <1>8, <2>2, <2>3 DEF Cohorts, Owner
<1> QED BY <1>5, <1>7, <1>8, TaskCohort

LEMMA RunsCohorts ==
    ASSUME OneExecution, TypeOK, Lone, Orderly, Cohorts,
           NEW r \in Runs, Plan(r) \/ RunNext(r)
    PROVE  Cohorts'
<1> DEFINE o == AssessmentOf[r]
<1>1. /\ UNCHANGED job /\ pc[r] # "end" /\ o \in Assessments
      /\ \A b \in Actors : b # r => pc'[b] = pc[b]
      /\ \A s : Goto(r, s) => pc'[r] = s
      /\ pending \in [Assessments -> SUBSET Jobs]
      /\ aStatus \in [Assessments -> AssessmentStatus]
      /\ \A s \in Runs : AssessmentOf[s] \in Assessments
  BY Kinds, RunAssumption
     DEF Plan, RunNext, EnqueueBegin, EnqueueCommit, EnqueuePut, TypeOK, ActorsOK, CohortOK,
         DbOK, RunAssumption
<1>2. \A j \in Jobs : RunOf[j] = r <=> Owner(j) = o
  BY RunAssumption DEF Owner, OneExecution, RunAssumption
<1>3. \A b \in Tasks : pc'[b] = pc[b] /\ job'[b] = job[b]
  BY <1>1, Kinds DEF Tasks
<1>4. \A j \in Jobs : RunOf[j] = r => JobOrder(j) /\ \A b \in Tasks : ~At(b, j)
  BY <1>1 DEF Orderly, Lone, LoneJob
<1>5. CASE Plan(r)
  <2>1. /\ pc'[r] = "planned" /\ UNCHANGED <<aStatus, pending>>
        /\ \A j \in Jobs : \/ status'[j] = status[j]
                           \/ status[j] = "ABSENT" /\ status'[j] \in {"PENDING", "SKIPPED"}
    BY <1>1, <1>4, <1>5 DEF Plan, JobOrder
  <2> QED BY <1>1, <1>3, <2>1, Kinds, CohortsKept DEF Unfinished
<1>6. CASE EnqueueBegin(r)
  <2>1. pc[r] = "planned" /\ UNCHANGED <<status, aStatus>>
    BY <1>6 DEF EnqueueBegin
  <2>2. \A j \in Jobs : Owner(j) = o => status[j] \notin Unfinished
    BY <1>2, <1>4, <2>1 DEF JobOrder, Unfinished
  <2>3. \A s \in Runs : RunnableJobs(s)' = RunnableJobs(s)
    BY <2>1 DEF RunnableJobs
  <2>4. CASE UNCHANGED pending /\ pc'[r] = "end"
    BY <1>1, <1>3, <2>1, <2>4, Kinds, CohortsKept
  <2>5. CASE pending' = [pending EXCEPT ![o] = RunnableJobs(r)]
    <3>1. \A x \in Assessments : pending'[x] = IF x = o THEN RunnableJobs(r) ELSE pending[x]
      BY <1>1, <2>5
    <3>2. ASSUME NEW j \in Jobs, status'[j] \in Unfinished
          PROVE  /\ aStatus'[Owner(j)] = "RUNNING"
                 /\ pending'[Owner(j)] = {} \/ j \in pending'[Owner(j)]
      BY <2>1, <2>2, <3>1, <3>2, OwnerType DEF Cohorts
    <3>3. ASSUME NEW s \in Runs, pc'[s] \in {"enqueue", "put"}
          PROVE  RunnableJobs(s)' \subseteq pending'[AssessmentOf[s]]
      <4>1. CASE s = r
        BY <1>1, <2>3, <3>1, <4>1
      <4>2. CASE s # r
        BY <1>1, <2>3, <3>1, <3>3, <4>2, Kinds DEF Cohorts, OneExecution
      <4> QED BY <4>1, <4>2
    <3> QED BY <1>3, <2>1, <3>2, <3>3 DEF Cohorts, Owner
  <2> QED BY <1>1, <1>6, <2>4, <2>5 DEF EnqueueBegin
<1>7. CASE EnqueueCommit(r)
  <2>1. /\ pc[r] = "enqueue" /\ pc'[r] = "put" /\ UNCHANGED pending
        /\ \A j \in Jobs : status'[j] = IF j \in RunnableJobs(r) THEN "QUEUED" ELSE status[j]
        /\ MarkAssessmentRunning(o)
    BY <1>1, <1>7 DEF EnqueueCommit
  <2>2. aStatus'[o] = "RUNNING" /\ \A x \in Assessments : x # o => aStatus'[x] = aStatus[x]
    BY <1>1, <2>1 DEF MarkAssessmentRunning
  <2>3. \A s \in Runs : RunnableJobs(s)' = RunnableJobs(s)
    BY <2>1 DEF RunnableJobs
  <2>4. RunnableJobs(r) \subseteq pending[o] /\ \A j \in RunnableJobs(r) : Owner(j) = o
    BY <1>2, <2>1 DEF Cohorts, RunnableJobs
  <2>5. ASSUME NEW j \in Jobs, status'[j] \in Unfinished
        PROVE  /\ aStatus'[Owner(j)] = "RUNNING"
               /\ pending'[Owner(j)] = {} \/ j \in pending'[Owner(j)]
    <3>1. CASE j \in RunnableJobs(r)
      BY <2>1, <2>2, <2>4, <3>1
    <3>2. CASE j \notin RunnableJobs(r)
      BY <2>1, <2>2, <2>5, <3>2, OwnerType DEF Cohorts
    <3> QED BY <3>1, <3>2
  <2>6. ASSUME NEW s \in Runs, pc'[s] \in {"enqueue", "put"}
        PROVE  RunnableJobs(s)' \subseteq pending'[AssessmentOf[s]]
    <3>1. pc[s] \in {"enqueue", "put"}
      BY <1>1, <2>1, <2>6, Kinds
    <3> QED BY <2>1, <2>3, <3>1 DEF Cohorts
  <2>7. ASSUME NEW b \in Tasks, pc'[b] = "settle", NEW j \in Jobs, Owner(j) = Owner(job'[b])
        PROVE  status'[j] \notin Unfinished
    <3>1. pc[b] = "settle" /\ job'[b] = job[b] /\ job[b] \in Jobs /\ At(b, job[b])
      BY <1>3, <2>7, Kinds DEF At, TypeOK, ActorsKnow, Tasks
    <3>2. Owner(j) # o
      BY <1>2, <1>4, <2>7, <3>1
    <3>3. status[j] \notin Unfinished
      BY <2>7, <3>1 DEF Cohorts
    <3> QED BY <2>1, <2>4, <3>2, <3>3
  <2> QED BY <2>5, <2>6, <2>7 DEF Cohorts, Owner
<1>8. CASE EnqueuePut(r)
  <2>1. pc'[r] = "end" /\ UNCHANGED <<status, aStatus, pending>>
    BY <1>1, <1>8 DEF EnqueuePut
  <2> QED BY <1>1, <1>3, <2>1, Kinds, CohortsKept
<1> QED BY <1>5, <1>6, <1>7, <1>8 DEF RunNext

LEMMA CohortsStep ==
    ASSUME OneExecution, TypeOK, TypeOK', Lone, Orderly, Cohorts, [Next]_vars, Undisturbed'
    PROVE  Cohorts'
<1>1. CASE UNCHANGED vars \/ DispatchSkip \/ DispatchHold \/ ShutdownBegin \/ ShutdownEnd
  <2>1. UNCHANGED <<pc, job, status, aStatus, pending>>
    BY <1>1 DEF vars, DispatchSkip, DispatchHold, ShutdownBegin, ShutdownEnd
  <2> QED BY <2>1, CohortsKept
<1>2. CASE FreshProcess
  <2>1. /\ UNCHANGED <<status, aStatus>>
        /\ \A x \in Assessments : pending'[x] = {}
        /\ \A a \in Tasks : pc'[a] = "idle"
        /\ \A r \in Runs : pc'[r] \in {"idle", "end"}
    BY <1>2, Kinds DEF FreshProcess, Tasks
  <2>2. \A j \in Jobs : Owner(j)' = Owner(j) /\ Owner(j) \in Assessments
    BY OwnerType DEF Owner
  <2> QED BY <2>1, <2>2 DEF Cohorts
<1>3. ASSUME NEW w \in Workers, NEW k \in Jobs, Spawns(w, k) PROVE Cohorts'
  <2>1. /\ UNCHANGED <<status, aStatus, pending>> /\ pc'[w] = "spawned"
        /\ \A b \in Actors : b # w => pc'[b] = pc[b] /\ job'[b] = job[b]
    BY <1>3, Kinds DEF Spawns, Spawn, TypeOK, ActorsOK
  <2> QED BY <2>1, Kinds, CohortsKept DEF Tasks
<1>4. ASSUME NEW w \in Workers, NEW n \in Nets, WorkerDone(w, n) PROVE Cohorts'
  <2>1. /\ UNCHANGED <<status, aStatus, pending>> /\ pc'[w] = "idle" /\ pc'[n] = "check"
        /\ \A b \in Actors : b # w /\ b # n => pc'[b] = pc[b] /\ job'[b] = job[b]
    BY <1>4, Kinds DEF WorkerDone, TypeOK, ActorsOK
  <2> QED BY <2>1, Kinds, CohortsKept DEF Tasks
<1>5. ASSUME NEW a \in Actors, Acts(a) PROVE Cohorts'
  <2>1. a \notin Cancels /\ a \notin Retries
    BY <1>5, NotBegun DEF Undisturbed, Unretried, Uncancelled
  <2>2. CASE a \in Tasks
    BY <1>5, <2>2, TasksCohorts
  <2>3. CASE a \in Runs
    <3>1. Plan(a) \/ RunNext(a)
      BY <1>5, <2>3, Kinds DEF Acts
    <3> QED BY <2>3, <3>1, RunsCohorts
  <2> QED BY <2>1, <2>2, <2>3 DEF Actors, Tasks
<1> QED BY <1>1, <1>2, <1>3, <1>4, <1>5, StepKinds DEF ProcessNext, Restart, Crash

(* An assessment that is executed once is RUNNING as long as one of its    *)
(* jobs is under way, until the first retry or cancellation of any job.    *)
THEOREM AssessmentsRunWithTheirJobs ==
    ASSUME OneExecution
    PROVE  Spec => [](Undisturbed => AssessmentRunsWithItsJobs)
<1>1. Init => (Undisturbed => Cohorts)
  <2> SUFFICES ASSUME Init PROVE Cohorts
    OBVIOUS
  <2>1. /\ \A j \in Jobs : status[j] = "ABSENT"
        /\ \A a \in Actors : pc[a] = "idle"
    BY DEF Init, InitMemory
  <2> QED BY <2>1, Kinds DEF Cohorts, Tasks, Unfinished
<1>2. /\ TypeOK /\ TypeOK' /\ (Unretried => Lone) /\ (Undisturbed => Orderly)
      /\ (Undisturbed => Cohorts) /\ [Next]_vars
      => (Undisturbed => Cohorts)'
  BY UndisturbedSteps, CohortsStep, OneExecution DEF Undisturbed
<1>3. (Undisturbed => Cohorts) => (Undisturbed => AssessmentRunsWithItsJobs)
  BY DEF Cohorts, AssessmentRunsWithItsJobs, Unfinished
<1> QED BY <1>1, <1>2, <1>3, TypeCorrect, LoneTasks, OrderlyHolds, PTL DEF Spec

-----------------------------------------------------------------------------
(* While nobody cancels or retries the manager implements JobLifecycle.    *)

LEMMA StageValues ==
    ASSUME NEW a \in Tasks
    PROVE  /\ pc[a] \in {"spawned", "claim", "prepare"} => Stage(a) = "task"
           /\ pc[a] = "execute" => Stage(a) = "tool"
           /\ pc[a] \in {"persist", "finalize"} => Stage(a) = out[a]
           /\ pc[a] \in {"done", "check"} =>
                 Stage(a) = IF status[job[a]] \in TerminalStatuses THEN "none" ELSE "lost"
           /\ pc[a] \in {"idle", "hook", "settle"} => Stage(a) = "none"
BY DEF Stage

LEMMA StageValuesNext ==
    ASSUME NEW a \in Tasks
    PROVE  /\ pc'[a] \in {"spawned", "claim", "prepare"} => Stage(a)' = "task"
           /\ pc'[a] = "execute" => Stage(a)' = "tool"
           /\ pc'[a] \in {"persist", "finalize"} => Stage(a)' = out'[a]
           /\ pc'[a] \in {"done", "check"} =>
                 Stage(a)' = IF status'[job'[a]] \in TerminalStatuses THEN "none" ELSE "lost"
           /\ pc'[a] \in {"idle", "hook", "settle"} => Stage(a)' = "none"
BY DEF Stage

LEMMA StageSame ==
    ASSUME NEW a \in Tasks, pc'[a] = pc[a], job'[a] = job[a], out'[a] = out[a],
           pc[a] \in {"idle", "end"} \/ status'[job[a]] = status[job[a]]
    PROVE  Stage(a)' = Stage(a)
BY DEF Stage

(* The task that has a job tells what is done with it.                     *)
LEMMA WorkAt ==
    Lone => \A j \in Jobs, a \in Tasks : At(a, j) => Work(j) = Stage(a)
<1> SUFFICES ASSUME Lone, NEW j \in Jobs, NEW a \in Tasks, At(a, j)
             PROVE  Work(j) = Stage(a)
  OBVIOUS
<1> DEFINE b == CHOOSE c \in Tasks : At(c, j)
<1>1. b \in Tasks /\ At(b, j)
  OBVIOUS
<1>2. b = a
  BY <1>1 DEF Lone, LoneJob
<1> QED BY <1>2 DEF Work

LEMMA WorkAtNext ==
    (Lone => \A j \in Jobs, a \in Tasks : At(a, j) => Work(j) = Stage(a))'
BY WorkAt, PTL

(* No task has it.                                                         *)
LEMMA WorkNowhere ==
    ASSUME NEW j \in Jobs, \A a \in Tasks : ~At(a, j)
    PROVE  Work(j) = IF pc[RunOf[j]] = "put" /\ status[j] = "QUEUED" THEN "accepted" ELSE "none"
BY DEF Work

LEMMA WorkNowhereNext ==
    ASSUME NEW j \in Jobs, \A a \in Tasks : ~At(a, j)'
    PROVE  Work(j)' = IF pc'[RunOf[j]] = "put" /\ status'[j] = "QUEUED" THEN "accepted" ELSE "none"
BY DEF Work

(* A step that leaves alone the tasks that have the job.                   *)
LEMMA WorkSame ==
    ASSUME Lone, Lone', NEW j \in Jobs,
           \A a \in Tasks : At(a, j)' <=> At(a, j),
           \A a \in Tasks : At(a, j) => Stage(a)' = Stage(a),
           pc'[RunOf[j]] = pc[RunOf[j]], status'[j] = status[j] \/ pc[RunOf[j]] # "put"
    PROVE  Work(j)' = Work(j)
<1>1. CASE \E a \in Tasks : At(a, j)
  BY <1>1, WorkAt, WorkAtNext
<1>2. CASE \A a \in Tasks : ~At(a, j)
  BY <1>2, WorkNowhere, WorkNowhereNext
<1> QED BY <1>1, <1>2

LEMMA TaskWork ==
    ASSUME TypeOK, TypeOK', Lone, Lone', Orderly, NEW a \in Tasks, Acts(a),
           NEW k \in Jobs, k = job[a]
    PROVE  /\ Work(k) = Stage(a)
           /\ [j \in Jobs |-> Work(j)]' = [[j \in Jobs |-> Work(j)] EXCEPT ![k] = Stage(a)']
           /\ Line' = Line /\ mode' = mode
<1>1. /\ pc[a] # "idle" /\ UNCHANGED <<queue, hand>>
      /\ \A b \in Actors : b # a => pc'[b] = pc[b] /\ job'[b] = job[b] /\ out'[b] = out[b]
      /\ \A j \in Jobs : j # k => status'[j] = status[j]
  BY TaskActs, TaskFrame DEF Orderly
<1>2. At(a, k) /\ Work(k) = Stage(a)
  BY <1>1, WorkAt DEF At
<1>3. mode' = mode /\ Line' = Line
  BY <1>1, OneActs, Kinds DEF Tasks, Line
<1>4. pc'[a] # "idle" => job'[a] = k
  <2>1. /\ a \in Workers => WorkerNext(a) /\ ~\E n \in Nets : WorkerDone(a, n)
        /\ a \in Nets => NetNext(a)
    BY Kinds DEF Acts, Tasks
  <2>2. a \in Nets => ~\E n \in Nets : WorkerDone(a, n)
    BY <2>1 DEF NetNext, NetCheck, Finalize, LeaveCohort, Settle, WorkerDone
  <2>3. Kept
    BY <2>1, <2>2, TaskKept, Kinds DEF Tasks
  <2> QED BY <2>3 DEF Kept
<1>5. \A j \in Jobs : pc'[RunOf[j]] = pc[RunOf[j]]
  BY <1>1, Kinds, RunAssumption DEF Tasks, RunAssumption
<1>6. ASSUME NEW j \in Jobs, j # k PROVE Work(j)' = Work(j)
  <2>1. \A b \in Tasks : At(b, j)' <=> At(b, j)
    BY <1>1, <1>4, <1>6, Kinds DEF At, Tasks
  <2>2. ASSUME NEW b \in Tasks, At(b, j) PROVE Stage(b)' = Stage(b)
    <3>1. b # a /\ job[b] = j
      BY <1>6, <2>2 DEF At
    <3> QED BY <1>1, <1>6, <3>1, StageSame, Kinds DEF Tasks
  <2> QED BY <1>1, <1>5, <1>6, <2>1, <2>2, WorkSame
<1>7. Work(k)' = Stage(a)'
  <2>1. CASE pc'[a] # "idle"
    <3>1. At(a, k)'
      BY <1>4, <2>1 DEF At
    <3> QED BY <1>1, <3>1, WorkAtNext
  <2>2. CASE pc'[a] = "idle"
    <3>1. \A b \in Tasks : ~At(b, k)'
      <4>1. ~At(a, k)'
        BY <2>2 DEF At
      <4>2. ASSUME NEW b \in Tasks, b # a PROVE ~At(b, k)'
        <5>1. ~At(b, k)
          BY <1>1, <1>2, <4>2 DEF Lone, LoneJob
        <5> QED BY <1>1, <4>2, <5>1, Kinds DEF At, Tasks
      <4> QED BY <4>1, <4>2
    <3>2. pc'[RunOf[k]] = "end"
      BY <1>1, <1>2, <1>5 DEF Lone, LoneJob
    <3> QED BY <1>1, <2>2, <3>1, <3>2, WorkNowhereNext, StageValuesNext
  <2> QED BY <2>1, <2>2
<1> QED BY <1>1, <1>2, <1>3, <1>6, <1>7

LifecycleStep == Lifecycle!LifecycleNext \/ UNCHANGED Lifecycle!lifecycleVars

LEMMA SameTable ==
    /\ Lifecycle!AllowedTransitions = AllowedTransitions
    /\ Lifecycle!FinalOutcomes = FinalOutcomes
BY DEF Lifecycle!AllowedTransitions, AllowedTransitions, Lifecycle!FinalOutcomes, FinalOutcomes,
       Lifecycle!JobStatus, JobStatus, Lifecycle!RetriableStatuses, RetriableStatuses

(* Nothing but a step about the task's job can be seen of a task's step.   *)
LEMMA TaskBecomes ==
    ASSUME TypeOK, TypeOK', Lone, Lone', Orderly, NEW a \in Tasks, Acts(a),
           NEW k \in Jobs, k = job[a]
    PROVE  /\ Work(k) = Stage(a)
           /\ Lifecycle!Becomes(k, status'[k], Stage(a)')
           /\ UNCHANGED <<Line, mode = "up">>
<1>1. \A j \in Jobs : j # k => status'[j] = status[j]
  BY TaskActs DEF Orderly
<1>2. status' = [status EXCEPT ![k] = status'[k]]
  BY <1>1 DEF TypeOK, DbOK
<1> QED BY <1>2, TaskWork DEF Lifecycle!Becomes

LEMMA NothingSeen ==
    ASSUME TypeOK, NEW k \in Jobs, Lifecycle!Becomes(k, status[k], Work(k)),
           UNCHANGED <<Line, mode = "up">>
    PROVE  UNCHANGED Lifecycle!lifecycleVars
<1>1. status' = status
  BY DEF Lifecycle!Becomes, TypeOK, DbOK
<1>2. [j \in Jobs |-> Work(j)]' = [j \in Jobs |-> Work(j)]
  <2>1. [j \in Jobs |-> Work(j)]' = [[j \in Jobs |-> Work(j)] EXCEPT ![k] = Work(k)]
    BY DEF Lifecycle!Becomes
  <2> QED BY <2>1
<1> QED BY <1>1, <1>2 DEF Lifecycle!lifecycleVars

(* What a worker does before it has an outcome, or instead of it.          *)
LEMMA WorkerLives ==
    ASSUME TypeOK, TypeOK', Lone, Lone', Orderly, NEW a \in Workers, WorkerNext(a),
           ~\E n \in Nets : WorkerDone(a, n), Acts(a),
           asked[a] => mode # "up", NEW k \in Jobs, k = job[a],
           ~Finalize(a), ~LeaveCohort(a), ~Settle(a)
    PROVE  \/ \/ Lifecycle!Prepare(k) \/ Lifecycle!PrepareFails(k) \/ Lifecycle!RunTool(k)
              \/ Lifecycle!ToolEnds(k) \/ Lifecycle!Record(k) \/ Lifecycle!Lose(k)
              \/ Lifecycle!Abort(k)
           \/ UNCHANGED Lifecycle!lifecycleVars
<1> DEFINE s == status[k]
           t == status'[k]
           v == Stage(a)
           w == Stage(a)'
<1>1. /\ Work(k) = v /\ Lifecycle!Becomes(k, t, w) /\ UNCHANGED <<Line, mode = "up">>
      /\ TaskOrder(a) /\ TaskOrder(a)'
      /\ a \in Actors /\ a \in Tasks /\ s \in JobStatus \cup {"ABSENT"}
  BY TaskBecomes, TaskActs, Kinds DEF Tasks, Orderly, TypeOK, DbOK
<1>2. /\ \A x : Goto(a, x) => pc'[a] = x
      /\ Return(a) => pc'[a] = "done" /\ job'[a] = k
      /\ \A x : status' = [status EXCEPT ![k] = x] => t = x
      /\ UNCHANGED status => t = s
      /\ UNCHANGED job => job'[a] = k
      /\ \A x : out' = [out EXCEPT ![a] = x] => out'[a] = x
  BY <1>1 DEF TypeOK, ActorsOK, DbOK, Return
<1>3. /\ pc[a] \in {"spawned", "claim", "prepare"} => v = "task"
      /\ pc[a] = "execute" => v = "tool"
      /\ pc[a] \in {"persist", "finalize"} => v = out[a]
      /\ pc[a] \in {"hook", "settle"} => v = "none"
  BY <1>1, StageValues
<1>4. /\ pc'[a] \in {"spawned", "claim", "prepare"} => w = "task"
      /\ pc'[a] = "execute" => w = "tool"
      /\ pc'[a] \in {"persist", "finalize"} => w = out'[a]
      /\ pc'[a] = "done" /\ job'[a] = k => w = IF t \in TerminalStatuses THEN "none" ELSE "lost"
  BY <1>1, StageValuesNext
<1>5. v = w /\ s = t => UNCHANGED Lifecycle!lifecycleVars
  BY <1>1, NothingSeen
<1>6. [j \in Jobs |-> Work(j)][k] = v
  BY <1>1
<1>7. pc[a] \in {"persist", "finalize"} => v \in FinalOutcomes
  BY <1>1, <1>3 DEF TypeOK, ActorsKnow
<1> HIDE DEF s, t, v, w
<1>8. CASE WorkerLoad(a)
  <2>1. pc[a] = "spawned" /\ pc'[a] = "claim" /\ s = t
    BY <1>1, <1>2, <1>8 DEF WorkerLoad, WorkerAt, TaskOrder
  <2> QED BY <1>3, <1>4, <1>5, <2>1
<1>9. CASE WorkerClaim(a)
  <2>1. pc[a] = "claim" /\ pc'[a] = "prepare" /\ s = "QUEUED" /\ t = "PREPARING"
    BY <1>1, <1>2, <1>9 DEF WorkerClaim, WorkerAt, TaskOrder, s
  <2> QED BY <1>1, <1>3, <1>4, <1>6, <2>1 DEF Lifecycle!Prepare, s
<1>10. CASE WorkerPrepareFails(a)
  <2>1. /\ pc[a] = "prepare" /\ pc'[a] = "finalize" /\ s = "PREPARING" /\ t = s
        /\ out'[a] = "FAILED"
    BY <1>1, <1>2, <1>10 DEF WorkerPrepareFails, WorkerAt, TaskOrder, s
  <2> QED BY <1>1, <1>3, <1>4, <1>6, <2>1 DEF Lifecycle!PrepareFails, s
<1>11. CASE WorkerStart(a)
  <2>1. pc[a] = "prepare" /\ pc'[a] = "execute" /\ s = "PREPARING" /\ t = "RUNNING"
    BY <1>1, <1>2, <1>11 DEF WorkerStart, WorkerAt, TaskOrder, s
  <2> QED BY <1>1, <1>3, <1>4, <1>6, <2>1 DEF Lifecycle!RunTool, s
<1>12. CASE WorkerExecuted(a)
  <2>1. /\ pc[a] = "execute" /\ pc'[a] \in {"persist", "finalize"} /\ s = "RUNNING" /\ t = s
        /\ out'[a] \in {"COMPLETED", "FAILED", "TIMEOUT"}
    BY <1>1, <1>2, <1>12 DEF WorkerExecuted, WorkerAt, TaskOrder, s
  <2> QED BY <1>1, <1>3, <1>4, <1>6, <2>1 DEF Lifecycle!ToolEnds, s
<1>13. CASE WorkerPersisted(a)
  <2>1. pc[a] = "persist" /\ pc'[a] = "finalize" /\ t = s /\ out'[a] = out[a]
    BY <1>1, <1>2, <1>13 DEF WorkerPersisted, WorkerAt
  <2> QED BY <1>3, <1>4, <1>5, <2>1
<1>14. CASE WorkerPersistFails(a)
  <2>1. /\ pc[a] = "persist" /\ pc'[a] = "done" /\ job'[a] = k /\ s = "RUNNING" /\ t = s
    BY <1>1, <1>2, <1>14 DEF WorkerPersistFails, WorkerAt, TaskOrder, s
  <2>2. w = "lost"
    BY <1>4, <2>1 DEF TerminalStatuses
  <2> QED BY <1>1, <1>3, <1>6, <1>7, <2>1, <2>2, SameTable DEF Lifecycle!Lose, s
<1>15. CASE WorkerCancelled(a)
  <2>1. mode # "up"
    BY <1>15 DEF WorkerCancelled
  <2>2. CASE pc[a] \in {"spawned", "claim", "prepare", "execute"} /\ ~Return(a)
    <3>1. /\ pc'[a] = "finalize" /\ out'[a] = "CANCELLED"
          /\ \/ t = s
             \/ pc[a] = "claim" /\ t = "PREPARING"
             \/ pc[a] = "prepare" /\ t = "RUNNING"
      BY <1>2, <1>15, <2>2 DEF WorkerCancelled
    <3>2. /\ pc[a] = "claim" => s = "QUEUED"
          /\ pc[a] = "prepare" => s = "PREPARING"
      BY <1>1 DEF TaskOrder, s
    <3> QED BY <1>1, <1>3, <1>4, <1>6, <2>1, <2>2, <3>1, <3>2 DEF Lifecycle!Abort, s
  <2>3. CASE Return(a)
    <3>1. /\ pc'[a] = "done" /\ job'[a] = k
          /\ pc[a] \in {"spawned", "persist", "finalize", "hook", "settle"}
          /\ t = s \/ (pc[a] = "finalize" /\ t = out[a])
      BY <1>2, <1>15, <2>3 DEF WorkerCancelled
    <3>2. /\ pc[a] = "spawned" => s = "QUEUED"
          /\ pc[a] = "persist" => s = "RUNNING"
          /\ pc[a] = "finalize" => s \in Unfinished /\ out[a] \in AllowedTransitions[s]
          /\ pc[a] \in {"hook", "settle"} => s \in TerminalStatuses
      BY <1>1 DEF TaskOrder, s
    <3>3. CASE pc[a] \in {"hook", "settle"}
      BY <1>3, <1>4, <1>5, <3>1, <3>2, <3>3
    <3>4. CASE pc[a] = "finalize" /\ t = out[a]
      <4>1. t \in FinalOutcomes /\ w = "none"
        BY <1>3, <1>4, <1>7, <3>1, <3>4 DEF FinalOutcomes, TerminalStatuses
      <4>2. t \in Lifecycle!FinalOutcomes /\ Lifecycle!IsTransitionAllowed(s, t)
        BY <3>2, <3>4, <4>1, SameTable DEF Lifecycle!IsTransitionAllowed
      <4> QED BY <1>1, <1>3, <1>6, <3>4, <4>1, <4>2 DEF Lifecycle!Record, s
    <3>5. CASE pc[a] \in {"spawned", "persist", "finalize"} /\ t = s
      <4>1. w = "lost"
        BY <1>4, <3>1, <3>2, <3>5 DEF Unfinished, TerminalStatuses
      <4> QED BY <1>1, <1>3, <1>6, <1>7, <2>1, <3>5, <4>1, SameTable DEF Lifecycle!Lose, s
    <3> QED BY <3>1, <3>3, <3>4, <3>5
  <2> QED BY <1>15, <2>2, <2>3 DEF WorkerCancelled
<1> QED BY <1>8, <1>9, <1>10, <1>11, <1>12, <1>13, <1>14, <1>15 DEF WorkerNext

(* A worker or a safety net that records its outcome, and what follows.    *)
LEMMA OutcomeLives ==
    ASSUME TypeOK, TypeOK', Lone, Lone', Orderly, NEW a \in Tasks, Acts(a),
           NEW k \in Jobs, k = job[a],
           Finalize(a) \/ LeaveCohort(a) \/ Settle(a) \/ NetCheck(a)
    PROVE  \/ Lifecycle!Record(k) \/ Lifecycle!Rescue(k)
           \/ UNCHANGED Lifecycle!lifecycleVars
<1> DEFINE s == status[k]
           t == status'[k]
           v == Stage(a)
           w == Stage(a)'
<1>1. /\ Work(k) = v /\ Lifecycle!Becomes(k, t, w) /\ UNCHANGED <<Line, mode = "up">>
      /\ TaskOrder(a) /\ TaskOrder(a)'
      /\ a \in Actors /\ s \in JobStatus \cup {"ABSENT"}
  BY TaskBecomes, TaskActs, Kinds DEF Tasks, Orderly, TypeOK, DbOK
<1>2. /\ \A x : Goto(a, x) => pc'[a] = x
      /\ Return(a) => pc'[a] \in {"done", "idle"} /\ (pc'[a] = "done" => job'[a] = k)
      /\ \A x : status' = [status EXCEPT ![k] = x] => t = x
      /\ UNCHANGED status => t = s
      /\ UNCHANGED job => job'[a] = k
      /\ \A x : out' = [out EXCEPT ![a] = x] => out'[a] = x
  BY <1>1, Kinds DEF TypeOK, ActorsOK, DbOK, Return, Tasks
<1>3. /\ pc[a] \in {"persist", "finalize"} => v = out[a]
      /\ pc[a] \in {"hook", "settle"} => v = "none"
      /\ pc[a] = "check" => v = IF s \in TerminalStatuses THEN "none" ELSE "lost"
  BY StageValues
<1>4. /\ pc'[a] \in {"persist", "finalize"} => w = out'[a]
      /\ pc'[a] \in {"idle", "hook", "settle"} => w = "none"
      /\ pc'[a] = "done" /\ job'[a] = k => w = IF t \in TerminalStatuses THEN "none" ELSE "lost"
  BY StageValuesNext
<1>5. v = w /\ s = t => UNCHANGED Lifecycle!lifecycleVars
  BY <1>1, NothingSeen
<1>6. [j \in Jobs |-> Work(j)][k] = v
  BY <1>1
<1>7. pc[a] = "finalize" => v \in FinalOutcomes
  BY <1>1, <1>3 DEF TypeOK, ActorsKnow
<1> HIDE DEF s, t, v, w
<1>8. CASE Finalize(a)
  <2>1. /\ pc[a] = "finalize" /\ pc'[a] = "hook" /\ t = out[a]
        /\ s \in Unfinished /\ out[a] \in AllowedTransitions[s]
    BY <1>1, <1>2, <1>8 DEF Finalize, TaskOrder, s
  <2>2. t \in Lifecycle!FinalOutcomes /\ Lifecycle!IsTransitionAllowed(s, t)
    BY <1>3, <1>7, <2>1, SameTable DEF Lifecycle!IsTransitionAllowed
  <2> QED BY <1>1, <1>3, <1>4, <1>6, <2>1, <2>2 DEF Lifecycle!Record, s
<1>9. CASE LeaveCohort(a) \/ Settle(a)
  <2>1. /\ pc[a] \in {"hook", "settle"} /\ t = s /\ s \in TerminalStatuses
        /\ pc'[a] \in {"done", "idle", "settle"} /\ (pc'[a] = "done" => job'[a] = k)
    BY <1>1, <1>2, <1>9 DEF LeaveCohort, Settle, TaskOrder, s
  <2> QED BY <1>3, <1>4, <1>5, <2>1
<1>10. CASE NetCheck(a)
  <2>1. CASE s \in TerminalStatuses
    <3>1. /\ pc[a] = "check" /\ t = s
          /\ pc'[a] \in {"done", "idle"} /\ (pc'[a] = "done" => job'[a] = k)
      BY <1>2, <1>10, <2>1 DEF NetCheck, s
    <3> QED BY <1>3, <1>4, <1>5, <2>1, <3>1
  <2>2. CASE s \notin TerminalStatuses
    <3>1. /\ pc[a] = "check" /\ t = s /\ pc'[a] = "finalize" /\ out'[a] = "CANCELLED"
      BY <1>2, <1>10, <2>2 DEF NetCheck, s
    <3>2. s \in {"QUEUED", "PREPARING", "RUNNING"}
      BY <1>1, <2>2, <3>1 DEF TaskOrder, Unfinished, s
    <3> QED BY <1>1, <1>3, <1>4, <1>6, <2>2, <3>1, <3>2 DEF Lifecycle!Rescue, s
  <2> QED BY <2>1, <2>2
<1> QED BY <1>8, <1>9, <1>10

LEMMA TaskRefines ==
    ASSUME TypeOK, TypeOK', Lone, Lone', Orderly, NEW a \in Tasks, Acts(a),
           a \in Workers /\ asked[a] => mode # "up"
    PROVE  LifecycleStep
<1>1. PICK k \in Jobs : k = job[a]
  BY TaskActs DEF Orderly
<1>2. /\ a \in Workers => WorkerNext(a) /\ ~\E n \in Nets : WorkerDone(a, n)
      /\ a \in Nets => NetNext(a)
  BY Kinds DEF Acts, Tasks
<1>3. CASE Finalize(a) \/ LeaveCohort(a) \/ Settle(a) \/ NetCheck(a)
  BY <1>1, <1>3, OutcomeLives DEF LifecycleStep, Lifecycle!LifecycleNext
<1>4. CASE ~(Finalize(a) \/ LeaveCohort(a) \/ Settle(a) \/ NetCheck(a))
  <2>1. a \in Workers
    BY <1>2, <1>4 DEF Tasks, NetNext
  <2> QED BY <1>1, <1>2, <1>4, <2>1, WorkerLives DEF LifecycleStep, Lifecycle!LifecycleNext
<1> QED BY <1>3, <1>4

LEMMA SameCardinality == ASSUME NEW S PROVE Lifecycle!Cardinality(S) = Cardinality(S)
  BY DEF Lifecycle!Cardinality, Cardinality

LEMMA SameOrders == ASSUME NEW S PROVE Lifecycle!SetToSeqs(S) = SetToSeqs(S)
  BY SameCardinality DEF Lifecycle!SetToSeqs, SetToSeqs

-----------------------------------------------------------------------------
(* Nothing is flagged, no task is asked to end while the process is up,    *)
(* and a safety net does what safety nets do.                              *)
Calm ==
    /\ flagged = {}
    /\ mode = "up" => \A w \in Workers : ~asked[w]
    /\ \A n \in Nets : pc[n] \in {"idle"} \cup NetPcs

LEMMA CalmStep ==
    ASSUME Cancels = {}, TypeOK, Calm, [Next]_vars
    PROVE  Calm'
<1>1. flagged' = {}
  <2>1. flagged' \subseteq flagged
    <3>1. CASE UNCHANGED vars \/ ProcessNext \/ DispatchSkip \/ DispatchHold
      BY <3>1 DEF vars, ProcessNext, ShutdownBegin, ShutdownEnd, Restart, Crash, FreshProcess,
         DispatchSkip, DispatchHold
    <3>2. CASE DispatchNext
      BY <3>2 DEF DispatchNext, DispatchSkip, DispatchHold, DispatchSpawn, DispatchHeld
    <3>3. ASSUME NEW a \in Workers \cup Nets, WorkerNext(a) \/ NetNext(a) PROVE UNCHANGED flagged
      BY <3>3 DEF WorkerNext, WorkerLoad, WorkerClaim, WorkerPrepareFails, WorkerStart,
         WorkerExecuted, WorkerPersisted, WorkerPersistFails, WorkerCancelled, WorkerDone,
         NetNext, NetCheck, Finalize, LeaveCohort, Settle
    <3>4. ASSUME NEW r \in Runs, Plan(r) \/ RunNext(r) PROVE flagged' \subseteq flagged
      BY <3>4 DEF Plan, RunNext, EnqueueBegin, EnqueueCommit, EnqueuePut
    <3>5. ASSUME NEW r \in Retries, RetryNext(r) \/ \E j \in Jobs : RetryRead(r, j)
          PROVE  flagged' \subseteq flagged
      BY <3>5 DEF RetryNext, RetryCommit, RetryPut, RetryRead
    <3> QED BY <3>1, <3>2, <3>3, <3>4, <3>5 DEF Next, UserNext
  <2> QED BY <2>1 DEF Calm
<1>2. ASSUME NEW n \in Nets PROVE pc'[n] \in {"idle"} \cup NetPcs
  <2>1. CASE \E a \in Actors : Acts(a)
    <3>1. PICK a \in Actors : Acts(a)
      BY <2>1
    <3>2. CASE a # n
      BY <3>1, <3>2, OneActs, Kinds DEF OnlyActor, Calm
    <3>3. CASE a = n
      <4>1. NetNext(n) /\ n \in Actors
        BY <3>1, <3>3, Kinds DEF Acts
      <4> QED BY <4>1, Kinds
              DEF NetNext, NetCheck, Finalize, LeaveCohort, Settle, Return, NetPcs, TypeOK, ActorsOK
    <3> QED BY <3>2, <3>3
  <2>2. CASE UNCHANGED vars \/ ProcessNext \/ DispatchSkip \/ DispatchHold
    BY <2>2, Kinds DEF vars, ProcessNext, ShutdownBegin, ShutdownEnd, Restart, Crash, FreshProcess,
       DispatchSkip, DispatchHold, Calm
  <2>3. CASE \/ \E w \in Workers, j \in Jobs : Spawns(w, j)
             \/ \E w \in Workers, m \in Nets : WorkerDone(w, m)
    BY <2>3, Kinds DEF Spawns, Spawn, WorkerDone, Calm, NetPcs, TypeOK, ActorsOK
  <2> QED BY <2>1, <2>2, <2>3, StepKinds
<1>3. ASSUME mode' = "up", NEW w \in Workers PROVE ~asked'[w]
  <2>1. CASE UNCHANGED <<asked, mode>>
    BY <1>3, <2>1 DEF Calm
  <2>2. CASE ProcessNext
    BY <1>3, <2>2 DEF ProcessNext, ShutdownBegin, ShutdownEnd, Restart, Crash, FreshProcess, Calm
  <2>3. CASE \E v \in Workers, j \in Jobs : Spawns(v, j)
    BY <1>3, <2>3 DEF Spawns, Spawn, Calm, TypeOK, PoolOK
  <2>4. CASE \E v \in Workers, m \in Nets : WorkerDone(v, m)
    BY <1>3, <2>4 DEF WorkerDone, Calm, TypeOK, PoolOK
  <2>5. ASSUME NEW a \in Actors, Acts(a) PROVE ~asked'[w]
    <3>1. UNCHANGED mode
      BY <2>5, OneActs
    <3>2. UNCHANGED asked \/ (a \in Workers /\ asked' = [asked EXCEPT ![a] = FALSE])
      BY <2>5 DEF Acts, WorkerNext, WorkerLoad, WorkerClaim, WorkerPrepareFails, WorkerStart,
         WorkerExecuted, WorkerPersisted, WorkerPersistFails, WorkerCancelled,
         NetNext, NetCheck, Finalize, LeaveCohort, Settle, Plan, RunNext, EnqueueBegin,
         EnqueueCommit, EnqueuePut, RetryNext, RetryCommit, RetryPut, RetryRead
    <3> QED BY <1>3, <3>1, <3>2 DEF Calm, TypeOK, PoolOK
  <2> QED BY <2>1, <2>2, <2>3, <2>4, <2>5, StepKinds DEF vars, DispatchSkip, DispatchHold
<1> QED BY <1>1, <1>2, <1>3 DEF Calm

LEMMA CalmHolds ==
    ASSUME Cancels = {}
    PROVE  Spec => []Calm
<1>1. Init => Calm
  <2> SUFFICES ASSUME Init PROVE Calm
    OBVIOUS
  <2> QED BY Kinds DEF Init, InitMemory, Calm
<1>2. TypeOK /\ Calm /\ [Next]_vars => Calm'
  BY CalmStep
<1> QED BY <1>1, <1>2, TypeCorrect, PTL DEF Spec

-----------------------------------------------------------------------------
(* The line.                                                               *)
LEMMA LineOf ==
    TypeOK => /\ hand = None => Line = queue["default"]
              /\ hand # None => /\ Line # <<>> /\ Head(Line) = hand
                                /\ Tail(Line) = queue["default"]
<1> SUFFICES ASSUME TypeOK
             PROVE  /\ hand = None => Line = queue["default"]
                    /\ hand # None => /\ Line # <<>> /\ Head(Line) = hand
                                      /\ Tail(Line) = queue["default"]
  OBVIOUS
<1> DEFINE q == queue["default"]
<1>1. q \in Seq(Jobs) /\ hand \in Jobs \cup {None}
  BY DEF TypeOK, QueueOK, Lanes, PoolOK
<1> HIDE DEF q
<1>2. <<>> \o q = q
  BY <1>1, ConcatEmptySeq
<1>3. ASSUME NEW j \in Jobs
      PROVE  <<j>> \o q # <<>> /\ Head(<<j>> \o q) = j /\ Tail(<<j>> \o q) = q
  BY <1>1
<1> QED BY <1>1, <1>2, <1>3 DEF Line, q

LEMMA LineOfNext ==
    (TypeOK => /\ hand = None => Line = queue["default"]
               /\ hand # None => /\ Line # <<>> /\ Head(Line) = hand
                                 /\ Tail(Line) = queue["default"])'
BY LineOf, PTL

(* With the retry lane empty the queue is popped at its default lane.      *)
LEMMA PopDefault ==
    ASSUME TypeOK, LoneEntries, ~Empty, queue' = Popped
    PROVE  /\ queue["default"] # <<>> /\ NextJob = Head(queue["default"]) /\ NextJob \in Jobs
           /\ queue'["default"] = Tail(queue["default"])
<1>1. queue["retry"] = <<>> /\ HeadLane = "default" /\ queue["default"] # <<>>
      /\ queue["default"] \in Seq(Jobs)
  BY DEF LoneEntries, Empty, HeadLane, Lanes, TypeOK, QueueOK
<1> QED BY <1>1 DEF NextJob, Popped, TypeOK, QueueOK, Lanes

(* A permit that is left is room for one more job.                         *)
LEMMA RoomLeft ==
    ASSUME TypeOK, Lone, Calm, PermitsConserved, permits > 0
    PROVE  Lifecycle!Cardinality(Lifecycle!Busy) < MaxConcurrent
<1> DEFINE held == {job[w] : w \in Live}
           busy == Lifecycle!Busy
<1>1. busy \subseteq held
  <2> SUFFICES ASSUME NEW j \in Jobs, Work(j) \in {"task", "tool"} PROVE j \in held
    BY DEF Lifecycle!Busy
  <2>1. PICK a \in Tasks : At(a, j)
    BY WorkNowhere
  <2>2. Stage(a) \in {"task", "tool"}
    BY <2>1, WorkAt
  <2>3. /\ a \in Actors /\ out[a] \notin {"task", "tool"}
        /\ a \in Nets => pc[a] \in {"idle"} \cup NetPcs
        /\ a \in Workers => pc[a] \in {"idle"} \cup WorkerPcs
    BY Kinds DEF Tasks, TypeOK, ActorsOK, ActorsKnow, FinalOutcomes, Calm
  <2>4. pc[a] \in {"spawned", "claim", "prepare", "execute"}
    BY <2>2, <2>3 DEF Stage
  <2>5. a \in Live
    BY <2>3, <2>4 DEF Live, Tasks, NetPcs, WorkerPcs
  <2> QED BY <2>1, <2>5 DEF At
<1>2. IsFiniteSet(Live)
  <2>1. Live \subseteq Workers
    BY DEF Live
  <2> QED BY <2>1, FiniteAssumption, FS_Subset DEF FiniteAssumption
<1>3. IsFiniteSet(held) /\ Cardinality(held) <= Cardinality(Live)
  <2> DEFINE f == [w \in Live |-> job[w]]
  <2>1. f \in Surjection(Live, held)
    BY DEF Surjection
  <2> QED BY <1>2, <2>1, FS_Surjection
<1>4. IsFiniteSet(busy) /\ Cardinality(busy) <= Cardinality(held)
  BY <1>1, <1>3, FS_Subset
<1>5. Cardinality(Live) \in Nat /\ Cardinality(held) \in Nat /\ Cardinality(busy) \in Nat
  BY <1>2, <1>3, <1>4, FS_CardinalityType
<1>6. Cardinality(Live) < MaxConcurrent
  BY <1>5, MaxConcurrentAssumption DEF PermitsConserved, TypeOK, PoolOK, MaxConcurrentAssumption
<1>7. Lifecycle!Cardinality(busy) = Cardinality(busy)
  BY SameCardinality
<1> HIDE DEF busy, held
<1>8. Cardinality(busy) < MaxConcurrent
  BY <1>3, <1>4, <1>5, <1>6, MaxConcurrentAssumption DEF MaxConcurrentAssumption
<1> QED BY <1>7, <1>8 DEF busy

-----------------------------------------------------------------------------
(* The pool, the process and the requests.                                 *)

(* Steps that leave alone every row, and where every job is.               *)
LEMMA AllSame ==
    ASSUME Lone, Lone', UNCHANGED <<pc, job, out, status>>
    PROVE  UNCHANGED [j \in Jobs |-> Work(j)]
<1>1. ASSUME NEW j \in Jobs PROVE Work(j)' = Work(j)
  BY StageSame, WorkSame DEF At
<1> QED BY <1>1

LEMMA HoldRefines ==
    ASSUME TypeOK, TypeOK', Lone, Lone', DispatchHold
    PROVE  UNCHANGED Lifecycle!lifecycleVars
<1> DEFINE q == queue["default"]
<1>1. /\ hand = None /\ hand' = NextJob /\ queue' = Popped /\ ~Empty
      /\ UNCHANGED <<pc, job, out, status, mode>>
  BY DEF DispatchHold
<1>2. q # <<>> /\ hand' = Head(q) /\ queue'["default"] = Tail(q) /\ hand' # None
      /\ q \in Seq(Jobs)
  BY <1>1, PopDefault, NoneAssumption
     DEF Lone, NoneAssumption, TypeOK, QueueOK, Lanes
<1>3. Line' = <<Head(q)>> \o Tail(q)
  BY <1>2 DEF Line
<1> HIDE DEF q
<1>4. <<Head(q)>> \o Tail(q) = q
  BY <1>2
<1>5. Line = q
  BY <1>1, LineOf DEF q
<1> QED BY <1>1, <1>3, <1>4, <1>5, AllSame DEF Lifecycle!lifecycleVars

LEMMA SpawnRefines ==
    ASSUME TypeOK, TypeOK', Lone, Lone', Orderly, Calm, PermitsConserved,
           NEW w \in Workers, NEW k \in Jobs, Spawns(w, k)
    PROVE  Lifecycle!Begin(k)
<1>1. /\ mode = "up" /\ mode' = "up" /\ permits > 0 /\ pc[w] = "idle" /\ hand' = None
      /\ pc' = [pc EXCEPT ![w] = "spawned"] /\ job' = [job EXCEPT ![w] = k]
      /\ UNCHANGED <<status, out>>
  BY DEF Spawns, Spawn
<1>2. /\ Line # <<>> /\ Head(Line) = k /\ Tail(Line) = queue'["default"]
      /\ hand = k \/ InQueue(k)
  <2>1. CASE hand = k /\ UNCHANGED queue
    BY <2>1, LineOf, NoneAssumption DEF NoneAssumption
  <2>2. CASE hand = None /\ queue' = Popped /\ ~Empty /\ k = NextJob
    <3>1. InQueue(k)
      BY <2>2, PopLone DEF TypeOK, Lone
    <3> QED BY <2>2, <3>1, PopDefault, LineOf DEF Lone
  <2> QED BY <2>1, <2>2 DEF Spawns
<1>3. Line' = queue'["default"]
  BY <1>1, LineOfNext
<1>4. /\ status[k] = "QUEUED" /\ \A a \in Tasks : ~At(a, k)
      /\ pc[RunOf[k]] = "end"
  BY <1>2 DEF Orderly, JobOrder, Lone, LoneJob
<1>5. Work(k) = "none"
  BY <1>4, WorkNowhere
<1>6. /\ \A b \in Actors : b # w => pc'[b] = pc[b] /\ job'[b] = job[b]
      /\ pc'[w] = "spawned" /\ job'[w] = k /\ w \in Tasks
  BY <1>1, Kinds DEF TypeOK, ActorsOK, Tasks
<1>7. Work(k)' = "task"
  <2>1. At(w, k)'
    BY <1>6 DEF At
  <2> QED BY <1>6, <2>1, WorkAtNext, StageValuesNext
<1>8. ASSUME NEW j \in Jobs, j # k PROVE Work(j)' = Work(j)
  <2>1. \A b \in Tasks : At(b, j)' <=> At(b, j)
    BY <1>1, <1>6, <1>8, Kinds DEF At, Tasks
  <2>2. ASSUME NEW b \in Tasks, At(b, j) PROVE Stage(b)' = Stage(b)
    <3>1. b # w
      BY <1>1, <2>2 DEF At
    <3> QED BY <1>1, <1>6, <3>1, StageSame, Kinds DEF Tasks
  <2>3. pc'[RunOf[j]] = pc[RunOf[j]]
    BY <1>6, Kinds, RunAssumption DEF RunAssumption
  <2> QED BY <1>1, <2>1, <2>2, <2>3, WorkSame
<1>9. [j \in Jobs |-> Work(j)]' = [[j \in Jobs |-> Work(j)] EXCEPT ![k] = "task"]
  BY <1>7, <1>8
<1>10. Lifecycle!Cardinality(Lifecycle!Busy) < MaxConcurrent
  BY <1>1, RoomLeft
<1> QED BY <1>1, <1>2, <1>3, <1>4, <1>5, <1>9, <1>10 DEF Lifecycle!Begin

LEMMA DoneRefines ==
    ASSUME TypeOK, TypeOK', Lone, Lone', NEW w \in Workers, NEW n \in Nets, WorkerDone(w, n)
    PROVE  UNCHANGED Lifecycle!lifecycleVars
<1>1. /\ UNCHANGED <<status, queue, hand, out, mode>> /\ pc[w] = "done" /\ pc[n] = "idle"
      /\ pc'[w] = "idle" /\ pc'[n] = "check" /\ job'[n] = job[w]
      /\ \A b \in Actors : b # w /\ b # n => pc'[b] = pc[b] /\ job'[b] = job[b]
      /\ w \in Tasks /\ n \in Tasks
  BY Kinds DEF WorkerDone, TypeOK, ActorsOK, Tasks
<1>2. ASSUME NEW j \in Jobs PROVE Work(j)' = Work(j)
  <2>1. CASE At(w, j)
    <3>1. At(n, j)'
      BY <1>1, <2>1 DEF At
    <3>2. Work(j) = Stage(w) /\ Work(j)' = Stage(n)'
      BY <1>1, <2>1, <3>1, WorkAt, WorkAtNext
    <3> QED BY <1>1, <3>2, StageValues, StageValuesNext
  <2>2. CASE ~At(w, j)
    <3>1. \A b \in Tasks : At(b, j)' <=> At(b, j)
      BY <1>1, <2>2, Kinds DEF At, Tasks
    <3>2. ASSUME NEW b \in Tasks, At(b, j) PROVE Stage(b)' = Stage(b)
      <4>1. b # w /\ b # n
        BY <1>1, <2>2, <3>2 DEF At
      <4> QED BY <1>1, <4>1, StageSame, Kinds DEF Tasks
    <3>3. pc'[RunOf[j]] = pc[RunOf[j]]
      BY <1>1, Kinds, RunAssumption DEF RunAssumption
    <3> QED BY <1>1, <3>1, <3>2, <3>3, WorkSame
  <2> QED BY <2>1, <2>2
<1>3. UNCHANGED <<Line, mode = "up">>
  BY <1>1 DEF Line
<1> QED BY <1>1, <1>2, <1>3 DEF Lifecycle!lifecycleVars

LEMMA ProcessRefines ==
    ASSUME TypeOK, TypeOK', Lone, Lone', ProcessNext
    PROVE  LifecycleStep
<1>1. CASE ShutdownBegin
  <2>1. /\ mode = "up" /\ mode' = "stopping" /\ hand' = None
        /\ UNCHANGED <<pc, job, out, status, queue>>
    BY <1>1 DEF ShutdownBegin
  <2>2. Line' = Line \/ (Line # <<>> /\ Line' = Tail(Line))
    BY <2>1, LineOf, LineOfNext
  <2>3. Lifecycle!Stop
    BY <2>1, <2>2, AllSame DEF Lifecycle!Stop
  <2> QED BY <2>3 DEF LifecycleStep, Lifecycle!LifecycleNext
<1>2. CASE ShutdownEnd
  <2>1. UNCHANGED <<pc, job, out, status, queue, hand, mode = "up">>
    BY <1>2 DEF ShutdownEnd
  <2>2. UNCHANGED Line
    BY <2>1 DEF Line
  <2> QED BY <2>1, <2>2, AllSame DEF LifecycleStep, Lifecycle!lifecycleVars
<1>3. CASE FreshProcess
  <2>1. /\ \A a \in Tasks : pc'[a] = "idle"
        /\ \A r \in Runs : pc'[r] \in {"idle", "end"}
        /\ UNCHANGED status /\ hand' = None /\ queue'["default"] = <<>> /\ mode' = "up"
    BY <1>3, Kinds DEF FreshProcess, Tasks, Lanes
  <2>2. Line' = <<>>
    BY <2>1, LineOfNext
  <2>3. ASSUME NEW j \in Jobs PROVE Work(j)' = "none"
    <3>1. \A a \in Tasks : ~At(a, j)'
      BY <2>1 DEF At
    <3> QED BY <2>1, <3>1, WorkNowhereNext, RunAssumption DEF RunAssumption
  <2>4. Lifecycle!Renew
    BY <2>1, <2>2, <2>3 DEF Lifecycle!Renew
  <2> QED BY <2>4 DEF LifecycleStep, Lifecycle!LifecycleNext
<1> QED BY <1>1, <1>2, <1>3 DEF ProcessNext, Restart, Crash

LEMMA RunRefines ==
    ASSUME TypeOK, TypeOK', Lone, Lone', Orderly, Drains, NEW r \in Runs, Plan(r) \/ RunNext(r)
    PROVE  LifecycleStep
<1> DEFINE mine == {j \in Jobs : RunOf[j] = r}
<1>1. /\ UNCHANGED <<job, out, hand, mode>> /\ r \in Actors /\ r \notin Tasks
      /\ \A b \in Actors : b # r => pc'[b] = pc[b]
      /\ \A x : Goto(r, x) => pc'[r] = x
      /\ pc[r] # "end"
  BY Kinds DEF Plan, RunNext, EnqueueBegin, EnqueueCommit, EnqueuePut, Tasks, TypeOK, ActorsOK
<1>2. mode = "up"
  BY DEF Plan, RunNext, EnqueueBegin, EnqueueCommit, EnqueuePut, Drains, Quiet
<1>3. ASSUME NEW j \in Jobs, j \notin mine
      PROVE  status'[j] = status[j] /\ Work(j)' = Work(j)
  <2>1. pc'[RunOf[j]] = pc[RunOf[j]] /\ status'[j] = status[j]
    BY <1>1, <1>3, RunAssumption, Kinds
       DEF RunAssumption, Plan, RunNext, EnqueueBegin, EnqueueCommit, EnqueuePut, RunnableJobs
  <2>2. \A b \in Tasks : At(b, j)' <=> At(b, j)
    BY <1>1, Kinds DEF At, Tasks
  <2>3. ASSUME NEW b \in Tasks, At(b, j) PROVE Stage(b)' = Stage(b)
    BY <1>1, <2>1, <2>3, StageSame, Kinds DEF Tasks, At
  <2> QED BY <2>1, <2>2, <2>3, WorkSame
<1>4. ASSUME NEW j \in mine
      PROVE  /\ Work(j) = IF pc[r] = "put" /\ status[j] = "QUEUED" THEN "accepted" ELSE "none"
             /\ Work(j)' = IF pc'[r] = "put" /\ status'[j] = "QUEUED" THEN "accepted" ELSE "none"
             /\ JobOrder(j)
  <2>1. \A b \in Tasks : ~At(b, j) /\ ~At(b, j)'
    <3>1. \A b \in Tasks : ~At(b, j)
      BY <1>1 DEF Lone, LoneJob
    <3> QED BY <1>1, <3>1, Kinds DEF At, Tasks
  <2> QED BY <2>1, WorkNowhere, WorkNowhereNext DEF Orderly
<1>5. UNCHANGED queue => UNCHANGED Line
  BY <1>1 DEF Line
<1>6. CASE Plan(r)
  <2>1. PICK skipped \in SUBSET mine :
           status' = [j \in Jobs |-> IF RunOf[j] # r THEN status[j]
                                    ELSE IF j \in skipped THEN "SKIPPED" ELSE "PENDING"]
    BY <1>6 DEF Plan
  <2>2. pc[r] = "idle" /\ pc'[r] = "planned" /\ UNCHANGED queue
    BY <1>1, <1>6 DEF Plan
  <2>3. mine \in SUBSET {j \in Jobs : status[j] = "ABSENT"}
    BY <1>4, <2>2 DEF JobOrder
  <2>4. UNCHANGED [j \in Jobs |-> Work(j)]
    BY <1>3, <1>4, <2>2
  <2>5. status' = [j \in Jobs |-> IF j \notin mine THEN status[j]
                                 ELSE IF j \in skipped THEN "SKIPPED" ELSE "PENDING"]
    BY <2>1
  <2>6. Lifecycle!PlanJobs
    <3>1. skipped \in SUBSET Jobs
      BY <2>1
    <3> HIDE DEF mine
    <3> QED BY <1>1, <1>2, <1>5, <2>2, <2>3, <2>4, <2>5, <3>1 DEF Lifecycle!PlanJobs
  <2> QED BY <2>6 DEF LifecycleStep, Lifecycle!LifecycleNext
<1>7. CASE EnqueueBegin(r)
  <2>1. pc[r] = "planned" /\ pc'[r] \in {"enqueue", "end"} /\ UNCHANGED <<status, queue>>
    BY <1>1, <1>7 DEF EnqueueBegin
  <2>2. UNCHANGED [j \in Jobs |-> Work(j)]
    BY <1>3, <1>4, <2>1
  <2> QED BY <1>1, <1>5, <2>1, <2>2 DEF LifecycleStep, Lifecycle!lifecycleVars
<1>8. CASE EnqueueCommit(r)
  <2> DEFINE S == RunnableJobs(r)
  <2>1. /\ pc[r] = "enqueue" /\ pc'[r] = "put" /\ UNCHANGED queue
        /\ status' = [j \in Jobs |-> IF j \in S THEN "QUEUED" ELSE status[j]]
    BY <1>1, <1>8 DEF EnqueueCommit
  <2>2. S \in SUBSET {j \in Jobs : status[j] = "PENDING"}
    BY <1>4, <2>1 DEF RunnableJobs, JobOrder
  <2>3. \A j \in mine : j \notin S => status[j] = "SKIPPED"
    BY DEF RunnableJobs
  <2>4. \A j \in S : j \in mine
    BY DEF RunnableJobs
  <2> HIDE DEF S
  <2>5. [j \in Jobs |-> Work(j)]' = [j \in Jobs |-> IF j \in S THEN "accepted" ELSE Work(j)]
    <3>1. ASSUME NEW j \in Jobs PROVE Work(j)' = IF j \in S THEN "accepted" ELSE Work(j)
      <4>1. CASE j \in mine
        BY <1>4, <2>1, <2>3, <4>1
      <4>2. CASE j \notin mine
        BY <1>3, <2>4, <4>2
      <4> QED BY <4>1, <4>2
    <3> QED BY <3>1
  <2>6. Lifecycle!QueueJobs
    BY <1>1, <1>2, <1>5, <2>1, <2>2, <2>5 DEF Lifecycle!QueueJobs
  <2> QED BY <2>6 DEF LifecycleStep, Lifecycle!LifecycleNext
<1>9. CASE EnqueuePut(r)
  <2> DEFINE S == RunnableJobs(r)
             q == queue["default"]
  <2>1. PICK order \in SetToSeqs(S) : Put("default", order)
    BY <1>9 DEF EnqueuePut
  <2>2. pc[r] = "put" /\ pc'[r] = "end" /\ UNCHANGED status
    BY <1>1, <1>9 DEF EnqueuePut
  <2>3. S \in SUBSET {j \in Jobs : [i \in Jobs |-> Work(i)][j] = "accepted"}
    BY <1>4, <2>2 DEF RunnableJobs, JobOrder
  <2>4. \A j \in mine : j \notin S => status[j] = "SKIPPED"
    BY DEF RunnableJobs
  <2>5. \A j \in S : j \in mine /\ S \in SUBSET Jobs
    BY DEF RunnableJobs
  <2>6. order \in Seq(Jobs) /\ q \in Seq(Jobs) /\ queue'["default"] = q \o order
    <3>1. S \in SUBSET Jobs
      BY DEF RunnableJobs
    <3>2. order \in Seq(Jobs)
      BY <2>1, <3>1, OrdersAreSeqs
    <3> QED BY <2>1, <3>2 DEF TypeOK, QueueOK, Lanes
  <2> HIDE DEF S, q
  <2>7. Line' = Line \o order
    <3> DEFINE p == IF hand = None THEN <<>> ELSE <<hand>>
    <3>1. p \in Seq(Jobs)
      BY DEF TypeOK, PoolOK
    <3>2. Line = p \o q /\ Line' = p \o (q \o order)
      BY <1>1, <2>6 DEF Line, q
    <3> HIDE DEF p
    <3> QED BY <2>6, <3>1, <3>2, ConcatAssociative
  <2>8. [j \in Jobs |-> Work(j)]' = [j \in Jobs |-> IF j \in S THEN "none" ELSE Work(j)]
    <3>1. ASSUME NEW j \in Jobs PROVE Work(j)' = IF j \in S THEN "none" ELSE Work(j)
      <4>1. CASE j \in mine
        BY <1>4, <2>2, <2>4, <4>1
      <4>2. CASE j \notin mine
        BY <1>3, <2>5, <4>2
      <4> QED BY <4>1, <4>2
    <3> QED BY <3>1
  <2>9. order \in Lifecycle!SetToSeqs(S)
    BY <2>1, SameOrders
  <2>10. Lifecycle!JoinLine
    BY <1>1, <1>2, <2>2, <2>3, <2>7, <2>8, <2>9 DEF Lifecycle!JoinLine
  <2> QED BY <2>10 DEF LifecycleStep, Lifecycle!LifecycleNext
<1> QED BY <1>6, <1>7, <1>8, <1>9 DEF RunNext

-----------------------------------------------------------------------------
(* Every step of the manager is one of the lifecycle, or is not seen.      *)
LEMMA LifecycleSteps ==
    ASSUME Cancels = {}, Retries = {}, TypeOK, TypeOK', Lone, Lone', Orderly, Drains, Calm,
           PermitsConserved, [Next]_vars
    PROVE  LifecycleStep
<1>1. CASE UNCHANGED vars
  <2>1. UNCHANGED <<pc, job, out, status, queue, hand, mode>>
    BY <1>1 DEF vars
  <2>2. UNCHANGED <<Line, mode = "up">>
    BY <2>1 DEF Line
  <2> QED BY <2>1, <2>2, AllSame DEF LifecycleStep, Lifecycle!lifecycleVars
<1>2. CASE DispatchSkip
  <2>1. FALSE
    BY <1>2 DEF DispatchSkip, Calm
  <2> QED BY <2>1
<1>3. CASE ProcessNext
  BY <1>3, ProcessRefines
<1>4. CASE DispatchHold
  BY <1>4, HoldRefines DEF LifecycleStep
<1>5. ASSUME NEW w \in Workers, NEW k \in Jobs, Spawns(w, k) PROVE LifecycleStep
  BY <1>5, SpawnRefines DEF LifecycleStep, Lifecycle!LifecycleNext
<1>6. ASSUME NEW w \in Workers, NEW n \in Nets, WorkerDone(w, n) PROVE LifecycleStep
  BY <1>6, DoneRefines DEF LifecycleStep
<1>7. ASSUME NEW a \in Actors, Acts(a) PROVE LifecycleStep
  <2>1. CASE a \in Tasks
    BY <1>7, <2>1, TaskRefines DEF Calm
  <2>2. CASE a \in Runs
    <3>1. Plan(a) \/ RunNext(a)
      BY <1>7, <2>2, Kinds DEF Acts
    <3> QED BY <2>2, <3>1, RunRefines
  <2> QED BY <2>1, <2>2 DEF Actors, Tasks
<1> QED BY <1>1, <1>2, <1>3, <1>4, <1>5, <1>6, <1>7, StepKinds

LEMMA LifecycleBegins ==
    ASSUME Init
    PROVE  Lifecycle!LifecycleInit
<1>1. /\ \A a \in Actors : pc[a] = "idle"
      /\ status = [j \in Jobs |-> "ABSENT"] /\ mode = "up"
      /\ hand = None /\ queue["default"] = <<>>
  BY DEF Init, InitMemory, Lanes
<1>2. Line = <<>>
  BY <1>1 DEF Line
<1>3. ASSUME NEW j \in Jobs PROVE Work(j) = "none"
  <2>1. pc[RunOf[j]] = "idle" /\ \A a \in Tasks : ~At(a, j)
    BY <1>1, Kinds, RunAssumption DEF RunAssumption, Tasks, At
  <2> QED BY <2>1, WorkNowhere
<1> QED BY <1>1, <1>2, <1>3 DEF Lifecycle!LifecycleInit

(* While no user cancels or retries, and however many jobs, workers,       *)
(* requests and processes there are, the manager implements JobLifecycle:  *)
(* it starts the jobs in the order in which they were queued, a permitted  *)
(* number at a time, and gives each row the outcome of its one run.        *)
THEOREM ManagerImplementsLifecycle ==
    ASSUME Cancels = {}, Retries = {}
    PROVE  Spec => ImplementsLifecycle
<1>1. Unretried /\ Undisturbed
  BY DEF Undisturbed, Unretried, Uncancelled
<1>2. /\ TypeOK /\ TypeOK' /\ Lone /\ Lone' /\ Orderly /\ Drains /\ Calm
      /\ PermitsConserved /\ [Next]_vars
      => [Lifecycle!LifecycleNext]_(Lifecycle!lifecycleVars)
  BY LifecycleSteps DEF LifecycleStep
<1>3. Spec => [](Unretried => Lone)
  BY LoneTasks
<1>4. Spec => [](Unretried => Drains)
  BY DrainsHolds
<1>5. Spec => [](Undisturbed => Orderly)
  BY OrderlyHolds
<1>6. Spec => []Calm
  BY CalmHolds
<1> QED BY <1>1, <1>2, <1>3, <1>4, <1>5, <1>6, LifecycleBegins, TypeCorrect,
           PermitsAreConserved, PTL
        DEF Spec, ImplementsLifecycle, Lifecycle!LifecycleSpec
=============================================================================
