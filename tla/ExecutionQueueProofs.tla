------------------------ MODULE ExecutionQueueProofs ------------------------
(***************************************************************************)
(* The queue's order is total, and its heap and flags implement the two    *)
(* lanes of LaneQueue, for any number of jobs and entries.                 *)
(***************************************************************************)
EXTENDS ExecutionQueue, FiniteSetTheorems, SequenceTheorems, TLAPS

(* Entries are made with growing sequence numbers, each number once.       *)
Numbered ==
    /\ \A e \in entries : e.sequence < sequence
    /\ \A e, f \in entries : e.sequence = f.sequence => e = f

(* The queue's variables keep their types.                                 *)
THEOREM QueueTypeCorrect == HeapSpec => []HeapTypeOK
<1>1. HeapInit => HeapTypeOK
  BY FS_EmptySet DEF HeapInit, HeapTypeOK
<1>2. HeapTypeOK /\ [HeapNext]_heapVars => HeapTypeOK'
  <2> SUFFICES ASSUME HeapTypeOK, [HeapNext]_heapVars PROVE HeapTypeOK'
    OBVIOUS
  <2>1. ASSUME NEW j \in Jobs, NEW p \in Priorities, Enqueue(j, p) PROVE HeapTypeOK'
    <3>1. Entry(j, p) \in QueueEntry
      BY DEF HeapTypeOK, Entry, QueueEntry
    <3> QED BY <2>1, <3>1, FS_AddElement DEF HeapTypeOK, Enqueue
  <2>2. ASSUME NEW e \in entries, DequeueSkips(e) \/ DequeueReturns(e) PROVE HeapTypeOK'
    BY <2>2, FS_RemoveElement DEF HeapTypeOK, DequeueSkips, DequeueReturns
  <2>3. ASSUME NEW j \in Jobs, CancelQueued(j) PROVE HeapTypeOK'
    BY <2>3 DEF HeapTypeOK, CancelQueued
  <2>4. CASE UNCHANGED heapVars
    BY <2>4 DEF HeapTypeOK, heapVars
  <2> QED BY <2>1, <2>2, <2>3, <2>4 DEF HeapNext
<1> QED BY <1>1, <1>2, PTL DEF HeapSpec

LEMMA EntriesNumbered == HeapSpec => []Numbered
<1>1. HeapInit => Numbered
  BY DEF HeapInit, Numbered
<1>2. HeapTypeOK /\ Numbered /\ [HeapNext]_heapVars => Numbered'
  <2> SUFFICES ASSUME HeapTypeOK, Numbered, [HeapNext]_heapVars PROVE Numbered'
    OBVIOUS
  <2>1. ASSUME NEW j \in Jobs, NEW p \in Priorities, Enqueue(j, p) PROVE Numbered'
    <3>1. \A e \in entries : e.sequence \in Nat
      BY DEF HeapTypeOK, QueueEntry
    <3>2. Entry(j, p).sequence = sequence /\ sequence \in Nat
      BY DEF HeapTypeOK, Entry
    <3>3. entries' = entries \cup {Entry(j, p)} /\ sequence' = sequence + 1
      BY <2>1 DEF Enqueue
    <3> QED BY <3>1, <3>2, <3>3 DEF Numbered
  <2>2. ASSUME NEW e \in entries, DequeueSkips(e) \/ DequeueReturns(e) PROVE Numbered'
    BY <2>2 DEF Numbered, DequeueSkips, DequeueReturns
  <2>3. ASSUME NEW j \in Jobs, CancelQueued(j) PROVE Numbered'
    BY <2>3 DEF Numbered, CancelQueued
  <2>4. CASE UNCHANGED heapVars
    BY <2>4 DEF Numbered, heapVars
  <2> QED BY <2>1, <2>2, <2>3, <2>4 DEF HeapNext
<1> QED BY <1>1, <1>2, QueueTypeCorrect, PTL DEF HeapSpec

(* The comparison of entries never has to look at the job id: no two       *)
(* entries of the queue are least.                                         *)
THEOREM LeastUnique == HeapSpec => []LeastIsUnique
<1>1. HeapTypeOK /\ Numbered => LeastIsUnique
  <2> SUFFICES ASSUME HeapTypeOK, Numbered, NEW e \in entries, NEW f \in entries,
                      Least(e), Least(f)
               PROVE  e = f
    BY DEF LeastIsUnique
  <2>1. /\ e.sequence \in Nat /\ e.priority \in Nat
        /\ f.sequence \in Nat /\ f.priority \in Nat
    BY DEF HeapTypeOK, QueueEntry, Priorities, RETRY_PRIORITY, DEFAULT_PRIORITY
  <2>2. ~Before(e, f) /\ ~Before(f, e)
    BY DEF Least
  <2>3. e.sequence = f.sequence
    BY <2>1, <2>2 DEF Before
  <2> QED BY <2>3 DEF Numbered
<1> QED BY <1>1, EntriesNumbered, QueueTypeCorrect, PTL

-----------------------------------------------------------------------------
(* The entries of one priority, each at the place its rank gives it.       *)
Ranked(S) ==
    /\ IsFiniteSet(S) /\ S \subseteq QueueEntry
    /\ \A e, f \in S : e.priority = f.priority /\ (e.sequence = f.sequence => e = f)
    /\ \A i \in 1..Cardinality(S) : \E e \in S : Rank(S, e) = i - 1

LEMMA EntryFields ==
    \A e \in QueueEntry : e.priority \in Nat /\ e.sequence \in Nat /\ e.job \in Jobs
BY DEF QueueEntry, Priorities, RETRY_PRIORITY, DEFAULT_PRIORITY

(* An entry has a rank below the size of the set, and shares it with none. *)
LEMMA RankBounds ==
    ASSUME NEW S, IsFiniteSet(S), NEW e \in S, e \in QueueEntry
    PROVE  Rank(S, e) \in Nat /\ Rank(S, e) < Cardinality(S)
<1> DEFINE T == {f \in S : Before(f, e)}
<1>1. e \notin T
  BY EntryFields DEF Before
<1>2. T \subseteq S /\ IsFiniteSet(T) /\ Cardinality(T) <= Cardinality(S) /\ T # S
  BY <1>1, FS_Subset
<1>3. Cardinality(T) # Cardinality(S)
  BY <1>2, FS_Subset
<1>4. Cardinality(T) \in Nat /\ Cardinality(S) \in Nat
  BY <1>2, FS_CardinalityType
<1> QED BY <1>2, <1>3, <1>4 DEF Rank

LEMMA RanksGrow ==
    ASSUME NEW S, IsFiniteSet(S), S \subseteq QueueEntry, NEW e \in S, NEW f \in S,
           Before(e, f)
    PROVE  Rank(S, e) < Rank(S, f)
<1> DEFINE T == {g \in S : Before(g, e)}
           U == {g \in S : Before(g, f)}
<1>1. e \in U /\ e \notin T
  BY EntryFields DEF Before
<1>2. T \subseteq U
  BY EntryFields DEF Before
<1>3. IsFiniteSet(U) /\ IsFiniteSet(T) /\ Cardinality(T) <= Cardinality(U)
  <2>1. IsFiniteSet(U)
    BY FS_Subset
  <2> QED BY <1>2, <2>1, FS_Subset
<1>4. Cardinality(T) # Cardinality(U)
  BY <1>1, <1>2, <1>3, FS_Subset
<1>5. Cardinality(T) \in Nat /\ Cardinality(U) \in Nat
  BY <1>3, FS_CardinalityType
<1> QED BY <1>3, <1>4, <1>5 DEF Rank

LEMMA InOrderAt ==
    ASSUME NEW S, Ranked(S), NEW e \in S, NEW i \in 1..Cardinality(S), Rank(S, e) = i - 1
    PROVE  InOrder(S)[i] = e
<1>1. ASSUME NEW f \in S, Rank(S, f) = i - 1 PROVE f = e
  <2>1. ~Before(e, f) /\ ~Before(f, e)
    BY <1>1, RanksGrow, RankBounds DEF Ranked
  <2> QED BY <2>1, EntryFields DEF Ranked, Before
<1> QED BY <1>1 DEF InOrder

LEMMA InOrderIn ==
    ASSUME NEW S, Ranked(S), NEW i \in 1..Cardinality(S)
    PROVE  InOrder(S)[i] \in S /\ Rank(S, InOrder(S)[i]) = i - 1
BY DEF Ranked, InOrder
(* enqueue(): an entry with a new sequence number is the last of its lane. *)
LEMMA AddLast ==
    ASSUME NEW S, Ranked(S), NEW e \in QueueEntry,
           \A f \in S : f.priority = e.priority /\ f.sequence < e.sequence
    PROVE  LET T == S \cup {e}
           IN  /\ Ranked(T) /\ Cardinality(T) = Cardinality(S) + 1
               /\ InOrder(T)[Cardinality(T)] = e
               /\ \A i \in 1..Cardinality(S) : InOrder(T)[i] = InOrder(S)[i]
<1> DEFINE T == S \cup {e}
           n == Cardinality(S)
<1>1. e \notin S
  BY EntryFields
<1>2. IsFiniteSet(T) /\ Cardinality(T) = n + 1 /\ n \in Nat
  BY <1>1, FS_AddElement, FS_CardinalityType DEF Ranked
<1>3. Rank(T, e) = n
  <2>1. {f \in T : Before(f, e)} = S
    BY EntryFields DEF Before, Ranked
  <2> QED BY <2>1 DEF Rank
<1>4. ASSUME NEW f \in S PROVE Rank(T, f) = Rank(S, f)
  <2>1. ~Before(e, f)
    BY EntryFields DEF Before, Ranked
  <2>2. {g \in T : Before(g, f)} = {g \in S : Before(g, f)}
    BY <2>1
  <2> QED BY <2>2 DEF Rank
<1>5. Ranked(T)
  <2>1. \A f, g \in T : f.priority = g.priority /\ (f.sequence = g.sequence => f = g)
    BY EntryFields DEF Ranked
  <2>2. ASSUME NEW i \in 1..n + 1 PROVE \E f \in T : Rank(T, f) = i - 1
    <3>1. CASE i = n + 1
      BY <1>2, <1>3, <3>1
    <3>2. CASE i \in 1..n
      BY <1>4, <3>2 DEF Ranked
    <3> QED BY <1>2, <3>1, <3>2
  <2> QED BY <1>2, <2>1, <2>2 DEF Ranked
<1>6. InOrder(T)[n + 1] = e
  BY <1>2, <1>3, <1>5, InOrderAt
<1>7. ASSUME NEW i \in 1..n PROVE InOrder(T)[i] = InOrder(S)[i]
  <2>1. InOrder(S)[i] \in S /\ Rank(S, InOrder(S)[i]) = i - 1
    BY InOrderIn
  <2>2. i \in 1..Cardinality(T) /\ InOrder(S)[i] \in T
    BY <1>2, <2>1
  <2> QED BY <1>4, <1>5, <2>1, <2>2, InOrderAt
<1> QED BY <1>2, <1>5, <1>6, <1>7

(* get(): the least entry is the first of its lane, and the others move up. *)
LEMMA DropFirst ==
    ASSUME NEW S, Ranked(S), NEW e \in S, \A f \in S : ~Before(f, e)
    PROVE  LET T == S \ {e}
           IN  /\ Ranked(T) /\ Cardinality(S) = Cardinality(T) + 1
               /\ InOrder(S)[1] = e
               /\ \A i \in 1..Cardinality(T) : InOrder(T)[i] = InOrder(S)[i + 1]
<1> DEFINE T == S \ {e}
           n == Cardinality(T)
<1>1. IsFiniteSet(T) /\ Cardinality(S) = n + 1 /\ n \in Nat
  <2>1. IsFiniteSet(S) /\ IsFiniteSet(T) /\ n = Cardinality(S) - 1
    BY FS_RemoveElement DEF Ranked
  <2> QED BY <2>1, FS_CardinalityType
<1>2. Rank(S, e) = 0
  <2>1. {f \in S : Before(f, e)} = {}
    OBVIOUS
  <2> QED BY <2>1, FS_EmptySet DEF Rank
<1>3. ASSUME NEW f \in T PROVE Rank(T, f) = Rank(S, f) - 1
  <2> DEFINE B == {g \in S : Before(g, f)}
  <2>1. e \in B
    BY EntryFields DEF Ranked, Before
  <2>2. {g \in T : Before(g, f)} = B \ {e}
    OBVIOUS
  <2>3. IsFiniteSet(B)
    BY FS_Subset DEF Ranked
  <2>4. Cardinality(B \ {e}) = Cardinality(B) - 1
    BY <2>1, <2>3, FS_RemoveElement
  <2> QED BY <2>2, <2>4 DEF Rank
<1>4. ASSUME NEW i \in 1..n PROVE InOrder(S)[i + 1] \in T /\ Rank(T, InOrder(S)[i + 1]) = i - 1
  <2>1. i + 1 \in 1..Cardinality(S) /\ i + 1 - 1 # 0
    BY <1>1
  <2>2. InOrder(S)[i + 1] \in S /\ Rank(S, InOrder(S)[i + 1]) = i + 1 - 1
    BY <2>1, InOrderIn
  <2>3. InOrder(S)[i + 1] \in T
    BY <1>2, <2>1, <2>2
  <2> QED BY <1>1, <1>3, <2>2, <2>3
<1>5. Ranked(T)
  BY <1>1, <1>4 DEF Ranked
<1>6. InOrder(S)[1] = e
  <2>1. 1 \in 1..Cardinality(S) /\ 1 - 1 = 0
    BY <1>1
  <2> QED BY <1>2, <2>1, InOrderAt
<1>7. ASSUME NEW i \in 1..n PROVE InOrder(T)[i] = InOrder(S)[i + 1]
  BY <1>4, <1>5, InOrderAt
<1> QED BY <1>1, <1>5, <1>6, <1>7
-----------------------------------------------------------------------------
(* The queue is two first-in first-out lanes.                              *)
LanesRanked == \A p \in Priorities : Ranked(EntriesOf(p))

LEMMA LaneType ==
    ASSUME NEW p, Ranked(EntriesOf(p))
    PROVE  /\ LaneOf(p) \in Seq(Jobs) /\ Len(LaneOf(p)) = Cardinality(EntriesOf(p))
           /\ Cardinality(EntriesOf(p)) \in Nat
<1>1. Cardinality(EntriesOf(p)) \in Nat
  BY FS_CardinalityType DEF Ranked
<1>2. \A i \in 1..Cardinality(EntriesOf(p)) : InOrder(EntriesOf(p))[i].job \in Jobs
  BY InOrderIn, EntryFields DEF Ranked
<1> QED BY <1>1, <1>2 DEF LaneOf

(* What enqueue() does to the lanes.                                       *)
LEMMA LanePut ==
    ASSUME HeapTypeOK, Numbered, LanesRanked, NEW j \in Jobs, NEW p \in Priorities, Enqueue(j, p)
    PROVE  /\ LanesRanked'
           /\ LaneOf(p)' = LaneOf(p) \o <<j>>
           /\ \A q \in Priorities : q # p => LaneOf(q)' = LaneOf(q)
<1> DEFINE e == Entry(j, p)
           S == EntriesOf(p)
<1>1. e \in QueueEntry /\ e.priority = p /\ e.job = j /\ \A f \in entries : f.sequence < e.sequence
  BY DEF HeapTypeOK, Entry, QueueEntry, Numbered
<1>2. EntriesOf(p)' = S \cup {e} /\ \A q \in Priorities : q # p => EntriesOf(q)' = EntriesOf(q)
  BY <1>1 DEF EntriesOf, Enqueue
<1>3. Ranked(S) /\ \A f \in S : f.priority = e.priority /\ f.sequence < e.sequence
  BY <1>1 DEF LanesRanked, EntriesOf
<1> DEFINE T == S \cup {e}
           n == Cardinality(S)
<1> HIDE DEF e, S
<1>4. /\ Ranked(T) /\ Cardinality(T) = n + 1 /\ InOrder(T)[n + 1] = e
      /\ \A i \in 1..n : InOrder(T)[i] = InOrder(S)[i]
  BY <1>1, <1>3, AddLast
<1>5. LanesRanked'
  BY <1>2, <1>4 DEF LanesRanked
<1> HIDE DEF T
<1>6. LaneOf(p)' = LaneOf(p) \o <<j>>
  <2>1. /\ LaneOf(p) \in Seq(Jobs) /\ Len(LaneOf(p)) = n /\ n \in Nat
        /\ LaneOf(p) = [i \in 1..n |-> InOrder(S)[i].job]
    BY <1>3, LaneType DEF S, LaneOf
  <2>2. LaneOf(p)' = [i \in 1..n + 1 |-> InOrder(T)[i].job]
    BY <1>2, <1>4 DEF LaneOf, T
  <2>3. \A i \in 1..n + 1 : InOrder(T)[i].job \in Jobs
    BY <1>4, InOrderIn, EntryFields DEF Ranked
  <2> HIDE DEF n
  <2>4. LaneOf(p)' \in Seq(Jobs) /\ Len(LaneOf(p)') = n + 1
    <3>1. n + 1 \in Nat
      BY <2>1
    <3> QED BY <2>2, <2>3, <3>1
  <2>5. /\ LaneOf(p) \o <<j>> \in Seq(Jobs) /\ Len(LaneOf(p) \o <<j>>) = n + 1
        /\ \A i \in 1..n : (LaneOf(p) \o <<j>>)[i] = LaneOf(p)[i]
        /\ (LaneOf(p) \o <<j>>)[n + 1] = j
    BY <2>1
  <2>6. ASSUME NEW i \in 1..n + 1 PROVE LaneOf(p)'[i] = (LaneOf(p) \o <<j>>)[i]
    <3>1. LaneOf(p)'[i] = InOrder(T)[i].job
      BY <2>2
    <3>2. CASE i \in 1..n
      BY <1>4, <2>1, <2>5, <3>1, <3>2
    <3>3. CASE i = n + 1
      BY <1>1, <1>4, <2>5, <3>1, <3>3
    <3>4. i \in 1..n \/ i = n + 1
      BY <2>1
    <3> QED BY <3>2, <3>3, <3>4
  <2> QED BY <2>4, <2>5, <2>6, SeqEqual
<1>7. \A q \in Priorities : q # p => LaneOf(q)' = LaneOf(q)
  BY <1>2 DEF LaneOf
<1> QED BY <1>5, <1>6, <1>7

(* What get() does to them.                                                *)
LEMMA LanePop ==
    ASSUME HeapTypeOK, LanesRanked, NEW e \in entries, Least(e), entries' = entries \ {e}
    PROVE  /\ LanesRanked'
           /\ e.priority \in Priorities /\ LaneOf(e.priority) # <<>>
           /\ Head(LaneOf(e.priority)) = e.job /\ LaneOf(e.priority)' = Tail(LaneOf(e.priority))
           /\ \A q \in Priorities : q # e.priority => LaneOf(q)' = LaneOf(q)
           /\ e.priority = DEFAULT_PRIORITY => LaneOf(RETRY_PRIORITY) = <<>>
<1> DEFINE p == e.priority
           S == EntriesOf(p)
           T == S \ {e}
<1>1. e \in QueueEntry /\ p \in Priorities /\ e \in S
  BY DEF HeapTypeOK, QueueEntry, EntriesOf
<1>2. EntriesOf(p)' = T /\ \A q \in Priorities : q # p => EntriesOf(q)' = EntriesOf(q)
  BY DEF EntriesOf
<1>3. Ranked(S) /\ \A f \in S : ~Before(f, e)
  BY <1>1 DEF LanesRanked, EntriesOf, Least
<1>4. /\ Ranked(T) /\ Cardinality(S) = Cardinality(T) + 1 /\ InOrder(S)[1] = e
      /\ \A i \in 1..Cardinality(T) : InOrder(T)[i] = InOrder(S)[i + 1]
  BY <1>1, <1>3, DropFirst
<1>5. LanesRanked'
  BY <1>1, <1>2, <1>4 DEF LanesRanked
<1>6. /\ LaneOf(p) \in Seq(Jobs) /\ Len(LaneOf(p)) = Cardinality(T) + 1 /\ Cardinality(T) \in Nat
      /\ LaneOf(p) = [i \in 1..Cardinality(T) + 1 |-> InOrder(S)[i].job]
  <2>1. Cardinality(T) \in Nat
    BY <1>4, FS_CardinalityType DEF Ranked
  <2> QED BY <1>3, <1>4, <2>1, LaneType DEF LaneOf
<1>7. LaneOf(p)' = [i \in 1..Cardinality(T) |-> InOrder(T)[i].job]
  BY <1>2 DEF LaneOf
<1> HIDE DEF S, T, p
<1>8. LaneOf(p) # <<>> /\ Head(LaneOf(p)) = e.job
  BY <1>4, <1>6
<1>9. LaneOf(p)' = Tail(LaneOf(p))
  <2>1. /\ Tail(LaneOf(p)) \in Seq(Jobs) /\ Len(Tail(LaneOf(p))) = Cardinality(T)
        /\ \A i \in 1..Cardinality(T) : Tail(LaneOf(p))[i] = LaneOf(p)[i + 1]
    BY <1>6, <1>8
  <2>2. LaneOf(p)' \in Seq(Jobs) /\ Len(LaneOf(p)') = Cardinality(T)
    <3>1. \A i \in 1..Cardinality(T) : InOrder(T)[i].job \in Jobs
      BY <1>4, InOrderIn, EntryFields DEF Ranked
    <3> QED BY <1>6, <1>7, <3>1
  <2>3. \A i \in 1..Cardinality(T) : LaneOf(p)'[i] = Tail(LaneOf(p))[i]
    BY <1>4, <1>6, <1>7, <2>1
  <2> QED BY <2>1, <2>2, <2>3, SeqEqual
<1>10. ASSUME p = DEFAULT_PRIORITY PROVE LaneOf(RETRY_PRIORITY) = <<>>
  <2>1. EntriesOf(RETRY_PRIORITY) = {}
    BY <1>10 DEF EntriesOf, Least, Before, p, DEFAULT_PRIORITY, RETRY_PRIORITY
  <2>2. Cardinality(EntriesOf(RETRY_PRIORITY)) = 0 /\ Ranked(EntriesOf(RETRY_PRIORITY))
    BY <2>1, FS_EmptySet DEF LanesRanked, Priorities
  <2> QED BY <2>2, LaneType
<1>11. \A q \in Priorities : q # p => LaneOf(q)' = LaneOf(q)
  BY <1>2 DEF LaneOf
<1> QED BY <1>1, <1>5, <1>8, <1>9, <1>10, <1>11 DEF p
(* The heap with its flags is two first-in first-out lanes, retries ahead: *)
(* every put, get and cancellation is one of the lanes' own.               *)
THEOREM QueueIsTwoLanes == HeapSpec => ImplementsLanes
<1> DEFINE lanes == [l \in {"retry", "default"} |-> LaneOf(PriorityOf(l))]
<1>0. \A l \in {"retry", "default"} : PriorityOf(l) \in Priorities
  BY DEF PriorityOf, Priorities
<1>1. HeapInit => LanesRanked /\ Lanes!QueueInit
  <2> SUFFICES ASSUME HeapInit PROVE LanesRanked /\ Lanes!QueueInit
    OBVIOUS
  <2>1. ASSUME NEW p PROVE EntriesOf(p) = {} /\ Ranked(EntriesOf(p)) /\ LaneOf(p) = <<>>
    <3>1. EntriesOf(p) = {}
      BY DEF HeapInit, EntriesOf
    <3>2. Ranked(EntriesOf(p)) /\ Cardinality(EntriesOf(p)) = 0
      BY <3>1, FS_EmptySet DEF Ranked
    <3>3. LaneOf(p) \in Seq(Jobs) /\ Len(LaneOf(p)) = 0
      BY <3>2, LaneType
    <3>4. LaneOf(p) = <<>>
      BY <3>3, EmptySeq
    <3> QED BY <3>1, <3>2, <3>4
  <2> QED BY <2>1 DEF LanesRanked, Lanes!QueueInit, Lanes!Lanes, HeapInit
<1>2. /\ HeapTypeOK /\ Numbered /\ LanesRanked /\ [HeapNext]_heapVars
      => LanesRanked' /\ [Lanes!QueueNext]_<<lanes, flagged>>
  <2> SUFFICES ASSUME HeapTypeOK, Numbered, LanesRanked, [HeapNext]_heapVars
               PROVE  LanesRanked' /\ [Lanes!QueueNext]_<<lanes, flagged>>
    OBVIOUS
  <2>1. ASSUME NEW j \in Jobs, NEW p \in Priorities, Enqueue(j, p)
        PROVE  LanesRanked' /\ \E l \in Lanes!Lanes : Lanes!Put(l, <<j>>)
    <3>1. PICK l \in {"retry", "default"} :
             p = PriorityOf(l) /\ \A k \in {"retry", "default"} : k # l => PriorityOf(k) # p
      BY DEF PriorityOf, Priorities, RETRY_PRIORITY, DEFAULT_PRIORITY
    <3>2. lanes' = [lanes EXCEPT ![l] = @ \o <<j>>]
      BY <1>0, <2>1, <3>1, LanePut
    <3>3. flagged' = flagged \ {<<j>>[i] : i \in DOMAIN <<j>>}
      BY <2>1 DEF Enqueue
    <3> QED BY <2>1, <3>1, <3>2, <3>3, LanePut DEF Lanes!Put, Lanes!Lanes
  <2>2. ASSUME NEW e \in entries, DequeueSkips(e) \/ DequeueReturns(e)
        PROVE  LanesRanked' /\ (Lanes!Skip \/ Lanes!Take)
    <3> DEFINE l == IF e.priority = RETRY_PRIORITY THEN "retry" ELSE "default"
    <3>1. /\ LanesRanked' /\ e.priority \in Priorities /\ LaneOf(e.priority) # <<>>
          /\ Head(LaneOf(e.priority)) = e.job /\ LaneOf(e.priority)' = Tail(LaneOf(e.priority))
          /\ \A q \in Priorities : q # e.priority => LaneOf(q)' = LaneOf(q)
          /\ e.priority = DEFAULT_PRIORITY => LaneOf(RETRY_PRIORITY) = <<>>
      BY <2>2, LanePop DEF DequeueSkips, DequeueReturns
    <3>2. /\ l \in {"retry", "default"} /\ e.priority = PriorityOf(l)
          /\ \A k \in {"retry", "default"} : k # l => PriorityOf(k) # e.priority
      BY <3>1 DEF PriorityOf, Priorities, RETRY_PRIORITY, DEFAULT_PRIORITY
    <3>3. lanes[l] # <<>> /\ Head(lanes[l]) = e.job /\ (l = "default" => lanes["retry"] = <<>>)
      BY <3>1, <3>2 DEF PriorityOf
    <3>4. lanes' = [lanes EXCEPT ![l] = Tail(@)]
      BY <1>0, <3>1, <3>2
    <3> HIDE DEF l
    <3>5. ~Lanes!Empty /\ Lanes!HeadLane = l /\ Lanes!NextJob = e.job
      BY <3>2, <3>3 DEF Lanes!Empty, Lanes!HeadLane, Lanes!NextJob, Lanes!Lanes
    <3>6. lanes' = Lanes!Popped
      BY <3>4, <3>5 DEF Lanes!Popped
    <3> QED BY <2>2, <3>1, <3>5, <3>6 DEF Lanes!Skip, Lanes!Take, DequeueSkips, DequeueReturns
  <2>3. ASSUME NEW j \in Jobs, CancelQueued(j) PROVE LanesRanked' /\ Lanes!Flag(j)
    BY <2>3 DEF CancelQueued, LanesRanked, EntriesOf, LaneOf, Lanes!Flag
  <2>4. CASE UNCHANGED heapVars
    BY <2>4 DEF heapVars, LanesRanked, EntriesOf, LaneOf
  <2> QED BY <2>1, <2>2, <2>3, <2>4 DEF HeapNext, Lanes!QueueNext
<1> QED BY <1>1, <1>2, QueueTypeCorrect, EntriesNumbered, PTL
        DEF HeapSpec, ImplementsLanes, Lanes!QueueSpec
=============================================================================
