---------------------------- MODULE ServiceProofs ----------------------------
(***************************************************************************)
(* Three services that share no state with each other: the status of an    *)
(* assessment under any number of requests and runs, the processes that    *)
(* outlive their call for any number of calls and any timeout, and what    *)
(* the edits of custom profiles leave behind, any number of them at a time.*)
(***************************************************************************)
EXTENDS Assessments, ProcessRunner, ScanProfiles, TLAPS

-----------------------------------------------------------------------------
(* Assessments.                                                            *)

Rows == [name : Names \cup {Unset}, status : Statuses, previous : Statuses \cup {Unset},
         deleted : BOOLEAN, targets : SUBSET [value : Endpoints, origin : {"USER", "PIPELINE"}]]

Ops == {"waiting", "done", "create", "rename", "update", "delete", "archive", "restore"}

(* The types, those of the requests included.                              *)
StatusTyped ==
    /\ row \in [Ids -> Rows]
    /\ request \in [Requests -> [op : Ops, a : Ids, to : Names \cup Statuses \cup {Unset}, seen : Rows]]
    /\ cohort \in [Ids -> BOOLEAN] /\ touched \in [Ids -> BOOLEAN]
    /\ runs \in [Ids -> Nat] /\ marking \in [Ids -> Nat] /\ joining \in [Ids -> Nat]
    /\ settling \in [Ids -> [BOOLEAN -> Nat]]
    /\ before \in [Ids -> Statuses \cup {Unset}]

(* What a request keeps of what it asks for and of the row it read.        *)
RequestsKnow ==
    \A r \in Requests :
        /\ request[r].op \in {"create", "rename"} => request[r].to \in Names
        /\ request[r].op \in {"update", "archive", "restore"} => request[r].to \in Statuses
        /\ request[r].op = "archive" => request[r].to = "ARCHIVED" /\ request[r].seen.status # "ARCHIVED"
        /\ request[r].op = "update" => request[r].seen.status # "ARCHIVED"
        /\ request[r].op \in {"update", "archive", "restore", "delete"} =>
              row[request[r].a].name # Unset

(* An id that was never given away has nothing to run, and is a draft.     *)
NothingRuns(a) ==
    /\ ~cohort[a] /\ runs[a] = 0 /\ marking[a] = 0 /\ joining[a] = 0
    /\ \A c \in BOOLEAN : settling[a][c] = 0

AbsentIsIdle ==
    \A a \in Ids : row[a].name = Unset => row[a].status = "DRAFT" /\ NothingRuns(a)

(* After a mark that nobody has settled the status is RUNNING, and the one *)
(* that the mark found is kept, unless a request wrote either since.       *)
MarkIsKept ==
    \A a \in Ids : before[a] # Unset /\ ~touched[a] =>
        row[a].status = "RUNNING" /\ row[a].previous = before[a]

StatusInv == StatusTyped /\ RequestsKnow /\ AbsentIsIdle /\ MarkIsKept

-----------------------------------------------------------------------------
LEMMA AbsentType == Absent \in Rows
  BY DEF Absent, Rows, Statuses, Unset

LEMMA StatusesHold == \A s \in Statuses : s # Unset
  BY DEF Statuses, Unset

LEMMA StatusInit == AssessmentInit => StatusInv
<1> SUFFICES ASSUME AssessmentInit PROVE StatusInv
  OBVIOUS
<1>1. Fresh(FirstName, {}) \in Rows
  BY FirstAssumption DEF Fresh, Absent, Rows, Statuses, Unset
<1>2. Waiting \in [op : Ops, a : Ids, to : Names \cup Statuses \cup {Unset}, seen : Rows]
  BY FirstAssumption, AbsentType DEF Waiting, Ops
<1>3. StatusTyped
  BY <1>1, <1>2, AbsentType DEF StatusTyped, AssessmentInit
<1>4. RequestsKnow
  BY DEF RequestsKnow, AssessmentInit, Waiting
<1>5. AbsentIsIdle /\ MarkIsKept
  BY FirstAssumption DEF AbsentIsIdle, MarkIsKept, AssessmentInit, NothingRuns, Fresh, Absent
<1> QED BY <1>3, <1>4, <1>5 DEF StatusInv

(* A request that reads changes nothing but itself.                        *)
LEMMA StatusReads ==
    ASSUME StatusInv, NEW r \in Requests, RequestReads(r)
    PROVE  StatusInv'
<1> USE DEF StatusInv, StatusTyped
<1>1. UNCHANGED <<row, cohortVars, before, touched>>
  BY DEF RequestReads
<1>2. PICK op \in Ops, a \in Ids, b \in Ids, to \in Names \cup Statuses \cup {Unset} :
         /\ request' = [request EXCEPT ![r] = [op |-> op, a |-> b, to |-> to, seen |-> row[a]]]
         /\ op \in {"create", "rename"} => to \in Names
         /\ op \in {"update", "archive", "restore"} => to \in Statuses
         /\ op = "archive" => to = "ARCHIVED" /\ row[a].status # "ARCHIVED"
         /\ op = "update" => row[a].status # "ARCHIVED"
         /\ op \in {"update", "archive", "restore", "delete"} => row[b].name # Unset
  <2>1. CASE CreateReads(r)
    BY <2>1 DEF CreateReads, Reads, Ops
  <2>2. CASE DuplicateReads(r)
    BY <2>2 DEF DuplicateReads, Ops
  <2>3. CASE RenameReads(r)
    BY <2>3 DEF RenameReads, Reads, Ops
  <2>4. CASE UpdateReads(r)
    BY <2>4, FirstAssumption DEF UpdateReads, Reads, Ops, Active
  <2>5. CASE DeleteReads(r)
    BY <2>5 DEF DeleteReads, Reads, Ops, Active
  <2>6. CASE ArchiveReads(r)
    BY <2>6 DEF ArchiveReads, Reads, Ops, Statuses, Active
  <2>7. CASE RestoreReads(r)
    <3>1. PICK a \in Ids :
            /\ row[a].name # Unset
            /\ Reads(r, "restore", a, IF row[a].previous = Unset THEN "READY" ELSE row[a].previous)
      BY <2>7 DEF RestoreReads, Active
    <3>2. (IF row[a].previous = Unset THEN "READY" ELSE row[a].previous) \in Statuses
      BY DEF Rows, Statuses
    <3> QED BY <3>1, <3>2 DEF Reads, Ops
  <2> QED BY <2>1, <2>2, <2>3, <2>4, <2>5, <2>6, <2>7 DEF RequestReads
<1>3. request'[r] = [op |-> op, a |-> b, to |-> to, seen |-> row[a]]
  BY <1>2
<1>4. \A q \in Requests : q # r => request'[q] = request[q]
  BY <1>2
<1>5. StatusTyped'
  BY <1>1, <1>2 DEF cohortVars
<1>6. RequestsKnow'
  BY <1>1, <1>2, <1>3, <1>4 DEF RequestsKnow
<1> QED BY <1>1, <1>5, <1>6 DEF AbsentIsIdle, MarkIsKept, NothingRuns, cohortVars

-----------------------------------------------------------------------------
(* What a request writes is a row, and with the status and the previous    *)
(* one unchanged nothing a run relies on.                                  *)
LEMMA WrittenType ==
    ASSUME StatusInv, NEW r \in Requests, request[r].op \notin {"waiting", "done"}
    PROVE  Written(request[r]) \in Rows
<1> DEFINE q == request[r]
<1> USE DEF StatusInv, StatusTyped
<1>1. q.a \in Ids /\ row[q.a] \in Rows /\ q.seen \in Rows
  OBVIOUS
<1>2. CASE q.op = "create"
  <2>1. q.to \in Names
    BY <1>2 DEF RequestsKnow
  <2>2. {[t EXCEPT !.origin = "USER"] : t \in q.seen.targets}
            \subseteq [value : Endpoints, origin : {"USER", "PIPELINE"}]
    <3>1. \A t \in q.seen.targets : t \in [value : Endpoints, origin : {"USER", "PIPELINE"}]
      BY <1>1 DEF Rows
    <3>2. \A t \in [value : Endpoints, origin : {"USER", "PIPELINE"}] :
            [t EXCEPT !.origin = "USER"] \in [value : Endpoints, origin : {"USER", "PIPELINE"}]
      OBVIOUS
    <3> QED BY <3>1, <3>2
  <2> QED BY <1>2, <2>1, <2>2, AbsentType DEF Written, Fresh, Absent, Rows
<1>3. CASE q.op = "rename"
  BY <1>1, <1>3 DEF Written, Rows, RequestsKnow
<1>4. CASE q.op = "delete"
  BY <1>1, <1>4 DEF Written, Rows
<1>5. CASE q.op \in {"update", "archive", "restore"}
  <2>1. q.to \in Statuses
    BY <1>5 DEF RequestsKnow
  <2>2. \A p \in Statuses \cup {Unset} :
          [row[q.a] EXCEPT !.status = Column(@, q.seen.status, q.to),
                           !.previous = Column(@, q.seen.previous, p)] \in Rows
    BY <1>1, <2>1 DEF Column, Rows
  <2> QED BY <1>1, <1>5, <2>2 DEF Written, Rows
<1> QED BY <1>2, <1>3, <1>4, <1>5 DEF Ops

(* No name is taken back.                                                  *)
LEMMA WrittenName ==
    ASSUME StatusInv, NEW r \in Requests, request[r].op \notin {"waiting", "done"}
    PROVE  Written(request[r]).name # Unset
<1> DEFINE q == request[r]
<1> USE DEF StatusInv, StatusTyped
<1>1. CASE q.op = "create"
  BY <1>1, FirstAssumption DEF Written, Fresh, Absent, RequestsKnow
<1>2. CASE q.op = "rename"
  BY <1>2, FirstAssumption DEF Written, Rows, RequestsKnow
<1>3. CASE q.op = "delete"
  BY <1>3 DEF Written, Rows, RequestsKnow
<1>4. CASE q.op \in {"update", "archive", "restore"}
  <2>1. row[q.a] \in Rows /\ row[q.a].name # Unset
    BY <1>4 DEF RequestsKnow
  <2>2. \A s, p : [row[q.a] EXCEPT !.status = s, !.previous = p].name # Unset
    BY <2>1 DEF Rows
  <2> QED BY <1>4, <2>2 DEF Written
<1> QED BY <1>1, <1>2, <1>3, <1>4 DEF Ops

LEMMA StatusWrites ==
    ASSUME StatusInv, NEW r \in Requests, RequestWrites(r)
    PROVE  StatusInv'
<1> DEFINE q == request[r]
<1> USE DEF StatusInv
<1>1. q.op \notin {"waiting", "done"} /\ q.a \in Ids
  BY DEF RequestWrites, StatusTyped
<1>2. UNCHANGED <<cohort, runs, marking, joining, settling, before>>
  BY DEF RequestWrites, cohortVars
<1>3. /\ request' = [request EXCEPT ![r] = Done]
      /\ touched' = [touched EXCEPT ![q.a] = @ \/ <<row'[q.a].status, row'[q.a].previous>>
                                                   # <<row[q.a].status, row[q.a].previous>>]
  BY DEF RequestWrites
<1>4. row' = row \/ (Commits(q) /\ row' = [row EXCEPT ![q.a] = Written(q)])
  BY DEF RequestWrites
<1>5. Written(q) \in Rows /\ Written(q).name # Unset
  BY <1>1, WrittenType, WrittenName
<1>6. Done \in [op : Ops, a : Ids, to : Names \cup Statuses \cup {Unset}, seen : Rows]
  BY FirstAssumption, AbsentType DEF Done, Waiting, Ops
<1>7. StatusTyped'
  <2>1. row' \in [Ids -> Rows]
    BY <1>4, <1>5 DEF StatusTyped
  <2>2. touched' \in [Ids -> BOOLEAN]
    BY <1>1, <1>3 DEF StatusTyped
  <2> QED BY <1>2, <1>3, <1>6, <2>1, <2>2 DEF StatusTyped
<1>8. \A a \in Ids : row'[a].name = Unset => row'[a] = row[a]
  BY <1>4, <1>5 DEF StatusTyped
<1>9. RequestsKnow'
  <2>1. \A x \in Requests : request'[x] = IF x = r THEN Done ELSE request[x]
    BY <1>3 DEF StatusTyped
  <2>2. Done.op = "done"
    BY DEF Done, Waiting
  <2>3. \A x \in Requests : request[x].a \in Ids
    BY DEF StatusTyped
  <2> QED BY <2>1, <2>2, <2>3, <1>8 DEF RequestsKnow
<1>10. AbsentIsIdle'
  BY <1>2, <1>8 DEF AbsentIsIdle, NothingRuns
<1>11. MarkIsKept'
  <2>1. \A a \in Ids : /\ touched[a] => touched'[a]
                       /\ ~touched'[a] => row'[a].status = row[a].status
                                          /\ row'[a].previous = row[a].previous
    <3> SUFFICES ASSUME NEW a \in Ids
                 PROVE  /\ touched[a] => touched'[a]
                        /\ ~touched'[a] => row'[a].status = row[a].status
                                           /\ row'[a].previous = row[a].previous
      OBVIOUS
    <3>1. CASE a = q.a
      BY <1>3, <3>1 DEF StatusTyped
    <3>2. CASE a # q.a
      BY <1>3, <1>4, <3>2 DEF StatusTyped
    <3> QED BY <3>1, <3>2
  <2> QED BY <1>2, <2>1 DEF MarkIsKept, StatusTyped
<1> QED BY <1>7, <1>9, <1>10, <1>11

-----------------------------------------------------------------------------
(* What a row is after its targets, or its statuses, are replaced.         *)
LEMMA RetargetedRow ==
    ASSUME NEW x \in Rows, NEW T \in SUBSET [value : Endpoints, origin : {"USER", "PIPELINE"}]
    PROVE  /\ [x EXCEPT !.targets = T] \in Rows
           /\ [x EXCEPT !.targets = T].name = x.name
           /\ [x EXCEPT !.targets = T].status = x.status
           /\ [x EXCEPT !.targets = T].previous = x.previous
  BY DEF Rows

LEMMA ResettledRow ==
    ASSUME NEW x \in Rows, NEW s \in Statuses, NEW p \in Statuses \cup {Unset}
    PROVE  /\ [x EXCEPT !.previous = p, !.status = s] \in Rows
           /\ [x EXCEPT !.previous = p, !.status = s].name = x.name
           /\ [x EXCEPT !.previous = p, !.status = s].status = s
           /\ [x EXCEPT !.previous = p, !.status = s].previous = p
  BY DEF Rows

(* The steps of users and of the manager at one assessment.                *)
LEMMA StatusAddTarget ==
    ASSUME StatusInv, NEW a \in Ids, AddTarget(a)
    PROVE  StatusInv'
<1> USE DEF StatusInv, StatusTyped
<1>1. PICK v \in Endpoints, o \in {"USER", "PIPELINE"} :
        row' = [row EXCEPT ![a].targets = @ \cup {[value |-> v, origin |-> o]}]
  BY DEF AddTarget
<1>2. /\ row' \in [Ids -> Rows]
      /\ \A b \in Ids : /\ row'[b].name = row[b].name /\ row'[b].status = row[b].status
                         /\ row'[b].previous = row[b].previous
  <2>1. row' = [row EXCEPT ![a] = [row[a] EXCEPT !.targets = @ \cup {[value |-> v, origin |-> o]}]]
    BY <1>1
  <2>2. row[a].targets \cup {[value |-> v, origin |-> o]}
          \in SUBSET [value : Endpoints, origin : {"USER", "PIPELINE"}]
    <3>1. row[a].targets \in SUBSET [value : Endpoints, origin : {"USER", "PIPELINE"}]
      BY DEF Rows
    <3>2. [value |-> v, origin |-> o] \in [value : Endpoints, origin : {"USER", "PIPELINE"}]
      OBVIOUS
    <3> QED BY <3>1, <3>2
  <2>3. \A T \in SUBSET [value : Endpoints, origin : {"USER", "PIPELINE"}] :
          /\ [row[a] EXCEPT !.targets = T] \in Rows
          /\ [row[a] EXCEPT !.targets = T].name = row[a].name
          /\ [row[a] EXCEPT !.targets = T].status = row[a].status
          /\ [row[a] EXCEPT !.targets = T].previous = row[a].previous
    BY RetargetedRow
  <2> DEFINE T == row[a].targets \cup {[value |-> v, origin |-> o]}
  <2> HIDE DEF T
  <2>4. row' = [row EXCEPT ![a] = [row[a] EXCEPT !.targets = T]] /\ T \in SUBSET [value : Endpoints, origin : {"USER", "PIPELINE"}]
    BY <2>1, <2>2 DEF T
  <2> QED BY <2>3, <2>4
<1>3. UNCHANGED <<request, cohort, runs, marking, joining, settling, before, touched>>
  BY DEF AddTarget, cohortVars
<1>4. StatusTyped'
  BY <1>2, <1>3
<1>5. RequestsKnow'
  BY <1>2, <1>3 DEF RequestsKnow
<1>6. AbsentIsIdle'
  BY <1>2, <1>3 DEF AbsentIsIdle, NothingRuns
<1>7. MarkIsKept'
  BY <1>2, <1>3 DEF MarkIsKept
<1> QED BY <1>4, <1>5, <1>6, <1>7

(* Joining and leaving a cohort writes no row.                             *)
LEMMA StatusCohort ==
    ASSUME StatusInv, NEW a \in Ids, Execute(a) \/ RetryJoins(a) \/ LastJobLeaves(a)
    PROVE  StatusInv'
<1> USE DEF StatusInv, StatusTyped
<1>1. UNCHANGED <<row, request, before, touched>>
  BY DEF Execute, RetryJoins, LastJobLeaves
<1>2. row[a].name # Unset
  <2>1. CASE Execute(a)
    BY <2>1 DEF Execute, Active
  <2>2. CASE RetryJoins(a)
    <3>1. joining[a] # 0
      BY <2>2 DEF RetryJoins
    <3> QED BY <3>1 DEF AbsentIsIdle, NothingRuns
  <2>3. CASE LastJobLeaves(a)
    BY <2>3 DEF LastJobLeaves, AbsentIsIdle, NothingRuns
  <2> QED BY <2>1, <2>2, <2>3
<1>3. /\ cohort' \in [Ids -> BOOLEAN] /\ runs' \in [Ids -> Nat] /\ marking' \in [Ids -> Nat]
      /\ joining' \in [Ids -> Nat] /\ settling' \in [Ids -> [BOOLEAN -> Nat]]
      /\ \A b \in Ids \ {a} : /\ cohort'[b] = cohort[b] /\ runs'[b] = runs[b]
                              /\ marking'[b] = marking[b] /\ joining'[b] = joining[b]
                              /\ settling'[b] = settling[b]
  <2>1. CASE Execute(a)
    BY <2>1 DEF Execute
  <2>2. CASE RetryJoins(a)
    <3>1. joining[a] - 1 \in Nat
      BY <2>2 DEF RetryJoins
    <3> QED BY <2>2, <3>1 DEF RetryJoins
  <2>3. CASE LastJobLeaves(a)
    <3>1. PICK c \in BOOLEAN : settling' = [settling EXCEPT ![a][c] = @ + 1]
      BY <2>3 DEF LastJobLeaves
    <3>2. settling' \in [Ids -> [BOOLEAN -> Nat]] /\ \A b \in Ids \ {a} : settling'[b] = settling[b]
      BY <3>1, Z3
    <3> QED BY <2>3, <3>2 DEF LastJobLeaves
  <2> QED BY <2>1, <2>2, <2>3
<1>4. AbsentIsIdle'
  BY <1>1, <1>2, <1>3 DEF AbsentIsIdle, NothingRuns
<1> QED BY <1>1, <1>3, <1>4 DEF RequestsKnow, MarkIsKept

(* A mark finds a status, and keeps it.                                    *)
LEMMA MarkedRow ==
    ASSUME StatusInv, NEW a \in Ids, MarkRunning(a)
    PROVE  /\ row' \in [Ids -> Rows] /\ row'[a].name = row[a].name
           /\ \A b \in Ids \ {a} : row'[b] = row[b]
           /\ before' \in [Ids -> Statuses \cup {Unset}] /\ touched' \in [Ids -> BOOLEAN]
           /\ row'[a].status = "RUNNING"
           /\ MarkIsKept'
<1> USE DEF StatusInv, StatusTyped
<1>1. CASE row[a].status = "RUNNING"
  BY <1>1 DEF MarkRunning, MarkedRunning, MarkIsKept
<1>2. CASE row[a].status # "RUNNING"
  <2> DEFINE x == [row[a] EXCEPT !.previous = row[a].status, !.status = "RUNNING"]
  <2>1. /\ row' = [row EXCEPT ![a] = x]
        /\ before' = [before EXCEPT ![a] = row[a].status] /\ touched' = [touched EXCEPT ![a] = FALSE]
    BY <1>2 DEF MarkRunning, MarkedRunning
  <2>2. row[a] \in Rows /\ row[a].status \in Statuses /\ "RUNNING" \in Statuses
    BY DEF Rows, Statuses
  <2>3. /\ x \in Rows /\ x.name = row[a].name /\ x.status = "RUNNING"
        /\ x.previous = row[a].status
    <3>1. \A s \in Statuses, p \in Statuses \cup {Unset} :
            /\ [row[a] EXCEPT !.previous = p, !.status = s] \in Rows
            /\ [row[a] EXCEPT !.previous = p, !.status = s].name = row[a].name
            /\ [row[a] EXCEPT !.previous = p, !.status = s].status = s
            /\ [row[a] EXCEPT !.previous = p, !.status = s].previous = p
      BY <2>2, ResettledRow
    <3> QED BY <2>2, <3>1
  <2> HIDE DEF x
  <2> QED BY <2>1, <2>2, <2>3 DEF MarkIsKept
<1> QED BY <1>1, <1>2

LEMMA StatusMarks ==
    ASSUME StatusInv, NEW a \in Ids, RunMarks(a) \/ RetryMarks(a)
    PROVE  StatusInv'
<1> USE DEF StatusInv, StatusTyped
<1>1. MarkRunning(a) /\ UNCHANGED <<request, cohort, settling>>
  BY DEF RunMarks, RetryMarks
<1>2. row[a].name # Unset
  <2>1. marking[a] # 0 \/ runs[a] # 0
    BY DEF RunMarks, RetryMarks
  <2> QED BY <2>1 DEF AbsentIsIdle, NothingRuns
<1>3. /\ runs' \in [Ids -> Nat] /\ marking' \in [Ids -> Nat] /\ joining' \in [Ids -> Nat]
      /\ \A b \in Ids \ {a} : /\ runs'[b] = runs[b] /\ marking'[b] = marking[b]
                              /\ joining'[b] = joining[b]
  <2>1. CASE RunMarks(a)
    <3>1. marking[a] - 1 \in Nat
      BY <2>1 DEF RunMarks
    <3> QED BY <2>1, <3>1 DEF RunMarks
  <2>2. CASE RetryMarks(a)
    BY <2>2 DEF RetryMarks
  <2> QED BY <2>1, <2>2
<1>4. StatusTyped'
  <2>1. /\ row' \in [Ids -> Rows] /\ before' \in [Ids -> Statuses \cup {Unset}]
        /\ touched' \in [Ids -> BOOLEAN]
    BY <1>1, MarkedRow
  <2>2. /\ UNCHANGED request /\ cohort' \in [Ids -> BOOLEAN]
        /\ settling' \in [Ids -> [BOOLEAN -> Nat]]
    BY <1>1
  <2>3. request' \in [Requests -> [op : Ops, a : Ids, to : Names \cup Statuses \cup {Unset}, seen : Rows]]
    BY <2>2
  <2> QED BY <1>3, <2>1, <2>2, <2>3
<1>5. RequestsKnow'
  <2>1. \A b \in Ids : row'[b].name = row[b].name
    BY <1>1, MarkedRow
  <2>2. \A r \in Requests : request'[r] = request[r] /\ request[r].a \in Ids
    BY <1>1
  <2> QED BY <2>1, <2>2 DEF RequestsKnow
<1>6. AbsentIsIdle'
  BY <1>1, <1>2, <1>3, MarkedRow DEF AbsentIsIdle, NothingRuns
<1> QED BY <1>1, <1>4, <1>5, <1>6, MarkedRow

(* What a run that ended leaves of a row.                                  *)
LEMMA SettledRow ==
    ASSUME NEW x \in Rows, NEW c \in BOOLEAN
    PROVE  /\ Settled(x, c) \in Rows /\ Settled(x, c).name = x.name
           /\ Settled(x, c).status = IF ~c THEN "COMPLETED"
                                     ELSE IF x.previous # Unset THEN x.previous ELSE "READY"
<1>1. PICK s \in Statuses :
        s = IF ~c THEN "COMPLETED" ELSE IF x.previous # Unset THEN x.previous ELSE "READY"
  BY DEF Rows, Statuses
<1>2. Settled(x, c) = [x EXCEPT !.previous = Unset, !.status = s]
  BY <1>1 DEF Settled
<1>3. /\ [x EXCEPT !.previous = Unset, !.status = s] \in Rows
      /\ [x EXCEPT !.previous = Unset, !.status = s].name = x.name
      /\ [x EXCEPT !.previous = Unset, !.status = s].status = s
  BY DEF Rows
<1> QED BY <1>1, <1>2, <1>3

LEMMA StatusSettles == ASSUME StatusInv, NEW a \in Ids, Settles(a) PROVE StatusInv'
<1> USE DEF StatusInv, StatusTyped
<1>1. PICK c \in BOOLEAN : /\ settling[a][c] > 0
                           /\ settling' = [settling EXCEPT ![a][c] = @ - 1]
                           /\ row' = [row EXCEPT ![a] = Settled(@, c)]
  BY DEF Settles
<1>2. /\ before' = [before EXCEPT ![a] = Unset]
      /\ UNCHANGED <<request, cohort, runs, marking, joining, touched>>
  BY DEF Settles
<1>3. row[a].name # Unset
  <2>1. settling[a][c] # 0
    BY <1>1
  <2> QED BY <2>1 DEF AbsentIsIdle, NothingRuns
<1>4. settling' \in [Ids -> [BOOLEAN -> Nat]] /\ \A b \in Ids \ {a} : settling'[b] = settling[b]
  <2>1. settling[a][c] - 1 \in Nat
    BY <1>1
  <2> QED BY <1>1, <2>1, Z3
<1>5. /\ row' \in [Ids -> Rows] /\ row'[a].name = row[a].name
      /\ \A b \in Ids \ {a} : row'[b] = row[b]
  <2>1. Settled(row[a], c) \in Rows /\ Settled(row[a], c).name = row[a].name
    BY SettledRow
  <2> QED BY <1>1, <2>1
<1>6. RequestsKnow'
  BY <1>2, <1>3, <1>5 DEF RequestsKnow
<1>7. AbsentIsIdle'
  BY <1>2, <1>3, <1>4, <1>5 DEF AbsentIsIdle, NothingRuns
<1>8. MarkIsKept'
  BY <1>2, <1>5 DEF MarkIsKept
<1> QED BY <1>2, <1>4, <1>5, <1>6, <1>7, <1>8

-----------------------------------------------------------------------------
LEMMA StatusStep == StatusInv /\ [AssessmentNext]_assessmentVars => StatusInv'
<1> SUFFICES ASSUME StatusInv, [AssessmentNext]_assessmentVars PROVE StatusInv'
  OBVIOUS
<1>1. CASE \E r \in Requests : RequestReads(r) \/ RequestWrites(r)
  BY <1>1, StatusReads, StatusWrites
<1>2. CASE \E a \in Ids : AddTarget(a) \/ Execute(a) \/ RetryJoins(a) \/ LastJobLeaves(a)
  BY <1>2, StatusAddTarget, StatusCohort
<1>3. CASE \E a \in Ids : RunMarks(a) \/ RetryMarks(a) \/ Settles(a)
  BY <1>3, StatusMarks, StatusSettles
<1>4. CASE UNCHANGED assessmentVars
  BY <1>4 DEF assessmentVars, cohortVars, StatusInv, StatusTyped, RequestsKnow, AbsentIsIdle,
              MarkIsKept, NothingRuns
<1> QED BY <1>1, <1>2, <1>3, <1>4 DEF AssessmentNext

(* The types, what the requests know and what a mark keeps hold in every   *)
(* state.                                                                  *)
THEOREM StatusInvHolds == AssessmentSpec => []StatusInv
BY StatusInit, StatusStep, PTL DEF AssessmentSpec

-----------------------------------------------------------------------------
(* An archived assessment leaves ARCHIVED through restore(), an update     *)
(* that read it before, the mark of a run or of a retry or the end of a    *)
(* run: however many requests, runs and retries there are.                 *)
THEOREM ArchiveIsLeft == AssessmentSpec => LeavesArchiveOnlyBy
<1>1. ASSUME StatusInv, [AssessmentNext]_assessmentVars, NEW a \in Ids PROVE LeavesArchive(a)
  <2> USE <1>1 DEF StatusInv, LeavesArchive
  <2>1. CASE \E r \in Requests : RequestReads(r)
    BY <2>1 DEF RequestReads
  <2>2. ASSUME NEW r \in Requests, RequestWrites(r) PROVE LeavesArchive(a)
    <3> DEFINE q == request[r]
    <3> SUFFICES ASSUME row[a].status = "ARCHIVED", row'[a].status # "ARCHIVED"
                 PROVE  /\ q.a = a /\ request'[r] # q
                        /\ q.op = "restore" \/ (q.op = "update" /\ q.seen.status # "ARCHIVED")
      OBVIOUS
    <3>1. q.op \notin {"waiting", "done"} /\ request' = [request EXCEPT ![r] = Done]
      BY <2>2 DEF RequestWrites
    <3>2. request'[r] = Done /\ Done.op = "done"
      BY <3>1 DEF StatusTyped, Done, Waiting
    <3>3. row' = row \/ (Commits(q) /\ row' = [row EXCEPT ![q.a] = Written(q)])
      BY <2>2 DEF RequestWrites
    <3>4. q.a = a /\ Commits(q) /\ row'[a] = Written(q)
      BY <3>3 DEF StatusTyped
    <3>5. row[a] \in Rows /\ q.op \in Ops
      BY DEF StatusTyped
    <3>6. q.op # "create"
      BY <3>4 DEF Commits, AbsentIsIdle
    <3>7. q.op \notin {"rename", "delete"}
      <4>1. CASE q.op = "rename"
        BY <4>1, <3>4, <3>5 DEF Written, Rows
      <4>2. CASE q.op = "delete"
        BY <4>2, <3>4, <3>5 DEF Written, Rows
      <4> QED BY <4>1, <4>2
    <3>8. q.op # "archive"
      <4> SUFFICES ASSUME q.op = "archive" PROVE FALSE
        OBVIOUS
      <4>1. q.to = "ARCHIVED" /\ q.seen.status # "ARCHIVED"
        BY DEF RequestsKnow
      <4>2. Written(q).status = "ARCHIVED"
        BY <4>1, <3>4, <3>5 DEF Written, Column, Rows
      <4> QED BY <4>2, <3>4
    <3>9. q.op = "update" => q.seen.status # "ARCHIVED"
      BY DEF RequestsKnow
    <3> QED BY <3>1, <3>2, <3>4, <3>5, <3>6, <3>7, <3>8, <3>9 DEF Ops
  <2>3. ASSUME NEW b \in Ids, AddTarget(b) \/ Execute(b) \/ RetryJoins(b) \/ LastJobLeaves(b)
        PROVE  LeavesArchive(a)
    <3>1. CASE AddTarget(b)
      BY <3>1 DEF AddTarget, StatusTyped, Rows
    <3>2. CASE Execute(b) \/ RetryJoins(b) \/ LastJobLeaves(b)
      BY <3>2 DEF Execute, RetryJoins, LastJobLeaves
    <3> QED BY <2>3, <3>1, <3>2
  <2>4. ASSUME NEW b \in Ids, RunMarks(b) \/ RetryMarks(b) PROVE LeavesArchive(a)
    <3>1. row'[b].status = "RUNNING" /\ (a # b => row'[a] = row[a])
      BY <2>4, MarkedRow DEF RunMarks, RetryMarks
    <3>2. marking'[b] < marking[b] \/ joining'[b] > joining[b]
      <4>1. CASE RunMarks(b)
        BY <4>1 DEF RunMarks, StatusTyped
      <4>2. CASE RetryMarks(b)
        BY <4>2 DEF RetryMarks, StatusTyped
      <4> QED BY <2>4, <4>1, <4>2
    <3> QED BY <3>1, <3>2
  <2>5. ASSUME NEW b \in Ids, Settles(b) PROVE LeavesArchive(a)
    <3>1. PICK c \in BOOLEAN : /\ settling[b][c] > 0
                               /\ settling' = [settling EXCEPT ![b][c] = @ - 1]
                               /\ row' = [row EXCEPT ![b] = Settled(@, c)]
      BY <2>5 DEF Settles
    <3>2. settling'[b][c] < settling[b][c]
      BY <3>1 DEF StatusTyped
    <3>3. a # b => row'[a] = row[a]
      BY <3>1 DEF StatusTyped
    <3> QED BY <3>2, <3>3
  <2>6. CASE UNCHANGED assessmentVars
    BY <2>6 DEF assessmentVars
  <2> QED BY <2>1, <2>2, <2>3, <2>4, <2>5, <2>6 DEF AssessmentNext
<1>2. StatusInv /\ [AssessmentNext]_assessmentVars
        => [\A a \in Ids : LeavesArchive(a)]_assessmentVars
  BY <1>1
<1> QED BY <1>2, StatusInvHolds, PTL DEF AssessmentSpec, LeavesArchiveOnlyBy

(* What settles a marked assessment first gives back the status that the   *)
(* mark found or leaves COMPLETED, unless a request wrote it meanwhile.    *)
THEOREM RunGivesBack == AssessmentSpec => RunGivesStatusBack
<1>1. ASSUME StatusInv, [AssessmentNext]_assessmentVars, NEW a \in Ids PROVE GivesStatusBack(a)
  <2> SUFFICES ASSUME before[a] # Unset, before'[a] = Unset, ~touched[a]
               PROVE  row'[a].status \in {"COMPLETED", before[a]}
    BY DEF GivesStatusBack
  <2> USE <1>1 DEF StatusInv
  <2>1. row[a].previous = before[a] /\ row[a] \in Rows
    BY DEF MarkIsKept, StatusTyped
  <2>2. Settles(a)
    <3>1. ~(\E r \in Requests : RequestReads(r) \/ RequestWrites(r))
      BY DEF RequestReads, RequestWrites
    <3>2. \A b \in Ids : ~AddTarget(b) /\ ~Execute(b) /\ ~RetryJoins(b) /\ ~LastJobLeaves(b)
      BY DEF AddTarget, Execute, RetryJoins, LastJobLeaves
    <3>3. \A b \in Ids : ~MarkRunning(b)
      <4> SUFFICES ASSUME NEW b \in Ids, MarkRunning(b) PROVE FALSE
        OBVIOUS
      <4>1. row[b].status \in Statuses
        BY DEF StatusTyped, Rows
      <4> QED BY <4>1, StatusesHold DEF MarkRunning, StatusTyped
    <3>4. \A b \in Ids : ~RunMarks(b) /\ ~RetryMarks(b)
      BY <3>3 DEF RunMarks, RetryMarks
    <3>5. \A b \in Ids : b # a => ~Settles(b)
      BY DEF Settles, StatusTyped
    <3> QED BY <3>1, <3>2, <3>4, <3>5 DEF AssessmentNext, assessmentVars
  <2>3. PICK cancelled \in BOOLEAN : row' = [row EXCEPT ![a] = Settled(@, cancelled)]
    BY <2>2 DEF Settles
  <2>4. row'[a].status = IF ~cancelled THEN "COMPLETED" ELSE before[a]
    BY <2>1, <2>3, SettledRow DEF StatusTyped
  <2> QED BY <2>4
<1>2. StatusInv /\ [AssessmentNext]_assessmentVars
        => [\A a \in Ids : GivesStatusBack(a)]_assessmentVars
  BY <1>1
<1> QED BY <1>2, StatusInvHolds, PTL DEF AssessmentSpec, RunGivesStatusBack

-----------------------------------------------------------------------------
(* The process runner.                                                     *)

(* The clock stays below its bound.                                        *)
LEMMA NextTick ==
    ASSUME NEW n \in Nat, NEW t \in 0 .. n, t < n
    PROVE  t + 1 \in 0 .. n
  OBVIOUS

(* The variables of the process runner keep their types.                   *)
THEOREM RunnerTypeCorrect == RunnerSpec => []RunnerTypeOK
<1>1. RunnerInit => RunnerTypeOK
  BY ClockAssumption DEF RunnerInit, RunnerTypeOK
<1>2. RunnerTypeOK /\ [RunnerNext]_runnerVars => RunnerTypeOK'
  <2> SUFFICES ASSUME RunnerTypeOK, [RunnerNext]_runnerVars PROVE RunnerTypeOK'
    OBVIOUS
  <2> USE DEF RunnerTypeOK, Timed, Ended
  <2>1. CASE Tick
    <3>1. now' \in 0 .. LastTick
      BY <2>1, NextTick, ClockAssumption DEF Tick
    <3> QED BY <2>1, <3>1 DEF Tick
  <2>2. ASSUME NEW c \in Calls, Spawn(c) PROVE RunnerTypeOK'
    BY <2>2 DEF Spawn, Enters
  <2>3. ASSUME NEW c \in Calls, ProcessExits(c) PROVE RunnerTypeOK'
    BY <2>3 DEF ProcessExits
  <2>4. ASSUME NEW c \in Calls, Return(c) \/ Drained(c) PROVE RunnerTypeOK'
    BY <2>4 DEF Return, Drained, Enters
  <2>5. ASSUME NEW c \in Calls, TimeOut(c) PROVE RunnerTypeOK'
    BY <2>5 DEF TimeOut, Enters
  <2>6. ASSUME NEW c \in Calls, TerminateWaits(c) PROVE RunnerTypeOK'
    BY <2>6 DEF TerminateWaits, Enters
  <2>7. ASSUME NEW c \in Calls, ManagerTimesOut(c) \/ JobCancelled(c) PROVE RunnerTypeOK'
    BY <2>7 DEF ManagerTimesOut, JobCancelled, Abandon, Enters
  <2>8. CASE UNCHANGED runnerVars
    BY <2>8 DEF runnerVars
  <2> QED BY <2>1, <2>2, <2>3, <2>4, <2>5, <2>6, <2>7, <2>8 DEF RunnerNext
<1> QED BY <1>1, <1>2, PTL DEF RunnerSpec

-----------------------------------------------------------------------------
(* What the property leaves out: a call that drains has ended its process. *)
DrainsTheDead == \A c \in Calls : call[c] = "draining" => process[c] = "dead"

(* A timer of run_subprocess() that is due was started at tick 0 or later: *)
(* the manager's, of the same length, is due as well.                      *)
LEMMA ManagerIsFirst ==
    ASSUME RunnerTypeOK, NEW c \in Managed, call[c] = "waiting", Due(c)
    PROVE  ManagerIsDue(c)
<1>1. c \in Calls
  BY ClockAssumption
<1>2. now \in Nat /\ began[c] \in Nat
  BY <1>1, ClockAssumption DEF RunnerTypeOK
<1> QED BY <1>1, <1>2, ClockAssumption DEF Due, DueAt, ManagerIsDue

(* A call that comes back leaves no process, and under the manager none    *)
(* comes back by its own timeout: only an abandoned call leaves one.       *)
THEOREM AbandonedOnly == RunnerSpec => []OnlyAbandonedProcessesLive
<1> DEFINE Inv == OnlyAbandonedProcessesLive /\ DrainsTheDead
<1>1. RunnerInit => Inv
  BY ClockAssumption DEF RunnerInit, OnlyAbandonedProcessesLive, DrainsTheDead
<1>2. RunnerTypeOK /\ Inv /\ [RunnerNext]_runnerVars => Inv'
  <2> SUFFICES ASSUME RunnerTypeOK, Inv, [RunnerNext]_runnerVars PROVE Inv'
    OBVIOUS
  <2> USE ClockAssumption DEF RunnerTypeOK, OnlyAbandonedProcessesLive, DrainsTheDead
  <2>1. CASE Tick
    BY <2>1 DEF Tick
  <2>2. ASSUME NEW c \in Calls, Spawn(c) PROVE Inv'
    BY <2>2 DEF Spawn, Enters
  <2>3. ASSUME NEW c \in Calls, ProcessExits(c) PROVE Inv'
    BY <2>3 DEF ProcessExits
  <2>4. ASSUME NEW c \in Calls, Return(c) PROVE Inv'
    BY <2>4 DEF Return, Enters
  <2>5. ASSUME NEW c \in Calls, TimeOut(c) PROVE Inv'
    <3>1. c \notin Managed
      BY <2>5, ManagerIsFirst DEF TimeOut
    <3> QED BY <2>5, <3>1 DEF TimeOut, Enters
  <2>6. ASSUME NEW c \in Calls, TerminateWaits(c) PROVE Inv'
    BY <2>6 DEF TerminateWaits, Enters
  <2>7. ASSUME NEW c \in Calls, Drained(c) PROVE Inv'
    BY <2>7 DEF Drained, Enters
  <2>8. ASSUME NEW c \in Calls, ManagerTimesOut(c) \/ JobCancelled(c) PROVE Inv'
    BY <2>8 DEF ManagerTimesOut, JobCancelled, Abandon, Enters
  <2>9. CASE UNCHANGED runnerVars
    BY <2>9 DEF runnerVars
  <2> QED BY <2>1, <2>2, <2>3, <2>4, <2>5, <2>6, <2>7, <2>8, <2>9 DEF RunnerNext
<1> QED BY <1>1, <1>2, RunnerTypeCorrect, PTL DEF RunnerSpec

-----------------------------------------------------------------------------
(* Custom profiles.                                                        *)

(* An edit, by how far it may be.                                          *)
Writing == {"check", "open", "fill", "lost"}
Edits ==
    [op : {"none", "over"}]
    \cup [op : {"create", "duplicate"}, at : Writing, to : Customs, content : Contents, alone : BOOLEAN]
    \cup [op : {"duplicate"}, at : {"get"}, from : ProfileIds, to : Customs, alone : BOOLEAN]
    \cup [op : {"update"}, at : Writing \cup {"get", "unlink"}, from : ProfileIds, to : Customs,
          content : Contents, alone : BOOLEAN]
    \cup [op : {"delete"}, at : {"get", "unlink"}, from : ProfileIds, alone : BOOLEAN]

EditsTyped ==
    /\ edit \in [Editors -> Edits]
    /\ files \in [Customs -> Contents \cup {"absent", "empty", "torn"}]
    /\ contended \subseteq ProfileIds
    /\ \A e \in Editors : edit[e].op = "update" /\ edit[e].at = "unlink" => edit[e].to # edit[e].from

(* The edit has opened the file of id, and will answer for it.             *)
Wrote(e, id) ==
    /\ edit[e].op \in {"create", "duplicate", "update"}
    /\ edit[e].at \in {"fill", "lost", "unlink"} /\ edit[e].to = id

(* An edit that is alone shares no id with another one, and knows what the *)
(* file it opened holds.                                                   *)
LoneKnows ==
    \A e \in Editors : Editing(e) /\ edit[e].alone =>
        /\ \A x \in Editors \ {e} : Affects(edit[x]) \cap Affects(edit[e]) = {}
        /\ edit[e].at # "lost"
        /\ edit[e].at = "fill" => files[edit[e].to] = "empty"
        /\ edit[e].op = "update" /\ edit[e].at = "unlink" => files[edit[e].to] = edit[e].content

(* A file nobody has opened holds what it should.                          *)
ClosedIsDue ==
    \A id \in Customs \ contended : (\A e \in Editors : ~Wrote(e, id)) => files[id] = due[id]

ProfileInv == EditsTyped /\ LoneKnows /\ ClosedIsDue

-----------------------------------------------------------------------------
(* An edit's ids are those its record names.                               *)
LEMMA AffectsOf ==
    ASSUME NEW t \in Edits
    PROVE  /\ t.op \in {"create", "duplicate"} => Affects(t) = {t.to}
           /\ t.op = "update" => Affects(t) = {t.from, t.to}
           /\ t.op = "delete" => Affects(t) = {t.from}
           /\ t.op \in {"none", "over"} => Affects(t) = {}
           /\ t.op \in {"none", "over", "create", "duplicate", "update", "delete"}
<1>1. t.op \in {"none", "over", "create", "duplicate", "update", "delete"}
  BY DEF Edits
<1> QED BY <1>1 DEF Affects

LEMMA SameIds ==
    ASSUME NEW t \in Edits, NEW u \in Edits, t.op = u.op, t.op \in {"create", "duplicate", "update"},
           t.to = u.to, t.op = "update" => t.from = u.from
    PROVE  Affects(t) = Affects(u)
  BY AffectsOf

LEMMA ProfileInitInv == ProfileInit => ProfileInv
<1> SUFFICES ASSUME ProfileInit PROVE ProfileInv
  OBVIOUS
<1>1. \A e \in Editors : edit[e] = [op |-> "none"]
  BY DEF ProfileInit, Idle
<1>2. EditsTyped
  BY <1>1 DEF ProfileInit, Idle, Edits, EditsTyped
<1>3. LoneKnows
  BY <1>1 DEF LoneKnows, Editing
<1>4. ClosedIsDue
  BY DEF ProfileInit, ClosedIsDue
<1> QED BY <1>2, <1>3, <1>4 DEF ProfileInv

-----------------------------------------------------------------------------
(* A step of e that writes no file of another edit leaves the lone ones    *)
(* what they know.                                                         *)
LEMMA OthersKnow ==
    ASSUME ProfileInv, NEW e \in Editors,
           \A id \in Customs \ Affects(edit[e]) : files'[id] = files[id],
           Affects(edit'[e]) \subseteq Affects(edit[e]),
           \A x \in Editors \ {e} : Affects(edit'[x]) \subseteq Affects(edit[x]),
           NEW x \in Editors \ {e}, Editing(x), edit[x].alone, edit'[x] = edit[x]
    PROVE  /\ \A y \in Editors \ {x} : Affects(edit'[y]) \cap Affects(edit'[x]) = {}
           /\ edit'[x].at # "lost"
           /\ edit'[x].at = "fill" => files'[edit'[x].to] = "empty"
           /\ edit'[x].op = "update" /\ edit'[x].at = "unlink" => files'[edit'[x].to] = edit'[x].content
<1>1. /\ \A y \in Editors \ {x} : Affects(edit[y]) \cap Affects(edit[x]) = {}
      /\ edit[x].at # "lost"
      /\ edit[x].at = "fill" => files[edit[x].to] = "empty"
      /\ edit[x].op = "update" /\ edit[x].at = "unlink" => files[edit[x].to] = edit[x].content
  BY DEF ProfileInv, LoneKnows
<1>2. \A y \in Editors \ {x} : Affects(edit'[y]) \cap Affects(edit'[x]) = {}
  <2> SUFFICES ASSUME NEW y \in Editors \ {x}
               PROVE  Affects(edit'[y]) \cap Affects(edit'[x]) = {}
    OBVIOUS
  <2>1. Affects(edit'[y]) \subseteq Affects(edit[y])
    OBVIOUS
  <2> QED BY <1>1, <2>1
<1>3. edit[x] \in Edits
  BY DEF ProfileInv, EditsTyped
<1>4. edit[x].at \in {"fill", "unlink"} /\ edit[x].op # "delete" => edit[x].to \in Affects(edit[x]) /\ edit[x].to \in Customs
  <2>1. edit[x].op \in {"create", "duplicate", "update"} => edit[x].to \in Affects(edit[x])
    BY <1>3, AffectsOf
  <2>2. edit[x].at \in {"fill", "unlink"} /\ edit[x].op # "delete" => edit[x].op \in {"create", "duplicate", "update"}
    BY <1>3 DEF Edits, Editing
  <2>3. edit[x].op \in {"create", "duplicate", "update"} => edit[x].to \in Customs
    BY <1>3 DEF Edits
  <2> QED BY <2>1, <2>2, <2>3
<1>5. edit[x].at = "fill" => edit[x].op # "delete"
  BY <1>3 DEF Edits, Editing
<1>6. \A id \in Affects(edit[x]) \cap Customs : files'[id] = files[id]
  BY <1>1
<1> QED BY <1>1, <1>2, <1>4, <1>5, <1>6

(* An edit that ends answers for its ids: they hold what it promised, or   *)
(* they are contended.                                                     *)
LEMMA EndsKeeps ==
    ASSUME ProfileInv, NEW e \in Editors, Editing(e),
           due' = (IF edit[e].alone THEN Promised(edit[e]) ELSE due),
           contended' = (IF edit[e].alone THEN contended \ Affects(edit[e])
                         ELSE contended \cup Affects(edit[e])),
           \A id \in Customs \ Affects(edit[e]) : files'[id] = files[id],
           edit[e].alone => \A id \in Customs \cap Affects(edit[e]) : files'[id] = Promised(edit[e])[id],
           \A x \in Editors \ {e}, id \in Customs : Wrote(x, id) => Wrote(x, id)'
    PROVE  ClosedIsDue'
<1> SUFFICES ASSUME NEW id \in Customs, id \notin contended', \A x \in Editors : ~Wrote(x, id)'
             PROVE  files'[id] = due'[id]
  BY DEF ClosedIsDue
<1>1. edit[e] \in Edits
  BY DEF ProfileInv, EditsTyped
<1>2. CASE id \in Affects(edit[e])
  BY <1>2
<1>3. CASE id \notin Affects(edit[e])
  <2>1. ~Wrote(e, id)
    <3>1. edit[e].op \in {"create", "duplicate", "update"} => edit[e].to \in Affects(edit[e])
      BY <1>1, AffectsOf
    <3> QED BY <1>3, <3>1 DEF Wrote
  <2>2. id \notin contended
    BY <1>3
  <2>3. files[id] = due[id]
    BY <2>1, <2>2 DEF ProfileInv, ClosedIsDue
  <2>4. Promised(edit[e])[id] = due[id]
    BY <1>3 DEF Promised
  <2> QED BY <1>3, <2>3, <2>4
<1> QED BY <1>2, <1>3

-----------------------------------------------------------------------------
(* An edit that is no longer alone is otherwise the same.                  *)
LEMMA NoLongerAlone ==
    ASSUME NEW t \in Edits, t.op \notin {"none", "over"}, NEW b \in BOOLEAN
    PROVE  /\ [t EXCEPT !.alone = b] \in Edits /\ Affects([t EXCEPT !.alone = b]) = Affects(t)
           /\ [t EXCEPT !.alone = b].op = t.op /\ [t EXCEPT !.alone = b].at = t.at
           /\ [t EXCEPT !.alone = b].alone = b
           /\ t.op # "delete" => [t EXCEPT !.alone = b].to = t.to
           /\ t.op = "update" => [t EXCEPT !.alone = b].from = t.from
<1> DEFINE u == [t EXCEPT !.alone = b]
<1>1. /\ u \in Edits /\ u.op = t.op /\ u.at = t.at /\ u.alone = b
      /\ t.op # "delete" => u.to = t.to
      /\ t.op \in {"update", "delete"} => u.from = t.from
  <2>1. CASE t.op = "create"
    BY <2>1 DEF Edits
  <2>2. CASE t.op = "duplicate"
    BY <2>2 DEF Edits
  <2>3. CASE t.op = "update"
    BY <2>3 DEF Edits
  <2>4. CASE t.op = "delete"
    BY <2>4 DEF Edits
  <2> QED BY <2>1, <2>2, <2>3, <2>4, AffectsOf
<1>2. t.op \in {"create", "duplicate", "update", "delete"}
  BY AffectsOf
<1> HIDE DEF u
<1>3. Affects(u) = Affects(t)
  BY <1>1, <1>2, AffectsOf
<1> QED BY <1>1, <1>3 DEF u

LEMMA BeginInv == ASSUME ProfileInv, NEW e \in Editors, Begin(e) PROVE ProfileInv'
<1>1. PICK task \in Tasks :
        /\ edit' = [x \in Editors |->
              IF x = e THEN [task EXCEPT !.alone =
                                ({y \in Editors : Affects(edit[y]) \cap Affects(task) # {}} = {})]
              ELSE IF x \in {y \in Editors : Affects(edit[y]) \cap Affects(task) # {}}
              THEN [edit[x] EXCEPT !.alone = FALSE] ELSE edit[x]]
        /\ edit[e] = Idle /\ UNCHANGED <<files, due, contended>>
  BY DEF Begin
<1> DEFINE others == {y \in Editors : Affects(edit[y]) \cap Affects(task) # {}}
<1>2. /\ edit'[e] = [task EXCEPT !.alone = (others = {})]
      /\ \A x \in Editors \ {e} : edit'[x] = IF x \in others THEN [edit[x] EXCEPT !.alone = FALSE]
                                              ELSE edit[x]
  BY <1>1
<1>3. /\ task \in Edits /\ task.at \in {"get", "check"} /\ task.op \in {"create", "duplicate", "update", "delete"}
      /\ [task EXCEPT !.alone = (others = {})] \in Edits
  <2> HIDE DEF others
  <2>1. CASE task \in [op : {"create"}, at : {"check"}, to : Customs, content : Contents, alone : {TRUE}]
    BY <2>1 DEF Edits, Writing
  <2>2. CASE task \in [op : {"duplicate"}, at : {"get"}, from : ProfileIds, to : Customs, alone : {TRUE}]
    BY <2>2 DEF Edits, Writing
  <2>3. CASE task \in [op : {"update"}, at : {"get"}, from : ProfileIds, to : Customs, content : Contents, alone : {TRUE}]
    BY <2>3 DEF Edits, Writing
  <2>4. CASE task \in [op : {"delete"}, at : {"get"}, from : ProfileIds, alone : {TRUE}]
    BY <2>4 DEF Edits, Writing
  <2> QED BY <2>1, <2>2, <2>3, <2>4 DEF Tasks
<1>4. /\ edit'[e] \in Edits /\ Affects(edit'[e]) = Affects(task) /\ edit'[e].op = task.op
      /\ edit'[e].at = task.at /\ edit'[e].alone = (others = {})
  <2> DEFINE b == others = {}
  <2>1. b \in BOOLEAN /\ edit'[e] = [task EXCEPT !.alone = b]
    BY <1>2
  <2> HIDE DEF b
  <2>2. /\ edit'[e] \in Edits /\ Affects(edit'[e]) = Affects(task) /\ edit'[e].op = task.op
        /\ edit'[e].at = task.at /\ edit'[e].alone = b
    BY <1>3, <2>1, NoLongerAlone
  <2> QED BY <2>2 DEF b
<1> HIDE DEF others
<1>5. ASSUME NEW x \in Editors \ {e}
      PROVE  /\ edit'[x] \in Edits /\ Affects(edit'[x]) = Affects(edit[x])
             /\ edit'[x].op = edit[x].op
             /\ edit[x].op \notin {"none", "over"} => edit'[x].at = edit[x].at
             /\ edit[x].op \in {"create", "duplicate", "update"} => edit'[x].to = edit[x].to
             /\ edit[x].op = "update" => edit'[x].from = edit[x].from
             /\ Editing(x)' /\ edit'[x].alone => edit'[x] = edit[x] /\ x \notin others
  <2>1. edit[x] \in Edits
    BY DEF ProfileInv, EditsTyped
  <2>2. x \in others => Affects(edit[x]) # {}
    BY DEF others
  <2>3. x \in others => edit[x].op \notin {"none", "over"}
    BY <2>1, <2>2, AffectsOf
  <2>4. CASE x \in others
    BY <1>2, <2>1, <2>3, <2>4, NoLongerAlone
  <2>5. CASE x \notin others
    BY <1>2, <2>1, <2>5
  <2> QED BY <2>4, <2>5
<1>6. EditsTyped'
  <2>1. edit' \in [Editors -> Edits]
    BY <1>1, <1>4, <1>5
  <2>2. ASSUME NEW x \in Editors, edit'[x].op = "update", edit'[x].at = "unlink"
        PROVE  edit'[x].to # edit'[x].from
    <3>1. x # e
      BY <1>3, <1>4, <2>2
    <3> QED BY <1>5, <2>2, <3>1 DEF ProfileInv, EditsTyped
  <2> QED BY <1>1, <2>1, <2>2 DEF ProfileInv, EditsTyped
<1>7. LoneKnows'
  <2>1. ASSUME NEW x \in Editors, Editing(x)', edit'[x].alone
        PROVE  /\ \A y \in Editors \ {x} : Affects(edit'[y]) \cap Affects(edit'[x]) = {}
               /\ edit'[x].at # "lost"
               /\ edit'[x].at = "fill" => files'[edit'[x].to] = "empty"
               /\ edit'[x].op = "update" /\ edit'[x].at = "unlink" => files'[edit'[x].to] = edit'[x].content
    <3>1. CASE x = e
      <4>1. others = {}
        BY <1>4, <2>1, <3>1
      <4>2. \A y \in Editors \ {e} : Affects(edit[y]) \cap Affects(task) = {}
        BY <4>1 DEF others
      <4> QED BY <1>3, <1>4, <1>5, <3>1, <4>2
    <3>2. CASE x # e
      <4>1. edit'[x] = edit[x] /\ x \notin others
        BY <1>5, <2>1, <3>2
      <4>2. Affects(edit[x]) \cap Affects(task) = {}
        BY <4>1 DEF others
      <4>3. Editing(x) /\ edit[x].alone
        BY <2>1, <4>1 DEF Editing
      <4>4. /\ \A y \in Editors \ {x} : Affects(edit[y]) \cap Affects(edit[x]) = {}
            /\ edit[x].at # "lost"
            /\ edit[x].at = "fill" => files[edit[x].to] = "empty"
            /\ edit[x].op = "update" /\ edit[x].at = "unlink" => files[edit[x].to] = edit[x].content
        BY <4>3 DEF ProfileInv, LoneKnows
      <4>5. ASSUME NEW y \in Editors \ {x} PROVE Affects(edit'[y]) \cap Affects(edit'[x]) = {}
        <5>1. CASE y = e
          BY <1>4, <4>1, <4>2, <5>1
        <5>2. CASE y # e
          BY <1>5, <4>1, <4>4, <5>2
        <5> QED BY <5>1, <5>2
      <4> QED BY <1>1, <4>1, <4>4, <4>5
    <3> QED BY <3>1, <3>2
  <2> QED BY <2>1 DEF LoneKnows
<1>8. ClosedIsDue'
  <2>1. \A x \in Editors, id \in Customs : Wrote(x, id) => Wrote(x, id)'
    <3> SUFFICES ASSUME NEW x \in Editors, NEW id \in Customs, Wrote(x, id) PROVE Wrote(x, id)'
      OBVIOUS
    <3>1. x # e
      BY <1>1 DEF Wrote, Idle
    <3> QED BY <1>5, <3>1 DEF Wrote
  <2> QED BY <1>1, <2>1 DEF ProfileInv, ClosedIsDue
<1> QED BY <1>6, <1>7, <1>8 DEF ProfileInv

-----------------------------------------------------------------------------
(* A step of e that goes on, or is refused, without having opened a file.  *)
LEMMA StepsOn ==
    ASSUME ProfileInv, NEW e \in Editors, NEW t \in Edits, edit' = [edit EXCEPT ![e] = t],
           Affects(t) \subseteq Affects(edit[e]),
           t.op \notin {"none", "over"} => t.alone = edit[e].alone /\ t.at \in {"check", "open", "unlink"},
           t.op = "update" /\ t.at = "unlink" => FALSE,
           \A id \in Customs : ~Wrote(e, id), Editing(e),
           UNCHANGED <<files, due, contended>>
    PROVE  ProfileInv'
<1>1. edit'[e] = t /\ \A x \in Editors \ {e} : edit'[x] = edit[x]
  BY DEF ProfileInv, EditsTyped
<1>2. EditsTyped'
  BY <1>1 DEF ProfileInv, EditsTyped
<1>3. LoneKnows'
  <2>1. ASSUME NEW x \in Editors, Editing(x)', edit'[x].alone
        PROVE  /\ \A y \in Editors \ {x} : Affects(edit'[y]) \cap Affects(edit'[x]) = {}
               /\ edit'[x].at # "lost"
               /\ edit'[x].at = "fill" => files'[edit'[x].to] = "empty"
               /\ edit'[x].op = "update" /\ edit'[x].at = "unlink" => files'[edit'[x].to] = edit'[x].content
    <3>1. CASE x = e
      <4>1. edit[e].alone /\ t.at \in {"check", "open", "unlink"}
        BY <1>1, <2>1, <3>1 DEF Editing
      <4>2. \A y \in Editors \ {e} : Affects(edit[y]) \cap Affects(edit[e]) = {}
        BY <4>1 DEF ProfileInv, LoneKnows
      <4> QED BY <1>1, <3>1, <4>1, <4>2
    <3>2. CASE x # e
      <4>1. Editing(x) /\ edit[x].alone /\ edit'[x] = edit[x]
        BY <1>1, <2>1, <3>2 DEF Editing
      <4> QED BY <1>1, <3>2, <4>1, OthersKnow
    <3> QED BY <3>1, <3>2
  <2> QED BY <2>1 DEF LoneKnows
<1>4. ClosedIsDue'
  <2>1. \A x \in Editors, id \in Customs : Wrote(x, id) => Wrote(x, id)'
    BY <1>1 DEF Wrote
  <2> QED BY <2>1 DEF ProfileInv, ClosedIsDue
<1> QED BY <1>2, <1>3, <1>4 DEF ProfileInv

LEMMA GetInv == ASSUME ProfileInv, NEW e \in Editors, Get(e) \/ Check(e) PROVE ProfileInv'
<1>1. edit[e] \in Edits /\ Editing(e) /\ UNCHANGED <<files, due, contended>>
  BY DEF ProfileInv, EditsTyped, Get, Check
<1>2. edit[e].at \in {"get", "check"} /\ \A id \in Customs : ~Wrote(e, id)
  BY DEF Get, Check, Wrote
<1>3. ASSUME Refused(e) PROVE ProfileInv'
  <2>1. [op |-> "over"] \in Edits /\ Affects([op |-> "over"]) = {}
    <3>1. [op |-> "over"] \in Edits
      BY DEF Edits
    <3> QED BY <3>1, AffectsOf
  <2> QED BY <1>1, <1>2, <1>3, <2>1, StepsOn DEF Refused
<1>4. ASSUME NEW step \in {"check", "open", "unlink"}, Proceeds(e, step), [edit[e] EXCEPT !.at = step] \in Edits,
             edit[e].op = "update" => step # "unlink"
      PROVE  ProfileInv'
  <2> DEFINE t == [edit[e] EXCEPT !.at = step]
  <2>1. /\ t.op = edit[e].op /\ t.at = step /\ t.alone = edit[e].alone
        /\ edit[e].op \in {"create", "duplicate", "update"} => t.to = edit[e].to
        /\ edit[e].op \in {"update", "delete"} => t.from = edit[e].from
    BY <1>1, <1>4 DEF Edits, Editing
  <2>2. edit' = [edit EXCEPT ![e] = t]
    BY <1>4 DEF Proceeds
  <2> HIDE DEF t
  <2>3. t \in Edits
    BY <1>4 DEF t
  <2>4. Affects(t) \subseteq Affects(edit[e])
    BY <1>1, <2>1, <2>3, AffectsOf
  <2> QED BY <1>1, <1>2, <1>4, <2>1, <2>2, <2>3, <2>4, StepsOn
<1>5. CASE Get(e)
  <2>1. CASE Refused(e)
    BY <1>3, <2>1
  <2>2. CASE ~Refused(e) /\ edit[e].op = "duplicate"
    <3> DEFINE t == [op |-> "duplicate", at |-> "check", to |-> edit[e].to,
                     content |-> Content(edit[e].from), alone |-> edit[e].alone]
    <3>1. edit' = [edit EXCEPT ![e] = t] /\ Listed(edit[e].from) /\ edit[e].at = "get"
      BY <1>5, <2>2 DEF Get
    <3>2. edit[e].from \in ProfileIds /\ edit[e].to \in Customs /\ edit[e].alone \in BOOLEAN
      BY <1>1, <2>2, <3>1 DEF Edits, Writing
    <3>3. Content(edit[e].from) \in Contents
      BY <3>1, <3>2, ShippedAssumption DEF Content, Listed, ProfileIds
    <3>4. t \in Edits /\ t.op = "duplicate" /\ t.at = "check" /\ t.alone = edit[e].alone /\ t.to = edit[e].to
      BY <3>2, <3>3 DEF Edits, Writing
    <3> HIDE DEF t
    <3>5. Affects(t) = Affects(edit[e])
      BY <1>1, <2>2, <3>4, AffectsOf
    <3> QED BY <1>1, <1>2, <3>1, <3>4, <3>5, StepsOn
  <2>3. CASE ~Refused(e) /\ edit[e].op = "delete"
    <3>1. Proceeds(e, "unlink") /\ edit[e].at = "get"
      BY <1>5, <2>3 DEF Get
    <3>2. [edit[e] EXCEPT !.at = "unlink"] \in Edits
      BY <1>1, <2>3 DEF Edits
    <3> QED BY <1>4, <2>3, <3>1, <3>2
  <2>4. CASE ~Refused(e) /\ edit[e].op = "update"
    <3>1. Proceeds(e, "open") \/ Proceeds(e, "check")
      BY <1>5, <2>4 DEF Get
    <3>2. [edit[e] EXCEPT !.at = "open"] \in Edits /\ [edit[e] EXCEPT !.at = "check"] \in Edits
      BY <1>1, <2>4 DEF Edits, Writing
    <3> QED BY <1>4, <2>4, <3>1, <3>2
  <2>5. edit[e].op \in {"duplicate", "update", "delete"}
    BY <1>1, <1>5 DEF Get, Editing, Edits, Writing
  <2> QED BY <2>1, <2>2, <2>3, <2>4, <2>5
<1>6. CASE Check(e)
  <2>1. edit[e].op \in {"create", "duplicate", "update"} /\ (Refused(e) \/ Proceeds(e, "open"))
    BY <1>1, <1>6 DEF Check, Edits, Editing
  <2>2. [edit[e] EXCEPT !.at = "open"] \in Edits
    <3>1. CASE edit[e].op \in {"create", "duplicate"}
      BY <1>1, <1>6, <3>1 DEF Check, Edits, Writing
    <3>2. CASE edit[e].op = "update"
      BY <1>1, <1>6, <3>2 DEF Check, Edits, Writing
    <3> QED BY <2>1, <3>1, <3>2
  <2> QED BY <1>3, <1>4, <2>1, <2>2
<1> QED BY <1>5, <1>6

-----------------------------------------------------------------------------
Held == Contents \cup {"absent", "empty", "torn"}

(* A step of e at the file of its new id, after which it is not over.      *)
LEMMA GoesOn ==
    ASSUME ProfileInv, NEW e \in Editors, Editing(e),
           edit[e].op \in {"create", "duplicate", "update"}, edit[e].at \in {"open", "fill", "lost"},
           NEW step \in {"fill", "unlink"}, Proceeds(e, step),
           step = "unlink" => edit[e].op = "update" /\ edit[e].to # edit[e].from,
           files' \in [Customs -> Held],
           \A id \in Customs \ {edit[e].to} : files'[id] = files[id],
           edit[e].alone /\ step = "fill" => files'[edit[e].to] = "empty",
           edit[e].alone /\ step = "unlink" => files'[edit[e].to] = edit[e].content,
           UNCHANGED <<due, contended>>
    PROVE  ProfileInv'
<1> DEFINE t == [edit[e] EXCEPT !.at = step]
<1>1. edit[e] \in Edits
  BY DEF ProfileInv, EditsTyped
<1>2. /\ t \in Edits /\ t.op = edit[e].op /\ t.at = step /\ t.alone = edit[e].alone
      /\ t.to = edit[e].to /\ t.op # "delete" /\ t.content = edit[e].content
      /\ edit[e].op = "update" => t.from = edit[e].from
  <2>1. CASE edit[e].op \in {"create", "duplicate"}
    BY <1>1, <2>1 DEF Edits, Writing
  <2>2. CASE edit[e].op = "update"
    BY <1>1, <2>2 DEF Edits, Writing
  <2> QED BY <2>1, <2>2
<1>3. edit' = [edit EXCEPT ![e] = t]
  BY DEF Proceeds
<1> HIDE DEF t
<1>4. edit'[e] = t /\ \A x \in Editors \ {e} : edit'[x] = edit[x]
  BY <1>3 DEF ProfileInv, EditsTyped
<1>5. Affects(t) = Affects(edit[e]) /\ edit[e].to \in Affects(edit[e])
  BY <1>1, <1>2, AffectsOf
<1>6. EditsTyped'
  <2>1. edit' \in [Editors -> Edits]
    BY <1>2, <1>3 DEF ProfileInv, EditsTyped
  <2>2. \A x \in Editors : edit'[x].op = "update" /\ edit'[x].at = "unlink" => edit'[x].to # edit'[x].from
    BY <1>2, <1>4 DEF ProfileInv, EditsTyped
  <2> QED BY <2>1, <2>2 DEF ProfileInv, EditsTyped, Held
<1>7. LoneKnows'
  <2>1. ASSUME NEW x \in Editors, Editing(x)', edit'[x].alone
        PROVE  /\ \A y \in Editors \ {x} : Affects(edit'[y]) \cap Affects(edit'[x]) = {}
               /\ edit'[x].at # "lost"
               /\ edit'[x].at = "fill" => files'[edit'[x].to] = "empty"
               /\ edit'[x].op = "update" /\ edit'[x].at = "unlink" => files'[edit'[x].to] = edit'[x].content
    <3>1. CASE x = e
      <4>1. edit[e].alone
        BY <1>2, <1>4, <2>1, <3>1
      <4>2. \A y \in Editors \ {e} : Affects(edit[y]) \cap Affects(edit[e]) = {}
        BY <4>1 DEF ProfileInv, LoneKnows
      <4> QED BY <1>2, <1>4, <1>5, <3>1, <4>1, <4>2
    <3>2. CASE x # e
      <4>1. Editing(x) /\ edit[x].alone /\ edit'[x] = edit[x]
        BY <1>4, <2>1, <3>2 DEF Editing
      <4> QED BY <1>4, <1>5, <3>2, <4>1, OthersKnow
    <3> QED BY <3>1, <3>2
  <2> QED BY <2>1 DEF LoneKnows
<1>8. ClosedIsDue'
  <2>1. \A x \in Editors, id \in Customs : Wrote(x, id) => Wrote(x, id)'
    BY <1>2, <1>4 DEF Wrote
  <2>2. \A id \in Customs : id = edit[e].to => Wrote(e, id)'
    BY <1>2, <1>4 DEF Wrote
  <2> QED BY <2>1, <2>2 DEF ProfileInv, ClosedIsDue
<1> QED BY <1>6, <1>7, <1>8 DEF ProfileInv

(* A step that ends e: it may make other edits lose the file they fill.    *)
LEMMA IsOver ==
    ASSUME ProfileInv, NEW e \in Editors, Editing(e), edit'[e] = [op |-> "over"],
           edit' \in [Editors -> Edits], files' \in [Customs -> Held],
           \A x \in Editors \ {e} :
              \/ edit'[x] = edit[x]
              \/ /\ ~edit[x].alone /\ Editing(x) /\ edit[x].at = "fill"
                 /\ edit'[x] = [edit[x] EXCEPT !.at = "lost"],
           due' = (IF edit[e].alone THEN Promised(edit[e]) ELSE due),
           contended' = (IF edit[e].alone THEN contended \ Affects(edit[e])
                         ELSE contended \cup Affects(edit[e])),
           \A id \in Customs \ Affects(edit[e]) : files'[id] = files[id],
           edit[e].alone => \A id \in Customs \cap Affects(edit[e]) : files'[id] = Promised(edit[e])[id]
    PROVE  ProfileInv'
<1>1. edit[e] \in Edits /\ \A x \in Editors : edit[x] \in Edits
  BY DEF ProfileInv, EditsTyped
<1>2. [op |-> "over"] \in Edits /\ Affects(edit'[e]) = {}
  <2>1. [op |-> "over"] \in Edits
    BY DEF Edits
  <2> QED BY <2>1, AffectsOf
<1>3. ASSUME NEW x \in Editors \ {e}
      PROVE  /\ Affects(edit'[x]) = Affects(edit[x])
             /\ Editing(x)' /\ edit'[x].alone => edit'[x] = edit[x]
             /\ edit'[x] # edit[x] => /\ edit'[x].at = "lost" /\ edit'[x].op = edit[x].op
                                      /\ edit'[x].to = edit[x].to
  <2>1. CASE edit'[x] = edit[x]
    BY <2>1
  <2>2. CASE edit'[x] # edit[x]
    <3>1. /\ ~edit[x].alone /\ Editing(x) /\ edit[x].at = "fill"
          /\ edit'[x] = [edit[x] EXCEPT !.at = "lost"] /\ edit'[x] \in Edits
      BY <2>2
    <3>2. edit[x].op \in {"create", "duplicate", "update"}
      BY <1>1, <3>1 DEF Edits, Editing
    <3>3. /\ edit'[x].op = edit[x].op /\ edit'[x].at = "lost" /\ edit'[x].to = edit[x].to
          /\ edit'[x].alone = edit[x].alone
          /\ edit[x].op = "update" => edit'[x].from = edit[x].from
      <4>1. CASE edit[x].op \in {"create", "duplicate"}
        BY <1>1, <3>1, <4>1 DEF Edits, Writing
      <4>2. CASE edit[x].op = "update"
        BY <1>1, <3>1, <4>2 DEF Edits, Writing
      <4> QED BY <3>2, <4>1, <4>2
    <3>4. Affects(edit'[x]) = Affects(edit[x])
      <4> DEFINE t == edit[x]
                 u == edit'[x]
      <4>1. /\ t \in Edits /\ u \in Edits /\ t.op = u.op /\ t.op \in {"create", "duplicate", "update"}
            /\ t.to = u.to /\ (t.op = "update" => t.from = u.from)
        BY <1>1, <3>1, <3>2, <3>3
      <4> HIDE DEF t, u
      <4>2. Affects(t) = Affects(u)
        BY <4>1, SameIds
      <4> QED BY <4>2 DEF t, u
    <3> QED BY <3>1, <3>3, <3>4
  <2> QED BY <2>1, <2>2
<1>4. EditsTyped'
  <2>1. contended' \subseteq ProfileIds
    <3>1. Affects(edit[e]) \subseteq ProfileIds
      <4>1. edit[e].op \in {"create", "duplicate", "update"} => edit[e].to \in ProfileIds
        BY <1>1 DEF Edits, ProfileIds
      <4>2. edit[e].op \in {"update", "delete"} => edit[e].from \in ProfileIds
        BY <1>1 DEF Edits
      <4> QED BY <1>1, <4>1, <4>2, AffectsOf
    <3> QED BY <3>1 DEF ProfileInv, EditsTyped
  <2>2. ASSUME NEW x \in Editors, edit'[x].op = "update", edit'[x].at = "unlink"
        PROVE  edit'[x].to # edit'[x].from
    <3>1. x # e
      BY <2>2
    <3>2. edit'[x] = edit[x]
      BY <1>3, <2>2, <3>1
    <3> QED BY <2>2, <3>2 DEF ProfileInv, EditsTyped
  <2> QED BY <2>1, <2>2 DEF EditsTyped, Held
<1>5. LoneKnows'
  <2>1. ASSUME NEW x \in Editors, Editing(x)', edit'[x].alone
        PROVE  /\ \A y \in Editors \ {x} : Affects(edit'[y]) \cap Affects(edit'[x]) = {}
               /\ edit'[x].at # "lost"
               /\ edit'[x].at = "fill" => files'[edit'[x].to] = "empty"
               /\ edit'[x].op = "update" /\ edit'[x].at = "unlink" => files'[edit'[x].to] = edit'[x].content
    <3>1. x # e
      BY <2>1 DEF Editing
    <3>2. edit'[x] = edit[x] /\ Editing(x) /\ edit[x].alone
      BY <1>3, <2>1, <3>1 DEF Editing
    <3>3. \A y \in Editors \ {e} : Affects(edit'[y]) \subseteq Affects(edit[y])
      BY <1>3
    <3> QED BY <1>2, <3>1, <3>2, <3>3, OthersKnow
  <2> QED BY <2>1 DEF LoneKnows
<1>6. \A x \in Editors \ {e}, id \in Customs : Wrote(x, id) => Wrote(x, id)'
  <2> SUFFICES ASSUME NEW x \in Editors \ {e}, NEW id \in Customs, Wrote(x, id) PROVE Wrote(x, id)'
    OBVIOUS
  <2>1. CASE edit'[x] = edit[x]
    BY <2>1 DEF Wrote
  <2>2. CASE edit'[x] # edit[x]
    BY <1>3, <2>2 DEF Wrote
  <2> QED BY <2>1, <2>2
<1>7. ClosedIsDue'
  BY <1>6, EndsKeeps
<1> QED BY <1>4, <1>5, <1>7 DEF ProfileInv

-----------------------------------------------------------------------------
LEMMA OpenInv == ASSUME ProfileInv, NEW e \in Editors, OpenFile(e) PROVE ProfileInv'
<1>1. edit[e] \in Edits /\ Editing(e) /\ edit[e].at = "open" /\ Proceeds(e, "fill")
      /\ files' = [files EXCEPT ![edit[e].to] = "empty"] /\ UNCHANGED <<due, contended>>
  BY DEF ProfileInv, EditsTyped, OpenFile
<1>2. edit[e].op \in {"create", "duplicate", "update"} /\ edit[e].to \in Customs
  <2>1. edit[e].op \in {"create", "duplicate", "update"}
    BY <1>1 DEF Edits, Editing
  <2> QED BY <1>1, <2>1 DEF Edits
<1>3. /\ files' \in [Customs -> Held] /\ files'[edit[e].to] = "empty"
      /\ \A id \in Customs \ {edit[e].to} : files'[id] = files[id]
  BY <1>1, <1>2 DEF ProfileInv, EditsTyped, Held
<1> QED BY <1>1, <1>2, <1>3, GoesOn

LEMMA FillInv == ASSUME ProfileInv, NEW e \in Editors, FillFile(e) \/ FillLost(e) PROVE ProfileInv'
<1>1. edit[e] \in Edits /\ Editing(e) /\ edit[e].at \in {"fill", "lost"}
  BY DEF ProfileInv, EditsTyped, FillFile, FillLost
<1>2. edit[e].op \in {"create", "duplicate", "update"}
  BY <1>1 DEF Edits, Editing
<1>3. edit[e].to \in Customs /\ edit[e].content \in Contents
  <2>1. CASE edit[e].op \in {"create", "duplicate"}
    BY <1>1, <2>1 DEF Edits
  <2>2. CASE edit[e].op = "update"
    BY <1>1, <2>2 DEF Edits
  <2> QED BY <1>2, <2>1, <2>2
<1>4. /\ files' \in [Customs -> Held]
      /\ \A id \in Customs \ {edit[e].to} : files'[id] = files[id]
      /\ edit[e].alone => files'[edit[e].to] = edit[e].content
  <2>1. CASE FillFile(e)
    <3>1. PICK held \in {edit[e].content} \cup (IF files[edit[e].to] = "empty" THEN {} ELSE {"torn"}) :
            files' = [files EXCEPT ![edit[e].to] = held]
      BY <2>1 DEF FillFile
    <3>2. edit[e].alone => files[edit[e].to] = "empty"
      BY <1>1, <2>1 DEF ProfileInv, LoneKnows, FillFile
    <3>3. held \in Held /\ (edit[e].alone => held = edit[e].content)
      BY <1>3, <3>1, <3>2 DEF Held
    <3> QED BY <1>3, <3>1, <3>3 DEF ProfileInv, EditsTyped, Held
  <2>2. CASE FillLost(e)
    <3>1. ~edit[e].alone /\ files' = files
      BY <1>1, <2>2 DEF ProfileInv, LoneKnows, FillLost
    <3> QED BY <3>1 DEF ProfileInv, EditsTyped, Held
  <2> QED BY <2>1, <2>2
<1>5. CASE edit[e].op = "update" /\ edit[e].to # edit[e].from
  <2>1. Proceeds(e, "unlink") /\ UNCHANGED <<due, contended>>
    BY <1>5 DEF FillFile, FillLost
  <2> QED BY <1>1, <1>2, <1>4, <1>5, <2>1, GoesOn
<1>6. CASE edit[e].op # "update" \/ edit[e].to = edit[e].from
  <2>1. Ends(e)
    BY <1>6 DEF FillFile, FillLost
  <2>2. /\ edit'[e] = [op |-> "over"] /\ edit' \in [Editors -> Edits]
        /\ \A x \in Editors \ {e} : edit'[x] = edit[x]
    <3>1. [op |-> "over"] \in Edits
      BY DEF Edits
    <3> QED BY <2>1, <3>1 DEF Ends, ProfileInv, EditsTyped
  <2>3. Affects(edit[e]) = {edit[e].to}
    BY <1>1, <1>2, <1>6, AffectsOf
  <2>4. edit[e].alone => \A id \in Customs \cap Affects(edit[e]) : files'[id] = Promised(edit[e])[id]
    <3> SUFFICES ASSUME edit[e].alone PROVE files'[edit[e].to] = Promised(edit[e])[edit[e].to]
      BY <2>3
    <3>1. Promised(edit[e])[edit[e].to] = edit[e].content
      BY <1>2, <1>3, <2>3 DEF Promised
    <3> QED BY <1>4, <3>1
  <2> QED BY <1>1, <1>4, <2>1, <2>2, <2>3, <2>4, IsOver DEF Ends
<1> QED BY <1>5, <1>6

LEMMA UnlinkInv == ASSUME ProfileInv, NEW e \in Editors, Unlink(e) PROVE ProfileInv'
<1> DEFINE writers == {x \in Editors : Editing(x) /\ edit[x].at = "fill" /\ edit[x].to = edit[e].from}
<1>1. /\ edit[e] \in Edits /\ Editing(e) /\ edit[e].at = "unlink"
      /\ files' = [files EXCEPT ![edit[e].from] = "absent"]
      /\ edit' = [x \in Editors |-> IF x = e THEN [op |-> "over"]
                                    ELSE IF x \in writers THEN [edit[x] EXCEPT !.at = "lost"]
                                    ELSE edit[x]]
      /\ due' = IF edit[e].alone THEN Promised(edit[e]) ELSE due
      /\ contended' = IF edit[e].alone THEN contended \ Affects(edit[e])
                      ELSE contended \cup Affects(edit[e])
  BY DEF ProfileInv, EditsTyped, Unlink
<1>2. edit[e].op \in {"update", "delete"}
  BY <1>1 DEF Edits, Editing, Writing
<1>3. edit[e].from \in Affects(edit[e])
  BY <1>1, <1>2, AffectsOf
<1>4. /\ files' \in [Customs -> Held]
      /\ \A id \in Customs \ {edit[e].from} : files'[id] = files[id]
      /\ edit[e].from \in Customs => files'[edit[e].from] = "absent"
  BY <1>1 DEF ProfileInv, EditsTyped, Held
<1>5. ASSUME NEW x \in writers, x # e
      PROVE  /\ ~edit[x].alone /\ [edit[x] EXCEPT !.at = "lost"] \in Edits
  <2>1. edit[x] \in Edits /\ Editing(x) /\ edit[x].at = "fill" /\ edit[x].to = edit[e].from
    BY <1>5 DEF ProfileInv, EditsTyped
  <2>2. edit[x].op \in {"create", "duplicate", "update"}
    BY <2>1 DEF Edits, Editing
  <2>3. edit[e].from \in Affects(edit[x])
    BY <2>1, <2>2, AffectsOf
  <2>4. ~edit[x].alone
    BY <1>3, <1>5, <2>1, <2>3 DEF ProfileInv, LoneKnows
  <2>5. [edit[x] EXCEPT !.at = "lost"] \in Edits
    <3>1. CASE edit[x].op \in {"create", "duplicate"}
      BY <2>1, <3>1 DEF Edits, Writing
    <3>2. CASE edit[x].op = "update"
      BY <2>1, <3>2 DEF Edits, Writing
    <3> QED BY <2>2, <3>1, <3>2
  <2> QED BY <2>4, <2>5
<1>6. /\ edit'[e] = [op |-> "over"]
      /\ \A x \in Editors \ {e} :
            \/ edit'[x] = edit[x]
            \/ /\ ~edit[x].alone /\ Editing(x) /\ edit[x].at = "fill"
               /\ edit'[x] = [edit[x] EXCEPT !.at = "lost"]
  BY <1>1, <1>5
<1>7. edit' \in [Editors -> Edits]
  <2>1. [op |-> "over"] \in Edits
    BY DEF Edits
  <2> HIDE DEF writers
  <2>2. \A x \in Editors : edit'[x] \in Edits
    BY <1>1, <1>5, <2>1 DEF ProfileInv, EditsTyped
  <2> QED BY <1>1, <2>2
<1>8. edit[e].alone => \A id \in Customs \cap Affects(edit[e]) : files'[id] = Promised(edit[e])[id]
  <2> SUFFICES ASSUME edit[e].alone, NEW id \in Customs, id \in Affects(edit[e])
               PROVE  files'[id] = Promised(edit[e])[id]
    OBVIOUS
  <2>1. CASE edit[e].op = "delete"
    <3>1. id = edit[e].from
      BY <1>1, <2>1, AffectsOf
    <3>2. Promised(edit[e])[id] = "absent"
      BY <2>1 DEF Promised
    <3> QED BY <1>4, <3>1, <3>2
  <2>2. CASE edit[e].op = "update"
    <3>1. id \in {edit[e].from, edit[e].to} /\ edit[e].to # edit[e].from
      BY <1>1, <2>2, AffectsOf DEF ProfileInv, EditsTyped
    <3>2. files[edit[e].to] = edit[e].content
      BY <1>1, <2>2 DEF ProfileInv, LoneKnows
    <3>3. CASE id = edit[e].to
      <4>1. Promised(edit[e])[id] = edit[e].content
        BY <2>2, <3>3 DEF Promised
      <4> QED BY <1>4, <3>1, <3>2, <3>3, <4>1
    <3>4. CASE id = edit[e].from
      <4>1. Promised(edit[e])[id] = "absent"
        BY <3>1, <3>4 DEF Promised
      <4> QED BY <1>4, <3>4, <4>1
    <3> QED BY <3>1, <3>3, <3>4
  <2> QED BY <1>2, <2>1, <2>2
<1>9. \A id \in Customs \ Affects(edit[e]) : files'[id] = files[id]
  BY <1>3, <1>4
<1> HIDE DEF writers
<1> QED BY <1>1, <1>4, <1>6, <1>7, <1>8, <1>9, IsOver

LEMMA DieInv == ASSUME ProfileInv, Die PROVE ProfileInv'
<1>1. /\ contended' = contended \cup UNION {Affects(edit[e]) \cap Customs : e \in Editors}
      /\ edit' = [e \in Editors |-> IF Editing(e) THEN [op |-> "over"] ELSE edit[e]]
      /\ UNCHANGED <<files, due>>
  BY DEF Die
<1>2. \A e \in Editors : edit[e] \in Edits /\ edit'[e].op \in {"none", "over"} /\ edit'[e] \in Edits
  <2>1. [op |-> "over"] \in Edits
    BY DEF Edits
  <2> QED BY <1>1, <2>1 DEF ProfileInv, EditsTyped, Editing
<1>3. EditsTyped'
  <2>1. \A e \in Editors : edit'[e].op # "update"
    BY <1>2
  <2>2. edit' \in [Editors -> Edits]
    BY <1>1, <1>2
  <2>3. contended' \subseteq ProfileIds
    BY <1>1 DEF ProfileInv, EditsTyped, ProfileIds
  <2> QED BY <1>1, <2>1, <2>2, <2>3 DEF ProfileInv, EditsTyped
<1>4. LoneKnows'
  BY <1>2 DEF LoneKnows, Editing
<1>5. ClosedIsDue'
  <2> SUFFICES ASSUME NEW id \in Customs, id \notin contended' PROVE files[id] = due[id]
    BY <1>1 DEF ClosedIsDue
  <2>1. ASSUME NEW e \in Editors PROVE ~Wrote(e, id)
    <3>1. id \notin Affects(edit[e])
      BY <1>1
    <3>2. edit[e].op \in {"create", "duplicate", "update"} => edit[e].to \in Affects(edit[e])
      BY <1>2, AffectsOf
    <3> QED BY <3>1, <3>2 DEF Wrote
  <2> QED BY <1>1, <2>1 DEF ProfileInv, ClosedIsDue
<1> QED BY <1>3, <1>4, <1>5 DEF ProfileInv

-----------------------------------------------------------------------------
(* When no edit is under way every profile says what the last edit that    *)
(* was alone and not interrupted promised.                                 *)
THEOREM ProfilesAreKept == ProfileSpec => []ProfilesKept
<1>1. ProfileInv /\ [ProfileNext]_profileVars => ProfileInv'
  <2> SUFFICES ASSUME ProfileInv, [ProfileNext]_profileVars PROVE ProfileInv'
    OBVIOUS
  <2>1. CASE UNCHANGED profileVars
    BY <2>1 DEF profileVars, ProfileInv, EditsTyped, LoneKnows, ClosedIsDue, Editing, Wrote
  <2> QED BY <2>1, BeginInv, GetInv, OpenInv, FillInv, UnlinkInv, DieInv DEF ProfileNext
<1>2. ProfileInv => ProfilesKept
  BY DEF ProfileInv, ClosedIsDue, ProfilesKept, Wrote, Editing
<1> QED BY <1>1, <1>2, ProfileInitInv, PTL DEF ProfileSpec
=============================================================================
