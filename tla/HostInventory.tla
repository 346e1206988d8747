--------------------------- MODULE HostInventory ----------------------------
(***************************************************************************)
(* HostInventoryService.persist(): the jobs of one target merge what they  *)
(* found into the rows the target's earlier jobs left.  A row is looked up *)
(* by its fingerprint and inserted when there is none.  The session does   *)
(* not flush by itself: an insert waits for the next explicit flush or for *)
(* the commit, and a lookup does not see it before.  The first flush takes *)
(* SQLite's write lock and holds it to the commit, so the lookups before   *)
(* it read what may have changed by the time it writes.  Nothing keeps the *)
(* target from being deleted under a running job, or the job from being    *)
(* cancelled while it persists.                                            *)
(***************************************************************************)
EXTENDS Naturals, Sequences, FiniteSets, SequencesExt, Bags

CONSTANTS Executions,     \* jobs of one target
          Outputs,        \* what normalize() may return for one of them
          MaxAttempts     \* how often a job is run

(* An output has its hosts in order, each with at most one value of every  *)
(* identity signal and None for the others, its services, the products on  *)
(* them and the names of OS matches; and its observations, each about one  *)
(* of these hosts or, with index 0, about none.                            *)
None == "none"
IsSeq(s) == s \in Seq(ToSet(s))
IsOutput(out) ==
    /\ IsSeq(out.hosts) /\ IsSeq(out.observations)
    /\ \A h \in ToSet(out.hosts) : IsSeq(h.services) /\ IsSeq(h.os)

ASSUME InventoryAssumption == MaxAttempts \in Nat /\ \A out \in Outputs : IsOutput(out)

VARIABLES inventory,   \* the bag of the target's rows, each told by its unique columns
          firsts,      \* the execution links that say is_new, as <<execution, row>>
          phase,       \* where the job's persist() is
          output,      \* what it persists
          seen,        \* the inventory it read before its first flush
          attempts,    \* how often it was run
          suspect,     \* the jobs that wrote over an inventory changed since they read it
          deleted,     \* whether the target is gone
          interrupted  \* the jobs cancelled while they persist

inventoryVars ==
    <<inventory, firsts, phase, output, seen, attempts, suspect, deleted, interrupted>>

-----------------------------------------------------------------------------
(* MAC address before IP address before hostname; a host with none is      *)
(* skipped, and so is everything under it.                                 *)
HostFingerprint(h) ==
    IF h.mac # None THEN <<"mac", h.mac>>
    ELSE IF h.ip # None THEN <<"ip", h.ip>>
    ELSE IF h.name # None THEN <<"hostname", h.name>>
    ELSE <<>>

Row(kind, key) == <<kind, key>>
Linked == {"host", "observation"}        \* linked to the execution that saw them
FlushedAtOnce == {"host", "service", "observation", "orphan"}
NotUnique == {"os", "orphan"}            \* a nullable column of their key is NULL

(* The rows one host entry stands for, in the order they are looked up.    *)
HostRows(h) ==
    LET fp == HostFingerprint(h) IN
    IF fp = <<>> THEN <<>>
    ELSE <<Row("host", fp)>>
         \o (IF h.ip = None THEN <<>> ELSE <<Row("interface", <<fp, h.ip>>)>>)
         \o FlattenSeq([i \in DOMAIN h.services |->
                LET s == h.services[i] IN
                <<Row("service", <<fp, s.port>>)>>
                \o IF s.product = None THEN <<>>
                   ELSE <<Row("technology", <<fp, s.port, s.product>>)>>])
         \o [i \in DOMAIN h.os |-> Row("os", <<fp, h.os[i]>>)]

(* An observation is keyed by what it is called, whatever port it is about. *)
ObservationRow(out, o) ==
    LET fp == IF o.host \in DOMAIN out.hosts THEN HostFingerprint(out.hosts[o.host])
              ELSE <<>>
    IN  IF fp = <<>> THEN Row("orphan", o.title) ELSE Row("observation", <<fp, o.title>>)

RowsOf(out) ==
    FlattenSeq([i \in DOMAIN out.hosts |-> HostRows(out.hosts[i])])
    \o [i \in DOMAIN out.observations |-> ObservationRow(out, out.observations[i])]

(* An observation named twice is linked twice.  An address, a technology   *)
(* or a system is inserted twice unless a new row is flushed in between.   *)
FlushesAt(rows, k) ==
    /\ rows[k][1] \in FlushedAtOnce /\ ~BagIn(rows[k], inventory)
    /\ \A n \in 1 .. k - 1 : rows[n] # rows[k]

NamesTwice(rows) ==
    \E i, j \in DOMAIN rows :
        /\ i < j /\ rows[i] = rows[j]
        /\ \/ rows[i][1] = "observation"
           \/ /\ rows[i][1] \in {"interface", "technology", "os"}
              /\ \A k \in i .. j : ~FlushesAt(rows, k)

-----------------------------------------------------------------------------
(* One session: the rows it sees once it has written, its pending inserts, *)
(* the links it has added, and whether it still stands.                    *)

UniqueButHosts(row) == row[1] \notin NotUnique \cup {"host"}           \* a mutant
Unique(row) == row[1] \notin NotUnique
Copies(row, bag) == IF BagIn(row, bag) THEN bag[row] ELSE 0

Added(bag, rows) ==
    [row \in DOMAIN bag \cup ToSet(rows) |->
        Copies(row, bag) + Cardinality({i \in DOMAIN rows : rows[i] = row})]

Flush(w) ==
    LET after == Added(w.rows, w.pending) IN
    [w EXCEPT !.rows = after, !.pending = <<>>, !.wrote = TRUE,
              !.ok = @ /\ \A row \in ToSet(w.pending) : Unique(row) => Copies(row, after) = 1]

Pend(w, row) == [w EXCEPT !.pending = Append(@, row)]

Insert(w, row) == IF row[1] \in FlushedAtOnce THEN Flush(Pend(w, row)) ELSE Pend(w, row)

(* A host is linked once per run, an observation every time it is met.     *)
LinkEveryTime(w, e, row, isNew) ==                                 \* a mutant
    IF row[1] \notin Linked THEN w
    ELSE [Pend(w, Row("link", <<e, row>>)) EXCEPT
              !.touched = @ \cup {row},
              !.firsts = IF isNew THEN @ \cup {<<e, row>>} ELSE @]

Link(w, e, row, isNew) ==
    IF row[1] \notin Linked \/ (row[1] = "host" /\ row \in w.touched) THEN w
    ELSE [Pend(w, Row("link", <<e, row>>)) EXCEPT
              !.touched = @ \cup {row},
              !.firsts = IF isNew THEN @ \cup {<<e, row>>} ELSE @]

(* The rows an address or a service of a host is looked up among: those of *)
(* the database, and none that still waits for a flush.                    *)
Visible(w) == IF w.wrote THEN w.rows ELSE w.read

(* Mutant: the version of an operating system is compared with = NULL.     *)
MergeComparesNull(w, e, row) ==
    LET found == IF row[1] \in {"orphan", "os"} THEN 0 ELSE Copies(row, Visible(w)) IN
    IF ~w.ok \/ found > 1 THEN [w EXCEPT !.ok = FALSE]
    ELSE Link(IF found = 0 THEN Insert(w, row) ELSE w, e, row, found = 0)

Merge(w, e, row) ==
    LET found == IF row[1] = "orphan" THEN 0 ELSE Copies(row, Visible(w)) IN
    IF ~w.ok \/ found > 1 THEN [w EXCEPT !.ok = FALSE]   \* scalar_one_or_none() raises
    ELSE Link(IF found = 0 THEN Insert(w, row) ELSE w, e, row, found = 0)

Opened(e) ==
    [rows |-> inventory, read |-> seen[e], pending |-> <<>>, touched |-> {},
     firsts |-> {}, wrote |-> FALSE, ok |-> TRUE]

Session(e) ==
    Flush(FoldLeft(LAMBDA w, row : Merge(w, e, row), Opened(e), RowsOf(output[e])))

-----------------------------------------------------------------------------
Empty == [hosts |-> <<>>, observations |-> <<>>]

InventoryInit ==
    /\ inventory = EmptyBag /\ firsts = {} /\ suspect = {}
    /\ phase = [e \in Executions |-> "idle"]
    /\ output = [e \in Executions |-> Empty]
    /\ seen = [e \in Executions |-> EmptyBag]
    /\ attempts = [e \in Executions |-> 0]
    /\ deleted = FALSE /\ interrupted = {}

(* The job has run: persist() looks up its target and the first rows.  A   *)
(* job that failed, or was cancelled after its results were written, may   *)
(* run again; one that was running when its target went comes here too.    *)
ReadInventory(e) ==
    /\ phase[e] \in {"idle", "done", "failed"} /\ attempts[e] < MaxAttempts
    /\ \E out \in Outputs : output' = [output EXCEPT ![e] = out]
    /\ phase' = [phase EXCEPT ![e] = "reading"]
    /\ seen' = [seen EXCEPT ![e] = inventory]
    /\ attempts' = [attempts EXCEPT ![e] = @ + 1]
    /\ UNCHANGED <<inventory, firsts, suspect, deleted, interrupted>>

(* A cancel, or a shutdown, reaches the job at some await in persist(): a  *)
(* commit that was under way may still go through.                         *)
Interrupt(e) ==
    /\ phase[e] = "reading"
    /\ interrupted' = interrupted \cup {e}
    /\ UNCHANGED <<inventory, firsts, phase, output, seen, attempts, suspect, deleted>>

(* With the target go its jobs, their links, its hosts and all under them; *)
(* an observation about no host stays, told of no job.                     *)
DeleteTarget ==
    /\ ~deleted
    /\ deleted' = TRUE
    /\ inventory' = [row \in {r \in DOMAIN inventory : r[1] = "orphan"} |-> inventory[row]]
    /\ firsts' = {}
    /\ UNCHANGED <<phase, output, seen, attempts, suspect, interrupted>>

Persist(e) ==
    /\ phase[e] = "reading" /\ ~deleted
    /\ Session(e).ok
    /\ inventory' = Session(e).rows
    /\ firsts' = firsts \cup Session(e).firsts
    /\ phase' = [phase EXCEPT ![e] = "done"]
    /\ suspect' = IF seen[e] # inventory \/ NamesTwice(RowsOf(output[e]))
                  THEN suspect \cup {e} ELSE suspect
    /\ interrupted' = interrupted \ {e}
    /\ UNCHANGED <<output, seen, attempts, deleted>>

(* An error rolls everything back: the job's results are lost, and the job *)
(* ends FAILED, or CANCELLED.  Without the job's row persist() finds no    *)
(* target, or the raw output's row nothing to refer to; nobody can retry.  *)
RollBack(e) ==
    /\ phase[e] = "reading"
    /\ ~Session(e).ok \/ deleted \/ e \in interrupted
    /\ phase' = [phase EXCEPT ![e] = "failed"]
    /\ attempts' = IF deleted THEN [attempts EXCEPT ![e] = MaxAttempts] ELSE attempts
    /\ interrupted' = interrupted \ {e}
    /\ UNCHANGED <<inventory, firsts, output, seen, suspect, deleted>>

InventoryNext ==
    \/ \E e \in Executions : ReadInventory(e) \/ Interrupt(e) \/ Persist(e) \/ RollBack(e)
    \/ DeleteTarget

InventorySpec == InventoryInit /\ [][InventoryNext]_inventoryVars

-----------------------------------------------------------------------------
InventoryTypeOK ==
    /\ IsABag(inventory) /\ deleted \in BOOLEAN
    /\ suspect \subseteq Executions /\ interrupted \subseteq Executions
    /\ firsts \subseteq Executions \X DOMAIN inventory
    /\ phase \in [Executions -> {"idle", "reading", "done", "failed"}]
    /\ \A e \in Executions : /\ output[e] \in Outputs \cup {Empty} /\ IsABag(seen[e])
                             /\ attempts[e] \in 0 .. MaxAttempts

(* "is_new distinguishing first discovery from a re-confirmation": every   *)
(* host and observation was new to exactly one job, and has the link that  *)
(* says so, however the jobs' lookups and writes overlap.                  *)
DiscoveredOnce ==
    \A row \in BagToSet(inventory) : row[1] \in Linked =>
        /\ Cardinality({e \in Executions : <<e, row>> \in firsts}) = 1
        /\ \A e \in Executions : <<e, row>> \in firsts =>
              BagIn(Row("link", <<e, row>>), inventory)

(* A host's operating system is recorded twice only when two jobs looked   *)
(* for it at once, or one output names it twice: no unique key stops that, *)
(* its version being NULL.                                                 *)
OneRowPerSystem ==
    suspect = {} => \A row \in BagToSet(inventory) : row[1] = "os" => Copies(row, inventory) = 1

(* The ways an output is lost: it names something twice; another job wrote *)
(* since this one read; the job's results were written before; a host has  *)
(* an operating system twice, and then every scan that finds it again is   *)
(* lost; the job was cancelled while it persisted; or its target was       *)
(* deleted under it.                                                       *)
LosesOutputOnlyIf ==
    [][\A e \in Executions : phase[e] = "reading" /\ phase'[e] = "failed" =>
           \/ NamesTwice(RowsOf(output[e]))
           \/ seen[e] # inventory
           \/ \E row \in BagToSet(inventory) : row[1] = "link" /\ row[2][1] = e
           \/ \E row \in BagToSet(inventory) : row[1] = "os" /\ Copies(row, inventory) > 1
           \/ e \in interrupted
           \/ deleted
      ]_inventoryVars
=============================================================================
