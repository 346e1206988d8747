------------------------------- MODULE Targets ------------------------------
(***************************************************************************)
(* TargetService: the targets of one assessment.  A request checks what it *)
(* is given against the targets it reads and writes afterwards; only the   *)
(* unique index on (assessment_id, target_value) sees what other sessions  *)
(* committed in between.                                                   *)
(***************************************************************************)
EXTENDS Naturals, Sequences, FiniteSets, SequencesExt

CONSTANTS Texts,        \* what users type
          Files,        \* files they import, as rows of a type and a text
          Users,        \* requests, each made once
          MaxTargets    \* bound on the targets ever created

ASSUME TargetAssumption ==
    MaxTargets \in Nat /\ \A f \in Files : f \in Seq(ToSet(f))

(* A text has a form and a name; texts that differ in case or spaces only  *)
(* have the same name; copies counts its "copy" marks.  "url" is an http(s) *)
(* URL with a host, "ref" another text with "://", "junk" no valid name.  *)
Forms == {"ipv4", "ipv6", "cidr", "url", "ref", "dotted", "label", "junk", "blank"}
Types == {"ipv4", "ipv6", "cidr", "url", "domain", "hostname"}
Address == {"ipv4", "ipv6", "cidr"}

VARIABLES targets,      \* the rows, by id
          asked,        \* what a request does
          created,      \* ids given so far
          mixed         \* history: a request updated a row whose type or value
                        \* another had changed since it read them

targetVars == <<targets, asked, created, mixed>>

-----------------------------------------------------------------------------
(* A digit is a letter to a host name: an IPv4 address passes for one.     *)
Valid(type, text) ==
    text.form \in CASE type = "ipv4" -> {"ipv4"}
                    [] type = "ipv6" -> {"ipv6"}
                    [] type = "cidr" -> Address
                    [] type = "url" -> {"url"}
                    [] type = "domain" -> {"ipv4", "dotted"}
                    [] type = "hostname" -> {"ipv4", "dotted", "label"}

(* An address taken for a range becomes the range of itself.               *)
Normal(type, text) == IF type = "cidr" THEN [text EXCEPT !.form = "cidr"] ELSE text

Detected(text) ==
    CASE text.form \in Address -> text.form
      [] text.form \in {"url", "ref"} -> "url"
      [] text.form = "dotted" -> "domain"
      [] OTHER -> "hostname"

(* "copy-" before an address makes a name of it.                           *)
Suffixed(text) == [text EXCEPT !.copies = @ + 1, !.form = IF @ = "ipv4" THEN "dotted" ELSE @]

Values(rows) == {rows[i].value : i \in DOMAIN rows}
Unused(value) == value \notin Values(targets)

-----------------------------------------------------------------------------
(* bulk_import(): a row is skipped, or counted as an error, a duplicate or *)
(* new.  A row without a type gets the type its text looks like.           *)
RowType(r) == IF r.type = "" THEN Detected(r.text) ELSE r.type
Skips(r) == r.text.form = "blank"
Fails(r) == r.type \notin Types \cup {""} \/ ~Valid(RowType(r), r.text)
NewTarget(type, value, origin) ==
    [type |-> type, value |-> value, origin |-> origin, enabled |-> TRUE]

(* Mutant: the values of the file itself are not looked at.                *)
ImportRepeats(known, found, r) ==
    IF Skips(r) \/ Fails(r) \/ Normal(RowType(r), r.text) \in known THEN found
    ELSE Append(found, NewTarget(RowType(r), Normal(RowType(r), r.text), "USER"))

ImportRow(known, found, r) ==
    IF \/ Skips(r) \/ Fails(r)
       \/ Normal(RowType(r), r.text) \in known \cup Values(found)
    THEN found
    ELSE Append(found, NewTarget(RowType(r), Normal(RowType(r), r.text), "USER"))

Imported(known, file) == FoldLeft(LAMBDA found, r : ImportRow(known, found, r), <<>>, file)

-----------------------------------------------------------------------------
NotAsked == [op |-> "none", id |-> 0, read |-> <<>>, new |-> <<>>, known |-> {}]
Answered == [NotAsked EXCEPT !.op = "answered"]
Asks(u, op, id, new) ==
    asked' = [asked EXCEPT ![u] =
                 [op |-> op, id |-> id, read |-> IF op = "update" THEN <<targets[id]>> ELSE <<>>,
                  new |-> new, known |-> Values(targets)]]

AsksToCreate(u) ==
    \E type \in Types, text \in Texts :
        /\ Valid(type, text) /\ Unused(Normal(type, text))
        /\ Asks(u, "insert", 0, <<NewTarget(type, Normal(type, text), "USER")>>)

(* A new type alone checks the old value again; neither, and nothing is    *)
(* checked.                                                                *)
AsksToUpdate(u) ==
    \E i \in DOMAIN targets, type \in Types, text \in Texts \cup Values(targets) :
        LET old == targets[i]
            same == type = old.type /\ text = old.value
            value == IF same THEN old.value ELSE Normal(type, text)
        IN  /\ text \in Texts \cup {old.value} /\ (same \/ Valid(type, text))
            /\ value = old.value \/ Unused(value)
            /\ \E enabled \in BOOLEAN :
                  Asks(u, "update", i, <<[old EXCEPT !.type = type, !.value = value,
                                                     !.enabled = enabled]>>)

(* An address or a range is copied under a given value only.               *)
AsksToDuplicate(u) ==
    \E i \in DOMAIN targets :
        LET old == targets[i]
            given == {Normal(old.type, text) : text \in {t \in Texts : Valid(old.type, t)}}
            suffixed == IF old.type \in Address THEN {} ELSE {Suffixed(old.value)}
        IN  \E value \in given \cup suffixed :
                /\ Unused(value)
                /\ Asks(u, "insert", 0, <<[old EXCEPT !.value = value, !.origin = "USER"]>>)

AsksToDelete(u) == \E i \in DOMAIN targets : Asks(u, "delete", i, <<>>)

AsksToImport(u) == \E f \in Files : Asks(u, "import", 0, Imported(Values(targets), f))

UserReads(u) ==
    /\ asked[u] = NotAsked
    /\ \/ AsksToCreate(u) \/ AsksToUpdate(u) \/ AsksToDuplicate(u)
       \/ AsksToDelete(u) \/ AsksToImport(u)
    /\ UNCHANGED <<targets, created, mixed>>

-----------------------------------------------------------------------------
DistinctValues(rows) == \A i, j \in DOMAIN rows : rows[i].value = rows[j].value => i = j

With(new) == [i \in DOMAIN targets \cup (created + 1 .. created + Len(new)) |->
                 IF i \in DOMAIN targets THEN targets[i] ELSE new[i - created]]

(* The ORM writes the columns that differ from what it read, and no other. *)
WriteColumns(row, q) ==
    [f \in DOMAIN row |-> IF q.new[1][f] = q.read[1][f] THEN row[f] ELSE q.new[1][f]]

(* A row that is gone cannot be updated; deleting it again does nothing.   *)
After(q) ==
    CASE q.op \in {"insert", "import"} -> With(q.new)
      [] q.op = "update" -> IF q.id \in DOMAIN targets THEN [targets EXCEPT ![q.id] = WriteColumns(@, q)]
                            ELSE targets
      [] q.op = "delete" -> [i \in DOMAIN targets \ {q.id} |-> targets[i]]

Mixes(q) ==
    /\ q.op = "update" /\ q.id \in DOMAIN targets
    /\ \E f \in {"type", "value"} : targets[q.id][f] # q.read[1][f]

(* The index refuses the request as a whole.                               *)
UserWrites(u) ==
    LET q == asked[u] IN
    /\ q.op \notin {"none", "answered"}
    /\ q.op \in {"insert", "import"} => created + Len(q.new) <= MaxTargets
    /\ targets' = IF DistinctValues(After(q)) THEN After(q) ELSE targets
    /\ created' = IF q.op \in {"insert", "import"} THEN created + Len(q.new) ELSE created
    /\ asked' = [asked EXCEPT ![u] = Answered]
    /\ mixed' = (mixed \/ Mixes(q))

(* _get_or_create_pipeline_target() takes a target as it finds it.         *)
PipelineAdds(text) ==
    /\ text.form = "url" /\ Unused(text) /\ created < MaxTargets
    /\ targets' = With(<<NewTarget("url", text, "PIPELINE")>>)
    /\ created' = created + 1
    /\ UNCHANGED <<asked, mixed>>

TargetInit ==
    /\ targets = <<>> /\ created = 0 /\ mixed = FALSE
    /\ asked = [u \in Users |-> NotAsked]

TargetNext ==
    \/ \E u \in Users : UserReads(u) \/ UserWrites(u)
    \/ \E text \in Texts : PipelineAdds(text)

TargetSpec == TargetInit /\ [][TargetNext]_targetVars

-----------------------------------------------------------------------------
(* Every check of a value against a type is made on what a request read:   *)
(* a target's value fits its type until two updates of one target overlap. *)
TargetTypeOK ==
    /\ DOMAIN targets \subseteq 1 .. created /\ created <= MaxTargets /\ mixed \in BOOLEAN
    /\ \A i \in DOMAIN targets :
          /\ targets[i].type \in Types
          /\ mixed \/ Valid(targets[i].type, targets[i].value)

(* "duplicates ... are skipped and counted, never erroring the whole       *)
(* import": an import adds every value it found to be new, whatever its    *)
(* file repeats -- unless another request took one of them after it read   *)
(* the targets, and then it adds none.                                     *)
ImportsAllUnlessRaced ==
    [][\A u \in Users : (asked[u].op = "import" /\ asked'[u] # asked[u]) =>
           IF Values(asked[u].new) \cap Values(targets) = {}
           THEN Values(targets') = Values(targets) \cup Values(asked[u].new)
           ELSE targets' = targets /\ ~(Values(targets) \subseteq asked[u].known)]_targetVars
=============================================================================
