----------------------------- MODULE ScanProfiles ----------------------------
(***************************************************************************)
(* ProfileManager: one file for every custom scan profile, one directory   *)
(* for those that ship with the plugin.  The routes are plain functions,   *)
(* so each edit runs in a thread of its own and looks at the files, opens  *)
(* one and fills it in separate steps.                                     *)
(***************************************************************************)
EXTENDS Naturals

CONSTANTS BuiltIns, Customs,   \* ids that ship, ids a user may take
          Contents, Shipped,   \* what a profile may say, and what the built-in ones say
          Editors              \* requests, each made once

ASSUME ShippedAssumption == Shipped \in Contents /\ BuiltIns \cap Customs = {}
                            /\ Contents \cap {"absent", "empty", "torn"} = {}

VARIABLES files,       \* what the file of a custom id holds
          edit,        \* what an editor does
          due,         \* what the file should hold
          contended    \* ids whose last edit was interrupted or not alone

profileVars == <<files, edit, due, contended>>

ProfileIds == BuiltIns \cup Customs
Idle == [op |-> "none"]
Editing(e) == edit[e].op \notin {"none", "over"}

(* An empty or a torn file is skipped, as if it were not there.            *)
Listed(id) == id \in BuiltIns \/ files[id] \in Contents
Content(id) == IF id \in BuiltIns THEN Shipped ELSE files[id]

(* The ids whose files an edit may write.                                  *)
Affects(task) ==
    CASE task.op \in {"create", "duplicate"} -> {task.to}
      [] task.op = "update" -> {task.from, task.to}
      [] task.op = "delete" -> {task.from}
      [] OTHER -> {}

-----------------------------------------------------------------------------
Tasks ==
    [op : {"create"}, at : {"check"}, to : Customs, content : Contents, alone : {TRUE}]
    \cup [op : {"duplicate"}, at : {"get"}, from : ProfileIds, to : Customs, alone : {TRUE}]
    \cup [op : {"update"}, at : {"get"}, from : ProfileIds, to : Customs, content : Contents, alone : {TRUE}]
    \cup [op : {"delete"}, at : {"get"}, from : ProfileIds, alone : {TRUE}]

Begin(e) ==
    /\ edit[e] = Idle
    /\ \E task \in Tasks :
          LET others == {x \in Editors : Affects(edit[x]) \cap Affects(task) # {}} IN
          edit' = [x \in Editors |->
                      IF x = e THEN [task EXCEPT !.alone = (others = {})]
                      ELSE IF x \in others THEN [edit[x] EXCEPT !.alone = FALSE] ELSE edit[x]]
    /\ UNCHANGED <<files, due, contended>>

Proceeds(e, step) == edit' = [edit EXCEPT ![e].at = step]

(* An edit that is refused writes nothing.                                 *)
Refused(e) == edit' = [edit EXCEPT ![e] = [op |-> "over"]]

(* get(): a built-in profile can only be duplicated.                       *)
Get(e) ==
    LET task == edit[e] IN
    /\ Editing(e) /\ task.at = "get"
    /\ IF ~Listed(task.from) \/ (task.op # "duplicate" /\ task.from \in BuiltIns)
       THEN Refused(e)
       ELSE IF task.op = "duplicate"
       THEN edit' = [edit EXCEPT ![e] = [op |-> "duplicate", at |-> "check", to |-> task.to,
                                         content |-> Content(task.from), alone |-> task.alone]]
       ELSE Proceeds(e, CASE task.op = "delete" -> "unlink"
                          [] task.op = "update" /\ task.to = task.from -> "open"
                          [] OTHER -> "check")
    /\ UNCHANGED <<files, due, contended>>

(* The id must be free; a profile of a built-in id is never written.       *)
Check(e) ==
    /\ Editing(e) /\ edit[e].at = "check"
    /\ IF Listed(edit[e].to) THEN Refused(e) ELSE Proceeds(e, "open")
    /\ UNCHANGED <<files, due, contended>>

(* write_text() truncates the file, and fills it.                          *)
OpenFile(e) ==
    /\ Editing(e) /\ edit[e].at = "open"
    /\ files' = [files EXCEPT ![edit[e].to] = "empty"]
    /\ Proceeds(e, "fill")
    /\ UNCHANGED <<due, contended>>

(* An edit that ends.  What it should have done is done at once.           *)
Promised(task) ==
    [id \in Customs |->
        CASE id \notin Affects(task) -> due[id]
          [] id \in Affects(task) /\ task.op # "delete" /\ id = task.to -> task.content
          [] OTHER -> "absent"]

Ends(e) ==
    LET task == edit[e] IN
    /\ edit' = [edit EXCEPT ![e] = [op |-> "over"]]
    /\ due' = IF task.alone THEN Promised(task) ELSE due
    /\ contended' = IF task.alone THEN contended \ Affects(task) ELSE contended \cup Affects(task)

(* Mutant: an update always deletes the file of the id it was asked for.    *)
FillFileThenUnlink(e) ==
    LET task == edit[e] IN
    /\ Editing(e) /\ task.at = "fill"
    /\ \E held \in {task.content} \cup (IF files[task.to] = "empty" THEN {} ELSE {"torn"}) :
          files' = [files EXCEPT ![task.to] = held]
    /\ IF task.op = "update"
       THEN Proceeds(e, "unlink") /\ UNCHANGED <<due, contended>>
       ELSE Ends(e)

(* What was written meanwhile may be longer, and stick out.                *)
FillFile(e) ==
    LET task == edit[e] IN
    /\ Editing(e) /\ task.at = "fill"
    /\ \E held \in {task.content} \cup (IF files[task.to] = "empty" THEN {} ELSE {"torn"}) :
          files' = [files EXCEPT ![task.to] = held]
    /\ IF task.op = "update" /\ task.to # task.from
       THEN Proceeds(e, "unlink") /\ UNCHANGED <<due, contended>>
       ELSE Ends(e)

(* A file that is unlinked while it is open: what is written to it is lost. *)
FillLost(e) ==
    LET task == edit[e] IN
    /\ Editing(e) /\ task.at = "lost"
    /\ IF task.op = "update" /\ task.to # task.from
       THEN Proceeds(e, "unlink") /\ UNCHANGED <<due, contended>>
       ELSE Ends(e)
    /\ UNCHANGED files

(* delete_custom(), and the old file of a profile that got another id.     *)
Unlink(e) ==
    LET task == edit[e]
        writers == {x \in Editors : Editing(x) /\ edit[x].at = "fill" /\ edit[x].to = task.from}
    IN  /\ Editing(e) /\ task.at = "unlink"
        /\ files' = [files EXCEPT ![task.from] = "absent"]
        /\ edit' = [x \in Editors |-> IF x = e THEN [op |-> "over"]
                                      ELSE IF x \in writers THEN [edit[x] EXCEPT !.at = "lost"]
                                      ELSE edit[x]]
        /\ due' = IF task.alone THEN Promised(task) ELSE due
        /\ contended' = IF task.alone THEN contended \ Affects(task) ELSE contended \cup Affects(task)

(* The process dies; what was opened stays as it is.                       *)
Die ==
    /\ \E e \in Editors : Editing(e)
    /\ contended' = contended \cup UNION {Affects(edit[e]) \cap Customs : e \in Editors}
    /\ edit' = [e \in Editors |-> IF Editing(e) THEN [op |-> "over"] ELSE edit[e]]
    /\ UNCHANGED <<files, due>>

ProfileInit ==
    /\ files \in [Customs -> {"absent"} \cup Contents]
    /\ due = files /\ contended = {}
    /\ edit = [e \in Editors |-> Idle]

ProfileNext ==
    \/ \E e \in Editors :
          \/ Begin(e) \/ Get(e) \/ Check(e) \/ OpenFile(e) \/ FillFile(e) \/ FillLost(e) \/ Unlink(e)
    \/ Die

ProfileSpec == ProfileInit /\ [][ProfileNext]_profileVars

-----------------------------------------------------------------------------
(* "a plugin reinstall or upgrade never touches user data": when no edit is *)
(* under way, every profile says what its last edit that was neither       *)
(* interrupted nor beside another one of the same id promised: a new one   *)
(* replaces none, a new id moves a profile, a refused edit leaves it.      *)
ProfilesKept ==
    (\A e \in Editors : ~Editing(e)) => \A id \in Customs \ contended : files[id] = due[id]
=============================================================================
