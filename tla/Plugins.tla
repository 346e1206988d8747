------------------------------- MODULE Plugins ------------------------------
(***************************************************************************)
(* The plugins in memory and the settings of their tools in the database.  *)
(* A scan of the plugin directory empties the registry and fills it again  *)
(* with fresh settings.  POST /plugins/reload does so in a thread, beside  *)
(* everything else; POST /tools/discover on the event loop, and then loads *)
(* the saved settings.  What a request reads may have changed when it      *)
(* writes: it writes only the columns it changed, but its own view of all  *)
(* of them into the live settings of the plugin it found first.            *)
(***************************************************************************)
EXTENDS Naturals, Sequences, FiniteSets

CONSTANTS Directories,       \* in sorted order, as [id, loads]
          Errands,           \* requests, each made once
          Wishes,            \* what an update asks for: some of enabled, timeout, rest
          Profiles,          \* scan profiles of a tool
          Conditions,        \* what a look at the machine may find
          Accepted,          \* target types a tool accepts, as <<tool, type>>
          DefaultTimeout, MaxScans

ASSUME PluginAssumption ==
    /\ Directories \in Seq({Directories[i] : i \in DOMAIN Directories})
    /\ \A i \in DOMAIN Directories : Directories[i].loads \in BOOLEAN
    /\ \A wish \in Wishes : "enabled" \in DOMAIN wish => wish.enabled \in BOOLEAN
    /\ Conditions \subseteq {"absent", "misfit", "unreadable", "healthy"} /\ MaxScans \in Nat

VARIABLES registry,    \* the plugins, as [scan, live]: the scan and the directory it
                       \* is from, and its settings
          failures,    \* directories reported as failed
          saved,       \* the rows of the tools that were ever discovered
          machine,     \* whether the tools are installed
          errand,      \* what a request does
          scans,       \* scans so far
          jobs,        \* the last plan
          unsynced,    \* history: tools with no discovery or update since they were loaded
          standing,    \* history: how the forgotten switches stand: those nobody set
                       \* since, and those a refused update set last
          cleared,     \* history: the timeouts taken back since
          contested,   \* history: tools two updates switched at once since
          raced        \* history: two requests overlapped

pluginVars == <<registry, failures, saved, machine, errand, scans, jobs,
                unsynced, standing, cleared, contested, raced>>
whys == <<unsynced, standing, cleared, contested>>

ToolNames == {Directories[i].id : i \in DOMAIN Directories}
Loadable == {d \in DOMAIN Directories : Directories[d].loads}
NoTimeout == 0

(* The other settings are columns copied as they are; "bad" names a file   *)
(* that does not pass.                                                     *)
Default == [enabled |-> TRUE, timeout |-> DefaultTimeout, rest |-> "none", disabled |-> {}]
NewTool == [enabled |-> TRUE, timeout |-> NoTimeout, rest |-> "none", disabled |-> {}]

-----------------------------------------------------------------------------
Plugged(of, t, x) == [u \in DOMAIN of \cup {t} |-> IF u = t THEN x ELSE of[u]]
Unplugged(of, t) == [u \in DOMAIN of \ {t} |-> of[u]]

(* discover_and_register(): one directory at a time, a bad or repeated one *)
(* is reported.                                                            *)

Registers(k, plugins) == Directories[k].loads /\ Directories[k].id \notin DOMAIN plugins

AllLoaded(scan) ==
    [t \in {Directories[k].id : k \in Loadable} |-> [scan |-> <<scan, 0>>, live |-> Default]]

AllOn == [t \in ToolNames |-> TRUE]

AllFailures ==
    {k \in DOMAIN Directories :
        k \notin Loadable \/ \E i \in Loadable : i < k /\ Directories[i].id = Directories[k].id}

-----------------------------------------------------------------------------
NoErrand == [op |-> "none"]
InProgress(r) == errand[r].op \notin {"none", "over"}
Scanning(r) == errand[r].op \in {"reload", "discover"} /\ errand[r].at \in DOMAIN Directories
Quiet == \A r \in Errands : ~InProgress(r)

(* A scan for discover() keeps the event loop to itself.                   *)
LoopFree(r) == \A q \in Errands \ {r} : ~(Scanning(q) /\ errand[q].op = "discover")

(* A look at the machine minds neither another one nor the profiles.       *)
Collide(op1, op2) == {op1, op2} \notin {{"refresh"}, {"refresh", "profile"}}

Over(r) == errand' = [errand EXCEPT ![r] = [op |-> "over"]]
Starts(r, task) ==
    /\ errand[r] = NoErrand
    /\ errand' = [errand EXCEPT ![r] = task]
    /\ raced' = (raced \/ \E q \in Errands : InProgress(q) /\ Collide(task.op, errand[q].op))

BeginScan(r) ==
    /\ LoopFree(r) /\ scans < MaxScans
    /\ \E op \in {"reload", "discover"} : Starts(r, [op |-> op, at |-> 1, scan |-> scans + 1])
    /\ scans' = scans + 1
    /\ registry' = <<>> /\ failures' = {}
    /\ unsynced' = ToolNames /\ standing' = AllOn /\ cleared' = <<>> /\ contested' = {}
    /\ UNCHANGED <<saved, machine, jobs>>

ScanDirectory(r) ==
    /\ Scanning(r)
    /\ LET k == errand[r].at IN
       /\ registry' = IF Registers(k, registry)
                      THEN Plugged(registry, Directories[k].id,
                                [scan |-> <<errand[r].scan, k>>, live |-> Default])
                      ELSE registry
       /\ failures' = IF Registers(k, registry) THEN failures ELSE failures \cup {k}
       /\ errand' = [errand EXCEPT ![r].at = @ + 1]
    /\ UNCHANGED <<saved, machine, scans, jobs, whys, raced>>

ReloadEnds(r) ==
    /\ errand[r].op = "reload" /\ ~Scanning(r)
    /\ Over(r)
    /\ UNCHANGED <<registry, failures, saved, machine, scans, jobs, whys, raced>>

-----------------------------------------------------------------------------
(* The live settings of a plugin, as long as it is the registered one.     *)
SameScan(plugins, t, scan) == t \in DOMAIN plugins /\ plugins[t].scan = scan

(* A timeout that is taken back leaves the live one as it is.              *)
WithSaved(live, view) ==
    [live EXCEPT !.timeout = IF view.timeout = NoTimeout THEN @ ELSE view.timeout,
                 !.rest = view.rest, !.disabled = view.disabled]

(* "Not enabled always wins".                                              *)
ToolStatus(enabled) ==
    CASE ~enabled -> "DISABLED"
      [] enabled /\ machine = "absent" -> "MISSING"
      [] enabled /\ machine = "misfit" -> "MISCONFIGURED"
      [] enabled /\ machine = "unreadable" -> "UNSUPPORTED_VERSION"
      [] enabled /\ machine = "healthy" -> "INSTALLED"

ToolRow(view, status) == [enabled |-> view.enabled, timeout |-> view.timeout, rest |-> view.rest,
                      disabled |-> view.disabled, status |-> status]

(* Only the columns that differ from what was read are written.            *)
Flushed(old, seenRow, view) ==
    LET mine == ToolRow(view, ToolStatus(view.enabled)) IN
    [c \in DOMAIN mine |-> IF mine[c] = seenRow[c] THEN old[c] ELSE mine[c]]

-----------------------------------------------------------------------------
(* discover(), after its scan: a row for every plugin, the saved settings  *)
(* into the plugin, and a look at the machine.                             *)
DiscoverReads(r) ==
    /\ errand[r].op = "discover" /\ ~Scanning(r) /\ LoopFree(r)
    /\ errand' = [errand EXCEPT ![r] = [op |-> "sync", found |-> registry, rows |-> saved]]
    /\ UNCHANGED <<registry, failures, saved, machine, scans, jobs, whys, raced>>

(* Mutant: the saved settings are left where they are.                     *)
AppliedByUpdateOnly(live, view) == live
SyncApplied(live, view) == WithSaved(live, view)

(* The name of a tool is unique: an insert that comes second fails, and    *)
(* nothing of the request is kept.                                         *)
DiscoverWrites(r) ==
    LET found == errand[r].found
        known == errand[r].rows
        View(t) == IF t \in DOMAIN known THEN known[t] ELSE NewTool
        clash == \E t \in DOMAIN found : t \notin DOMAIN known /\ t \in DOMAIN saved
    IN  /\ errand[r].op = "sync" /\ LoopFree(r)
        /\ Over(r)
        /\ IF clash THEN UNCHANGED <<registry, saved, unsynced>>
           ELSE /\ saved' = [t \in DOMAIN saved \cup DOMAIN found |->
                                IF t \notin DOMAIN found THEN saved[t]
                                ELSE IF t \in DOMAIN known THEN Flushed(saved[t], known[t], known[t])
                                ELSE ToolRow(NewTool, ToolStatus(TRUE))]
                /\ registry' = [t \in DOMAIN registry |->
                                   IF t \in DOMAIN found /\ SameScan(registry, t, found[t].scan)
                                   THEN [registry[t] EXCEPT !.live = SyncApplied(@, View(t))]
                                   ELSE registry[t]]
                /\ unsynced' = unsynced \ DOMAIN found
        /\ UNCHANGED <<failures, machine, scans, jobs, standing, cleared, contested, raced>>

-----------------------------------------------------------------------------
(* An update that switches its tool, from when it read the row on.         *)
Switches(q, t) == q.op \in {"update", "switched"} /\ q.tool = t /\ "enabled" \in DOMAIN q.wish

(* A request for one tool finds its row and its plugin first.              *)
Finds(r, op, t, wish) ==
    /\ LoopFree(r) /\ t \in DOMAIN saved \cap DOMAIN registry
    /\ Starts(r, [op |-> op, tool |-> t, scan |-> registry[t].scan,
                  seen |-> saved[t], wish |-> wish])
    /\ contested' = IF /\ op = "update" /\ "enabled" \in DOMAIN wish
                       /\ \E q \in Errands : Switches(errand[q], t)
                    THEN contested \cup {t} ELSE contested

ToolReads(r) ==
    /\ \E t \in ToolNames :
          \/ \E wish \in Wishes : Finds(r, "update", t, wish)
          \/ \E p \in Profiles, on \in BOOLEAN : Finds(r, "profile", t, <<p, on>>)
          \/ Finds(r, "refresh", t, <<>>)
    /\ UNCHANGED <<registry, failures, saved, machine, scans, jobs, unsynced, standing, cleared>>

(* The row as the request's session has it.                                *)
Wanted(q, field) == IF field \in DOMAIN q.wish THEN q.wish[field] ELSE q.seen[field]
UpdateView(q) ==
    [q.seen EXCEPT !.enabled = Wanted(q, "enabled"), !.timeout = Wanted(q, "timeout"),
                   !.rest = Wanted(q, "rest")]

(* update_configuration() switches the plugin before it checks the rest.   *)
UpdateSwitches(r) ==
    LET q == errand[r]
        refused == Wanted(q, "rest") = "bad"
        switches == "enabled" \in DOMAIN q.wish /\ SameScan(registry, q.tool, q.scan)
    IN  /\ q.op = "update" /\ LoopFree(r)
        /\ registry' = IF switches
                       THEN [registry EXCEPT ![q.tool].live.enabled = q.wish.enabled]
                       ELSE registry
        /\ IF refused THEN Over(r) ELSE errand' = [errand EXCEPT ![r].op = "switched"]
        /\ standing' = IF refused /\ switches
                       THEN Plugged(standing, q.tool, q.wish.enabled) ELSE standing
        /\ UNCHANGED <<failures, saved, machine, scans, jobs, unsynced, cleared, contested, raced>>

UpdateWrites(r) ==
    LET q == errand[r]
        t == q.tool
        view == UpdateView(q)
    IN  /\ q.op = "switched" /\ LoopFree(r)
        /\ Over(r)
        /\ saved' = [saved EXCEPT ![t] = Flushed(@, q.seen, view)]
        /\ registry' = IF SameScan(registry, t, q.scan)
                       THEN [registry EXCEPT ![t].live = WithSaved(@, view)] ELSE registry
        /\ unsynced' = unsynced \ {t}
        /\ standing' = IF "enabled" \in DOMAIN q.wish /\ SameScan(registry, t, q.scan)
                       THEN Unplugged(standing, t) ELSE standing
        /\ cleared' = IF view.timeout # NoTimeout THEN Unplugged(cleared, t)
                      ELSE IF q.seen.timeout # NoTimeout /\ t \notin unsynced
                      THEN Plugged(cleared, t, q.seen.timeout) ELSE cleared
        /\ UNCHANGED <<failures, machine, scans, jobs, contested, raced>>

(* set_profile_enabled(): the whole list is read and written.              *)
ProfileWrites(r) ==
    LET q == errand[r]
        list == IF q.wish[2] THEN q.seen.disabled \ {q.wish[1]} ELSE q.seen.disabled \cup {q.wish[1]}
    IN  /\ q.op = "profile" /\ LoopFree(r)
        /\ Over(r)
        /\ saved' = [saved EXCEPT ![q.tool].disabled = IF list = q.seen.disabled THEN @ ELSE list]
        /\ registry' = IF SameScan(registry, q.tool, q.scan)
                       THEN [registry EXCEPT ![q.tool].live.disabled = list] ELSE registry
        /\ UNCHANGED <<failures, machine, scans, jobs, whys, raced>>

(* get_health(), refresh_tool(): the status alone.                         *)
RefreshWrites(r) ==
    /\ errand[r].op = "refresh" /\ LoopFree(r)
    /\ Over(r)
    /\ saved' = [saved EXCEPT ![errand[r].tool] = Flushed(@, errand[r].seen, errand[r].seen)]
    /\ UNCHANGED <<registry, failures, machine, scans, jobs, whys, raced>>

-----------------------------------------------------------------------------
(* A tool that is found and says its version is healthy, also when a file  *)
(* it is configured with is not there.                                     *)
Healthy == machine \in {"healthy", "misfit"}

(* ExecutionPlanner: a job for every pair of a target and a tool, which is *)
(* skipped when the tool is not there, not switched on, not healthy, or    *)
(* not made for the target.                                                *)
PlannedAnyway(t, type) ==                                              \* a mutant
    [tool |-> t, target |-> type,
     status |-> IF t \in DOMAIN registry /\ Healthy /\ <<t, type>> \in Accepted
                THEN "PENDING" ELSE "SKIPPED"]

Planned(t, type) ==
    [tool |-> t, target |-> type,
     status |-> IF /\ t \in DOMAIN registry /\ registry[t].live.enabled
                   /\ Healthy /\ <<t, type>> \in Accepted
                THEN "PENDING" ELSE "SKIPPED"]

Plan ==
    /\ LoopFree("planner")
    /\ \E ts \in SUBSET DOMAIN saved, types \in SUBSET {a[2] : a \in Accepted} :
          /\ ts # {} /\ types # {}
          /\ jobs' = {Planned(t, type) : t \in ts, type \in types}
    /\ UNCHANGED <<registry, failures, saved, machine, errand, scans, whys, raced>>

MachineChanges ==
    /\ machine' \in Conditions
    /\ UNCHANGED <<registry, failures, saved, errand, scans, jobs, whys, raced>>

(* A new process scans the directory before it serves a request.           *)
Restarted ==
    /\ scans < MaxScans
    /\ scans' = scans + 1
    /\ registry' = AllLoaded(scans + 1) /\ failures' = AllFailures
    /\ errand' = [r \in Errands |-> IF InProgress(r) THEN [op |-> "over"] ELSE errand[r]]
    /\ unsynced' = ToolNames /\ standing' = AllOn /\ cleared' = <<>> /\ contested' = {}
    /\ UNCHANGED <<saved, machine, jobs, raced>>

PluginInit ==
    /\ registry = AllLoaded(0) /\ failures = AllFailures
    /\ saved = <<>> /\ machine \in Conditions /\ scans = 0 /\ jobs = {}
    /\ errand = [r \in Errands |-> NoErrand]
    /\ unsynced = ToolNames /\ standing = AllOn /\ cleared = <<>>
    /\ contested = {} /\ raced = FALSE

PluginNext ==
    \/ \E r \in Errands :
          \/ BeginScan(r) \/ ScanDirectory(r) \/ ReloadEnds(r) \/ DiscoverReads(r) \/ DiscoverWrites(r)
          \/ ToolReads(r) \/ UpdateSwitches(r) \/ UpdateWrites(r) \/ ProfileWrites(r) \/ RefreshWrites(r)
    \/ Plan \/ MachineChanges \/ Restarted

PluginSpec == PluginInit /\ [][PluginNext]_pluginVars

-----------------------------------------------------------------------------
(* No discovery restores a switch: since the plugins were loaded it is on, *)
(* until an update sets it; one that is refused sets the plugin alone.     *)
SwitchedOn(t) == IF t \in DOMAIN standing THEN standing[t] ELSE saved[t].enabled

(* "makes persisted configuration actually persist": with no request under *)
(* way, and none that overlapped another one, every plugin that loads is   *)
(* there, once.  Since the last discovery or update of its tool it lives   *)
(* by the saved settings, but for a timeout that was taken back, which     *)
(* goes on; before that, by the defaults; and by its switch as above.      *)
LivesBySavedSettings ==
    (Quiet /\ ~raced) =>
        /\ DOMAIN registry = {Directories[k].id : k \in Loadable} /\ failures = AllFailures
        /\ \A t \in DOMAIN registry \cap DOMAIN saved :
              LET live == registry[t].live IN
              /\ live.enabled = SwitchedOn(t)
              /\ t \in unsynced => live.rest = Default.rest /\ live.timeout = DefaultTimeout
              /\ t \notin unsynced =>
                    /\ live.rest = saved[t].rest /\ live.disabled = saved[t].disabled
                    /\ live.timeout = IF t \in DOMAIN cleared THEN cleared[t]
                                      ELSE IF saved[t].timeout = NoTimeout THEN DefaultTimeout
                                      ELSE saved[t].timeout
              /\ (saved[t].status = "DISABLED") = ~saved[t].enabled

(* "records a SKIPPED job ... not currently registered, disabled": a plan  *)
(* runs the healthy, accepting tools whose plugin loads and which are      *)
(* switched on, and only those, also beside other requests and after two   *)
(* have overlapped.  It leaves some out only while the scan that began     *)
(* last is loading them; and only a tool that is being switched, or that   *)
(* two updates switched at once since it was loaded, may do otherwise.     *)
BeingLoaded == \E r \in Errands : Scanning(r) /\ errand[r].scan = scans
BeingSwitched(t) == \E r \in Errands : Switches(errand[r], t) /\ errand[r].op = "switched"

PlansAsSwitched ==
    [][jobs' # jobs =>
          \A j \in jobs' : j.tool \notin contested /\ ~BeingSwitched(j.tool) =>
              LET due == /\ SwitchedOn(j.tool) /\ Healthy /\ <<j.tool, j.target>> \in Accepted
                         /\ j.tool \in {Directories[k].id : k \in Loadable}
              IN  /\ j.status = "PENDING" => due
                  /\ due /\ ~BeingLoaded => j.status = "PENDING"]_pluginVars

(* "Never a runnable one for ... disabled", "the user's own choice": with  *)
(* no request under way, and the saved settings loaded, a tool whose row   *)
(* says that it is switched off is not run.                                *)
SkipsDisabled ==
    [][(jobs' # jobs /\ Quiet /\ ~raced) =>
          \A j \in jobs' : j.tool \notin unsynced /\ j.status = "PENDING" =>
              saved[j.tool].enabled]_pluginVars
=============================================================================
