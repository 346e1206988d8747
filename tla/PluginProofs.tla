----------------------------- MODULE PluginProofs ----------------------------
(***************************************************************************)
(* Two arguments, for any number of directories, tools, requests and scans.*)
(* While no two requests overlap the plugins live by the saved settings:   *)
(* as a request is alone, what it read is what there is when it writes     *)
(* (SettingsInv).  The switches hold out longer: a plan runs what was      *)
(* switched on also when requests overlap, because an update that switches *)
(* a plugin either is the only one, or its tool is contested, or its plugin*)
(* was replaced and nobody takes it for another's (PlanInv).               *)
(***************************************************************************)
EXTENDS Plugins, TLAPS

(* The settings of a plugin, and the row of a tool.                        *)
Timeouts == {NoTimeout, DefaultTimeout} \cup
            {wish.timeout : wish \in {w \in Wishes : "timeout" \in DOMAIN w}}
Rests == {"none"} \cup {wish.rest : wish \in {w \in Wishes : "rest" \in DOMAIN w}}
ToolStatuses == {"DISABLED", "MISSING", "MISCONFIGURED", "UNSUPPORTED_VERSION", "INSTALLED"}

Settings == [enabled : BOOLEAN, timeout : Timeouts, rest : Rests, disabled : SUBSET Profiles]
ToolRows == [enabled : BOOLEAN, timeout : Timeouts, rest : Rests, disabled : SUBSET Profiles,
             status : ToolStatuses]

(* "Not enabled always wins", and nothing else does: the status a look at  *)
(* the machine gives is DISABLED just for a tool that is not enabled.      *)
LEMMA StatusOfSwitch ==
    ASSUME machine \in Conditions, NEW enabled \in BOOLEAN
    PROVE  ToolStatus(enabled) \in ToolStatuses /\ (ToolStatus(enabled) = "DISABLED" <=> ~enabled)
BY PluginAssumption DEF ToolStatus, ToolStatuses

(* A flush writes a column only when the session changed it: the others    *)
(* keep what the row holds by then.                                        *)
LEMMA FlushedRow ==
    ASSUME machine \in Conditions, NEW old \in ToolRows, NEW seen \in ToolRows, NEW view \in ToolRows
    PROVE  LET row == Flushed(old, seen, view) IN
           /\ row \in ToolRows
           /\ row.enabled = IF view.enabled = seen.enabled THEN old.enabled ELSE view.enabled
           /\ row.timeout = IF view.timeout = seen.timeout THEN old.timeout ELSE view.timeout
           /\ row.rest = IF view.rest = seen.rest THEN old.rest ELSE view.rest
           /\ row.disabled = IF view.disabled = seen.disabled THEN old.disabled ELSE view.disabled
           /\ row.status = IF ToolStatus(view.enabled) = seen.status THEN old.status
                           ELSE ToolStatus(view.enabled)
<1>1. ToolStatus(view.enabled) \in ToolStatuses
  BY StatusOfSwitch DEF ToolRows
<1> QED BY <1>1 DEF Flushed, ToolRow, ToolRows

-----------------------------------------------------------------------------
(* What holds until two requests overlap.                                  *)
Plugs == [scan : Nat \X Nat, live : Settings]
SettingsTyped ==
    /\ DOMAIN registry \subseteq ToolNames /\ \A t \in DOMAIN registry : registry[t] \in Plugs
    /\ DOMAIN saved \subseteq ToolNames /\ \A t \in DOMAIN saved : saved[t] \in ToolRows
    /\ machine \in Conditions /\ scans \in Nat /\ DOMAIN errand = Errands

(* A scan or an update is alone; looks at the machine are not.             *)
NoneCollide ==
    \A q, r \in Errands : q # r /\ InProgress(q) /\ InProgress(r) =>
        ~Collide(errand[q].op, errand[r].op)

(* A scan has registered what the directories before this one hold.        *)
Loading(r) == errand[r].op \in {"reload", "discover"}
Reported(k) ==
    k \notin Loadable \/ \E i \in Loadable : i < k /\ Directories[i].id = Directories[k].id
LoadedUpTo(n) ==
    /\ DOMAIN registry = {Directories[k].id : k \in {i \in Loadable : i < n}}
    /\ failures = {k \in DOMAIN Directories : k < n /\ Reported(k)}
End == Len(Directories) + 1

(* While plugins are loaded nothing has been said of their settings.       *)
Loads ==
    /\ \A r \in Errands : Loading(r) =>
          /\ LoadedUpTo(errand[r].at)
          /\ unsynced = ToolNames /\ DOMAIN cleared = {}
    /\ (\A r \in Errands : ~Loading(r)) => LoadedUpTo(End)

Agree ==
    /\ \A t \in DOMAIN registry :
          /\ t \in unsynced => /\ registry[t].live.timeout = DefaultTimeout
                              /\ registry[t].live.rest = "none" /\ t \notin DOMAIN cleared
          /\ t \notin DOMAIN saved => t \in unsynced
    /\ \A t \in DOMAIN saved :
          /\ saved[t].status = "DISABLED" <=> ~saved[t].enabled
          /\ t \in DOMAIN cleared => saved[t].timeout = NoTimeout
    /\ \A t \in DOMAIN registry \cap DOMAIN saved :
          LET live == registry[t].live IN
          t \notin unsynced =>
              /\ live.rest = saved[t].rest /\ live.disabled = saved[t].disabled
              /\ live.timeout = IF t \in DOMAIN cleared THEN cleared[t]
                                ELSE IF saved[t].timeout = NoTimeout THEN DefaultTimeout
                                ELSE saved[t].timeout

(* What a request read is what there is, but for the status of its row.    *)
Reads(q, wishes) ==
    /\ q \in [op : {q.op}, tool : ToolNames, scan : Nat \X Nat, seen : ToolRows, wish : wishes]
    /\ q.tool \in DOMAIN saved /\ SameScan(registry, q.tool, q.scan)

Knows(r) ==
    LET q == errand[r] IN
    /\ q.op \in {"none", "over", "reload", "discover", "sync", "update", "switched", "profile", "refresh"}
    /\ Loading(r) => q \in [op : {"reload", "discover"}, at : 1 .. End, scan : Nat]
    /\ q.op = "sync" => q.found = registry /\ q.rows = saved
    /\ q.op \in {"update", "switched"} => Reads(q, Wishes) /\ q.seen = saved[q.tool]
    /\ q.op = "profile" => Reads(q, Profiles \X BOOLEAN) /\ q.seen.disabled = saved[q.tool].disabled
    /\ q.op = "refresh" => Reads(q, {<<>>}) /\ q.seen.enabled = saved[q.tool].enabled

SettingsInv == SettingsTyped /\ NoneCollide /\ Loads /\ Agree /\ \A r \in Errands : Knows(r)

-----------------------------------------------------------------------------
Alone(r) == \A q \in Errands : q # r => errand[q].op \in {"none", "over"}

(* A scan or an update that is under way is alone.                         *)
LEMMA Lonely ==
    ASSUME NoneCollide, NEW r \in Errands, InProgress(r), errand[r].op \notin {"refresh", "profile"}
    PROVE  Alone(r)
BY DEF NoneCollide, InProgress, Collide, Alone

(* The directories are a sequence, each of them with its tool.             *)
LEMMA DirectoryFacts ==
    /\ Len(Directories) \in Nat /\ DOMAIN Directories = 1 .. Len(Directories)
    /\ \A k \in DOMAIN Directories : Directories[k].id \in ToolNames
BY PluginAssumption DEF ToolNames

(* All the directories have been seen.                                     *)
LEMMA LoadedAll ==
    LoadedUpTo(End) <=> /\ DOMAIN registry = {Directories[k].id : k \in Loadable}
                        /\ failures = AllFailures
<1>1. \A k \in DOMAIN Directories : k < End
  BY DirectoryFacts DEF End
<1>2. {i \in Loadable : i < End} = Loadable
  BY <1>1 DEF Loadable
<1> QED BY <1>1, <1>2 DEF LoadedUpTo, AllFailures, Reported

(* A new process has loaded its plugins and nobody asks for anything.      *)
LEMMA InitSettings == PluginInit => SettingsInv
<1> SUFFICES ASSUME PluginInit PROVE SettingsInv
  OBVIOUS
<1>1. DOMAIN registry = {Directories[k].id : k \in Loadable} /\ DOMAIN saved = {}
  BY DEF PluginInit, AllLoaded
<1>2. \A t \in DOMAIN registry : registry[t] = [scan |-> <<0, 0>>, live |-> Default]
  BY DEF PluginInit, AllLoaded
<1>3. Default \in Settings
  BY DEF Default, Settings, Timeouts, Rests
<1>4. SettingsTyped
  BY <1>1, <1>2, <1>3, DirectoryFacts DEF SettingsTyped, Plugs, PluginInit, Loadable
<1>5. \A r \in Errands : errand[r].op = "none"
  BY DEF PluginInit, NoErrand
<1>6. Loads
  BY <1>1, <1>5, LoadedAll DEF Loads, Loading, PluginInit
<1>7. Agree
  BY <1>1, <1>2, DirectoryFacts DEF Agree, PluginInit, Default, Loadable
<1> QED BY <1>4, <1>5, <1>6, <1>7 DEF SettingsInv, NoneCollide, InProgress, Knows, Loading

(* A lone request that ends leaves none under way.                         *)
LEMMA AllOver ==
    ASSUME SettingsTyped, NEW r \in Errands, Alone(r), Over(r)
    PROVE  /\ DOMAIN errand' = Errands /\ \A q \in Errands : errand'[q].op \in {"none", "over"}
           /\ NoneCollide' /\ \A q \in Errands : Knows(q)' /\ ~Loading(q)'
<1>1. DOMAIN errand' = Errands /\ \A q \in Errands : errand'[q].op \in {"none", "over"}
  BY DEF SettingsTyped, Alone, Over
<1> QED BY <1>1 DEF NoneCollide, InProgress, Knows, Loading

(* A scan that begins empties the registry, and nothing is known of the    *)
(* settings any more.                                                      *)
LEMMA BeginInv ==
    ASSUME SettingsInv, NEW r \in Errands, BeginScan(r), ~raced'
    PROVE  SettingsInv'
<1> DEFINE n == scans + 1
<1>1. PICK op \in {"reload", "discover"} : Starts(r, [op |-> op, at |-> 1, scan |-> n])
  BY DEF BeginScan
<1>2. /\ errand'[r] = [op |-> op, at |-> 1, scan |-> n] /\ DOMAIN errand' = Errands
      /\ \A q \in Errands : q # r => errand'[q] = errand[q]
      /\ n \in Nat /\ errand[r].op = "none"
  BY <1>1 DEF Starts, SettingsInv, SettingsTyped, NoErrand
<1>3. \A q \in Errands : q # r => errand'[q].op \in {"none", "over"}
  BY <1>1, <1>2 DEF Starts, Collide, InProgress
<1>4. DOMAIN registry' = {} /\ failures' = {} /\ UNCHANGED <<saved, machine>> /\ scans' = n
  BY DEF BeginScan
<1>5. SettingsTyped'
  BY <1>2, <1>4 DEF SettingsInv, SettingsTyped
<1>6. LoadedUpTo(1)'
  BY <1>4, DirectoryFacts DEF LoadedUpTo, Loadable
<1>7. Loads'
  BY <1>2, <1>3, <1>6 DEF Loads, Loading, BeginScan
<1>8. Agree'
  <2>1. DOMAIN cleared' = {}
    BY DEF BeginScan
  <2> QED BY <1>4, <2>1 DEF Agree, SettingsInv
<1>9. NoneCollide' /\ \A q \in Errands : Knows(q)'
  <2>1. [op |-> op, at |-> 1, scan |-> n] \in [op : {"reload", "discover"}, at : 1 .. End, scan : Nat]
    BY <1>2, DirectoryFacts DEF End
  <2> QED BY <1>2, <1>3, <2>1 DEF NoneCollide, InProgress, Knows, Loading
<1> QED BY <1>5, <1>7, <1>8, <1>9 DEF SettingsInv

(* A directory is loaded, or reported.                                     *)
LEMMA DirectoryInv ==
    ASSUME SettingsInv, NEW r \in Errands, ScanDirectory(r)
    PROVE  SettingsInv'
<1>0. PICK k, t : k = errand[r].at /\ t = Directories[k].id
  OBVIOUS
<1>1. /\ Loading(r) /\ k \in DOMAIN Directories /\ errand[r].scan \in Nat
      /\ errand[r] \in [op : {"reload", "discover"}, at : 1 .. End, scan : Nat]
      /\ LoadedUpTo(k) /\ unsynced = ToolNames /\ DOMAIN cleared = {}
  BY <1>0 DEF SettingsInv, Loads, Knows, ScanDirectory, Scanning, Loading
<1>2. Alone(r)
  BY <1>1, Lonely DEF SettingsInv, InProgress, Loading
<1>3. /\ errand'[r] = [errand[r] EXCEPT !.at = k + 1] /\ DOMAIN errand' = Errands
      /\ \A q \in Errands : q # r => errand'[q] = errand[q]
  BY <1>0, <1>1 DEF ScanDirectory, SettingsInv, SettingsTyped
<1>4. /\ errand'[r] \in [op : {"reload", "discover"}, at : 1 .. End, scan : Nat]
      /\ errand'[r].at = k + 1 /\ errand'[r].op = errand[r].op
  <2>1. k + 1 \in 1 .. End
    BY <1>1, DirectoryFacts DEF End
  <2> QED BY <1>1, <1>3, <2>1
<1>5. /\ UNCHANGED <<saved, machine, scans, unsynced, cleared>>
      /\ IF Registers(k, registry)
         THEN /\ DOMAIN registry' = DOMAIN registry \cup {t} /\ failures' = failures
              /\ registry'[t] = [scan |-> <<errand[r].scan, k>>, live |-> Default]
              /\ \A u \in DOMAIN registry : u # t => registry'[u] = registry[u]
         ELSE registry' = registry /\ failures' = failures \cup {k}
  BY <1>0 DEF ScanDirectory, Plugged, whys
<1>6. t \in ToolNames /\ Default \in Settings
  BY <1>0, <1>1, DirectoryFacts DEF Default, Settings, Timeouts, Rests
<1>7. SettingsTyped'
  <2>1. [scan |-> <<errand[r].scan, k>>, live |-> Default] \in Plugs
    BY <1>1, <1>6, DirectoryFacts DEF Plugs
  <2>2. DOMAIN registry' \subseteq ToolNames /\ \A u \in DOMAIN registry' : registry'[u] \in Plugs
    BY <1>5, <1>6, <2>1 DEF SettingsInv, SettingsTyped
  <2> QED BY <1>3, <1>5, <2>2 DEF SettingsInv, SettingsTyped
<1>8. LoadedUpTo(k + 1)'
  <2>1. \A i \in DOMAIN Directories : i < k + 1 <=> i < k \/ i = k
    BY <1>1, DirectoryFacts
  <2>2. Registers(k, registry) <=> ~Reported(k)
    BY <1>0, <1>1, PluginAssumption DEF Registers, LoadedUpTo, Loadable, Reported
  <2>3. DOMAIN registry' = {Directories[j].id : j \in {i \in Loadable : i < k + 1}}
    <3>1. CASE k \in Loadable
      <4>1. {i \in Loadable : i < k + 1} = {i \in Loadable : i < k} \cup {k}
        BY <2>1, <3>1 DEF Loadable
      <4>2. Reported(k) => t \in DOMAIN registry
        BY <1>0, <1>1, <3>1 DEF LoadedUpTo, Reported
      <4>3. DOMAIN registry' = DOMAIN registry \cup {t}
        BY <1>5, <2>2, <4>2
      <4> QED BY <1>0, <1>1, <4>1, <4>3 DEF LoadedUpTo
    <3>2. CASE k \notin Loadable
      <4>1. {i \in Loadable : i < k + 1} = {i \in Loadable : i < k}
        BY <2>1, <3>2 DEF Loadable
      <4> QED BY <1>0, <1>1, <1>5, <2>2, <3>2, <4>1 DEF LoadedUpTo, Reported
    <3> QED BY <3>1, <3>2
  <2>4. failures' = {j \in DOMAIN Directories : j < k + 1 /\ Reported(j)}
    BY <1>1, <1>5, <2>1, <2>2 DEF LoadedUpTo
  <2> QED BY <2>3, <2>4 DEF LoadedUpTo
<1>9. Loads'
  <2>1. LoadedUpTo(errand[r].at)'
    BY <1>4, <1>8 DEF LoadedUpTo
  <2> QED BY <1>1, <1>2, <1>3, <1>4, <1>5, <2>1 DEF Loads, Loading, Alone
<1>10. Agree'
  <2>1. \A u \in DOMAIN registry' : /\ registry'[u].live.timeout = DefaultTimeout
                                    /\ registry'[u].live.rest = "none"
    BY <1>1, <1>5 DEF SettingsInv, Agree, SettingsTyped, Default
  <2>2. DOMAIN registry' \subseteq ToolNames
    BY <1>7 DEF SettingsTyped
  <2> QED BY <1>1, <1>5, <2>1, <2>2 DEF SettingsInv, Agree
<1>11. NoneCollide' /\ \A q \in Errands : Knows(q)'
  BY <1>1, <1>2, <1>3, <1>4 DEF NoneCollide, InProgress, Knows, Loading, Alone
<1> QED BY <1>7, <1>9, <1>10, <1>11 DEF SettingsInv

(* A reload ends with every directory seen.                                *)
LEMMA ReloadInv ==
    ASSUME SettingsInv, NEW r \in Errands, ReloadEnds(r)
    PROVE  SettingsInv'
<1>1. /\ Loading(r) /\ errand[r].at = End /\ LoadedUpTo(End) /\ InProgress(r)
      /\ UNCHANGED <<registry, failures, saved, machine, scans, jobs, unsynced, cleared>>
  BY DirectoryFacts DEF ReloadEnds, Scanning, SettingsInv, Loads, Knows, Loading, End, InProgress, whys
<1>2. Alone(r)
  BY <1>1, Lonely DEF SettingsInv, Loading
<1>3. /\ DOMAIN errand' = Errands /\ NoneCollide' /\ \A q \in Errands : Knows(q)' /\ ~Loading(q)'
  BY <1>2, AllOver DEF ReloadEnds, SettingsInv
<1>4. Loads'
  BY <1>1, <1>3 DEF Loads, LoadedUpTo
<1>5. Agree'
  BY <1>1 DEF SettingsInv, Agree
<1> QED BY <1>1, <1>3, <1>4, <1>5 DEF SettingsInv, SettingsTyped

(* A discovery has scanned, and reads the rows.                            *)
LEMMA DiscoverReadsInv ==
    ASSUME SettingsInv, NEW r \in Errands, DiscoverReads(r)
    PROVE  SettingsInv'
<1>1. /\ Loading(r) /\ errand[r].at = End /\ LoadedUpTo(End) /\ InProgress(r)
      /\ UNCHANGED <<registry, failures, saved, machine, scans, jobs, unsynced, cleared>>
  BY DirectoryFacts
     DEF DiscoverReads, Scanning, SettingsInv, Loads, Knows, Loading, End, InProgress, whys
<1>2. Alone(r)
  BY <1>1, Lonely DEF SettingsInv, Loading
<1>3. /\ errand'[r] = [op |-> "sync", found |-> registry, rows |-> saved]
      /\ DOMAIN errand' = Errands /\ \A q \in Errands : q # r => errand'[q] = errand[q]
  BY DEF DiscoverReads, SettingsInv, SettingsTyped
<1>4. NoneCollide' /\ \A q \in Errands : Knows(q)' /\ ~Loading(q)'
  BY <1>1, <1>2, <1>3 DEF NoneCollide, InProgress, Knows, Loading, Alone
<1>5. Loads'
  BY <1>1, <1>4 DEF Loads, LoadedUpTo
<1>6. Agree'
  BY <1>1 DEF SettingsInv, Agree
<1> QED BY <1>1, <1>3, <1>4, <1>5, <1>6 DEF SettingsInv, SettingsTyped

(* A discovery brings every tool's plugin and row together, but for the    *)
(* switch.                                                                 *)
LEMMA DiscoverWritesInv ==
    ASSUME SettingsInv, NEW r \in Errands, DiscoverWrites(r)
    PROVE  SettingsInv'
<1>0. SettingsTyped /\ Agree /\ Loads /\ NoneCollide
  BY DEF SettingsInv
<1>1. /\ errand[r].op = "sync" /\ errand[r].found = registry /\ errand[r].rows = saved
      /\ InProgress(r)
  BY DEF DiscoverWrites, Knows, InProgress, SettingsInv
<1>2. Alone(r)
  BY <1>0, <1>1, Lonely
<1>3. /\ DOMAIN errand' = Errands /\ NoneCollide' /\ \A q \in Errands : Knows(q)' /\ ~Loading(q)'
  BY <1>0, <1>2, AllOver DEF DiscoverWrites
<1>5. \A q \in Errands : ~Loading(q)
  BY <1>1, <1>2 DEF Alone, Loading
<1> DEFINE View(t) == IF t \in DOMAIN saved THEN saved[t] ELSE NewTool
<1>6. /\ saved' = [t \in DOMAIN saved \cup DOMAIN registry |->
                     IF t \notin DOMAIN registry THEN saved[t]
                     ELSE IF t \in DOMAIN saved THEN Flushed(saved[t], saved[t], saved[t])
                     ELSE ToolRow(NewTool, ToolStatus(TRUE))]
      /\ registry' = [t \in DOMAIN registry |->
                        IF t \in DOMAIN registry /\ SameScan(registry, t, registry[t].scan)
                        THEN [registry[t] EXCEPT !.live = SyncApplied(@, View(t))]
                        ELSE registry[t]]
      /\ unsynced' = unsynced \ DOMAIN registry
      /\ UNCHANGED <<failures, machine, scans, jobs, cleared>>
  BY <1>1 DEF DiscoverWrites
<1>7. ASSUME NEW t \in DOMAIN saved
      PROVE  LET row == Flushed(saved[t], saved[t], saved[t]) IN
             /\ row \in ToolRows /\ row.enabled = saved[t].enabled /\ row.timeout = saved[t].timeout
             /\ row.rest = saved[t].rest /\ row.disabled = saved[t].disabled
             /\ row.status = "DISABLED" <=> ~row.enabled
  <2>1. saved[t] \in ToolRows /\ (saved[t].status = "DISABLED" <=> ~saved[t].enabled)
    BY <1>0, <1>7 DEF Agree, SettingsTyped
  <2>2. /\ saved[t].enabled \in BOOLEAN /\ saved[t].timeout \in Timeouts
        /\ saved[t].rest \in Rests /\ saved[t].disabled \in SUBSET Profiles
    BY <2>1 DEF ToolRows
  <2>3. machine \in Conditions
    BY <1>0 DEF SettingsTyped
  <2>4. ToolStatus(saved[t].enabled) = "DISABLED" <=> ~saved[t].enabled
    BY <2>2, <2>3, StatusOfSwitch
  <2> DEFINE row == Flushed(saved[t], saved[t], saved[t])
  <2>5. /\ row \in ToolRows /\ row.enabled = saved[t].enabled /\ row.timeout = saved[t].timeout
        /\ row.rest = saved[t].rest /\ row.disabled = saved[t].disabled
        /\ row.status = IF ToolStatus(saved[t].enabled) = saved[t].status THEN saved[t].status
                        ELSE ToolStatus(saved[t].enabled)
    BY <2>1, <2>2, <2>3, FlushedRow
  <2> QED BY <2>1, <2>4, <2>5
<1>8. LET row == ToolRow(NewTool, ToolStatus(TRUE)) IN
      /\ row \in ToolRows /\ row.enabled = TRUE /\ row.timeout = NoTimeout
      /\ row.rest = "none" /\ row.disabled = {}
      /\ row.status = "DISABLED" <=> ~row.enabled
  BY <1>0, StatusOfSwitch DEF SettingsTyped, ToolRow, NewTool, ToolRows, Timeouts, Rests
<1>9. ASSUME NEW t \in DOMAIN registry
      PROVE  /\ registry'[t] \in Plugs /\ registry'[t].scan = registry[t].scan
             /\ registry'[t].live.rest = View(t).rest
             /\ registry'[t].live.disabled = View(t).disabled
             /\ registry'[t].live.timeout = IF View(t).timeout = NoTimeout THEN registry[t].live.timeout
                                            ELSE View(t).timeout
  <2>1. registry[t] \in [scan : Nat \X Nat, live : Settings] /\ registry[t].live \in Settings
    BY <1>0, <1>9 DEF SettingsTyped, Plugs
  <2>2. View(t).timeout \in Timeouts /\ View(t).rest \in Rests /\ View(t).disabled \in SUBSET Profiles
    BY <1>0 DEF SettingsTyped, ToolRows, NewTool, Timeouts, Rests
  <2>3. registry'[t] = [registry[t] EXCEPT !.live = WithSaved(@, View(t))]
    BY <1>6, <1>9 DEF SameScan, SyncApplied
  <2> DEFINE live == WithSaved(registry[t].live, View(t))
  <2>4. /\ live \in Settings /\ live.enabled = registry[t].live.enabled
        /\ live.rest = View(t).rest /\ live.disabled = View(t).disabled
        /\ live.timeout = IF View(t).timeout = NoTimeout THEN registry[t].live.timeout
                                            ELSE View(t).timeout
    BY <2>1, <2>2 DEF Settings, WithSaved
  <2> HIDE DEF View, live
  <2>5. registry'[t] \in Plugs /\ registry'[t].live = live /\ registry'[t].scan = registry[t].scan
    BY <2>1, <2>3, <2>4 DEF Plugs, live
  <2> QED BY <2>4, <2>5
<1>10. /\ DOMAIN registry' = DOMAIN registry /\ DOMAIN saved' = DOMAIN saved \cup DOMAIN registry
       /\ \A t \in DOMAIN saved' : saved'[t] =
             IF t \notin DOMAIN registry THEN saved[t]
             ELSE IF t \in DOMAIN saved THEN Flushed(saved[t], saved[t], saved[t])
             ELSE ToolRow(NewTool, ToolStatus(TRUE))
  BY <1>6
<1>11. SettingsTyped'
  BY <1>0, <1>3, <1>6, <1>7, <1>8, <1>9, <1>10 DEF SettingsTyped
<1>12. Loads'
  BY <1>0, <1>3, <1>5, <1>6, <1>10 DEF Loads, LoadedUpTo
<1>13. Agree'
  <2>1. \A t \in DOMAIN registry' : t \notin unsynced' /\ t \in DOMAIN saved'
    BY <1>6, <1>10
  <2>2. ASSUME NEW t \in DOMAIN saved'
        PROVE  /\ saved'[t].status = "DISABLED" <=> ~saved'[t].enabled
               /\ t \in DOMAIN cleared' => saved'[t].timeout = NoTimeout
    <3>1. CASE t \in DOMAIN saved /\ t \notin DOMAIN registry
      BY <1>0, <1>6, <1>10, <3>1 DEF Agree
    <3>2. CASE t \in DOMAIN saved /\ t \in DOMAIN registry
      <4>1. saved'[t] = Flushed(saved[t], saved[t], saved[t])
        BY <1>10, <3>2
      <4>2. t \in DOMAIN cleared => saved[t].timeout = NoTimeout
        BY <1>0, <3>2 DEF Agree
      <4>3. saved'[t].status = "DISABLED" <=> ~saved'[t].enabled
        BY <1>7, <3>2, <4>1
      <4>4. saved'[t].timeout = saved[t].timeout /\ cleared' = cleared
        BY <1>6, <1>7, <3>2, <4>1
      <4> QED BY <4>2, <4>3, <4>4
    <3>3. CASE t \in DOMAIN registry /\ t \notin DOMAIN saved
      <4>1. saved'[t] = ToolRow(NewTool, ToolStatus(TRUE))
        BY <1>10, <2>2, <3>3
      <4>2. saved'[t].timeout = NoTimeout
        BY <1>8, <4>1
      <4>3. saved'[t].status = "DISABLED" <=> ~saved'[t].enabled
        BY <1>8, <4>1, Zenon
      <4> QED BY <4>2, <4>3
    <3> QED BY <1>10, <2>2, <3>1, <3>2, <3>3
  <2>3. ASSUME NEW t \in DOMAIN registry
        PROVE  LET live == registry'[t].live IN
               /\ live.rest = saved'[t].rest /\ live.disabled = saved'[t].disabled
               /\ live.timeout = IF t \in DOMAIN cleared THEN cleared[t]
                                 ELSE IF saved'[t].timeout = NoTimeout THEN DefaultTimeout
                                 ELSE saved'[t].timeout
    <3>1. CASE t \in DOMAIN saved
      <4>1. /\ saved'[t].timeout = saved[t].timeout
            /\ saved'[t].rest = saved[t].rest /\ saved'[t].disabled = saved[t].disabled
        BY <1>7, <1>10, <2>3, <3>1
      <4>2. /\ registry'[t].live.rest = saved[t].rest
            /\ registry'[t].live.disabled = saved[t].disabled
            /\ registry'[t].live.timeout =
                  IF saved[t].timeout = NoTimeout THEN registry[t].live.timeout ELSE saved[t].timeout
        BY <1>9, <2>3, <3>1
      <4>3. saved[t].timeout = NoTimeout =>
               registry[t].live.timeout = IF t \in DOMAIN cleared THEN cleared[t] ELSE DefaultTimeout
        BY <1>0, <2>3, <3>1 DEF Agree
      <4>4. t \in DOMAIN cleared => saved[t].timeout = NoTimeout
        BY <1>0, <3>1 DEF Agree
      <4> QED BY <4>1, <4>2, <4>3, <4>4
    <3>2. CASE t \notin DOMAIN saved
      <4>1. registry[t].live.timeout = DefaultTimeout /\ t \notin DOMAIN cleared
        BY <1>0, <2>3, <3>2 DEF Agree
      <4>2. View(t) = NewTool
        BY <3>2
      <4>3. /\ saved'[t].timeout = NoTimeout /\ saved'[t].rest = "none" /\ saved'[t].disabled = {}
        BY <1>8, <1>10, <2>3, <3>2
      <4>4. /\ registry'[t].live.rest = "none" /\ registry'[t].live.disabled = {}
            /\ registry'[t].live.timeout = registry[t].live.timeout
        BY <1>9, <2>3, <4>2 DEF NewTool
      <4> QED BY <4>1, <4>3, <4>4
    <3> QED BY <3>1, <3>2
  <2>4. cleared' = cleared /\ DOMAIN registry' = DOMAIN registry
    BY <1>6
  <2> QED BY <2>1, <2>2, <2>3, <2>4 DEF Agree
<1> QED BY <1>3, <1>11, <1>12, <1>13 DEF SettingsInv

(* A request for one tool reads what there is, with nothing under way that *)
(* would change it.                                                        *)
LEMMA ToolReadsInv ==
    ASSUME SettingsInv, NEW r \in Errands, ToolReads(r), ~raced'
    PROVE  SettingsInv'
<1>0. SettingsTyped /\ Agree /\ Loads /\ NoneCollide /\ \A q \in Errands : Knows(q)
  BY DEF SettingsInv
<1>1. /\ UNCHANGED <<registry, failures, saved, machine, scans, jobs, unsynced, cleared>>
      /\ errand[r].op = "none"
  BY DEF ToolReads, Finds, Starts, NoErrand, whys
<1> DEFINE WishesOf(op) == IF op = "update" THEN Wishes
                           ELSE IF op = "profile" THEN Profiles \X BOOLEAN ELSE {<<>>}
<1>2. PICK t \in ToolNames, op \in {"update", "profile", "refresh"} :
         \E wish \in WishesOf(op) : Finds(r, op, t, wish)
  <2>1. PICK t \in ToolNames : \/ \E wish \in Wishes : Finds(r, "update", t, wish)
                               \/ \E p \in Profiles, on \in BOOLEAN : Finds(r, "profile", t, <<p, on>>)
                               \/ Finds(r, "refresh", t, <<>>)
    BY DEF ToolReads
  <2>2. ASSUME NEW p \in Profiles, NEW on \in BOOLEAN, Finds(r, "profile", t, <<p, on>>)
        PROVE  \E wish \in WishesOf("profile") : Finds(r, "profile", t, wish)
    BY <2>2
  <2>3. ASSUME Finds(r, "refresh", t, <<>>)
        PROVE  \E wish \in WishesOf("refresh") : Finds(r, "refresh", t, wish)
    BY <2>3
  <2> QED BY <2>1, <2>2, <2>3
<1>3. PICK wish \in WishesOf(op) : Finds(r, op, t, wish)
  BY <1>2
<1>4. /\ errand'[r] = [op |-> op, tool |-> t, scan |-> registry[t].scan, seen |-> saved[t], wish |-> wish]
      /\ DOMAIN errand' = Errands /\ \A q \in Errands : q # r => errand'[q] = errand[q]
      /\ \A q \in Errands : InProgress(q) => ~Collide(op, errand[q].op)
      /\ t \in DOMAIN saved /\ t \in DOMAIN registry
  BY <1>0, <1>3 DEF Finds, Starts, SettingsTyped
<1>5. NoneCollide'
  <2>1. \A a, b : Collide(a, b) <=> Collide(b, a)
    <3>1. \A a, b : {a, b} = {b, a}
      OBVIOUS
    <3> QED BY <3>1, Zenon DEF Collide
  <2>2. /\ \A q \in Errands : InProgress(q) => ~Collide(op, errand[q].op)
        /\ errand'[r].op = op
    BY <1>4
  <2>3. ASSUME NEW p \in Errands, NEW q \in Errands, p # q, InProgress(p)', InProgress(q)'
        PROVE  ~Collide(errand'[p].op, errand'[q].op)
    BY <1>0, <1>4, <2>1, <2>2, <2>3 DEF NoneCollide, InProgress
  <2> QED BY <2>3 DEF NoneCollide, InProgress, Collide
<1>6. registry[t].scan \in Nat \X Nat /\ saved[t] \in ToolRows
  BY <1>0, <1>4 DEF SettingsTyped, Plugs
<1>7. Knows(r)'
  BY <1>1, <1>3, <1>4, <1>6 DEF Knows, Loading, Reads, SameScan
<1>8. ASSUME NEW q \in Errands, q # r PROVE Knows(q)'
  BY <1>0, <1>1, <1>4, <1>8 DEF Knows, Loading, Reads, SameScan
<1>9. Loads'
  <2>1. ~Loading(r) /\ ~Loading(r)' /\ \A q \in Errands : q # r => (Loading(q)' <=> Loading(q))
    BY <1>1, <1>4 DEF Loading
  <2>2. ASSUME NEW q \in Errands, Loading(q)'
        PROVE  /\ LoadedUpTo(errand[q].at)'
               /\ unsynced = ToolNames /\ DOMAIN cleared = {}
    BY <1>0, <1>1, <1>4, <2>1, <2>2 DEF Loads, LoadedUpTo
  <2>3. ASSUME \A q \in Errands : ~Loading(q)' PROVE LoadedUpTo(End)'
    BY <1>0, <1>1, <2>1, <2>3 DEF Loads, LoadedUpTo
  <2> QED BY <1>1, <2>2, <2>3 DEF Loads
<1>10. Agree'
  BY <1>0, <1>1 DEF Agree
<1> QED BY <1>0, <1>1, <1>4, <1>5, <1>7, <1>8, <1>9, <1>10 DEF SettingsInv, SettingsTyped

(* An update switches the plugin; refused, it leaves the row behind.       *)
LEMMA SwitchInv ==
    ASSUME SettingsInv, NEW r \in Errands, UpdateSwitches(r)
    PROVE  SettingsInv'
<1>0. SettingsTyped /\ Agree /\ Loads /\ NoneCollide /\ \A q \in Errands : Knows(q)
  BY DEF SettingsInv
<1>1. PICK q, t : q = errand[r] /\ t = q.tool
  OBVIOUS
<1>2. /\ q.op = "update" /\ Reads(q, Wishes) /\ q.seen = saved[t] /\ InProgress(r)
      /\ t \in DOMAIN saved /\ t \in DOMAIN registry /\ SameScan(registry, t, q.scan)
  BY <1>0, <1>1 DEF UpdateSwitches, Knows, InProgress, Reads, SameScan
<1>3. Alone(r)
  BY <1>0, <1>1, <1>2, Lonely
<1>4. q \in [op : {"update"}, tool : ToolNames, scan : Nat \X Nat, seen : ToolRows, wish : Wishes]
  BY <1>2 DEF Reads
<1>5. /\ UNCHANGED <<failures, saved, machine, scans, jobs, unsynced, cleared>>
      /\ registry' = IF "enabled" \in DOMAIN q.wish
                     THEN [registry EXCEPT ![t].live.enabled = q.wish.enabled] ELSE registry
  BY <1>1, <1>2 DEF UpdateSwitches
<1>6. ("enabled" \in DOMAIN q.wish => q.wish.enabled \in BOOLEAN) /\ registry[t] \in Plugs
  BY <1>0, <1>2, <1>4, PluginAssumption DEF SettingsTyped
<1>7. /\ DOMAIN registry' = DOMAIN registry /\ registry'[t] \in Plugs
      /\ \A u \in DOMAIN registry : u # t => registry'[u] = registry[u]
      /\ registry'[t].scan = registry[t].scan
      /\ registry'[t].live.rest = registry[t].live.rest
      /\ registry'[t].live.disabled = registry[t].live.disabled
      /\ registry'[t].live.timeout = registry[t].live.timeout
  BY <1>2, <1>5, <1>6 DEF Plugs, Settings
<1>9. \A p \in Errands : ~Loading(p)
  BY <1>1, <1>2, <1>3 DEF Alone, Loading
<1>10. CASE Wanted(q, "rest") = "bad"
  <2>1. DOMAIN errand' = Errands /\ NoneCollide' /\ \A p \in Errands : Knows(p)' /\ ~Loading(p)'
    BY <1>0, <1>1, <1>3, <1>10, AllOver DEF UpdateSwitches
  <2>3. Loads'
    BY <1>0, <1>5, <1>7, <1>9, <2>1 DEF Loads, LoadedUpTo
  <2>4. Agree'
    <3>1. ASSUME NEW u \in DOMAIN registry
          PROVE  /\ registry'[u].live.timeout = registry[u].live.timeout
                 /\ registry'[u].live.rest = registry[u].live.rest
                 /\ registry'[u].live.disabled = registry[u].live.disabled
      BY <1>7
    <3> QED BY <1>0, <1>5, <1>7, <3>1 DEF Agree
  <2> QED BY <1>0, <1>5, <1>7, <2>1, <2>3, <2>4 DEF SettingsInv, SettingsTyped
<1>11. CASE Wanted(q, "rest") # "bad"
  <2>1. /\ errand'[r] = [q EXCEPT !.op = "switched"] /\ DOMAIN errand' = Errands
        /\ \A p \in Errands : p # r => errand'[p] = errand[p]
    BY <1>0, <1>1, <1>11 DEF UpdateSwitches, SettingsTyped
  <2>2. /\ errand'[r] \in [op : {"switched"}, tool : ToolNames, scan : Nat \X Nat, seen : ToolRows, wish : Wishes]
        /\ errand'[r].op = "switched" /\ errand'[r].tool = t /\ errand'[r].wish = q.wish
        /\ errand'[r].seen = saved[t] /\ errand'[r].scan = q.scan
    BY <1>1, <1>2, <1>4, <2>1
  <2>3. NoneCollide' /\ \A p \in Errands : ~Loading(p)'
    BY <1>3, <2>1, <2>2 DEF NoneCollide, InProgress, Alone, Loading
  <2>4. Knows(r)'
    BY <1>2, <1>5, <1>7, <2>2 DEF Knows, Loading, Reads, SameScan
  <2>5. \A p \in Errands : p # r => Knows(p)'
    BY <1>3, <2>1 DEF Knows, Loading, Alone
  <2>6. Loads'
    BY <1>0, <1>5, <1>7, <1>9, <2>1, <2>3 DEF Loads, LoadedUpTo
  <2>7. Agree'
    <3>1. ASSUME NEW u \in DOMAIN registry
          PROVE  /\ registry'[u].live.timeout = registry[u].live.timeout
                 /\ registry'[u].live.rest = registry[u].live.rest
                 /\ registry'[u].live.disabled = registry[u].live.disabled
      BY <1>7
    <3> QED BY <1>0, <1>5, <1>7, <3>1 DEF Agree
  <2> QED BY <1>0, <1>5, <1>7, <2>1, <2>3, <2>4, <2>5, <2>6, <2>7 DEF SettingsInv, SettingsTyped
<1> QED BY <1>10, <1>11

(* An update writes its row and its plugin alike.                          *)
LEMMA UpdateWritesInv ==
    ASSUME SettingsInv, NEW r \in Errands, UpdateWrites(r)
    PROVE  SettingsInv'
<1>0. SettingsTyped /\ Agree /\ Loads /\ NoneCollide /\ \A q \in Errands : Knows(q)
  BY DEF SettingsInv
<1>1. PICK q, t, view : q = errand[r] /\ t = q.tool /\ view = UpdateView(q)
  OBVIOUS
<1>2. /\ q.op = "switched" /\ Reads(q, Wishes) /\ q.seen = saved[t] /\ InProgress(r)
      /\ t \in DOMAIN saved /\ t \in DOMAIN registry /\ SameScan(registry, t, q.scan)
  BY <1>0, <1>1 DEF UpdateWrites, Knows, InProgress, Reads, SameScan
<1>3. Alone(r)
  BY <1>0, <1>1, <1>2, Lonely
<1>4. q.wish \in Wishes /\ saved[t] \in ToolRows /\ registry[t] \in Plugs
  BY <1>0, <1>2 DEF Reads, SettingsTyped
<1>5. /\ view \in ToolRows /\ view.enabled \in BOOLEAN /\ view.timeout \in Timeouts
      /\ view.rest \in Rests /\ view.disabled \in SUBSET Profiles
      /\ view.enabled = IF "enabled" \in DOMAIN q.wish THEN q.wish.enabled ELSE saved[t].enabled
  <2>1. /\ Wanted(q, "enabled") \in BOOLEAN /\ Wanted(q, "timeout") \in Timeouts
        /\ Wanted(q, "rest") \in Rests
    BY <1>2, <1>4, PluginAssumption DEF Wanted, ToolRows, Timeouts, Rests
  <2>2. /\ view.enabled = Wanted(q, "enabled") /\ view.timeout = Wanted(q, "timeout")
        /\ view.rest = Wanted(q, "rest") /\ view.disabled = saved[t].disabled
        /\ view \in ToolRows
    BY <1>1, <1>2, <1>4, <2>1 DEF UpdateView, ToolRows
  <2> QED BY <1>2, <1>4, <2>1, <2>2 DEF Wanted, ToolRows
<1>6. /\ DOMAIN saved' = DOMAIN saved /\ \A u \in DOMAIN saved : u # t => saved'[u] = saved[u]
      /\ saved'[t] = Flushed(saved[t], saved[t], view)
      /\ DOMAIN registry' = DOMAIN registry /\ \A u \in DOMAIN registry : u # t => registry'[u] = registry[u]
      /\ registry'[t] = [registry[t] EXCEPT !.live = WithSaved(@, view)]
      /\ unsynced' = unsynced \ {t}
      /\ cleared' = IF view.timeout # NoTimeout THEN Unplugged(cleared, t)
                    ELSE IF saved[t].timeout # NoTimeout /\ t \notin unsynced
                    THEN Plugged(cleared, t, saved[t].timeout) ELSE cleared
      /\ UNCHANGED <<failures, machine, scans, jobs>> /\ Over(r)
  BY <1>1, <1>2 DEF UpdateWrites
<1>7. /\ saved'[t] \in ToolRows /\ saved'[t].enabled = view.enabled /\ saved'[t].timeout = view.timeout
      /\ saved'[t].rest = view.rest /\ saved'[t].disabled = view.disabled
      /\ saved'[t].status = "DISABLED" <=> ~view.enabled
  <2>1. machine \in Conditions
    BY <1>0 DEF SettingsTyped
  <2> DEFINE row == Flushed(saved[t], saved[t], view)
  <2>2. /\ row \in ToolRows
        /\ row.enabled = IF view.enabled = saved[t].enabled THEN saved[t].enabled ELSE view.enabled
        /\ row.timeout = IF view.timeout = saved[t].timeout THEN saved[t].timeout ELSE view.timeout
        /\ row.rest = IF view.rest = saved[t].rest THEN saved[t].rest ELSE view.rest
        /\ row.disabled = IF view.disabled = saved[t].disabled THEN saved[t].disabled ELSE view.disabled
        /\ row.status = IF ToolStatus(view.enabled) = saved[t].status THEN saved[t].status
                        ELSE ToolStatus(view.enabled)
    BY <1>4, <1>5, <2>1, FlushedRow
  <2>3. saved'[t] = row
    BY <1>6
  <2> HIDE DEF row
  <2> QED BY <1>5, <2>1, <2>2, <2>3, StatusOfSwitch
<1>8. /\ registry'[t] \in Plugs /\ registry'[t].scan = registry[t].scan
      /\ registry'[t].live.enabled = registry[t].live.enabled
      /\ registry'[t].live.rest = view.rest /\ registry'[t].live.disabled = view.disabled
      /\ registry'[t].live.timeout = IF view.timeout = NoTimeout THEN registry[t].live.timeout
                                     ELSE view.timeout
  <2> DEFINE live == WithSaved(registry[t].live, view)
  <2>1. /\ live \in Settings /\ live.enabled = registry[t].live.enabled
        /\ live.rest = view.rest /\ live.disabled = view.disabled
        /\ live.timeout = IF view.timeout = NoTimeout THEN registry[t].live.timeout
                                            ELSE view.timeout
    BY <1>4, <1>5 DEF Plugs, Settings, WithSaved
  <2> HIDE DEF live
  <2>2. registry'[t] \in Plugs /\ registry'[t].live = live /\ registry'[t].scan = registry[t].scan
    BY <1>4, <1>6, <2>1 DEF Plugs, live
  <2> QED BY <2>1, <2>2
<1>9. DOMAIN errand' = Errands /\ NoneCollide' /\ \A p \in Errands : Knows(p)' /\ ~Loading(p)'
  BY <1>0, <1>3, <1>6, AllOver
<1>10. SettingsTyped'
  BY <1>0, <1>6, <1>7, <1>8, <1>9 DEF SettingsTyped
<1>11. Loads'
  <2>1. \A p \in Errands : ~Loading(p)
    BY <1>1, <1>2, <1>3 DEF Alone, Loading
  <2> QED BY <1>0, <1>6, <1>9, <2>1 DEF Loads, LoadedUpTo
<1>12. Agree'
  <2>1. /\ t \in DOMAIN cleared' <=>
              view.timeout = NoTimeout /\ (t \in DOMAIN cleared \/ (saved[t].timeout # NoTimeout /\ t \notin unsynced))
        /\ t \in DOMAIN cleared' => cleared'[t] = IF saved[t].timeout # NoTimeout /\ t \notin unsynced
                                                 THEN saved[t].timeout ELSE cleared[t]
        /\ \A u : u # t => (u \in DOMAIN cleared' <=> u \in DOMAIN cleared)
        /\ \A u \in DOMAIN cleared : u # t => cleared'[u] = cleared[u]
    BY <1>6 DEF Plugged, Unplugged
  <2>2. registry'[t].live.timeout = IF t \in DOMAIN cleared' THEN cleared'[t]
                                    ELSE IF saved'[t].timeout = NoTimeout THEN DefaultTimeout
                                    ELSE saved'[t].timeout
    <3>1. CASE view.timeout # NoTimeout
      BY <1>7, <1>8, <2>1, <3>1
    <3>2. CASE view.timeout = NoTimeout /\ t \in unsynced
      <4>1. registry[t].live.timeout = DefaultTimeout /\ t \notin DOMAIN cleared
        BY <1>0, <1>2, <3>2 DEF Agree
      <4> QED BY <1>7, <1>8, <2>1, <3>2, <4>1
    <3>3. CASE view.timeout = NoTimeout /\ t \notin unsynced
      <4>1. /\ registry[t].live.timeout = IF t \in DOMAIN cleared THEN cleared[t]
                                          ELSE IF saved[t].timeout = NoTimeout THEN DefaultTimeout
                                          ELSE saved[t].timeout
            /\ t \in DOMAIN cleared => saved[t].timeout = NoTimeout
        BY <1>0, <1>2, <3>3 DEF Agree
      <4> QED BY <1>7, <1>8, <2>1, <3>3, <4>1
    <3> QED BY <3>1, <3>2, <3>3
  <2>4. registry'[t].live.rest = saved'[t].rest /\ registry'[t].live.disabled = saved'[t].disabled
    BY <1>7, <1>8
  <2>5. ASSUME NEW u \in DOMAIN registry \cap DOMAIN saved, u # t, u \notin unsynced'
        PROVE  /\ registry'[u].live.rest = saved'[u].rest
               /\ registry'[u].live.disabled = saved'[u].disabled
               /\ registry'[u].live.timeout = IF u \in DOMAIN cleared' THEN cleared'[u]
                                              ELSE IF saved'[u].timeout = NoTimeout THEN DefaultTimeout
                                              ELSE saved'[u].timeout
    BY <1>0, <1>6, <2>1, <2>5 DEF Agree
  <2>6. \A u \in DOMAIN registry' :
          /\ u \in unsynced' => /\ registry'[u].live.timeout = DefaultTimeout
                                /\ registry'[u].live.rest = "none" /\ u \notin DOMAIN cleared'
          /\ u \notin DOMAIN saved' => u \in unsynced'
    BY <1>0, <1>2, <1>6, <2>1 DEF Agree
  <2>7. \A u \in DOMAIN saved' : /\ saved'[u].status = "DISABLED" <=> ~saved'[u].enabled
                                 /\ u \in DOMAIN cleared' => saved'[u].timeout = NoTimeout
    BY <1>0, <1>6, <1>7, <2>1 DEF Agree
  <2>8. t \notin unsynced'
    BY <1>6
  <2> QED BY <1>6, <2>2, <2>4, <2>5, <2>6, <2>7, <2>8 DEF Agree
<1> QED BY <1>9, <1>10, <1>11, <1>12 DEF SettingsInv

(* What else may be under way beside a look at the machine or a profile.   *)
LEMMA Others ==
    ASSUME NoneCollide, NEW r \in Errands, errand[r].op \in {"refresh", "profile"}
    PROVE  \A q \in Errands : q # r =>
              \/ errand[q].op \in {"none", "over", "refresh"}
              \/ errand[q].op = "profile" /\ errand[r].op = "refresh"
<1> SUFFICES ASSUME NEW q \in Errands, q # r, InProgress(q), errand[q].op # "refresh"
             PROVE  errand[q].op = "profile" /\ errand[r].op = "refresh"
  BY DEF InProgress
<1>1. {errand[r].op, errand[q].op} \in {{"refresh"}, {"refresh", "profile"}}
  BY DEF NoneCollide, InProgress, Collide
<1> QED BY <1>1

(* Such a request ends: the plugins and the other columns stay.            *)
LEMMA LookEnds ==
    ASSUME SettingsInv, NEW r \in Errands, errand[r].op \in {"refresh", "profile"}, Over(r),
           DOMAIN registry' = DOMAIN registry, DOMAIN saved' = DOMAIN saved,
           \A t \in DOMAIN registry : registry'[t] \in Plugs /\ registry'[t].scan = registry[t].scan,
           \A t \in DOMAIN saved : saved'[t] \in ToolRows /\ saved'[t].enabled = saved[t].enabled,
           \A t \in DOMAIN saved : errand[r].op = "refresh" => saved'[t].disabled = saved[t].disabled,
           UNCHANGED <<failures, machine, scans, unsynced, cleared>>
    PROVE  /\ SettingsTyped' /\ NoneCollide' /\ Loads' /\ \A q \in Errands : Knows(q)'
<1>0. SettingsTyped /\ Loads /\ NoneCollide /\ \A q \in Errands : Knows(q)
  BY DEF SettingsInv
<1>1. /\ DOMAIN errand' = Errands /\ errand'[r] = [op |-> "over"]
      /\ \A q \in Errands : q # r => errand'[q] = errand[q]
  BY <1>0 DEF Over, SettingsTyped
<1>2. \A q \in Errands : q # r => \/ errand[q].op \in {"none", "over", "refresh"}
                                  \/ errand[q].op = "profile" /\ errand[r].op = "refresh"
  BY <1>0, Others
<1>3. SettingsTyped'
  BY <1>0, <1>1 DEF SettingsTyped
<1>4. NoneCollide'
  <2>1. ASSUME NEW p \in Errands, NEW q \in Errands, p # q, InProgress(p)', InProgress(q)'
        PROVE  ~Collide(errand'[p].op, errand'[q].op)
    BY <1>0, <1>1, <2>1 DEF NoneCollide, InProgress
  <2> QED BY <2>1 DEF NoneCollide, InProgress, Collide
<1>5. \A q \in Errands : ~Loading(q) /\ ~Loading(q)'
  BY <1>1, <1>2 DEF Loading
<1>6. Loads'
  BY <1>0, <1>5 DEF Loads, LoadedUpTo
<1>7. ASSUME NEW q \in Errands PROVE Knows(q)'
  <2>1. CASE q = r \/ errand[q].op \in {"none", "over"}
    BY <1>1, <2>1 DEF Knows, Loading
  <2>2. CASE q # r /\ errand[q].op = "refresh"
    BY <1>0, <1>1, <2>2 DEF Knows, Loading, Reads, SameScan
  <2>3. CASE q # r /\ errand[q].op = "profile" /\ errand[r].op = "refresh"
    BY <1>0, <1>1, <2>3 DEF Knows, Loading, Reads, SameScan
  <2> QED BY <1>2, <2>1, <2>2, <2>3
<1> QED BY <1>3, <1>4, <1>6, <1>7

(* The list of a tool's disabled profiles is written to the row and to the *)
(* plugin.                                                                 *)
LEMMA ProfileWritesInv ==
    ASSUME SettingsInv, NEW r \in Errands, ProfileWrites(r)
    PROVE  SettingsInv'
<1>0. SettingsTyped /\ Agree /\ Knows(r)
  BY DEF SettingsInv
<1>1. PICK q, t, list : /\ q = errand[r] /\ t = q.tool
                        /\ list = IF q.wish[2] THEN q.seen.disabled \ {q.wish[1]}
                                  ELSE q.seen.disabled \cup {q.wish[1]}
  OBVIOUS
<1>2. /\ q.op = "profile" /\ Reads(q, Profiles \X BOOLEAN) /\ q.seen.disabled = saved[t].disabled
      /\ t \in DOMAIN saved /\ t \in DOMAIN registry /\ SameScan(registry, t, q.scan)
  BY <1>0, <1>1 DEF ProfileWrites, Knows, Reads, SameScan
<1>3. saved[t] \in ToolRows /\ registry[t] \in Plugs /\ q.wish[1] \in Profiles
  BY <1>0, <1>2 DEF Reads, SettingsTyped
<1>4. list \in SUBSET Profiles
  BY <1>1, <1>2, <1>3 DEF ToolRows
<1>5. /\ saved' = [saved EXCEPT ![t].disabled = list]
      /\ registry' = [registry EXCEPT ![t].live.disabled = list]
      /\ UNCHANGED <<failures, machine, scans, unsynced, cleared>> /\ Over(r)
  BY <1>1, <1>2 DEF ProfileWrites, whys
<1>6. /\ DOMAIN saved' = DOMAIN saved /\ \A u \in DOMAIN saved : u # t => saved'[u] = saved[u]
      /\ saved'[t] = [saved[t] EXCEPT !.disabled = list]
      /\ DOMAIN registry' = DOMAIN registry /\ \A u \in DOMAIN registry : u # t => registry'[u] = registry[u]
      /\ registry'[t] = [registry[t] EXCEPT !.live.disabled = list]
  BY <1>2, <1>5
<1>7. /\ saved'[t] \in ToolRows /\ saved'[t].disabled = list /\ saved'[t].enabled = saved[t].enabled
      /\ saved'[t].timeout = saved[t].timeout /\ saved'[t].rest = saved[t].rest
      /\ saved'[t].status = saved[t].status
  BY <1>3, <1>4, <1>6 DEF ToolRows
<1>8. /\ registry'[t] \in Plugs /\ registry'[t].live.disabled = list
      /\ registry'[t].scan = registry[t].scan /\ registry'[t].live.enabled = registry[t].live.enabled
      /\ registry'[t].live.timeout = registry[t].live.timeout
      /\ registry'[t].live.rest = registry[t].live.rest
  BY <1>3, <1>4, <1>6 DEF Plugs, Settings
<1>9. /\ \A u \in DOMAIN registry : registry'[u] \in Plugs /\ registry'[u].scan = registry[u].scan
      /\ \A u \in DOMAIN saved : saved'[u] \in ToolRows /\ saved'[u].enabled = saved[u].enabled
  BY <1>0, <1>6, <1>7, <1>8 DEF SettingsTyped
<1>10. /\ SettingsTyped' /\ NoneCollide' /\ Loads' /\ \A p \in Errands : Knows(p)'
  BY <1>1, <1>2, <1>5, <1>6, <1>9, LookEnds
<1>11. Agree'
  <2>1. ASSUME NEW u \in DOMAIN registry \cap DOMAIN saved
        PROVE  u \notin unsynced =>
                  /\ registry'[u].live.rest = saved'[u].rest
                  /\ registry'[u].live.disabled = saved'[u].disabled
                  /\ registry'[u].live.timeout = IF u \in DOMAIN cleared THEN cleared[u]
                                                 ELSE IF saved'[u].timeout = NoTimeout THEN DefaultTimeout
                                                 ELSE saved'[u].timeout
    <3>1. CASE u = t
      BY <1>0, <1>2, <1>7, <1>8, <1>10, <3>1 DEF Agree
    <3>2. CASE u # t
      BY <1>0, <1>6, <1>10, <3>2 DEF Agree
    <3> QED BY <3>1, <3>2
  <2>2. \A u \in DOMAIN registry' :
          /\ u \in unsynced' => /\ registry'[u].live.timeout = DefaultTimeout
                                /\ registry'[u].live.rest = "none" /\ u \notin DOMAIN cleared'
          /\ u \notin DOMAIN saved' => u \in unsynced'
    BY <1>0, <1>5, <1>6, <1>8 DEF Agree
  <2>3. \A u \in DOMAIN saved' : /\ saved'[u].status = "DISABLED" <=> ~saved'[u].enabled
                                 /\ u \in DOMAIN cleared' => saved'[u].timeout = NoTimeout
    <3>1. \A u \in DOMAIN saved : /\ saved'[u].status = saved[u].status
                                  /\ saved'[u].enabled = saved[u].enabled
                                  /\ saved'[u].timeout = saved[u].timeout
      BY <1>6, <1>7
    <3> QED BY <1>0, <1>5, <1>6, <3>1 DEF Agree
  <2> QED BY <1>5, <1>6, <2>1, <2>2, <2>3 DEF Agree
<1> QED BY <1>10, <1>11 DEF SettingsInv

(* A look at the machine writes the status alone, and not of a tool's      *)
(* switch.                                                                 *)
LEMMA RefreshWritesInv ==
    ASSUME SettingsInv, NEW r \in Errands, RefreshWrites(r)
    PROVE  SettingsInv'
<1>0. SettingsTyped /\ Agree /\ Knows(r)
  BY DEF SettingsInv
<1>1. PICK t, seen, row : t = errand[r].tool /\ seen = errand[r].seen /\ row = Flushed(saved[t], seen, seen)
  OBVIOUS
<1>2. /\ errand[r].op = "refresh" /\ t \in DOMAIN saved /\ seen \in ToolRows
      /\ seen.enabled = saved[t].enabled
  BY <1>0, <1>1 DEF RefreshWrites, Knows, Reads
<1>3. saved[t] \in ToolRows /\ machine \in Conditions
  BY <1>0, <1>2 DEF SettingsTyped
<1>4. /\ row \in ToolRows /\ row.enabled = saved[t].enabled /\ row.timeout = saved[t].timeout
      /\ row.rest = saved[t].rest /\ row.disabled = saved[t].disabled
      /\ row.status \in {saved[t].status, ToolStatus(seen.enabled)}
  BY <1>1, <1>2, <1>3, FlushedRow
<1>5. row.status = "DISABLED" <=> ~row.enabled
  <2>1. seen.enabled \in BOOLEAN
    BY <1>2 DEF ToolRows
  <2>2. ToolStatus(seen.enabled) = "DISABLED" <=> ~seen.enabled
    BY <1>3, <2>1, StatusOfSwitch
  <2> QED BY <1>0, <1>2, <1>4, <2>2 DEF Agree
<1>6. /\ DOMAIN saved' = DOMAIN saved /\ \A u \in DOMAIN saved : u # t => saved'[u] = saved[u]
      /\ saved'[t] = row /\ UNCHANGED <<registry, failures, machine, scans, unsynced, cleared>>
      /\ Over(r)
  BY <1>1, <1>2 DEF RefreshWrites, whys
<1>7. \A u \in DOMAIN saved :
        /\ saved'[u] \in ToolRows /\ saved'[u].enabled = saved[u].enabled
        /\ saved'[u].timeout = saved[u].timeout /\ saved'[u].rest = saved[u].rest
        /\ saved'[u].disabled = saved[u].disabled
        /\ saved'[u].status = "DISABLED" <=> ~saved'[u].enabled
  BY <1>0, <1>4, <1>5, <1>6 DEF SettingsTyped, Agree
<1>8. SettingsTyped' /\ NoneCollide' /\ Loads' /\ \A p \in Errands : Knows(p)'
  <2>1. \A u \in DOMAIN registry : registry'[u] \in Plugs /\ registry'[u].scan = registry[u].scan
    BY <1>0, <1>6 DEF SettingsTyped
  <2> QED BY <1>2, <1>6, <1>7, <2>1, LookEnds
<1>9. Agree'
  BY <1>0, <1>6, <1>7, <1>8 DEF Agree
<1> QED BY <1>8, <1>9 DEF SettingsInv

(* A plan and a change of the machine touch none of it.                    *)
LEMMA IdleInv ==
    ASSUME SettingsInv, machine' \in Conditions,
           UNCHANGED <<registry, failures, saved, errand, scans, unsynced, cleared>>
    PROVE  SettingsInv'
<1>1. SettingsTyped' /\ NoneCollide'
  BY DEF SettingsInv, SettingsTyped, NoneCollide, InProgress, Collide
<1>3. Loads'
  BY DEF SettingsInv, Loads, Loading, LoadedUpTo
<1>4. Agree'
  BY DEF SettingsInv, Agree
<1>2. \A q \in Errands : Knows(q)'
  BY DEF SettingsInv, Knows, Loading, Reads, SameScan
<1> QED BY <1>1, <1>2, <1>3, <1>4 DEF SettingsInv

(* A new process loads the plugins before it serves a request.             *)
LEMMA RestartInv ==
    ASSUME SettingsInv, Restarted
    PROVE  SettingsInv'
<1>0. SettingsTyped /\ Agree
  BY DEF SettingsInv
<1>1. /\ scans' = scans + 1 /\ failures' = AllFailures /\ UNCHANGED <<saved, machine>>
      /\ unsynced' = ToolNames /\ DOMAIN cleared' = {}
      /\ DOMAIN registry' = {Directories[k].id : k \in Loadable}
      /\ \A t \in DOMAIN registry' : registry'[t] = [scan |-> <<scans + 1, 0>>, live |-> Default]
  BY DEF Restarted, AllLoaded
<1>2. DOMAIN errand' = Errands /\ \A q \in Errands : errand'[q].op \in {"none", "over"}
  BY DEF Restarted, InProgress
<1>3. Default \in Settings /\ DOMAIN registry' \subseteq ToolNames /\ scans + 1 \in Nat
  BY <1>0, <1>1, DirectoryFacts DEF Default, Settings, Timeouts, Rests, Loadable, SettingsTyped
<1>4. SettingsTyped'
  BY <1>0, <1>1, <1>2, <1>3 DEF SettingsTyped, Plugs
<1>5. LoadedUpTo(End)'
  <2>1. \A k \in DOMAIN Directories : k < End
    BY DirectoryFacts DEF End
  <2>2. {i \in Loadable : i < End} = Loadable
    BY <2>1 DEF Loadable
  <2> QED BY <1>1, <2>1, <2>2 DEF LoadedUpTo, AllFailures, Reported
<1>6. \A q \in Errands : ~Loading(q)'
  BY <1>2 DEF Loading
<1>7. Agree'
  BY <1>0, <1>1, <1>3 DEF Agree, Default
<1> QED BY <1>2, <1>4, <1>5, <1>6, <1>7 DEF SettingsInv, NoneCollide, InProgress, Loads, Knows, Loading

(* Every step keeps the invariant, unless two requests overlap.            *)
LEMMA SettingsStep ==
    ASSUME SettingsInv, [PluginNext]_pluginVars, ~raced'
    PROVE  SettingsInv'
<1>1. ASSUME UNCHANGED pluginVars \/ Plan \/ MachineChanges PROVE SettingsInv'
  <2>1. machine' \in Conditions
    BY <1>1 DEF SettingsInv, SettingsTyped, pluginVars, Plan, MachineChanges
  <2>2. UNCHANGED <<registry, failures, saved, errand, scans, unsynced, cleared>>
    BY <1>1 DEF pluginVars, Plan, MachineChanges, whys
  <2> QED BY <2>1, <2>2, IdleInv
<1>2. ASSUME NEW r \in Errands,
             \/ BeginScan(r) \/ ScanDirectory(r) \/ ReloadEnds(r) \/ DiscoverReads(r) \/ DiscoverWrites(r)
             \/ ToolReads(r) \/ UpdateSwitches(r) \/ UpdateWrites(r) \/ ProfileWrites(r) \/ RefreshWrites(r)
      PROVE  SettingsInv'
  BY <1>2, BeginInv, DirectoryInv, ReloadInv, DiscoverReadsInv, DiscoverWritesInv, ToolReadsInv,
     SwitchInv, UpdateWritesInv, ProfileWritesInv, RefreshWritesInv
<1> QED BY <1>1, <1>2, RestartInv DEF PluginNext

(* That two requests overlapped is never forgotten.                        *)
LEMMA RacedForGood ==
    ASSUME [PluginNext]_pluginVars, raced
    PROVE  raced'
<1>0. ASSUME NEW r, NEW task, Starts(r, task) PROVE raced'
  BY <1>0 DEF Starts
<1>1. ASSUME NEW r \in Errands, BeginScan(r) \/ ToolReads(r) PROVE raced'
  <2>1. CASE BeginScan(r)
    BY <1>0, <2>1 DEF BeginScan
  <2>2. CASE ToolReads(r)
    BY <1>0, <2>2 DEF ToolReads, Finds
  <2> QED BY <1>1, <2>1, <2>2
<1>2. ASSUME NEW r \in Errands, ScanDirectory(r) \/ ReloadEnds(r) \/ DiscoverReads(r) PROVE raced'
  BY <1>2 DEF ScanDirectory, ReloadEnds, DiscoverReads
<1>3. ASSUME NEW r \in Errands, DiscoverWrites(r) PROVE raced'
  BY <1>3 DEF DiscoverWrites
<1>4. ASSUME NEW r \in Errands, UpdateSwitches(r) PROVE raced'
  BY <1>4 DEF UpdateSwitches
<1>5. ASSUME NEW r \in Errands, UpdateWrites(r) PROVE raced'
  BY <1>5 DEF UpdateWrites
<1>6. ASSUME NEW r \in Errands, ProfileWrites(r) \/ RefreshWrites(r) PROVE raced'
  BY <1>6 DEF ProfileWrites, RefreshWrites
<1>7. ASSUME Plan PROVE raced'
  BY <1>7 DEF Plan
<1>10. ASSUME MachineChanges PROVE raced'
  BY <1>10 DEF MachineChanges
<1>8. ASSUME Restarted PROVE raced'
  BY <1>8 DEF Restarted
<1>9. ASSUME UNCHANGED pluginVars PROVE raced'
  BY <1>9 DEF pluginVars
<1> QED BY <1>1, <1>2, <1>3, <1>4, <1>5, <1>6, <1>7, <1>8, <1>9, <1>10 DEF PluginNext

(* Until two requests overlap, the invariant holds.                        *)
THEOREM SettingsHold == PluginSpec => [](~raced => SettingsInv)
<1>1. PluginInit => (~raced => SettingsInv)
  BY InitSettings
<1>2. (~raced => SettingsInv) /\ [PluginNext]_pluginVars => (~raced => SettingsInv)'
  BY SettingsStep, RacedForGood
<1> QED BY <1>1, <1>2, PTL DEF PluginSpec

-----------------------------------------------------------------------------
(* What holds of the switches also after requests have overlapped.         *)
Asking(r) == errand[r].op \in {"update", "switched", "profile", "refresh"}

Forms ==
    /\ DOMAIN errand = Errands /\ scans \in Nat
    /\ \A t \in DOMAIN registry : /\ DOMAIN registry[t] = {"scan", "live"}
                                  /\ registry[t].scan \in Nat \X Nat
                                  /\ "enabled" \in DOMAIN registry[t].live
    /\ \A t \in DOMAIN saved : "enabled" \in DOMAIN saved[t]
    /\ \A r \in Errands :
          /\ Loading(r) => errand[r] \in [op : {"reload", "discover"}, at : 1 .. End, scan : Nat]
          /\ Asking(r) => /\ DOMAIN errand[r] = {"op", "tool", "scan", "seen", "wish"}
                          /\ errand[r].scan \in Nat \X Nat /\ errand[r].tool \in DOMAIN saved
                          /\ "enabled" \in DOMAIN errand[r].seen

(* No scan registers a plugin again that a request may have found: it is   *)
(* past the plugin's directory.                                            *)
Issued(s) == s[1] <= scans /\ \A r \in Errands : Loading(r) /\ errand[r].scan = s[1] => s[2] < errand[r].at
Fresh ==
    /\ \A t \in DOMAIN registry : Issued(registry[t].scan)
    /\ \A r \in Errands : Asking(r) => Issued(errand[r].scan)
    /\ \A r \in Errands : Loading(r) => errand[r].scan <= scans
    /\ \A q, r \in Errands : Loading(q) /\ Loading(r) /\ errand[q].scan = errand[r].scan => q = r

(* The scan that began last leaves no plugin out, whoever else loads some. *)
Latest(r) == Loading(r) /\ errand[r].scan = scans
Loaded ==
    /\ DOMAIN registry \subseteq {Directories[k].id : k \in Loadable}
    /\ \A r \in Errands : Latest(r) =>
          \A k \in Loadable : k < errand[r].at => Directories[k].id \in DOMAIN registry
    /\ (\A r \in Errands : ~Latest(r)) => \A k \in Loadable : Directories[k].id \in DOMAIN registry

(* Nobody has set the switch of a tool that is not loaded or has no row.   *)
Standing ==
    /\ \A t \in ToolNames \ DOMAIN registry : t \in DOMAIN standing /\ standing[t] = TRUE
    /\ \A t \in ToolNames \ DOMAIN saved : t \in DOMAIN standing

(* A plugin stands as it was switched, or an update of it is about to say  *)
(* so in the row.                                                          *)
Current(q, t) == Switches(q, t) /\ SameScan(registry, t, q.scan)
AsSwitched(t) ==
    \/ registry[t].live.enabled = SwitchedOn(t)
    \/ \E r \in Errands : errand[r].op = "switched" /\ Current(errand[r], t)
Agreed == \A t \in DOMAIN registry \ contested : AsSwitched(t)

(* An update that switches a registered plugin does so alone, and no other *)
(* request writes that column; one whose plugin was replaced since writes  *)
(* a row of which the switch in memory is forgotten anyway.                *)
Undisputed(r, t) ==
    IF SameScan(registry, t, errand[r].scan)
    THEN /\ \A q \in Errands : q # r => ~Switches(errand[q], t)
         /\ errand[r].seen.enabled = saved[t].enabled
         /\ errand[r].op = "switched" => registry[t].live.enabled = errand[r].wish.enabled
    ELSE t \in DOMAIN standing
Single == \A r \in Errands, t \in ToolNames \ contested : Switches(errand[r], t) => Undisputed(r, t)

PlanInv == Forms /\ Fresh /\ Loaded /\ Standing /\ Agreed /\ Single

(* The tools of the plugins that load are tools.                           *)
LEMMA LoadableTools ==
    /\ {Directories[k].id : k \in Loadable} \subseteq ToolNames
    /\ \A k \in Loadable : k \in Nat /\ k < End /\ Directories[k].id \in ToolNames
BY DirectoryFacts DEF Loadable, End

LEMMA FlushedSwitch ==
    ASSUME NEW old, NEW seen, NEW view
    PROVE  /\ "enabled" \in DOMAIN Flushed(old, seen, view)
           /\ Flushed(old, seen, view).enabled = IF view.enabled = seen.enabled THEN old.enabled
                                                 ELSE view.enabled
BY DEF Flushed, ToolRow

(* A new process has loaded everything, and every switch is on.            *)
LEMMA InitPlan == PluginInit => PlanInv
<1> SUFFICES ASSUME PluginInit PROVE PlanInv
  OBVIOUS
<1>1. /\ DOMAIN registry = {Directories[k].id : k \in Loadable} /\ DOMAIN saved = {} /\ scans = 0
      /\ \A t \in DOMAIN registry : registry[t] = [scan |-> <<0, 0>>, live |-> Default]
      /\ DOMAIN standing = ToolNames /\ \A t \in ToolNames : standing[t] = TRUE
  BY DEF PluginInit, AllLoaded, AllOn
<1>2. DOMAIN errand = Errands /\ \A r \in Errands : errand[r].op = "none"
  BY DEF PluginInit, NoErrand
<1>3. Forms
  BY <1>1, <1>2 DEF Forms, Loading, Asking, Default
<1>4. Fresh
  BY <1>1, <1>2 DEF Fresh, Issued, Loading, Asking
<1>5. Loaded
  BY <1>1, <1>2 DEF Loaded, Latest, Loading
<1>6. Standing
  BY <1>1 DEF Standing
<1>7. Agreed
  <2>1. ASSUME NEW t \in DOMAIN registry PROVE registry[t].live.enabled = SwitchedOn(t)
    <3>1. t \in ToolNames /\ registry[t].live.enabled = TRUE
      BY <1>1, <2>1, LoadableTools DEF Default
    <3>2. SwitchedOn(t) = TRUE
      BY <1>1, <3>1, Zenon DEF SwitchedOn
    <3> QED BY <3>1, <3>2
  <2> QED BY <2>1 DEF Agreed, AsSwitched
<1>8. Single
  BY <1>2 DEF Single, Switches
<1> QED BY <1>3, <1>4, <1>5, <1>6, <1>7, <1>8 DEF PlanInv

(* A step in which no tool is switched, loaded or asked for: one request   *)
(* that is no switch ends or goes on to write.                             *)
LEMMA CalmPlan ==
    ASSUME PlanInv, NEW r \in Errands, \A t : ~Switches(errand[r], t),
           DOMAIN errand' = Errands, \A q \in Errands : q # r => errand'[q] = errand[q],
           errand'[r].op \in {"over", "sync"}, Loading(r) => errand[r].at = End,
           DOMAIN registry' = DOMAIN registry,
           \A t \in DOMAIN registry :
              /\ DOMAIN registry'[t] = {"scan", "live"} /\ registry'[t].scan = registry[t].scan
              /\ "enabled" \in DOMAIN registry'[t].live
              /\ registry'[t].live.enabled = registry[t].live.enabled,
           DOMAIN saved \subseteq DOMAIN saved', \A t \in DOMAIN saved' : "enabled" \in DOMAIN saved'[t],
           \A t \in DOMAIN saved : saved'[t].enabled = saved[t].enabled,
           UNCHANGED <<scans, standing, contested>>
    PROVE  PlanInv'
<1>0. Forms /\ Fresh /\ Loaded /\ Standing /\ Agreed /\ Single
  BY DEF PlanInv
<1>1. \A q \in Errands :
        /\ Loading(q)' <=> q # r /\ Loading(q)
        /\ Asking(q)' <=> q # r /\ Asking(q)
        /\ \A t : Switches(errand'[q], t) <=> Switches(errand[q], t)
  BY DEF Loading, Asking, Switches
<1>2. \A t, s : SameScan(registry', t, s) <=> SameScan(registry, t, s)
  BY DEF SameScan
<1>3. \A t \in ToolNames : SwitchedOn(t)' = SwitchedOn(t)
  BY <1>0 DEF SwitchedOn, Standing
<1>4. DOMAIN registry \subseteq ToolNames
  BY <1>0, LoadableTools DEF Loaded
<1>5. Forms'
  BY <1>0, <1>1 DEF Forms
<1>6. Fresh'
  BY <1>0, <1>1 DEF Fresh, Issued
<1>7. Loaded'
  <2>1. \A q \in Errands : Latest(q)' <=> q # r /\ Latest(q)
    BY <1>1 DEF Latest
  <2>2. Latest(r) => \A k \in Loadable : Directories[k].id \in DOMAIN registry
    BY <1>0, LoadableTools DEF Loaded, Latest
  <2>3. ASSUME \A q \in Errands : ~Latest(q)'
        PROVE  \A k \in Loadable : Directories[k].id \in DOMAIN registry
    BY <1>0, <2>1, <2>2, <2>3 DEF Loaded
  <2>4. \A q \in Errands : Latest(q)' =>
           \A k \in Loadable : k < errand'[q].at => Directories[k].id \in DOMAIN registry
    BY <1>0, <2>1 DEF Loaded
  <2> QED BY <1>0, <2>3, <2>4 DEF Loaded
<1>8. Standing'
  BY <1>0 DEF Standing
<1>9. Agreed'
  <2>1. ASSUME NEW t \in DOMAIN registry \ contested PROVE AsSwitched(t)'
    <3>1. CASE registry[t].live.enabled = SwitchedOn(t)
      BY <1>3, <1>4, <3>1 DEF AsSwitched
    <3>2. CASE \E q \in Errands : errand[q].op = "switched" /\ Current(errand[q], t)
      <4>1. PICK q \in Errands : errand[q].op = "switched" /\ Current(errand[q], t)
        BY <3>2
      <4>2. q # r
        BY <4>1 DEF Current
      <4> QED BY <1>1, <1>2, <4>1, <4>2 DEF AsSwitched, Current
    <3> QED BY <1>0, <3>1, <3>2 DEF Agreed, AsSwitched
  <2> QED BY <2>1 DEF Agreed
<1>10. Single'
  <2>1. ASSUME NEW q \in Errands, NEW t \in ToolNames \ contested, Switches(errand'[q], t)
        PROVE  Undisputed(q, t)'
    <3>1. q # r /\ errand'[q] = errand[q] /\ Undisputed(q, t) /\ t \in DOMAIN saved
      BY <1>0, <1>1, <2>1 DEF Single, Forms, Asking, Switches
    <3> QED BY <1>1, <1>2, <3>1 DEF Undisputed, SameScan
  <2> QED BY <2>1 DEF Single
<1> QED BY <1>5, <1>6, <1>7, <1>8, <1>9, <1>10 DEF PlanInv

(* A plan and a change of the machine touch none of it.                    *)
LEMMA IdlePlan ==
    ASSUME PlanInv, UNCHANGED <<registry, saved, errand, scans, standing, contested>>
    PROVE  PlanInv'
<1>1. \A r \in Errands : Loading(r)' = Loading(r) /\ Asking(r)' = Asking(r) /\ Latest(r)' = Latest(r)
  BY DEF Loading, Asking, Latest
<1>2. Forms'
  BY <1>1 DEF PlanInv, Forms
<1>3. Fresh'
  BY <1>1 DEF PlanInv, Fresh, Issued
<1>4. Loaded' /\ Standing'
  BY <1>1 DEF PlanInv, Loaded, Standing
<1>5. Agreed' /\ Single'
  BY DEF PlanInv, Agreed, AsSwitched, SwitchedOn, Single, Undisputed, Current, Switches, SameScan
<1> QED BY <1>2, <1>3, <1>4, <1>5 DEF PlanInv

(* A scan that begins: no plugin is left, and every switch is forgotten.   *)
LEMMA BeginPlan ==
    ASSUME PlanInv, NEW r \in Errands, BeginScan(r)
    PROVE  PlanInv'
<1>0. Forms /\ Fresh /\ Loaded /\ Standing /\ Agreed /\ Single
  BY DEF PlanInv
<1> DEFINE n == scans + 1
<1>1. PICK op \in {"reload", "discover"} : Starts(r, [op |-> op, at |-> 1, scan |-> n])
  BY DEF BeginScan
<1>2. /\ errand'[r] = [op |-> op, at |-> 1, scan |-> n] /\ DOMAIN errand' = Errands
      /\ \A q \in Errands : q # r => errand'[q] = errand[q]
      /\ n \in Nat /\ errand[r].op = "none" /\ scans \in Nat
  BY <1>0, <1>1 DEF Starts, Forms, NoErrand
<1>3. /\ DOMAIN registry' = {} /\ saved' = saved /\ scans' = n /\ contested' = {}
      /\ DOMAIN standing' = ToolNames /\ \A t \in ToolNames : standing'[t] = TRUE
  BY DEF BeginScan, AllOn
<1>4. \A q \in Errands :
        /\ Loading(q)' <=> q = r \/ Loading(q)
        /\ Asking(q)' <=> Asking(q)
        /\ q # r /\ Loading(q) => errand[q].scan <= scans /\ errand[q].scan \in Nat
        /\ q = r => ~Loading(q) /\ ~Asking(q)
  BY <1>0, <1>2 DEF Loading, Asking, Fresh, Forms
<1>5. Forms'
  BY <1>0, <1>2, <1>3, <1>4, DirectoryFacts DEF Forms, End
<1>6. Fresh'
  <2>1. ASSUME NEW q \in Errands, Asking(q)' PROVE Issued(errand[q].scan)'
    <3>1. q # r /\ Asking(q) /\ errand[q].scan \in Nat \X Nat /\ Issued(errand[q].scan)
      BY <1>0, <1>4, <2>1 DEF Forms, Fresh
    <3>2. errand'[q] = errand[q] /\ errand[q].scan[1] \in Nat /\ errand[q].scan[1] <= scans
      BY <1>2, <3>1 DEF Issued
    <3>3. ASSUME NEW p \in Errands, Loading(p)', errand'[p].scan = errand[q].scan[1]
          PROVE  errand[q].scan[2] < errand'[p].at
      BY <1>2, <1>4, <3>1, <3>2, <3>3 DEF Issued
    <3> QED BY <1>2, <1>3, <3>2, <3>3 DEF Issued
  <2>2. \A q \in Errands : Loading(q)' => errand'[q].scan <= n /\ (errand'[q].scan = n => q = r)
    BY <1>2, <1>4
  <2>3. ASSUME NEW p \in Errands, NEW q \in Errands, Loading(p)', Loading(q)',
               errand'[p].scan = errand'[q].scan
        PROVE  p = q
    BY <1>0, <1>2, <1>4, <2>2, <2>3 DEF Fresh
  <2>4. \A q \in Errands : Asking(q)' => errand'[q] = errand[q]
    BY <1>2, <1>4
  <2> QED BY <1>3, <2>1, <2>2, <2>3, <2>4 DEF Fresh
<1>7. Loaded'
  <2>1. \A q \in Errands : Latest(q)' <=> q = r
    BY <1>2, <1>3, <1>4 DEF Latest
  <2>2. \A k \in Loadable : ~(k < 1)
    BY DirectoryFacts DEF Loadable
  <2> QED BY <1>2, <1>3, <2>1, <2>2 DEF Loaded
<1>8. Standing'
  BY <1>3 DEF Standing
<1>9. Agreed'
  BY <1>3 DEF Agreed
<1>10. Single'
  BY <1>3 DEF Single, Undisputed, SameScan
<1> QED BY <1>5, <1>6, <1>7, <1>8, <1>9, <1>10 DEF PlanInv

(* A new process: all is loaded, all is forgotten, nobody asks.            *)
LEMMA RestartPlan ==
    ASSUME PlanInv, Restarted
    PROVE  PlanInv'
<1>0. Forms
  BY DEF PlanInv
<1>1. /\ scans' = scans + 1 /\ saved' = saved /\ contested' = {} /\ scans \in Nat
      /\ DOMAIN registry' = {Directories[k].id : k \in Loadable}
      /\ \A t \in DOMAIN registry' : registry'[t] = [scan |-> <<scans + 1, 0>>, live |-> Default]
      /\ DOMAIN standing' = ToolNames /\ \A t \in ToolNames : standing'[t] = TRUE
  BY <1>0 DEF Restarted, AllLoaded, AllOn, Forms
<1>2. DOMAIN errand' = Errands /\ \A q \in Errands : errand'[q].op \in {"none", "over"}
  BY <1>0 DEF Restarted, InProgress, Forms
<1>3. \A q \in Errands : ~Loading(q)' /\ ~Asking(q)' /\ \A t : ~Switches(errand'[q], t)
  BY <1>2 DEF Loading, Asking, Switches
<1>4. Forms'
  <2>1. \A t \in DOMAIN registry' : /\ DOMAIN registry'[t] = {"scan", "live"}
                                    /\ registry'[t].scan \in Nat \X Nat
                                    /\ "enabled" \in DOMAIN registry'[t].live
    BY <1>1 DEF Default
  <2> QED BY <1>0, <1>1, <1>2, <1>3, <2>1 DEF Forms
<1>5. Fresh'
  BY <1>1, <1>3 DEF Fresh, Issued
<1>6. Loaded'
  BY <1>1, <1>3 DEF Loaded, Latest
<1>7. Standing'
  BY <1>1 DEF Standing
<1>8. Agreed'
  <2>1. ASSUME NEW t \in DOMAIN registry' PROVE registry'[t].live.enabled = SwitchedOn(t)'
    <3>1. t \in ToolNames /\ registry'[t].live.enabled = TRUE
      BY <1>1, <2>1, LoadableTools DEF Default
    <3>2. SwitchedOn(t)' = TRUE
      BY <1>1, <3>1, Zenon DEF SwitchedOn
    <3> QED BY <3>1, <3>2
  <2> QED BY <2>1 DEF Agreed, AsSwitched
<1>9. Single'
  BY <1>3 DEF Single
<1> QED BY <1>4, <1>5, <1>6, <1>7, <1>8, <1>9 DEF PlanInv

(* A directory is seen: what is registered already stays, and a new plugin *)
(* is nobody's yet.                                                        *)
LEMMA DirectoryPlan ==
    ASSUME PlanInv, NEW r \in Errands, ScanDirectory(r)
    PROVE  PlanInv'
<1>0. Forms /\ Fresh /\ Loaded /\ Standing /\ Agreed /\ Single
  BY DEF PlanInv
<1>1. PICK k, t, n : k = errand[r].at /\ t = Directories[k].id /\ n = errand[r].scan
  OBVIOUS
<1>2. /\ Loading(r) /\ k \in DOMAIN Directories /\ k \in Nat /\ n \in Nat /\ n <= scans
      /\ errand[r] \in [op : {"reload", "discover"}, at : 1 .. End, scan : Nat]
  BY <1>0, <1>1, DirectoryFacts DEF ScanDirectory, Scanning, Loading, Forms, Fresh
<1>3. /\ errand'[r] = [errand[r] EXCEPT !.at = k + 1] /\ DOMAIN errand' = Errands
      /\ \A q \in Errands : q # r => errand'[q] = errand[q]
      /\ UNCHANGED <<saved, scans, standing, contested>>
  BY <1>0, <1>1 DEF ScanDirectory, Forms, whys
<1>4. /\ errand'[r] \in [op : {"reload", "discover"}, at : 1 .. End, scan : Nat]
      /\ errand'[r].at = k + 1 /\ errand'[r].op = errand[r].op /\ errand'[r].scan = n
  <2>1. k + 1 \in 1 .. End
    BY <1>2, DirectoryFacts DEF End
  <2> QED BY <1>1, <1>2, <1>3, <2>1
<1>5. \A q \in Errands :
        /\ Loading(q)' <=> Loading(q)
        /\ Asking(q)' <=> Asking(q)
        /\ Asking(q) \/ q # r => errand'[q] = errand[q]
        /\ \A u : Switches(errand'[q], u) <=> Switches(errand[q], u)
  BY <1>2, <1>3, <1>4 DEF Loading, Asking, Switches
<1> DEFINE plugin == [scan |-> <<n, k>>, live |-> Default]
<1>6. /\ DOMAIN registry \subseteq DOMAIN registry'
      /\ DOMAIN registry' \subseteq DOMAIN registry \cup {t}
      /\ \A u \in DOMAIN registry : registry'[u] = registry[u]
      /\ t \in DOMAIN registry' /\ t \notin DOMAIN registry => registry'[t] = plugin /\ k \in Loadable
      /\ k \in Loadable => t \in DOMAIN registry'
  BY <1>1, <1>2, PluginAssumption DEF ScanDirectory, Registers, Plugged, Loadable
<1>7. t \in ToolNames /\ DOMAIN registry' \subseteq {Directories[i].id : i \in Loadable}
  BY <1>0, <1>1, <1>2, <1>6, DirectoryFacts DEF Loaded
<1>8. Forms'
  <2>1. \A u \in DOMAIN registry' : /\ DOMAIN registry'[u] = {"scan", "live"}
                                    /\ registry'[u].scan \in Nat \X Nat
                                    /\ "enabled" \in DOMAIN registry'[u].live
    BY <1>0, <1>2, <1>6 DEF Forms, Default
  <2> QED BY <1>0, <1>3, <1>4, <1>5, <2>1 DEF Forms
<1>9. ASSUME NEW s \in Nat \X Nat, Issued(s) PROVE Issued(s)' /\ s # <<n, k>>
  <2>1. s[1] = n => s[2] < k
    BY <1>1, <1>2, <1>9 DEF Issued
  <2>2. s[1] \in Nat /\ s[2] \in Nat
    BY <1>9
  <2> QED BY <1>2, <1>3, <1>4, <1>5, <1>9, <2>1, <2>2 DEF Issued
<1>10. Fresh'
  <2>1. Issued(<<n, k>>)'
    BY <1>0, <1>1, <1>2, <1>3, <1>4, <1>5 DEF Fresh, Issued
  <2>2. \A u \in DOMAIN registry : Issued(registry[u].scan)' /\ registry'[u] = registry[u]
    BY <1>0, <1>6, <1>9 DEF Fresh, Forms
  <2>3. \A u \in DOMAIN registry' : u \notin DOMAIN registry => registry'[u].scan = <<n, k>>
    BY <1>6
  <2>4. \A q \in Errands : Asking(q) => Issued(errand[q].scan)' /\ errand'[q] = errand[q]
    BY <1>0, <1>5, <1>9 DEF Fresh, Forms
  <2>5. \A q \in Errands : Loading(q) => errand'[q].scan = errand[q].scan
    BY <1>1, <1>3, <1>4
  <2> QED BY <1>0, <1>3, <1>5, <2>1, <2>2, <2>3, <2>4, <2>5 DEF Fresh
<1>11. Loaded'
  <2>1. \A q \in Errands : Latest(q)' <=> Latest(q)
    BY <1>1, <1>3, <1>4, <1>5 DEF Latest
  <2>2. ASSUME NEW q \in Errands, Latest(q), NEW i \in Loadable, i < errand'[q].at
        PROVE  Directories[i].id \in DOMAIN registry'
    <3>1. CASE q # r \/ i < k
      BY <1>0, <1>1, <1>3, <1>6, <2>2, <3>1 DEF Loaded
    <3>2. CASE q = r /\ ~(i < k)
      <4>1. i = k
        BY <1>2, <1>4, <2>2, <3>2, LoadableTools
      <4> QED BY <1>1, <1>6, <2>2, <4>1
    <3> QED BY <3>1, <3>2
  <2>3. (\A q \in Errands : ~Latest(q)) => \A i \in Loadable : Directories[i].id \in DOMAIN registry'
    BY <1>0, <1>6 DEF Loaded
  <2> QED BY <1>7, <2>1, <2>2, <2>3 DEF Loaded
<1>12. Standing'
  BY <1>0, <1>3, <1>6 DEF Standing
<1>13. \A u, s : SameScan(registry, u, s) => SameScan(registry', u, s)
  BY <1>6 DEF SameScan
<1>14. \A u : SwitchedOn(u)' = SwitchedOn(u)
  BY <1>3 DEF SwitchedOn
<1>15. Agreed'
  <2>1. ASSUME NEW u \in DOMAIN registry \ contested PROVE AsSwitched(u)'
    <3>1. AsSwitched(u) /\ registry'[u] = registry[u]
      BY <1>0, <1>6, <2>1 DEF Agreed
    <3>2. CASE registry[u].live.enabled = SwitchedOn(u)
      BY <1>14, <3>1, <3>2 DEF AsSwitched
    <3>3. CASE \E q \in Errands : errand[q].op = "switched" /\ Current(errand[q], u)
      <4>1. PICK q \in Errands : errand[q].op = "switched" /\ Current(errand[q], u)
        BY <3>3
      <4>2. errand'[q] = errand[q]
        BY <1>5, <4>1 DEF Asking
      <4> QED BY <1>13, <4>1, <4>2 DEF AsSwitched, Current
    <3> QED BY <3>1, <3>2, <3>3 DEF AsSwitched
  <2>2. ASSUME t \in DOMAIN registry', t \notin DOMAIN registry PROVE AsSwitched(t)'
    <3>1. registry'[t].live.enabled = TRUE
      BY <1>6, <2>2 DEF Default
    <3>2. SwitchedOn(t) = TRUE
      BY <1>0, <1>7, <2>2, Zenon DEF Standing, SwitchedOn
    <3> QED BY <1>14, <3>1, <3>2 DEF AsSwitched
  <2> QED BY <1>3, <1>6, <2>1, <2>2 DEF Agreed
<1>16. Single'
  <2>1. ASSUME NEW q \in Errands, NEW u \in ToolNames \ contested, Switches(errand'[q], u)
        PROVE  Undisputed(q, u)'
    <3>1. Switches(errand[q], u) /\ Undisputed(q, u) /\ Asking(q) /\ errand'[q] = errand[q]
      BY <1>0, <1>5, <2>1 DEF Single, Asking, Switches
    <3>2. CASE SameScan(registry, u, errand[q].scan)
      BY <1>3, <1>5, <1>6, <1>13, <3>1, <3>2 DEF Undisputed, SameScan
    <3>3. CASE ~SameScan(registry, u, errand[q].scan)
      <4>1. Issued(errand[q].scan) /\ errand[q].scan \in Nat \X Nat
        BY <1>0, <3>1 DEF Fresh, Forms
      <4>2. ~SameScan(registry', u, errand[q].scan)
        BY <1>6, <1>9, <3>3, <4>1 DEF SameScan
      <4> QED BY <1>3, <3>1, <3>3, <4>2 DEF Undisputed
    <3> QED BY <3>2, <3>3
  <2> QED BY <1>3, <2>1 DEF Single
<1> QED BY <1>8, <1>10, <1>11, <1>12, <1>15, <1>16 DEF PlanInv

(* A request finds its row and its plugin: an update that switches is the  *)
(* only one, or its tool is contested from here on.                        *)
LEMMA ReadsPlan ==
    ASSUME PlanInv, NEW r \in Errands, ToolReads(r)
    PROVE  PlanInv'
<1>0. Forms /\ Fresh /\ Loaded /\ Standing /\ Agreed /\ Single
  BY DEF PlanInv
<1>1. UNCHANGED <<registry, saved, scans, standing>>
  BY DEF ToolReads
<1>a. PICK t \in ToolNames, op \in {"update", "profile", "refresh"} : \E wish : Finds(r, op, t, wish)
  BY DEF ToolReads
<1>2. PICK wish : Finds(r, op, t, wish)
  BY <1>a
<1>3. /\ errand'[r] = [op |-> op, tool |-> t, scan |-> registry[t].scan, seen |-> saved[t], wish |-> wish]
      /\ DOMAIN errand' = Errands /\ \A q \in Errands : q # r => errand'[q] = errand[q]
      /\ errand[r].op = "none" /\ t \in DOMAIN saved /\ t \in DOMAIN registry
      /\ contested \subseteq contested'
      /\ (\E u : Switches(errand'[r], u)) /\ (\E q \in Errands : Switches(errand[q], t)) => t \in contested'
  BY <1>0, <1>a, <1>2 DEF Finds, Starts, Forms, NoErrand, Switches
<1>4. \A q \in Errands :
        /\ Loading(q)' <=> Loading(q)
        /\ Asking(q)' <=> q = r \/ Asking(q)
        /\ Loading(q) => q # r
        /\ \A u : Switches(errand'[q], u) => (q = r /\ u = t) \/ (q # r /\ Switches(errand[q], u))
        /\ \A u : q = r => ~Switches(errand[q], u)
  <2>1. ASSUME NEW q \in Errands PROVE /\ Loading(q)' <=> Loading(q)
                                       /\ Asking(q)' <=> q = r \/ Asking(q)
                                       /\ Loading(q) => q # r
    BY <1>3 DEF Loading, Asking
  <2>2. ASSUME NEW u, Switches(errand'[r], u) PROVE u = t
    BY <1>3, <2>2 DEF Switches
  <2>3. \A u : ~Switches(errand[r], u)
    BY <1>3 DEF Switches
  <2>4. ASSUME NEW q \in Errands, NEW u, Switches(errand'[q], u)
        PROVE  (q = r /\ u = t) \/ (q # r /\ Switches(errand[q], u))
    BY <1>3, <2>2, <2>4
  <2> QED BY <2>1, <2>3, <2>4
<1>5. Forms'
  BY <1>0, <1>1, <1>3, <1>4 DEF Forms
<1>6. \A s : Issued(s)' <=> Issued(s)
  BY <1>1, <1>3, <1>4 DEF Issued
<1>7. Fresh'
  BY <1>0, <1>1, <1>3, <1>4, <1>6 DEF Fresh
<1>8. Loaded' /\ Standing'
  BY <1>0, <1>1, <1>3, <1>4 DEF Loaded, Latest, Standing
<1>9. \A u : SwitchedOn(u)' = SwitchedOn(u)
  BY <1>1 DEF SwitchedOn
<1>10. Agreed'
  <2>1. ASSUME NEW u \in DOMAIN registry \ contested PROVE AsSwitched(u)'
    <3>1. CASE registry[u].live.enabled = SwitchedOn(u)
      BY <1>1, <1>9, <3>1 DEF AsSwitched
    <3>2. CASE \E q \in Errands : errand[q].op = "switched" /\ Current(errand[q], u)
      BY <1>1, <1>3, <3>2 DEF AsSwitched, Current
    <3> QED BY <1>0, <3>1, <3>2 DEF Agreed, AsSwitched
  <2> QED BY <1>1, <1>3, <2>1 DEF Agreed
<1>11. Single'
  <2>1. ASSUME NEW q \in Errands, NEW u \in ToolNames \ contested', Switches(errand'[q], u)
        PROVE  Undisputed(q, u)'
    <3>1. CASE q = r
      <4>1. u = t /\ \A p \in Errands : ~Switches(errand[p], t)
        BY <1>3, <1>4, <2>1, <3>1
      <4>2. \A p \in Errands : p # q => ~Switches(errand'[p], u)
        BY <1>3, <3>1, <4>1
      <4>3. errand'[q].seen = saved[t] /\ errand'[q].op # "switched" /\ errand'[q].scan = registry[t].scan
        BY <1>3, <3>1
      <4> QED BY <1>1, <1>3, <4>1, <4>2, <4>3 DEF Undisputed, SameScan
    <3>2. CASE q # r
      <4>1. Switches(errand[q], u) /\ Undisputed(q, u) /\ errand'[q] = errand[q]
        BY <1>0, <1>3, <1>4, <2>1, <3>2 DEF Single
      <4>2. ~Switches(errand'[r], u)
        BY <1>3, <1>4, <2>1, <4>1
      <4> QED BY <1>1, <1>3, <4>1, <4>2 DEF Undisputed, SameScan
    <3> QED BY <3>1, <3>2
  <2> QED BY <2>1 DEF Single
<1> QED BY <1>5, <1>7, <1>8, <1>10, <1>11 DEF PlanInv

(* An update switches its plugin: it goes on to say so in the row, or is   *)
(* refused, and the switch stands without it.                              *)
LEMMA SwitchPlan ==
    ASSUME PlanInv, NEW r \in Errands, UpdateSwitches(r)
    PROVE  PlanInv'
<1>0. Forms /\ Fresh /\ Loaded /\ Standing /\ Agreed /\ Single
  BY DEF PlanInv
<1>1. PICK q, t, switches, refused :
         /\ q = errand[r] /\ t = q.tool /\ refused = (Wanted(q, "rest") = "bad")
         /\ switches = ("enabled" \in DOMAIN q.wish /\ SameScan(registry, t, q.scan))
  OBVIOUS
<1>2. /\ q.op = "update" /\ Asking(r) /\ ~Loading(r) /\ t \in DOMAIN saved
      /\ DOMAIN q = {"op", "tool", "scan", "seen", "wish"} /\ UNCHANGED <<saved, scans, contested>>
      /\ switches => t \in DOMAIN registry
  BY <1>0, <1>1 DEF UpdateSwitches, Asking, Loading, Forms, SameScan
<1>3. /\ DOMAIN errand' = Errands /\ \A p \in Errands : p # r => errand'[p] = errand[p]
      /\ errand'[r] = IF refused THEN [op |-> "over"] ELSE [q EXCEPT !.op = "switched"]
  BY <1>0, <1>1 DEF UpdateSwitches, Over, Forms
<1>4. /\ ~refused => /\ DOMAIN errand'[r] = DOMAIN q /\ errand'[r].op = "switched"
                     /\ errand'[r].tool = t /\ errand'[r].scan = q.scan
                     /\ errand'[r].seen = q.seen /\ errand'[r].wish = q.wish
      /\ refused => errand'[r].op = "over"
  BY <1>1, <1>2, <1>3
<1>5. \A p \in Errands :
        /\ Loading(p)' <=> Loading(p)
        /\ Loading(p) => p # r
        /\ Asking(p)' => Asking(p) /\ errand'[p].scan = errand[p].scan
        /\ \A u : Switches(errand'[p], u) => Switches(errand[p], u)
  BY <1>1, <1>2, <1>3, <1>4 DEF Loading, Asking, Switches
<1>6. /\ DOMAIN registry' = DOMAIN registry
      /\ \A u \in DOMAIN registry : (u # t \/ ~switches) => registry'[u] = registry[u]
      /\ switches => registry'[t] = [registry[t] EXCEPT !.live = [@ EXCEPT !.enabled = q.wish.enabled]]
      /\ standing' = IF refused /\ switches THEN Plugged(standing, t, q.wish.enabled) ELSE standing
  BY <1>0, <1>1, <1>2 DEF UpdateSwitches
<1>7. \A u \in DOMAIN registry :
        /\ DOMAIN registry'[u] = {"scan", "live"} /\ registry'[u].scan = registry[u].scan
        /\ "enabled" \in DOMAIN registry'[u].live
        /\ registry'[u].live.enabled = IF u = t /\ switches THEN q.wish.enabled
                                       ELSE registry[u].live.enabled
  BY <1>0, <1>2, <1>6 DEF Forms
<1>8. \A u, s : SameScan(registry', u, s) <=> SameScan(registry, u, s)
  BY <1>6, <1>7 DEF SameScan
<1>9. /\ DOMAIN standing \subseteq DOMAIN standing'
      /\ \A u \in DOMAIN standing' : u # t \/ ~(refused /\ switches) =>
            u \in DOMAIN standing /\ standing'[u] = standing[u]
      /\ refused /\ switches => t \in DOMAIN standing' /\ standing'[t] = q.wish.enabled
  BY <1>6 DEF Plugged
<1>10. \A u : u # t \/ ~(refused /\ switches) => SwitchedOn(u)' = SwitchedOn(u)
  BY <1>2, <1>9 DEF SwitchedOn
<1>11. Forms'
  <2>1. \A u \in DOMAIN registry' : /\ DOMAIN registry'[u] = {"scan", "live"}
                                    /\ registry'[u].scan \in Nat \X Nat
                                    /\ "enabled" \in DOMAIN registry'[u].live
    BY <1>0, <1>6, <1>7 DEF Forms
  <2>2. ASSUME NEW p \in Errands, Loading(p)'
        PROVE  errand'[p] \in [op : {"reload", "discover"}, at : 1 .. End, scan : Nat]
    BY <1>0, <1>3, <1>5, <2>2 DEF Forms
  <2>3. ASSUME NEW p \in Errands, Asking(p)'
        PROVE  /\ DOMAIN errand'[p] = {"op", "tool", "scan", "seen", "wish"}
               /\ errand'[p].scan \in Nat \X Nat /\ errand'[p].tool \in DOMAIN saved
               /\ "enabled" \in DOMAIN errand'[p].seen
    <3>1. CASE p # r
      BY <1>0, <1>3, <1>5, <2>3, <3>1 DEF Forms
    <3>2. CASE p = r
      <4>1. ~refused
        BY <1>4, <2>3, <3>2 DEF Asking
      <4> QED BY <1>0, <1>1, <1>2, <1>4, <3>2, <4>1 DEF Forms
    <3> QED BY <3>1, <3>2
  <2> QED BY <1>0, <1>2, <1>3, <2>1, <2>2, <2>3 DEF Forms
<1>12. Fresh'
  <2>1. \A s : Issued(s)' <=> Issued(s)
    BY <1>2, <1>3, <1>5 DEF Issued
  <2> QED BY <1>0, <1>2, <1>3, <1>5, <1>6, <1>7, <2>1 DEF Fresh
<1>13. Loaded'
  BY <1>0, <1>2, <1>3, <1>5, <1>6 DEF Loaded, Latest
<1>14. Standing'
  BY <1>0, <1>2, <1>6, <1>9 DEF Standing
<1>15. Agreed'
  <2>1. ASSUME NEW u \in DOMAIN registry \ contested, u # t \/ ~switches PROVE AsSwitched(u)'
    <3>1. CASE registry[u].live.enabled = SwitchedOn(u)
      BY <1>7, <1>10, <2>1, <3>1 DEF AsSwitched
    <3>2. CASE \E p \in Errands : errand[p].op = "switched" /\ Current(errand[p], u)
      <4>1. PICK p \in Errands : errand[p].op = "switched" /\ Current(errand[p], u)
        BY <3>2
      <4>2. errand'[p] = errand[p]
        BY <1>1, <1>2, <1>3, <4>1
      <4> QED BY <1>8, <4>1, <4>2 DEF AsSwitched, Current
    <3> QED BY <1>0, <2>1, <3>1, <3>2 DEF Agreed, AsSwitched
  <2>2. ASSUME switches, refused PROVE AsSwitched(t)'
    BY <1>2, <1>7, <1>9, <2>2 DEF AsSwitched, SwitchedOn
  <2>3. ASSUME switches, ~refused PROVE AsSwitched(t)'
    BY <1>1, <1>4, <1>8, <2>3 DEF AsSwitched, Current, Switches
  <2> QED BY <1>2, <1>6, <2>1, <2>2, <2>3 DEF Agreed
<1>16. Single'
  <2>1. ASSUME NEW p \in Errands, NEW u \in ToolNames \ contested, Switches(errand'[p], u)
        PROVE  Undisputed(p, u)'
    <3>1. Switches(errand[p], u) /\ Undisputed(p, u)
      BY <1>0, <1>5, <2>1 DEF Single
    <3>2. /\ errand'[p].scan = errand[p].scan /\ errand'[p].seen = errand[p].seen
          /\ errand'[p].wish = errand[p].wish
      BY <1>1, <1>3, <1>4, <2>1 DEF Switches
    <3>3. CASE ~SameScan(registry, u, errand[p].scan)
      BY <1>8, <1>9, <3>1, <3>2, <3>3 DEF Undisputed
    <3>4. CASE SameScan(registry, u, errand[p].scan)
      <4>1. \A o \in Errands : o # p => ~Switches(errand[o], u)
        BY <3>1, <3>4 DEF Undisputed
      <4>2. errand'[p].seen.enabled = saved'[u].enabled
        BY <1>2, <3>1, <3>2, <3>4 DEF Undisputed
      <4>3. errand'[p].op = "switched" => registry'[u].live.enabled = errand'[p].wish.enabled
        <5>1. CASE p = r
          <6>1. u = t /\ switches
            BY <1>1, <3>1, <3>4, <5>1 DEF Switches
          <6> QED BY <1>1, <1>2, <1>7, <3>2, <5>1, <6>1
        <5>2. CASE p # r
          <6>1. ~(u = t /\ switches)
            BY <1>1, <1>2, <4>1, <5>2 DEF Switches
          <6>2. u \in DOMAIN registry
            BY <3>4 DEF SameScan
          <6> QED BY <1>3, <1>7, <3>1, <3>4, <5>2, <6>1, <6>2 DEF Undisputed
        <5> QED BY <5>1, <5>2
      <4> QED BY <1>5, <1>8, <3>2, <3>4, <4>1, <4>2, <4>3 DEF Undisputed
    <3> QED BY <3>3, <3>4
  <2> QED BY <1>2, <2>1 DEF Single
<1> QED BY <1>11, <1>12, <1>13, <1>14, <1>15, <1>16 DEF PlanInv

(* An update says in the row what it switched; what it did not switch, the *)
(* row keeps.                                                              *)
LEMMA WritePlan ==
    ASSUME PlanInv, NEW r \in Errands, UpdateWrites(r)
    PROVE  PlanInv'
<1>0. Forms /\ Fresh /\ Loaded /\ Standing /\ Agreed /\ Single
  BY DEF PlanInv
<1>1. PICK q, t, view : q = errand[r] /\ t = q.tool /\ view = UpdateView(q)
  OBVIOUS
<1>2. /\ q.op = "switched" /\ Asking(r) /\ ~Loading(r) /\ t \in DOMAIN saved
      /\ "enabled" \in DOMAIN q.seen /\ UNCHANGED <<scans, contested>>
  BY <1>0, <1>1 DEF UpdateWrites, Asking, Loading, Forms
<1>3. /\ DOMAIN errand' = Errands /\ errand'[r] = [op |-> "over"]
      /\ \A p \in Errands : p # r => errand'[p] = errand[p]
  BY <1>0, <1>1 DEF UpdateWrites, Over, Forms
<1>4. view.enabled = IF "enabled" \in DOMAIN q.wish THEN q.wish.enabled ELSE q.seen.enabled
  BY <1>1, <1>2 DEF UpdateView, Wanted
<1>5. /\ DOMAIN saved' = DOMAIN saved /\ \A u \in DOMAIN saved : u # t => saved'[u] = saved[u]
      /\ "enabled" \in DOMAIN saved'[t]
      /\ saved'[t].enabled = IF view.enabled = q.seen.enabled THEN saved[t].enabled ELSE view.enabled
  BY <1>1, <1>2, FlushedSwitch DEF UpdateWrites
<1>6. /\ DOMAIN registry' = DOMAIN registry
      /\ \A u \in DOMAIN registry :
            registry'[u] = IF u = t /\ SameScan(registry, t, q.scan)
                           THEN [registry[u] EXCEPT !.live = WithSaved(@, view)] ELSE registry[u]
  BY <1>1 DEF UpdateWrites
<1>7. \A u \in DOMAIN registry :
        /\ DOMAIN registry'[u] = {"scan", "live"} /\ registry'[u].scan = registry[u].scan
        /\ "enabled" \in DOMAIN registry'[u].live
        /\ registry'[u].live.enabled = registry[u].live.enabled
  <2> SUFFICES ASSUME NEW u \in DOMAIN registry
               PROVE  /\ DOMAIN registry'[u] = {"scan", "live"} /\ registry'[u].scan = registry[u].scan
                      /\ "enabled" \in DOMAIN registry'[u].live
                      /\ registry'[u].live.enabled = registry[u].live.enabled
    OBVIOUS
  <2>1. DOMAIN registry[u] = {"scan", "live"} /\ "enabled" \in DOMAIN registry[u].live
    BY <1>0 DEF Forms
  <2> DEFINE live == WithSaved(registry[u].live, view)
  <2>2. "enabled" \in DOMAIN live /\ live.enabled = registry[u].live.enabled
    BY <2>1 DEF WithSaved
  <2> HIDE DEF live
  <2>3. registry'[u] \in {registry[u], [registry[u] EXCEPT !.live = live]}
    BY <1>6 DEF live
  <2>4. CASE registry'[u] = registry[u]
    BY <2>1, <2>4
  <2>5. CASE registry'[u] = [registry[u] EXCEPT !.live = live]
    BY <2>1, <2>2, <2>5
  <2> QED BY <2>3, <2>4, <2>5
<1>8. standing' = IF Current(q, t) THEN Unplugged(standing, t) ELSE standing
  BY <1>1, <1>2 DEF UpdateWrites, Current, Switches
<1>9. CASE ~Switches(q, t)
  <2>1. \A u : ~Switches(errand[r], u)
    BY <1>1, <1>9 DEF Switches
  <2>2. \A u \in DOMAIN saved : "enabled" \in DOMAIN saved'[u] /\ saved'[u].enabled = saved[u].enabled
    BY <1>0, <1>1, <1>2, <1>4, <1>5, <1>9 DEF Forms, Switches
  <2>3. UNCHANGED <<scans, standing, contested>>
    BY <1>2, <1>8, <1>9 DEF Current
  <2> QED BY <1>2, <1>3, <1>5, <1>6, <1>7, <2>1, <2>2, <2>3, CalmPlan
<1>10. CASE Switches(q, t)
  <2>1. \A p \in Errands :
          /\ Loading(p)' <=> Loading(p)
          /\ Loading(p) => p # r
          /\ Asking(p)' <=> p # r /\ Asking(p)
          /\ \A u : Switches(errand'[p], u) => p # r /\ Switches(errand[p], u)
    BY <1>1, <1>2, <1>3 DEF Loading, Asking, Switches
  <2>2. \A u, s : SameScan(registry', u, s) <=> SameScan(registry, u, s)
    BY <1>6, <1>7 DEF SameScan
  <2>3. /\ \A u : u # t => (u \in DOMAIN standing' <=> u \in DOMAIN standing)
        /\ \A u \in DOMAIN standing : u # t => standing'[u] = standing[u]
        /\ Current(q, t) => t \notin DOMAIN standing'
        /\ ~Current(q, t) => standing' = standing
    BY <1>8 DEF Unplugged
  <2>4. \A u : u # t => SwitchedOn(u)' = SwitchedOn(u)
    <3> SUFFICES ASSUME NEW u, u # t PROVE SwitchedOn(u)' = SwitchedOn(u)
      OBVIOUS
    <3>1. u \in DOMAIN saved => saved'[u] = saved[u]
      BY <1>5
    <3>2. CASE u \in DOMAIN standing
      BY <2>3, <3>2 DEF SwitchedOn
    <3>3. CASE u \notin DOMAIN standing
      <4>1. saved'[u] = saved[u]
        BY <1>1, <1>2 DEF UpdateWrites
      <4> QED BY <2>3, <3>3, <4>1 DEF SwitchedOn
    <3> QED BY <3>2, <3>3
  <2>5. Forms'
    BY <1>0, <1>2, <1>3, <1>5, <1>6, <1>7, <2>1 DEF Forms
  <2>6. Fresh'
    <3>1. \A s : Issued(s)' <=> Issued(s)
      BY <1>2, <1>3, <2>1 DEF Issued
    <3> QED BY <1>0, <1>2, <1>3, <1>6, <1>7, <2>1, <3>1 DEF Fresh
  <2>7. Loaded'
    BY <1>0, <1>2, <1>3, <1>6, <2>1 DEF Loaded, Latest
  <2>8. Standing'
    <3>1. Current(q, t) => t \in DOMAIN registry
      BY DEF Current, SameScan
    <3> QED BY <1>0, <1>2, <1>5, <1>6, <2>3, <3>1 DEF Standing
  <2>9. t \in ToolNames \ contested => Undisputed(r, t)
    BY <1>0, <1>1, <1>10 DEF Single
  <2>10. Agreed'
    <3>1. ASSUME NEW u \in DOMAIN registry \ contested, u # t \/ ~Current(q, t) PROVE AsSwitched(u)'
      <4>1. SwitchedOn(u)' = SwitchedOn(u)
        <5>1. CASE u # t
          BY <2>4, <5>1
        <5>2. CASE u = t
          <6>1. t \in DOMAIN standing
            BY <1>0, <1>1, <1>10, <2>9, <3>1, <5>2, LoadableTools DEF Loaded, Undisputed, Current
          <6> QED BY <2>3, <3>1, <5>2, <6>1 DEF SwitchedOn
        <5> QED BY <5>1, <5>2
      <4>2. CASE registry[u].live.enabled = SwitchedOn(u)
        BY <1>7, <3>1, <4>1, <4>2 DEF AsSwitched
      <4>3. CASE \E p \in Errands : errand[p].op = "switched" /\ Current(errand[p], u)
        <5>1. PICK p \in Errands : errand[p].op = "switched" /\ Current(errand[p], u)
          BY <4>3
        <5>2. p # r
          BY <1>1, <3>1, <5>1 DEF Current, Switches
        <5> QED BY <1>3, <2>2, <5>1, <5>2 DEF AsSwitched, Current
      <4> QED BY <1>0, <3>1, <4>2, <4>3 DEF Agreed, AsSwitched
    <3>2. ASSUME t \in DOMAIN registry \ contested, Current(q, t) PROVE AsSwitched(t)'
      <4>1. /\ q.seen.enabled = saved[t].enabled /\ registry[t].live.enabled = q.wish.enabled
            /\ "enabled" \in DOMAIN q.wish
        BY <1>0, <1>1, <1>2, <2>9, <3>2, LoadableTools DEF Loaded, Undisputed, Current, Switches
      <4>2. saved'[t].enabled = q.wish.enabled
        BY <1>4, <1>5, <4>1
      <4>3. SwitchedOn(t)' = saved'[t].enabled
        BY <2>3, <3>2 DEF SwitchedOn
      <4> QED BY <1>7, <3>2, <4>1, <4>2, <4>3 DEF AsSwitched
    <3> QED BY <1>2, <1>6, <3>1, <3>2 DEF Agreed
  <2>11. Single'
    <3>1. ASSUME NEW p \in Errands, NEW u \in ToolNames \ contested, Switches(errand'[p], u)
          PROVE  Undisputed(p, u)'
      <4>1. p # r /\ Switches(errand[p], u) /\ Undisputed(p, u) /\ errand'[p] = errand[p]
        BY <1>0, <1>3, <2>1, <3>1 DEF Single
      <4>2. CASE SameScan(registry, u, errand[p].scan)
        <5>1. u # t /\ u \in DOMAIN saved
          BY <1>0, <1>1, <1>10, <4>1, <4>2 DEF Undisputed, Forms, Asking, Switches
        <5>2. saved'[u] = saved[u] /\ registry'[u] = registry[u]
          BY <1>5, <1>6, <4>2, <5>1 DEF SameScan
        <5> QED BY <2>1, <2>2, <4>1, <4>2, <5>2 DEF Undisputed
      <4>3. CASE ~SameScan(registry, u, errand[p].scan)
        <5>1. u = t => ~Current(q, t)
          BY <1>1, <2>9, <3>1, <4>1 DEF Undisputed, Current
        <5> QED BY <2>2, <2>3, <4>1, <4>3, <5>1 DEF Undisputed
      <4> QED BY <4>2, <4>3
    <3> QED BY <1>2, <3>1 DEF Single
  <2> QED BY <2>5, <2>6, <2>7, <2>8, <2>10, <2>11 DEF PlanInv
<1> QED BY <1>9, <1>10

(* A row written again by a request that set no switch keeps it.           *)
LEMMA EndsPlan ==
    ASSUME PlanInv, NEW r \in Errands,
           ReloadEnds(r) \/ DiscoverReads(r) \/ DiscoverWrites(r) \/ ProfileWrites(r) \/ RefreshWrites(r)
    PROVE  PlanInv'
<1>0. Forms
  BY DEF PlanInv
<1>1. /\ errand[r].op \in {"reload", "discover", "sync", "profile", "refresh"}
      /\ Loading(r) => errand[r].at = End /\ UNCHANGED <<registry, saved>>
      /\ UNCHANGED <<scans, standing, contested>>
  <2>1. ASSUME Loading(r), ~Scanning(r) PROVE errand[r].at = End
    BY <1>0, <2>1, DirectoryFacts DEF Forms, Loading, Scanning, End
  <2> QED BY <2>1 DEF ReloadEnds, DiscoverReads, DiscoverWrites, ProfileWrites, RefreshWrites, Loading, whys
<1>2. /\ DOMAIN errand' = Errands /\ errand'[r].op \in {"over", "sync"}
      /\ \A q \in Errands : q # r => errand'[q] = errand[q]
  <2>1. CASE DiscoverReads(r)
    BY <1>0, <2>1 DEF DiscoverReads, Forms
  <2>2. CASE Over(r)
    BY <1>0, <2>2 DEF Over, Forms
  <2> QED BY <2>1, <2>2 DEF ReloadEnds, DiscoverWrites, ProfileWrites, RefreshWrites
<1>3. \A t : ~Switches(errand[r], t)
  BY <1>1 DEF Switches
<1> DEFINE PluginsStay == /\ DOMAIN registry' = DOMAIN registry
                          /\ \A t \in DOMAIN registry :
                                /\ DOMAIN registry'[t] = {"scan", "live"}
                                /\ registry'[t].scan = registry[t].scan
                                /\ "enabled" \in DOMAIN registry'[t].live
                                /\ registry'[t].live.enabled = registry[t].live.enabled
           RowsStay == /\ DOMAIN saved \subseteq DOMAIN saved'
                       /\ \A t \in DOMAIN saved' : "enabled" \in DOMAIN saved'[t]
                       /\ \A t \in DOMAIN saved : saved'[t].enabled = saved[t].enabled
<1>4. ASSUME UNCHANGED registry PROVE PluginsStay
  BY <1>0, <1>4 DEF Forms
<1>5. ASSUME UNCHANGED saved PROVE RowsStay
  BY <1>0, <1>5 DEF Forms
<1>7. ASSUME DiscoverWrites(r) PROVE PluginsStay /\ RowsStay
  <2> DEFINE found == errand[r].found
             known == errand[r].rows
             View(t) == IF t \in DOMAIN known THEN known[t] ELSE NewTool
  <2>1. CASE UNCHANGED <<registry, saved>>
    BY <1>4, <1>5, <2>1
  <2>2. CASE ~UNCHANGED <<registry, saved>>
    <3>1. /\ ~\E t \in DOMAIN found : t \notin DOMAIN known /\ t \in DOMAIN saved
          /\ saved' = [t \in DOMAIN saved \cup DOMAIN found |->
                          IF t \notin DOMAIN found THEN saved[t]
                          ELSE IF t \in DOMAIN known THEN Flushed(saved[t], known[t], known[t])
                          ELSE ToolRow(NewTool, ToolStatus(TRUE))]
          /\ registry' = [t \in DOMAIN registry |->
                             IF t \in DOMAIN found /\ SameScan(registry, t, found[t].scan)
                             THEN [registry[t] EXCEPT !.live = SyncApplied(@, View(t))]
                             ELSE registry[t]]
      BY <1>7, <2>2 DEF DiscoverWrites
    <3>2. RowsStay
      <4>1. \A t \in DOMAIN saved : t \in DOMAIN found => t \in DOMAIN known
        BY <3>1
      <4>2. "enabled" \in DOMAIN ToolRow(NewTool, ToolStatus(TRUE))
        BY DEF ToolRow
      <4>3. /\ DOMAIN saved' = DOMAIN saved \cup DOMAIN found
            /\ \A t \in DOMAIN saved : saved'[t] \in {saved[t], Flushed(saved[t], known[t], known[t])}
            /\ \A t \in DOMAIN found : t \notin DOMAIN saved =>
                  saved'[t] \in {ToolRow(NewTool, ToolStatus(TRUE)), Flushed(saved[t], known[t], known[t])}
        BY <3>1, <4>1
      <4>4. ASSUME NEW t \in DOMAIN saved
            PROVE  "enabled" \in DOMAIN saved'[t] /\ saved'[t].enabled = saved[t].enabled
        <5>1. /\ "enabled" \in DOMAIN Flushed(saved[t], known[t], known[t])
              /\ Flushed(saved[t], known[t], known[t]).enabled = saved[t].enabled
          BY FlushedSwitch
        <5> QED BY <1>0, <4>3, <4>4, <5>1 DEF Forms
      <4>5. ASSUME NEW t \in DOMAIN found, t \notin DOMAIN saved PROVE "enabled" \in DOMAIN saved'[t]
        <5>1. "enabled" \in DOMAIN Flushed(saved[t], known[t], known[t])
          BY FlushedSwitch
        <5> QED BY <4>2, <4>3, <4>5, <5>1
      <4> QED BY <4>3, <4>4, <4>5
    <3>3. PluginsStay
      <4> SUFFICES ASSUME NEW t \in DOMAIN registry
                   PROVE  /\ DOMAIN registry'[t] = {"scan", "live"} /\ registry'[t].scan = registry[t].scan
                          /\ "enabled" \in DOMAIN registry'[t].live
                          /\ registry'[t].live.enabled = registry[t].live.enabled
        BY <3>1
      <4>1. DOMAIN registry[t] = {"scan", "live"} /\ "enabled" \in DOMAIN registry[t].live
        BY <1>0 DEF Forms
      <4> DEFINE live == SyncApplied(registry[t].live, View(t))
      <4>2. "enabled" \in DOMAIN live /\ live.enabled = registry[t].live.enabled
        BY <4>1 DEF SyncApplied, WithSaved
      <4>3. registry'[t] \in {registry[t], [registry[t] EXCEPT !.live = live]}
        BY <3>1
      <4> HIDE DEF live
      <4>4. CASE registry'[t] = registry[t]
        BY <4>1, <4>4
      <4>5. CASE registry'[t] = [registry[t] EXCEPT !.live = live]
        BY <4>1, <4>2, <4>5
      <4> QED BY <4>3, <4>4, <4>5
    <3> QED BY <3>2, <3>3
  <2> QED BY <2>1, <2>2
<1>8. ASSUME ProfileWrites(r) PROVE PluginsStay /\ RowsStay
  <2> DEFINE q == errand[r]
             t == q.tool
             list == IF q.wish[2] THEN q.seen.disabled \ {q.wish[1]} ELSE q.seen.disabled \cup {q.wish[1]}
             same == SameScan(registry, t, q.scan)
  <2>1. /\ saved' = [saved EXCEPT ![t].disabled = IF list = q.seen.disabled THEN @ ELSE list]
        /\ registry' = IF same THEN [registry EXCEPT ![t].live.disabled = list] ELSE registry
    BY <1>8 DEF ProfileWrites
  <2> HIDE DEF list, same
  <2>2. RowsStay
    <3>1. ASSUME NEW u \in DOMAIN saved
          PROVE  "enabled" \in DOMAIN saved'[u] /\ saved'[u].enabled = saved[u].enabled
      <4>1. "enabled" \in DOMAIN saved[u]
        BY <1>0 DEF Forms
      <4>2. saved'[u] = saved[u] \/ \E x : saved'[u] = [saved[u] EXCEPT !.disabled = x]
        BY <2>1
      <4> QED BY <4>1, <4>2
    <3>2. DOMAIN saved' = DOMAIN saved
      BY <2>1
    <3> QED BY <3>1, <3>2
  <2>3. PluginsStay
    <3>1. ASSUME NEW u \in DOMAIN registry
          PROVE  /\ DOMAIN registry'[u] = {"scan", "live"} /\ registry'[u].scan = registry[u].scan
                 /\ "enabled" \in DOMAIN registry'[u].live
                 /\ registry'[u].live.enabled = registry[u].live.enabled
      <4>1. DOMAIN registry[u] = {"scan", "live"} /\ "enabled" \in DOMAIN registry[u].live
        BY <1>0 DEF Forms
      <4> DEFINE live == [registry[u].live EXCEPT !.disabled = list]
      <4>2. "enabled" \in DOMAIN live /\ live.enabled = registry[u].live.enabled
        BY <4>1
      <4>3. registry'[u] \in {registry[u], [registry[u] EXCEPT !.live = live]}
        BY <2>1
      <4> HIDE DEF live
      <4>4. CASE registry'[u] = registry[u]
        BY <4>1, <4>4
      <4>5. CASE registry'[u] = [registry[u] EXCEPT !.live = live]
        BY <4>1, <4>2, <4>5
      <4> QED BY <4>3, <4>4, <4>5
    <3>2. DOMAIN registry' = DOMAIN registry
      BY <2>1
    <3> QED BY <3>1, <3>2
  <2> QED BY <2>2, <2>3
<1>9. ASSUME RefreshWrites(r) PROVE PluginsStay /\ RowsStay
  <2>1. PICK t, seen : saved' = [saved EXCEPT ![t] = Flushed(@, seen, seen)]
    BY <1>9 DEF RefreshWrites
  <2>2. UNCHANGED registry
    BY <1>9 DEF RefreshWrites
  <2>3. /\ DOMAIN saved' = DOMAIN saved
        /\ \A u \in DOMAIN saved : saved'[u] \in {saved[u], Flushed(saved[u], seen, seen)}
    BY <2>1
  <2>4. RowsStay
    BY <1>0, <2>3, FlushedSwitch DEF Forms
  <2> QED BY <1>4, <2>2, <2>4
<1>10. PluginsStay /\ RowsStay
  BY <1>4, <1>5, <1>7, <1>8, <1>9 DEF ReloadEnds, DiscoverReads
<1> HIDE DEF PluginsStay, RowsStay
<1>11. /\ DOMAIN registry' = DOMAIN registry
       /\ \A t \in DOMAIN registry : /\ DOMAIN registry'[t] = {"scan", "live"}
                                     /\ registry'[t].scan = registry[t].scan
                                     /\ "enabled" \in DOMAIN registry'[t].live
                                     /\ registry'[t].live.enabled = registry[t].live.enabled
       /\ DOMAIN saved \subseteq DOMAIN saved' /\ \A t \in DOMAIN saved' : "enabled" \in DOMAIN saved'[t]
       /\ \A t \in DOMAIN saved : saved'[t].enabled = saved[t].enabled
  BY <1>10 DEF PluginsStay, RowsStay
<1> QED BY <1>1, <1>2, <1>3, <1>11, CalmPlan

(* Every step keeps what a plan rests on, whatever overlaps.               *)
LEMMA PlanStep ==
    ASSUME PlanInv, [PluginNext]_pluginVars
    PROVE  PlanInv'
<1>1. ASSUME UNCHANGED pluginVars \/ Plan \/ MachineChanges PROVE PlanInv'
  <2>1. UNCHANGED <<registry, saved, errand, scans, standing, contested>>
    BY <1>1 DEF pluginVars, Plan, MachineChanges, whys
  <2> QED BY <2>1, IdlePlan
<1>2. ASSUME NEW r \in Errands,
             \/ BeginScan(r) \/ ScanDirectory(r) \/ ReloadEnds(r) \/ DiscoverReads(r) \/ DiscoverWrites(r)
             \/ ToolReads(r) \/ UpdateSwitches(r) \/ UpdateWrites(r) \/ ProfileWrites(r) \/ RefreshWrites(r)
      PROVE  PlanInv'
  BY <1>2, BeginPlan, DirectoryPlan, ReadsPlan, SwitchPlan, WritePlan, EndsPlan
<1> QED BY <1>1, <1>2, RestartPlan DEF PluginNext

THEOREM PlanInvHolds == PluginSpec => []PlanInv
<1>1. PluginInit => PlanInv
  BY InitPlan
<1>2. PlanInv /\ [PluginNext]_pluginVars => PlanInv'
  BY PlanStep
<1> QED BY <1>1, <1>2, PTL DEF PluginSpec

(* Two updates that switch one tool at once are two requests that overlap. *)
LEMMA ContestedRaced ==
    ASSUME contested # {} => raced, [PluginNext]_pluginVars
    PROVE  contested' # {} => raced'
<1>1. ASSUME NEW r \in Errands, ToolReads(r) PROVE contested' # {} => raced'
  <2>1. PICK t, op, wish : Finds(r, op, t, wish)
    BY <1>1 DEF ToolReads
  <2>2. CASE contested' = contested
    BY <1>1, <2>2, RacedForGood DEF PluginNext
  <2>3. CASE contested' # contested
    <3>1. op = "update" /\ \E q \in Errands : Switches(errand[q], t)
      BY <2>1, <2>3 DEF Finds
    <3>2. PICK q \in Errands : errand[q].op \in {"update", "switched"}
      BY <3>1 DEF Switches
    <3>3. InProgress(q) /\ Collide("update", errand[q].op)
      BY <3>2 DEF InProgress, Collide
    <3>4. raced' = (raced \/ \E p \in Errands : InProgress(p) /\ Collide("update", errand[p].op))
      BY <2>1, <3>1 DEF Finds, Starts
    <3> QED BY <3>3, <3>4, Zenon
  <2> QED BY <2>2, <2>3
<1>2. \/ \E r \in Errands : ToolReads(r)
      \/ UNCHANGED contested \/ contested' = {}
  <2>1. ASSUME NEW r \in Errands,
               \/ ScanDirectory(r) \/ ReloadEnds(r) \/ DiscoverReads(r) \/ DiscoverWrites(r)
               \/ UpdateSwitches(r) \/ UpdateWrites(r) \/ ProfileWrites(r) \/ RefreshWrites(r)
        PROVE  UNCHANGED contested
    BY <2>1 DEF ScanDirectory, ReloadEnds, DiscoverReads, DiscoverWrites, UpdateSwitches, UpdateWrites,
                ProfileWrites, RefreshWrites, whys
  <2>2. ASSUME NEW r \in Errands, BeginScan(r) PROVE contested' = {}
    BY <2>2 DEF BeginScan
  <2>3. ASSUME Restarted PROVE contested' = {}
    BY <2>3 DEF Restarted
  <2>4. ASSUME Plan \/ MachineChanges \/ UNCHANGED pluginVars PROVE UNCHANGED contested
    BY <2>4 DEF Plan, MachineChanges, pluginVars, whys
  <2> QED BY <2>1, <2>2, <2>3, <2>4 DEF PluginNext
<1> QED BY <1>1, <1>2, RacedForGood

(* With no request under way, every plugin that loads is there and lives   *)
(* by the settings saved for its tool, with the exceptions                 *)
(* LivesBySavedSettings names, and stands as it was switched: whatever     *)
(* order scans, discoveries, updates and restarts come in.                 *)
THEOREM LivesBySettings == PluginSpec => []LivesBySavedSettings
<1>1. (~raced => SettingsInv) /\ PlanInv /\ (contested # {} => raced) => LivesBySavedSettings
  <2> SUFFICES ASSUME SettingsInv, PlanInv, Quiet, contested = {} PROVE LivesBySavedSettings
    BY DEF LivesBySavedSettings
  <2>1. \A r \in Errands : errand[r].op \in {"none", "over"}
    BY DEF Quiet, InProgress
  <2>2. LoadedUpTo(End)
    BY <2>1 DEF SettingsInv, Loads, Loading
  <2>3. \A t \in DOMAIN saved : (saved[t].status = "DISABLED") = ~saved[t].enabled
    BY DEF SettingsInv, Agree, SettingsTyped, ToolRows
  <2>4. \A t \in DOMAIN registry : registry[t].live.enabled = SwitchedOn(t)
    BY <2>1 DEF PlanInv, Agreed, AsSwitched
  <2> QED BY <2>2, <2>3, <2>4, LoadedAll DEF SettingsInv, Agree, LivesBySavedSettings, Default
<1>2. PluginInit => (contested # {} => raced)
  BY DEF PluginInit
<1>3. (contested # {} => raced) /\ [PluginNext]_pluginVars => (contested # {} => raced)'
  BY ContestedRaced
<1>4. PluginSpec => [](contested # {} => raced)
  BY <1>2, <1>3, PTL DEF PluginSpec
<1> QED BY <1>1, <1>4, SettingsHold, PlanInvHolds, PTL

(* A plan runs what its user switched on, and only that: beside any other  *)
(* request, after any two have overlapped, and since the plugins were      *)
(* loaded, with the exceptions PlansAsSwitched names.                      *)
THEOREM PlansSwitched == PluginSpec => PlansAsSwitched
<1>1. ASSUME PlanInv, [PluginNext]_pluginVars, jobs' # jobs,
             NEW j \in jobs', j.tool \notin contested, ~BeingSwitched(j.tool)
      PROVE  LET due == /\ SwitchedOn(j.tool) /\ Healthy /\ <<j.tool, j.target>> \in Accepted
                        /\ j.tool \in {Directories[k].id : k \in Loadable}
             IN  /\ j.status = "PENDING" => due
                 /\ due /\ ~BeingLoaded => j.status = "PENDING"
  <2>1. Plan
    BY <1>1 DEF PluginNext, BeginScan, ScanDirectory, ReloadEnds, DiscoverReads, DiscoverWrites, ToolReads,
           UpdateSwitches, UpdateWrites, ProfileWrites, RefreshWrites, MachineChanges, Restarted, pluginVars
  <2>2. PICK t, type : j = Planned(t, type)
    BY <1>1, <2>1 DEF Plan
  <2>3. /\ j.tool = t /\ j.target = type
        /\ j.status = "PENDING" <=> /\ t \in DOMAIN registry /\ registry[t].live.enabled
                                    /\ Healthy /\ <<t, type>> \in Accepted
    BY <2>2 DEF Planned
  <2>4. t \in DOMAIN registry => registry[t].live.enabled = SwitchedOn(t)
    BY <1>1, <2>3 DEF PlanInv, Agreed, AsSwitched, BeingSwitched, Current
  <2>5. DOMAIN registry \subseteq {Directories[k].id : k \in Loadable}
    BY <1>1 DEF PlanInv, Loaded
  <2>6. ASSUME ~BeingLoaded PROVE {Directories[k].id : k \in Loadable} \subseteq DOMAIN registry
    <3>1. ASSUME NEW r \in Errands, Latest(r) PROVE errand[r].at = End
      BY <1>1, <2>6, <3>1, DirectoryFacts
         DEF PlanInv, Forms, Latest, BeingLoaded, Scanning, Loading, End
    <3>2. \A k \in Loadable : Directories[k].id \in DOMAIN registry
      BY <1>1, <3>1, LoadableTools DEF PlanInv, Loaded
    <3> QED BY <3>2
  <2> QED BY <2>3, <2>4, <2>5, <2>6
<1>2. ASSUME PlanInv, [PluginNext]_pluginVars
      PROVE  [jobs' # jobs =>
                \A j \in jobs' : j.tool \notin contested /\ ~BeingSwitched(j.tool) =>
                   LET due == /\ SwitchedOn(j.tool) /\ Healthy /\ <<j.tool, j.target>> \in Accepted
                              /\ j.tool \in {Directories[k].id : k \in Loadable}
                   IN  /\ j.status = "PENDING" => due
                       /\ due /\ ~BeingLoaded => j.status = "PENDING"]_pluginVars
  BY <1>1, <1>2
<1> QED BY <1>2, PlanInvHolds, PTL DEF PlansAsSwitched, PluginSpec
=============================================================================
