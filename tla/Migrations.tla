----------------------------- MODULE Migrations -----------------------------
(***************************************************************************)
(* The revisions of database/migrations/versions as changes of a schema,   *)
(* and the life of one database under `alembic upgrade` and `downgrade`.   *)
(* An Alter is one batch_alter_table block (or several of one table).      *)
(*                                                                         *)
(* alembic runs each revision in a transaction of its own, but on SQLite   *)
(* that transaction begins with the first statement that writes rows: the  *)
(* copy of the first table that a batch block rebuilds, or else the row of *)
(* alembic_version.  What a revision created, renamed or dropped before    *)
(* that stays when it stops halfway.                                       *)
(***************************************************************************)
EXTENDS SchemaModels, SequencesExt

CONSTANT MaxStops  \* bound: attempts that stop halfway and leave something

VARIABLES at,      \* how many revisions the database is at
          schema,  \* its tables
          rows,    \* the tables that hold rows a revision looks at
          sheds,   \* whether a batch rebuild can drop a column with an enum CHECK
          left     \* history: <<way, revision>> of the attempts that stopped
                   \* halfway and left something

migrationVars == <<at, schema, rows, sheds, left>>

-----------------------------------------------------------------------------
(* The operations a revision is made of.                                   *)

Unchanged == [opt |-> {}, req |-> {}, defaulted |-> {}, drop |-> {}, require |-> {},
              relax |-> {}, fks |-> {}, nofks |-> {}, keys |-> {}, nokeys |-> {},
              checks |-> {}, nochecks |-> {}]

Create(t, table) == [op |-> "create", t |-> t, x |-> table]
DropTable(t) == [op |-> "drop", t |-> t]
RenameTable(t, to) == [op |-> "rename", t |-> t, x |-> to]
RenameCol(t, col, to) == [op |-> "column", t |-> t, x |-> <<col, to>>]
Alter(t, change) == [op |-> "alter", t |-> t, x |-> change @@ Unchanged]

Columns(table) == table.req \cup table.opt
Swap(S, a, b) == IF a \in S THEN (S \ {a}) \cup {b} ELSE S

(* The table after a batch rebuild.  A CHECK put on a column replaces the  *)
(* one it had; an enum CHECK goes with its column when the rebuild sheds.  *)
Rebuilt(b, c) ==
    [req |-> (b.req \ (c.drop \cup c.relax)) \cup c.req \cup c.defaulted \cup c.require,
     opt |-> (b.opt \ (c.drop \cup c.require)) \cup c.opt \cup c.relax,
     fks |-> {f \in b.fks : f[1] \notin c.nofks} \cup c.fks,
     keys |-> (b.keys \ c.nokeys) \cup c.keys,
     checks |-> {k \in b.checks : k[1] \notin c.nochecks \cup c.drop
                                  /\ \A n \in c.checks : n[1] # k[1]} \cup c.checks]

WithColumn(b, col, to) ==
    [b EXCEPT !.req = Swap(@, col, to), !.opt = Swap(@, col, to),
              !.fks = {IF f[1] = col THEN Fk(to, f[2], f[3]) ELSE f : f \in @}]

WithParent(b, t, to) ==
    [b EXCEPT !.fks = {IF f[2] = t THEN Fk(f[1], to, f[3]) ELSE f : f \in @}]

Apply(s, o) ==
    CASE o.op = "create" -> [t \in DOMAIN s \cup {o.t} |-> IF t = o.t THEN o.x ELSE s[t]]
      [] o.op = "drop"   -> [t \in DOMAIN s \ {o.t} |-> s[t]]
      [] o.op = "rename" -> [t \in Swap(DOMAIN s, o.t, o.x) |->
                                WithParent(s[IF t = o.x THEN o.t ELSE t], o.t, o.x)]
      [] o.op = "column" -> [s EXCEPT ![o.t] = WithColumn(@, o.x[1], o.x[2])]
      [] o.op = "alter"  -> [s EXCEPT ![o.t] = Rebuilt(@, o.x)]

(* A batch block that only adds columns without a CHECK, or adds and drops *)
(* indexes, is run as it stands; any other copies its table's rows to a    *)
(* temporary one, which then takes the table's place.                      *)
Temporary(t) == "_alembic_tmp_" \o t

InPlace(c) ==
    /\ c.drop \cup c.require \cup c.relax \cup c.defaulted = {}
    /\ c.fks = {} /\ c.nofks = {} /\ c.checks = {} /\ c.nochecks = {}

CopiesTable(o) == o.op = "column" \/ (o.op = "alter" /\ ~InPlace(o.x))

(* What the database refuses: a table or column that exists, or does not,  *)
(* a constraint to drop that is not there, a column dropped or renamed     *)
(* under a key, a NOT NULL column without a default on a table with rows,  *)
(* a rebuild whose temporary table an earlier one left behind.             *)
AlterFits(b, c, filled) ==
    LET Checked(cols) == {k \in b.checks : k[1] \in cols} IN
    /\ (c.opt \cup c.req \cup c.defaulted) \cap Columns(b) = {}
    /\ c.drop \cup c.require \cup c.relax \subseteq Columns(b) \cup c.opt
    /\ c.nofks \subseteq {f[1] : f \in b.fks}
    /\ c.nokeys \subseteq b.keys
    /\ c.nochecks \subseteq {k[1] : k \in b.checks}
    /\ \A k \in b.keys \ c.nokeys : k \cap c.drop = {}
    /\ \A f \in b.fks : f[1] \in c.drop => f[1] \in c.nofks
    /\ Checked(c.drop) # {} => sheds
    /\ c.req # {} => ~filled

Fits(s, o) == (CopiesTable(o) => Temporary(o.t) \notin DOMAIN s) /\
    CASE o.op = "create" -> o.t \notin DOMAIN s
      [] o.op = "drop"   -> o.t \in DOMAIN s
      [] o.op = "rename" -> o.t \in DOMAIN s /\ o.x \notin DOMAIN s
      [] o.op = "column" -> /\ o.t \in DOMAIN s
                            /\ o.x[1] \in Columns(s[o.t]) /\ o.x[2] \notin Columns(s[o.t])
                            /\ \A k \in s[o.t].keys : o.x[1] \notin k
                            /\ \A k \in s[o.t].checks : k[1] # o.x[1]
      [] o.op = "alter"  -> o.t \in DOMAIN s /\ AlterFits(s[o.t], o.x, o.t \in rows)

AfterAll(s, ops) == FoldLeft(Apply, s, ops)
AllFit(s, ops) ==
    LET Then(run, o) == IF run.fits /\ Fits(run.to, o) THEN [run EXCEPT !.to = Apply(@, o)]
                        ELSE [run EXCEPT !.fits = FALSE]
    IN  FoldLeft(Then, [to |-> s, fits |-> TRUE], ops).fits

(* What is left of a revision that stops: the operations before the first  *)
(* copy, as far as it got, and the empty table that the copy was to fill.  *)
BeforeCopy(ops) ==
    IF \E i \in DOMAIN ops : CopiesTable(ops[i])
    THEN SubSeq(ops, 1, Min({i \in DOMAIN ops : CopiesTable(ops[i])}) - 1) ELSE ops

Halfway(s, o) == (Temporary(o.t) :> Apply(s, o)[o.t]) @@ s

Remains(s, ops) ==
    LET first == BeforeCopy(ops)
        all == AfterAll(s, first)
    IN  {[done |-> SubSeq(first, 1, n), tables |-> AfterAll(s, SubSeq(first, 1, n))] :
            n \in {n \in DOMAIN first : AllFit(s, SubSeq(first, 1, n))}}
        \cup
        {[done |-> first, tables |-> Halfway(all, ops[i])] :
            i \in {i \in {Len(first) + 1} \cap DOMAIN ops :
                     AllFit(s, first) /\ Fits(all, ops[i])}}

-----------------------------------------------------------------------------
(* 1, d2bf6f4862f6: the core tables.  No enum has a CHECK yet.             *)

Unchecked(table) == [table EXCEPT !.checks = {}]

OldAssessment == Table(
    Stamped \cup {"name", "assessment_type", "status"},
    {"description", "started_at", "completed_at"}, {}, {}, {})

OldTarget == Table(
    Stamped \cup {"assessment_id", "target_type", "target_value"}, {"resolved_ip", "notes"},
    {OfAssessment}, {{"assessment_id", "target_value"}}, {})

OldTool == Table(
    Created \cup {"name", "display_name", "is_installed", "enabled", "default_timeout"},
    {"version", "installation_path"}, {}, {{"name"}}, {})

OldToolConfiguration == Table(
    Created \cup {"tool_id"},
    {"timeout", "proxy", "headers_json", "environment_json", "arguments_json",
     "wordlists_json"},
    {Fk("tool_id", "tools", "CASCADE")}, {{"tool_id"}}, {})

OldToolExecution == Table(
    {"id", "assessment_id", "target_id", "tool_id", "status"},
    {"started_at", "completed_at", "duration", "return_code", "stdout_path", "stderr_path",
     "log_path"},
    {OfAssessment, Fk("target_id", "targets", "CASCADE"), Fk("tool_id", "tools", "RESTRICT")},
    {}, {})

OldFinding == Table(
    Stamped \cup {"execution_id", "title", "severity", "confidence", "status"},
    {"description", "category", "cvss_score", "cwe", "owasp", "remediation"},
    {OfExecution}, {}, {<<"cvss_score_range", 0>>})

OldFindings ==
    <<Create("findings", OldFinding), Create("finding_evidence", FindingEvidence),
      Create("finding_references", Unchecked(FindingReference))>>

CoreTables ==
    <<Create("application_settings", ApplicationSetting), Create("assessments", OldAssessment),
      Create("tools", OldTool), Create("analyst_notes", AnalystNote),
      Create("assessment_tools", AssessmentTool), Create("attachments", Attachment),
      Create("reports", Unchecked(Report)), Create("targets", OldTarget),
      Create("tool_configurations", OldToolConfiguration)>>

ExecutionTables ==
    <<Create("tool_executions", OldToolExecution),
      Create("raw_tool_outputs", [RawToolOutput EXCEPT !.checks = {<<"has_content", 0>>}])>>
    \o OldFindings

DropCore ==
    LET order == <<"finding_references", "finding_evidence", "raw_tool_outputs", "findings",
                   "tool_executions", "tool_configurations", "targets", "reports",
                   "attachments", "assessment_tools", "analyst_notes", "tools",
                   "assessments", "application_settings">>
    IN  [i \in DOMAIN order |-> DropTable(order[i])]

(* 2, 67c183630e38: soft delete, history, tags; the enums get their CHECKs. *)
FindingEnums == {Enum("severity", 5), Enum("confidence", 4), Enum("status", 6)}

AddManagement ==
    <<Create("assessment_history_entries",
             [AssessmentHistoryEntry EXCEPT !.checks = {Enum("event_type", 11)}]),
      Create("assessment_tags", AssessmentTag),
      Alter("assessments",
            [opt |-> {"previous_status", "deleted_at"},
             keys |-> {{"name", "WHERE deleted_at IS NULL"}},
             checks |-> {Enum("assessment_type", 8), Enum("status", 7),
                         Enum("previous_status", 7)}]),
      Alter("targets", [defaulted |-> {"enabled"}, checks |-> {Enum("target_type", 6)}]),
      Alter("tool_executions", [checks |-> {Enum("status", 6)}]),
      Alter("raw_tool_outputs", [checks |-> {Enum("format", 5)}]),
      Alter("findings", [checks |-> FindingEnums]),
      Alter("finding_references", [checks |-> {Enum("reference_type", 6)}]),
      Alter("reports", [checks |-> {Enum("report_type", 4)}])>>

DropManagement ==
    <<Alter("reports", [nochecks |-> {"report_type"}]),
      Alter("finding_references", [nochecks |-> {"reference_type"}]),
      Alter("findings", [nochecks |-> {"severity", "confidence", "status"}]),
      Alter("raw_tool_outputs", [nochecks |-> {"format"}]),
      Alter("tool_executions", [nochecks |-> {"status"}]),
      Alter("targets", [drop |-> {"enabled"}, nochecks |-> {"target_type"}]),
      Alter("assessments",
            [drop |-> {"previous_status", "deleted_at"},
             nokeys |-> {{"name", "WHERE deleted_at IS NULL"}},
             nochecks |-> {"assessment_type", "status"}]),
      DropTable("assessment_tags"), DropTable("assessment_history_entries")>>

(* 3, 15d36d2a4f40: what a tool is configured with and how it fares.       *)
ToolSettings == {"working_directory", "custom_executable_path", "http_proxy", "https_proxy",
                 "socks_proxy", "rate_limit", "retries", "output_directory", "temp_directory"}

AddToolStatus ==
    <<Alter("tool_configurations", [opt |-> ToolSettings, drop |-> {"proxy"}]),
      Alter("tools", [req |-> {"status"},
                      opt |-> {"health_status", "health_message", "last_checked_at"},
                      checks |-> {Enum("status", 5), Enum("health_status", 3)}])>>

DropToolStatus ==
    <<Alter("tools", [drop |-> {"last_checked_at", "health_message", "health_status",
                                "status"}]),
      Alter("tool_configurations", [opt |-> {"proxy"}, drop |-> ToolSettings])>>

(* 4, a264a27eb29e: the states of the execution engine.                    *)
AddEngineStates ==
    <<Alter("tool_executions", [defaulted |-> {"retry_count", "created_at"},
                                opt |-> {"status_message"}, checks |-> {Enum("status", 9)}]),
      Alter("assessment_history_entries", [checks |-> {Enum("event_type", 15)}])>>

DropEngineStatesPartly ==
    <<Alter("assessment_history_entries", [checks |-> {Enum("event_type", 11)}]),
      Alter("tool_executions", [drop |-> {"status_message", "retry_count"},
                                checks |-> {Enum("status", 6)}])>>

DropEngineStates ==
    <<Alter("assessment_history_entries", [checks |-> {Enum("event_type", 11)}]),
      Alter("tool_executions", [drop |-> {"status_message", "retry_count", "created_at"},
                                checks |-> {Enum("status", 6)}])>>

(* 5, 63098bf45bce: assets, observations and services, one set per job.    *)
OfAsset == Fk("asset_id", "assets", "CASCADE")
ProfileColumns == {"profile_id", "generated_command", "advanced_options"}

AddAssets ==
    <<Create("assets", Table(
          Created \cup {"execution_id", "state"},
          {"ip_address", "hostname", "mac_address", "mac_vendor", "os_name", "os_accuracy"},
          {OfExecution}, {}, {Enum("state", 3)})),
      Create("observations", Table(
          Created \cup {"execution_id", "source", "title"}, {"asset_id", "port", "detail"},
          {OfAsset, OfExecution}, {}, {})),
      Create("services", Table(
          Created \cup {"asset_id", "port", "protocol", "state"},
          {"service_name", "product", "version", "extra_info"},
          {OfAsset}, {}, {Enum("protocol", 2), Enum("state", 6)})),
      Alter("tool_executions", [opt |-> {"profile_id"}]),
      Alter("tool_executions", [opt |-> {"generated_command"}]),
      Alter("tool_executions", [opt |-> {"advanced_options"}])>>

DropAssets ==
    <<Alter("tool_executions", [drop |-> ProfileColumns]), DropTable("services"),
      DropTable("observations"), DropTable("assets")>>

-----------------------------------------------------------------------------
(* 6, d151c8e205d2: the inventory, kept across the jobs of an assessment.  *)

OnAsset(table) == WithColumn(WithParent(table, "discovered_hosts", "assets"),
                             "host_id", "asset_id")
AssetKeys(table) == [OnAsset(table) EXCEPT
                         !.keys = {Swap(k, "host_id", "asset_id") : k \in @}]

AddInventoryTables ==
    <<Create("execution_assets", AssetKeys(ExecutionHost)),
      Create("network_interfaces", AssetKeys(NetworkInterface)),
      Create("operating_systems", AssetKeys(OperatingSystem)),
      Create("fingerprints", AssetKeys(Fingerprint)),
      Create("technologies", AssetKeys(Technology)),
      Create("execution_observations", ExecutionObservation),
      Create("observation_evidence", ObservationEvidence)>>

AddInventoryColumns ==
    <<Alter("assets", [opt |-> Seen \cup {"assessment_id", "fqdn", "ipv4", "ipv6", "asset_type",
                                          "fingerprint", "source_execution_id"},
                       checks |-> {Enum("asset_type", 5), <<"assettype", 5>>}]),
      Alter("observations", [opt |-> Seen \cup {"service_id", "plugin", "category",
                                                "observation_type", "fingerprint"},
                             relax |-> {"execution_id"}, checks |-> {Enum("category", 7)}]),
      Alter("services", [opt |-> Seen \cup {"vendor", "banner", "fingerprint"}])>>

TightenInventory ==
    <<Alter("assets",
            [require |-> Seen \cup {"assessment_id", "asset_type", "fingerprint"},
             drop |-> {"execution_id", "ip_address", "os_name", "os_accuracy"},
             keys |-> {{"assessment_id", "fingerprint"}}, nofks |-> {"execution_id"},
             fks |-> {FoundBy, OfAssessment}]),
      Alter("observations",
            [require |-> Seen \cup {"category", "fingerprint"},
             keys |-> {{"asset_id", "fingerprint"}}, nofks |-> {"execution_id"},
             fks |-> {Fk("service_id", "services", "CASCADE"),
                      Fk("execution_id", "tool_executions", "SET NULL")}]),
      Alter("services", [require |-> Seen \cup {"fingerprint"},
                         keys |-> {{"asset_id", "fingerprint"}}])>>

(* The columns category and asset_type stay behind, no longer required by  *)
(* anything, and an asset's execution_id comes back nullable.              *)
DropInventory ==
    <<Alter("services", [drop |-> Seen \cup {"fingerprint", "banner", "vendor"},
                         nokeys |-> {{"asset_id", "fingerprint"}}]),
      Alter("observations",
            [drop |-> Seen \cup {"fingerprint", "observation_type", "plugin", "service_id"},
             require |-> {"execution_id"}, nofks |-> {"execution_id", "service_id"},
             fks |-> {OfExecution}, nokeys |-> {{"asset_id", "fingerprint"}}]),
      Alter("assets",
            [opt |-> {"os_accuracy", "os_name", "ip_address", "execution_id"},
             drop |-> Seen \cup {"source_execution_id", "fingerprint", "ipv6", "ipv4", "fqdn",
                                 "assessment_id"},
             nofks |-> {"assessment_id", "source_execution_id"}, fks |-> {OfExecution},
             nokeys |-> {{"assessment_id", "fingerprint"}}])>>
    \o [i \in 1 .. 7 |->
          DropTable(<<"observation_evidence", "execution_observations", "technologies",
                      "fingerprints", "operating_systems", "network_interfaces",
                      "execution_assets">>[i])]

(* 7, f3a9c1d5e7b2: findings made by correlation, no longer by one job.    *)
DropFindings ==
    <<DropTable("finding_references"), DropTable("finding_evidence"), DropTable("findings")>>

AddCorrelation ==
    DropFindings \o
    <<Create("findings", [OnAsset(Finding) EXCEPT !.keys = {{"assessment_id", "fingerprint"}}]),
      Create("finding_evidence", FindingEvidence),
      Create("finding_references", FindingReference),
      Create("finding_observations", FindingObservation),
      Create("correlation_runs", WithColumn(CorrelationRun, "hosts_evaluated",
                                            "assets_evaluated"))>>

DropCorrelation ==
    <<DropTable("correlation_runs"), DropTable("finding_observations")>>
    \o DropFindings \o OldFindings

-----------------------------------------------------------------------------
(* 8, fb8c47562214: assets become hosts, and belong to targets.  A key is  *)
(* dropped before the column under it is renamed, and put back after.      *)

Rekeyed(t, from, to, old, new) ==
    <<Alter(t, [nokeys |-> old]), RenameCol(t, from, to), Alter(t, [keys |-> new])>>

FkTargetLoose == Fk("target_id", "targets", "SET NULL")
FkTarget == Fk("target_id", "targets", "CASCADE")
HasOwner == <<"fingerprint_has_owner", 0>>

DependentsRenamed(from, to, links) ==
    LET Keyed(t, columns) ==
          Rekeyed(t, from, to, {columns \cup {from}}, {columns \cup {to}})
    IN  Keyed(links, {"execution_id"}) \o Keyed("services", {"fingerprint"})
        \o Keyed("technologies", {"service_id", "name"})
        \o Keyed("operating_systems", {"name", "version"})
        \o Keyed("network_interfaces", {"ip_address"}) \o Keyed("observations", {"fingerprint"})
        \o <<RenameCol("findings", from, to),
             Alter("fingerprints", [nochecks |-> {HasOwner[1]}]),
             RenameCol("fingerprints", from, to), Alter("fingerprints", [checks |-> {HasOwner}])>>

OwnHostsByTarget ==
    <<RenameTable("assets", "discovered_hosts"),
      RenameTable("execution_assets", "execution_hosts"),
      Alter("discovered_hosts", [opt |-> {"target_id"},
                                 nochecks |-> {"asset_type", "assettype"}]),
      RenameCol("discovered_hosts", "asset_type", "host_type"),
      Alter("discovered_hosts", [checks |-> {Enum("host_type", 5)}, fks |-> {FkTarget},
                                 nokeys |-> {{"assessment_id", "fingerprint"}},
                                 keys |-> {{"target_id", "fingerprint"}}])>>
    \o DependentsRenamed("asset_id", "host_id", "execution_hosts")
    \o <<RenameCol("correlation_runs", "assets_evaluated", "hosts_evaluated")>>

OwnHostsByAssessment ==
    <<RenameCol("correlation_runs", "hosts_evaluated", "assets_evaluated")>>
    \o DependentsRenamed("host_id", "asset_id", "execution_hosts")
    \o <<Alter("discovered_hosts", [nofks |-> {"target_id"}, nochecks |-> {"host_type"},
                                    nokeys |-> {{"target_id", "fingerprint"}},
                                    drop |-> {"target_id"}]),
         RenameCol("discovered_hosts", "host_type", "asset_type"),
         Alter("discovered_hosts", [checks |-> {Enum("asset_type", 5)},
                                    keys |-> {{"assessment_id", "fingerprint"}}]),
         RenameTable("execution_hosts", "execution_assets"),
         RenameTable("discovered_hosts", "assets")>>

(* 9, a1b2c3d4e5f6 *)
KeyFindings(old, new) ==
    <<Alter("findings", [nokeys |-> {old}]), Alter("findings", [keys |-> {new}])>>
PerAssessment == {"assessment_id", "fingerprint"}
PerHost == {"assessment_id", "host_id", "fingerprint"}

(* 10, d12d16aab9d9 *)
AddDiagnosticsPartly ==
    <<Alter("tool_configurations", [opt |-> {"disabled_profiles_json"}])>>
AddDiagnostics ==
    <<Alter("tool_configurations", [opt |-> {"disabled_profiles_json"}]),
      Alter("tools", [opt |-> {"last_validated_at"}])>>
DropDiagnostics ==
    <<Alter("tools", [drop |-> {"last_validated_at"}]),
      Alter("tool_configurations", [drop |-> {"disabled_profiles_json"}])>>

(* 11, a4e6f1c2d8b7 *)
DiscoveredFrom == Fk("discovered_from_execution_id", "tool_executions", "SET NULL")

AddPipeline ==
    <<Create("pipeline_runs", PipelineRun), Create("pipeline_jobs", PipelineJob),
      Alter("targets", [defaulted |-> {"origin"}, opt |-> {DiscoveredFrom[1]},
                        checks |-> {Enum("origin", 2)}, fks |-> {DiscoveredFrom}])>>
DropPipeline ==
    <<Alter("targets", [drop |-> {"origin", DiscoveredFrom[1]}, nofks |-> {DiscoveredFrom[1]}]),
      DropTable("pipeline_jobs"), DropTable("pipeline_runs")>>

-----------------------------------------------------------------------------
Ups == <<CoreTables \o ExecutionTables, AddManagement, AddToolStatus, AddEngineStates,
         AddAssets, AddInventoryTables \o AddInventoryColumns \o TightenInventory,
         AddCorrelation, OwnHostsByTarget, KeyFindings(PerAssessment, PerHost),
         AddDiagnostics, AddPipeline>>
Downs == <<DropCore, DropManagement, DropToolStatus, DropEngineStates, DropAssets,
           DropInventory, DropCorrelation, OwnHostsByAssessment,
           KeyFindings(PerHost, PerAssessment), DropDiagnostics, DropPipeline>>
Newest == Len(Ups)

(* The rows that follow their table: the revisions rename assets, and drop *)
(* the tables of findings.                                                 *)
RowsAfter(ops) ==
    LET renamed == {o \in ToSet(ops) : o.op = "rename"}
        Moved(t) == IF \E o \in renamed : o.t = t THEN (CHOOSE o \in renamed : o.t = t).x ELSE t
    IN  {Moved(t) : t \in {t \in rows : DropTable(t) \notin ToSet(ops)}}

(* Revision 2 gives enums that lost members a CHECK, and names a unique    *)
(* index; revision 6 computes fingerprints with a function and an argument *)
(* that fingerprinting.py no longer has, and raises on the first asset or  *)
(* observation; revision 7 begins with a refusal to run when there are     *)
(* findings.                                                               *)
RefusesAssets ==
    \/ at + 1 = 2 /\ {"assessments", "targets"} \cap rows # {}
    \/ at + 1 = 6 /\ {"assets", "observations"} \cap rows # {}

Refuses ==
    \/ at + 1 = 2 /\ {"assessments", "targets"} \cap rows # {}
    \/ at + 1 = 6 /\ {"assets", "observations"} \cap rows # {}
    \/ at + 1 = 7 /\ "findings" \in rows

CanUpgrade == at < Newest /\ ~Refuses /\ AllFit(schema, Ups[at + 1])

MigrationInit == at = 0 /\ schema = <<>> /\ rows = {} /\ sheds \in BOOLEAN /\ left = {}

Upgrade == /\ CanUpgrade
           /\ at' = at + 1
           /\ schema' = AfterAll(schema, Ups[at + 1])
           /\ rows' = RowsAfter(Ups[at + 1])
           /\ UNCHANGED <<sheds, left>>

Downgrade == /\ at > 0 /\ AllFit(schema, Downs[at])
             /\ at' = at - 1
             /\ schema' = AfterAll(schema, Downs[at])
             /\ rows' = RowsAfter(Downs[at])
             /\ UNCHANGED <<sheds, left>>

(* An attempt stops halfway: it is refused, by what Refuses and Fits say   *)
(* or, on the way down, by a value of a row, or it is interrupted.  What   *)
(* alembic_version says is unchanged.                                      *)
StopsHalfway(way, n, ops) ==
    /\ Cardinality(left) < MaxStops
    /\ \E r \in Remains(schema, ops) : schema' = r.tables /\ rows' = RowsAfter(r.done)
    /\ left' = left \cup {<<way, n>>}
    /\ UNCHANGED <<at, sheds>>

Stop == \/ at < Newest /\ ~(at + 1 = 7 /\ Refuses) /\ StopsHalfway("up", at + 1, Ups[at + 1])
        \/ at > 0 /\ StopsHalfway("down", at, Downs[at])

(* The application of that revision fills a table.  The rows of assessments *)
(* and targets that matter are those of the first revision that the second *)
(* has no value for, or that share a name.                                 *)
Fill == \E t \in DOMAIN schema \cap
                 ({"tools", "assets", "observations", "discovered_hosts", "findings"}
                  \cup IF at = 1 THEN {"assessments", "targets"} ELSE {}) :
           /\ rows' = rows \cup {t}
           /\ UNCHANGED <<at, schema, sheds, left>>

MigrationNext == Upgrade \/ Downgrade \/ Stop \/ Fill

-----------------------------------------------------------------------------
(* The schema that the upgrades alone reach, revision by revision.         *)
Reached[n \in 0 .. Newest] == IF n = 0 THEN <<>> ELSE AfterAll(Reached[n - 1], Ups[n])

(* A database at the newest revision has the tables the ORM classes        *)
(* declare, by whatever upgrades and downgrades it got there, and else     *)
(* only the temporary tables of downgrades that stopped.  One stop shows   *)
(* in the tables themselves: revision 9's downgrade drops the unique key   *)
(* of findings before it builds the old one, and no upgrade restores it.   *)
HeadMatchesModels ==
    at = Newest => \A t \in DOMAIN schema \cup DOMAIN Models :
        IF t \in DOMAIN Models
        THEN t \in DOMAIN schema /\
             (schema[t] = Models[t] \/ (t = "findings" /\ <<"down", 9>> \in left))
        ELSE \E u \in DOMAIN Models, d \in left : t = Temporary(u) /\ d[1] = "down"

(* An upgrade of a database that got where it is runs, except: revision 2  *)
(* has no value for some rows; a NOT NULL tools.status has no default for  *)
(* the tools there are; revision 6 raises on assets and observations,      *)
(* revision 7 on findings; two downgrades that leave a column behind, or   *)
(* forget a CHECK, cannot be undone; and an upgrade that stopped halfway   *)
(* cannot be tried again, nor the upgrade that follows a downgrade of      *)
(* revision 1, 6 or 7 that did.                                            *)
UpgradesRun ==
    at < Newest /\ ~CanUpgrade =>
        \/ <<"up", at + 1>> \in left
        \/ \E n \in {1, 6, 7} : <<"down", n>> \in left
        \/ at = 1 /\ {"assessments", "targets"} \cap rows # {}
        \/ at = 2 /\ "tools" \in rows
        \/ at = 5 /\ ({"assets", "observations"} \cap rows # {}
                       \/ "category" \in Columns(schema.observations))
        \/ at = 6 /\ "findings" \in rows
        \/ at = 7 /\ <<"assettype", 5>> \notin schema.assets.checks

(* No upgrade drops a table that holds rows.                               *)
UpgradesKeepRows == [][at' > at => Cardinality(rows') = Cardinality(rows)]_migrationVars

(* At every revision a foreign key of its tables is a column of the table  *)
(* and points to a table there is, and only a nullable column is set NULL  *)
(* by a delete, whatever stopped halfway on the way there but revisions 7  *)
(* and 8, whose findings, or hosts, stay while what they were made from    *)
(* is downgraded.                                                          *)
(* At the newest revision the database deletes what the ORM leaves it to.  *)
DeletesCascade ==
    /\ {<<"up", 7>>, <<"up", 8>>} \cap left = {} =>
       \A t \in DOMAIN schema \cap DOMAIN Reached[at] : \A f \in schema[t].fks :
          /\ f[1] \in Columns(schema[t]) /\ f[2] \in DOMAIN schema
          /\ f[3] = "SET NULL" => f[1] \in schema[t].opt
    /\ at = Newest => \A t \in DOMAIN Owns : \A child \in Owns[t] :
          \E f \in schema[child].fks : f[2] = t /\ f[3] = "CASCADE"
=============================================================================
