---------------------------- MODULE SchemaModels ----------------------------
(***************************************************************************)
(* The tables that the ORM classes of backend/models declare.  A table is  *)
(* its NOT NULL and its nullable columns, its foreign keys with what a     *)
(* delete of the row they point to does, its unique keys, and its CHECK    *)
(* constraints.  A CHECK of an enum is told by its column and how many     *)
(* members the enum has: every revision that changed one changed that.     *)
(* Column types, lengths and plain indexes are left out.                   *)
(***************************************************************************)
EXTENDS Naturals, Sequences, FiniteSets

Table(req, opt, fks, keys, checks) ==
    [req |-> req, opt |-> opt, fks |-> fks, keys |-> keys, checks |-> checks]

Fk(column, table, ondelete) == <<column, table, ondelete>>
OfAssessment == Fk("assessment_id", "assessments", "CASCADE")
OfHost == Fk("host_id", "discovered_hosts", "CASCADE")
OfFinding == Fk("finding_id", "findings", "CASCADE")
FoundBy == Fk("source_execution_id", "tool_executions", "SET NULL")
OfExecution == Fk("execution_id", "tool_executions", "CASCADE")
Enum(column, members) == <<column, members>>

Created == {"id", "created_at"}
Stamped == {"id", "created_at", "updated_at"}
Seen == {"first_seen", "last_seen"}

Assessment == Table(
    Stamped \cup {"name", "assessment_type", "status"},
    {"description", "previous_status", "started_at", "completed_at", "deleted_at"},
    {}, {{"name", "WHERE deleted_at IS NULL"}},
    {Enum("assessment_type", 8), Enum("status", 7), Enum("previous_status", 7)})

AssessmentHistoryEntry == Table(
    Created \cup {"assessment_id", "event_type", "message"}, {},
    {OfAssessment}, {}, {Enum("event_type", 15)})

AssessmentTag == Table({"assessment_id", "tag"}, {}, {OfAssessment},
    {{"assessment_id", "tag"}}, {})

AssessmentTool == Table(
    {"assessment_id", "tool_id", "enabled", "execution_order"}, {},
    {OfAssessment, Fk("tool_id", "tools", "CASCADE")}, {{"assessment_id", "tool_id"}}, {})

Attachment == Table(
    Created \cup {"assessment_id", "file_name", "file_path"}, {"mime_type"},
    {OfAssessment}, {}, {})

AnalystNote == Table(
    Stamped \cup {"assessment_id", "title"}, {"content"}, {OfAssessment}, {}, {})

ApplicationSetting == Table(Stamped \cup {"key", "value"}, {}, {}, {{"key"}}, {})

CorrelationRun == Table(
    Created \cup {"status", "started_at", "hosts_evaluated", "rules_evaluated",
                  "findings_created", "findings_updated"},
    {"assessment_id", "completed_at", "error_message"}, {OfAssessment}, {},
    {Enum("status", 3)})

DiscoveredHost == Table(
    Created \cup Seen \cup {"assessment_id", "host_type", "state", "fingerprint"},
    {"target_id", "hostname", "fqdn", "ipv4", "ipv6", "mac_address", "mac_vendor",
     "source_execution_id"},
    {OfAssessment, Fk("target_id", "targets", "CASCADE"), FoundBy},
    {{"target_id", "fingerprint"}}, {Enum("host_type", 5), Enum("state", 3)})

ExecutionHost == Table(
    Created \cup {"execution_id", "host_id", "is_new"}, {},
    {OfExecution, OfHost}, {{"execution_id", "host_id"}}, {})

ExecutionObservation == Table(
    Created \cup {"execution_id", "observation_id", "is_new"}, {},
    {OfExecution, Fk("observation_id", "observations", "CASCADE")},
    {{"execution_id", "observation_id"}}, {})

Finding == Table(
    Stamped \cup Seen \cup {"assessment_id", "rule_id", "title", "severity", "confidence",
                            "status", "fingerprint"},
    {"host_id", "source_execution_id", "plugin", "description", "impact", "category",
     "cvss_score", "cwe", "owasp", "remediation"},
    {OfAssessment, OfHost, FoundBy}, {{"assessment_id", "host_id", "fingerprint"}},
    {Enum("severity", 5), Enum("confidence", 4), Enum("status", 6), <<"cvss_score_range", 0>>})

FindingEvidence == Table(
    Created \cup {"finding_id", "source_tool"}, {"title", "content", "file_path"},
    {OfFinding}, {}, {})

FindingReference == Table(
    {"id", "finding_id", "reference_type", "reference_value"}, {}, {OfFinding},
    {{"finding_id", "reference_type", "reference_value"}}, {Enum("reference_type", 6)})

FindingObservation == Table(
    Created \cup {"finding_id", "observation_id"}, {},
    {OfFinding, Fk("observation_id", "observations", "CASCADE")},
    {{"finding_id", "observation_id"}}, {})

Fingerprint == Table(
    Created \cup {"fingerprint_type", "value"}, {"host_id", "service_id", "source_execution_id"},
    {OfHost, Fk("service_id", "services", "CASCADE"), FoundBy}, {},
    {Enum("fingerprint_type", 6), <<"fingerprint_has_owner", 0>>})

NetworkInterface == Table(
    Created \cup {"host_id", "ip_address", "version"},
    {"mac_address", "network", "interface_name"}, {OfHost}, {{"host_id", "ip_address"}},
    {Enum("version", 6)})

Observation == Table(
    Created \cup Seen \cup {"source", "category", "title", "fingerprint"},
    {"execution_id", "host_id", "service_id", "port", "plugin", "observation_type", "detail"},
    {Fk("execution_id", "tool_executions", "SET NULL"), OfHost,
     Fk("service_id", "services", "CASCADE")},
    {{"host_id", "fingerprint"}}, {Enum("category", 7)})

ObservationEvidence == Table(
    Created \cup {"observation_id", "source_tool"}, {"title", "content", "file_path"},
    {Fk("observation_id", "observations", "CASCADE")}, {}, {})

OperatingSystem == Table(
    Created \cup Seen \cup {"host_id", "name", "accuracy", "source"},
    {"vendor", "family", "version", "source_execution_id"}, {OfHost, FoundBy},
    {{"host_id", "name", "version"}}, {})

PipelineJob == Table(
    Created \cup {"pipeline_run_id", "stage", "status"},
    {"tool_name", "host_id", "service_id", "execution_id", "target_value", "skip_reason"},
    {Fk("pipeline_run_id", "pipeline_runs", "CASCADE"),
     Fk("host_id", "discovered_hosts", "SET NULL"), Fk("service_id", "services", "SET NULL"),
     Fk("execution_id", "tool_executions", "SET NULL")},
    {}, {Enum("stage", 3), Enum("status", 5)})

PipelineRun == Table(
    Created \cup {"assessment_id", "status", "started_at"},
    {"recon_execution_id", "completed_at"},
    {OfAssessment, Fk("recon_execution_id", "tool_executions", "SET NULL")}, {},
    {Enum("status", 3)})

RawToolOutput == Table(
    Created \cup {"execution_id", "format"}, {"file_path", "raw_text"}, {OfExecution}, {},
    {Enum("format", 5), <<"has_content", 0>>})

Report == Table(
    {"id", "assessment_id", "report_type", "file_path", "generated_at"}, {},
    {OfAssessment}, {}, {Enum("report_type", 4)})

Service == Table(
    Created \cup Seen \cup {"host_id", "port", "protocol", "state", "fingerprint"},
    {"service_name", "product", "vendor", "version", "extra_info", "banner"},
    {OfHost}, {{"host_id", "fingerprint"}}, {Enum("protocol", 2), Enum("state", 6)})

Target == Table(
    Stamped \cup {"assessment_id", "target_type", "target_value", "enabled", "origin"},
    {"resolved_ip", "notes", "discovered_from_execution_id"},
    {OfAssessment, Fk("discovered_from_execution_id", "tool_executions", "SET NULL")},
    {{"assessment_id", "target_value"}}, {Enum("target_type", 6), Enum("origin", 2)})

Technology == Table(
    Created \cup Seen \cup {"host_id", "name", "category"},
    {"service_id", "vendor", "version", "source_execution_id"},
    {OfHost, Fk("service_id", "services", "CASCADE"), FoundBy},
    {{"host_id", "service_id", "name"}}, {Enum("category", 7)})

Tool == Table(
    Created \cup {"name", "display_name", "is_installed", "enabled", "default_timeout", "status"},
    {"version", "installation_path", "health_status", "health_message", "last_checked_at",
     "last_validated_at"},
    {}, {{"name"}}, {Enum("status", 5), Enum("health_status", 3)})

ToolConfiguration == Table(
    Created \cup {"tool_id"},
    {"timeout", "working_directory", "custom_executable_path", "http_proxy", "https_proxy",
     "socks_proxy", "rate_limit", "retries", "output_directory", "temp_directory",
     "headers_json", "environment_json", "arguments_json", "wordlists_json",
     "disabled_profiles_json"},
    {Fk("tool_id", "tools", "CASCADE")}, {{"tool_id"}}, {})

ToolExecution == Table(
    Created \cup {"assessment_id", "target_id", "tool_id", "status", "retry_count"},
    {"started_at", "completed_at", "duration", "return_code", "stdout_path", "stderr_path",
     "log_path", "status_message", "profile_id", "generated_command", "advanced_options"},
    {OfAssessment, Fk("target_id", "targets", "CASCADE"), Fk("tool_id", "tools", "RESTRICT")},
    {}, {Enum("status", 9)})

Models ==
    [assessments |-> Assessment, assessment_history_entries |-> AssessmentHistoryEntry,
     assessment_tags |-> AssessmentTag, assessment_tools |-> AssessmentTool,
     attachments |-> Attachment, analyst_notes |-> AnalystNote,
     application_settings |-> ApplicationSetting, correlation_runs |-> CorrelationRun,
     discovered_hosts |-> DiscoveredHost, execution_hosts |-> ExecutionHost,
     execution_observations |-> ExecutionObservation, findings |-> Finding,
     finding_evidence |-> FindingEvidence, finding_references |-> FindingReference,
     finding_observations |-> FindingObservation, fingerprints |-> Fingerprint,
     network_interfaces |-> NetworkInterface, observations |-> Observation,
     observation_evidence |-> ObservationEvidence, operating_systems |-> OperatingSystem,
     pipeline_jobs |-> PipelineJob, pipeline_runs |-> PipelineRun,
     raw_tool_outputs |-> RawToolOutput, reports |-> Report, services |-> Service,
     targets |-> Target, technologies |-> Technology, tools |-> Tool,
     tool_configurations |-> ToolConfiguration, tool_executions |-> ToolExecution]

(* The relationships with cascade="all, delete-orphan" and passive_deletes: *)
(* the ORM leaves the deletion of these rows to the database.              *)
Owns ==
    [assessments |-> {"assessment_tags", "assessment_history_entries", "targets",
                      "assessment_tools", "tool_executions", "discovered_hosts", "findings",
                      "analyst_notes", "reports", "attachments"},
     targets |-> {"tool_executions", "discovered_hosts"},
     discovered_hosts |-> {"network_interfaces", "services", "technologies",
                           "operating_systems", "observations", "findings", "execution_hosts"},
     services |-> {"technologies"},
     observations |-> {"observation_evidence"},
     findings |-> {"finding_evidence", "finding_references", "finding_observations"},
     pipeline_runs |-> {"pipeline_jobs"},
     tools |-> {"tool_configurations", "assessment_tools"},
     tool_executions |-> {"raw_tool_outputs", "execution_hosts", "execution_observations"}]
=============================================================================
