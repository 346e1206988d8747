----------------------------- MODULE MCPipeline -----------------------------
(***************************************************************************)
(* Small instances of Pipeline: the plans that PipelineRules makes of a    *)
(* scan that found no host, an SSH host, a web host, and both.             *)
(***************************************************************************)
EXTENDS Pipeline, PipelineRules

Found(port, name) == [port |-> port, name |-> name, open |-> TRUE]

NoHost == <<>>
SshHost == HostSteps(<<Found(22, "ssh")>>)
WebHost == HostSteps(<<Found(80, "http")>>)
TlsHost == HostSteps(<<Found(443, "https")>>)

FewPlans == {NoHost, SshHost, WebHost}
TlsPlan == {TlsHost}
WebPlan == {WebHost}

(* A cancel, a retry and a cut, two of them at most in one run.            *)
FewUpsets == cancels + retries + cuts <= 2
=============================================================================
