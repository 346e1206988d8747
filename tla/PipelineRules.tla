--------------------------- MODULE PipelineRules ---------------------------
(***************************************************************************)
(* The decisions of the assessment pipeline: backend/pipeline/registry.py, *)
(* rules/ and endpoint_generator.py, and the stage rows that               *)
(* engine.py's _advance_host derives from them.  All of it is a pure       *)
(* function of what an nmap job found.  A service name is told apart by    *)
(* the hint words it contains (Words).                                     *)
(***************************************************************************)
EXTENDS Naturals, SequencesExt

Ports == {22, 80, 443, 445, 3306, 8080, 9999}

(* The hint words of the rules that occur in a name nmap reports.          *)
Words == [https |-> {"https", "http"}, sslhttp |-> {"ssl/http", "http"},
          http |-> {"http"}, www |-> {"www"}, ssh |-> {}, microsoftds |-> {},
          unknown |-> {}]

Service == [port : Ports, name : DOMAIN Words, open : BOOLEAN]

ContainsAny(name, hints) == Words[name] \cap hints # {}

Schedule(tools, scheme) == [kind |-> "schedule", tools |-> tools, scheme |-> scheme]
Decline(id, tools) == [kind |-> "skip", tools |-> tools, rule |-> id]
NoClaim == [kind |-> "none", tools |-> <<>>]

HttpsHints == {"https", "ssl/http"}

HttpsServiceRule(s) ==
    IF s.open /\ (s.port \in {443, 8443} \/ ContainsAny(s.name, HttpsHints))
    THEN Schedule(<<"nikto", "nuclei", "sslscan">>, "https")
    ELSE NoClaim

HttpServiceRule(s) ==
    IF /\ s.open /\ ~ContainsAny(s.name, HttpsHints)
       /\ s.port \in {80, 8080, 8000, 8008, 8880} \/ ContainsAny(s.name, {"http", "www"})
    THEN Schedule(<<"nikto", "nuclei">>, "http")
    ELSE NoClaim

SshReservedRule(s) ==
    IF s.open /\ (s.port = 22 \/ s.name = "ssh")
    THEN Decline("PIPE-SSH-001", <<"nikto", "nuclei">>) ELSE NoClaim

SmbReservedRule(s) ==
    IF s.open /\ (s.port \in {139, 445} \/ s.name = "microsoftds")
    THEN Decline("PIPE-SMB-001", <<"nikto", "nuclei">>) ELSE NoClaim

DatabaseReservedRule(s) ==
    IF s.open /\ s.port \in {3306, 5432, 1433, 1521, 27017}
    THEN Decline("PIPE-DB-001", <<"nikto", "nuclei">>) ELSE NoClaim

Verdicts(s) == <<HttpsServiceRule(s), HttpServiceRule(s), SshReservedRule(s),
                 SmbReservedRule(s), DatabaseReservedRule(s)>>

(* The first rule that claims the service.                                 *)
Decide(s) ==
    LET claims == SelectSeq(Verdicts(s), LAMBDA v : v.kind # "none")
    IN  IF claims = <<>> THEN NoClaim ELSE Head(claims)

(* generate_endpoint(): the port is left out when it is the scheme's own.  *)
Endpoint(s, scheme) ==
    IF s.port = (IF scheme = "https" THEN 443 ELSE 80) THEN <<scheme>>
    ELSE <<scheme, s.port>>

-----------------------------------------------------------------------------
(* A stage row to be made: "plan" is a tool to be planned, "skip" is not.  *)
Step(kind, tool) == [kind |-> kind, tool |-> tool]

ServiceSteps(s) ==
    LET d == Decide(s)
        kind == IF d.kind = "schedule" THEN "plan" ELSE "skip"
    IN  [i \in DOMAIN d.tools |-> Step(kind, d.tools[i])]

(* _advance_host: the steps of each service in turn, then the rows that    *)
(* say why nothing else is scanned.                                        *)
HostSteps(services) ==
    LET recognised == \E i \in DOMAIN services : Decide(services[i]).kind # "none"
        tls == \E i \in DOMAIN services :
                  LET d == Decide(services[i])
                  IN  d.kind = "schedule" /\ Contains(d.tools, "sslscan")
    IN  FlattenSeq([i \in DOMAIN services |-> ServiceSteps(services[i])])
        \o (IF recognised THEN <<>> ELSE <<Step("skip", "nikto"), Step("skip", "nuclei")>>)
        \o (IF tls THEN <<>> ELSE <<Step("skip", "sslscan")>>)
=============================================================================
