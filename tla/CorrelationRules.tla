-------------------------- MODULE CorrelationRules --------------------------
(***************************************************************************)
(* The 23 correlation rules, as functions of what is known about one host. *)
(* A text is the set of the rules' needles found in it, a version the set  *)
(* of the rules' prefixes it starts with: no rule asks more of either.     *)
(***************************************************************************)
EXTENDS Naturals, FiniteSets, Sequences

CONSTANT LargeSurface      \* _LARGE_ATTACK_SURFACE_THRESHOLD

(* A context: services [port, name, product, version, open], technologies  *)
(* [name, version], systems [name, accuracy], observations [source,        *)
(* plugin, detail, title, key].                                            *)

Candidate(title, detail, observations) ==
    [evidence |-> <<title, detail>>, cites |-> observations]

-----------------------------------------------------------------------------
(* Rules that read the output of scripts: the scripts, the needles, whether*)
(* one must be found or missing or the output's presence is the fact, and  *)
(* the confidence (LOW, MEDIUM, HIGH and CONFIRMED are 1 to 4).            *)

Script(sources, wants, needles, confidence) ==
    [sources |-> sources, wants |-> wants, needles |-> needles, confidence |-> confidence]

SshRules ==
    [SSH1 |-> Script({"ssh2-enum-algos"}, "found",
                     {"diffie-hellman-group1-sha1", "diffie-hellman-group14-sha1", "arcfour",
                      "arcfour128", "arcfour256", "cbc", "hmac-md5", "hmac-sha1-96", "ssh-dss"}, 2),
     SSH2 |-> Script({"ssh-hostkey", "banner"}, "found", {"ssh-1."}, 3)]

IndexListing == {"index of /"}

HttpRules ==
    [HTTP1 |-> Script({"http-headers"}, "missing", {"strict-transport-security"}, 2),
     HTTP2 |-> Script({"http-headers"}, "missing", {"content-security-policy"}, 2),
     HTTP3 |-> Script({"http-title", "http-enum"}, "found", IndexListing, 2)]

SigningDisabled == {"signing: disabled", "message signing disabled", "signing enabled: false"}
VersionOne == {"smbv1: true", "smbv1 supported", "1.0 (smbv1)"}

SmbRules ==
    [SMB1 |-> Script({"smb-security-mode", "smb2-security-mode"}, "found", SigningDisabled, 2),
     SMB2 |-> Script({"smb-protocols", "smb2-security-mode"}, "found", VersionOne, 2)]

Certificate == {"ssl-cert", "sslscan-cert"}
Ciphers == {"ssl-enum-ciphers", "sslscan-enum-ciphers"}
SelfSigned == {"self signed", "self-signed"}
Expired == {"expired", "not valid after"}
WeakMarkers == {"sslv2", "sslv3", "tlsv1.0", "tls 1.0", "rc4", "export", "null", "des-cbc", "md5"}

TlsRules ==
    [TLS1 |-> Script(Certificate, "found", SelfSigned, 3),
     TLS2 |-> Script(Certificate, "found", Expired, 3),
     TLS3 |-> Script(Ciphers \cup Certificate, "found", WeakMarkers, 2)]

ProtocolRules ==
    [PROTO1 |-> Script({"snmp-info", "snmp-sysdescr"}, "any", {}, 3),
     PROTO2 |-> Script({"dns-zone-transfer"}, "any", {}, 3)]

LoginAllowed == {"anonymous ftp login allowed"}
AnonymousFtp == [CONFIG1 |-> Script({"ftp-anon"}, "found", LoginAllowed, 3)]

Joined(f, g) ==
    [rule \in DOMAIN f \cup DOMAIN g |-> IF rule \in DOMAIN f THEN f[rule] ELSE g[rule]]

ScriptRules ==
    Joined(Joined(Joined(SshRules, HttpRules), Joined(SmbRules, TlsRules)),
           Joined(ProtocolRules, AnonymousFtp))

Found(script, text) == text \cap script.needles

Hits(rule, o) ==
    LET script == ScriptRules[rule]
        text == IF rule = "HTTP3" THEN o.detail \cup o.title ELSE o.detail
    IN  /\ o.source \in script.sources
        /\ \/ script.wants = "any"
           \/ script.wants = "found" /\ Found(script, text) # {}
           \/ script.wants = "missing" /\ Found(script, text) = {}

(* These make one candidate of all their matches, the others one of each.  *)
AllInOne == {"TLS1", "TLS2", "PROTO1", "PROTO2", "CONFIG1"}
Quotes == {"SSH1", "TLS3"}

FromScripts(rule, c) ==
    LET hits == {o \in c.observations : Hits(rule, o)}
        Quoted(o) == IF rule \in Quotes THEN Found(ScriptRules[rule], o.detail) ELSE {}
        Title == IF rule = "PROTO1" THEN (CHOOSE o \in hits : TRUE).source ELSE rule
    IN  IF rule \notin AllInOne THEN {Candidate(o.source, Quoted(o), {o}) : o \in hits}
        ELSE IF hits = {} THEN {} ELSE {Candidate(Title, {}, hits)}

-----------------------------------------------------------------------------
(* Rules that read the open ports, the software and the operating system.  *)

Open(c) == {s \in c.services : s.open}
DataStorePorts == {1433, 3306, 5432, 6379, 9042, 9200, 11211, 27017}
DataStores == {"mysql", "postgres", "mongodb", "redis", "memcached", "elasticsearch",
               "cassandra", "mssql"}
ExposureRules == {"SVC1", "SVC2", "SVC3", "SVC4", "SVC5"}

Exposed(rule, c) ==
    {s \in Open(c) :
        CASE rule = "SVC1" -> s.port = 23 \/ s.name = "telnet"
          [] rule = "SVC2" -> s.port = 21 \/ s.name = "ftp"
          [] rule = "SVC3" -> s.port \in {139, 445}
          [] rule = "SVC4" -> s.port = 3389
          [] rule = "SVC5" -> s.port \in DataStorePorts \/ s.product \cap DataStores # {}}

FromPorts(rule, c) ==
    LET hits == Exposed(rule, c) IN
    IF hits = {} THEN {}
    ELSE IF rule = "SVC5" THEN {Candidate(s.port, s.product, {}) : s \in hits}
    ELSE {Candidate(rule, IF rule = "SVC3" THEN hits ELSE CHOOSE s \in hits : TRUE, {})}

VersionsDisclosed(c) ==
    LET hits == {s \in Open(c) : s.product # {} /\ s.version # {}} IN
    IF hits = {} THEN {} ELSE {Candidate("GEN1", hits, {})}

LargeAttackSurface(c) ==
    LET ports == {s.port : s \in Open(c)} IN
    IF Cardinality(ports) < LargeSurface THEN {}
    ELSE {Candidate("CONFIG2", Cardinality(ports), {})}

(* The first known name found in the technology's name decides.            *)
EndOfLife ==
    <<<<"php", {"5.", "7.0", "7.1", "7.2", "7.3"}>>, <<"apache", {"2.2."}>>,
      <<"openssl", {"1.0.", "0."}>>, <<"iis", {"6.", "7.0"}>>, <<"mysql", {"5.5", "5.1", "5.0"}>>,
      <<"nginx", {"1.0.", "1.1.", "1.2.", "1.3.", "1.4.", "1.5.", "1.6.", "1.7.", "1.8.", "1.9."}>>>>

Outdated(t) ==
    \E i \in DOMAIN EndOfLife :
        /\ EndOfLife[i][1] \in t.name /\ EndOfLife[i][2] \cap t.version # {}
        /\ \A j \in 1 .. i - 1 : EndOfLife[j][1] \notin t.name

OutdatedTechnologies(c) ==
    {Candidate(t.name, t.version, {}) : t \in {u \in c.technologies : Outdated(u)}}

AdminNames == {"phpmyadmin", "tomcat manager", "jenkins", "webmin", "pgadmin", "adminer"}

AdminInterfaces(c) ==
    {Candidate(t.name, {}, {}) : t \in {u \in c.technologies : u.name \cap AdminNames # {}}}

OldSystems == {"windows xp", "windows vista", "windows 2000", "windows server 2003",
               "windows server 2008 sp", "windows 7", "windows server 2008 r2", "centos 6",
               "centos linux 6", "ubuntu 14.04", "ubuntu 16.04", "debian 7", "debian 8"}
MinAccuracy == 85

(* Only the best match counts, and only when it is good.                   *)
OutdatedSystem(c) ==
    LET best == CHOOSE s \in c.systems : \A t \in c.systems : t.accuracy <= s.accuracy IN
    IF c.systems # {} /\ best.accuracy >= MinAccuracy /\ best.name \in OldSystems
    THEN {Candidate(best.name, best.accuracy, {})} ELSE {}

-----------------------------------------------------------------------------
(* Rules that want the word of two tools.                                  *)

KnownVulnerable == {<<"apache", "2.4.49", "CVE-2021-41773">>, <<"apache", "2.4.50", "CVE-2021-42013">>}
Cves == {"CVE-2021-41773", "CVE-2021-42013"}

SameCve(c) ==
    LET Citing(cve) == {o \in c.observations : cve \in o.detail}
        Tools(cve) == {o.plugin : o \in Citing(cve)}
    IN  {Candidate(cve, Tools(cve), Citing(cve)) : cve \in {d \in Cves : Cardinality(Tools(d)) >= 2}}

(* The CVE is cited only when Nuclei confirmed it; others support it.      *)
ConfirmedVulnerability(c) ==
    LET Confirming(v) == {o \in c.observations : o.plugin = "nuclei" /\ v[3] \in o.detail}
        Supporting(v) == {o \in c.observations : o.plugin # "nuclei" /\ {v[1], v[2]} \cap o.detail # {}}
    IN  {Candidate(p[2][3], p[1], Confirming(p[2]) \cup Supporting(p[2])) :
            p \in {q \in c.technologies \X KnownVulnerable :
                     /\ q[2][1] \in q[1].name /\ q[2][2] \in q[1].version
                     /\ Confirming(q[2]) # {}}}

-----------------------------------------------------------------------------
ServiceRules == ExposureRules \cup {"GEN1", "CONFIG2"}
Rules == DOMAIN ScriptRules \cup ServiceRules \cup {"TECH1", "TECH3", "OS1", "CROSS1", "CROSS2"}

Candidates(rule, c) ==
    CASE rule \in DOMAIN ScriptRules -> FromScripts(rule, c)
      [] rule \in ExposureRules -> FromPorts(rule, c)
      [] rule = "GEN1" -> VersionsDisclosed(c)
      [] rule = "CONFIG2" -> LargeAttackSurface(c)
      [] rule = "TECH1" -> OutdatedTechnologies(c)
      [] rule = "TECH3" -> AdminInterfaces(c)
      [] rule = "OS1" -> OutdatedSystem(c)
      [] rule = "CROSS1" -> SameCve(c)
      [] rule = "CROSS2" -> ConfirmedVulnerability(c)

BaseConfidence(rule) ==
    IF rule \in DOMAIN ScriptRules THEN ScriptRules[rule].confidence
    ELSE IF rule \in {"SVC5", "TECH1", "TECH3", "OS1"} THEN 2 ELSE 3
=============================================================================
