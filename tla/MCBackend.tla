----------------------------- MODULE MCBackend ------------------------------
(***************************************************************************)
(* Small instances of the backend's components that share no state with    *)
(* each other: the variable part says which of them moves.                 *)
(***************************************************************************)
EXTENDS Migrations, HostInventory, Correlation, Assessments, Targets, ProcessRunner,
        Plugins, ScanProfiles, ExecutionQueue, TLC

VARIABLE part

-----------------------------------------------------------------------------
(* Host inventory: two jobs, run at most twice, and one host seen with its *)
(* MAC address or without, with a service or without, twice or once.       *)
MCExecutions == {"e1", "e2"}
MCMaxAttempts == 2

Host(mac, services, os) ==
    [mac |-> mac, ip |-> "a", name |-> None, services |-> services, os |-> os]
Plain == Host("m", <<>>, <<>>)
Web == Host("m", <<[port |-> "80", product |-> "nginx"]>>, <<>>)
Nameless == [Plain EXCEPT !.mac = None, !.ip = None]
About(h, title) == [host |-> h, title |-> title]

MCOutputs ==
    {[hosts |-> <<Host("m", Web.services, <<"linux">>)>>,
      observations |-> <<About(1, "t"), About(0, "t")>>],
     [hosts |-> <<Host("m", <<>>, <<"linux">>)>>, observations |-> <<>>],
     [hosts |-> <<[Web EXCEPT !.mac = None], Plain>>, observations |-> <<>>],
     [hosts |-> <<Plain, Web>>, observations |-> <<>>],
     [hosts |-> <<Web, Plain>>, observations |-> <<>>],
     [hosts |-> <<Web, Web>>, observations |-> <<>>],
     [hosts |-> <<Plain, Nameless>>,
      observations |-> <<About(1, "t"), About(1, "t"), About(2, "t")>>]}

-----------------------------------------------------------------------------
(* Correlation: three scans of one host, two requests.                     *)
MCScans == {"s1", "s2", "s3"}
MCCorrelators == {"r1", "r2"}

Port(port, name, product, version, open) ==
    [port |-> port, name |-> name, product |-> product, version |-> version, open |-> open]
Software(name, version) == [name |-> name, version |-> version]
Guess(name, accuracy) == [name |-> name, accuracy |-> accuracy]
Note(key, source, plugin, detail) ==
    [key |-> key, source |-> source, plugin |-> plugin, detail |-> detail, title |-> {}]

(* A host with an old server and a bad certificate; the same host after an *)
(* update; what the web scanners say; and one that breaks the other rules. *)
MCSightings ==
    {[services |-> {Port(23, "telnet", {}, {}, TRUE), Port(80, "http", {"apache"}, {"2.4.49"}, TRUE)},
      technologies |-> {Software({"apache"}, {"2.4.49"})}, systems |-> {Guess("windows 7", 90)},
      observations |-> {Note("cert", "ssl-cert", "nmap", {"expired", "self-signed", "md5"}),
                        Note("h1", "http-headers", "nmap", {"apache"}),
                        Note("h2", "http-headers", "nmap", {})}],
     [services |-> {Port(23, "telnet", {}, {}, FALSE), Port(80, "http", {"apache"}, {"2.2."}, TRUE),
                    Port(3306, "mysql", {"mysql"}, {}, TRUE)},
      technologies |-> {Software({"apache"}, {"2.2."}), Software({"php", "phpmyadmin"}, {"5."})},
      systems |-> {Guess("linux", 95)},
      observations |-> {Note("cert", "ssl-cert", "nmap", {}),
                        Note("h1", "http-headers", "nmap", {"content-security-policy"})}],
     [services |-> {}, technologies |-> {}, systems |-> {},
      observations |-> {Note("n", "nuclei-template", "nuclei", {"CVE-2021-41773"}),
                        Note("k", "nikto", "nikto", {"CVE-2021-41773"})}],
     [services |-> {Port(445, "smb", {}, {}, TRUE), Port(21, "ftp", {}, {}, TRUE),
                    Port(3389, "rdp", {}, {}, TRUE)},
      technologies |-> {}, systems |-> {},
      observations |-> {Note("ssh", "ssh2-enum-algos", "nmap", {"cbc"}),
                        Note("key", "ssh-hostkey", "nmap", {"ssh-1."}),
                        Note("smb", "smb2-security-mode", "nmap",
                             {"message signing disabled", "smbv1 supported"}),
                        Note("snmp", "snmp-info", "nmap", {}),
                        Note("dns", "dns-zone-transfer", "nmap", {}),
                        Note("ftp", "ftp-anon", "nmap", {"anonymous ftp login allowed"}),
                        [Note("title", "http-title", "nmap", {}) EXCEPT !.title = {"index of /"}]}]}

-----------------------------------------------------------------------------
(* Targets: an address, a URL and a domain; a file that repeats itself and *)
(* one with rows of every sort.                                            *)
Typed(form, name) == [form |-> form, name |-> name, copies |-> 0]
MCTexts == {Typed("ipv4", "i"), Typed("url", "u"), Typed("dotted", "d")}

Line(type, text) == [type |-> type, text |-> text]
MCFiles ==
    {<<Line("", Typed("dotted", "d")), Line("", Typed("dotted", "d")), Line("", Typed("blank", "b"))>>,
     <<Line("", Typed("ref", "r")), Line("cidr", Typed("ipv4", "i")),
       Line("", Typed("label", "l")), Line("host", Typed("dotted", "d"))>>}

-----------------------------------------------------------------------------
(* Plugins: a broken directory, a good one and a repeated one of one tool; *)
(* updates that switch it off, that are refused, and that set and unset a  *)
(* timeout.                                                                *)
MCDirectories ==
    <<[id |-> "nmap", loads |-> FALSE], [id |-> "nmap", loads |-> TRUE], [id |-> "nmap", loads |-> TRUE]>>
MCWishes ==
    {[enabled |-> FALSE], [enabled |-> FALSE, rest |-> "bad"], [timeout |-> NoTimeout],
     [enabled |-> TRUE, timeout |-> 9, rest |-> "set"]}
MCAccepted == {<<"nmap", "ipv4">>}

-----------------------------------------------------------------------------
vars == <<migrationVars, inventoryVars, correlationVars, assessmentVars, targetVars, runnerVars,
          pluginVars, profileVars, heapVars, part>>

Parts == {"migrations", "inventory", "correlation", "assessments", "targets", "runner",
          "plugins", "profiles", "queue"}

Init ==
    /\ part \in Parts
    /\ MigrationInit /\ InventoryInit /\ CorrelationInit
    /\ AssessmentInit /\ TargetInit /\ RunnerInit
    /\ PluginInit /\ ProfileInit /\ HeapInit
    /\ (part # "migrations" => ~sheds)
    /\ (part # "plugins" => machine = CHOOSE c \in Conditions : TRUE)
    /\ (part # "profiles" => files = [id \in Customs |-> "absent"])

Others(p) ==
    /\ part = p /\ UNCHANGED part
    /\ p # "migrations" => UNCHANGED migrationVars
    /\ p # "inventory" => UNCHANGED inventoryVars
    /\ p # "correlation" => UNCHANGED correlationVars
    /\ p # "assessments" => UNCHANGED assessmentVars
    /\ p # "targets" => UNCHANGED targetVars
    /\ p # "runner" => UNCHANGED runnerVars
    /\ p # "plugins" => UNCHANGED pluginVars
    /\ p # "profiles" => UNCHANGED profileVars
    /\ p # "queue" => UNCHANGED heapVars

Next ==
    \/ Others("migrations") /\ MigrationNext
    \/ Others("inventory") /\ InventoryNext
    \/ Others("correlation") /\ CorrelationNext
    \/ Others("assessments") /\ AssessmentNext
    \/ Others("targets") /\ TargetNext
    \/ Others("runner") /\ RunnerNext
    \/ Others("plugins") /\ PluginNext
    \/ Others("profiles") /\ ProfileNext
    \/ Others("queue") /\ HeapNext

(* The users are alike: none of their names is told from another.          *)
Symmetric == Permutations(Users)

(* Of the two jobs one is run again, before or after the other.            *)
FewAttempts == \E e \in Executions : attempts[e] < MaxAttempts

(* All users make their request only while there was one target at most.   *)
FewRequests == created <= 1 \/ \E u \in Users : asked[u] = NotAsked

(* Runs and retries of two assessments, and requests: three in all; of one *)
(* assessment any of them.                                                 *)
FewRuns ==
    \A a, b \in Ids : a = b \/
        runs[a] + runs[b] + Cardinality({r \in Requests : request[r] # Waiting}) <= 3

Spec == Init /\ [][Next]_vars

(* The tools alone.                                                        *)
ToolSpec == Init /\ part = "plugins" /\ [][Next]_vars

(* Every component's variables keep their types: inventory, correlation,   *)
(* assessments, targets, process runner and queue.                         *)
TypeOK ==
    /\ InventoryTypeOK /\ CorrelationTypeOK /\ AssessmentTypeOK
    /\ TargetTypeOK /\ RunnerTypeOK /\ HeapTypeOK
=============================================================================
