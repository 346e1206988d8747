-------------------------- MODULE CorrelationProofs --------------------------
(***************************************************************************)
(* What the findings of a host say, for any number of scans, whatever they *)
(* find, and any number of correlations.  A correlation holds the write    *)
(* lock while it runs, so what it read is what there is when it writes;    *)
(* and since the last one, a finding says everything or a scan has ended.  *)
(***************************************************************************)
EXTENDS Correlation, FiniteSetTheorems, TLAPS

(* The rules that cite observations, and those that rest on what a scan    *)
(* states anew.                                                            *)
Citing == DOMAIN ScriptRules \cup {"CROSS1", "CROSS2"}
Restated == ServiceRules \cup {"TECH1", "OS1", "CROSS2"}

(* The confidence a rule of scripts gives: LOW, MEDIUM or HIGH.            *)
Graded(rules) == \A rule \in DOMAIN rules : rules[rule].confidence \in 1 .. 3

(* Rules joined are the rules of both.                                     *)
LEMMA JoinedRules ==
    ASSUME NEW f, NEW g
    PROVE  /\ DOMAIN Joined(f, g) = DOMAIN f \cup DOMAIN g
           /\ Graded(f) /\ Graded(g) => Graded(Joined(f, g))
BY DEF Joined, Graded

(* The names of the rules of scripts.                                      *)
LEMMA ScriptRuleNames ==
    /\ DOMAIN ScriptRules = {"SSH1", "SSH2", "HTTP1", "HTTP2", "HTTP3", "SMB1", "SMB2", "TLS1", "TLS2",
                             "TLS3", "PROTO1", "PROTO2", "CONFIG1"}
    /\ Graded(ScriptRules)
<1>1. Graded(SshRules) /\ DOMAIN SshRules = {"SSH1", "SSH2"}
  BY DEF SshRules, Script, Graded
<1>2. Graded(HttpRules) /\ DOMAIN HttpRules = {"HTTP1", "HTTP2", "HTTP3"}
  BY DEF HttpRules, Script, Graded
<1>3. Graded(SmbRules) /\ DOMAIN SmbRules = {"SMB1", "SMB2"}
  BY DEF SmbRules, Script, Graded
<1>4. Graded(TlsRules) /\ DOMAIN TlsRules = {"TLS1", "TLS2", "TLS3"}
  BY DEF TlsRules, Script, Graded
<1>5. Graded(ProtocolRules) /\ DOMAIN ProtocolRules = {"PROTO1", "PROTO2"}
  BY DEF ProtocolRules, Script, Graded
<1>6. Graded(AnonymousFtp) /\ DOMAIN AnonymousFtp = {"CONFIG1"}
  BY DEF AnonymousFtp, Script, Graded
<1>7. DOMAIN ScriptRules = DOMAIN SshRules \cup DOMAIN HttpRules \cup DOMAIN SmbRules \cup DOMAIN TlsRules
                           \cup DOMAIN ProtocolRules \cup DOMAIN AnonymousFtp
  <2> DEFINE a == Joined(SshRules, HttpRules)
             b == Joined(SmbRules, TlsRules)
             c == Joined(ProtocolRules, AnonymousFtp)
             d == Joined(a, b)
  <2>1. /\ DOMAIN a = DOMAIN SshRules \cup DOMAIN HttpRules /\ DOMAIN b = DOMAIN SmbRules \cup DOMAIN TlsRules
        /\ DOMAIN c = DOMAIN ProtocolRules \cup DOMAIN AnonymousFtp
    BY JoinedRules
  <2>2. ScriptRules = Joined(d, c)
    BY DEF ScriptRules
  <2> HIDE DEF a, b, c
  <2>3. DOMAIN d = DOMAIN a \cup DOMAIN b
    BY JoinedRules
  <2> HIDE DEF d
  <2>4. DOMAIN Joined(d, c) = DOMAIN d \cup DOMAIN c
    BY JoinedRules
  <2> QED BY <2>1, <2>2, <2>3, <2>4
<1>8. Graded(ScriptRules)
  BY <1>1, <1>2, <1>3, <1>4, <1>5, <1>6, JoinedRules DEF ScriptRules
<1>9. DOMAIN ScriptRules = {"SSH1", "SSH2", "HTTP1", "HTTP2", "HTTP3", "SMB1", "SMB2", "TLS1", "TLS2",
                            "TLS3", "PROTO1", "PROTO2", "CONFIG1"}
  BY <1>1, <1>2, <1>3, <1>4, <1>5, <1>6, <1>7
<1> QED BY <1>8, <1>9

(* Which operator finds the candidates of a rule.                          *)
LEMMA RulesOf ==
    ASSUME NEW rule \in Rules, NEW c
    PROVE  /\ rule \in DOMAIN ScriptRules => Candidates(rule, c) = FromScripts(rule, c)
           /\ rule \in ExposureRules => Candidates(rule, c) = FromPorts(rule, c)
           /\ rule = "GEN1" => Candidates(rule, c) = VersionsDisclosed(c)
           /\ rule = "CONFIG2" => Candidates(rule, c) = LargeAttackSurface(c)
           /\ rule = "TECH1" => Candidates(rule, c) = OutdatedTechnologies(c)
           /\ rule = "TECH3" => Candidates(rule, c) = AdminInterfaces(c)
           /\ rule = "OS1" => Candidates(rule, c) = OutdatedSystem(c)
           /\ rule = "CROSS1" => Candidates(rule, c) = SameCve(c)
           /\ rule = "CROSS2" => Candidates(rule, c) = ConfirmedVulnerability(c)
BY ScriptRuleNames DEF Candidates, ExposureRules

(* The confidence any rule gives.                                          *)
LEMMA BaseLevel == \A rule : BaseConfidence(rule) \in 1 .. 3
BY ScriptRuleNames DEF BaseConfidence, Graded

(* A scan adds observations and takes none back; a technology keeps its    *)
(* name.                                                                   *)
LEMMA MergedGrows ==
    ASSUME NEW h, NEW s, NEW m, m = Merged(h, s)
    PROVE  /\ h.observations \subseteq m.observations /\ m.observations \subseteq h.observations \cup s.observations
           /\ \A t \in h.technologies : \E u \in m.technologies : u.name = t.name
<1>1. m.observations = h.observations \cup {r \in s.observations : \A n \in h.observations : n.key # r.key}
  BY DEF Merged, Updated, Replaced
<1>2. m.technologies = s.technologies \cup {r \in h.technologies : \A n \in s.technologies : n.name # r.name}
  BY DEF Merged, Updated, Replaced
<1> QED BY <1>1, <1>2

-----------------------------------------------------------------------------
(* Rules of scripts cite the output they rest on.                          *)
LEMMA ScriptCites ==
    ASSUME NEW rule \in DOMAIN ScriptRules, NEW c, NEW cand \in FromScripts(rule, c)
    PROVE  cand.cites \subseteq c.observations /\ cand.cites # {}
BY DEF FromScripts, Candidate

(* Rules of ports cite no observation.                                     *)
LEMMA PortsCite ==
    ASSUME NEW rule, NEW c, NEW cand \in FromPorts(rule, c)
    PROVE  cand.cites = {}
BY DEF FromPorts, Candidate

(* A CVE that two tools name is cited where they name it.                  *)
LEMMA CveCites ==
    ASSUME NEW c, NEW cand \in SameCve(c)
    PROVE  cand.cites \subseteq c.observations /\ cand.cites # {}
<1> DEFINE Citing1(cve) == {o \in c.observations : cve \in o.detail}
           Tools(cve) == {o.plugin : o \in Citing1(cve)}
<1>1. SameCve(c) = {Candidate(cve, Tools(cve), Citing1(cve)) :
                       cve \in {d \in Cves : Cardinality(Tools(d)) >= 2}}
  BY DEF SameCve
<1>2. \A cve : Citing1(cve) \subseteq c.observations /\ (Citing1(cve) = {} => Tools(cve) = {})
  OBVIOUS
<1> HIDE DEF Citing1, Tools
<1>3. PICK cve \in Cves : cand = Candidate(cve, Tools(cve), Citing1(cve)) /\ Cardinality(Tools(cve)) >= 2
  BY <1>1
<1>4. Tools(cve) # {}
  BY <1>3, FS_EmptySet
<1> QED BY <1>2, <1>3, <1>4 DEF Candidate

(* So is one that Nuclei confirmed.                                        *)
LEMMA ConfirmedCites ==
    ASSUME NEW c, NEW cand \in ConfirmedVulnerability(c)
    PROVE  cand.cites \subseteq c.observations /\ cand.cites # {}
BY DEF ConfirmedVulnerability, Candidate

(* The other rules cite none either.                                       *)
LEMMA OthersCite ==
    ASSUME NEW c, NEW cand \in VersionsDisclosed(c) \cup LargeAttackSurface(c) \cup OutdatedTechnologies(c)
                               \cup AdminInterfaces(c) \cup OutdatedSystem(c)
    PROVE  cand.cites = {}
<1>1. CASE cand \in VersionsDisclosed(c) \cup LargeAttackSurface(c)
  BY <1>1 DEF VersionsDisclosed, LargeAttackSurface, Candidate
<1>2. CASE cand \in OutdatedTechnologies(c) \cup AdminInterfaces(c)
  BY <1>2 DEF OutdatedTechnologies, AdminInterfaces, Candidate
<1>3. CASE cand \in OutdatedSystem(c)
  BY <1>3 DEF OutdatedSystem, Candidate
<1> QED BY <1>1, <1>2, <1>3

(* A rule's candidates all cite observations of the host, or none of them  *)
(* does.                                                                   *)
LEMMA Cites ==
    ASSUME NEW rule \in Rules, NEW c, NEW cand \in Candidates(rule, c)
    PROVE  cand.cites \subseteq c.observations /\ (cand.cites = {} <=> rule \notin Citing)
<1>1. CASE rule \in DOMAIN ScriptRules
  BY <1>1, RulesOf, ScriptCites DEF Citing
<1>2. CASE rule \in ExposureRules
  BY <1>2, RulesOf, PortsCite, ScriptRuleNames DEF Citing, ExposureRules
<1>3. CASE rule \in {"GEN1", "CONFIG2", "TECH1", "TECH3", "OS1"}
  BY <1>3, RulesOf, OthersCite, ScriptRuleNames DEF Citing
<1>4. CASE rule = "CROSS1"
  BY <1>4, RulesOf, CveCites DEF Citing
<1>5. CASE rule = "CROSS2"
  BY <1>5, RulesOf, ConfirmedCites DEF Citing
<1> QED BY <1>1, <1>2, <1>3, <1>4, <1>5 DEF Rules, ServiceRules

(* No rule says anything of a host of which nothing is known.              *)
LEMMA NothingKnown ==
    ASSUME NEW rule \in Rules, NEW c, c.services = {}, c.technologies = {}, c.systems = {}, c.observations = {}
    PROVE  Candidates(rule, c) = {}
<1>1. CASE rule \in DOMAIN ScriptRules
  <2>1. FromScripts(rule, c) = {}
    BY DEF FromScripts
  <2> QED BY <1>1, <2>1, RulesOf
<1>2. CASE rule \in ExposureRules
  <2>1. Exposed(rule, c) = {}
    BY DEF Exposed, Open
  <2>2. FromPorts(rule, c) = {}
    BY <2>1 DEF FromPorts
  <2> QED BY <1>2, <2>2, RulesOf
<1>3. CASE rule \in {"GEN1", "CONFIG2"}
  <2>1. Open(c) = {}
    BY DEF Open
  <2>2. VersionsDisclosed(c) = {}
    BY <2>1 DEF VersionsDisclosed
  <2>3. LargeAttackSurface(c) = {}
    BY <2>1, FS_EmptySet, CorrelationAssumption DEF LargeAttackSurface
  <2> QED BY <1>3, <2>2, <2>3, RulesOf
<1>4. CASE rule \in {"TECH1", "TECH3", "OS1"}
  <2>1. OutdatedTechnologies(c) = {} /\ AdminInterfaces(c) = {} /\ OutdatedSystem(c) = {}
    BY DEF OutdatedTechnologies, AdminInterfaces, OutdatedSystem
  <2> QED BY <1>4, <2>1, RulesOf
<1>5. CASE rule = "CROSS1"
  <2>1. SameCve(c) = {}
    BY CveCites
  <2> QED BY <1>5, <2>1, RulesOf
<1>6. CASE rule = "CROSS2"
  <2>1. ConfirmedVulnerability(c) = {}
    BY ConfirmedCites
  <2> QED BY <1>6, <2>1, RulesOf
<1> QED BY <1>1, <1>2, <1>3, <1>4, <1>5, <1>6 DEF Rules, ServiceRules

(* A fact a rule rests on that no scan takes back keeps it matching.       *)
LEMMA StillMatches ==
    ASSUME NEW rule \in Rules \ Restated, NEW c, NEW d, IsFiniteSet(d.observations),
           c.observations \subseteq d.observations,
           \A t \in c.technologies : \E u \in d.technologies : u.name = t.name,
           Candidates(rule, c) # {}
    PROVE  Candidates(rule, d) # {}
<1>1. CASE rule \in DOMAIN ScriptRules
  <2>0. \E o \in FromScripts(rule, c) : TRUE
    BY <1>1, RulesOf
  <2>1. \E o \in c.observations : Hits(rule, o)
    BY <2>0 DEF FromScripts
  <2>2. \E o \in d.observations : Hits(rule, o)
    BY <2>1
  <2>3. FromScripts(rule, d) # {}
    BY <2>2 DEF FromScripts
  <2> QED BY <1>1, <2>3, RulesOf
<1>2. CASE rule = "TECH3"
  <2>1. PICK t \in c.technologies : t.name \cap AdminNames # {}
    BY <1>2, RulesOf DEF AdminInterfaces
  <2>2. AdminInterfaces(d) # {}
    BY <2>1 DEF AdminInterfaces
  <2> QED BY <1>2, <2>2, RulesOf
<1>3. CASE rule = "CROSS1"
  <2> DEFINE Tools(h, cve) == {o.plugin : o \in {p \in h.observations : cve \in p.detail}}
  <2>0. \A h : SameCve(h) = {Candidate(cve, Tools(h, cve), {o \in h.observations : cve \in o.detail}) :
                                cve \in {e \in Cves : Cardinality(Tools(h, e)) >= 2}}
    BY DEF SameCve
  <2>1. PICK cve \in Cves : Cardinality(Tools(c, cve)) >= 2
    <3>1. PICK cand \in SameCve(c) : TRUE
      BY <1>3, RulesOf
    <3> HIDE DEF Tools
    <3> QED BY <2>0, <3>1
  <2>2. IsFiniteSet(Tools(d, cve)) /\ Tools(c, cve) \subseteq Tools(d, cve)
    <3>1. IsFiniteSet({p \in d.observations : cve \in p.detail})
      BY FS_Subset
    <3>2. IsFiniteSet(Tools(d, cve))
      <4> DEFINE S == {p \in d.observations : cve \in p.detail}
                 f == [o \in S |-> o.plugin]
      <4>1. f \in Surjection(S, Tools(d, cve))
        BY DEF Surjection
      <4> QED BY <3>1, <4>1, FS_Surjection
    <3> QED BY <3>2
  <2>3. Cardinality(Tools(d, cve)) >= 2
    BY <2>1, <2>2, FS_Subset, FS_CardinalityType
  <2>4. SameCve(d) # {}
    BY <2>0, <2>3
  <2> QED BY <1>3, <2>4, RulesOf
<1> QED BY <1>1, <1>2, <1>3 DEF Rules, Restated
-----------------------------------------------------------------------------
(* Evidence is kept once each.                                             *)
LEMMA EvidenceSum ==
    ASSUME NEW A, NEW B
    PROVE  SetToBag(A) (+) SetToBag(B \ A) = SetToBag(A \cup B)
BY DEF SetToBag, (+)

(* Two levels at most are added, and no more than four reached.            *)
Level(base, links, confirming) ==
    Bump(base, (IF links >= 2 THEN 1 ELSE 0) + (IF confirming >= 2 THEN 1 ELSE 0))

(* A level never falls with more observations or more scans.               *)
LEMMA LevelGrows ==
    ASSUME NEW base \in 1 .. 3, NEW l \in Nat, NEW m \in Nat, NEW c \in Nat, NEW d \in Nat, l <= m, c <= d
    PROVE  Level(base, l, c) \in 1 .. 4 /\ Level(base, l, c) <= Level(base, m, d)
BY DEF Level, Bump

(* The scans that confirm a rule that rests on these observations.         *)
Confirming(links) ==
    IF links = {} THEN scanned ELSE {s \in Scans : \E o \in links : <<s, o>> \in sightings}

(* A finding's confidence is the level of its observations and scans.      *)
LEMMA ConfidenceLevel ==
    ASSUME NEW rule, NEW links
    PROVE  Confidence(rule, links) = Level(BaseConfidence(rule), Cardinality(links), Cardinality(Confirming(links)))
BY DEF Confidence, Level, Confirming

-----------------------------------------------------------------------------
(* The host's rows, and which scan saw which of them.                      *)
RowsInv ==
    /\ IsFiniteSet(host.observations) /\ IsFiniteSet(scanned) /\ scanned \subseteq Scans
    /\ sightings \subseteq scanned \X host.observations /\ fresh \in BOOLEAN

(* One correlation at a time, and it has read what there is.               *)
LockInv ==
    /\ correlating \in [Correlators -> {"idle", "running"}] /\ DOMAIN read = Correlators
    /\ \A c \in Correlators : correlating[c] = "running" =>
          read[c] = findings /\ \A d \in Correlators : d # c => correlating[d] = "idle"

(* What a finding says was found, each thing once.                         *)
Sound(rule, f) ==
    /\ f = [evidence |-> f.evidence, links |-> f.links, confidence |-> f.confidence]
    /\ f.evidence = SetToBag(DOMAIN f.evidence)
    /\ f.links \subseteq host.observations /\ (f.links = {} <=> rule \notin Citing)
    /\ f.confidence \in 1 .. 4 /\ f.confidence <= Confidence(rule, f.links)

(* And it says everything.                                                 *)
Covers(rule, f) ==
    /\ \A c \in Candidates(rule, host) : c.evidence \in DOMAIN f.evidence /\ c.cites \subseteq f.links
    /\ f.confidence = Confidence(rule, f.links)

(* A finding is sound; it says everything when no scan has ended since the *)
(* last correlation.                                                       *)
FindingsInv ==
    /\ findings = [rule \in DOMAIN findings |-> findings[rule]] /\ DOMAIN findings \subseteq Rules
    /\ \A rule \in DOMAIN findings :
          /\ Sound(rule, findings[rule])
          /\ rule \notin Restated => rule \in Matching
    /\ fresh => \A rule \in Matching : rule \in DOMAIN findings /\ Covers(rule, findings[rule])

CorrelationInv == RowsInv /\ LockInv /\ FindingsInv

-----------------------------------------------------------------------------
(* More links and more scans never make a finding less certain.            *)
LEMMA LinksConfirm ==
    ASSUME RowsInv, NEW links \in SUBSET host.observations
    PROVE  /\ Cardinality(links) \in Nat /\ IsFiniteSet(links)
           /\ Cardinality(Confirming(links)) \in Nat /\ IsFiniteSet(Confirming(links))
           /\ \A rule : Confidence(rule, links) \in 1 .. 4
<1>1. IsFiniteSet(links)
  BY FS_Subset DEF RowsInv
<1>2. Confirming(links) \subseteq scanned
  BY DEF RowsInv, Confirming
<1>3. IsFiniteSet(Confirming(links))
  BY <1>2, FS_Subset DEF RowsInv
<1>4. Cardinality(links) \in Nat /\ Cardinality(Confirming(links)) \in Nat
  BY <1>1, <1>3, FS_CardinalityType
<1> QED BY <1>1, <1>3, <1>4, LevelGrows, ConfidenceLevel, BaseLevel

(* More observations of the same host never make a rule less certain.      *)
LEMMA MoreLinks ==
    ASSUME RowsInv, NEW rule, NEW more \in SUBSET host.observations, NEW links \in SUBSET more,
           links = {} <=> more = {}
    PROVE  Confidence(rule, links) <= Confidence(rule, more)
<1>1. Confirming(links) \subseteq Confirming(more)
  BY DEF Confirming
<1>2. /\ IsFiniteSet(more) /\ IsFiniteSet(Confirming(more))
      /\ Cardinality(links) \in Nat /\ Cardinality(Confirming(links)) \in Nat
      /\ Cardinality(more) \in Nat /\ Cardinality(Confirming(more)) \in Nat
  BY LinksConfirm
<1>3. Cardinality(links) <= Cardinality(more) /\ Cardinality(Confirming(links)) <= Cardinality(Confirming(more))
  BY <1>1, <1>2, FS_Subset
<1> QED BY <1>2, <1>3, LevelGrows, ConfidenceLevel, BaseLevel

(* What _upsert_finding() makes of a finding, or of none.                  *)
LEMMA Upserted ==
    ASSUME RowsInv, NEW rule \in Matching, NEW old, old = NoFinding \/ Sound(rule, old),
           NEW new, new = Upsert(rule, old)
    PROVE  /\ Sound(rule, new) /\ Covers(rule, new)
           /\ DOMAIN old.evidence \subseteq DOMAIN new.evidence /\ old.links \subseteq new.links
           /\ old.confidence <= new.confidence
<1> DEFINE cands == Candidates(rule, host)
           said == {c.evidence : c \in cands}
           links == AllLinks(rule, old)
<1>1. /\ new = [evidence |-> old.evidence (+) NewEvidence(old, cands), links |-> links,
                confidence |-> Confidence(rule, links)]
      /\ new.evidence = old.evidence (+) NewEvidence(old, cands)
      /\ new.links = links /\ new.confidence = Confidence(rule, links)
  BY DEF Upsert, Confirmation
<1>2. old.evidence = SetToBag(DOMAIN old.evidence)
  BY DEF Sound, NoFinding, EmptyBag, SetToBag
<1>3. old.links \subseteq host.observations /\ (old.links = {} \/ rule \in Citing)
  BY DEF Sound, NoFinding
<1>4. NewEvidence(old, cands) = SetToBag(said \ DOMAIN old.evidence)
  BY DEF NewEvidence, BagToSet
<1>5. new.evidence = SetToBag(DOMAIN old.evidence \cup said)
  BY <1>1, <1>2, <1>4, EvidenceSum
<1>6. DOMAIN new.evidence = DOMAIN old.evidence \cup said
  BY <1>5 DEF SetToBag
<1>7. links = old.links \cup UNION {c.cites : c \in cands}
  BY DEF AllLinks
<1>8. /\ \A c \in cands : c.cites \subseteq host.observations /\ (c.cites = {} <=> rule \notin Citing)
      /\ rule \in Rules /\ cands # {}
  BY Cites DEF Matching
<1>9. links \subseteq host.observations /\ (links = {} <=> rule \notin Citing)
  BY <1>3, <1>7, <1>8
<1>10. Confidence(rule, links) \in 1 .. 4
  BY <1>9, LinksConfirm
<1>11. Sound(rule, new)
  BY <1>1, <1>5, <1>6, <1>9, <1>10 DEF Sound
<1>12. Covers(rule, new)
  BY <1>1, <1>6, <1>7 DEF Covers
<1>13. old.confidence <= new.confidence
  <2>1. CASE old = NoFinding
    BY <1>1, <1>10, <2>1 DEF NoFinding
  <2>2. CASE Sound(rule, old)
    <3>1. Confidence(rule, old.links) <= Confidence(rule, links)
      BY <1>7, <1>9, <2>2, MoreLinks DEF Sound
    <3>2. Confidence(rule, old.links) \in 1 .. 4
      BY <1>3, LinksConfirm
    <3> QED BY <1>1, <1>10, <2>2, <3>1, <3>2 DEF Sound
  <2> QED BY <2>1, <2>2
<1> QED BY <1>1, <1>6, <1>7, <1>11, <1>12, <1>13

(* A finding that says everything is left as it is.                        *)
LEMMA SaidAlready ==
    ASSUME RowsInv, NEW rule \in Matching, NEW old, Sound(rule, old), Covers(rule, old)
    PROVE  Upsert(rule, old) = old
<1> DEFINE cands == Candidates(rule, host)
           said == {c.evidence : c \in cands}
           links == AllLinks(rule, old)
<1>1. said \ DOMAIN old.evidence = {} /\ DOMAIN old.evidence \cup said = DOMAIN old.evidence
  BY DEF Covers
<1>2. old.evidence (+) NewEvidence(old, cands) = old.evidence
  <2>1. NewEvidence(old, cands) = SetToBag(said \ DOMAIN old.evidence)
    BY DEF NewEvidence, BagToSet
  <2>2. old.evidence = SetToBag(DOMAIN old.evidence)
    BY DEF Sound
  <2> QED BY <1>1, <2>1, <2>2, EvidenceSum
<1>3. links = old.links
  BY DEF AllLinks, Covers
<1>4. Confidence(rule, links) = old.confidence
  BY <1>3 DEF Covers
<1> QED BY <1>2, <1>3, <1>4 DEF Upsert, Confirmation, Sound

-----------------------------------------------------------------------------
(* Of a host that was never scanned no rule says anything.                 *)
LEMMA CorrelationStarts == CorrelationInit => CorrelationInv
<1> SUFFICES ASSUME CorrelationInit PROVE CorrelationInv
  OBVIOUS
<1>1. RowsInv
  BY FS_EmptySet DEF CorrelationInit, RowsInv
<1>2. LockInv
  BY DEF CorrelationInit, LockInv
<1>3. DOMAIN findings = {} /\ findings = [rule \in DOMAIN findings |-> findings[rule]]
  BY DEF CorrelationInit
<1>4. Matching = {}
  BY NothingKnown DEF CorrelationInit, Matching
<1> QED BY <1>1, <1>2, <1>3, <1>4 DEF CorrelationInv, FindingsInv

(* A scan leaves the findings sound, though they may not say everything.   *)
LEMMA ScanInv ==
    ASSUME CorrelationInv, NEW e \in Scans, Scan(e)
    PROVE  CorrelationInv'
<1>0. RowsInv /\ LockInv /\ FindingsInv
  BY DEF CorrelationInv
<1>1. PICK s \in Sightings : host' = Merged(host, s) /\ sightings' = sightings \cup {<<e, o>> : o \in SeenIn(s, host')}
  BY DEF Scan
<1>2. /\ scanned' = scanned \cup {e} /\ fresh' = FALSE /\ UNCHANGED <<findings, correlating, read>>
  BY DEF Scan
<1>3. /\ host.observations \subseteq host'.observations
      /\ host'.observations \subseteq host.observations \cup s.observations
      /\ \A t \in host.technologies : \E u \in host'.technologies : u.name = t.name
  BY <1>1, MergedGrows
<1>4. RowsInv'
  <2>1. IsFiniteSet(s.observations)
    BY CorrelationAssumption
  <2>2. IsFiniteSet(host'.observations)
    BY <1>0, <1>3, <2>1, FS_Union, FS_Subset DEF RowsInv
  <2>3. IsFiniteSet(scanned')
    BY <1>0, <1>2, FS_AddElement DEF RowsInv
  <2>4. \A o \in SeenIn(s, host') : o \in host'.observations
    BY DEF SeenIn
  <2>5. sightings' \subseteq scanned' \X host'.observations
    BY <1>0, <1>1, <1>2, <1>3, <2>4 DEF RowsInv
  <2> QED BY <1>0, <1>2, <2>2, <2>3, <2>5 DEF RowsInv
<1>5. LockInv'
  BY <1>0, <1>2 DEF LockInv
<1>6. ASSUME NEW rule \in DOMAIN findings
      PROVE  Sound(rule, findings[rule])' /\ (rule \notin Restated => rule \in Matching')
  <2> DEFINE f == findings[rule]
  <2>1. Sound(rule, f) /\ (rule \notin Restated => rule \in Matching) /\ rule \in Rules
    BY <1>0 DEF FindingsInv
  <2>2. Confidence(rule, f.links) <= Confidence(rule, f.links)'
    <3>1. Confirming(f.links) \subseteq Confirming(f.links)'
      BY <1>1, <1>2 DEF Confirming
    <3>2. f.links \in SUBSET host.observations /\ f.links \in SUBSET host'.observations
      BY <1>3, <2>1 DEF Sound
    <3>3. /\ Cardinality(f.links) \in Nat /\ Cardinality(Confirming(f.links)) \in Nat
      BY <1>0, <3>2, LinksConfirm
    <3>4. IsFiniteSet(Confirming(f.links)') /\ Cardinality(Confirming(f.links)') \in Nat
      <4>1. Confirming(f.links)' \subseteq scanned'
        BY <1>4 DEF RowsInv, Confirming
      <4> QED BY <1>4, <4>1, FS_Subset, FS_CardinalityType DEF RowsInv
    <3>5. Cardinality(Confirming(f.links)) <= Cardinality(Confirming(f.links)')
      BY <3>1, <3>4, FS_Subset
    <3>6. Confidence(rule, f.links)' =
             Level(BaseConfidence(rule), Cardinality(f.links), Cardinality(Confirming(f.links)'))
      BY <1>2 DEF Confidence, Level, Confirming
    <3>7. Cardinality(f.links) <= Cardinality(f.links)
      BY <3>3
    <3> HIDE DEF f
    <3> QED BY <3>3, <3>4, <3>5, <3>6, <3>7, LevelGrows, ConfidenceLevel, BaseLevel
  <2>3. Confidence(rule, f.links) \in 1 .. 4 /\ Confidence(rule, f.links)' \in 1 .. 4
    <3>1. f.links \in SUBSET host.observations
      BY <2>1 DEF Sound
    <3>2. Confidence(rule, f.links)' \in 1 .. 4
      <4>1. Confirming(f.links)' \subseteq scanned'
        BY <1>4 DEF RowsInv, Confirming
      <4>2. Cardinality(Confirming(f.links)') \in Nat
        BY <1>4, <4>1, FS_Subset, FS_CardinalityType DEF RowsInv
      <4>3. Confidence(rule, f.links)' =
               Level(BaseConfidence(rule), Cardinality(f.links), Cardinality(Confirming(f.links)'))
        BY <1>2 DEF Confidence, Level, Confirming
      <4>4. Cardinality(f.links) \in Nat
        BY <1>0, <3>1, LinksConfirm
      <4> HIDE DEF f
      <4>5. Level(BaseConfidence(rule), Cardinality(f.links), Cardinality(Confirming(f.links)')) \in 1 .. 4
        BY <4>2, <4>4, LevelGrows, BaseLevel
      <4> QED BY <4>3, <4>5
    <3> QED BY <1>0, <3>1, <3>2, LinksConfirm
  <2>4. Sound(rule, f)'
    BY <1>2, <1>3, <2>1, <2>2, <2>3 DEF Sound
  <2>5. rule \notin Restated => rule \in Matching'
    BY <1>3, <1>4, <2>1, StillMatches DEF Matching, RowsInv
  <2> QED BY <2>4, <2>5
<1>7. FindingsInv'
  BY <1>0, <1>2, <1>6 DEF FindingsInv
<1> QED BY <1>4, <1>5, <1>7 DEF CorrelationInv

(* A correlation that ends: what it wrote.                                 *)
LEMMA EndWrites ==
    ASSUME CorrelationInv, NEW c \in Correlators, EndCorrelation(c)
    PROVE  /\ ~Collides(c) /\ findings' = Correlated(findings) /\ fresh' = TRUE
           /\ DOMAIN findings' = DOMAIN findings \cup Matching
           /\ \A rule \in DOMAIN findings \ Matching : findings'[rule] = findings[rule]
           /\ \A rule \in Matching : \E old :
                 /\ old = NoFinding \/ Sound(rule, old)
                 /\ rule \in DOMAIN findings => old = findings[rule]
                 /\ findings'[rule] = Upsert(rule, old)
<1>1. read[c] = findings
  BY DEF EndCorrelation, CorrelationInv, LockInv
<1>2. ~Collides(c)
  BY <1>1 DEF Collides
<1>3. findings' = Correlated(findings) /\ fresh' = TRUE
  BY <1>1, <1>2 DEF EndCorrelation, CorrelationInv, RowsInv
<1>4. /\ DOMAIN findings' = DOMAIN findings \cup Matching
      /\ \A rule \in DOMAIN findings \ Matching : findings'[rule] = findings[rule]
      /\ \A rule \in Matching : findings'[rule] =
            Upsert(rule, IF rule \in DOMAIN findings THEN findings[rule] ELSE NoFinding)
  BY <1>3 DEF Correlated
<1>5. \A rule \in DOMAIN findings : Sound(rule, findings[rule])
  BY DEF CorrelationInv, FindingsInv
<1> QED BY <1>2, <1>3, <1>4, <1>5

(* A correlation that ends leaves findings that are sound and say          *)
(* everything.                                                             *)
LEMMA EndInv ==
    ASSUME CorrelationInv, NEW c \in Correlators, EndCorrelation(c)
    PROVE  CorrelationInv'
<1>0. RowsInv /\ LockInv /\ FindingsInv
  BY DEF CorrelationInv
<1>1. UNCHANGED <<host, sightings, scanned>> /\ correlating[c] = "running" /\ fresh' = TRUE
  BY EndWrites DEF EndCorrelation
<1>2. RowsInv'
  BY <1>0, <1>1 DEF RowsInv
<1>3. LockInv'
  <2>1. correlating' = [correlating EXCEPT ![c] = "idle"] /\ read' = [read EXCEPT ![c] = <<>>]
    BY EndWrites DEF EndCorrelation
  <2> QED BY <1>0, <1>1, <2>1 DEF LockInv
<1>4. Matching' = Matching
  BY <1>1 DEF Matching
<1>5. \A rule \in Matching : Sound(rule, findings'[rule]) /\ Covers(rule, findings'[rule])
  BY <1>0, EndWrites, Upserted
<1>6. \A rule \in DOMAIN findings' : Sound(rule, findings'[rule]) /\ (rule \notin Restated => rule \in Matching)
  BY <1>0, <1>5, EndWrites DEF FindingsInv
<1>7. /\ findings' = [rule \in DOMAIN findings' |-> findings'[rule]] /\ DOMAIN findings' \subseteq Rules
      /\ Matching \subseteq DOMAIN findings'
  BY <1>0, EndWrites DEF FindingsInv, Correlated, Matching
<1>8. FindingsInv'
  <2>1. ASSUME NEW rule PROVE Covers(rule, findings[rule])' <=> Covers(rule, findings'[rule])
    BY <1>1 DEF Covers, Confidence
  <2>2. ASSUME NEW rule \in DOMAIN findings'
        PROVE  Sound(rule, findings[rule])' /\ (rule \notin Restated => rule \in Matching')
    <3>1. rule \notin Restated => rule \in Matching'
      BY <1>4, <1>6
    <3>2. Sound(rule, findings'[rule])
      BY <1>6
    <3>3. Sound(rule, findings[rule])'
      BY <1>1, <3>2 DEF Sound, Confidence
    <3> QED BY <3>1, <3>3
  <2>3. ASSUME NEW rule \in Matching'
        PROVE  rule \in DOMAIN findings' /\ Covers(rule, findings[rule])'
    BY <1>4, <1>5, <1>7, <2>1
  <2> QED BY <1>7, <2>2, <2>3, Zenon DEF FindingsInv
<1> QED BY <1>2, <1>3, <1>8 DEF CorrelationInv

(* Every step keeps the invariant.                                         *)
LEMMA CorrelationStep == CorrelationInv /\ [CorrelationNext]_correlationVars => CorrelationInv'
<1> SUFFICES ASSUME CorrelationInv, [CorrelationNext]_correlationVars PROVE CorrelationInv'
  OBVIOUS
<1>1. ASSUME UNCHANGED <<host, sightings, scanned, findings, fresh>>, LockInv' PROVE CorrelationInv'
  <2>1. RowsInv' /\ Matching' = Matching
    BY <1>1 DEF CorrelationInv, RowsInv, Matching
  <2>2. ASSUME NEW rule PROVE Covers(rule, findings[rule])' <=> Covers(rule, findings[rule])
    BY <1>1 DEF Covers, Confidence
  <2>3. FindingsInv'
    <3>1. ASSUME NEW rule \in DOMAIN findings'
          PROVE  Sound(rule, findings[rule])' /\ (rule \notin Restated => rule \in Matching')
      <4>1. Sound(rule, findings[rule]) /\ (rule \notin Restated => rule \in Matching)
        BY <1>1 DEF CorrelationInv, FindingsInv
      <4>2. Sound(rule, findings[rule])'
        BY <1>1, <4>1 DEF Sound, Confidence
      <4> QED BY <2>1, <4>1, <4>2
    <3>2. ASSUME fresh', NEW rule \in Matching'
          PROVE  rule \in DOMAIN findings' /\ Covers(rule, findings[rule])'
      BY <1>1, <2>1, <2>2, <3>2 DEF CorrelationInv, FindingsInv
    <3>3. findings' = [rule \in DOMAIN findings' |-> findings'[rule]] /\ DOMAIN findings' \subseteq Rules
      BY <1>1 DEF CorrelationInv, FindingsInv
    <3> QED BY <3>1, <3>2, <3>3, Zenon DEF FindingsInv
  <2> QED BY <1>1, <2>1, <2>3 DEF CorrelationInv
<1>2. ASSUME NEW c \in Correlators, StartCorrelation(c) PROVE LockInv'
  BY <1>2 DEF StartCorrelation, WriteLockFree, CorrelationInv, LockInv
<1>3. ASSUME NEW c \in Correlators, AbortCorrelation(c) PROVE LockInv'
  BY <1>3 DEF AbortCorrelation, CorrelationInv, LockInv
<1>4. ASSUME UNCHANGED correlationVars PROVE LockInv'
  BY <1>4 DEF correlationVars, CorrelationInv, LockInv
<1> QED BY <1>1, <1>2, <1>3, <1>4, ScanInv, EndInv
        DEF CorrelationNext, StartCorrelation, AbortCorrelation, correlationVars

(* The invariant holds.                                                    *)
THEOREM CorrelationHolds == CorrelationSpec => []CorrelationInv
BY CorrelationStarts, CorrelationStep, PTL DEF CorrelationSpec

(* The types of the host's rows, sightings and findings.                   *)
THEOREM CorrelationTyped == CorrelationSpec => []CorrelationTypeOK
<1>1. CorrelationInv => CorrelationTypeOK
  <2>1. ASSUME NEW S PROVE IsABag(SetToBag(S))
    BY DEF IsABag, SetToBag
  <2>2. ASSUME CorrelationInv, NEW rule \in DOMAIN findings
        PROVE  /\ IsABag(findings[rule].evidence) /\ findings[rule].links \subseteq host.observations
               /\ findings[rule].confidence \in 1 .. 4
    BY <2>1, <2>2 DEF CorrelationInv, FindingsInv, Sound
  <2> QED BY <2>2 DEF CorrelationInv, RowsInv, LockInv, FindingsInv, CorrelationTypeOK
<1> QED BY <1>1, CorrelationHolds, PTL

(* No correlation fails on the unique key of a finding: the write lock     *)
(* keeps what it read as it is.                                            *)
THEOREM NeverCollides == CorrelationSpec => []CorrelationsSucceed
<1>1. CorrelationInv => CorrelationsSucceed
  BY DEF CorrelationInv, LockInv, CorrelationsSucceed
<1> QED BY <1>1, CorrelationHolds, PTL

(* After a correlation every match of every rule has its finding with all  *)
(* its observations, and its evidence once.                                *)
THEOREM FindingsSayAll == CorrelationSpec => []FindingsCoverHost
<1>1. CorrelationInv => FindingsCoverHost
  <2> SUFFICES ASSUME FindingsInv PROVE FindingsCoverHost
    BY DEF CorrelationInv
  <2>1. ASSUME NEW rule \in DOMAIN findings, NEW k \in DOMAIN findings[rule].evidence
        PROVE  findings[rule].evidence[k] = 1
    <3>1. findings[rule].evidence = SetToBag(DOMAIN findings[rule].evidence)
      BY DEF FindingsInv, Sound
    <3>2. \A S : \A s \in S : SetToBag(S)[s] = 1
      BY DEF SetToBag
    <3> QED BY <3>1, <3>2
  <2>2. ASSUME fresh, NEW rule \in Rules, NEW c \in Candidates(rule, host)
        PROVE  /\ rule \in DOMAIN findings /\ c.evidence \in DOMAIN findings[rule].evidence
               /\ c.cites \subseteq findings[rule].links
    BY <2>2 DEF FindingsInv, Covers, Matching
  <2> QED BY <2>1, <2>2 DEF FindingsCoverHost, BagToSet, BagIn
<1> QED BY <1>1, CorrelationHolds, PTL

(* A finding no longer matched was about a port, a version or a system     *)
(* that a later scan stated anew -- never about an observation or a name.  *)
THEOREM StaleFindings == CorrelationSpec => []OnlyRestatedFactsGoStale
<1>1. CorrelationInv => OnlyRestatedFactsGoStale
  BY DEF CorrelationInv, FindingsInv, OnlyRestatedFactsGoStale, Matching, Restated
<1> QED BY <1>1, CorrelationHolds, PTL

(* No step takes evidence, an observation or confidence from a finding,    *)
(* and a correlation repeated with nothing scanned in between changes      *)
(* nothing.                                                                *)
THEOREM NothingIsTakenBack == CorrelationSpec => ConfirmsOnly
<1> DEFINE Kept(rule) ==
              /\ rule \in DOMAIN findings'
              /\ findings[rule].evidence \sqsubseteq findings'[rule].evidence
              /\ findings[rule].links \subseteq findings'[rule].links
              /\ findings[rule].confidence <= findings'[rule].confidence
<1>1. ASSUME NEW B, NEW A \in SUBSET B PROVE SetToBag(A) \sqsubseteq SetToBag(B)
  BY DEF SetToBag, \sqsubseteq
<1>2. ASSUME CorrelationInv, UNCHANGED findings, NEW rule \in DOMAIN findings PROVE Kept(rule)
  <2>1. Sound(rule, findings[rule])
    BY <1>2 DEF CorrelationInv, FindingsInv
  <2>2. findings[rule].evidence \sqsubseteq findings[rule].evidence /\ findings[rule].confidence \in 1 .. 4
    BY <1>1, <2>1 DEF Sound
  <2> QED BY <1>2, <2>2
<1>3. ASSUME CorrelationInv, NEW c \in Correlators, EndCorrelation(c), NEW rule \in DOMAIN findings PROVE Kept(rule)
  <2>1. RowsInv /\ Sound(rule, findings[rule])
    BY <1>3 DEF CorrelationInv, FindingsInv
  <2>2. CASE rule \in Matching
    <3>1. findings'[rule] = Upsert(rule, findings[rule]) /\ rule \in DOMAIN findings'
      BY <1>3, <2>2, EndWrites
    <3> DEFINE new == findings'[rule]
    <3>2. /\ Sound(rule, new) /\ DOMAIN findings[rule].evidence \subseteq DOMAIN new.evidence
          /\ findings[rule].links \subseteq new.links /\ findings[rule].confidence <= new.confidence
      BY <2>1, <2>2, <3>1, Upserted
    <3>3. findings[rule].evidence \sqsubseteq new.evidence
      BY <1>1, <2>1, <3>2 DEF Sound
    <3> QED BY <3>1, <3>2, <3>3
  <2>3. CASE rule \notin Matching
    <3>1. findings'[rule] = findings[rule] /\ rule \in DOMAIN findings'
      BY <1>3, <2>3, EndWrites
    <3>2. findings[rule].evidence \sqsubseteq findings[rule].evidence /\ findings[rule].confidence \in 1 .. 4
      BY <1>1, <2>1 DEF Sound
    <3> QED BY <3>1, <3>2
  <2> QED BY <2>2, <2>3
<1>4. ASSUME CorrelationInv, NEW c \in Correlators, EndCorrelation(c), fresh PROVE findings' = findings
  <2>1. RowsInv /\ FindingsInv
    BY <1>4 DEF CorrelationInv
  <2>2. Matching \subseteq DOMAIN findings /\ DOMAIN findings' = DOMAIN findings
    BY <1>4, <2>1, EndWrites DEF FindingsInv
  <2>3. \A rule \in DOMAIN findings : findings'[rule] = findings[rule]
    BY <1>4, <2>1, <2>2, EndWrites, SaidAlready DEF FindingsInv
  <2>4. findings' = [rule \in DOMAIN findings' |-> findings'[rule]]
    BY <1>4, EndWrites DEF Correlated
  <2> QED BY <2>1, <2>2, <2>3, <2>4 DEF FindingsInv
<1>5. ASSUME CorrelationInv, [CorrelationNext]_correlationVars
      PROVE  (fresh /\ fresh' => findings' = findings) /\ \A rule \in DOMAIN findings : Kept(rule)
  <2>1. CASE UNCHANGED findings
    BY <1>2, <1>5, <2>1
  <2>2. CASE \E c \in Correlators : EndCorrelation(c)
    BY <1>3, <1>4, <1>5, <2>2
  <2>3. UNCHANGED findings \/ \E c \in Correlators : EndCorrelation(c)
    BY <1>5 DEF CorrelationNext, Scan, StartCorrelation, AbortCorrelation, correlationVars
  <2> QED BY <2>1, <2>2, <2>3
<1> QED BY <1>5, CorrelationHolds, PTL DEF ConfirmsOnly, CorrelationSpec
=============================================================================
