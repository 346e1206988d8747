----------------------------- MODULE Correlation ----------------------------
(***************************************************************************)
(* CorrelationService: the rules read one host's rows and their matches    *)
(* become findings.  A correlation inserts its CorrelationRun first: the   *)
(* flush takes SQLite's write lock, so nothing else commits between what   *)
(* it reads and what it writes.  Scans write the host's rows in between.   *)
(***************************************************************************)
EXTENDS CorrelationRules, Bags

CONSTANTS Scans,           \* jobs that see the host
          Sightings,       \* what one of them may have found on it
          Correlators      \* requests, and pipelines that end

ASSUME CorrelationAssumption ==
    LargeSurface \in Nat \ {0} /\ \A s \in Sightings : IsFiniteSet(s.observations)

VARIABLES host,            \* the rows of the host
          sightings,       \* ExecutionObservation: <<scan, observation>>
          scanned,         \* ExecutionHost: the scans that saw the host
          findings,        \* the finding of a rule, while there is one
          correlating,     \* where a correlation is
          read,            \* the findings a correlation looked up
          fresh            \* nothing was written since the last correlation

correlationVars == <<host, sightings, scanned, findings, correlating, read, fresh>>

-----------------------------------------------------------------------------
(* What persist() makes of a sighting: a service, a technology or a system *)
(* found again is updated, an observation found again keeps its detail.    *)
Replaced(old, new, Key(_)) == new \cup {r \in old : \A n \in new : Key(n) # Key(r)}

Updated(h, s) ==
    [services |-> Replaced(h.services, s.services, LAMBDA r : r.port),
     technologies |-> Replaced(h.technologies, s.technologies, LAMBDA r : r.name),
     systems |-> Replaced(h.systems, s.systems, LAMBDA r : r.name),
     observations |-> h.observations]

(* Mutant: an observation found again takes over the new detail.           *)
MergedAnew(h, s) ==
    [Updated(h, s) EXCEPT !.observations = Replaced(@, s.observations, LAMBDA r : r.key)]

Merged(h, s) ==
    [Updated(h, s) EXCEPT !.observations = Replaced(s.observations, @, LAMBDA r : r.key)]

SeenIn(s, h) == {o \in h.observations : \E p \in s.observations : p.key = o.key}

-----------------------------------------------------------------------------
(* _upsert_finding(): one finding of a rule and host.                      *)

BumpUncapped(confidence, levels) == confidence + levels                   \* a mutant
Bump(confidence, levels) == IF confidence + levels > 4 THEN 4 ELSE confidence + levels

(* One level for two observations, one for two scans: the scans that saw   *)
(* these observations or, when the rule rests on none, the host.           *)
Confidence(rule, links) ==
    LET confirming == IF links = {} THEN scanned
                      ELSE {s \in Scans : \E o \in links : <<s, o>> \in sightings}
    IN  Bump(BaseConfidence(rule), (IF Cardinality(links) >= 2 THEN 1 ELSE 0)
                                   + (IF Cardinality(confirming) >= 2 THEN 1 ELSE 0))

NoFinding == [evidence |-> EmptyBag, links |-> {}, confidence |-> 0]

(* Mutant: the keys added in this loop are not remembered.                 *)
NewEvidenceEach(old, candidates) ==
    LET keys == {c.evidence : c \in candidates} \ BagToSet(old.evidence)
    IN  [k \in keys |-> Cardinality({c \in candidates : c.evidence = k})]

NewEvidence(old, candidates) ==
    SetToBag({c.evidence : c \in candidates} \ BagToSet(old.evidence))

AllLinks(rule, old) == old.links \cup UNION {c.cites : c \in Candidates(rule, host)}

Confirmation(rule, old, confidence) ==
    [evidence |-> old.evidence (+) NewEvidence(old, Candidates(rule, host)),
     links |-> AllLinks(rule, old), confidence |-> confidence]

(* Mutant: a finding confirmed again is bumped from where it is.           *)
UpsertBumps(rule, old) ==
    Confirmation(rule, old, IF old = NoFinding THEN BaseConfidence(rule) ELSE Bump(old.confidence, 1))

Upsert(rule, old) == Confirmation(rule, old, Confidence(rule, AllLinks(rule, old)))

Matching == {rule \in Rules : Candidates(rule, host) # {}}

Correlated(found) ==
    [rule \in DOMAIN found \cup Matching |->
        IF rule \notin Matching THEN found[rule]
        ELSE Upsert(rule, IF rule \in DOMAIN found THEN found[rule] ELSE NoFinding)]

-----------------------------------------------------------------------------
CorrelationInit ==
    /\ host = [services |-> {}, technologies |-> {}, systems |-> {}, observations |-> {}]
    /\ sightings = {} /\ scanned = {} /\ findings = <<>> /\ fresh = TRUE
    /\ correlating = [c \in Correlators |-> "idle"] /\ read = [c \in Correlators |-> <<>>]

WriteLockFree == \A c \in Correlators : correlating[c] # "running"

(* A job's results are persisted, when no correlation holds the lock.      *)
Scan(e) ==
    /\ WriteLockFree /\ e \notin scanned
    /\ \E s \in Sightings :
          /\ host' = Merged(host, s)
          /\ sightings' = sightings \cup {<<e, o>> : o \in SeenIn(s, host')}
    /\ scanned' = scanned \cup {e} /\ fresh' = FALSE
    /\ UNCHANGED <<findings, correlating, read>>

(* Mutant: the run is added with the rest, at the end.                     *)
StartCorrelationLate(c) ==
    /\ correlating[c] = "idle"
    /\ correlating' = [correlating EXCEPT ![c] = "running"]
    /\ read' = [read EXCEPT ![c] = findings]
    /\ UNCHANGED <<host, sightings, scanned, findings, fresh>>

(* correlate_assessment() inserts its run and looks the findings up.       *)
StartCorrelation(c) ==
    /\ correlating[c] = "idle" /\ WriteLockFree
    /\ correlating' = [correlating EXCEPT ![c] = "running"]
    /\ read' = [read EXCEPT ![c] = findings]
    /\ UNCHANGED <<host, sightings, scanned, findings, fresh>>

(* A rule whose finding appeared since then breaks the unique key.         *)
Collides(c) == Matching \cap (DOMAIN findings \ DOMAIN read[c]) # {}

EndCorrelation(c) ==
    /\ correlating[c] = "running"
    /\ correlating' = [correlating EXCEPT ![c] = IF Collides(c) THEN "failed" ELSE "idle"]
    /\ findings' = IF Collides(c) THEN findings ELSE Correlated(read[c])
    /\ fresh' = (fresh \/ ~Collides(c))
    /\ read' = [read EXCEPT ![c] = <<>>]
    /\ UNCHANGED <<host, sightings, scanned>>

(* Any other error rolls the session back, with the run's status FAILED.   *)
AbortCorrelation(c) ==
    /\ correlating[c] = "running"
    /\ correlating' = [correlating EXCEPT ![c] = "idle"]
    /\ read' = [read EXCEPT ![c] = <<>>]
    /\ UNCHANGED <<host, sightings, scanned, findings, fresh>>

CorrelationNext ==
    \/ \E e \in Scans : Scan(e)
    \/ \E c \in Correlators : StartCorrelation(c) \/ EndCorrelation(c) \/ AbortCorrelation(c)

CorrelationSpec == CorrelationInit /\ [][CorrelationNext]_correlationVars

-----------------------------------------------------------------------------
CorrelationTypeOK ==
    /\ DOMAIN findings \subseteq Rules /\ scanned \subseteq Scans /\ fresh \in BOOLEAN
    /\ \A rule \in DOMAIN findings : /\ IsABag(findings[rule].evidence)
                                     /\ findings[rule].links \subseteq host.observations
                                     /\ findings[rule].confidence \in 1 .. 4
    /\ sightings \subseteq scanned \X host.observations
    /\ correlating \in [Correlators -> {"idle", "running", "failed"}]

(* "a rule fires at most once per host": two correlations at once do not   *)
(* both insert a rule's finding, and none is lost to the unique key.       *)
CorrelationsSucceed == \A c \in Correlators : correlating[c] # "failed"

(* After a correlation the findings say all there is to say: every match   *)
(* has its finding, with its evidence, once, and all its observations.     *)
FindingsCoverHost ==
    /\ \A rule \in DOMAIN findings : \A k \in BagToSet(findings[rule].evidence) :
          findings[rule].evidence[k] = 1
    /\ fresh => \A rule \in Rules : \A c \in Candidates(rule, host) :
          /\ rule \in DOMAIN findings
          /\ BagIn(c.evidence, findings[rule].evidence) /\ c.cites \subseteq findings[rule].links

(* No finding is ever closed.  One that no longer matches was about a port *)
(* or a version that changed, or a system that is no longer the best match *)
(* -- never about observations, which keep the detail they were first      *)
(* seen with, nor about a name.                                            *)
OnlyRestatedFactsGoStale ==
    \A rule \in DOMAIN findings : Candidates(rule, host) = {} =>
        rule \in ServiceRules \cup {"TECH1", "OS1", "CROSS2"}

(* A correlation takes nothing back -- no evidence, no observation and no  *)
(* confidence -- and repeated without a scan in between it changes nothing.*)
ConfirmsOnly ==
    [][/\ fresh /\ fresh' => findings' = findings
       /\ \A rule \in DOMAIN findings :
             /\ rule \in DOMAIN findings'
             /\ findings[rule].evidence \sqsubseteq findings'[rule].evidence
             /\ findings[rule].links \subseteq findings'[rule].links
             /\ findings[rule].confidence <= findings'[rule].confidence]_correlationVars
=============================================================================
