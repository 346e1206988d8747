SPECIFICATION Spec
CONSTANTS
  a1 = a1
  r1 = r1
  Jobs = {j1, j2}
  Assessments = {a1}
  Runs = {r1}
  RunOf <- OneRun
  AssessmentOf <- OneAssessment
  Workers = {w1, w2}
  Nets = {n1, n2}
  Cancels = {c1}
  Retries = {t1}
  MaxConcurrent = 2
  MaxStops = 0
  None = None
INVARIANT TypeOK
INVARIANT PermitsConserved
INVARIANT RunningMapSound
INVARIANT NoStuckJob
CHECK_DEADLOCK FALSE
SYMMETRY Symmetry
