SPECIFICATION FairSpec
CONSTANTS
  a1 = a1
  r1 = r1
  Jobs = {j1, j2, j3}
  Assessments = {a1}
  Runs = {r1}
  RunOf <- OneRun
  AssessmentOf <- OneAssessment
  Workers = {w1, w2}
  Nets = {n1, n2}
  Cancels = {}
  Retries = {}
  MaxConcurrent = 2
  MaxStops = 1
  None = None
INVARIANT NoDoubleExecution
INVARIANT AssessmentRunsWithItsJobs
INVARIANT ShutdownIsClean
PROPERTY LegalTransitions
PROPERTY ImplementsLifecycle
PROPERTY AssessmentSettles
CHECK_DEADLOCK FALSE
