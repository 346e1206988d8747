SPECIFICATION FairSpec
CONSTANTS
  a1 = a1
  r1 = r1
  Jobs = {j1}
  Assessments = {a1}
  Runs = {r1}
  RunOf <- OneRun
  AssessmentOf <- OneAssessment
  Workers = {w1, w2}
  Nets = {n1, n2}
  Cancels = {c1}
  Retries = {t1}
  MaxConcurrent = 1
  MaxStops = 1
  None = None
PROPERTY EveryJobSettles
PROPERTY CancelRescues
CHECK_DEADLOCK FALSE
