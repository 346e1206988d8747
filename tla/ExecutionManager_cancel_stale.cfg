SPECIFICATION Spec
CONSTANTS
  a1 = a1
  r1 = r1
  Jobs = {j1}
  Assessments = {a1}
  Runs = {r1}
  RunOf <- OneRun
  AssessmentOf <- OneAssessment
  Workers = {w1, w2}
  Nets = {n1, n2}
  Cancels = {c1}
  Retries = {}
  MaxConcurrent = 1
  MaxStops = 0
  None = None
PROPERTY TerminalStable
CHECK_DEADLOCK FALSE
