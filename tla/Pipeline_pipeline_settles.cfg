SPECIFICATION Spec
CONSTANTS
    Plans <- WebPlan
    MaxCancels = 0
    MaxRetries = 0
    MaxCuts = 0
PROPERTIES SettlesAfterItsJobs
CHECK_DEADLOCK FALSE
