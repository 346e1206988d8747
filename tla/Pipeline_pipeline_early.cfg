SPECIFICATION FairSpec
CONSTANTS
    Plans <- WebPlan
    MaxCancels = 0
    MaxRetries = 0
    MaxCuts = 0
PROPERTIES CompletesAfterItsScans
CHECK_DEADLOCK FALSE
