SPECIFICATION FairSpec
CONSTANTS
    Plans <- FewPlans
    MaxCancels = 0
    MaxRetries = 0
    MaxCuts = 1
PROPERTIES RowsSettle
CHECK_DEADLOCK FALSE
