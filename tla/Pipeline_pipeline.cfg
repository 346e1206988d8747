SPECIFICATION Spec
CONSTANTS
    Plans <- FewPlans
    MaxCancels = 1
    MaxRetries = 1
    MaxCuts = 1
CONSTRAINT FewUpsets
INVARIANTS TypeOK RowsFollowJobs QuietRunIsOver CorrelatedTwiceAtMost CompletedRunIsDone CohortKeepsRunning
PROPERTIES OutcomeIsFinal
CHECK_DEADLOCK FALSE
