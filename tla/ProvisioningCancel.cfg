SPECIFICATION SagaSpec
CONSTANTS
    MaximumAttempts = 3
    Faults = {"cancel"}
    MaxRuns = 1
    MaxLate = 1
INVARIANTS FailedLeavesNothing
CHECK_DEADLOCK FALSE
