SPECIFICATION SagaSpec
CONSTANTS
    MaximumAttempts = 3
    Faults = {"hidden"}
    MaxRuns = 1
    MaxLate = 1
INVARIANTS FailedLeavesNothing
CHECK_DEADLOCK FALSE
