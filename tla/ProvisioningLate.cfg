SPECIFICATION SagaSpec
CONSTANTS
    MaximumAttempts = 3
    Faults = {"error", "late"}
    MaxRuns = 2
    MaxLate = 1
INVARIANTS SuccessStands
CHECK_DEADLOCK FALSE
