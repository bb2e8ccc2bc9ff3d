SPECIFICATION SagaSpec
CONSTANTS
    MaximumAttempts = 3
    Faults = {"error"}
    MaxRuns = 2
    MaxLate = 1
INVARIANTS AtomicLike
CHECK_DEADLOCK FALSE
