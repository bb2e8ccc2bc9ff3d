SPECIFICATION SagaFairSpec
CONSTANTS
    MaximumAttempts = 3
    Faults = {"error", "hidden", "late", "cancel"}
    MaxRuns = 2
    MaxLate = 1
INVARIANTS SuccessIsComplete ResidueExplained
PROPERTIES RolledBackInReverse RunsEnd
CHECK_DEADLOCK FALSE
