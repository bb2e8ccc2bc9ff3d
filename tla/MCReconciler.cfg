SPECIFICATION FairSpec
CONSTANTS
    Specs <- MCSpecs
    Quantity <- MCQuantity
    StatusSteps = 2
    MaxEvents = 3
    MaxFaults = 1
INVARIANTS SettledIsConverged
PROPERTIES ComesToRest
CHECK_DEADLOCK FALSE
