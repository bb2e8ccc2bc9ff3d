SPECIFICATION Spec
CONSTANTS
    Specs <- MCSpecs
    Quantity <- MCQuantity
    StatusSteps = 2
    MaxEvents = 2
    MaxFaults = 0
INVARIANTS NoServiceWhenNotExposed
CHECK_DEADLOCK FALSE
