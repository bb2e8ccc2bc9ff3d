SPECIFICATION FairSpec
CONSTANTS
    Specs <- MCSpecs
    Quantity <- MCQuantity
    StatusSteps = 2
    MaxEvents = 1
    MaxFaults = 0
PROPERTIES AlwaysRests
CHECK_DEADLOCK FALSE
