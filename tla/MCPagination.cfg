SPECIFICATION WalkSpec
CONSTANTS
    RowID = {1, 2, 3, 4}
    Value = {1, 2}
    ChecksOrder = TRUE
    Limits <- MCLimits
    DefaultLimit = 2
    MaxLimit = 3
    MaxChanges = 2
INVARIANTS PagesInOrder NothingSkipped
CHECK_DEADLOCK FALSE
