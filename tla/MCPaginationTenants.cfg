SPECIFICATION WalkSpec
CONSTANTS
    RowID = {1, 2, 3, 4}
    Value = {1, 2}
    ChecksOrder = FALSE
    Limits <- MCLimits
    DefaultLimit = 2
    MaxLimit = 3
    MaxChanges = 1
INVARIANTS PagesInOrder
CHECK_DEADLOCK FALSE
