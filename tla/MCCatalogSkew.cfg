SPECIFICATION Spec
CONSTANTS
    ServiceID = {s1}
    Name = {n1}
    Team = {t1}
    OnCallRef = {none, pager}
    NoOnCall = none
    Null = Null
    Request = {r1, r2}
    MaxClock = 2
    MaxVersion = 3
    Skew = 1
    IfMatchAhead = 0
SYMMETRY Symmetry
INVARIANTS HistoryTiles
CHECK_DEADLOCK FALSE
