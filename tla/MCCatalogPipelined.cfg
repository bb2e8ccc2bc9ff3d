SPECIFICATION Spec
CONSTANTS
    ServiceID = {s1}
    Name = {n1}
    Team = {t1}
    OnCallRef = {none, pager}
    NoOnCall = none
    Null = Null
    Request = {r1, r2}
    MaxClock = 1
    MaxVersion = 2
    Skew = 0
    IfMatchAhead = 1
SYMMETRY Symmetry
PROPERTIES VersionedWrites
CHECK_DEADLOCK FALSE
