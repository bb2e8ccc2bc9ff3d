SPECIFICATION FairSpec
CONSTANTS
    ServiceID = {s1, s2}
    Name = {n1, n2}
    Team = {t1}
    OnCallRef = {none}
    NoOnCall = none
    Null = Null
    Request = {r1, r2}
    MaxClock = 0
    MaxVersion = 2
    Skew = 0
    IfMatchAhead = 0
INVARIANTS UniqueNames
PROPERTIES RequestsFinish
CHECK_DEADLOCK FALSE
