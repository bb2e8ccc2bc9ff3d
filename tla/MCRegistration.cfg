SPECIFICATION RegSpec
CONSTANTS
    ServiceID = {a1, a2, a3}
    Attempt = {a1, a2, a3}
    Key = {k1, k2}
    Name = {n1, n2}
    Team = {t1}
    OnCallRef = {none}
    NoOnCall = none
    Null = Null
    Time = {0}
    MaxVersion = 2
SYMMETRY Symmetry
INVARIANTS RegisteredOnce AnswersAgree
CHECK_DEADLOCK FALSE
