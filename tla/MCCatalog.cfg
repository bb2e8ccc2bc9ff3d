SPECIFICATION Spec
CONSTANTS
    ServiceID = {s1}
    Name = {n1}
    Team = {t1, t2}
    OnCallRef = {none, pager}
    NoOnCall = none
    Null = Null
    Request = {r1, r2}
    MaxClock = 2
    MaxVersion = 3
    Skew = 0
    IfMatchAhead = 0
SYMMETRY Symmetry
INVARIANTS ProductionHasOnCall EventPerVersion HistoryMatchesRow HistoryTiles OccurredInOrder
PROPERTIES RetiredIsFinal AtomicWrites
CHECK_DEADLOCK FALSE
