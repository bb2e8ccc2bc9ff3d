SPECIFICATION Spec
CONSTANTS
    TenantID = {t1, t2}
    Slug = {s1}
    Quota = {0, 5}
    Null = Null
    Request = {r1, r2, r3}
    MaxVersion = 3
    IfMatchAhead = 1
SYMMETRY Symmetry
PROPERTIES ArchivedIsFinal
