\* Two overlapping refreshes of one token.
SPECIFICATION Spec
CONSTANTS
    Rows = {t1, t2, t3}
    Families = {f1}
    SuperadminFamilies = {}
    Requests = {q1, q2}
    Auditors = {}
    NoRow = NoRow
    LifetimeDefault = 1
    LifetimeSuperadmin = 1
    MaxTime = 0
SYMMETRY Symmetry
INVARIANTS
    TokenRotatedOnce
