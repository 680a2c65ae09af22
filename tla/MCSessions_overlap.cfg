\* A superadmin's family and another one, two overlapping requests, expiry.
SPECIFICATION Spec
CONSTANTS
    Rows = {t1, t2, t3}
    Families = {f1, f2}
    SuperadminFamilies = {f2}
    Requests = {q1, q2}
    Auditors = {}
    NoRow = NoRow
    LifetimeDefault = 2
    LifetimeSuperadmin = 1
    MaxTime = 2
SYMMETRY Symmetry
INVARIANTS
    TypeOK
    SuccessorRetiresParent
    SpentTokenNeverRotated
    RevocationCoversWhatItSaw
PROPERTIES
    KeepsPromise
