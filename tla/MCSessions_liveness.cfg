\* Every request ends, under the fairness of the goroutines that run them and of
\* PostgreSQL's queues of waiters and its deadlock detector.
SPECIFICATION FairSpec
CONSTANTS
    Rows = {t1, t2, t3}
    Families = {f1}
    SuperadminFamilies = {}
    Requests = {q1, q2}
    Auditors = {a1}
    NoRow = NoRow
    LifetimeDefault = 1
    LifetimeSuperadmin = 1
    MaxTime = 0
PROPERTIES
    RequestsEnd
