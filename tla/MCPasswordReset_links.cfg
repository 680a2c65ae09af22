SPECIFICATION Spec
CONSTANTS
    Forgots = {f1, f2}
    Messages = {f1, f2}
    Workers = {w1, w2}
    Idle = Idle
    QueueSize = 1
    Users = {u1}
    Resets = {r1, r2}
    Logins = {l1}
    None = None
    Lifetime = 1
    MaxTime = 1
CHECK_DEADLOCK FALSE
INVARIANTS TypeOK LinksAreStored DrainedMeansTried
PROPERTIES AnsweredIsFinal MailIsTried
