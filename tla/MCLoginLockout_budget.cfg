\* Logins with a known and an unknown address from one IP, two at once.
SPECIFICATION Spec
CONSTANTS
    Attempts = {a1, a2, a3, a4}
    Emails = {known, unknown}
    Accounts = {known}
    IPs = {i1}
    Threshold = 2
    Window = 2
    CaptchaAfter = 1
    LookupFails = TRUE
    MaxInFlight = 2
    MaxTime = 3
SYMMETRY Symmetry
INVARIANTS
    TypeOK
    FailureBudget
    UngatedBudget
    AlertsApart
CHECK_DEADLOCK FALSE
