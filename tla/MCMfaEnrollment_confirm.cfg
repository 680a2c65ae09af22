\* Two requests enrol and confirm over three codes, two of them per window.
SPECIFICATION Spec
CONSTANTS
    Challenges = {c1, c2, c3}
    Requests = {q1, q2}
    NoChallenge = NoChallenge
    TTL = 1
    MaxAttempts = 2
    IssueLimit = 2
    IssueWindow = 2
    MaxTime = 2
SYMMETRY Symmetry
INVARIANTS
    TypeOK
    ActiveSecretConfirmed
    SupersededIsClosed
    IssuanceCapped
    OpenCodeIsMailed
PROPERTIES
    ActivatedOnce
