\* Four verifications, two at once; steps 1 and 2 share their code.
SPECIFICATION TotpSpec
CONSTANTS
    Attempts = {a1, a2, a3, a4}
    Codes = {{0}, {1, 2}, {3}, {}}
    Threshold = 2
    Window = 2
    MaxInFlight = 2
    MaxStep = 3
SYMMETRY Symmetry
INVARIANTS
    TotpTypeOK
    CodeNotReplayed
    FailureBudget
CHECK_DEADLOCK FALSE
