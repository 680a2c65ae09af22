\* Three overlapping operations, a clock that jumps.
SPECIFICATION Spec
CONSTANTS
    Requests = {r1, r2, r3}
    None = None
    MaxTime = 1
    Members = {m1}
    Communities = {c1}
    Fields = {a, b}
    UnitKeys = {u1, u2}
    StaffKeys = {s1}
    Cifs = {n1}
    Emails = {e1}
SYMMETRY Symmetry
CHECK_DEADLOCK FALSE
INVARIANTS TypeOK ChainVerifies LastEntryIsRow AllOrNothing OnlyOvertakenUndo
