\* Two overlapping updates of one community.
SPECIFICATION Spec
CONSTANTS
    Requests = {r1, r2}
    None = None
    MaxTime = 1
    Members = {}
    Communities = {c1}
    Fields = {a, b}
    UnitKeys = {u1}
    StaffKeys = {s1}
    Cifs = {n1}
    Emails = {e1}
SYMMETRY Symmetry
CHECK_DEADLOCK FALSE
INVARIANTS PartialUpdateKept
