SPECIFICATION Spec
CONSTANTS
    Invites = {i1, i2}
    Emails = {new, root}
    Known = {root}
    Superadmins = {root}
    Fixtures = {new}
    SuperFixtures = {}
    Operators = {o1}
    Seats = {flat, shop}
    Accepts = {r1, r2}
    Admins = {a1}
    Token = Token
    MaxResends = 1
    Lifetime = 1
    MaxTime = 1
SYMMETRY Symmetry
CHECK_DEADLOCK FALSE
INVARIANTS TypeOK OwnAccountOnly
PROPERTIES KeepsPromise
