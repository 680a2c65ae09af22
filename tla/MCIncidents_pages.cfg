\* A resident with two memberships, who may join the office, and its administrator.
SPECIFICATION Spec
CONSTANTS
    flat = flat
    loft = loft
    shop = shop
    house = house
    arcade = arcade
    office = office
    res = res
    adm = adm
    inv = inv
    None = None
    Users = {res, adm}
    Recruits = {res}
    Offices = {office}
    Communities = {house, arcade}
    Units = {flat, loft, shop}
    Invites = {inv}
    FirstAdmin <- MCFirstAdmin
    InvitedTo <- MCInvitedTo
    OfficeOf <- MCOfficeOf
    CommunityOf <- MCCommunityOf
    Memberships <- MCMemberships
    Here = house
    Incidents = {1, 2}
    Walks = {w1}
    Creators = {res, adm}
    Readers = {res}
    Filters = {None, flat}
    PageSize = 1
    MaxInFlight = 2
    MaxTime = 1
CHECK_DEADLOCK FALSE
INVARIANTS TypeOK WalkComplete ListedIffResolved
PROPERTIES CreatorEntitled
