----------------------------- MODULE Authorization -----------------------------
(***************************************************************************)
(* Who may do what: the scope of every request is resolved, before its     *)
(* handler runs, from the rows that bind users to offices and to units.    *)
(***************************************************************************)
EXTENDS Naturals, FiniteSets

CONSTANTS
    Users, Offices, Communities, Units, Invites,
    FirstAdmin,    \* the account made with each office
    Recruits,      \* bound: the users who may be added to an office
    OfficeOf,      \* the office of a community
    CommunityOf,   \* the community of a unit
    InvitedTo,     \* the community of an invitation
    Memberships,   \* the rows of `unit_members` that may come to be
    None

OfficeRoles == {"admin", "admin_staff"}
Roles == {"owner", "tenant"}
ReadRoles == OfficeRoles \cup Roles
ManageRoles == OfficeRoles
UnitMember == [unit: Units, user: Users, role: Roles]

ASSUME AuthorizationAssumption ==
    /\ FirstAdmin \in [Offices -> Users]
    /\ OfficeOf \in [Communities -> Offices]
    /\ CommunityOf \in [Units -> Communities]
    /\ InvitedTo \in [Invites -> Communities]
    /\ Memberships \subseteq UnitMember /\ Recruits \subseteq Users
    /\ None \notin Units \cup Communities

VARIABLES
    staff,    \* `office_members`: the role of a user in an office; nothing ends one
    member    \* the state of each row of `unit_members`

authVars == <<staff, member>>

AuthTypeOK ==
    /\ staff \in [Offices -> [Users -> OfficeRoles \cup {"none"}]]
    /\ member \in [Memberships -> {"none", "active", "lapsed", "deleted"}]

\* An office comes with its first administrator, in one transaction.
CreateOffice(o) == [u \in Users |-> IF u = FirstAdmin[o] THEN "admin" ELSE "none"]

AuthInit ==
    /\ staff = [o \in Offices |-> CreateOffice(o)]
    /\ member = [m \in Memberships |-> "none"]

\* A row between its valid_from and its valid_to, and not deleted.
Active(m) == member[m] = "active"
\* A row that is not deleted, whatever its dates.
Present(m) == member[m] \in {"active", "lapsed"}

-----------------------------------------------------------------------------
(* The resolvers.  Each gives the roles a caller may come out with: none of them is a *)
(* refusal.  `mfa`: the session has used a second factor.                              *)

GetOfficeMemberByOfficeAndUser(o, u) == {staff[o][u]} \ {"none"}

ResolveCommunityRoleViaOffice(c, u) == {r \in OfficeRoles : r = staff[OfficeOf[c]][u]}

\* Any one of the caller's rows answers, also one that has lapsed.
ResolveCommunityRoleViaUnit(c, u) ==
    {m.role : m \in {n \in Memberships :
                        Present(n) /\ n.user = u /\ CommunityOf[n.unit] = c}}

RequireMFAForAdminRoles(r, mfa) == r \in OfficeRoles => mfa

\* Staff who are refused are not asked for a unit.
ResolveCommunity(c, u, mfa) ==
    LET viaOffice == ResolveCommunityRoleViaOffice(c, u)
        roles == IF viaOffice # {} THEN viaOffice ELSE ResolveCommunityRoleViaUnit(c, u)
    IN {r \in roles : RequireMFAForAdminRoles(r, mfa)}

ResolveOffice(o, u, mfa) ==
    {r \in GetOfficeMemberByOfficeAndUser(o, u) : RequireMFAForAdminRoles(r, mfa)}

GetUnitCommunityID(t) == CommunityOf[t]
ResolveCommunityViaUnit(t, u, mfa) == ResolveCommunity(GetUnitCommunityID(t), u, mfa)

GetInvitationCommunityID(i) == InvitedTo[i]
ResolveCommunityViaInvitation(i, u, mfa) ==
    ResolveCommunity(GetInvitationCommunityID(i), u, mfa)

ListOfficeMembershipsByUserID(u) ==
    {m \in Offices \X OfficeRoles : staff[m[1]][u] = m[2]}

\* Mutant: without deleted_at IS NULL.
AllUnitMemberships(u) == {m \in Memberships : member[m] # "none" /\ m.user = u}

ListUnitMembershipsByUserID(u) == {m \in Memberships : Present(m) /\ m.user = u}

\* One membership that needs a second factor refuses them all.
ResolveSelf(u, mfa) ==
    \A m \in ListOfficeMembershipsByUserID(u) : RequireMFAForAdminRoles(m[2], mfa)

-----------------------------------------------------------------------------
(* The constructors of routes: what a route of each shape admits *)

RoleAllowed(r, allowed) == r \in allowed

ScopedCommunity(c, u, mfa, allowed) == {r \in ResolveCommunity(c, u, mfa) : RoleAllowed(r, allowed)}
ScopedOffice(o, u, mfa, allowed) == {r \in ResolveOffice(o, u, mfa) : RoleAllowed(r, allowed)}
ScopedUnit(t, u, mfa, allowed) ==
    {r \in ResolveCommunityViaUnit(t, u, mfa) : RoleAllowed(r, allowed)}
ScopedInvitation(i, u, mfa, allowed) ==
    {r \in ResolveCommunityViaInvitation(i, u, mfa) : RoleAllowed(r, allowed)}
ScopedSelf(u, mfa) == ResolveSelf(u, mfa)

-----------------------------------------------------------------------------
(* What callers are told of their own rows *)

ListCommunitiesByOfficeID(o) == {c \in Communities : OfficeOf[c] = o}

ListMyCommunities(u) ==
    (UNION {ListCommunitiesByOfficeID(m[1]) : m \in ListOfficeMembershipsByUserID(u)})
        \cup {CommunityOf[m.unit] : m \in ListUnitMembershipsByUserID(u)}

GetMyOffices(u) == {m[1] : m \in ListOfficeMembershipsByUserID(u)}

ListOfficeMembers(o) == {v \in Users : staff[o][v] # "none"}
ListMyOfficeMembers(u) == {x \in GetMyOffices(u) \X Users : x[2] \in ListOfficeMembers(x[1])}

ListOfficeMembershipSummariesByUserID(u) ==
    {[id |-> o, role |-> staff[o][u]] : o \in {p \in Offices : u \in ListOfficeMembers(p)}}

ListCommunityMembershipSummariesByUserID(u) ==
    {[id |-> CommunityOf[m.unit], role |-> m.role] :
        m \in {n \in Memberships : Present(n) /\ n.user = u}}

\* The profile asks for no second factor: it describes, and admits to nothing.
Me(u) == ListOfficeMembershipSummariesByUserID(u)
            \cup ListCommunityMembershipSummariesByUserID(u)

-----------------------------------------------------------------------------
(* What changes the rows: each is one transaction of another component *)

CallerOfficeAdmin(a) == {m[1] : m \in {n \in ListOfficeMembershipsByUserID(a) : n[2] = "admin"}}

InsertOfficeMember(o, u, r) ==
    /\ staff[o][u] = "none"
    /\ staff' = [staff EXCEPT ![o][u] = r]

AddOfficeMember(o, u) ==
    /\ \E a \in Users : ScopedSelf(a, TRUE) /\ o \in CallerOfficeAdmin(a)
    /\ InsertOfficeMember(o, u, "admin_staff")
    /\ UNCHANGED member

InsertUnitMember(m) ==
    /\ member[m] = "none"
    /\ member' = [member EXCEPT ![m] = "active"]
    /\ UNCHANGED staff

ManagedByStaff(m) == \E a \in Users : ScopedUnit(m.unit, a, TRUE, ManageRoles) # {}

\* The row of the new role must not exist, deleted or not.
SetRole(m, n) ==
    /\ member[n] = "none" /\ n.unit = m.unit /\ n.user = m.user
    /\ member' = [member EXCEPT ![m] = "none", ![n] = member[m]]

UpdateUnitMember(m, n) ==
    /\ ManagedByStaff(m) /\ Present(m)
    /\ SetRole(m, n)
    /\ UNCHANGED staff

SetDeleted(m) ==
    /\ Present(m)
    /\ member' = [member EXCEPT ![m] = "deleted"]

DeleteUnitMember(m) ==
    /\ ManagedByStaff(m)
    /\ SetDeleted(m)
    /\ UNCHANGED staff

\* valid_to passes.
Lapse(m) ==
    /\ Active(m)
    /\ member' = [member EXCEPT ![m] = "lapsed"]
    /\ UNCHANGED staff

MembershipStep ==
    \/ \E o \in Offices, u \in Recruits : AddOfficeMember(o, u)
    \/ \E m \in Memberships :
        \/ InsertUnitMember(m) \/ DeleteUnitMember(m) \/ Lapse(m)
        \/ \E n \in Memberships : UpdateUnitMember(m, n)

-----------------------------------------------------------------------------
\* The roles in which any route that belongs to the community admits the caller.
Admits(c, u, mfa) ==
    ScopedCommunity(c, u, mfa, ReadRoles)
        \cup (UNION {ScopedUnit(t, u, mfa, ReadRoles) : t \in {s \in Units : CommunityOf[s] = c}})
        \cup (UNION {ScopedInvitation(i, u, mfa, ManageRoles) :
                        i \in {j \in Invites : InvitedTo[j] = c}})

\* What callers are told of their rows and what the routes admit them to agree, though
\* six queries answer.  A caller who may ask for the lists gets exactly the communities
\* and the offices whose routes are open to them, and colleagues are listed to each
\* other; and every role a route may admit a caller in is one the profile names.
ListsAgree ==
    \A u \in Users, mfa \in BOOLEAN :
        /\ ScopedSelf(u, mfa) =>
            /\ ListMyCommunities(u) = {c \in Communities : Admits(c, u, mfa) # {}}
            /\ GetMyOffices(u) = {o \in Offices : ScopedOffice(o, u, mfa, OfficeRoles) # {}}
            /\ \A x \in ListMyOfficeMembers(u) : <<x[1], u>> \in ListMyOfficeMembers(x[2])
        /\ \A c \in Communities : \A r \in Admits(c, u, mfa) :
            [id |-> IF r \in OfficeRoles THEN OfficeOf[c] ELSE c, role |-> r] \in Me(u)
=============================================================================
