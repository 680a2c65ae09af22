---------------------------- MODULE IncidentsProofs ----------------------------
(***************************************************************************)
(* Incidents, for any communities, rows of membership, callers and walks,  *)
(* any number of incidents and any size of page.                           *)
(*                                                                         *)
(* That the lists agree with the routes is a matter of the rows alone.     *)
(* What a resident creates is covered by rows the history has (CreationInv). *)
(* What a walk owes is listed, or still comes after the cursor (OwedInv):  *)
(* for that, a page must have the first rows of all those that come next,  *)
(* so that the proof begins with sorting: the rows of a list can be put in *)
(* order, and the sequence that is in order has them all.                  *)
(***************************************************************************)
EXTENDS Incidents, SequenceTheorems, FiniteSetTheorems, WellFoundedInduction, TLAPS

-----------------------------------------------------------------------------
(* Sorting *)

\* The order of a list is strict and total.
LEMMA BeforeIsOrder ==
    ASSUME TypeOK, NEW i \in Incidents, NEW j \in Incidents
    PROVE  /\ ~ Before(i, i)
           /\ Before(i, j) => ~ Before(j, i)
           /\ i # j => Before(i, j) \/ Before(j, i)
           /\ After(i, j) <=> Before(j, i)
           /\ \A k \in Incidents : Before(i, j) /\ Before(j, k) => Before(i, k)
<1>1. \A k \in Incidents : k \in Nat /\ incident[k].created \in Nat
  BY IncidentsAssumption DEF TypeOK, Incident
<1> QED
  BY <1>1 DEF Before, After

\* A smallest set of a kind of subsets of a finite set.
LEMMA SmallestSubset ==
    ASSUME NEW S, IsFiniteSet(S), NEW T, T \subseteq SUBSET S, T # {}
    PROVE  \E t \in T : \A s \in T : s \subseteq t => s = t
<1>1. IsWellFoundedOn(StrictSubsetOrdering(S), SUBSET S)
  BY FS_StrictSubsetOrderingWellFounded, FS_FiniteSubsetsOfFinite
<1>2. PICK t \in T : \A s \in T : ~ (<<s, t>> \in StrictSubsetOrdering(S))
  BY <1>1, WFMin
<1>3. \A s \in T : s \subseteq t => s = t
  BY <1>2 DEF StrictSubsetOrdering
<1> QED
  BY <1>3

IsEnd(x, S) == x \in S /\ \A y \in S \ {x} : Before(y, x)

LEMMA SomeEnd ==
    ASSUME TypeOK, NEW S \in SUBSET Incidents, S # {}
    PROVE  \E x \in S : IsEnd(x, S)
<1> DEFINE T == {s \in SUBSET S : s # {} /\ ~ \E x \in s : IsEnd(x, s)}
<1> SUFFICES ASSUME T # {} PROVE FALSE
  OBVIOUS
<1>1. IsFiniteSet(S)
  BY IncidentsAssumption, FS_Subset
<1>2. PICK t \in T : \A s \in T : s \subseteq t => s = t
  <2> HIDE DEF T
  <2>1. T \subseteq SUBSET S
    BY DEF T
  <2> QED BY <1>1, <2>1, SmallestSubset
<1>3. PICK e \in t : TRUE
  BY DEF T
<1>4. \A s \in SUBSET S : s \subseteq t /\ s # t /\ s # {} => \E x \in s : IsEnd(x, s)
  BY <1>2 DEF T
<1>5. CASE t \ {e} = {}
  BY <1>2, <1>5 DEF T, IsEnd
<1>6. CASE t \ {e} # {}
  <2>1. PICK x \in t \ {e} : IsEnd(x, t \ {e})
    BY <1>3, <1>4, <1>6 DEF T
  <2>2. x \in Incidents /\ e \in Incidents /\ x # e /\ x \in t /\ t \subseteq Incidents
    BY <1>3, <2>1 DEF T
  <2>3. CASE Before(e, x)
    <3>1. IsEnd(x, t)
      BY <2>1, <2>2, <2>3 DEF IsEnd
    <3> QED BY <2>2, <3>1 DEF T
  <2>4. CASE Before(x, e)
    <3>1. \A y \in t \ {e} : Before(y, e)
      BY <2>1, <2>2, <2>4, BeforeIsOrder DEF IsEnd
    <3>2. IsEnd(e, t)
      BY <1>3, <3>1 DEF IsEnd
    <3> QED BY <1>3, <3>2 DEF T
  <2> QED BY <2>2, <2>3, <2>4, BeforeIsOrder
<1> QED BY <1>5, <1>6

Sorted(S) == {rows \in [1..Cardinality(S) -> S] : InOrder(rows)}

\* What is in order repeats nothing, and so has every element.
LEMMA SortedIsWhole ==
    ASSUME TypeOK, NEW S \in SUBSET Incidents, NEW rows \in Sorted(S)
    PROVE  /\ rows \in Seq(S) /\ Len(rows) = Cardinality(S)
           /\ \A x \in S : \E n \in 1..Len(rows) : rows[n] = x
           /\ rows \in SetToSeqs(S)
<1> DEFINE c == Cardinality(S)
<1>1. IsFiniteSet(S) /\ c \in Nat
  BY IncidentsAssumption, FS_Subset, FS_CardinalityType
<1>2. rows \in [1..c -> S] /\ DOMAIN rows = 1..c /\ InOrder(rows)
  BY DEF Sorted
<1>3. rows \in Seq(S) /\ Len(rows) = c
  BY <1>1, <1>2, SeqDef
<1>4. \A m, n \in 1..c : m # n => rows[m] # rows[n]
  <2> SUFFICES ASSUME NEW m \in 1..c, NEW n \in 1..c, m < n PROVE rows[m] # rows[n]
    BY <1>1
  <2>1. Before(rows[m], rows[n]) /\ rows[m] \in Incidents
    BY <1>2 DEF InOrder
  <2> QED BY <2>1, BeforeIsOrder
<1>5. rows \in Injection(1..c, S)
  BY <1>2, <1>4 DEF Injection, IsInjective
<1>6. Cardinality(1..c) = c
  BY <1>1, FS_Interval
<1>7. rows \in Surjection(1..c, S)
  BY <1>1, <1>5, <1>6, FS_Injection
<1>8. \A x \in S : \E n \in 1..c : rows[n] = x
  BY <1>7 DEF Surjection
<1>9. rows \in SetToSeqs(S)
  BY <1>2, <1>4 DEF SetToSeqs
<1> QED BY <1>3, <1>8, <1>9

\* Any set of incidents can be put in order: what comes last is put behind the rest.
LEMMA SomeSorted ==
    ASSUME TypeOK, NEW S \in SUBSET Incidents
    PROVE  Sorted(S) # {}
<1> DEFINE T == {s \in SUBSET S : Sorted(s) = {}}
<1> SUFFICES ASSUME T # {} PROVE FALSE
  BY DEF T
<1>1. IsFiniteSet(S)
  BY IncidentsAssumption, FS_Subset
<1>2. PICK t \in T : \A s \in T : s \subseteq t => s = t
  <2> HIDE DEF T
  <2>1. T \subseteq SUBSET S
    BY DEF T
  <2> QED BY <1>1, <2>1, SmallestSubset
<1>3. t \subseteq Incidents /\ IsFiniteSet(t)
  BY <1>1, FS_Subset DEF T
<1>4. t # {}
  <2>1. ASSUME t = {} PROVE << >> \in Sorted(t)
    BY <2>1, FS_EmptySet DEF Sorted, InOrder
  <2> QED BY <1>2, <2>1 DEF T
<1>5. PICK x \in t : IsEnd(x, t)
  BY <1>3, <1>4, SomeEnd
<1> DEFINE r == t \ {x}
           c == Cardinality(r)
<1>6. IsFiniteSet(r) /\ c \in Nat /\ Cardinality(t) = c + 1
  <2>1. IsFiniteSet(r) /\ c = Cardinality(t) - 1 /\ Cardinality(t) \in Nat
    BY <1>3, <1>5, FS_RemoveElement, FS_CardinalityType
  <2>2. c \in Nat
    BY <2>1, FS_CardinalityType
  <2> QED BY <2>1, <2>2
<1>7. PICK rows : rows \in Sorted(r)
  BY <1>2, <1>5 DEF T
<1> DEFINE longer == [n \in 1..(c + 1) |-> IF n = c + 1 THEN x ELSE rows[n]]
<1>8. rows \in [1..c -> r] /\ InOrder(rows) /\ DOMAIN rows = 1..c
  BY <1>7 DEF Sorted
<1>9. longer \in [1..(c + 1) -> t]
  <2>1. \A n \in 1..(c + 1) : n # c + 1 => n \in 1..c
    BY <1>6
  <2>2. \A n \in 1..c : rows[n] \in t
    BY <1>8
  <2> QED BY <1>5, <2>1, <2>2
<1>10. ASSUME NEW m \in 1..(c + 1), NEW n \in 1..(c + 1), m < n
       PROVE  Before(longer[m], longer[n])
  <2>1. m \in 1..c /\ longer[m] = rows[m] /\ rows[m] \in r
    <3>1. m \in 1..c /\ m # c + 1
      BY <1>6, <1>10
    <3> QED BY <1>8, <3>1
  <2>2. CASE n = c + 1
    BY <1>5, <2>1, <2>2 DEF IsEnd
  <2>3. CASE n # c + 1
    <3>1. n \in 1..c /\ longer[n] = rows[n]
      BY <1>6, <2>3
    <3> QED BY <1>8, <1>10, <2>1, <3>1 DEF InOrder
  <2> QED BY <2>2, <2>3
<1>11. longer \in Sorted(t)
  <2> HIDE DEF longer
  <2>1. DOMAIN longer = 1..(c + 1)
    BY <1>9
  <2>2. InOrder(longer)
    BY <2>1, <1>10 DEF InOrder
  <2> QED BY <1>6, <1>9, <2>2 DEF Sorted
<1> QED BY <1>2, <1>11 DEF T

-----------------------------------------------------------------------------
(* The rows that bind users, and what the routes and the lists make of them *)

LEMMA MembershipStepType == AuthTypeOK /\ MembershipStep => AuthTypeOK'
<1> SUFFICES ASSUME AuthTypeOK, MembershipStep PROVE AuthTypeOK'
  OBVIOUS
<1>1. ASSUME NEW o \in Offices, NEW u \in Recruits, AddOfficeMember(o, u) PROVE AuthTypeOK'
  BY <1>1, AuthorizationAssumption DEF AuthTypeOK, AddOfficeMember, InsertOfficeMember, OfficeRoles
<1>2. ASSUME NEW m \in Memberships, InsertUnitMember(m) PROVE AuthTypeOK'
  BY <1>2 DEF AuthTypeOK, InsertUnitMember
<1>3. ASSUME NEW m \in Memberships, DeleteUnitMember(m) PROVE AuthTypeOK'
  BY <1>3 DEF AuthTypeOK, DeleteUnitMember, SetDeleted
<1>4. ASSUME NEW m \in Memberships, Lapse(m) PROVE AuthTypeOK'
  BY <1>4 DEF AuthTypeOK, Lapse
<1>5. ASSUME NEW m \in Memberships, NEW n \in Memberships, UpdateUnitMember(m, n) PROVE AuthTypeOK'
  BY <1>5 DEF AuthTypeOK, UpdateUnitMember, SetRole
<1> QED BY <1>1, <1>2, <1>3, <1>4, <1>5 DEF MembershipStep

\* Whatever the shape of a route, it admits those whom the resolver of its community gives a role.
LEMMA AdmitsIsResolved ==
    ASSUME AuthTypeOK, NEW c \in Communities, NEW u \in Users, NEW mfa \in BOOLEAN
    PROVE  Admits(c, u, mfa) = ResolveCommunity(c, u, mfa)
<1>1. ResolveCommunity(c, u, mfa) \subseteq ReadRoles
  BY AuthorizationAssumption DEF ResolveCommunity, ResolveCommunityRoleViaOffice,
     ResolveCommunityRoleViaUnit, ReadRoles, UnitMember
<1>2. ScopedCommunity(c, u, mfa, ReadRoles) = ResolveCommunity(c, u, mfa)
  BY <1>1 DEF ScopedCommunity, RoleAllowed
<1>3. \A t \in {s \in Units : CommunityOf[s] = c} :
          ScopedUnit(t, u, mfa, ReadRoles) \subseteq ResolveCommunity(c, u, mfa)
  BY DEF ScopedUnit, ResolveCommunityViaUnit, GetUnitCommunityID
<1>4. \A i \in {j \in Invites : InvitedTo[j] = c} :
          ScopedInvitation(i, u, mfa, ManageRoles) \subseteq ResolveCommunity(c, u, mfa)
  BY DEF ScopedInvitation, ResolveCommunityViaInvitation, GetInvitationCommunityID
<1> QED BY <1>2, <1>3, <1>4 DEF Admits

\* The resolver of a community, case by case: an office comes before the units.
LEMMA ResolvedRoles ==
    ASSUME AuthTypeOK, NEW c \in Communities, NEW u \in Users, NEW mfa \in BOOLEAN
    PROVE  /\ staff[OfficeOf[c]][u] # "none" =>
                  /\ staff[OfficeOf[c]][u] \in OfficeRoles
                  /\ ResolveCommunity(c, u, mfa) = {r \in {staff[OfficeOf[c]][u]} : mfa}
           /\ staff[OfficeOf[c]][u] = "none" =>
                  ResolveCommunity(c, u, mfa) = ResolveCommunityRoleViaUnit(c, u)
           /\ ResolveCommunityRoleViaUnit(c, u) \cap OfficeRoles = {}
<1>1. staff[OfficeOf[c]][u] \in OfficeRoles \cup {"none"} /\ "none" \notin OfficeRoles
  BY AuthorizationAssumption DEF AuthTypeOK, OfficeRoles
<1>2. ResolveCommunityRoleViaUnit(c, u) \cap OfficeRoles = {}
  BY AuthorizationAssumption DEF ResolveCommunityRoleViaUnit, UnitMember, Roles, OfficeRoles
<1> QED
  BY <1>1, <1>2 DEF ResolveCommunity, ResolveCommunityRoleViaOffice, RequireMFAForAdminRoles

LEMMA RowsMakeListsAgree == AuthTypeOK => ListsAgree
<1> SUFFICES ASSUME AuthTypeOK, NEW u \in Users, NEW mfa \in BOOLEAN
             PROVE  /\ ScopedSelf(u, mfa) =>
                        /\ ListMyCommunities(u) = {c \in Communities : Admits(c, u, mfa) # {}}
                        /\ GetMyOffices(u) = {o \in Offices : ScopedOffice(o, u, mfa, OfficeRoles) # {}}
                        /\ \A x \in ListMyOfficeMembers(u) : <<x[1], u>> \in ListMyOfficeMembers(x[2])
                    /\ \A c \in Communities : \A r \in Admits(c, u, mfa) :
                        [id |-> IF r \in OfficeRoles THEN OfficeOf[c] ELSE c, role |-> r] \in Me(u)
  BY DEF ListsAgree
<1>1. \A o \in Offices, v \in Users : staff[o][v] \in OfficeRoles \cup {"none"} /\ "none" \notin OfficeRoles
  BY DEF AuthTypeOK, OfficeRoles
<1>2. \A o, r : <<o, r>> \in ListOfficeMembershipsByUserID(u) <=> o \in Offices /\ r \in OfficeRoles /\ staff[o][u] = r
  BY DEF ListOfficeMembershipsByUserID
<1>3. \A m \in ListOfficeMembershipsByUserID(u) : m[1] \in Offices /\ m[2] \in OfficeRoles /\ staff[m[1]][u] = m[2]
  BY DEF ListOfficeMembershipsByUserID
<1>4. \A v \in Users : GetMyOffices(v) = {o \in Offices : staff[o][v] # "none"}
  <2> TAKE v \in Users
  <2>1. ASSUME NEW o \in Offices, staff[o][v] # "none" PROVE o \in GetMyOffices(v)
    <3>1. <<o, staff[o][v]>> \in ListOfficeMembershipsByUserID(v)
      BY <1>1, <2>1 DEF ListOfficeMembershipsByUserID
    <3> QED BY <3>1 DEF GetMyOffices
  <2>2. ASSUME NEW o \in GetMyOffices(v) PROVE o \in Offices /\ staff[o][v] # "none"
    BY <1>1, <2>2 DEF GetMyOffices, ListOfficeMembershipsByUserID
  <2> QED BY <2>1, <2>2
<1>5. ASSUME ScopedSelf(u, mfa), NEW o \in Offices, staff[o][u] # "none" PROVE mfa
  <2>1. <<o, staff[o][u]>> \in ListOfficeMembershipsByUserID(u)
    BY <1>1, <1>2, <1>5
  <2> QED BY <1>1, <1>5, <2>1 DEF ScopedSelf, ResolveSelf, RequireMFAForAdminRoles
<1>6. ASSUME ScopedSelf(u, mfa)
      PROVE  ListMyCommunities(u) = {c \in Communities : Admits(c, u, mfa) # {}}
  <2>1. \A c : c \in ListMyCommunities(u) <=>
            \/ c \in Communities /\ staff[OfficeOf[c]][u] # "none"
            \/ \E m \in Memberships : Present(m) /\ m.user = u /\ CommunityOf[m.unit] = c
    <3>1. \A c : c \in (UNION {ListCommunitiesByOfficeID(m[1]) : m \in ListOfficeMembershipsByUserID(u)})
                    <=> c \in Communities /\ OfficeOf[c] \in GetMyOffices(u)
      BY DEF GetMyOffices, ListCommunitiesByOfficeID
    <3>2. \A c \in Communities : OfficeOf[c] \in GetMyOffices(u) <=> staff[OfficeOf[c]][u] # "none"
      BY <1>4, AuthorizationAssumption
    <3> QED BY <3>1, <3>2 DEF ListMyCommunities, ListUnitMembershipsByUserID
  <2>2. \A m \in Memberships : CommunityOf[m.unit] \in Communities
    BY AuthorizationAssumption DEF UnitMember
  <2>3. ASSUME NEW c \in Communities PROVE c \in ListMyCommunities(u) <=> Admits(c, u, mfa) # {}
    <3>1. Admits(c, u, mfa) = ResolveCommunity(c, u, mfa)
      BY AdmitsIsResolved
    <3>2. CASE staff[OfficeOf[c]][u] # "none"
      <4>1. mfa
        BY <1>5, <1>6, <3>2, AuthorizationAssumption
      <4>2. staff[OfficeOf[c]][u] \in Admits(c, u, mfa)
        <5>1. ResolveCommunity(c, u, mfa) = {r \in {staff[OfficeOf[c]][u]} : mfa}
          BY <3>2, ResolvedRoles
        <5> QED BY <3>1, <4>1, <5>1
      <4> QED BY <2>1, <3>2, <4>2
    <3>3. CASE staff[OfficeOf[c]][u] = "none"
      <4>1. ResolveCommunityRoleViaUnit(c, u) # {} <=>
                \E m \in Memberships : Present(m) /\ m.user = u /\ CommunityOf[m.unit] = c
        BY DEF ResolveCommunityRoleViaUnit
      <4> QED BY <2>1, <3>1, <3>3, <4>1, ResolvedRoles
    <3> QED BY <3>2, <3>3
  <2> QED BY <2>1, <2>2, <2>3
<1>7. ASSUME ScopedSelf(u, mfa)
      PROVE  GetMyOffices(u) = {o \in Offices : ScopedOffice(o, u, mfa, OfficeRoles) # {}}
  <2>1. ASSUME NEW o \in Offices
        PROVE  staff[o][u] # "none" <=> ScopedOffice(o, u, mfa, OfficeRoles) # {}
    BY <1>1, <1>5, <1>7 DEF ScopedOffice, RoleAllowed, ResolveOffice, RequireMFAForAdminRoles,
       GetOfficeMemberByOfficeAndUser
  <2> QED BY <1>4, <2>1
<1>8. \A x \in ListMyOfficeMembers(u) : <<x[1], u>> \in ListMyOfficeMembers(x[2])
  BY <1>4 DEF ListMyOfficeMembers, ListOfficeMembers
<1>9. ASSUME NEW c \in Communities, NEW r \in Admits(c, u, mfa)
      PROVE  [id |-> IF r \in OfficeRoles THEN OfficeOf[c] ELSE c, role |-> r] \in Me(u)
  <2>1. r \in ResolveCommunity(c, u, mfa)
    BY <1>9, AdmitsIsResolved
  <2>2. CASE staff[OfficeOf[c]][u] # "none"
    <3>1. r = staff[OfficeOf[c]][u] /\ r \in OfficeRoles /\ OfficeOf[c] \in Offices
      BY <2>1, <2>2, ResolvedRoles, AuthorizationAssumption
    <3>2. [id |-> OfficeOf[c], role |-> r] \in ListOfficeMembershipSummariesByUserID(u)
      BY <2>2, <3>1 DEF ListOfficeMembershipSummariesByUserID, ListOfficeMembers
    <3> QED BY <3>1, <3>2 DEF Me
  <2>3. CASE staff[OfficeOf[c]][u] = "none"
    <3>1. r \in ResolveCommunityRoleViaUnit(c, u) /\ r \notin OfficeRoles
      BY <2>1, <2>3, ResolvedRoles
    <3>2. [id |-> c, role |-> r] \in ListCommunityMembershipSummariesByUserID(u)
      BY <3>1 DEF ResolveCommunityRoleViaUnit, ListCommunityMembershipSummariesByUserID
    <3> QED BY <3>1, <3>2 DEF Me
  <2> QED BY <2>2, <2>3
<1> QED BY <1>6, <1>7, <1>8, <1>9

-----------------------------------------------------------------------------
(* Creating an incident *)

\* What has been listed is a sequence of incidents.
LEMMA GotIsSequence ==
    ASSUME TypeOK, NEW w \in Walks
    PROVE  /\ walk[w] \in Walk /\ walk[w].got \in Seq(Incidents)
           /\ DOMAIN walk[w].got = 1..Len(walk[w].got) /\ Len(walk[w].got) \in Nat
           /\ ToSet(walk[w].got) \subseteq Incidents
           /\ \A x : x \in ToSet(walk[w].got) <=> \E n \in 1..Len(walk[w].got) : walk[w].got[n] = x
<1>1. walk[w] \in Walk /\ Cardinality(Incidents) \in Nat
  BY IncidentsAssumption, FS_CardinalityType DEF TypeOK
<1>2. walk[w].got \in Seq(Incidents)
  <2>1. PICK n \in 0..Cardinality(Incidents) : walk[w].got \in [1..n -> Incidents]
    BY <1>1 DEF Walk
  <2> QED BY <2>1, SeqDef
<1>3. DOMAIN walk[w].got = 1..Len(walk[w].got) /\ Len(walk[w].got) \in Nat
  BY <1>2, LenProperties
<1>4. ToSet(walk[w].got) \subseteq Incidents
  BY <1>2, LenProperties DEF ToSet
<1> QED BY <1>1, <1>2, <1>3, <1>4 DEF ToSet

\* What a user sees depends on the rows and on the incident.
LEMMA VisibleKept ==
    ASSUME UNCHANGED authVars, NEW i \in Incidents, NEW u, incident'[i] = incident[i]
    PROVE  /\ GetIncident(i, u)' <=> GetIncident(i, u)
           /\ ActiveHere(u)' = ActiveHere(u)
<1>1. ActiveHere(u)' = ActiveHere(u)
  BY DEF authVars, ActiveHere, Active
<1>2. ResolveCommunityRoleViaOffice(Here, u)' = ResolveCommunityRoleViaOffice(Here, u)
  BY DEF authVars, ResolveCommunityRoleViaOffice
<1>3. GetVisibleIncidentByID(i, u)' <=> GetVisibleIncidentByID(i, u)
  BY <1>1, <1>2 DEF GetVisibleIncidentByID, HasActiveUnitMembership
<1> QED BY <1>1, <1>3 DEF GetIncident, ResolveIncidentAccess, GetIncidentCommunityID

\* A walk does not notice what is done to incidents that are not stored; it may owe less.
LEMMA PagesOutlast ==
    ASSUME IInv, NEW w \in Walks, NEW O \in SUBSET walk[w].owed,
           \A i \in Incidents : incident[i].stage = "stored" => incident'[i].stage = "stored"
                /\ incident'[i].created = incident[i].created /\ incident'[i].unit = incident[i].unit,
           walk'[w] = [walk[w] EXCEPT !.owed = O],
           Walking(w) => \A i \in O : GetIncident(i, walk[w].user)'
    PROVE  PagesInv(w)'
<1> DEFINE got == walk[w].got
<1>1. PagesInv(w) /\ TypeOK
  BY DEF IInv
<1>2. /\ DOMAIN got = 1..Len(got) /\ ToSet(got) \subseteq Incidents
      /\ \A n \in DOMAIN got : got[n] \in ToSet(got)
      /\ got \in Seq(Incidents) /\ Len(got) \in Nat
  BY <1>1, GotIsSequence
<1>3. \A i \in ToSet(got) : /\ incident'[i].stage = "stored"
                            /\ incident'[i].created = incident[i].created
  BY <1>1, <1>2 DEF PagesInv
<1>4. /\ walk'[w].stage = walk[w].stage /\ walk'[w].got = got /\ walk'[w].owed = O
      /\ walk'[w].user = walk[w].user /\ walk'[w].filter = walk[w].filter
      /\ walk'[w].cursor = walk[w].cursor
  BY <1>1, GotIsSequence DEF Walk
<1>5. InOrder(walk[w].got)'
  BY <1>1, <1>2, <1>3, <1>4 DEF PagesInv, InOrder, Before
<1>6. \A i \in ToSet(walk'[w].got) : incident'[i].stage = "stored"
  BY <1>3, <1>4
<1>7. CursorInv(w)'
  BY <1>1, <1>4 DEF PagesInv, CursorInv, Walking
<1>8. OwedInv(w)'
  <2>1. ASSUME Walking(w), NEW i \in O
        PROVE  /\ GetIncident(i, walk[w].user)' /\ Matches(i, walk[w].filter)'
               /\ \/ i \in ToSet(got) \/ walk[w].cursor = None
                  \/ After(i, walk[w].cursor)'
    <3>1. i \in Incidents /\ i \in walk[w].owed
      BY <1>1, <2>1, GotIsSequence DEF Walk
    <3>2. /\ GetIncident(i, walk[w].user) /\ Matches(i, walk[w].filter)
          /\ i \in ToSet(got) \/ walk[w].cursor = None \/ After(i, walk[w].cursor)
      BY <1>1, <2>1, <3>1 DEF PagesInv, OwedInv
    <3>3. incident'[i].created = incident[i].created /\ incident'[i].unit = incident[i].unit
      BY <3>1, <3>2 DEF GetIncident, GetVisibleIncidentByID
    <3>4. walk[w].cursor # None => walk[w].cursor \in ToSet(got)
      BY <1>1, <1>2, <2>1, EmptySeq, GotIsSequence DEF PagesInv, CursorInv
    <3> QED BY <1>3, <2>1, <3>2, <3>3, <3>4 DEF Matches, After
  <2> QED BY <1>1, <1>4, <2>1 DEF OwedInv, PagesInv, Walking
<1> QED BY <1>5, <1>6, <1>7, <1>8 DEF PagesInv

LEMMA PagesKept ==
    ASSUME IInv, NEW w \in Walks,
           \A i \in Incidents : incident[i].stage = "stored" => incident'[i] = incident[i],
           UNCHANGED authVars, walk'[w] = walk[w]
    PROVE  PagesInv(w)'
<1>1. PagesInv(w) /\ walk[w] \in Walk
  BY GotIsSequence DEF IInv
<1>2. walk'[w] = [walk[w] EXCEPT !.owed = walk[w].owed]
  BY <1>1 DEF Walk
<1>3. ASSUME Walking(w), NEW i \in walk[w].owed PROVE GetIncident(i, walk[w].user)'
  <2>1. i \in Incidents /\ GetIncident(i, walk[w].user)
    BY <1>1, <1>3 DEF Walk, PagesInv, OwedInv
  <2>2. incident'[i] = incident[i]
    BY <2>1 DEF GetIncident, GetVisibleIncidentByID
  <2> QED BY <2>1, <2>2, VisibleKept
<1> QED BY <1>2, <1>3, PagesOutlast

\* A step that changes one incident on its way.
LEMMA CreationStep ==
    ASSUME IInv, NEW i \in Incidents, NEW r \in Incident, incident[i].stage # "stored",
           incident' = [incident EXCEPT ![i] = r],
           UNCHANGED <<authVars, now, settings, walk>>,
           CreationInv(i)'
    PROVE  IInv'
<1>1. TypeOK'
  BY DEF IInv, TypeOK, AuthTypeOK, authVars
<1>2. ASSUME NEW j \in Incidents PROVE CreationInv(j)'
  <2>1. CASE j # i
    <3>1. incident'[j] = incident[j] /\ CreationInv(j)
      BY <2>1 DEF IInv, TypeOK
    <3>2. ActiveHere(incident[j].creator)' = ActiveHere(incident[j].creator)
      BY <3>1 DEF authVars, ActiveHere, Active
    <3> QED BY <3>1, <3>2 DEF CreationInv, Entitled, OwnerSeen
  <2> QED BY <2>1
<1>3. ASSUME NEW w \in Walks PROVE PagesInv(w)'
  <2>1. \A j \in Incidents : incident[j].stage = "stored" => incident'[j] = incident[j]
    BY DEF IInv, TypeOK
  <2> QED BY <2>1, PagesKept
<1> QED BY <1>1, <1>2, <1>3 DEF IInv

LEMMA NewIncidentType == NewIncident \in Incident
BY IncidentsAssumption DEF NewIncident, Incident, Stages, Targets

LEMMA CreateResolveStep ==
    ASSUME IInv, NEW i \in Incidents, NEW u \in Creators, NEW t \in Targets, CreateResolve(i, u, t)
    PROVE  IInv'
<1>1. PICK r \in ScopedCommunity(Here, u, TRUE, ReadRoles) :
          incident' = [incident EXCEPT ![i] =
              [NewIncident EXCEPT !.stage = "begin", !.unit = t, !.creator = u,
                                  !.role = r, !.held = ActiveHere(u)]]
  BY DEF CreateResolve
<1> DEFINE new == [NewIncident EXCEPT !.stage = "begin", !.unit = t, !.creator = u,
                                      !.role = r, !.held = ActiveHere(u)]
<1>2. r \in ReadRoles /\ u \in Users
  BY IncidentsAssumption DEF ScopedCommunity, RoleAllowed
<1>3. ActiveHere(u) \subseteq Memberships
  BY DEF ActiveHere
<1>4. /\ new \in Incident
      /\ new.stage = "begin" /\ new.creator = u /\ new.held = ActiveHere(u)
  BY <1>2, <1>3, NewIncidentType DEF Incident, NewIncident, Stages
<1>5. CreationInv(i)'
  <2>1. incident'[i] = new
    BY <1>1 DEF IInv, TypeOK
  <2>2. ActiveHere(u)' = ActiveHere(u)
    BY DEF CreateResolve, authVars, ActiveHere, Active
  <2> HIDE DEF new
  <2> QED BY <1>4, <2>1, <2>2 DEF CreationInv
<1> HIDE DEF new
<1>6. incident' = [incident EXCEPT ![i] = new]
  BY <1>1 DEF new
<1> QED BY <1>4, <1>5, <1>6, CreationStep DEF CreateResolve

LEMMA CreateBeginStep ==
    ASSUME IInv, NEW i \in Incidents, CreateBegin(i)
    PROVE  IInv'
<1> DEFINE staffRole == incident[i].role \in OfficeRoles
           new == [incident[i] EXCEPT !.created = TransactionStart,
                       !.role = IF staffRole THEN @ ELSE "none",
                       !.stage = IF staffRole THEN "insert" ELSE "roles"]
<1>1. incident' = [incident EXCEPT ![i] = new] /\ incident[i].stage = "begin"
  BY DEF CreateBegin
<1>2. incident[i] \in Incident /\ now \in 0..MaxTime /\ CreationInv(i)
  BY DEF IInv, TypeOK
<1>3. /\ new \in Incident
      /\ new.creator = incident[i].creator /\ new.held = incident[i].held
      /\ \/ new.stage = "insert" /\ new.role \in OfficeRoles
         \/ new.stage = "roles"
  BY <1>2 DEF Incident, Stages, TransactionStart
<1>4. incident'[i] = new
  BY <1>1 DEF IInv, TypeOK
<1> HIDE DEF new
<1>5. \A u : ActiveHere(u)' = ActiveHere(u)
  BY DEF CreateBegin, authVars, ActiveHere, Active
<1>6. CreationInv(i)'
  BY <1>1, <1>2, <1>3, <1>4, <1>5 DEF CreationInv, Entitled
<1> QED BY <1>1, <1>3, <1>6, CreationStep DEF CreateBegin

\* A step that only moves an incident to another stage.
LEMMA MoveStep ==
    ASSUME IInv, NEW i \in Incidents, NEW s \in Stages, Move(i, s), incident[i].stage # "stored",
           UNCHANGED <<authVars, now, settings, walk>>,
           s = "unit" => incident[i].unit # None /\ incident[i].held # {} /\ OwnerSeen(i),
           s = "insert" => Entitled(i),
           s \notin {"begin", "roles"}, incident[i].stage \in {"begin", "roles", "unit"}
    PROVE  IInv'
<1> DEFINE new == [incident[i] EXCEPT !.stage = s]
<1>1. incident' = [incident EXCEPT ![i] = new]
  BY DEF Move
<1>2. incident[i] \in Incident /\ CreationInv(i)
  BY DEF IInv, TypeOK
<1>3. /\ new \in Incident /\ new.stage = s
      /\ new.creator = incident[i].creator /\ new.held = incident[i].held
      /\ new.unit = incident[i].unit /\ new.role = incident[i].role
  BY <1>2 DEF Incident
<1>4. incident'[i] = new
  BY <1>1 DEF IInv, TypeOK
<1> HIDE DEF new
<1>5. \A u : ActiveHere(u)' = ActiveHere(u)
  BY DEF authVars, ActiveHere, Active
<1>6. CreationInv(i)'
  BY <1>2, <1>3, <1>4, <1>5 DEF CreationInv, Entitled, OwnerSeen
<1> QED BY <1>1, <1>3, <1>6, CreationStep

\* The check of the roles finds rows that the history has.
LEMMA CheckRolesStep ==
    ASSUME IInv, NEW i \in Incidents, CheckRoles(i)
    PROVE  IInv'
<1>1. ActiveHere(incident[i].creator) \subseteq incident[i].held
  BY DEF CheckRoles, IInv, CreationInv
<1>2. incident[i].held # {} /\ OwnerSeen(i)
  BY <1>1 DEF CheckRoles, GetActiveIncidentCommunityRoles, OwnerSeen, TenantIncidentCreationAllowed
<1>3. Entitled(i) \/ incident[i].unit # None
  BY <1>2 DEF Entitled
<1> QED BY <1>2, <1>3, MoveStep DEF CheckRoles, Stages

LEMMA CheckUnitStep ==
    ASSUME IInv, NEW i \in Incidents, CheckUnit(i)
    PROVE  IInv'
<1>1. /\ ActiveHere(incident[i].creator) \subseteq incident[i].held
      /\ incident[i].held # {} /\ OwnerSeen(i)
  BY DEF CheckUnit, IInv, CreationInv
<1>2. Entitled(i)
  BY <1>1 DEF CheckUnit, HasActiveUnitMembership, Entitled
<1> QED BY <1>2, MoveStep DEF CheckUnit, Stages

LEMMA InsertIncidentStep ==
    ASSUME IInv, NEW i \in Incidents, InsertIncident(i)
    PROVE  IInv'
<1> DEFINE new == [incident[i] EXCEPT !.stage = "stored", !.role = "none", !.held = {}]
<1>1. incident' = [incident EXCEPT ![i] = new]
  BY DEF InsertIncident, IInv, TypeOK
<1>2. incident[i] \in Incident
  BY DEF IInv, TypeOK
<1>3. new \in Incident /\ new.stage = "stored"
  BY <1>2 DEF Incident, Stages
<1>4. incident'[i] = new
  BY <1>1 DEF IInv, TypeOK
<1> HIDE DEF new
<1>5. CreationInv(i)'
  BY <1>3, <1>4 DEF CreationInv
<1> QED BY <1>1, <1>3, <1>5, CreationStep DEF InsertIncident

LEMMA RefuseStep ==
    ASSUME IInv, NEW i \in Incidents, Refuse(i)
    PROVE  IInv'
<1>1. incident'[i] = NewIncident
  BY DEF Refuse, IInv, TypeOK
<1>2. CreationInv(i)'
  BY <1>1 DEF CreationInv, NewIncident
<1>3. incident[i].stage # "stored"
  BY DEF Refuse, InFlight
<1> QED BY <1>2, <1>3, NewIncidentType, CreationStep DEF Refuse

\* Memberships change: the histories note it, and a walk owes no more than before.
LEMMA MembershipChangeStep ==
    ASSUME IInv, MembershipChange
    PROVE  IInv'
<1> DEFINE changed(i) == incident[i].stage \in {"begin", "roles", "unit"}
<1>1. TypeOK
  BY DEF IInv
<1>2. ASSUME NEW i \in Incidents
      PROVE  /\ incident[i] \in Incident
             /\ incident'[i] = IF changed(i) THEN [incident[i] EXCEPT !.held = UNION {@ \cup NowActive(u) :
                                                u \in {incident[i].creator}}]
                               ELSE incident[i]
  BY <1>1 DEF MembershipChange, TypeOK
<1>3. \A u : NowActive(u) \subseteq Memberships
  BY DEF NowActive, ActiveHere
<1>4. ASSUME NEW i \in Incidents, changed(i)
      PROVE  /\ incident'[i] \in Incident
             /\ incident'[i].stage = incident[i].stage /\ incident'[i].unit = incident[i].unit
             /\ incident'[i].created = incident[i].created
             /\ incident'[i].creator = incident[i].creator
             /\ incident'[i].held = incident[i].held \cup NowActive(incident[i].creator)
  <2> DEFINE h == UNION {incident[i].held \cup NowActive(u) : u \in {incident[i].creator}}
  <2>1. h = incident[i].held \cup NowActive(incident[i].creator)
    OBVIOUS
  <2>2. incident'[i] = [incident[i] EXCEPT !.held = h]
    BY <1>2, <1>4
  <2> HIDE DEF h
  <2>3. h \in SUBSET Memberships
    BY <1>2, <1>3, <2>1 DEF Incident
  <2> QED BY <1>2, <2>1, <2>2, <2>3 DEF Incident
<1>5. incident' \in [Incidents -> Incident]
  <2>1. \A i \in Incidents : incident'[i] \in Incident
    BY <1>2, <1>4
  <2> QED BY <2>1 DEF MembershipChange
<1>6. ASSUME NEW w \in Walks
      PROVE  \E O \in SUBSET walk[w].owed :
                /\ walk'[w] = [walk[w] EXCEPT !.owed = O]
                /\ \A i \in O : GetIncident(i, walk[w].user)'
  <2> DEFINE O == {i \in walk[w].owed : \A u \in {walk[w].user} : GetIncident(i, u)'}
  <2>1. walk'[w] = [walk[w] EXCEPT !.owed = O]
    BY DEF MembershipChange
  <2>2. walk[w] \in Walk
    BY <1>1, GotIsSequence
  <2>3. walk'[w].user = walk[w].user
    BY <2>1, <2>2 DEF Walk
  <2>4. \A i \in O : GetIncident(i, walk[w].user)'
    BY <2>3 DEF GetIncident, ResolveIncidentAccess, GetIncidentCommunityID, GetVisibleIncidentByID,
       HasActiveUnitMembership, ActiveHere, Active, ResolveCommunityRoleViaOffice
  <2> QED BY <2>1, <2>4
<1>7. walk' \in [Walks -> Walk]
  <2>1. ASSUME NEW w \in Walks PROVE walk'[w] \in Walk
    <3>1. walk[w] \in Walk
      BY <1>1, GotIsSequence
    <3>2. PICK O \in SUBSET walk[w].owed : walk'[w] = [walk[w] EXCEPT !.owed = O]
      BY <1>6
    <3> QED BY <3>1, <3>2 DEF Walk
  <2> QED BY <2>1 DEF MembershipChange
<1>8. TypeOK'
  BY <1>1, <1>5, <1>7, MembershipStepType DEF MembershipChange, TypeOK
<1>9. ASSUME NEW i \in Incidents PROVE CreationInv(i)'
  <2>1. CreationInv(i)
    BY DEF IInv
  <2>2. CASE changed(i)
    <3>1. incident'[i].stage = "unit" => OwnerSeen(i)'
      BY <1>4, <2>1, <2>2 DEF CreationInv, OwnerSeen, MembershipChange
    <3>2. ActiveHere(incident[i].creator)' \subseteq incident'[i].held
      BY <1>4, <2>2 DEF NowActive
    <3> QED BY <1>4, <2>1, <2>2, <3>1, <3>2 DEF CreationInv
  <2>3. CASE ~ changed(i)
    <3>1. incident'[i] = incident[i] /\ settings' = settings
      BY <1>2, <2>3 DEF MembershipChange
    <3> QED BY <2>1, <2>3, <3>1 DEF CreationInv, Entitled, OwnerSeen
  <2> QED BY <2>2, <2>3
<1>10. ASSUME NEW w \in Walks PROVE PagesInv(w)'
  BY <1>2, <1>6, PagesOutlast
<1> QED BY <1>8, <1>9, <1>10 DEF IInv

-----------------------------------------------------------------------------
(* Going through the pages *)

\* A step that changes one walk.
LEMMA WalkStep ==
    ASSUME IInv, NEW w \in Walks, NEW r \in Walk, walk' = [walk EXCEPT ![w] = r],
           UNCHANGED <<authVars, now, settings, incident>>,
           PagesInv(w)'
    PROVE  IInv'
<1>1. TypeOK'
  BY DEF IInv, TypeOK, AuthTypeOK, authVars
<1>2. ASSUME NEW i \in Incidents PROVE CreationInv(i)'
  <2>1. CreationInv(i)
    BY DEF IInv
  <2>2. \A u : ActiveHere(u)' = ActiveHere(u)
    BY DEF authVars, ActiveHere, Active
  <2> QED BY <2>1, <2>2 DEF CreationInv, Entitled, OwnerSeen
<1>3. ASSUME NEW v \in Walks PROVE PagesInv(v)'
  <2>1. CASE v # w
    <3>1. walk'[v] = walk[v]
      BY <2>1 DEF IInv, TypeOK
    <3> QED BY <3>1, PagesKept
  <2> QED BY <2>1
<1> QED BY <1>1, <1>2, <1>3 DEF IInv

LEMMA NewWalkType == NewWalk \in Walk
<1>1. Cardinality(Incidents) \in Nat
  BY IncidentsAssumption, FS_CardinalityType
<1>2. << >> \in [1..0 -> Incidents] /\ 0 \in 0..Cardinality(Incidents)
  BY <1>1
<1>3. << >> \in UNION {[1..n -> Incidents] : n \in 0..Cardinality(Incidents)}
  BY <1>2
<1> QED BY <1>3 DEF NewWalk, Walk, Targets

LEMMA PageRefusedStep ==
    ASSUME IInv, NEW w \in Walks, PageRefused(w)
    PROVE  IInv'
<1>1. walk'[w] = NewWalk
  BY DEF PageRefused, IInv, TypeOK
<1>2. PagesInv(w)'
  BY <1>1 DEF PagesInv, NewWalk, InOrder, ToSet, CursorInv, OwedInv, Walking
<1> QED BY <1>2, NewWalkType, WalkStep DEF PageRefused

LEMMA BeginWalkStep ==
    ASSUME IInv, NEW w \in Walks, NEW u \in Readers, NEW f \in Filters, BeginWalk(w, u, f)
    PROVE  IInv'
<1> DEFINE o == {i \in Incidents : GetIncident(i, u) /\ Matches(i, f)}
           r == [NewWalk EXCEPT !.stage = "list", !.user = u, !.filter = f, !.owed = o]
<1>1. walk' = [walk EXCEPT ![w] = r] /\ UNCHANGED <<authVars, now, settings, incident>>
  BY DEF BeginWalk
<1>2. u \in Users /\ f \in Targets
  BY IncidentsAssumption DEF Targets
<1>3. /\ r \in Walk /\ r.stage = "list" /\ r.user = u /\ r.filter = f /\ r.owed = o
      /\ r.got = << >> /\ r.cursor = None
  <2>1. o \in SUBSET Incidents
    OBVIOUS
  <2> HIDE DEF o
  <2> QED BY <1>2, <2>1, NewWalkType DEF NewWalk, Walk
<1>4. walk'[w] = r
  BY <1>1 DEF IInv, TypeOK
<1>5. \A i \in o : GetIncident(i, u)' /\ Matches(i, f)'
  BY <1>1, VisibleKept DEF Matches
<1> HIDE DEF r, o
<1>6. \A i \in o : GetIncident(i, walk[w].user)'
  BY <1>3, <1>4, <1>5 DEF GetIncident, ResolveIncidentAccess, GetIncidentCommunityID,
     GetVisibleIncidentByID, HasActiveUnitMembership, ActiveHere, Active, ResolveCommunityRoleViaOffice
<1>7. OwedInv(w)'
  BY <1>3, <1>4, <1>5, <1>6 DEF OwedInv, Matches
<1>8. InOrder(walk[w].got)' /\ CursorInv(w)' /\ ToSet(walk[w].got)' = {}
  BY <1>3, <1>4 DEF InOrder, CursorInv, ToSet
<1> QED BY <1>1, <1>3, <1>7, <1>8, WalkStep DEF PagesInv

\* From one page to the next: the walk itself does not change.
LEMMA TurnPage ==
    ASSUME IInv, NEW w \in Walks, NEW s \in {"anchor", "list"}, Walking(w),
           walk' = [walk EXCEPT ![w] = [walk[w] EXCEPT !.stage = s]],
           s = "anchor" => walk[w].cursor # None,
           UNCHANGED <<authVars, now, settings, incident>>
    PROVE  IInv'
<1> DEFINE r == [walk[w] EXCEPT !.stage = s]
<1>1. walk[w] \in Walk /\ PagesInv(w)
  BY GotIsSequence DEF IInv
<1>2. /\ r \in Walk /\ r.stage = s /\ r.user = walk[w].user /\ r.filter = walk[w].filter
      /\ r.cursor = walk[w].cursor /\ r.got = walk[w].got /\ r.owed = walk[w].owed
  BY <1>1 DEF Walk
<1>3. walk'[w] = r
  BY DEF IInv, TypeOK
<1> HIDE DEF r
<1>4. ASSUME NEW i \in walk[w].owed
      PROVE  /\ GetIncident(i, walk[w].user)' /\ Matches(i, walk[w].filter)'
             /\ i \in ToSet(walk[w].got) \/ walk[w].cursor = None \/ After(i, walk[w].cursor)'
  <2>1. /\ GetIncident(i, walk[w].user) /\ Matches(i, walk[w].filter)
        /\ i \in ToSet(walk[w].got) \/ walk[w].cursor = None \/ After(i, walk[w].cursor)
    BY <1>1 DEF PagesInv, OwedInv
  <2>2. GetIncident(i, walk[w].user)'
    BY <1>2, <1>3, <2>1 DEF authVars, GetIncident, ResolveIncidentAccess, GetIncidentCommunityID,
       GetVisibleIncidentByID, HasActiveUnitMembership, ActiveHere, Active, ResolveCommunityRoleViaOffice
  <2> QED BY <1>2, <1>3, <2>1, <2>2 DEF Matches, After
<1>5. OwedInv(w)'
  BY <1>2, <1>3, <1>4 DEF OwedInv, Matches, After
<1>6. CursorInv(w)'
  BY <1>1, <1>2, <1>3 DEF PagesInv, CursorInv, Walking
<1>7. InOrder(walk[w].got)' /\ \A i \in ToSet(walk'[w].got) : incident'[i].stage = "stored"
  BY <1>1, <1>2, <1>3 DEF PagesInv, InOrder, Before
<1> QED BY <1>2, <1>5, <1>6, <1>7, WalkStep DEF PagesInv, r

LEMMA NextPageStep ==
    ASSUME IInv, NEW w \in Walks, NEW u \in Users, NEW f \in Filters, NextPage(w, u, f)
    PROVE  IInv'
<1>1. walk[w] \in Walk /\ PagesInv(w)
  BY GotIsSequence DEF IInv
<1>2. [walk[w] EXCEPT !.stage = "anchor", !.user = u, !.filter = f] = [walk[w] EXCEPT !.stage = "anchor"]
  BY <1>1 DEF NextPage, DecodeIncidentCursor, Walk
<1>3. walk' = [walk EXCEPT ![w] = [walk[w] EXCEPT !.stage = "anchor"]]
  BY <1>2 DEF NextPage
<1> QED BY <1>1, <1>3, TurnPage DEF NextPage, Walking, PagesInv, CursorInv

LEMMA PageAnchorStep ==
    ASSUME IInv, NEW w \in Walks, PageAnchor(w)
    PROVE  IInv'
<1>1. walk' = [walk EXCEPT ![w] = [walk[w] EXCEPT !.stage = "list"]]
  BY DEF PageAnchor, IInv, TypeOK
<1> QED BY <1>1, TurnPage DEF PageAnchor, Walking

\* What is in order is no longer than the set it is from.
LEMMA OrderedIsBounded ==
    ASSUME TypeOK, NEW s \in Seq(Incidents), InOrder(s)
    PROVE  s \in UNION {[1..n -> Incidents] : n \in 0..Cardinality(Incidents)}
<1> DEFINE n == Len(s)
<1>1. n \in Nat /\ s \in [1..n -> Incidents] /\ DOMAIN s = 1..n
  BY LenProperties
<1>2. \A a, b \in 1..n : a # b => s[a] # s[b]
  <2> SUFFICES ASSUME NEW a \in 1..n, NEW b \in 1..n, a < b PROVE s[a] # s[b]
    BY <1>1
  <2>1. Before(s[a], s[b]) /\ s[a] \in Incidents
    BY <1>1 DEF InOrder
  <2> QED BY <2>1, BeforeIsOrder
<1>3. s \in Injection(1..n, Incidents)
  BY <1>1, <1>2 DEF Injection, IsInjective
<1>4. Cardinality(1..n) = n
  BY <1>1, FS_Interval
<1>5. n <= Cardinality(Incidents) /\ Cardinality(Incidents) \in Nat
  BY <1>3, <1>4, FS_Injection, FS_CardinalityType, IncidentsAssumption
<1>6. n \in 0..Cardinality(Incidents)
  BY <1>1, <1>5
<1> QED BY <1>1, <1>6

\* What the query returns: all the rows, in order.
LEMMA RowsOfQuery ==
    ASSUME TypeOK, NEW w \in Walks
    PROVE  /\ ListVisibleIncidents(w) \in Sorted(Rows(w))
           /\ ListVisibleIncidents(w) \in Seq(Incidents)
           /\ Len(ListVisibleIncidents(w)) \in Nat
           /\ \A n \in 1..Len(ListVisibleIncidents(w)) : ListVisibleIncidents(w)[n] \in Rows(w)
           /\ \A m, n \in 1..Len(ListVisibleIncidents(w)) :
                  m < n => Before(ListVisibleIncidents(w)[m], ListVisibleIncidents(w)[n])
           /\ \A x \in Rows(w) : \E n \in 1..Len(ListVisibleIncidents(w)) : ListVisibleIncidents(w)[n] = x
<1> DEFINE rows == ListVisibleIncidents(w)
<1>1. Rows(w) \in SUBSET Incidents
  BY DEF Rows
<1>2. PICK some : some \in Sorted(Rows(w))
  BY <1>1, SomeSorted
<1>3. some \in SetToSeqs(Rows(w)) /\ InOrder(some)
  BY <1>1, <1>2, SortedIsWhole DEF Sorted
<1>4. rows \in SetToSeqs(Rows(w)) /\ InOrder(rows)
  BY <1>3 DEF ListVisibleIncidents
<1> HIDE DEF rows
<1>5. rows \in Sorted(Rows(w))
  BY <1>4 DEF SetToSeqs, Sorted
<1>6. rows \in Seq(Rows(w)) /\ \A x \in Rows(w) : \E n \in 1..Len(rows) : rows[n] = x
  BY <1>1, <1>5, SortedIsWhole
<1>7. rows \in Seq(Incidents)
  BY <1>1, <1>6, SeqMonotonic
<1>8. Len(rows) \in Nat /\ DOMAIN rows = 1..Len(rows) /\ \A n \in 1..Len(rows) : rows[n] \in Rows(w)
  BY <1>6, LenProperties
<1> QED BY <1>4, <1>5, <1>6, <1>7, <1>8 DEF InOrder, rows

\* The first rows come behind what is listed, and what is left comes after them.
LEMMA PageContinues ==
    ASSUME IInv, NEW w \in Walks, Walking(w), NEW page \in Seq(Incidents),
           Len(page) <= Len(ListVisibleIncidents(w)),
           \A n \in 1..Len(page) : page[n] = ListVisibleIncidents(w)[n]
    PROVE  LET got == walk[w].got \o page IN
           /\ got \in Seq(Incidents) /\ InOrder(got)
           /\ \A i \in ToSet(got) : incident[i].stage = "stored"
           /\ ToSet(walk[w].got) \subseteq ToSet(got)
           /\ Len(page) > 0 => got # << >> /\ got[Len(got)] = page[Len(page)]
           /\ \A i \in walk[w].owed : \/ i \in ToSet(got)
                                      \/ /\ Len(page) < Len(ListVisibleIncidents(w))
                                         /\ Len(page) > 0 => After(i, page[Len(page)])
<1> DEFINE old == walk[w].got
           rows == ListVisibleIncidents(w)
           got == old \o page
           o == Len(old)
           p == Len(page)
<1>1. /\ PagesInv(w) /\ TypeOK /\ old \in Seq(Incidents) /\ o \in Nat /\ DOMAIN old = 1..o
      /\ \A n \in 1..o : old[n] \in ToSet(old) /\ old[n] \in Incidents
      /\ \A x : x \in ToSet(old) <=> \E n \in 1..o : old[n] = x
      /\ walk[w] \in Walk
  BY GotIsSequence DEF IInv
<1>2. /\ got \in Seq(Incidents) /\ Len(got) = o + p /\ p \in Nat /\ DOMAIN got = 1..(o + p)
      /\ \A n \in 1..o : got[n] = old[n]
      /\ \A n \in 1..p : got[o + n] = page[n]
      /\ \A n \in 1..(o + p) : got[n] = IF n <= o THEN old[n] ELSE page[n - o]
  <2>1. p \in Nat
    BY LenProperties
  <2>2. /\ got \in Seq(Incidents) /\ Len(got) = o + p
        /\ \A n \in 1..(o + p) : got[n] = IF n <= o THEN old[n] ELSE page[n - o]
    BY <1>1, ConcatProperties
  <2>3. DOMAIN got = 1..(o + p)
    BY <2>2, LenProperties
  <2>4. \A n \in 1..p : o + n \in 1..(o + p) /\ ~ (o + n <= o) /\ (o + n) - o = n
    <3> HIDE DEF got, old, o, p
    <3> QED BY <1>1, <2>1
  <2>5. \A n \in 1..o : n \in 1..(o + p) /\ n <= o
    <3> HIDE DEF got, old, o, p
    <3> QED BY <1>1, <2>1
  <2> QED BY <2>1, <2>2, <2>3, <2>4, <2>5
<1> HIDE DEF got, old, o, p
<1>3. /\ Len(rows) \in Nat
      /\ \A n \in 1..p : page[n] = rows[n] /\ n \in 1..Len(rows) /\ rows[n] \in Rows(w)
      /\ p <= Len(rows)
  BY <1>2, RowsOfQuery, <1>1 DEF p
<1>4. ASSUME NEW n \in 1..o, NEW k \in 1..p PROVE Before(old[n], page[k])
  <2>1. old # << >>
    BY <1>1, <1>4, EmptySeq DEF o
  <2>2. walk[w].cursor # None /\ walk[w].cursor = old[o] /\ walk[w].cursor \in Incidents
    BY <1>1, <2>1 DEF PagesInv, CursorInv, Walk, old, o
  <2>3. After(page[k], old[o]) /\ page[k] \in Incidents
    BY <1>3, <2>2 DEF Rows
  <2>4. Before(old[o], page[k]) /\ old[o] \in Incidents
    BY <1>1, <2>2, <2>3, BeforeIsOrder
  <2>5. n = o \/ Before(old[n], old[o])
    <3>1. (n = o \/ n < o) /\ n \in 1..o /\ o \in 1..o
      BY <1>1, <1>4
    <3>2. InOrder(old)
      BY <1>1 DEF PagesInv, old
    <3> QED BY <1>1, <3>1, <3>2 DEF InOrder
  <2> QED BY <1>1, <2>3, <2>4, <2>5, BeforeIsOrder
<1>5. InOrder(got)
  <2> SUFFICES ASSUME NEW m \in 1..(o + p), NEW n \in 1..(o + p), m < n
               PROVE  Before(got[m], got[n])
    BY <1>2 DEF InOrder
  <2>1. CASE n <= o
    <3>1. m \in 1..o /\ n \in 1..o /\ got[m] = old[m] /\ got[n] = old[n]
      BY <1>1, <1>2, <2>1
    <3> QED BY <1>1, <3>1 DEF PagesInv, InOrder, old
  <2>2. CASE m <= o /\ ~ (n <= o)
    <3>1. m \in 1..o /\ n - o \in 1..p /\ got[m] = old[m] /\ got[n] = page[n - o]
      BY <1>1, <1>2, <2>2
    <3> QED BY <1>4, <3>1
  <2>3. CASE ~ (m <= o)
    <3>1. m - o \in 1..p /\ n - o \in 1..p /\ m - o < n - o /\ got[m] = page[m - o] /\ got[n] = page[n - o]
      BY <1>1, <1>2, <2>3
    <3> QED BY <1>1, <1>3, <3>1, RowsOfQuery
  <2> QED BY <1>1, <2>1, <2>2, <2>3
<1>6. \A x : x \in ToSet(got) <=> x \in ToSet(old) \/ \E n \in 1..p : page[n] = x
  <2>1. \A x : x \in ToSet(got) <=> \E n \in 1..(o + p) : got[n] = x
    BY <1>2 DEF ToSet
  <2>2. ASSUME NEW x, NEW n \in 1..(o + p), got[n] = x
        PROVE  x \in ToSet(old) \/ \E k \in 1..p : page[k] = x
    <3>1. CASE n <= o
      BY <1>1, <1>2, <2>2, <3>1
    <3>2. CASE ~ (n <= o)
      <4>1. n - o \in 1..p
        BY <1>1, <1>2, <3>2
      <4> QED BY <1>2, <2>2, <3>2, <4>1
    <3> QED BY <3>1, <3>2
  <2>3. ASSUME NEW x, x \in ToSet(old) PROVE x \in ToSet(got)
    <3>1. PICK n \in 1..o : old[n] = x
      BY <1>1, <2>3
    <3>2. n \in 1..(o + p)
      BY <1>1, <1>2
    <3> QED BY <1>2, <2>1, <3>1, <3>2
  <2>4. ASSUME NEW x, NEW n \in 1..p, page[n] = x PROVE x \in ToSet(got)
    <3>1. o + n \in 1..(o + p)
      BY <1>1, <1>2
    <3> QED BY <1>2, <2>1, <2>4, <3>1
  <2> QED BY <2>1, <2>2, <2>3, <2>4
<1>7. \A i \in ToSet(got) : incident[i].stage = "stored"
  BY <1>1, <1>3, <1>6 DEF PagesInv, Rows, Listable, old
<1>8. p > 0 => got # << >> /\ got[Len(got)] = page[p]
  <2> SUFFICES ASSUME p > 0 PROVE got # << >> /\ got[Len(got)] = page[p]
    OBVIOUS
  <2>1. p \in 1..p
    BY <1>2
  <2>2. Len(got) # 0
    BY <1>1, <1>2
  <2> QED BY <1>2, <2>1, <2>2, EmptySeq
<1>9. ASSUME NEW i \in walk[w].owed, i \notin ToSet(got)
      PROVE  p < Len(rows) /\ (p > 0 => After(i, page[p]))
  <2>1. /\ i \in Incidents /\ GetIncident(i, walk[w].user) /\ Matches(i, walk[w].filter)
        /\ walk[w].cursor = None \/ After(i, walk[w].cursor)
    BY <1>1, <1>6, <1>9 DEF PagesInv, OwedInv, Walk, old
  <2>2. Listable(i, walk[w].user)
    BY <2>1 DEF GetIncident, GetVisibleIncidentByID, Listable
  <2>3. i \in Rows(w)
    BY <2>1, <2>2 DEF Rows
  <2>4. PICK n \in 1..Len(rows) : rows[n] = i
    BY <1>1, <2>3, RowsOfQuery
  <2>5. n \notin 1..p
    BY <1>3, <1>6, <1>9, <2>4
  <2>6. p < n /\ p < Len(rows)
    BY <1>2, <1>3, <2>5
  <2>7. ASSUME p > 0 PROVE After(i, page[p])
    <3>1. p \in 1..p /\ p \in 1..Len(rows) /\ page[p] = rows[p]
      BY <1>2, <1>3, <2>7
    <3>2. Before(rows[p], rows[n]) /\ rows[p] \in Incidents
      BY <1>1, <2>6, <3>1, RowsOfQuery DEF Rows
    <3> QED BY <1>1, <2>1, <2>4, <3>1, <3>2, BeforeIsOrder
  <2> QED BY <2>6, <2>7
<1> QED BY <1>2, <1>5, <1>6, <1>7, <1>8, <1>9 DEF got, old, o, p

LEMMA PageListStep ==
    ASSUME IInv, NEW w \in Walks, PageList(w)
    PROVE  IInv'
<1> DEFINE rows == ListVisibleIncidents(w)
           more == Len(rows) > PageSize
           page == IF more THEN SubSeq(rows, 1, PageSize) ELSE rows
           got == walk[w].got \o page
           cursor == IF more THEN page[PageSize] ELSE walk[w].cursor
           stage == IF more THEN "next" ELSE "done"
           r == [walk[w] EXCEPT !.got = got, !.cursor = cursor, !.stage = stage]
<1>1. /\ TypeOK /\ PagesInv(w) /\ walk[w] \in Walk /\ Walking(w) /\ walk[w].stage = "list"
      /\ UNCHANGED <<authVars, now, settings, incident>>
  BY GotIsSequence DEF IInv, PageList, Walking
<1>2. walk' = [walk EXCEPT ![w] = r]
  BY DEF PageList, IInv, TypeOK
<1>3. /\ rows \in Seq(Incidents) /\ Len(rows) \in Nat
      /\ \A n \in 1..Len(rows) : rows[n] \in Incidents
  BY <1>1, RowsOfQuery, LenProperties
<1>4. /\ page \in Seq(Incidents)
      /\ more => Len(page) = PageSize
      /\ ~ more => Len(page) = Len(rows)
      /\ \A n \in 1..Len(page) : page[n] = rows[n]
      /\ PageSize \in Nat \ {0}
  <2> HIDE DEF rows
  <2>1. PageSize \in Nat \ {0}
    BY IncidentsAssumption
  <2>2. CASE more
    <3>1. \A n \in 1..PageSize : rows[n] \in Incidents
      BY <1>3, <2>1, <2>2
    <3>2. /\ page \in Seq(Incidents) /\ Len(page) = PageSize
          /\ \A n \in 1..PageSize : page[n] = rows[n]
      BY <2>1, <2>2, <3>1, SubSeqProperties
    <3> QED BY <2>1, <2>2, <3>2
  <2>3. CASE ~ more
    BY <1>3, <2>1, <2>3
  <2> QED BY <2>2, <2>3
<1>5. /\ Len(page) <= Len(rows)
      /\ more <=> Len(page) < Len(rows)
      /\ more => Len(page) > 0
      /\ Len(page) > 0 => page[Len(page)] \in Incidents
  <2> HIDE DEF rows, page
  <2>1. Len(page) \in Nat /\ (Len(page) > 0 => Len(page) \in 1..Len(page))
    BY <1>4, LenProperties
  <2> QED BY <1>3, <1>4, <2>1, ElementOfSeq
<1> HIDE DEF page, rows
<1>6. /\ got \in Seq(Incidents) /\ InOrder(got)
      /\ \A i \in ToSet(got) : incident[i].stage = "stored"
      /\ Len(page) > 0 => got # << >> /\ got[Len(got)] = page[Len(page)]
      /\ \A i \in walk[w].owed : \/ i \in ToSet(got)
                                 \/ /\ Len(page) < Len(rows)
                                    /\ Len(page) > 0 => After(i, page[Len(page)])
  BY <1>1, <1>4, <1>5, PageContinues DEF rows
<1> HIDE DEF got
<1>7. cursor \in Incidents \cup {None} /\ (more => cursor \in Incidents)
  BY <1>1, <1>4, <1>5 DEF Walk
<1>8. /\ r \in Walk
      /\ r.got = got /\ r.owed = walk[w].owed /\ r.user = walk[w].user
      /\ r.filter = walk[w].filter
      /\ more => r.stage = "next" /\ r.cursor = page[PageSize]
      /\ ~ more => r.stage = "done"
  <2>1. got \in UNION {[1..n -> Incidents] : n \in 0..Cardinality(Incidents)}
    BY <1>1, <1>6, OrderedIsBounded
  <2> HIDE DEF more
  <2> QED BY <1>1, <1>7, <2>1 DEF Walk
<1>9. walk'[w] = r
  BY <1>2 DEF IInv, TypeOK
<1> HIDE DEF r
<1>10. CursorInv(w)'
  <2>1. CASE more
    <3>1. r.cursor # None /\ r.got # << >> /\ r.cursor = r.got[Len(r.got)]
      BY <1>4, <1>5, <1>6, <1>7, <1>8, <2>1, IncidentsAssumption
    <3> QED BY <1>8, <1>9, <2>1, <3>1 DEF CursorInv, Walking
  <2>2. CASE ~ more
    BY <1>8, <1>9, <2>2 DEF CursorInv, Walking
  <2> QED BY <2>1, <2>2
<1>11. OwedInv(w)'
  <2>1. CASE more
    <3>1. ASSUME NEW i \in walk[w].owed
          PROVE  /\ GetIncident(i, walk[w].user)' /\ Matches(i, walk[w].filter)
                 /\ i \in ToSet(got) \/ After(i, r.cursor)
      <4>1. GetIncident(i, walk[w].user) /\ Matches(i, walk[w].filter)
        BY <1>1, <3>1 DEF PagesInv, OwedInv
      <4>2. GetIncident(i, walk[w].user)'
        BY <1>1, <1>8, <1>9, <4>1 DEF authVars, GetIncident, ResolveIncidentAccess, GetIncidentCommunityID,
           GetVisibleIncidentByID, HasActiveUnitMembership, ActiveHere, Active, ResolveCommunityRoleViaOffice
      <4>3. i \in ToSet(got) \/ After(i, r.cursor)
        BY <1>4, <1>5, <1>6, <1>8, <2>1, <3>1
      <4> QED BY <4>1, <4>2, <4>3
    <3>2. \A i \in walk'[w].owed : /\ GetIncident(i, walk[w].user)' /\ Matches(i, walk[w].filter)'
                                   /\ i \in ToSet(walk'[w].got) \/ After(i, walk[w].cursor)'
      BY <1>1, <1>8, <1>9, <3>1 DEF Matches, After
    <3>3. walk'[w].stage = "next"
      BY <1>8, <1>9, <2>1
    <3> QED BY <3>2, <3>3 DEF OwedInv
  <2>2. CASE ~ more
    <3>1. walk[w].owed \subseteq ToSet(got)
      BY <1>5, <1>6, <2>2
    <3>2. walk'[w].stage = "done" /\ walk'[w].owed = walk[w].owed /\ walk'[w].got = got
      BY <1>8, <1>9, <2>2
    <3> QED BY <3>1, <3>2 DEF OwedInv, Walking
  <2> QED BY <2>1, <2>2
<1>12. InOrder(walk[w].got)' /\ \A i \in ToSet(walk'[w].got) : incident'[i].stage = "stored"
  BY <1>1, <1>6, <1>8, <1>9 DEF InOrder, Before
<1> QED BY <1>1, <1>2, <1>8, <1>10, <1>11, <1>12, WalkStep DEF PagesInv

-----------------------------------------------------------------------------
(* The invariant *)

LEMMA InitEstablishes == Init => IInv
<1> SUFFICES ASSUME Init PROVE IInv
  OBVIOUS
<1>1. AuthTypeOK
  BY AuthorizationAssumption DEF Init, AuthInit, AuthTypeOK, CreateOffice, OfficeRoles
<1>2. TypeOK
  BY <1>1, IncidentsAssumption, NewIncidentType, NewWalkType DEF Init, TypeOK
<1>3. ASSUME NEW i \in Incidents PROVE CreationInv(i)
  <2>1. incident[i] = NewIncident
    BY DEF Init
  <2> QED BY <2>1 DEF CreationInv, NewIncident
<1>4. ASSUME NEW w \in Walks PROVE PagesInv(w)
  <2>1. walk[w] = NewWalk
    BY DEF Init
  <2> QED BY <2>1 DEF PagesInv, NewWalk, InOrder, ToSet, CursorInv, OwedInv, Walking
<1> QED BY <1>2, <1>3, <1>4 DEF IInv

LEMMA TickStep ==
    ASSUME IInv, Tick
    PROVE  IInv'
<1>1. TypeOK'
  BY IncidentsAssumption DEF IInv, TypeOK, Tick, AuthTypeOK, authVars
<1>2. ASSUME NEW i \in Incidents PROVE CreationInv(i)'
  <2>1. CreationInv(i)
    BY DEF IInv
  <2>2. \A u : ActiveHere(u)' = ActiveHere(u)
    BY DEF Tick, authVars, ActiveHere, Active
  <2> QED BY <2>1, <2>2 DEF CreationInv, Entitled, OwnerSeen, Tick
<1>3. ASSUME NEW w \in Walks PROVE PagesInv(w)'
  BY PagesKept DEF Tick
<1> QED BY <1>1, <1>2, <1>3 DEF IInv

LEMMA StutterStep ==
    ASSUME IInv, UNCHANGED vars
    PROVE  IInv'
<1>1. TypeOK'
  BY DEF IInv, TypeOK, vars, AuthTypeOK, authVars
<1>2. ASSUME NEW i \in Incidents PROVE CreationInv(i)'
  <2>1. CreationInv(i)
    BY DEF IInv
  <2>2. \A u : ActiveHere(u)' = ActiveHere(u)
    BY DEF vars, authVars, ActiveHere, Active
  <2> QED BY <2>1, <2>2 DEF CreationInv, Entitled, OwnerSeen, vars
<1>3. ASSUME NEW w \in Walks PROVE PagesInv(w)'
  BY PagesKept DEF vars
<1> QED BY <1>1, <1>2, <1>3 DEF IInv

LEMMA NextPreserves == IInv /\ [Next]_vars => IInv'
<1> SUFFICES ASSUME IInv, [Next]_vars PROVE IInv'
  OBVIOUS
<1>1. ASSUME NEW i \in Incidents, Create(i) PROVE IInv'
  BY <1>1, CreateResolveStep, CreateBeginStep, CheckRolesStep, CheckUnitStep, InsertIncidentStep,
     RefuseStep DEF Create
<1>2. ASSUME NEW w \in Walks, List(w) PROVE IInv'
  BY <1>2, BeginWalkStep, NextPageStep, PageAnchorStep, PageListStep, PageRefusedStep DEF List
<1> QED BY <1>1, <1>2, MembershipChangeStep, TickStep, StutterStep DEF Next, Step

\* The invariant holds of every behaviour: the histories have the rows that the checks of a creation
\* find, and what a walk owes is listed or still comes after its cursor.
THEOREM Invariance == Spec => []IInv
BY InitEstablishes, NextPreserves, PTL DEF Spec

\* Type correctness: in particular no walk lists more incidents than there are.
THEOREM TypeCorrect == Spec => []TypeOK
<1>1. IInv => TypeOK
  BY DEF IInv
<1> QED BY <1>1, Invariance, PTL

\* The lists of a caller's own communities, offices and colleagues show what the routes admit the
\* caller to, and the profile names every role they may admit in, whatever the rows are.
THEOREM ListsAgreeAlways == Spec => []ListsAgree
<1>1. TypeOK => ListsAgree
  BY RowsMakeListsAgree DEF TypeOK
<1> QED BY <1>1, TypeCorrect, PTL

\* The same as the run states it, of the states in which nothing but the rows has changed.
THEOREM ListedIffResolvedHolds == Spec => []ListedIffResolved
<1>1. ListsAgree => ListedIffResolved
  BY DEF ListedIffResolved
<1> QED BY <1>1, ListsAgreeAlways, PTL

\* A walk through the pages that comes to its end has listed all that the caller could read the
\* whole time, in order, and nothing twice, whatever is created and whatever memberships change.
THEOREM WalkIsComplete == Spec => []WalkComplete
<1>1. IInv => WalkComplete
  BY DEF IInv, PagesInv, OwedInv, WalkComplete
<1> QED BY <1>1, Invariance, PTL

\* An incident is stored for staff or for a resident whose memberships of the time cover it.
THEOREM CreatorIsEntitled == Spec => CreatorEntitled
<1>1. ASSUME IInv, [Next]_vars, NEW i \in Incidents, incident'[i].stage = "stored",
             incident[i].stage # "stored"
      PROVE  Entitled(i)
  <2>1. TypeOK /\ CreationInv(i)
    BY <1>1 DEF IInv
  <2>2. ASSUME NEW j \in Incidents, j # i, Create(j) PROVE FALSE
    BY <1>1, <2>1, <2>2 DEF Create, CreateResolve, CreateBegin, CheckRoles, CheckUnit, Move,
       InsertIncident, Refuse, TypeOK
  <2>3. CASE Create(i)
    <3>1. ASSUME NEW u \in Creators, NEW t \in Targets, CreateResolve(i, u, t) PROVE FALSE
      BY <1>1, <2>1, <3>1 DEF CreateResolve, TypeOK, NewIncident
    <3>2. ~ CreateBegin(i)
      BY <1>1, <2>1 DEF CreateBegin, TypeOK, Incident
    <3>3. ~ CheckRoles(i) /\ ~ CheckUnit(i)
      BY <1>1, <2>1 DEF CheckRoles, CheckUnit, Move, TypeOK, Incident
    <3>4. ~ Refuse(i)
      BY <1>1, <2>1 DEF Refuse, TypeOK, NewIncident
    <3>5. incident[i].stage = "insert"
      BY <2>3, <3>1, <3>2, <3>3, <3>4 DEF Create, InsertIncident
    <3> QED BY <2>1, <3>5 DEF CreationInv
  <2>4. CASE MembershipChange
    BY <1>1, <2>1, <2>4 DEF MembershipChange, TypeOK, Incident
  <2>5. ASSUME NEW w \in Walks, List(w) PROVE FALSE
    BY <1>1, <2>5 DEF List, BeginWalk, NextPage, PageAnchor, PageList, PageRefused
  <2>6. CASE Tick \/ UNCHANGED vars
    BY <1>1, <2>6 DEF Tick, vars
  <2> QED BY <1>1, <2>2, <2>3, <2>4, <2>5, <2>6 DEF Next, Step
<1>2. IInv /\ [Next]_vars =>
          [\A i \in Incidents : incident'[i].stage = "stored" =>
              incident[i].stage = "stored" \/ Entitled(i)]_vars
  BY <1>1
<1> QED BY <1>2, Invariance, PTL DEF Spec, CreatorEntitled
=============================================================================
