------------------------------- MODULE Incidents -------------------------------
(***************************************************************************)
(* Incidents of one community: they are created by staff and by residents,   *)
(* seen by those they concern, and listed page by page from the latest to  *)
(* the earliest.  A page is several statements, and memberships come and   *)
(* go between any two of them.                                             *)
(***************************************************************************)
EXTENDS Authorization, Sequences, SequencesExt

CONSTANTS
    Here,              \* the community whose incidents these are
    Incidents,         \* numbers: the order of the ids, which is no order of creation
    Walks,             \* callers going through the pages of a list
    Creators, Readers, \* bound: the users who create, and who begin a walk
    Filters,           \* bound: the units a list is asked for, or None for all
    PageSize,
    MaxInFlight,       \* bound on the requests and walks under way
    MaxTime            \* bound on the clock

ASSUME IncidentsAssumption ==
    /\ Here \in Communities /\ Incidents \subseteq Nat /\ IsFiniteSet(Incidents)
    /\ None \notin Incidents
    /\ Creators \cup Readers \subseteq Users /\ Filters \subseteq Units \cup {None}
    /\ PageSize \in Nat \ {0} /\ MaxInFlight \in Nat /\ MaxTime \in Nat

VARIABLES
    now,        \* PostgreSQL's clock
    settings,   \* the community's setting of tenants who create; no handler writes it
    incident,   \* `incidents`, with the request that creates each
    walk        \* the state of every walk

vars == <<authVars, now, settings, incident, walk>>

Targets == Units \cup {None}
Settings == {"open", "closed", "malformed"}
Stages == {"ready", "begin", "roles", "unit", "insert", "stored"}

\* `role`: as the route resolved it, until it is known not to be staff, or stored; `held`: the rows of its creator that
\* were active at some time before its last check (history).
Incident == [stage: Stages, unit: Targets, creator: Users \cup {None}, role: ReadRoles \cup {"none"}, created: 0..MaxTime, held: SUBSET Memberships]

\* `cursor`: the last incident of the page before, which the client holds with the `user`
\* and the `filter` it is for; `got`: those listed, in order; `owed`: those whose detail
\* the caller could read when the first page was asked for and ever since (history).
Walk == [stage: {"idle", "next", "anchor", "list", "done"},
         user: Users \cup {None},
         filter: Targets,
         cursor: Incidents \cup {None},
         got: UNION {[1..n -> Incidents] : n \in 0..Cardinality(Incidents)},
         owed: SUBSET Incidents]

NewIncident == [stage |-> "ready", unit |-> None, creator |-> None,
                role |-> "none", created |-> 0, held |-> {}]
NewWalk == [stage |-> "idle", user |-> None, filter |-> None,
            cursor |-> None, got |-> <<>>, owed |-> {}]

TypeOK ==
    /\ AuthTypeOK
    /\ now \in 0..MaxTime /\ settings \in Settings
    /\ incident \in [Incidents -> Incident]
    /\ walk \in [Walks -> Walk]

Init ==
    /\ AuthInit
    /\ now = 0 /\ settings \in Settings
    /\ incident = [i \in Incidents |-> NewIncident]
    /\ walk = [w \in Walks |-> NewWalk]

-----------------------------------------------------------------------------
(* Visibility *)

ActiveHere(u) == {m \in Memberships : Active(m) /\ m.user = u /\ CommunityOf[m.unit] = Here}
HasActiveUnitMembership(t, u) == \E m \in ActiveHere(u) : m.unit = t

\* One's own incident stays visible when the membership has ended.
GetVisibleIncidentByID(i, u) ==
    /\ incident[i].stage = "stored"
    /\ \/ ResolveCommunityRoleViaOffice(Here, u) # {}
       \/ incident[i].unit = None /\ ActiveHere(u) # {}
       \/ incident[i].unit # None /\ \/ incident[i].creator = u
                                     \/ HasActiveUnitMembership(incident[i].unit, u)

GetIncidentCommunityID(i) == {c \in {Here} : incident[i].stage = "stored"}

\* No membership is resolved, and no second factor asked for.
ResolveIncidentAccess(i, u) ==
    \E c \in GetIncidentCommunityID(i) : c = Here /\ GetVisibleIncidentByID(i, u)

\* The detail asks once more what the route has asked.
GetIncident(i, u) == ResolveIncidentAccess(i, u) /\ GetVisibleIncidentByID(i, u)

-----------------------------------------------------------------------------
(* Creating an incident *)

InFlight(i) == incident[i].stage \in {"begin", "roles", "unit", "insert"}
Walking(w) == walk[w].stage \in {"next", "anchor", "list"}
Room == Cardinality({i \in Incidents : InFlight(i)}) + Cardinality({w \in Walks : Walking(w)})
            < MaxInFlight

Move(i, s) == incident' = [incident EXCEPT ![i].stage = s]

CreateResolve(i, u, t) ==
    /\ incident[i].stage = "ready" /\ Room
    /\ \E r \in ScopedCommunity(Here, u, TRUE, ReadRoles) :
        incident' = [incident EXCEPT ![i] =
            [NewIncident EXCEPT !.stage = "begin", !.unit = t, !.creator = u,
                                !.role = r, !.held = ActiveHere(u)]]
    /\ UNCHANGED <<authVars, now, settings, walk>>

\* A unit named by the request: of this community, or not found.
GetUnitByID(t) == CommunityOf[t]

\* Settings without a word on it are open.  Malformed ones give no answer, and stop staff
\* and owners as well.
TenantIncidentCreationAllowed ==
    {may \in BOOLEAN : settings # "malformed" /\ may = (settings = "open")}

\* Mutant: the time is rounded up.
TransactionStartRounded == now + 1

TransactionStart == now

CreateBegin(i) ==
    /\ incident[i].stage = "begin"
    /\ TenantIncidentCreationAllowed # {}
    /\ incident[i].unit # None => GetUnitByID(incident[i].unit) = Here
    /\ LET staffRole == incident[i].role \in OfficeRoles IN
        incident' = [incident EXCEPT ![i].created = TransactionStart,
                        ![i].role = IF staffRole THEN @ ELSE "none",
                        ![i].stage = IF staffRole THEN "insert" ELSE "roles"]
    /\ UNCHANGED <<authVars, now, settings, walk>>

\* Mutant: the query of the route, which takes no account of dates.
RolesOfTheRoute(i) == ResolveCommunityRoleViaUnit(Here, incident[i].creator)

GetActiveIncidentCommunityRoles(i) ==
    {m.role : m \in ActiveHere(incident[i].creator)}

\* A lapsed owner does not hide an active tenant.
CheckRoles(i) ==
    /\ incident[i].stage = "roles"
    /\ LET roles == GetActiveIncidentCommunityRoles(i) IN
        \/ "owner" \in roles
        \/ "tenant" \in roles /\ TRUE \in TenantIncidentCreationAllowed
    /\ Move(i, IF incident[i].unit = None THEN "insert" ELSE "unit")
    /\ UNCHANGED <<authVars, now, settings, walk>>

CheckUnit(i) ==
    /\ incident[i].stage = "unit"
    /\ HasActiveUnitMembership(incident[i].unit, incident[i].creator)
    /\ Move(i, "insert")
    /\ UNCHANGED <<authVars, now, settings, walk>>

\* The INSERT and its commit.
InsertIncident(i) ==
    /\ incident[i].stage = "insert"
    /\ incident' = [incident EXCEPT ![i].stage = "stored", ![i].role = "none", ![i].held = {}]
    /\ UNCHANGED <<authVars, now, settings, walk>>

\* A check refuses, a statement fails, or the process dies: there is no such incident.
Refuse(i) ==
    /\ InFlight(i)
    /\ incident' = [incident EXCEPT ![i] = NewIncident]
    /\ UNCHANGED <<authVars, now, settings, walk>>

-----------------------------------------------------------------------------
(* Listing page by page, with or without a unit to filter by *)

Matches(i, f) == f # None => incident[i].unit = f

\* ORDER BY created_at DESC, id DESC
Before(i, j) ==
    \/ incident[i].created > incident[j].created
    \/ incident[i].created = incident[j].created /\ i > j

\* What comes after the cursor.
After(j, i) ==
    \/ incident[j].created < incident[i].created
    \/ incident[j].created = incident[i].created /\ j < i

\* The list's own copy of the predicate of the detail.
Listable(i, u) ==
    LET t == incident[i].unit IN
    /\ incident[i].stage = "stored"
    /\ \/ ResolveCommunityRoleViaOffice(Here, u) # {}
       \/ t = None /\ ActiveHere(u) # {}
       \/ t # None /\ (incident[i].creator = u \/ HasActiveUnitMembership(t, u))

Rows(w) ==
    {i \in Incidents : /\ Listable(i, walk[w].user) /\ Matches(i, walk[w].filter)
                       /\ walk[w].cursor # None => After(i, walk[w].cursor)}

InOrder(rows) == \A m, n \in DOMAIN rows : m < n => Before(rows[m], rows[n])

ListVisibleIncidents(w) == CHOOSE rows \in SetToSeqs(Rows(w)) : InOrder(rows)

ListRoute(u, f) ==
    /\ ScopedCommunity(Here, u, TRUE, ReadRoles) # {}
    /\ f # None => GetUnitByID(f) = Here

BeginWalk(w, u, f) ==
    /\ walk[w].stage = "idle" /\ Room
    /\ ListRoute(u, f)
    /\ walk' = [walk EXCEPT ![w] =
        [NewWalk EXCEPT !.stage = "list", !.user = u, !.filter = f,
            !.owed = {i \in Incidents : GetIncident(i, u) /\ Matches(i, f)}]]
    /\ UNCHANGED <<authVars, now, settings, incident>>

\* A cursor is for the caller and the filter it was made for.
DecodeIncidentCursor(w, u, f) == u = walk[w].user /\ f = walk[w].filter

\* Whoever has the cursor may ask for the next page, of this list or of another.
NextPage(w, u, f) ==
    /\ walk[w].stage = "next"
    /\ ListRoute(u, f)
    /\ DecodeIncidentCursor(w, u, f)
    /\ walk' = [walk EXCEPT ![w].stage = "anchor", ![w].user = u, ![w].filter = f]
    /\ UNCHANGED <<authVars, now, settings, incident>>

\* The cursor's incident must still be visible.
PageAnchor(w) ==
    /\ walk[w].stage = "anchor"
    /\ GetVisibleIncidentByID(walk[w].cursor, walk[w].user)
    /\ Matches(walk[w].cursor, walk[w].filter)
    /\ walk' = [walk EXCEPT ![w].stage = "list"]
    /\ UNCHANGED <<authVars, now, settings, incident>>

\* Mutant: no more rows than the page shows are asked for.
PageListExact(w) ==
    /\ walk[w].stage = "list"
    /\ LET rows == ListVisibleIncidents(w)
           page == IF Len(rows) > PageSize THEN SubSeq(rows, 1, PageSize) ELSE rows
       IN walk' = [walk EXCEPT ![w].got = @ \o page, ![w].stage = "done"]
    /\ UNCHANGED <<authVars, now, settings, incident>>

\* One more row than the page shows is asked for: it says that there is a next page.
PageList(w) ==
    /\ walk[w].stage = "list"
    /\ LET rows == ListVisibleIncidents(w)
           more == Len(rows) > PageSize
           page == IF more THEN SubSeq(rows, 1, PageSize) ELSE rows
       IN walk' = [walk EXCEPT ![w].got = @ \o page,
                               ![w].cursor = IF more THEN page[PageSize] ELSE @,
                               ![w].stage = IF more THEN "next" ELSE "done"]
    /\ UNCHANGED <<authVars, now, settings, incident>>

PageRefused(w) ==
    /\ Walking(w)
    /\ walk' = [walk EXCEPT ![w] = NewWalk]
    /\ UNCHANGED <<authVars, now, settings, incident>>

-----------------------------------------------------------------------------
\* Memberships change under the requests, which the histories note.
NowActive(u) == ActiveHere(u)'

MembershipChange ==
    /\ MembershipStep
    /\ incident' = [i \in Incidents |->
            IF incident[i].stage \in {"begin", "roles", "unit"}
            THEN [incident[i] EXCEPT !.held = UNION {@ \cup NowActive(u) :
                                                u \in {incident[i].creator}}]
            ELSE incident[i]]
    /\ walk' = [w \in Walks |->
            [walk[w] EXCEPT !.owed = {i \in @ :
                \A u \in {walk[w].user} : GetIncident(i, u)'}]]
    /\ UNCHANGED <<now, settings>>

Tick ==
    /\ now < MaxTime
    /\ now' = now + 1
    /\ UNCHANGED <<authVars, settings, incident, walk>>

Create(i) ==
    \/ \E u \in Creators, t \in Targets : CreateResolve(i, u, t)
    \/ CreateBegin(i) \/ CheckRoles(i) \/ CheckUnit(i) \/ InsertIncident(i) \/ Refuse(i)

List(w) ==
    \/ \E f \in Filters :
        \/ \E u \in Readers : BeginWalk(w, u, f)
        \/ \E u \in Users : NextPage(w, u, f)
    \/ PageAnchor(w) \/ PageList(w) \/ PageRefused(w)

\* Bound: what comes after the last walk has ended is of no interest to it.
Watched == \E w \in Walks : walk[w].stage # "done"

Step ==
    \/ \E i \in Incidents : Create(i)
    \/ \E w \in Walks : List(w)
    \/ MembershipChange
    \/ Tick

Next == Watched /\ Step

Spec == Init /\ [][Next]_vars

-----------------------------------------------------------------------------
AtRest == \A i \in Incidents, w \in Walks : incident[i].stage = "ready" /\ walk[w].stage = "idle"

\* What callers are told of their rows and what the routes admit them to agree, though
\* six queries answer (ListsAgree of Authorization).  It depends on the rows alone: the
\* states in which nothing else has happened have them all.
ListedIffResolved == AtRest => ListsAgree

\* A walk that comes to its end has listed every incident that it asks for whose detail
\* the caller could read when it began and ever since, and none twice: whatever is
\* created, also with an earlier time, and whatever memberships change between its pages.
WalkComplete ==
    \A w \in Walks :
        /\ walk[w].stage = "done" => walk[w].owed \subseteq ToSet(walk[w].got)
        /\ InOrder(walk[w].got)

\* What a resident may create rests on memberships that were active while the request
\* ran: in the community, in the very unit, and as an owner where the community keeps
\* its tenants from creating.
OwnerSeen(i) == settings = "closed" => \E m \in incident[i].held : m.role = "owner"

Entitled(i) ==
    \/ incident[i].role \in OfficeRoles
    \/ /\ incident[i].held # {}
       /\ incident[i].unit # None => \E m \in incident[i].held : m.unit = incident[i].unit
       /\ OwnerSeen(i)

CreatorEntitled ==
    [][\A i \in Incidents : incident'[i].stage = "stored" =>
        incident[i].stage = "stored" \/ Entitled(i)]_vars

-----------------------------------------------------------------------------
(* What is invariant of an incident being created and of a walk *)

\* The history has the rows that a check may find.
CreationInv(i) ==
    /\ incident[i].stage \in {"begin", "roles", "unit"} =>
           ActiveHere(incident[i].creator) \subseteq incident[i].held
    /\ incident[i].stage = "unit" =>
           incident[i].unit # None /\ incident[i].held # {} /\ OwnerSeen(i)
    /\ incident[i].stage = "insert" => Entitled(i)

\* The cursor is the last incident that was listed, and there is one from the second page on.
CursorInv(w) ==
    /\ walk[w].stage \in {"next", "anchor"} => walk[w].cursor # None
    /\ Walking(w) /\ walk[w].cursor = None => walk[w].got = <<>>
    /\ Walking(w) /\ walk[w].cursor # None =>
           walk[w].got # <<>> /\ walk[w].cursor = walk[w].got[Len(walk[w].got)]

\* What a walk owes is listed, or still comes after the cursor.
OwedInv(w) ==
    /\ Walking(w) => \A i \in walk[w].owed :
           /\ GetIncident(i, walk[w].user) /\ Matches(i, walk[w].filter)
           /\ \/ i \in ToSet(walk[w].got) \/ walk[w].cursor = None
              \/ After(i, walk[w].cursor)
    /\ walk[w].stage = "done" => walk[w].owed \subseteq ToSet(walk[w].got)

PagesInv(w) ==
    /\ InOrder(walk[w].got)
    /\ \A i \in ToSet(walk[w].got) : incident[i].stage = "stored"
    /\ CursorInv(w) /\ OwedInv(w)

IInv ==
    /\ TypeOK
    /\ \A i \in Incidents : CreationInv(i)
    /\ \A w \in Walks : PagesInv(w)
=============================================================================
