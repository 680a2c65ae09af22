------------------------------- MODULE Sessions -------------------------------
(***************************************************************************)
(* The sessions table and the requests that change it concurrently: login, *)
(* refresh (Rotator.Rotate), logout and DELETE /v1/me/sessions/{id}.       *)
(*                                                                         *)
(* A refresh token is stored as the hash of a random value, UNIQUE, so one *)
(* value of Rows stands for a token, its hash and its row.  Requests run   *)
(* at PostgreSQL's default READ COMMITTED level:                           *)
(*   - a SELECT takes no lock and sees the committed rows;                 *)
(*   - an UPDATE sees the rows committed when it starts, waits for each    *)
(*     one another transaction has updated and not yet committed, and then *)
(*     checks its WHERE clause again on that row, and on that row only: a  *)
(*     row committed while it waited is not among its targets.  It locks   *)
(*     its targets one by one and keeps those it has while it waits.       *)
(***************************************************************************)
EXTENDS Naturals, FiniteSets

CONSTANTS
    Rows,                \* refresh tokens, each with the session row it names
    Families,            \* family_id values, one per login
    SuperadminFamilies,  \* the families of superadmin accounts
    Requests,            \* request slots: requests that can be in flight at once
    Auditors,            \* audited transactions of the other parts of the program
    NoRow,               \* the parent of a row that a login inserted
    LifetimeDefault,     \* token.RefreshLifetimeDefault, in ticks
    LifetimeSuperadmin,  \* token.RefreshLifetimeSuperadmin, in ticks
    MaxTime              \* bound on the clock

ASSUME SessionsAssumption ==
    /\ Families # {}
    /\ SuperadminFamilies \subseteq Families
    /\ NoRow \notin Rows
    /\ LifetimeDefault \in Nat
    /\ LifetimeSuperadmin \in Nat
    /\ MaxTime \in Nat

VARIABLES
    now,       \* the clock
    issued,    \* rows whose INSERT is committed
    revoked,   \* committed rows with revoked_at set
    info,      \* the columns of a row, fixed by its INSERT
    held,      \* refresh tokens a client holds
    notified,  \* families with a committed audit entry and session_revoked NOTIFY
    req,       \* the state of every request
    appending  \* the auditors that hold the lock of the audit chain: one or none

vars == <<now, issued, revoked, info, held, notified, req, appending>>

-----------------------------------------------------------------------------
(* Where a request is.  "insert" .. "commit" is the rotation transaction   *)
(* past its revoked_at check; "scan" .. "revoke" is a family-wide UPDATE,  *)
(* inside a reuse transaction, which also writes its audit entry, or as a  *)
(* statement of its own.                                                   *)
Rotating == {"insert", "retire", "commit"}
Revoking == {"scan", "lock", "audit", "revoke"}
InTransaction == {"read"} \cup Rotating \cup Revoking
Resting == {"idle", "done"}
Stages == Resting \cup InTransaction \cup {"respond"}

Results == {"none", "rotated", "reused", "invalid", "revoked", "failed"}

Row == [family: Families, parent: Rows \cup {NoRow}, mfa: BOOLEAN,
        expires: 0..(MaxTime + LifetimeDefault + LifetimeSuperadmin)]

\* What a request carries: the token it presented, the family that token or
\* the request itself names, the clock read by Rotate, the row it inserted,
\* the rows its family-wide UPDATE targets and the one of them it has come to,
\* the rows it has locked, and two history fields no step reads: `seen`, the rows
\* of the family committed when the request began, and `spent`, whether the token
\* was already unusable then.
Request == [stage: Stages, result: Results, token: Rows \cup {NoRow},
            family: Families, at: 0..MaxTime, new: Rows \cup {NoRow},
            targets: SUBSET Rows, next: Rows \cup {NoRow}, locks: SUBSET Rows,
            seen: SUBSET Rows, spent: BOOLEAN]

FamilyRows(f) == {r \in issued : info[r].family = f}
LiveRows(f) == FamilyRows(f) \ revoked

\* Mutant: a token is still good at the instant it expires.
ExpiredAfter(r, t) == info[r].expires < t

\* A token is good before the instant it expires.
Expired(r, t) == info[r].expires <= t
RefreshLifetime(f) ==
    IF f \in SuperadminFamilies THEN LifetimeSuperadmin ELSE LifetimeDefault

\* Rows no request has inserted, not even in an open transaction.
FreshRows == Rows \ (issued \cup {req[q].new : q \in Requests})
LockedByOther(q, r) == \E p \in Requests \ {q} : r \in req[p].locks

\* The chain's lock is held from a transaction's entry to its commit.
HoldsChainLock(p) == req[p].stage = "revoke" /\ req[p].token # NoRow
ChainLocked == appending # {} \/ \E p \in Requests : HoldsChainLock(p)

TypeOK ==
    /\ now \in 0..MaxTime
    /\ issued \subseteq Rows
    /\ revoked \subseteq issued
    /\ info \in [Rows -> Row]
    /\ held \subseteq issued
    /\ notified \subseteq Families
    /\ req \in [Requests -> Request]
    /\ appending \subseteq Auditors

Idle == [stage |-> "idle", result |-> "none", token |-> NoRow,
         family |-> CHOOSE f \in Families : TRUE, at |-> 0, new |-> NoRow,
         targets |-> {}, next |-> NoRow, locks |-> {}, seen |-> {}, spent |-> FALSE]

\* The columns of a row that was never inserted, or whose INSERT was rolled back.
Absent == [family |-> CHOOSE f \in Families : TRUE,
           parent |-> NoRow, mfa |-> FALSE, expires |-> 0]

Init ==
    /\ now = 0
    /\ issued = {}
    /\ revoked = {}
    /\ info = [r \in Rows |-> Absent]
    /\ held = {}
    /\ notified = {}
    /\ req = [q \in Requests |-> Idle]
    /\ appending = {}

-----------------------------------------------------------------------------
(* The end of a request: its locks are released with its transaction, and   *)
(* what it knew is gone; only its outcome and its history stay.             *)
Finish(q, result) ==
    [req EXCEPT ![q] = [Idle EXCEPT !.stage = "done", !.result = result,
                                    !.family = req[q].family, !.seen = req[q].seen,
                                    !.spent = req[q].spent]]

\* RowBudget bounds the model: a login or a refresh starts only while a row is left
\* for its INSERT besides those the open rotations still need.
RowBudget == Cardinality({q \in Requests : req[q].stage \in {"read", "insert"}})
                < Cardinality(FreshRows)

\* InsertSession: the columns of a row, in the row nobody else can name yet.
InsertSession(r, family, parent, mfa, at) ==
    [info EXCEPT ![r] = [family |-> family, parent |-> parent, mfa |-> mfa,
                         expires |-> at + RefreshLifetime(family)]]

\* POST /v1/auth/login once the credentials are accepted: issueSession inserts
\* the first row of a fresh family; m is how the login authenticated.
Login(f, m) ==
    /\ FamilyRows(f) = {}
    /\ RowBudget
    /\ \E r \in FreshRows :
        /\ info' = InsertSession(r, f, NoRow, m, now)
        /\ issued' = issued \cup {r}
        /\ held' = held \cup {r}
    /\ UNCHANGED <<now, revoked, notified, req, appending>>

\* POST /v1/auth/refresh resolves the token to its row and that row's family;
\* the row is never deleted, so Rotate finds it again by the same hash.
Refresh(q, r) ==
    /\ req[q].stage \in Resting
    /\ r \in held
    /\ RowBudget
    /\ req' = [req EXCEPT ![q] =
           [Idle EXCEPT !.stage = "read", !.token = r, !.family = info[r].family,
                        !.seen = FamilyRows(info[r].family),
                        !.spent = r \in revoked \/ now >= info[r].expires]]
    /\ UNCHANGED <<now, issued, revoked, info, held, notified, appending>>

\* Mutant: Rotate without its revoked_at check.
RotateReadUnrevoked(q) ==
    /\ req[q].stage = "read"
    /\ req' = IF Expired(req[q].token, now)
                THEN Finish(q, "invalid")
                ELSE [req EXCEPT ![q].stage = "insert", ![q].at = now]
    /\ UNCHANGED <<now, issued, revoked, info, held, notified, appending>>

\* Rotate reads the row (no lock), then the clock, and chooses its branch.
RotateRead(q) ==
    LET r == req[q].token IN
    /\ req[q].stage = "read"
    /\ req' = IF r \in revoked
                THEN [req EXCEPT ![q].stage = "scan"]
              ELSE IF Expired(r, now)
                THEN Finish(q, "invalid")
              ELSE [req EXCEPT ![q].stage = "insert", ![q].at = now]
    /\ UNCHANGED <<now, issued, revoked, info, held, notified, appending>>

\* InsertSession of the successor, which no one sees until the commit: it
\* takes its family and mfa_at from the row Rotate read.
RotateInsert(q) ==
    LET old == req[q].token IN
    /\ req[q].stage = "insert"
    /\ \E r \in FreshRows :
        /\ info' = InsertSession(r, info[old].family, old, info[old].mfa, req[q].at)
        /\ req' = [req EXCEPT ![q].stage = "retire", ![q].new = r]
    /\ UNCHANGED <<now, issued, revoked, held, notified, appending>>

\* What RevokeSession(r) may lock: a row that is revoked by now only when the
\* statement has waited for it.
RevokeSession(r) == IF r \in revoked THEN {{}, {r}} ELSE {{r}}

\* RevokeSession(old): waits for another transaction's update of the row; zero
\* rows updated (the row is revoked by now) is not an error.
RotateRetire(q) ==
    LET old == req[q].token IN
    /\ req[q].stage = "retire"
    /\ ~LockedByOther(q, old)
    /\ \E locks \in RevokeSession(old) :
        req' = [req EXCEPT ![q].stage = "commit", ![q].locks = locks]
    /\ UNCHANGED <<now, issued, revoked, info, held, notified, appending>>

\* Mutants: the successor is inserted, the old row is not revoked; and the error of a
\* commit that failed is dropped.
RotateCommitInsertOnly(q) ==
    /\ req[q].stage = "commit"
    /\ issued' = issued \cup {req[q].new}
    /\ req' = [req EXCEPT ![q].stage = "respond", ![q].locks = {}]
    /\ UNCHANGED <<now, revoked, info, held, notified, appending>>

RotateCommitUnchecked(q) ==
    /\ req[q].stage = "commit"
    /\ \/ issued' = issued \cup {req[q].new} /\ revoked' = revoked \cup req[q].locks
       \/ UNCHANGED <<issued, revoked>>
    /\ req' = [req EXCEPT ![q].stage = "respond", ![q].locks = {}]
    /\ UNCHANGED <<now, info, held, notified, appending>>

\* The rotation's commit publishes the insert and the revocation together.
RotateCommit(q) ==
    /\ req[q].stage = "commit"
    /\ issued' = issued \cup {req[q].new}
    /\ revoked' = revoked \cup req[q].locks
    /\ req' = [req EXCEPT ![q].stage = "respond", ![q].locks = {}]
    /\ UNCHANGED <<now, info, held, notified, appending>>

\* The handler answers with the new token; the answer may be lost on its way, or
\* fail to be built, after the commit: then no client holds the new token.
Respond(q) ==
    /\ req[q].stage = "respond"
    /\ \/ held' = held \cup {req[q].new}
       \/ UNCHANGED held
    /\ req' = Finish(q, "rotated")
    /\ UNCHANGED <<now, issued, revoked, info, notified, appending>>

\* POST /v1/auth/logout revokes the family its access token names.
Logout(q, f) ==
    /\ req[q].stage \in Resting
    /\ FamilyRows(f) # {}
    /\ req' = [req EXCEPT ![q] =
           [Idle EXCEPT !.stage = "scan", !.family = f, !.seen = FamilyRows(f)]]
    /\ UNCHANGED <<now, issued, revoked, info, held, notified, appending>>

\* DELETE /v1/me/sessions/{id}: 404 unless ListLiveSessionsByFamilyID finds a row.
RevokeMySession(q, f) ==
    /\ req[q].stage \in Resting
    /\ LiveRows(f) # {}
    /\ req' = [req EXCEPT ![q] =
           [Idle EXCEPT !.stage = "scan", !.family = f, !.seen = FamilyRows(f)]]
    /\ UNCHANGED <<now, issued, revoked, info, held, notified, appending>>

\* The scan of RevokeSessionFamily comes to one of the rows that are left, in an order
\* that PostgreSQL leaves open, or to its end; a reuse writes its audit entry next.
ComesTo(w, left) ==
    IF left # {} THEN {[w EXCEPT !.stage = "lock", !.next = r] : r \in left}
    ELSE {[w EXCEPT !.stage = IF w.token = NoRow THEN "revoke" ELSE "audit",
                    !.next = NoRow]}

\* RevokeSessionFamily starts: its snapshot holds the rows committed and live now.
FamilyScan(q) ==
    LET live == LiveRows(req[q].family) IN
    /\ req[q].stage = "scan"
    /\ \E w \in ComesTo([req[q] EXCEPT !.targets = live], live) : req' = [req EXCEPT ![q] = w]
    /\ UNCHANGED <<now, issued, revoked, info, held, notified, appending>>

\* Mutant: a row another transaction has updated is skipped, not waited for.
FamilyLockSkipLocked(q) ==
    LET row == req[q].next
        targets == IF LockedByOther(q, row) THEN req[q].targets \ {row} ELSE req[q].targets
        locks == IF LockedByOther(q, row) THEN req[q].locks ELSE req[q].locks \cup {row}
    IN
    /\ req[q].stage = "lock"
    /\ \E w \in ComesTo([req[q] EXCEPT !.targets = targets, !.locks = locks], targets \ locks) :
        req' = [req EXCEPT ![q] = w]
    /\ UNCHANGED <<now, issued, revoked, info, held, notified, appending>>

\* It has waited for any transaction that had updated the row it has come to, and locks
\* the row; a row that is revoked by then it does not update, but keeps locked.
FamilyLock(q) ==
    LET locks == req[q].locks \cup {req[q].next} IN
    /\ req[q].stage = "lock"
    /\ ~LockedByOther(q, req[q].next)
    /\ \E w \in ComesTo([req[q] EXCEPT !.locks = locks], req[q].targets \ locks) :
        req' = [req EXCEPT ![q] = w]
    /\ UNCHANGED <<now, issued, revoked, info, held, notified, appending>>

\* audit.Append of a reuse waits for the chain's lock with the family's rows locked.
AppendReuse(q) ==
    /\ req[q].stage = "audit"
    /\ ~ChainLocked
    /\ req' = [req EXCEPT ![q].stage = "revoke"]
    /\ UNCHANGED <<now, issued, revoked, info, held, notified, appending>>

\* The commit.  A reuse (a request that presented a token) also commits its
\* audit entry and its NOTIFY; logout and revocation are a bare statement.
FamilyCommit(q) ==
    /\ req[q].stage = "revoke"
    /\ revoked' = revoked \cup req[q].locks
    /\ IF req[q].token # NoRow
         THEN /\ req' = Finish(q, "reused")
              /\ notified' = notified \cup {req[q].family}
         ELSE /\ req' = Finish(q, "revoked")
              /\ UNCHANGED notified
    /\ UNCHANGED <<now, issued, info, held, appending>>

\* Mutant: a request that fails without rolling its transaction back.
AbortWithoutRollback(q) ==
    /\ req[q].stage \in InTransaction
    /\ req' = [req EXCEPT ![q].stage = "done", ![q].result = "failed"]
    /\ UNCHANGED <<now, issued, revoked, info, held, notified, appending>>

\* A statement fails, the context is cancelled or the process dies before the
\* commit: PostgreSQL rolls the transaction back.
Abort(q) ==
    /\ req[q].stage \in InTransaction
    /\ req' = Finish(q, "failed")
    /\ info' = [r \in Rows |-> IF r = req[q].new THEN Absent ELSE info[r]]
    /\ UNCHANGED <<now, issued, revoked, held, notified, appending>>

\* audit.Append of another part, which ends its transaction next.
OtherAppends(a) ==
    /\ ~ChainLocked
    /\ appending' = {a}
    /\ UNCHANGED <<now, issued, revoked, info, held, notified, req>>

OtherEnds(a) ==
    /\ a \in appending
    /\ appending' = {}
    /\ UNCHANGED <<now, issued, revoked, info, held, notified, req>>

Tick ==
    /\ now < MaxTime
    /\ now' = now + 1
    /\ UNCHANGED <<issued, revoked, info, held, notified, req, appending>>

-----------------------------------------------------------------------------
Step(q) ==
    \/ RotateRead(q) \/ RotateInsert(q) \/ RotateRetire(q) \/ RotateCommit(q)
    \/ Respond(q)
    \/ FamilyScan(q) \/ FamilyLock(q) \/ AppendReuse(q) \/ FamilyCommit(q)

Next ==
    \/ \E f \in Families, m \in BOOLEAN : Login(f, m)
    \/ \E q \in Requests :
        \/ \E r \in Rows : Refresh(q, r)
        \/ \E f \in Families : Logout(q, f) \/ RevokeMySession(q, f)
        \/ Step(q)
        \/ Abort(q)
    \/ \E a \in Auditors : OtherAppends(a) \/ OtherEnds(a)
    \/ Tick

Spec == Init /\ [][Next]_vars

-----------------------------------------------------------------------------
(* Who waits for whom.  Family-wide UPDATEs that have come to one another's *)
(* rows wait in a circle, which PostgreSQL breaks by failing one of them.   *)
WaitsFor(p, q) ==
    /\ p # q
    /\ \/ req[p].stage = "retire" /\ req[p].token \in req[q].locks
       \/ req[p].stage = "lock" /\ req[p].next \in req[q].locks
       \/ req[p].stage = "audit" /\ HoldsChainLock(q)

Deadlocked(q) == \E S \in SUBSET Requests :
    /\ q \in S
    /\ \A p \in S : (\E o \in S : WaitsFor(p, o)) /\ (\E o \in S : WaitsFor(o, p))

BreakDeadlock == \E q \in Requests : Deadlocked(q) /\ Abort(q)

\* A request that has begun is run to its end by its goroutine, and so is a transaction
\* of another part.  A statement that waits for a lock is in PostgreSQL's queue for it and
\* is not overtaken for ever by later requests: the waiting steps are strongly fair.  A
\* deadlock is detected.
FairSpec ==
    /\ Spec
    /\ \A q \in Requests :
        /\ WF_vars(Step(q))
        /\ SF_vars(RotateRetire(q) \/ FamilyLock(q) \/ AppendReuse(q))
    /\ \A a \in Auditors : WF_vars(OtherEnds(a))
    /\ WF_vars(BreakDeadlock)

-----------------------------------------------------------------------------
(* Safety.                                                                 *)

\* A successor never exists beside a live predecessor: whatever interleaves,
\* once a rotated row is visible the row it came from is revoked, because the
\* INSERT and the UPDATE of Rotate commit together.
SuccessorRetiresParent ==
    \A r \in issued : info[r].parent # NoRow => info[r].parent \in revoked

\* Rotation neither grants nor removes the second factor: every row carries the
\* family and the mfa_at of the row it was rotated from.
SecondFactorInherited ==
    \A r \in issued : info[r].parent # NoRow =>
        /\ info[r].family = info[info[r].parent].family
        /\ info[r].mfa = info[info[r].parent].mfa

\* A token that was already revoked or expired when its request arrived is never
\* exchanged for a successor, however the request interleaves with others.
SpentTokenNeverRotated ==
    \A q \in Requests : req[q].result = "rotated" => ~req[q].spent

\* A retry is never a second rotation: a request that rotates found no successor of its
\* token when it arrived.  So a token gets a second successor only from requests that
\* overlap, never from one that comes after an answer was lost.
RetryNeverRotates ==
    \A q \in Requests : req[q].stage \in Rotating \cup {"respond"} =>
        \A r \in req[q].seen : info[r].parent # req[q].token

\* When a reuse, a logout or a revocation has answered, every row of the family
\* that existed when it arrived is revoked, also those another transaction held
\* and then released by rolling back; and a reuse has been published.
RevocationCoversWhatItSaw ==
    \A q \in Requests :
        /\ req[q].result \in {"reused", "revoked"} => req[q].seen \subseteq revoked
        /\ req[q].result = "reused" => req[q].family \in notified

\* What makes the five invariants above inductive: what a request knows at each
\* stage of its transaction.  Rows it has read never lose a revocation, the row it
\* has inserted is its own, and a family-wide UPDATE has in its targets every row of
\* `seen` that nobody else has revoked, and has locked all of them when it commits.
RequestInv(q) ==
    LET w == req[q] IN
    /\ w.stage \in {"read", "respond"} \cup Rotating => w.token # NoRow
    /\ w.token # NoRow => w.token \in issued /\ info[w.token].family = w.family
    /\ w.stage \in {"retire", "commit"} =>
        /\ w.new \in Rows \ issued
        /\ info[w.new].parent = w.token
        /\ info[w.new].family = w.family
        /\ info[w.new].mfa = info[w.token].mfa
    /\ w.stage = "respond" => w.new \in issued
    /\ w.stage \notin {"retire", "commit", "respond"} => w.new = NoRow
    /\ w.targets \cup w.locks \subseteq issued
    /\ w.stage = "lock" => w.next \in w.targets /\ w.locks \subseteq w.targets
    /\ w.stage \in {"audit", "revoke"} => w.locks = w.targets
    /\ w.stage \in Rotating => w.locks \subseteq {w.token}
    /\ w.stage \in {"read", "scan", "insert", "retire"} => w.locks = {}
    /\ w.stage = "commit" => w.token \in revoked \cup w.locks
    /\ w.seen \subseteq FamilyRows(w.family)
    /\ w.stage \in {"lock", "audit", "revoke"} => w.seen \subseteq w.targets \cup revoked
    /\ w.stage = "read" /\ w.spent => w.token \in revoked \/ Expired(w.token, now)
    /\ w.stage \in Rotating \cup {"respond"} => ~w.spent
    /\ w.token # NoRow /\ ~w.spent => \A r \in w.seen : info[r].parent # w.token
    /\ w.stage # "done" => w.result = "none"

IInv ==
    /\ TypeOK
    /\ SuccessorRetiresParent
    /\ SecondFactorInherited
    /\ SpentTokenNeverRotated
    /\ RetryNeverRotates
    /\ RevocationCoversWhatItSaw
    /\ \A q \in Requests : RequestInv(q)
    /\ \A p, q \in Requests :
        req[p].new = req[q].new /\ req[p].new # NoRow => p = q

\* A family is quiet when all of its rows are revoked and no rotation of it is
\* past its revoked_at check.
Quiet(f) ==
    /\ FamilyRows(f) # {}
    /\ LiveRows(f) = {}
    /\ \A q \in Requests : req[q].stage \in Rotating => req[q].family # f

\* A quiet family never has a live row again: no sequence of refreshes, logouts,
\* failures and retries brings a revoked session back.
QuietFamilyStaysQuiet ==
    [][\A f \in Families : Quiet(f) => Quiet(f)']_vars

\* Documented, and not kept: rotation is "single-use", no token is rotated twice.
TokenRotatedOnce ==
    \A r, s \in issued :
        info[r].parent # NoRow /\ info[r].parent = info[s].parent => r = s

\* Documented, and not kept (README, known divergences): the reuse "revokes the ENTIRE
\* family", once a reuse, a logout or a revocation has answered, its family has no live row.
RevocationEmptiesFamily ==
    \A q \in Requests :
        req[q].result \in {"reused", "revoked"} => LiveRows(req[q].family) = {}

\* The table implements the promise of TokenFamilies, whatever overlaps, fails, expires
\* or is lost: a rotation is admitted by its check and takes effect at its commit, and a
\* revocation takes effect at its commit on what was live at its snapshot.
AdmittedWith(q) == IF req[q].stage \in Rotating THEN req[q].token ELSE NoRow
SingledOut(q) == IF req[q].stage \in {"lock", "audit", "revoke"} THEN req[q].targets ELSE {}

Promise == INSTANCE TokenFamilies WITH
    Tokens <- Rows,
    FamilyIds <- Families,
    Actors <- Requests,
    NoToken <- NoRow,
    handedOut <- [f \in Families |-> FamilyRows(f)],
    usable <- [f \in Families |-> LiveRows(f)],
    admitted <- [q \in Requests |-> AdmittedWith(q)],
    closing <- [q \in Requests |-> SingledOut(q)]

KeepsPromise == Promise!Spec

-----------------------------------------------------------------------------
(* Liveness.                                                               *)

\* Every request ends: no set of rotations and family revocations waits on one
\* another's row locks for ever.
RequestsEnd == \A q \in Requests : req[q].stage \notin Resting ~> req[q].stage \in Resting

=============================================================================
