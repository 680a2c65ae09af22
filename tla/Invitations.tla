------------------------------ MODULE Invitations ------------------------------
(***************************************************************************)
(* Invitations: an office offers a seat in a unit to an address; whoever   *)
(* holds a secret of the offer (the opaque token, or the short code, which *)
(* a resend replaces) may take it up, once, with the account of that        *)
(* address, which acceptance creates or proves.                             *)
(*                                                                         *)
(* The statements of a request are steps of their own, at READ COMMITTED:  *)
(* a row another transaction has updated, or a key it has inserted, is      *)
(* waited for.  The two lockouts an acceptance asks are the subject of      *)
(* LoginLockout: here a request may be refused whenever it asks them.       *)
(***************************************************************************)
EXTENDS Integers, FiniteSets

CONSTANTS
    Invites,      \* rows of `invitations`
    Emails, Seats,\* addresses; a seat is a unit with a role in it
    Known,        \* the addresses that have an account before anything happens
    Superadmins,  \* those of them that are superadmin accounts
    Fixtures, SuperFixtures, \* addresses of the accounts `seed` creates; of its superadmins
    Operators,    \* runs of `bootstrap-superadmin`, each made once
    Accepts,      \* requests to preview or accept, each made once
    Admins,       \* administrators, one request of each in flight
    Token,        \* the opaque token, as against a short code
    MaxResends,   \* bound on the short codes of one invitation
    Lifetime,     \* invitationExpiry, in ticks
    MaxTime       \* bound on the clock

ASSUME InvitationsAssumption ==
    /\ Superadmins \subseteq Known /\ Known \subseteq Emails
    /\ SuperFixtures \subseteq Fixtures /\ Fixtures \subseteq Emails
    /\ {MaxResends, MaxTime} \subseteq Nat /\ Lifetime \in Nat \ {0}
    /\ Token \notin Nat
    /\ {"none", "plain", "born"} \cap Accepts = {}
    /\ Invites # {} /\ Emails # {} /\ Seats # {}

VARIABLES
    now,      \* the clock of every process and of the database
    row,      \* `invitations`, committed
    account,  \* `users`, committed: who created the account of an address
    superadmin, \* the addresses whose account has is_superadmin
    operator, \* the state of every run of `bootstrap-superadmin`, or the address it will promote
    members,  \* `unit_members`, committed
    jobs,     \* the codes for which an email was ever queued, committed, by invitation
    accept,   \* the state of every request to accept
    admin     \* the state of every administrator's request

users == <<account, superadmin, operator>>
vars == <<now, row, users, members, jobs, accept, admin>>

-----------------------------------------------------------------------------
Times == 0..MaxTime
Codes == 0..MaxResends            \* the short codes of an invitation, in order of issue
Memberships == Emails \X Seats

Statuses == {"none", "pending", "accepted", "revoked", "blocked"}
Row == [status: Statuses, email: Emails, seat: Seats, code: Codes,
        expires: 0..(MaxTime + Lifetime)]

\* "born": an account that was a superadmin's from the first.
Origins == Accepts \cup {"none", "plain", "born"}

\* The stages of an acceptance that hold the row of its invitation.
Holding == {"user", "member", "commit"}
Stages == {"ready", "count", "prove", "begin", "claim", "session", "done"} \cup Holding

\* `pending` is what the request read of the status, `create` whether it found no account,
\* `since` the now() of its transaction.  `granted` is history.
Accept == [stage: Stages, invite: Invites, pending: BOOLEAN, create: BOOLEAN, since: Times,
           granted: BOOLEAN]

Ready == [stage |-> "ready", invite |-> CHOOSE i \in Invites : TRUE, pending |-> FALSE,
          create |-> FALSE, since |-> 0, granted |-> FALSE]

Admin == [op: {"idle", "resend", "revoke"}, invite: Invites]

TypeOK ==
    /\ now \in Times
    /\ row \in [Invites -> Row]
    /\ account \in [Emails -> Origins] /\ superadmin \subseteq Emails
    /\ operator \in [Operators -> {"ready", "done"} \cup Emails]
    /\ members \subseteq Memberships
    /\ jobs \in [Invites -> SUBSET Codes]
    /\ accept \in [Accepts -> Accept]
    /\ admin \in [Admins -> Admin]

Init ==
    /\ now = 0
    /\ row = [i \in Invites |-> [status |-> "none", email |-> CHOOSE e \in Emails : TRUE,
                                 seat |-> CHOOSE s \in Seats : TRUE, code |-> 0, expires |-> 0]]
    /\ account = [e \in Emails |-> IF e \in Superadmins THEN "born"
                                   ELSE IF e \in Known THEN "plain" ELSE "none"]
    /\ superadmin = Superadmins
    /\ operator = [o \in Operators |-> "ready"]
    /\ members = {}
    /\ jobs = [i \in Invites |-> {}]
    /\ accept = [r \in Accepts |-> Ready]
    /\ admin = [a \in Admins |-> [op |-> "idle", invite |-> CHOOSE i \in Invites : TRUE]]

-----------------------------------------------------------------------------
EmailOf(r) == row[accept[r].invite].email
MembershipOf(r) == <<EmailOf(r), row[accept[r].invite].seat>>

\* No transaction has an uncommitted update of the row.
Unlocked(i) ==
    /\ \A r \in Accepts : accept[r].stage \in Holding => accept[r].invite # i
    /\ \A a \in Admins : admin[a].op # "idle" => admin[a].invite # i

\* invitationUsable, given what was read of the status; expires_at never changes.
Usable(pending, i) == pending /\ row[i].expires > now

-----------------------------------------------------------------------------
(* The statements: what an UPDATE waits for and asks of the row, what is written *)

\* Mutant: the lifetime is added to an expiry that has it already.
InsertInvitationLate(i, e, s) ==
    [row EXCEPT ![i] = [status |-> "pending", email |-> e, seat |-> s, code |-> 0,
                        expires |-> now + 2 * Lifetime]]

InsertInvitation(i, e, s) ==
    [row EXCEPT ![i] = [status |-> "pending", email |-> e, seat |-> s, code |-> 0,
                        expires |-> now + Lifetime]]

\* The token finds its row always, a short code only until the next.
ByTokenHash(i, secret) == row[i].status # "none" /\ secret = Token
ByShortCodeHash(i, secret) == row[i].status # "none" /\ secret = row[i].code
Finds(i, secret) == ByTokenHash(i, secret) \/ ByShortCodeHash(i, secret)

RotateInvitationShortCode(i) == [row EXCEPT ![i].code = @ + 1]
RevokeInvitation(i) == [row EXCEPT ![i].status = "revoked"]
AcceptInvitation(i) == [row EXCEPT ![i].status = "accepted"]

\* An UPDATE of its own that waits for the row and disturbs nothing the model keeps.
IncrementFailedAttempts(i) == Unlocked(i)

SweepExpired(expired) ==
    [i \in Invites |-> IF i \in expired THEN [row[i] EXCEPT !.status = "blocked"] ELSE row[i]]

\* The job is a row of the same transaction.
EnqueueInvitationEmail(i, code) == [jobs EXCEPT ![i] = @ \cup {code}]

\* What a request read is gone when it ends.
Done(r) == IF accept[r].granted THEN [accept[r] EXCEPT !.stage = "done"]
                                ELSE [Ready EXCEPT !.stage = "done"]

Goto(r, s) == accept' = [accept EXCEPT ![r] =
                  IF s = "done" THEN Done(r) ELSE [accept[r] EXCEPT !.stage = s]]

-----------------------------------------------------------------------------
(* The office *)

\* One transaction on a row nobody can name yet, with the job of its first code.
CreateInvitation(i, e, s) ==
    /\ row[i].status = "none"
    /\ row' = InsertInvitation(i, e, s)
    /\ jobs' = EnqueueInvitationEmail(i, 0)
    /\ UNCHANGED <<now, users, members, accept, admin>>

\* RotateInvitationShortCode, which asks for a pending row and not for an unexpired one.
RotateShortCode(a, i) ==
    /\ admin[a].op = "idle" /\ Unlocked(i)
    /\ row[i].status = "pending" /\ row[i].code < MaxResends
    /\ admin' = [admin EXCEPT ![a] = [op |-> "resend", invite |-> i]]
    /\ UNCHANGED <<now, row, users, members, jobs, accept>>

CommitResend(a) ==
    LET i == admin[a].invite IN
    /\ admin[a].op = "resend"
    /\ row' = RotateInvitationShortCode(i)
    /\ jobs' = EnqueueInvitationEmail(i, row[i].code + 1)
    /\ admin' = [admin EXCEPT ![a].op = "idle"]
    /\ UNCHANGED <<now, users, members, accept>>

RevokePending(a, i) ==
    /\ admin[a].op = "idle" /\ Unlocked(i)
    /\ row[i].status = "pending"
    /\ admin' = [admin EXCEPT ![a] = [op |-> "revoke", invite |-> i]]
    /\ UNCHANGED <<now, row, users, members, jobs, accept>>

CommitRevoke(a) ==
    /\ admin[a].op = "revoke"
    /\ row' = RevokeInvitation(admin[a].invite)
    /\ admin' = [admin EXCEPT ![a].op = "idle"]
    /\ UNCHANGED <<now, users, members, jobs, accept>>

\* An error, a cancelled context or a dead process before the commit.
AbortAdmin(a) ==
    /\ admin[a].op # "idle"
    /\ admin' = [admin EXCEPT ![a].op = "idle"]
    /\ UNCHANGED <<now, row, users, members, jobs, accept>>

-----------------------------------------------------------------------------
(* Preview and acceptance *)

\* Step 1 reads the row without a lock.  A secret that finds none ends the request.
Resolve(r, i, secret) ==
    /\ accept[r].stage = "ready"
    /\ Finds(i, secret)
    /\ accept' = [accept EXCEPT ![r] = [Ready EXCEPT !.stage = "count", !.invite = i,
                     !.pending = row[i].status = "pending"]]
    /\ UNCHANGED <<now, row, users, members, jobs, admin>>

\* IncrementInvitationFailedAttempts waits for the row; the check uses what was read before.
CheckUsable(r) ==
    /\ accept[r].stage = "count"
    /\ IncrementFailedAttempts(accept[r].invite)
    /\ Goto(r, IF Usable(accept[r].pending, accept[r].invite) THEN "prove" ELSE "done")
    /\ UNCHANGED <<now, row, users, members, jobs, admin>>

\* A preview ends here: it has read, and changes nothing.
Preview(r) ==
    /\ accept[r].stage = "prove"
    /\ Goto(r, "done")
    /\ UNCHANGED <<now, row, users, members, jobs, admin>>

\* GetUserByEmail, among the committed accounts.
HasAccount(r) == account[EmailOf(r)] # "none"

\* Steps 2 and 3: an account must be proved with its own credentials (and no superadmin's
\* is accepted), a missing one will be created.  Whatever fails here (lockout, password,
\* policy, second factor) is a Refuse.
ProveAccount(r) ==
    /\ accept[r].stage = "prove"
    /\ EmailOf(r) \notin superadmin
    /\ accept' = [accept EXCEPT ![r].stage = "begin",
                     ![r].create = ~HasAccount(r)]
    /\ UNCHANGED <<now, row, users, members, jobs, admin>>

BeginAccept(r) ==
    /\ accept[r].stage = "begin"
    /\ accept' = [accept EXCEPT ![r].stage = "claim", ![r].since = now]
    /\ UNCHANGED <<now, row, users, members, jobs, admin>>

\* Mutant: the claim relies on the check of step 1.
ClaimUnconditionally(r) ==
    /\ accept[r].stage = "claim"
    /\ Unlocked(accept[r].invite)
    /\ Goto(r, IF accept[r].create THEN "user" ELSE "member")
    /\ UNCHANGED <<now, row, users, members, jobs, admin>>

\* AcceptInvitation's UPDATE: now() is the start of the transaction, the wait may be long.
Claim(r) ==
    LET i == accept[r].invite IN
    /\ accept[r].stage = "claim"
    /\ Unlocked(i)
    /\ Goto(r, IF row[i].status = "pending" /\ row[i].expires > accept[r].since
               THEN (IF accept[r].create THEN "user" ELSE "member") ELSE "done")
    /\ UNCHANGED <<now, row, users, members, jobs, admin>>

\* None of the requests has inserted the address and not committed.
EmailFree(e, requests) == \A q \in requests :
    accept[q].create /\ accept[q].stage \in {"member", "commit"} => EmailOf(q) # e

\* Mutant: ON CONFLICT DO NOTHING: an account that has appeared is used.
InsertUserOrUse(r) ==
    /\ accept[r].stage = "user" /\ EmailFree(EmailOf(r), Accepts \ {r})
    /\ Goto(r, "member")
    /\ UNCHANGED <<now, row, users, members, jobs, admin>>

\* An address that has got its account since it was looked up fails the request.
InsertUser(r) ==
    /\ accept[r].stage = "user" /\ EmailFree(EmailOf(r), Accepts \ {r})
    /\ Goto(r, IF HasAccount(r) THEN "done" ELSE "member")
    /\ UNCHANGED <<now, row, users, members, jobs, admin>>

\* UNIQUE (unit_id, user_id, role): waited for in the same way.
InsertUnitMember(r) ==
    /\ accept[r].stage = "member"
    /\ \A q \in Accepts \ {r} : accept[q].stage = "commit" => MembershipOf(q) # MembershipOf(r)
    /\ Goto(r, IF MembershipOf(r) \in members THEN "done" ELSE "commit")
    /\ UNCHANGED <<now, row, users, members, jobs, admin>>

NewAccount(r) == IF accept[r].create /\ ~HasAccount(r)
                 THEN [account EXCEPT ![EmailOf(r)] = r] ELSE account

CommitAccept(r) ==
    /\ accept[r].stage = "commit"
    /\ row' = AcceptInvitation(accept[r].invite)
    /\ account' = NewAccount(r)
    /\ members' = members \cup {MembershipOf(r)}
    /\ accept' = [accept EXCEPT ![r].stage = "session", ![r].granted = TRUE]
    /\ UNCHANGED <<now, superadmin, operator, jobs, admin>>

\* Outside the transaction: the caller gets a session, or an error after the grant.
IssueSession(r) ==
    /\ accept[r].stage = "session"
    /\ Goto(r, "done")
    /\ UNCHANGED <<now, row, users, members, jobs, admin>>

\* Any answer before the commit; a transaction is rolled back.
Refuse(r) ==
    /\ accept[r].stage \notin {"ready", "session", "done"}
    /\ Goto(r, "done")
    /\ UNCHANGED <<now, row, users, members, jobs, admin>>

-----------------------------------------------------------------------------
(* Accounts that come to be without an invitation *)

\* ON CONFLICT (email) DO NOTHING, which waits for an uncommitted account of the address.
InsertUserIgnoreConflict(e, super) ==
    /\ EmailFree(e, Accepts)
    /\ IF account[e] = "none"
       THEN /\ account' = [account EXCEPT ![e] = IF super THEN "born" ELSE "plain"]
            /\ superadmin' = IF super THEN superadmin \cup {e} ELSE superadmin
       ELSE UNCHANGED <<account, superadmin>>

\* `bootstrap-superadmin`: a plain account that is there already is promoted, ...
BootstrapSuperadmin(o, e) ==
    /\ operator[o] = "ready"
    /\ InsertUserIgnoreConflict(e, TRUE)
    /\ operator' = [operator EXCEPT ![o] =
           IF account[e] # "none" /\ e \notin superadmin THEN e ELSE "done"]
    /\ UNCHANGED <<now, row, members, jobs, accept, admin>>

\* ... by another statement, unless the command dies before it.
EnsureSuperadmin(o) ==
    /\ operator[o] \in Emails
    /\ operator' = [operator EXCEPT ![o] = "done"]
    /\ \/ superadmin' = superadmin \cup {operator[o]}
       \/ UNCHANGED superadmin
    /\ UNCHANGED <<now, row, account, members, jobs, accept, admin>>

\* `seed`, outside production; a fixture that is there already is left alone.
SeedUser(e) ==
    /\ account[e] = "none"
    /\ InsertUserIgnoreConflict(e, e \in SuperFixtures)
    /\ UNCHANGED <<now, operator, row, members, jobs, accept, admin>>

-----------------------------------------------------------------------------
(* The daily job *)

\* SweepExpiredInvitations: one statement, done when it has waited for every row it changes.
Sweep ==
    LET expired == {i \in Invites : row[i].status = "pending" /\ row[i].expires <= now} IN
    /\ expired # {} /\ \A i \in expired : Unlocked(i)
    /\ row' = SweepExpired(expired)
    /\ UNCHANGED <<now, users, members, jobs, accept, admin>>

Tick ==
    /\ now < MaxTime
    /\ now' = now + 1
    /\ UNCHANGED <<row, users, members, jobs, accept, admin>>

-----------------------------------------------------------------------------
AcceptStep(r) ==
    \/ \E i \in Invites, s \in Codes \cup {Token} : Resolve(r, i, s)
    \/ CheckUsable(r) \/ Preview(r) \/ ProveAccount(r) \/ BeginAccept(r)
    \/ Claim(r) \/ InsertUser(r) \/ InsertUnitMember(r) \/ CommitAccept(r)
    \/ IssueSession(r) \/ Refuse(r)

AdminStep(a) ==
    \/ \E i \in Invites : RotateShortCode(a, i) \/ RevokePending(a, i)
    \/ CommitResend(a) \/ CommitRevoke(a) \/ AbortAdmin(a)

Next ==
    \/ \E r \in Accepts : AcceptStep(r)
    \/ \E a \in Admins : AdminStep(a)
    \/ \E i \in Invites, e \in Emails, s \in Seats : CreateInvitation(i, e, s)
    \/ \E o \in Operators : EnsureSuperadmin(o) \/ \E e \in Emails : BootstrapSuperadmin(o, e)
    \/ \E e \in Fixtures : SeedUser(e)
    \/ Sweep \/ Tick

Spec == Init /\ [][Next]_vars

-----------------------------------------------------------------------------
(* Refinement: an invitation is open while it is pending and can still be claimed, that is *)
(* until it expires or the last transaction begun before that ends.                        *)

Claimable(i) ==
    \/ row[i].expires > now
    \/ \E r \in Accepts : /\ accept[r].stage \in Holding \cup {"claim"}
                          /\ accept[r].invite = i /\ row[i].expires > accept[r].since

Outcome(i) ==
    CASE row[i].status = "none" -> "unborn"
      [] row[i].status = "accepted" -> "granted"
      [] row[i].status = "pending" /\ Claimable(i) -> "open"
      [] OTHER -> "closed"

Grants == INSTANCE InvitationGrants WITH
    state <- [i \in Invites |-> Outcome(i)],
    offer <- [i \in Invites |-> <<row[i].email, row[i].seat>>]

\* An invitation gives the seat it offers to the address it names, at most once, and never
\* once it was revoked, swept or expired: the conditional UPDATE of AcceptInvitation against
\* resends, revocations, sweeps and other acceptances.
KeepsPromise == Grants!Spec

\* An acceptance gives its seat to an account whose credentials it has proved or which it
\* has created itself, never to one that appeared after it had found none, and never to one
\* that was a superadmin's from the first: GetUserByEmail is asked long before the
\* transaction, and InsertUser settles what other acceptances, `bootstrap-superadmin` and
\* `seed` have done since.
OwnAccountOnly == \A r \in Accepts : accept[r].granted =>
    /\ accept[r].create => account[EmailOf(r)] = r
    /\ account[EmailOf(r)] # "born"

=============================================================================
