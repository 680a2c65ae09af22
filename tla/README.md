# vecingest: formal model

TLA+ modules, TLC configurations and TLAPS proofs for the vecingest API server
(`api/`): a Go service over PostgreSQL for property managers ("offices"), the
communities they manage, their units, residents and incidents.

## 1. The system and its parts

| Part | State it keeps | Operations | Talks to |
|---|---|---|---|
| Sessions and refresh rotation (`domain/auth/session`, `http/handlers/auth_*.go`, `me.go`) | `sessions` rows: refresh-token hash, family, expiry, `revoked_at`, `mfa_at` | login, refresh, reuse detection, logout, session revocation | audit chain and `NOTIFY session_revoked` in the reuse transaction; revocation cache |
| Revocation cache (`platform/cache`) | per process: families revoked, with an expiry; LISTEN outage window; start time | mark, deliver a NOTIFY, lose and regain the connection, answer "is it revoked" | every authenticated request; `sessions` as the fallback |
| Access and CSRF tokens (`domain/auth/token`) | none (signed values) | issue, verify, mint, verify | refresh handler, bearer check |
| Login lockout (`domain/auth/lockout`, `platform/attempts`) | per process: sliding-window failure logs by email and by IP | record a failure or a success, is locked, failure count, alert | login and superadmin login, captcha gate |
| Second factor (`domain/auth/mfa`, `handlers/mfa.go`) | `user_mfa` row (secret, enabled, last used step), `otp_challenges`, throttle counter | enrol, confirm, verify, email challenge | login, queue (email code) |
| Password reset (`domain/auth/password`, `auth_password_reset.go`; the rehash of `auth_login.go`) | `password_reset_tokens` rows, `users.password_hash` | forgot, reset; a login's rehash | mail |
| Invitations (`handlers/invitations.go`, `platform/queue`; `bootstrap_superadmin.go`, `seed.go`) | `invitations` rows, queued jobs, attempt counter; `users` | create, resend, revoke, preview, accept, sweep, email worker; create or promote an account | users, memberships, sessions, mail |
| Mail (`mail`) | bounded queue, worker pool | send, drain, close | every part that mails |
| Audit chain (`domain/audit`) | `audit_log` rows, each with the hash of the one before | append, verify | the transaction of every audited change |
| Authorization (`authz`, `authz/scoped`; `me.go`, the lists of communities and offices) | none (reads `office_members`, `unit_members`) | resolve a role, gate a route, list a caller's own rows | every scoped handler |
| Tenancy (`offices.go`, `communities.go`, `units.go`, `unit_members.go`, `unit_csv_import.go`) | offices, communities, units, memberships | create, update, delete, import | authorization, audit |
| Incidents (`incidents.go`) | `incidents` rows | create, list page by page, detail; nothing changes or deletes one | authorization |
| Edge (`http/router`, `platform/limiter`, `platform/captcha`, `platform/hibp`) | rate-limit windows | limit, verify | login, forgot, invitations |

The processes are one or more `vecingest serve` replicas behind a proxy and one
`vecingest worker`; they share PostgreSQL and nothing else. What is hard:
requests overlap on the same rows at READ COMMITTED; state kept in one process
(lockout, cache, throttles) is lost with it and unknown to the others; NOTIFY
is delivered only to connections that exist; answers get lost and clients
retry; some handlers are transactions and some are a sequence of statements.

What makes each part correct, in a sentence: a refresh token buys one
successor and a revoked family stays dead; a revoked family's access tokens
are refused; a wrong password is slowed down and a right one is not; a code is
accepted once; a reset link works once; an invitation is accepted at most once
and only while it is pending; accepted mail is sent or reported; the audit
chain verifies; a role is granted only by a live membership.

## 2. Modules

| Module | Models |
|---|---|
| `Sessions` | the `sessions` table and the requests that change it, statement by statement |
| `TokenFamilies` | what rotation promises, without statements, transactions, locks or clock |
| `RevocationCache` | the caches of the serve replicas, their LISTEN connections, and the access tokens they judge |
| `MfaEnrollment` | enrolling and confirming a second factor with the emailed code, and the worker that mails it |
| `TotpVerification` | throttled verification of TOTP codes against the active factor |
| `LoginLockout` | the failure counters of one process as the two logins use them |
| `Invitations` | the `invitations` table, acceptances statement by statement, and the other ways an account comes to be |
| `InvitationGrants` | what an invitation promises: an offer of one seat, taken up at most once, while open |
| `Mailer` | the bounded queue and the pool of one serve process, its drain and its end |
| `PasswordReset` | asking for a link and setting a password, over `Mailer`; logins that renew a hash |
| `AuditChain` | appending to the hash chain and verifying it |
| `Tenancy` | what writes offices, communities, units and members, each with its entry, over `AuditChain` |
| `Authorization` | the resolvers, the constructors of routes and the lists of a caller's own rows, as operators over the rows that bind users |
| `Incidents` | creating incidents and listing them page by page, over `Authorization` |
| `MC*` | each specification for TLC (symmetry, and the small office of `MCIncidents`) |
| `*Proofs` | the inductive invariants and the theorems that follow |

Three modules are the lower half of another: `PasswordReset` EXTENDS `Mailer`,
`Tenancy` EXTENDS `AuditChain`, `Incidents` EXTENDS `Authorization`, and each conjoins
the steps of its lower half with its own. Otherwise the modules meet at narrow places.
`RevocationCache` takes from `Sessions` only whether a family has a live row, and lets
a rotation commit after a revocation because two overlapping requests of `Sessions` can.
`MfaEnrollment` ends where `TotpVerification` begins, at `Confirm`. A login's second
factor is a choice in `LoginLockout`, since it touches none of its counters, and whether
the lockouts refuse is a choice in `Invitations`.

### Sessions

A value of `Rows` is a refresh token, its hash and its row. `issued` is the set
of rows whose INSERT is committed, `revoked` those whose `revoked_at` is
committed, `info` their other columns; `held` are the tokens a client has
received. `req` holds the state of each request in flight.

The rotation (`Rotator.Rotate`) is one action per statement, because other
requests run between them: `RotateRead` (SELECT without a lock, then the
clock and the branch), `RotateInsert`, `RotateRetire` (the UPDATE, which
waits for a row another transaction has updated), `RotateCommit`, `Respond`.
The family-wide UPDATE is `FamilyScan` (the snapshot that decides which rows it
targets), one `FamilyLock` for each of them, in any order (it waits for the row's lock
and keeps it), and `FamilyCommit`. A reuse also writes its audit entry in between:
`AppendReuse` waits for the chain's advisory lock with the rows of the family locked, and
holds it to the commit; `OtherAppends` and `OtherEnds` are the audited transactions of
other parts, which hold it too. This is PostgreSQL's READ
COMMITTED, the level the pool uses: no transaction in the code asks for another.
`Abort` is any failure before the commit (an error, a cancelled context, a
process that dies); `Respond` may lose the answer.

A login is one action: it is a single INSERT of a row nobody else can name yet.

`TokenFamilies` gives every operation two moments. A rotation is admitted with a usable
token, and takes effect later; a revocation singles out the usable tokens of a family, and
takes effect on these later. In the refinement they are the `revoked_at` check and the
commit, the snapshot of the UPDATE and the commit. So the promise allows what the code
allows (a second rotation admitted before the first took effect, one that takes effect after
a revocation) and nothing else.

Left out: columns no property reads (device, platform, IP, timestamps),
the transport, CSRF and origin checks (they refuse a request before the table is
touched), and deletion of rows (no code deletes one).

### RevocationCache

`live` and `spent` abstract the table: families with a live row, families with a
revoked one. A `slot` is a login or refresh between its read and its signature;
`unmarked` are the families whose handler has committed a revocation and is yet
to call `MarkRevoked`. `marks`, `age` and `down` are the fields of a replica's
`RevocationCache`; `conn` and `inbox` its LISTEN connection. Times are
relative to now, which is why no bound on the clock is needed: what a token or a
mark has left, how long a process has been up. `IsRevoked` and `Fallback` are the
code's branches; `Accepts` is the bearer check. A notification is sent
with the transaction of a reuse and with no other revocation, as in the code.
`told` and `owed` are history fields of a token that only properties read.

### MfaEnrollment

A value of `Challenges` is an email code together with the TOTP secret written
in the same transaction. The transactions of enrolling and confirming are serial
behind the lock of the user's row, so each is one action; what a request does
before it has the lock is an action of its own: it fixes `now()` (`EnrollBegin`,
`ConfirmBegin`), picks the latest challenge and spends an attempt of it in an
autocommitted statement (`ConfirmPick`, `ConfirmSpend`: two, because the subquery
reads a snapshot and the update waits). `WorkerRead`, `WorkerSent` and
`WorkerFails` are River's job with its retries. One clock serves all processes.

### TotpVerification

Time is counted in TOTP steps, and a code is the set of the steps at which the
secret yields it, so that a wrong code is the empty set and two steps may share
their digits. A verification is the sequence `Begin`, `Admit` (the throttle's
count), `Match`, `SpendStep` (the conditional update), then `RecordFailure` or
`ResetFailures`; `Refuse` is any early end. `Restart` empties the throttle.

### LoginLockout

A log of `attempts.Counter` is a set of (request, time). Each call of the counter
holds its mutex and is a step of its own: `CheckEmailLock`, `CheckIpLock`,
`GateEmail`, `GateIp`, `FailEmail`, `FailIp`, `RecordSuccess`. `FailIp` also
takes the calls on the cycle and alert keys, which `RecordFailure` makes next and
which nobody else reads. Credentials, second factor and captcha are choices. The
code prunes a log when it reads it, the model when the clock moves: no step
can tell. An address is an account of either kind; which endpoint refuses it
is left open.

### Invitations and InvitationGrants

`row` is the `invitations` table, `account` who created the account of an address,
`members` the memberships, `jobs` the codes for which an email was queued; `accept` and
`admin` hold the requests in flight. Every statement of an acceptance is an action:
`Resolve` (the lookup by token or code, without a lock), `CheckUsable` (the attempt
counter, an UPDATE that waits for the row, and the check of what was read before),
`ProveAccount`, then the transaction `BeginAccept`, `Claim` (the conditional UPDATE, with
`now()` of the start of the transaction), `InsertUser`, `InsertUnitMember`,
`CommitAccept`; `IssueSession` is outside of it. Unique keys are waited for
(`EmailFree`) as PostgreSQL does. A resend and a revocation hold the row between their
UPDATE and their commit. The refinement maps an invitation to "open" while it is pending
and *claimable*: until it expires, or the last transaction begun before that has ended.

Left out: the names, the consent texts, the per-invitation limit on attempts as a number
(a request may be refused wherever it is asked), and the deletion of accounts (none).

### Mailer and PasswordReset

`SendRaw` never waits: a full queue drops the message, a closed one panics and ends the
process (`SendRawPanics`). `Close`, `Drained` and `Exit` are the shutdown; `New` is the
next process, which has none of the queue. The goroutine of a forgotten password is
`StoreToken` and `MailToken`; `AnswerForgot` cancels the context it was given, after which
its INSERT may fail although it may have been done. A reset is `ReadToken`, `UpdatePassword`, `Consume`, `AnswerReset`,
statements without a transaction; `FailReset` may come between any two. `Rehash` is the
UPDATE by which a login renews a hash of earlier parameters: it writes the same column
with what the login has read.

### AuditChain and Tenancy

An entry's hash is its identity: it covers all of it, so `prev` is the entry it was made
from. `AppendEntry` takes the advisory lock, which is held to the commit; the head is the
last committed entry in the order in which the log is read; `created` is clamped to
the head's, ids are UUIDv7 of one process whose clock may be set to anything (`SetClock`).

In `Tenancy` an update is `Read` (no lock), `Write` (waits for the row, then writes every
column back), `Audit`, `Commit`; a create or an import is a sequence of `Insert`s of
unique keys, each of which waits for a transaction that has inserted the same key; the
members that a new unit comes with are one more row, which collides with nothing. `known`,
the log as it was when an update read its row, is history that only properties read.
`Rollback` is whatever ends a transaction early, PostgreSQL's deadlock detector included.
Columns are two values named for who wrote them, units are their complete keys.

### Authorization and Incidents

A resolver gives the set of the roles a caller may come out with; none is a refusal, and
several mean that the query has no ORDER BY. `Scoped*` are the constructors of the routes.
`MembershipStep` is what changes the rows in the meantime.

An incident being created carries the role the route resolved, then `created` (the start
of its transaction); `CheckRoles` and `CheckUnit` are the two statements that ask again.
A walk goes through a list: each page is a route check, the decoding of the cursor (for this
caller and filter only), `PageAnchor` (the cursor's incident must still be visible) and
`PageList` (one more row than it shows). `held` and `owed` are history that only properties
read. The order of ids is no order of creation: UUIDs of other processes and clocks.

## 3. Runs

| Run | Question | Bounds |
|---|---|---|
| `sessions_overlap` | do the table's invariants survive every interleaving, failure and expiry, and does it implement `TokenFamilies`? | 2 requests at once, 3 rows, 2 families (one superadmin), lifetimes 2 and 1, clock to 2 |
| `sessions_liveness` | does every request end? | 2 requests, 3 rows, 1 family, 1 audited transaction of another part |
| `sessions_single_use` (violation) | is a token rotated once, as documented (`TokenRotatedOnce`)? | 2 requests, 3 rows, 1 family |
| `cache_told` | does a replica that knows of a revocation keep to it, and refuse nobody else? | 2 replicas, 1 family, 1 login or refresh in flight, 2 tokens alive, TTL 2 |
| `mfa_confirm` | is the active factor the one its own code confirmed, once, and is the issue limit kept? | 2 requests, 3 codes (2 per window of 2), 2 attempts, lifetime 1, clock to 2 |
| `totp_replay` | can a code be accepted twice, and how many failures fit in a window? | 4 verifications, 2 at once, codes of steps 0, 1 and 2 (shared), 3 and none, clock to 3 |
| `lockout_budget` | how many failures pass the lock and the captcha gate, and how often is the owner alerted? | 4 logins, 2 at once, 2 addresses (one known), 1 IP, threshold 2, captcha after 1, window 2, clock to 3 |
| `invitations_accept` | is an offer taken up once, while open, by an account that was proved or created? | 2 invitations, 2 acceptances, 1 administrator, 2 addresses (one a superadmin's), 2 seats, 1 resend each, 1 run of `bootstrap-superadmin`, 1 seeded address, lifetime 1, clock to 1 |
| `reset_links` | which passwords can become an account's, which links are mailed, what does a drain lose? | 2 links, 2 resets, 1 login with an old hash, 1 account, queue of 1, 2 workers, lifetime 1, clock to 1 |
| `tenancy_chain` | does the chain verify, does the log tell what the rows are, are imports whole, does an update undo only what overtook it? | 3 operations, 1 member, 1 community, 2 columns, 2 unit keys, 1 key of each other kind, clock 0 or 1 |
| `incidents_pages` | does a walk through the pages list all and none twice (`WalkComplete`), is what a resident creates covered by a membership of the time (`CreatorEntitled`), do lists and routes agree (`ListedIffResolved`)? | 2 incidents, 1 walk, 2 users, 2 communities, 3 units, 2 rows of membership, page of 1, 2 requests under way, clock to 1 |
| `tenancy_partial` (violation) | does a field that a PATCH does not give keep its value, as documented (`PartialUpdateKept`)? | 2 operations on 1 community, no member |

Why these are enough:

* *Sessions.* Three rows allow a chain of two rotations and a race for the same
  parent; two requests are enough for a family-wide UPDATE that waits for a
  rotation which then commits or rolls back, and for two such UPDATEs that lock the two
  live rows of a family in opposite order; the auditor of `sessions_liveness` holds the
  chain's lock while a reuse waits for it (it touches nothing that `sessions_overlap` asks
  about, which has none). The theorems cover any number of requests and rows. `RowBudget`
  starts a login or refresh only while a row is left for it, so that the bound never blocks
  a transaction half way.
* *Cache.* Families do not interact; two replicas are a revoker and a bystander;
  TTL 2 leaves an instant strictly between start and expiry, where a mark, a token
  and the start-up window can each end first; with two tokens one can be signed
  before a mark and one after.
* *Enrollment.* Three codes against a limit of two let the cap bite and then slide;
  two requests are an enrollment against a confirmation, or a race of two of a
  kind; a lifetime shorter than the window lets expired codes still count.
* *Verification.* Four failures are one more than the budget of threshold 2 and two
  in flight allows; the shared code spans two steps of one drift window.
* *Lockout.* The same arithmetic; two addresses on one IP separate the counters.
* *Invitations.* Two acceptances meet for one row, for one address with two rows, and
  for one seat; an administrator and the sweep can each get between a check and its
  claim; one tick lets an invitation expire while a transaction begun before it waits.
* *Password reset.* Two links fill a queue of one with another message under way; two
  resets share a link or not; the login can read before and write after either.
* *Tenancy.* Three operations are two that contend for a row or a key and a third
  whose entry comes between theirs; a clock of two values stands still, advances and goes
  back. The theorems cover any number of operations, keys and clock values.
* *Incidents.* With a page of 1, two incidents are two pages, and one may be created
  between them with an earlier time. `Creators`, `Readers`, `Recruits` and `Filters`
  say who does what; `Watched` ends a behaviour when its one walk has ended, after which nothing
  is left to compare. `ListedIffResolved` reads only the rows of memberships, so it is
  asked where nothing else has happened (`AtRest`): every combination of rows occurs there.

`CHECK_DEADLOCK FALSE` stands in the runs of `TotpVerification`, `LoginLockout`,
`Invitations`, `PasswordReset`, `Tenancy` and `Incidents`: their requests are made once
and the clock is bounded (in `Tenancy` it is not the clock that ends, but a log of three
entries is complete), so that the model may stop when all are answered.

### Fairness

`sessions_liveness` uses `FairSpec`: a request that has begun is run by its goroutine
(weak fairness of its own steps, never of starting one, of failing or of the clock), and an
audited transaction of another part ends. The steps that wait for a lock are together
strongly fair for each request: PostgreSQL queues waiters, so that nobody is overtaken for
ever. Its deadlock detector is fair too (`BreakDeadlock`), and the code needs it: a double
rotation leaves two live rows in a family, two logouts lock them in opposite order, and
without that conjunct TLC finds `RequestsEnd` violated. The one that PostgreSQL fails
answers an internal error, with the family revoked by the other.
`reset_links` uses the weak fairness of each worker of the mail pool: a worker ranges over
the channel, and `SendNow` ends at its time limit whatever the server does. Nothing is
assumed of shutdown, restart or of the callers: `MailIsTried` allows that the process ends.

### Findings

* `sessions_single_use`: `Rotate` reads the row without a lock and ignores how many rows
  `RevokeSession` updated, so that two overlapping refreshes of one token both pass the
  check and both commit a live successor; no reuse is detected. `rotate.go:72` says
  "single-use refresh rotation". What is left of it is `KeepsPromise`, and that a request
  which rotates found no successor of its token when it arrived (`RetryNeverRotates`,
  section 4): overlap is the only cause, a retry is none.
* `tenancy_partial`: a PATCH reads the row without a lock and writes every column back,
  so that of two overlapping updates of different fields the later one restores what the
  earlier one changed. `communities.go:180` says that a field which is not given keeps its
  stored value. `unit_members.go` has the same shape. The unlocked read is the only cause:
  an update undoes only what was logged after it had read the row (`OnlyOvertakenUndo`,
  in `tenancy_chain` and section 4).

### Known divergences

Disagreements between the code and what is written of it that need no run of their own.
Where a formula is named, it stands in its module under "Documented, and not kept"; to see
TLC violate it, add it as INVARIANT (or PROPERTY) to the configuration described.

* *A reuse may leave a live row* (`RevocationEmptiesFamily`): a rotation already past its
  `revoked_at` check commits a row the family-wide UPDATE did not see; the specification
  says every session of the family is revoked. The constants of `sessions_single_use` with 4 rows.
* *The map is not complete whenever it is trusted* (`TrustedMapIsComplete`): when LISTEN
  is back within a TTL the cache is trusted again, although what was notified in between
  is lost. The constants of `cache_told`.
* *The latest challenge need not be the one in force* (`AttemptPicksOpenChallenge`): it is
  chosen by the start of the transaction that issued it, so that of two overlapping
  enrollments the one in force may be refused its code until the user enrols again. Two
  challenges, two requests, TTL 2.
* *A lock may go without an alert* (`LockIsAlerted`): the deduplication of the alert is
  renewed by attempts that send nothing. Four attempts, one address, LookupFails FALSE.
* *A login may undo a reset* (`ReplacedForGood`, a PROPERTY, constants of `reset_links`): the rehash
  writes back the password the login has read. `argon2.go:164-168` expects it in the
  transaction of the login; it is a statement of its own (`auth_login.go:97-101`).
* Logout and `DELETE /v1/me/sessions/{id}` mark the cache of the replica that serves
  them and notify nobody, so another replica accepts the family's access tokens until
  they expire; the m0 design (`design.md:614`) has them publish `session_revoked`.
* `ConfirmEnrollment` does not spend the step of the code it is given, which is
  accepted once more by the next verification; the comment above it
  (`enroll.go:50`) gives the opposite as the reason.
* `escalate` derives a block of 15, 30 or 60 minutes and `RecordFailure` returns it;
  no caller reads it, and every lock ends with the sliding 15-minute window.
* A reset sets the password and uses the token up in two statements without a transaction:
  requests that overlap, or a failure between the two, use a link twice, although
  `auth_password_reset.go:68-72` calls it single-use. `AnsweredIsFinal` says what is left.
* The goroutine of a forgotten password keeps its request's context, which ends with the
  answer: the caller may be told "accepted" and no mail is sent. A full mail queue drops,
  too. `SendRaw` after `Close` panics and ends a draining process, which
  `mail.go:91-93` says is drained "instead of dropping in-flight mail"; when the listener
  does not stop in time the mailer is not closed at all.
* A short code that was read before a concurrent resend is still accepted after it
  (`invitations.go:199-204` says the old one stops working); a failing session after
  the commit answers an error to an acceptance that was granted; UNIQUE (unit, user, role)
  counts deleted rows, so that a removed member cannot be invited again to the same role;
  `bootstrap-superadmin` says "no change" also when it has promoted the account.
* Two replicas whose clocks differ, or a restart after the clock went back, order ids
  against the chain (`append.go:35-37` says they can never disagree): `AuditChain` is
  about one process, where `lastV7` outlives every setting of the clock. The migration creates partitions for twelve
  months and nothing creates more.
* Units with an empty block, floor or door never collide, since NULLs are distinct, and
  the keys of deleted rows still do; two imports that wait for one another end as an
  internal error; the `before` of an entry can be older than the row it replaced.
* The creator of an incident keeps seeing it by its detail when the membership that let
  them list it is gone; the incident detail asks for no second factor where the lists do;
  the role of a unit is resolved without its dates; malformed community settings refuse
  staff as well as tenants.

## 4. Proofs

Each theorem holds for any sets of rows, replicas, codes or requests and any limits
and lifetimes that satisfy the named assumptions of its module (constants are natural
numbers, "no row" is no row). In each proof module one lemma per action, or per
kind of action, shows that it preserves `IInv`, `Invariance` puts them together, and
one theorem per property reads it off. Every safety property, action property and
refinement that a passing run checks is proved.

* `SessionsProofs`: type correctness, `SuccessorRetiresParent`,
  `SecondFactorInherited`, `SpentTokenNeverRotated`, `RetryNeverRotates`,
  `RevocationCoversWhatItSaw`, the action property `QuietFamilyStaysQuiet` and the
  refinement. The properties are not inductive alone: `RevocationCoversWhatItSaw` needs to
  know that a family-wide UPDATE still has in its targets each row it owes and has locked
  them all when it writes its entry (`RequestInv`, stages "lock", "audit" and
  "revoke"); `SuccessorRetiresParent` that a rotation about to commit holds its
  parent's lock or finds it revoked; and both that two open transactions never
  hold the same uncommitted row.
  `KeepsPromiseHolds`: `Sessions` implements `TokenFamilies`, for every interleaving. A login
  opens, a check that passes admits, the commit of a rotation rotates; the snapshot of a
  family-wide UPDATE singles out and its commit closes; any failure is `Fail`, and no other
  step is seen.
* `RevocationCacheProofs`: type correctness, `ToldReplicaRejects`,
  `PublishedReachesListeners`, `UnrevokedAccepted`. `TokenInv` says why a replica
  that was told stays told: its mark outlasts the token, or it is so young that it asks
  the table until the token has expired. `ClosedInv` says that only families somebody
  revoked are ever marked, about to be marked or notified.
* `SecondFactorProofs`, about `MfaEnrollment`: type correctness, `ActiveSecretConfirmed`,
  `SupersededIsClosed`, `OpenCodeIsMailed`, `IssuanceCapped`, `ActivatedOnce`,
  `ActiveForGood`. The core is that only the challenge of the current secret is ever open
  (`SupersededIsClosed`); `FactorInv` ties a verified challenge to the active factor.
  The cap has an invariant of its own, since the count looks back from a time before
  the lock was held: looking back from earlier counts more.
  About `TotpVerification`: type correctness, `CodeNotReplayed`, `StepsLeft`,
  `FailureBudget`. A spent step is the highest its code could be of when it was
  matched, and no higher than the row's (`StepInv`), so a later acceptance of the code is
  for a step then out of reach. For the budget, a verification past the throttle
  is counted as the failure it may become (`BudgetInv`).
* `LoginLockoutProofs`: type correctness, `FailureBudget`, `UngatedBudget`, `AlertsApart`.
  The four budgets (two logs, the lock and the captcha gate) are one shape: what a log
  holds, and every request past the check of that log counted as the failure it may
  become, stay below the limit plus the requests in flight (`Within`); its lemmas say
  how an admission, a failure, an end and the passing of time change either side.
  `AlertInv` ties an alert younger than the window to the entry in the log that dedupes it.
* `InvitationsProofs`: type correctness, `OwnAccountOnly`, and the refinement
  `KeepsPromise`: `Invitations` implements `InvitationGrants`. A transaction that holds
  the row is alone with it (`LockInv`) and finds it as its UPDATE did (`RowInv`); what it
  has inserted, nobody else inserts (`AccountInv`, `MemberInv`). For the refinement, an
  invitation can cease to be claimable by any step and become so only by its creation
  (`ClaimableIsLost`), so that every step but a creation and a commit closes some
  invitations or none (`ClosesSome`).
* `PasswordResetProofs`: type correctness, `LinksAreStored`, `DrainedMeansTried` and the
  action property `AnsweredIsFinal`. A message the process took is in the queue, with a
  worker, or tried (`DrainInv`); what was answered is used (`LinkInv`); a hash of earlier
  parameters is of a first password, so that a login writes back no other (`HashInv`).
* `TenancyProofs`: type correctness, `ChainVerifies`, `LastEntryIsRow`, `AllOrNothing`,
  `OnlyOvertakenUndo`.
  The one transaction that holds the chain's lock has an entry later than all of the log
  (`OpenInv`), so that a commit extends the log at its end and changes nothing that
  precedes an entry of it (`LogInv`, `RowInv`). What a transaction has inserted is free in
  the table and nobody else's (`KeyInv`), so that its commit takes no key from another.
  What an update is about to write differs in its own field only from the row as the last
  entry it knew of had left it (`CopyInv`); if no other entry about the row comes before
  its own, that is the entry before its own (`UndoInv`).
* `IncidentsProofs`: type correctness, `WalkComplete`, `CreatorEntitled`,
  `ListedIffResolved`. What a walk owes is listed or still comes after its cursor
  (`OwedInv`), and the cursor is the last incident listed (`CursorInv`), so that a page
  must be the first rows of all that come next: the proof begins with sorting. The rows of
  a list have an order (`SomeSorted`: a least set that has none would lose its last
  element to a smaller one), and a sequence in that order begins with what comes first.
  What a resident creates is covered by rows that the history has (`CreationInv`). That
  lists and resolvers agree is proved of every state, not only of those the run asks.

`SecondFactorInherited`, `RetryNeverRotates`, `QuietFamilyStaysQuiet`, `ActiveForGood`,
`StepsLeft` and `ListsAgree` are proved and in no run.

Only model-checked: the liveness properties `RequestsEnd` and `MailIsTried`, since
liveness under fairness needs ENABLED, which the provers do not handle.

## 5. Not modelled, and what is left

* Recovery codes: nothing calls `ConsumeRecoveryCode`.
* Access and CSRF tokens: signed values without state; their lifetime and family are in
  `RevocationCache`.
* Password hashing and policy, HIBP, captcha, the limiter, the router: pure functions,
  libraries and external services. Where an answer of theirs decides, both are taken.
* Configuration, migrations, health, logging; linters and generators; the web and mobile
  applications, the shared package and the site.
* Of the modelled parts: the assertion at start that every route is registered through a
  constructor (`authz/assert.go`); several serve processes over one audit chain; the
  limits on attempts of an invitation as numbers; the warning about the sum of the
  coefficients.

Next: several processes over `AuditChain`, with the divergence above as a run; the mail worker of invitations with its retries.
