---------------------------- MODULE MfaEnrollment ----------------------------
(***************************************************************************)
(* Activation of one user's second factor: POST /v1/me/mfa/enroll, the     *)
(* confirming POST /v1/me/mfa/verify, and the worker that mails the code.  *)
(*                                                                         *)
(* An enrollment writes a pending TOTP secret and the email challenge that *)
(* confirms it in one transaction, so one value of Challenges stands for   *)
(* both.  Enrollments and confirmations run their transactions one at a    *)
(* time, behind the lock of the user's row: each is one action, taken when *)
(* it holds the lock.  What happens before the lock is an action apart.    *)
(***************************************************************************)
EXTENDS Integers, FiniteSets

CONSTANTS
    Challenges,   \* otp_challenges rows, each with the secret issued with it
    Requests,     \* requests in flight at once
    NoChallenge,
    TTL,          \* EnrollEmailTTL, in ticks
    MaxAttempts,  \* EnrollEmailMaxAttempts
    IssueLimit,   \* EnrollEmailIssueLimit
    IssueWindow,  \* EnrollEmailIssueWindow, in ticks
    MaxTime       \* bound on the clock

ASSUME EnrollmentAssumption ==
    /\ NoChallenge \notin Challenges
    /\ {TTL, MaxAttempts, IssueLimit, IssueWindow} \subseteq Nat \ {0}
    /\ MaxTime \in Nat

VARIABLES
    now,      \* the clock
    otp,      \* the otp_challenges rows, by challenge
    issued,   \* challenges whose INSERT is committed
    secret,   \* the challenge whose secret user_mfa holds, or NoChallenge
    active,   \* whether user_mfa.enabled_at is set
    jobs,     \* challenges whose email job is not completed
    sending,  \* jobs whose worker has found the challenge open
    mailed,   \* challenges whose code has been mailed
    req       \* the state of every request

mail == <<jobs, sending, mailed>>
vars == <<now, otp, issued, secret, active, jobs, sending, mailed, req>>

-----------------------------------------------------------------------------
Row == [created: 0..MaxTime, expires: 0..(MaxTime + TTL), attempts: 0..MaxAttempts,
        verified: BOOLEAN]

\* A request reads the clock (`at`) as it begins its transaction or its attempt;
\* a confirmation holds the challenge (`pick`) it is spending an attempt of.
Stages == {"idle", "enroll", "pick", "spend", "confirm"}
Request == [stage: Stages, at: 0..MaxTime, pick: Challenges \cup {NoChallenge}]

Idle == [stage |-> "idle", at |-> 0, pick |-> NoChallenge]

Unverified == {c \in issued : ~otp[c].verified}
Open(c, t) == ~otp[c].verified /\ otp[c].expires > t

\* ORDER BY created_at DESC LIMIT 1 over the unverified challenges.
Latest == {c \in Unverified : \A d \in Unverified : otp[d].created <= otp[c].created}

\* Mutant: challenges that were superseded or have expired do not count.
IssuedSinceOpen(t) == {c \in issued : otp[c].created > t - IssueWindow /\ Open(c, now)}

\* CountOTPChallengesIssuedSince in a transaction begun at t, and what it counts.
IssuedSince(t) == {c \in issued : otp[c].created > t - IssueWindow}

TypeOK ==
    /\ now \in 0..MaxTime
    /\ otp \in [Challenges -> Row]
    /\ issued \subseteq Challenges
    /\ secret \in issued \cup {NoChallenge}
    /\ active \in BOOLEAN
    /\ jobs \subseteq issued
    /\ sending \subseteq jobs
    /\ mailed \subseteq issued
    /\ req \in [Requests -> Request]
    /\ \A q \in Requests : req[q].stage \in {"spend", "confirm"} => req[q].pick \in issued

Init ==
    /\ now = 0
    /\ otp = [c \in Challenges |-> [created |-> 0, expires |-> 0, attempts |-> 0,
                                    verified |-> FALSE]]
    /\ issued = {} /\ secret = NoChallenge /\ active = FALSE
    /\ jobs = {} /\ sending = {} /\ mailed = {}
    /\ req = [q \in Requests |-> Idle]

-----------------------------------------------------------------------------
(* Enrollment.                                                             *)

\* BEGIN: created_at and the issuance window count from here (now() is the start
\* of the transaction), before the user's row is locked.
EnrollBegin(q) ==
    /\ req[q].stage = "idle"
    /\ req' = [req EXCEPT ![q] = [stage |-> "enroll", at |-> now, pick |-> NoChallenge]]
    /\ UNCHANGED <<now, otp, issued, secret, active, mail>>

\* 409 for an active factor, 429 at the cap.
EnrollRefused(q) == active \/ Cardinality(IssuedSince(req[q].at)) >= IssueLimit

\* Mutant: the challenges issued before stay open.
InvalidateNothing == otp

\* InvalidateOpenOTPChallenges: open challenges expire now.
InvalidateOpen ==
    [c \in Challenges |->
        IF c \in issued /\ Open(c, now) THEN [otp[c] EXCEPT !.expires = now] ELSE otp[c]]

InsertOTPChallenge(q) ==
    [created |-> req[q].at, expires |-> now + TTL, attempts |-> 0, verified |-> FALSE]

\* The new challenge supersedes those before.
IssueEnrollEmailChallenge(q, c) == [InvalidateOpen EXCEPT ![c] = InsertOTPChallenge(q)]

\* The secret that was pending is overwritten.
UpsertUserMFA(c) == secret' = c

\* The job is a row of the same transaction.
EnqueueMFAEnrollEmail(c) == jobs' = jobs \cup {c}

\* The transaction, once it holds the user's row.
EnrollCommit(q, c) ==
    /\ req[q].stage = "enroll"
    /\ ~EnrollRefused(q)
    /\ c \notin issued
    /\ otp' = IssueEnrollEmailChallenge(q, c)
    /\ issued' = issued \cup {c}
    /\ UpsertUserMFA(c)
    /\ EnqueueMFAEnrollEmail(c)
    /\ req' = [req EXCEPT ![q] = Idle]
    /\ UNCHANGED <<now, active, sending, mailed>>

-----------------------------------------------------------------------------
(* Confirmation.                                                           *)

\* VerifyMFA reads a pending enrollment.
ConfirmBegin(q) ==
    /\ req[q].stage = "idle"
    /\ secret # NoChallenge /\ ~active
    /\ req' = [req EXCEPT ![q] = [stage |-> "pick", at |-> 0, pick |-> NoChallenge]]
    /\ UNCHANGED <<now, otp, issued, secret, active, mail>>

\* ConsumeOTPChallengeAttempt, a statement of its own.  Its subquery reads the rows
\* committed when it starts ...
ConfirmPick(q) ==
    /\ req[q].stage = "pick"
    /\ \E c \in Latest :
        req' = [req EXCEPT ![q] = [stage |-> "spend", at |-> now, pick |-> c]]
    /\ UNCHANGED <<now, otp, issued, secret, active, mail>>

\* Mutant: the attempts are not looked at again on the row the UPDATE locks.
SpendAsPicked(q) ==
    LET c == req[q].pick IN
    /\ req[q].stage = "spend"
    /\ Open(c, req[q].at)
    /\ otp' = [otp EXCEPT ![c].attempts = @ + 1]
    /\ req' = [req EXCEPT ![q] = [stage |-> "confirm", at |-> 0, pick |-> c]]
    /\ UNCHANGED <<now, issued, secret, active, mail>>

\* ... and its UPDATE checks the other conditions on the row as it is by then.
ConfirmSpend(q) ==
    LET c == req[q].pick IN
    /\ req[q].stage = "spend"
    /\ Open(c, req[q].at)
    /\ otp[c].attempts < MaxAttempts
    /\ otp' = [otp EXCEPT ![c].attempts = @ + 1]
    /\ req' = [req EXCEPT ![q] = [stage |-> "confirm", at |-> 0, pick |-> c]]
    /\ UNCHANGED <<now, issued, secret, active, mail>>

\* Mutant: the expiry is the one the attempt was spent under.
StillOpenUnexpiredBefore(q) == ~otp[req[q].pick].verified

\* Mutant: the challenge is not read again under the lock.
StillOpenUnlocked(q) == otp[req[q].pick].expires > now

\* LockOpenOTPChallenge and the second look at the clock.
StillOpen(q) == Open(req[q].pick, now)

ConfirmUserMFAEnrollment == active' = TRUE
MarkOTPChallengeVerified(c) == [otp EXCEPT ![c].verified = TRUE]

\* The activation transaction, once it holds the user's row, with the code of the
\* challenge and one of the secret that user_mfa holds by now.
ConfirmCommit(q) ==
    LET c == req[q].pick IN
    /\ req[q].stage = "confirm"
    /\ StillOpen(q)
    /\ ConfirmUserMFAEnrollment
    /\ otp' = MarkOTPChallengeVerified(c)
    /\ req' = [req EXCEPT ![q] = Idle]
    /\ UNCHANGED <<now, issued, secret, mail>>

\* The request ends without effect: refused, with a wrong code of either kind, or
\* interrupted (an attempt it has spent stays spent).
Reject(q) ==
    /\ req[q].stage # "idle"
    /\ req' = [req EXCEPT ![q] = Idle]
    /\ UNCHANGED <<now, otp, issued, secret, active, mail>>

-----------------------------------------------------------------------------
(* MFAEnrollEmailWorker.                                                   *)

\* The challenge is read: one that is not open completes the job unsent.
WorkerRead(c) ==
    /\ c \in jobs \ sending
    /\ IF Open(c, now)
       THEN sending' = sending \cup {c} /\ UNCHANGED jobs
       ELSE jobs' = jobs \ {c} /\ UNCHANGED sending
    /\ UNCHANGED <<now, otp, issued, secret, active, mailed, req>>

WorkerSent(c) ==
    /\ c \in sending
    /\ jobs' = jobs \ {c} /\ sending' = sending \ {c} /\ mailed' = mailed \cup {c}
    /\ UNCHANGED <<now, otp, issued, secret, active, req>>

\* Mutant: a send that failed completes the job.
WorkerFailsForGood(c) ==
    /\ c \in sending
    /\ sending' = sending \ {c} /\ jobs' = jobs \ {c}
    /\ mailed' \in {mailed, mailed \cup {c}}
    /\ UNCHANGED <<now, otp, issued, secret, active, req>>

\* SendRaw fails or the worker dies, before the mail is out or after: River runs
\* the job again.
WorkerFails(c) ==
    /\ c \in sending
    /\ sending' = sending \ {c}
    /\ mailed' \in {mailed, mailed \cup {c}}
    /\ UNCHANGED <<now, otp, issued, secret, active, jobs, req>>

Tick ==
    /\ now < MaxTime
    /\ now' = now + 1
    /\ UNCHANGED <<otp, issued, secret, active, mail, req>>

-----------------------------------------------------------------------------
Next ==
    \/ \E q \in Requests :
        \/ EnrollBegin(q) \/ (\E c \in Challenges : EnrollCommit(q, c))
        \/ ConfirmBegin(q) \/ ConfirmPick(q) \/ ConfirmSpend(q) \/ ConfirmCommit(q)
        \/ Reject(q)
    \/ \E c \in Challenges : WorkerRead(c) \/ WorkerSent(c) \/ WorkerFails(c)
    \/ Tick

Spec == Init /\ [][Next]_vars

-----------------------------------------------------------------------------
\* The factor that is active is the one whose own email code was given: no
\* interleaving of enrollments and confirmations activates a secret with the code
\* mailed for another one.
ActiveSecretConfirmed == active => otp[secret].verified

\* A factor is activated once: of the confirmations that race, with one code or with
\* several, one commits, so no second set of recovery codes overwrites the one its
\* caller was shown.
ActivatedOnce == [][\A q \in Requests : ConfirmCommit(q) => ~active]_vars

\* Re-enrolling supersedes every code issued before, also one that a confirmation
\* has already spent an attempt of.
SupersededIsClosed == \A c \in issued \ {secret} : ~Open(c, now)

\* No sliding window sees more codes than the limit, in whatever order overlapping
\* enrollments get the user's lock: with MaxAttempts per code, what bounds guessing.
WindowEndingAt(c) == {d \in issued : /\ otp[d].created <= otp[c].created
                                    /\ otp[d].created > otp[c].created - IssueWindow}
IssuanceCapped == \A c \in issued : Cardinality(WindowEndingAt(c)) <= IssueLimit

\* A code that can still confirm has been mailed or has a job that will mail it,
\* whatever the worker goes through.
OpenCodeIsMailed == \A c \in issued : Open(c, now) => c \in mailed \cup jobs

\* An active factor stays, with its secret.
ActiveForGood == [][active => active' /\ UNCHANGED secret]_vars

\* What makes them inductive: a secret comes with its challenge, and a verified
\* challenge is that of the active secret.
FactorInv ==
    /\ secret = NoChallenge => issued = {} /\ ~active
    /\ \A c \in issued : otp[c].verified => active /\ c = secret

IInv == TypeOK /\ ActiveSecretConfirmed /\ SupersededIsClosed /\ OpenCodeIsMailed /\ FactorInv

\* Documented, and not kept (README, known divergences): an attempt is spent on "the
\* latest open challenge", when there is
\* an open one, an open one is latest.
AttemptPicksOpenChallenge ==
    (\E c \in issued : Open(c, now)) => \E c \in Latest : Open(c, now)

=============================================================================
