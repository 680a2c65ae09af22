-------------------------- MODULE SecondFactorProofs --------------------------
(***************************************************************************)
(* The second factor of one user: how it becomes active (MfaEnrollment)    *)
(* and how its codes are verified from then on (TotpVerification).         *)
(*                                                                         *)
(* The factor that becomes active is the one its own emailed code          *)
(* confirmed, for any number of challenges and requests, any lifetimes and *)
(* limits.  One lemma per kind of step; the clock matters only in that a   *)
(* challenge closed at `now` stays closed.                                 *)
(*                                                                         *)
(* No code is accepted twice within its validity, and the throttle holds   *)
(* its budget, for any number of verifications, any codes and any limits.  *)
(* The replay half: a spent step is the highest one its code could be of   *)
(* when it was matched, and no higher than the row's.  The budget half: a  *)
(* verification past the throttle is counted as the failure it may become. *)
(*                                                                         *)
(* The two specifications share no state: each theorem is about one.       *)
(***************************************************************************)
EXTENDS MfaEnrollment, TotpVerification, FiniteSetTheorems, TLAPS

LEMMA IdleIsRequest == Idle \in Request /\ Idle.stage = "idle"
BY EnrollmentAssumption DEF Idle, Request, Stages

LEMMA InitEstablishes == Init => IInv
<1> SUFFICES ASSUME Init PROVE IInv
  OBVIOUS
<1>1. [created |-> 0, expires |-> 0, attempts |-> 0, verified |-> FALSE] \in Row
  BY EnrollmentAssumption DEF Row
<1>2. now \in 0..MaxTime /\ otp \in [Challenges -> Row]
  BY <1>1, EnrollmentAssumption DEF Init
<1>3. TypeOK
  BY <1>2, IdleIsRequest DEF Init, TypeOK
<1> QED
  BY <1>3 DEF Init, IInv, ActiveSecretConfirmed, SupersededIsClosed, OpenCodeIsMailed, FactorInv

\* A step that changes one request only, and not to a stage that acts on a challenge
\* without holding an issued one, preserves the invariant.
LEMMA RequestStep ==
    ASSUME IInv, NEW q \in Requests, NEW r \in Request,
           r.stage \in {"spend", "confirm"} => r.pick \in issued,
           req' = [req EXCEPT ![q] = r],
           UNCHANGED <<now, otp, issued, secret, active, mail>>
    PROVE  IInv'
<1>1. TypeOK'
  BY DEF IInv, TypeOK, mail
<1>2. ActiveSecretConfirmed' /\ SupersededIsClosed' /\ OpenCodeIsMailed' /\ FactorInv'
  BY DEF IInv, ActiveSecretConfirmed, SupersededIsClosed, OpenCodeIsMailed, FactorInv,
         Open, mail
<1> QED BY <1>1, <1>2 DEF IInv

\* Enrolling again: the new challenge is the only open one, and comes with its job.
LEMMA EnrollStep ==
    ASSUME IInv, NEW q \in Requests, NEW c \in Challenges, EnrollCommit(q, c)
    PROVE  IInv'
<1> USE EnrollmentAssumption DEF IInv
<1>1. /\ c \notin issued /\ ~active
      /\ issued' = issued \cup {c} /\ secret' = c /\ jobs' = jobs \cup {c}
      /\ req' = [req EXCEPT ![q] = Idle]
      /\ UNCHANGED <<now, active, sending, mailed>>
  BY DEF EnrollCommit, InsertOTPChallenge, IssueEnrollEmailChallenge, UpsertUserMFA, EnqueueMFAEnrollEmail, EnrollRefused
<1>2. /\ now \in Nat /\ now <= MaxTime /\ MaxTime \in Nat /\ TTL \in Nat
      /\ \A d \in Challenges : otp[d] \in Row
  BY DEF TypeOK
<1>3. /\ InvalidateOpen \in [Challenges -> Row]
      /\ \A d \in issued : InvalidateOpen[d].verified = otp[d].verified
      /\ \A d \in issued : ~InvalidateOpen[d].verified => ~(InvalidateOpen[d].expires > now)
  <2>1. \A d \in Challenges : [otp[d] EXCEPT !.expires = now] \in Row
    BY <1>2 DEF Row
  <2>2. \A d \in issued : d \in Challenges
    BY DEF TypeOK
  <2> QED BY <1>2, <2>1, <2>2 DEF InvalidateOpen, Open, Row
<1> DEFINE row == [created |-> req[q].at, expires |-> now + TTL, attempts |-> 0,
                   verified |-> FALSE]
<1>4. row \in Row
  BY <1>2 DEF TypeOK, Request, Row
<1>5. otp' = [InvalidateOpen EXCEPT ![c] = row]
  BY DEF EnrollCommit, InsertOTPChallenge, IssueEnrollEmailChallenge, UpsertUserMFA, EnqueueMFAEnrollEmail
<1>6. /\ otp' \in [Challenges -> Row]
      /\ \A d \in issued : otp'[d] = InvalidateOpen[d]
      /\ otp'[c].verified = FALSE
  BY <1>1, <1>3, <1>4, <1>5 DEF TypeOK
<1>7. TypeOK'
  BY <1>1, <1>6, IdleIsRequest DEF TypeOK
<1>8. SupersededIsClosed' /\ OpenCodeIsMailed'
  BY <1>1, <1>3, <1>6 DEF SupersededIsClosed, OpenCodeIsMailed, Open
<1>9. ActiveSecretConfirmed' /\ FactorInv'
  BY <1>1, <1>3, <1>6 DEF ActiveSecretConfirmed, FactorInv, TypeOK
<1> QED BY <1>7, <1>8, <1>9

\* An attempt changes nothing but the attempts of its challenge.
LEMMA AttemptSpentStep ==
    ASSUME IInv, NEW q \in Requests, ConfirmSpend(q)
    PROVE  IInv'
<1> USE EnrollmentAssumption DEF IInv
<1> DEFINE c == req[q].pick
           row == [otp[c] EXCEPT !.attempts = @ + 1]
           r == [stage |-> "confirm", at |-> 0, pick |-> c]
<1>1. /\ c \in issued /\ otp[c].attempts < MaxAttempts
      /\ otp' = [otp EXCEPT ![c] = row]
      /\ req' = [req EXCEPT ![q] = r]
      /\ UNCHANGED <<now, issued, secret, active, mail>>
  BY DEF ConfirmSpend, TypeOK
<1>2. c \in Challenges /\ otp[c] \in Row
  BY <1>1 DEF TypeOK
<1>3. row \in Row /\ row.expires = otp[c].expires /\ row.verified = otp[c].verified
  BY <1>1, <1>2 DEF Row
<1>4. r \in Request /\ r.pick \in issued
  BY <1>1, <1>2 DEF Request, Stages
<1> HIDE DEF row, r, c
<1>5. /\ otp' \in [Challenges -> Row]
      /\ \A d \in issued : otp'[d].expires = otp[d].expires /\ otp'[d].verified = otp[d].verified
  BY <1>1, <1>2, <1>3 DEF TypeOK
<1>6. TypeOK'
  BY <1>1, <1>4, <1>5 DEF TypeOK, mail
<1>7. SupersededIsClosed' /\ OpenCodeIsMailed'
  BY <1>1, <1>5 DEF SupersededIsClosed, OpenCodeIsMailed, Open, mail
<1>8. ActiveSecretConfirmed' /\ FactorInv'
  BY <1>1, <1>5 DEF ActiveSecretConfirmed, FactorInv, TypeOK
<1> QED BY <1>6, <1>7, <1>8

\* Only the challenge of the secret in user_mfa is open, so a confirmation that finds
\* its challenge open confirms that secret, and finds the factor inactive.
LEMMA ConfirmsItsOwnSecret ==
    ASSUME IInv, NEW q \in Requests, ConfirmCommit(q)
    PROVE  req[q].pick = secret /\ ~active
BY DEF IInv, TypeOK, SupersededIsClosed, ActiveSecretConfirmed, ConfirmCommit, ConfirmUserMFAEnrollment, MarkOTPChallengeVerified, StillOpen, Open

LEMMA ConfirmStep ==
    ASSUME IInv, NEW q \in Requests, ConfirmCommit(q)
    PROVE  IInv'
<1> USE EnrollmentAssumption DEF IInv
<1> DEFINE row == [otp[secret] EXCEPT !.verified = TRUE]
<1>1. /\ secret \in issued /\ ~active /\ active' = TRUE
      /\ otp' = [otp EXCEPT ![secret] = row]
      /\ req' = [req EXCEPT ![q] = Idle]
      /\ UNCHANGED <<now, issued, secret, mail>>
  BY ConfirmsItsOwnSecret DEF ConfirmCommit, ConfirmUserMFAEnrollment, MarkOTPChallengeVerified, TypeOK
<1>2. secret \in Challenges /\ otp[secret] \in Row
  BY <1>1 DEF TypeOK
<1>3. row \in Row /\ row.verified = TRUE /\ row.expires = otp[secret].expires
  BY <1>2 DEF Row
<1> HIDE DEF row
<1>4. /\ otp' \in [Challenges -> Row]
      /\ otp'[secret].verified = TRUE
      /\ \A d \in issued \ {secret} : otp'[d] = otp[d]
  BY <1>1, <1>2, <1>3 DEF TypeOK
<1>5. TypeOK'
  BY <1>1, <1>4, IdleIsRequest DEF TypeOK, mail
<1>6. SupersededIsClosed' /\ OpenCodeIsMailed'
  BY <1>1, <1>4 DEF SupersededIsClosed, OpenCodeIsMailed, Open, mail
<1>7. ActiveSecretConfirmed' /\ FactorInv'
  BY <1>1, <1>4 DEF ActiveSecretConfirmed, FactorInv
<1> QED BY <1>5, <1>6, <1>7

\* The worker gives up a job only for a closed challenge or a mailed code.
LEMMA WorkerStep ==
    ASSUME IInv, NEW c \in Challenges, WorkerRead(c) \/ WorkerSent(c) \/ WorkerFails(c)
    PROVE  IInv'
<1>1. UNCHANGED <<now, otp, issued, secret, active, req>>
  BY DEF WorkerRead, WorkerSent, WorkerFails
<1>2. TypeOK'
  BY <1>1 DEF IInv, TypeOK, WorkerRead, WorkerSent, WorkerFails
<1>3. OpenCodeIsMailed'
  BY <1>1 DEF IInv, OpenCodeIsMailed, Open, WorkerRead, WorkerSent, WorkerFails
<1>4. ActiveSecretConfirmed' /\ SupersededIsClosed' /\ FactorInv'
  BY <1>1 DEF IInv, ActiveSecretConfirmed, SupersededIsClosed, Open, FactorInv
<1> QED BY <1>2, <1>3, <1>4 DEF IInv

LEMMA TickStep == ASSUME IInv, Tick PROVE IInv'
<1>1. TypeOK'
  BY EnrollmentAssumption DEF IInv, TypeOK, Tick, mail
<1>2. \A c \in issued : Open(c, now)' => Open(c, now)
  BY EnrollmentAssumption DEF IInv, TypeOK, Tick, Open, Row
<1>3. SupersededIsClosed' /\ OpenCodeIsMailed'
  BY <1>2 DEF IInv, SupersededIsClosed, OpenCodeIsMailed, Tick, mail
<1>4. ActiveSecretConfirmed' /\ FactorInv'
  BY DEF IInv, ActiveSecretConfirmed, FactorInv, Tick
<1> QED BY <1>1, <1>3, <1>4 DEF IInv

LEMMA StutterStep == ASSUME IInv, UNCHANGED vars PROVE IInv'
BY DEF vars, IInv, TypeOK, ActiveSecretConfirmed, SupersededIsClosed, OpenCodeIsMailed,
       FactorInv, Open

LEMMA NextPreserves == ASSUME IInv, [Next]_vars PROVE IInv'
<1>1. ASSUME NEW q \in Requests, EnrollBegin(q) PROVE IInv'
  <2> DEFINE r == [stage |-> "enroll", at |-> now, pick |-> NoChallenge]
  <2>1. r \in Request /\ r.stage = "enroll"
    BY DEF IInv, TypeOK, Request, Stages
  <2> QED BY <1>1, <2>1, RequestStep DEF EnrollBegin
<1>2. ASSUME NEW q \in Requests, ConfirmBegin(q) PROVE IInv'
  <2> DEFINE r == [stage |-> "pick", at |-> 0, pick |-> NoChallenge]
  <2>1. r \in Request /\ r.stage = "pick"
    BY EnrollmentAssumption DEF Request, Stages
  <2> QED BY <1>2, <2>1, RequestStep DEF ConfirmBegin
<1>3. ASSUME NEW q \in Requests, ConfirmPick(q) PROVE IInv'
  <2>1. PICK c \in Latest :
            req' = [req EXCEPT ![q] = [stage |-> "spend", at |-> now, pick |-> c]]
    BY <1>3 DEF ConfirmPick
  <2> DEFINE r == [stage |-> "spend", at |-> now, pick |-> c]
  <2>2. r \in Request /\ r.pick \in issued
    BY <2>1 DEF IInv, TypeOK, Request, Stages, Latest, Unverified
  <2> QED BY <1>3, <2>1, <2>2, RequestStep DEF ConfirmPick
<1>4. ASSUME NEW q \in Requests, Reject(q) PROVE IInv'
  BY <1>4, IdleIsRequest, RequestStep DEF Reject
<1>5. CASE UNCHANGED vars
  BY <1>5, StutterStep
<1>6. CASE Tick
  BY <1>6, TickStep
<1> QED BY <1>1, <1>2, <1>3, <1>4, <1>5, <1>6, EnrollStep, AttemptSpentStep, ConfirmStep,
        WorkerStep
        DEF Next

-----------------------------------------------------------------------------
(* The cap on issuance, whose count and insert are one step only because of the *)
(* user's lock, and whose window starts before that lock is held.               *)

CapInv == IsFiniteSet(issued) /\ IssuanceCapped

\* A step that inserts no challenge and rewrites no created_at.
LEMMA CapUnchanged ==
    ASSUME CapInv, UNCHANGED issued, \A d \in issued : otp'[d].created = otp[d].created
    PROVE  CapInv'
<1>1. \A c \in issued : WindowEndingAt(c)' = WindowEndingAt(c)
  BY DEF WindowEndingAt
<1> QED BY <1>1 DEF CapInv, IssuanceCapped

\* Whatever window the new challenge falls in, the others in it were counted: the
\* count looks no less far back, and has no upper end.
LEMMA CapEnroll ==
    ASSUME IInv, IInv', CapInv, NEW q \in Requests, NEW c \in Challenges, EnrollCommit(q, c)
    PROVE  CapInv'
<1> DEFINE t == req[q].at
           counted == IssuedSince(t)
<1>1. /\ issued' = issued \cup {c} /\ c \notin issued
      /\ otp'[c].created = t
      /\ \A d \in issued : otp'[d].created = otp[d].created
  <2>1. \A d \in issued : d \in Challenges /\ otp[d] \in Row
    BY DEF IInv, TypeOK
  <2>2. \A d \in issued : InvalidateOpen[d].created = otp[d].created
    BY <2>1 DEF InvalidateOpen, Row
  <2>3. InvalidateOpen = [d \in Challenges |-> InvalidateOpen[d]]
    BY DEF InvalidateOpen
  <2> QED BY <2>1, <2>2, <2>3 DEF EnrollCommit, InsertOTPChallenge, IssueEnrollEmailChallenge, UpsertUserMFA, EnqueueMFAEnrollEmail
<1>2. /\ t \in Int /\ IssueWindow \in Int /\ IssueLimit \in Nat \ {0}
      /\ \A d \in issued' : otp'[d].created \in Int
  BY EnrollmentAssumption DEF IInv, TypeOK, Request, Row
<1>3. IsFiniteSet(issued')
  BY <1>1, FS_AddElement DEF CapInv
<1>4. /\ IsFiniteSet(counted) /\ Cardinality(counted) \in Nat
      /\ Cardinality(counted) < IssueLimit
  <2>1. counted \subseteq issued
    BY DEF IssuedSince
  <2>2. IsFiniteSet(counted) /\ Cardinality(counted) \in Nat
    BY <2>1, FS_Subset, FS_CardinalityType DEF CapInv
  <2> QED BY <1>2, <2>2 DEF EnrollCommit, InsertOTPChallenge, IssueEnrollEmailChallenge, UpsertUserMFA, EnqueueMFAEnrollEmail, EnrollRefused
<1> HIDE DEF counted
<1>5. ASSUME NEW e \in issued' PROVE Cardinality(WindowEndingAt(e)') <= IssueLimit
  <2> DEFINE W == WindowEndingAt(e)'
  <2>1. W = {d \in issued' : /\ otp'[d].created <= otp'[e].created
                             /\ otp'[d].created > otp'[e].created - IssueWindow}
    BY DEF WindowEndingAt
  <2>2. CASE c \in W
    <3>1. t <= otp'[e].created
      BY <1>1, <2>1, <2>2
    <3>2. W \subseteq counted \cup {c}
      BY <1>1, <1>2, <2>1, <3>1 DEF IssuedSince, counted
    <3>3. /\ IsFiniteSet(counted \cup {c})
          /\ Cardinality(counted \cup {c}) <= Cardinality(counted) + 1
      <4> DEFINE n == Cardinality(counted)
      <4>1. n \in Nat
        BY <1>4
      <4>2. /\ IsFiniteSet(counted \cup {c})
            /\ Cardinality(counted \cup {c}) = IF c \in counted THEN n ELSE n + 1
        BY <1>4, FS_AddElement
      <4> HIDE DEF n
      <4>3. Cardinality(counted \cup {c}) <= n + 1
        BY <4>1, <4>2
      <4> QED BY <4>2, <4>3 DEF n
    <3>4. Cardinality(W) <= Cardinality(counted \cup {c}) /\ Cardinality(W) \in Nat
      BY <3>2, <3>3, FS_Subset, FS_CardinalityType
    <3>5. Cardinality(counted \cup {c}) \in Nat
      BY <3>3, FS_CardinalityType
    <3> QED BY <1>2, <1>4, <3>3, <3>4, <3>5
  <2>3. CASE c \notin W
    <3>1. e # c
      BY <1>1, <1>2, <2>1, <2>3, EnrollmentAssumption
    <3>2. W = WindowEndingAt(e)
      BY <1>1, <2>1, <2>3, <3>1 DEF WindowEndingAt
    <3> QED BY <1>1, <3>1, <3>2 DEF CapInv, IssuanceCapped
  <2> QED BY <2>2, <2>3
<1> QED BY <1>3, <1>5 DEF CapInv, IssuanceCapped

LEMMA CapPreserved == ASSUME IInv, IInv', CapInv, [Next]_vars PROVE CapInv'
<1>1. ASSUME NEW q \in Requests, ConfirmSpend(q) \/ ConfirmCommit(q) PROVE CapInv'
  <2> DEFINE c == req[q].pick
  <2>1. c \in issued /\ \A d \in issued : d \in Challenges /\ otp[d] \in Row
    BY <1>1 DEF IInv, TypeOK, ConfirmSpend, ConfirmCommit, ConfirmUserMFAEnrollment, MarkOTPChallengeVerified
  <2>2. PICK r : otp' = [otp EXCEPT ![c] = r] /\ r.created = otp[c].created
    BY <1>1, <2>1 DEF ConfirmSpend, ConfirmCommit, ConfirmUserMFAEnrollment, MarkOTPChallengeVerified, Row
  <2>3. \A d \in issued : otp'[d].created = otp[d].created
    BY <2>1, <2>2 DEF IInv, TypeOK
  <2> QED BY <1>1, <2>3, CapUnchanged DEF ConfirmSpend, ConfirmCommit, ConfirmUserMFAEnrollment, MarkOTPChallengeVerified
<1>2. ASSUME UNCHANGED <<otp, issued>> PROVE CapInv'
  BY <1>2, CapUnchanged
<1> QED BY <1>1, <1>2, CapEnroll
        DEF Next, vars, EnrollBegin, ConfirmBegin, ConfirmPick, Reject, WorkerRead, WorkerSent,
            WorkerFails, Tick

-----------------------------------------------------------------------------
\* IInv is an invariant of every execution.
THEOREM Invariance == Spec => []IInv
BY InitEstablishes, NextPreserves, PTL DEF Spec

\* Every variable keeps its type; in particular no code is tried more than MaxAttempts
\* times, however many confirmations overlap.
THEOREM TypeCorrect == Spec => []TypeOK
BY Invariance, PTL DEF IInv

\* The active factor is the one its own emailed code confirmed.
THEOREM ActiveSecretConfirmedHolds == Spec => []ActiveSecretConfirmed
BY Invariance, PTL DEF IInv

\* Enrolling again closes every code issued before.
THEOREM SupersededIsClosedHolds == Spec => []SupersededIsClosed
BY Invariance, PTL DEF IInv

\* No code that could still confirm is lost on its way to the mailbox.
THEOREM OpenCodeIsMailedHolds == Spec => []OpenCodeIsMailed
BY Invariance, PTL DEF IInv

\* No sliding window sees more than IssueLimit codes.
THEOREM IssuanceCappedHolds == Spec => []IssuanceCapped
<1>1. Init => CapInv
  BY FS_EmptySet DEF Init, CapInv, IssuanceCapped
<1> QED BY <1>1, CapPreserved, Invariance, PTL DEF Spec, CapInv

\* Of the confirmations that race, one commits.
THEOREM ActivatedOnceHolds == Spec => ActivatedOnce
<1>1. IInv /\ [Next]_vars => [\A q \in Requests : ConfirmCommit(q) => ~active]_vars
  BY ConfirmsItsOwnSecret
<1> QED BY <1>1, Invariance, PTL DEF Spec, ActivatedOnce

\* A factor, once active, is neither replaced nor switched off.
THEOREM ActiveForGoodHolds == Spec => ActiveForGood
<1>1. [Next]_vars => [active => active' /\ UNCHANGED secret]_vars
  BY DEF Next, vars, mail, EnrollBegin, EnrollCommit, InsertOTPChallenge, IssueEnrollEmailChallenge, UpsertUserMFA, EnqueueMFAEnrollEmail, EnrollRefused, ConfirmBegin, ConfirmPick,
         ConfirmSpend, ConfirmCommit, ConfirmUserMFAEnrollment, MarkOTPChallengeVerified, Reject, WorkerRead, WorkerSent, WorkerFails, Tick
<1> QED BY <1>1, PTL DEF Spec, ActiveForGood

-----------------------------------------------------------------------------
(* Verification of the codes of an active factor.                                 *)

LEMMA StageIsAttempt ==
    ASSUME NEW s \in TotpStages
    PROVE  InStage(s) \in Attempt /\ InStage(s).stage = s
BY TotpAssumption DEF InStage, Attempt

LEMMA VerificationInit == TotpInit => TotpIInv
<1> SUFFICES ASSUME TotpInit PROVE TotpIInv
  OBVIOUS
<1>1. InStage("ready") \in Attempt /\ InStage("ready").stage = "ready"
  BY StageIsAttempt DEF TotpStages
<1>2. TotpTypeOK
  <2>1. currentStep \in 0..MaxStep /\ lastStep \in Nat \cup {Never}
    BY TotpAssumption DEF TotpInit
  <2>2. attempt \in [Attempts -> Attempt]
    BY <1>1 DEF TotpInit
  <2> QED BY <2>1, <2>2 DEF TotpInit, TotpTypeOK
<1>3. InFlight = {} /\ PastThrottle = {} /\ log = {}
  BY <1>1 DEF TotpInit, InFlight, PastThrottle
<1>4. BudgetInv
  BY <1>3, FS_EmptySet, TotpAssumption DEF BudgetInv
<1>5. StepInv /\ CodeNotReplayed /\ StepsLeft
  BY <1>1, TotpAssumption DEF TotpInit, StepInv, CodeNotReplayed, StepsLeft, Never
<1> QED BY <1>2, <1>4, <1>5 DEF TotpIInv

-----------------------------------------------------------------------------
(* The budget of the throttle: how the steps change the sets it counts.            *)

\* A verification that goes on, or ends, without touching the log.
LEMMA SameLogBudget ==
    ASSUME TotpIInv, NEW a \in Attempts, NEW r \in Attempt,
           attempt[a].stage \notin {"ready", "done"},
           attempt' = [attempt EXCEPT ![a] = r], UNCHANGED log,
           r.stage \notin {"ready", "throttle"},
           attempt[a].stage = "throttle" =>
               r.stage = "done" \/ Cardinality(log) < Threshold
    PROVE  BudgetInv'
<1> DEFINE n == Cardinality(log)
           p == Cardinality(PastThrottle)
           m == Cardinality(InFlight)
<1>1. /\ IsFiniteSet(InFlight) /\ IsFiniteSet(log) /\ PastThrottle \subseteq InFlight
      /\ m <= MaxInFlight /\ n + p < Threshold + MaxInFlight
  BY DEF TotpIInv, BudgetInv, PastThrottle
<1>2. IsFiniteSet(PastThrottle) /\ n \in Nat /\ p \in Nat /\ m \in Nat
  BY <1>1, FS_Subset, FS_CardinalityType
<1>3. /\ InFlight' \subseteq InFlight
      /\ PastThrottle' \subseteq InFlight
      /\ attempt[a].stage # "throttle" \/ r.stage = "done" => PastThrottle' \subseteq PastThrottle
  BY DEF InFlight, PastThrottle, TotpIInv, TotpTypeOK
<1>4. /\ IsFiniteSet(InFlight') /\ Cardinality(InFlight') <= m
      /\ IsFiniteSet(PastThrottle') /\ Cardinality(PastThrottle') <= m
      /\ Cardinality(InFlight') \in Nat /\ Cardinality(PastThrottle') \in Nat
  BY <1>1, <1>3, FS_Subset, FS_CardinalityType
<1>5. attempt[a].stage # "throttle" \/ r.stage = "done" => Cardinality(PastThrottle') <= p
  BY <1>2, <1>3, FS_Subset
<1>6. Cardinality(log') = n /\ IsFiniteSet(log')
  BY <1>1
<1> HIDE DEF n, p, m
<1>7. n + Cardinality(PastThrottle') < Threshold + MaxInFlight
  <2>1. CASE attempt[a].stage # "throttle" \/ r.stage = "done"
    BY <2>1, <1>1, <1>2, <1>4, <1>5, TotpAssumption
  <2>2. CASE n < Threshold
    BY <2>2, <1>1, <1>2, <1>4, TotpAssumption
  <2> QED BY <2>1, <2>2 DEF n
<1>8. Cardinality(InFlight') <= MaxInFlight
  BY <1>1, <1>2, <1>4, TotpAssumption
<1> QED BY <1>4, <1>6, <1>7, <1>8 DEF BudgetInv

\* A failure moves from the verifications that may fail to the log.
LEMMA FailureBudgetStep ==
    ASSUME TotpIInv, NEW a \in Attempts, RecordFailure(a)
    PROVE  BudgetInv'
<1> DEFINE n == Cardinality(log)
           p == Cardinality(PastThrottle)
           m == Cardinality(InFlight)
<1>1. /\ IsFiniteSet(InFlight) /\ IsFiniteSet(log) /\ PastThrottle \subseteq InFlight
      /\ m <= MaxInFlight /\ n + p < Threshold + MaxInFlight
  BY DEF TotpIInv, BudgetInv, PastThrottle
<1>2. IsFiniteSet(PastThrottle) /\ n \in Nat /\ p \in Nat /\ m \in Nat
  BY <1>1, FS_Subset, FS_CardinalityType
<1>3. InStage("done").stage = "done"
  BY StageIsAttempt DEF TotpStages
<1>4. a \in PastThrottle /\ PastThrottle' = PastThrottle \ {a} /\ InFlight' \subseteq InFlight
  BY <1>3 DEF RecordFailure, InFlight, PastThrottle, TotpIInv, TotpTypeOK
<1>5. Cardinality(PastThrottle') = p - 1
  BY <1>2, <1>4, FS_RemoveElement
<1>6. IsFiniteSet(log') /\ Cardinality(log') \in Nat /\ Cardinality(log') <= n + 1
  <2>1. log' = log \cup {<<a, currentStep>>}
    BY DEF RecordFailure
  <2>2. /\ IsFiniteSet(log \cup {<<a, currentStep>>})
        /\ Cardinality(log \cup {<<a, currentStep>>}) \in {n, n + 1}
    BY <1>1, <1>2, FS_AddElement
  <2> QED BY <1>2, <2>1, <2>2
<1>7. IsFiniteSet(InFlight') /\ Cardinality(InFlight') \in Nat /\ Cardinality(InFlight') <= m
  BY <1>1, <1>4, FS_Subset, FS_CardinalityType
<1> HIDE DEF n, p, m
<1>8. Cardinality(log') + Cardinality(PastThrottle') < Threshold + MaxInFlight
  BY <1>1, <1>2, <1>5, <1>6, TotpAssumption
<1>9. Cardinality(InFlight') <= MaxInFlight
  BY <1>1, <1>2, <1>7, TotpAssumption
<1> QED BY <1>6, <1>7, <1>8, <1>9 DEF BudgetInv

\* The log shrinks and no verification joins those it counts: a reset, a restart, the clock.
LEMMA SmallerLogBudget ==
    ASSUME TotpIInv, log' \subseteq log, InFlight' \subseteq InFlight,
           PastThrottle' \subseteq PastThrottle
    PROVE  BudgetInv'
<1> DEFINE n == Cardinality(log)
           p == Cardinality(PastThrottle)
           m == Cardinality(InFlight)
<1>1. /\ IsFiniteSet(InFlight) /\ IsFiniteSet(log) /\ PastThrottle \subseteq InFlight
      /\ m <= MaxInFlight /\ n + p < Threshold + MaxInFlight
  BY DEF TotpIInv, BudgetInv, PastThrottle
<1>2. IsFiniteSet(PastThrottle) /\ n \in Nat /\ p \in Nat /\ m \in Nat
  BY <1>1, FS_Subset, FS_CardinalityType
<1>3. /\ IsFiniteSet(log') /\ Cardinality(log') \in Nat /\ Cardinality(log') <= n
      /\ IsFiniteSet(InFlight') /\ Cardinality(InFlight') \in Nat /\ Cardinality(InFlight') <= m
      /\ Cardinality(PastThrottle') \in Nat /\ Cardinality(PastThrottle') <= p
  BY <1>1, <1>2, FS_Subset, FS_CardinalityType
<1> HIDE DEF n, p, m
<1>4. /\ Cardinality(log') + Cardinality(PastThrottle') < Threshold + MaxInFlight
      /\ Cardinality(InFlight') <= MaxInFlight
  BY <1>1, <1>2, <1>3, TotpAssumption
<1> QED BY <1>3, <1>4 DEF BudgetInv

\* One more verification, below the bound, and not past the throttle yet.
LEMMA BeginBudget ==
    ASSUME TotpIInv, NEW a \in Attempts, NEW c \in Codes, Begin(a, c)
    PROVE  BudgetInv'
<1> DEFINE m == Cardinality(InFlight)
           r == [InStage("throttle") EXCEPT !.code = c]
<1>1. IsFiniteSet(InFlight) /\ m < MaxInFlight /\ m \in Nat
  BY FS_CardinalityType DEF TotpIInv, BudgetInv, Begin
<1>2. r.stage = "throttle"
  BY DEF InStage
<1>3. InFlight' = InFlight \cup {a} /\ PastThrottle' = PastThrottle /\ log' = log
  BY <1>2 DEF Begin, InFlight, PastThrottle, TotpIInv, TotpTypeOK
<1>4. /\ IsFiniteSet(InFlight \cup {a})
      /\ Cardinality(InFlight \cup {a}) \in {m, m + 1}
  BY <1>1, FS_AddElement
<1> HIDE DEF m
<1>5. IsFiniteSet(InFlight') /\ Cardinality(InFlight') <= MaxInFlight
  BY <1>1, <1>3, <1>4, TotpAssumption
<1> QED BY <1>3, <1>5 DEF BudgetInv, TotpIInv

-----------------------------------------------------------------------------
(* Steps that spend nothing.                                                        *)

LEMMA VerificationOnlyStep ==
    ASSUME TotpIInv, NEW a \in Attempts, NEW r \in Attempt,
           r.stage = "update" => r.at <= currentStep /\ MatchStep(r.code, r.at, r.step),
           attempt' = [attempt EXCEPT ![a] = r],
           UNCHANGED <<currentStep, enabled, lastStep, accepted>>,
           log' \subseteq Attempts \X (0..MaxStep)
    PROVE  TotpTypeOK' /\ StepInv' /\ CodeNotReplayed' /\ StepsLeft'
<1>1. TotpTypeOK'
  BY DEF TotpIInv, TotpTypeOK
<1>2. StepInv'
  BY DEF TotpIInv, TotpTypeOK, StepInv
<1>3. CodeNotReplayed' /\ StepsLeft'
  BY DEF TotpIInv, CodeNotReplayed, StepsLeft
<1> QED BY <1>1, <1>2, <1>3

LEMMA BeginStep ==
    ASSUME TotpIInv, NEW a \in Attempts, NEW c \in Codes, Begin(a, c)
    PROVE  TotpIInv'
<1> DEFINE r == [InStage("throttle") EXCEPT !.code = c]
<1>1. r \in Attempt /\ r.stage = "throttle"
  BY TotpAssumption DEF InStage, Attempt, TotpStages
<1>2. TotpTypeOK' /\ StepInv' /\ CodeNotReplayed' /\ StepsLeft'
  BY <1>1, VerificationOnlyStep DEF Begin, TotpIInv, TotpTypeOK
<1> QED BY <1>2, BeginBudget DEF TotpIInv

LEMMA AdmitStep ==
    ASSUME TotpIInv, NEW a \in Attempts, Admit(a)
    PROVE  TotpIInv'
<1> DEFINE r == [attempt[a] EXCEPT !.stage = "match"]
<1>1. r \in Attempt /\ r.stage = "match"
  BY DEF TotpIInv, TotpTypeOK, Attempt, TotpStages
<1>2. attempt' = [attempt EXCEPT ![a] = r]
  BY DEF Admit
<1>3. TotpTypeOK' /\ StepInv' /\ CodeNotReplayed' /\ StepsLeft'
  BY <1>1, <1>2, VerificationOnlyStep DEF Admit, TotpIInv, TotpTypeOK
<1>4. BudgetInv'
  BY <1>1, <1>2, SameLogBudget DEF Admit
<1> QED BY <1>3, <1>4 DEF TotpIInv

LEMMA MatchingStep ==
    ASSUME TotpIInv, NEW a \in Attempts, Match(a)
    PROVE  TotpIInv'
<1>1. attempt[a] \in Attempt /\ currentStep \in 0..MaxStep /\ log \subseteq Attempts \X (0..MaxStep)
  BY DEF TotpIInv, TotpTypeOK
<1>2. CASE attempt' = [attempt EXCEPT ![a] = InStage("fail")]
  <2>1. InStage("fail") \in Attempt /\ InStage("fail").stage = "fail"
    BY StageIsAttempt DEF TotpStages
  <2>2. TotpTypeOK' /\ StepInv' /\ CodeNotReplayed' /\ StepsLeft'
    BY <1>1, <1>2, <2>1, VerificationOnlyStep DEF Match
  <2>3. BudgetInv'
    BY <1>2, <2>1, SameLogBudget DEF Match
  <2> QED BY <2>2, <2>3 DEF TotpIInv
<1>3. ASSUME NEW s \in attempt[a].code, MatchStep(attempt[a].code, currentStep, s),
             attempt' = [attempt EXCEPT ![a] =
                            [stage |-> "update", code |-> @.code, at |-> currentStep, step |-> s]]
      PROVE  TotpIInv'
  <2> DEFINE r == [stage |-> "update", code |-> attempt[a].code, at |-> currentStep, step |-> s]
  <2>1. r \in Attempt /\ r.stage = "update"
    BY <1>1, TotpAssumption DEF Attempt, TotpStages
  <2>2. attempt' = [attempt EXCEPT ![a] = r]
    BY <1>3
  <2>3. r.at <= currentStep /\ MatchStep(r.code, r.at, r.step)
    BY <1>1, <1>3, TotpAssumption
  <2>4. TotpTypeOK' /\ StepInv' /\ CodeNotReplayed' /\ StepsLeft'
    BY <1>1, <2>1, <2>2, <2>3, VerificationOnlyStep DEF Match
  <2>5. BudgetInv'
    BY <2>1, <2>2, SameLogBudget DEF Match
  <2> QED BY <2>4, <2>5 DEF TotpIInv
<1> QED BY <1>2, <1>3 DEF Match

\* Failing, resetting or refusing: the verification ends.
LEMMA VerificationEnd ==
    ASSUME TotpIInv, NEW a \in Attempts, RecordFailure(a) \/ ResetFailures(a) \/ Refuse(a)
    PROVE  TotpIInv'
<1>1. InStage("done") \in Attempt /\ InStage("done").stage = "done"
  BY StageIsAttempt DEF TotpStages
<1>2. log' \subseteq Attempts \X (0..MaxStep)
  BY DEF TotpIInv, TotpTypeOK, RecordFailure, ResetFailures, Refuse
<1>3. TotpTypeOK' /\ StepInv' /\ CodeNotReplayed' /\ StepsLeft'
  BY <1>1, <1>2, VerificationOnlyStep DEF RecordFailure, ResetFailures, Refuse
<1>4. BudgetInv'
  <2>1. CASE RecordFailure(a)
    BY <2>1, FailureBudgetStep
  <2>2. CASE ResetFailures(a)
    <3>1. /\ log' \subseteq log /\ InFlight' \subseteq InFlight
          /\ PastThrottle' \subseteq PastThrottle
      BY <1>1, <2>2 DEF ResetFailures, InFlight, PastThrottle, TotpIInv, TotpTypeOK
    <3> QED BY <3>1, SmallerLogBudget
  <2>3. CASE Refuse(a)
    BY <1>1, <2>3, SameLogBudget DEF Refuse
  <2> QED BY <2>1, <2>2, <2>3
<1> QED BY <1>3, <1>4 DEF TotpIInv

-----------------------------------------------------------------------------
\* The step is spent: above every step spent before, and the highest its code was of.
LEMMA SpendingStep ==
    ASSUME TotpIInv, NEW a \in Attempts, SpendStep(a)
    PROVE  TotpIInv'
<1> DEFINE r == attempt[a]
           x == [attempt |-> a, code |-> r.code, at |-> r.at, step |-> r.step]
<1>1. /\ r \in Attempt /\ currentStep \in 0..MaxStep /\ lastStep \in Nat \cup {Never}
      /\ log \subseteq Attempts \X (0..MaxStep) /\ accepted \subseteq Acceptance
  BY DEF TotpIInv, TotpTypeOK
<1>2. r.stage = "update" /\ r.at <= currentStep /\ MatchStep(r.code, r.at, r.step)
  BY DEF TotpIInv, StepInv, SpendStep
<1>3. CASE ~Fresh(r.step)
  <2>1. InStage("fail") \in Attempt /\ InStage("fail").stage = "fail"
    BY StageIsAttempt DEF TotpStages
  <2>2. /\ attempt' = [attempt EXCEPT ![a] = InStage("fail")]
        /\ UNCHANGED <<currentStep, enabled, lastStep, log, accepted>>
    BY <1>3 DEF SpendStep
  <2>3. TotpTypeOK' /\ StepInv' /\ CodeNotReplayed' /\ StepsLeft'
    BY <1>1, <2>1, <2>2, VerificationOnlyStep
  <2>4. BudgetInv'
    BY <1>2, <2>1, <2>2, SameLogBudget
  <2> QED BY <2>3, <2>4 DEF TotpIInv
<1>4. CASE Fresh(r.step)
  <2>1. InStage("reset") \in Attempt /\ InStage("reset").stage = "reset"
    BY StageIsAttempt DEF TotpStages
  <2>2. /\ attempt' = [attempt EXCEPT ![a] = InStage("reset")]
        /\ lastStep' = r.step /\ accepted' = accepted \cup {x}
        /\ UNCHANGED <<currentStep, enabled, log>>
    BY <1>4 DEF SpendStep
  <2>3. x \in Acceptance /\ r.step \in Nat /\ r.at \in Nat
    BY <1>1, TotpAssumption DEF Attempt, Acceptance
  <2>4. lastStep < r.step
    BY <1>4 DEF Fresh
  <2>5. TotpTypeOK'
    BY <1>1, <2>1, <2>2, <2>3 DEF TotpIInv, TotpTypeOK
  <2>6. \A y \in accepted : y \in Acceptance /\ y.step \in Nat /\ y.step < r.step
    BY <1>1, <2>3, <2>4 DEF TotpIInv, StepInv, Acceptance, Never
  <2>7. StepInv'
    <3>1. \A y \in accepted' : MatchStep(y.code, y.at, y.step) /\ y.step <= lastStep'
      BY <1>2, <2>2, <2>3, <2>6 DEF TotpIInv, StepInv
    <3>2. \A b \in Attempts : attempt'[b].stage = "update" => b # a /\ attempt'[b] = attempt[b]
      BY <2>1, <2>2 DEF TotpIInv, TotpTypeOK
    <3> QED BY <2>2, <3>1, <3>2 DEF TotpIInv, StepInv
  <2>8. CodeNotReplayed'
    <3>1. \A y \in accepted : y.code = x.code => x.step \notin Drift(y.at)
      <4> SUFFICES ASSUME NEW y \in accepted, y.code = x.code, x.step \in Drift(y.at)
                   PROVE  FALSE
        OBVIOUS
      <4>1. MatchStep(y.code, y.at, y.step)
        BY DEF TotpIInv, StepInv
      <4>2. x.step \in y.code
        BY <1>2 DEF MatchStep
      <4>3. x.step <= y.step
        BY <4>1, <4>2 DEF MatchStep
      <4> QED BY <2>3, <2>6, <4>3
    <3>2. \A y \in accepted : ~(x.step < y.step) /\ x.step # y.step
      BY <2>3, <2>6
    <3> QED BY <2>2, <3>1, <3>2 DEF TotpIInv, CodeNotReplayed
  <2>9. StepsLeft'
    <3>1. r.step \in {r.at - 1, r.at, r.at + 1}
      BY <1>2 DEF MatchStep, Drift
    <3>2. r.step <= currentStep + 1
      BY <1>1, <1>2, <2>3, <3>1, TotpAssumption
    <3> QED BY <2>2, <3>2 DEF StepsLeft
  <2>10. BudgetInv'
    BY <1>2, <2>1, <2>2, SameLogBudget
  <2> QED BY <2>5, <2>7, <2>8, <2>9, <2>10 DEF TotpIInv
<1> QED BY <1>3, <1>4

-----------------------------------------------------------------------------
LEMMA EnrolledStep ==
    ASSUME TotpIInv, NEW c \in Codes, Confirm(c)
    PROVE  TotpIInv'
<1>1. TotpTypeOK' /\ StepInv' /\ CodeNotReplayed' /\ StepsLeft'
  BY DEF Confirm, TotpIInv, TotpTypeOK, StepInv, CodeNotReplayed, StepsLeft
<1>2. log' = log /\ InFlight' = InFlight /\ PastThrottle' = PastThrottle
  BY DEF Confirm, InFlight, PastThrottle
<1> QED BY <1>1, <1>2 DEF TotpIInv, BudgetInv

LEMMA CounterRestart ==
    ASSUME TotpIInv, Restart
    PROVE  TotpIInv'
<1>1. InStage("done") \in Attempt /\ InStage("done").stage = "done"
  BY StageIsAttempt DEF TotpStages
<1>2. TotpTypeOK'
  BY <1>1 DEF Restart, TotpIInv, TotpTypeOK
<1>3. StepInv' /\ CodeNotReplayed' /\ StepsLeft'
  BY <1>1 DEF Restart, TotpIInv, StepInv, CodeNotReplayed, StepsLeft
<1>4. log' \subseteq log /\ InFlight' \subseteq InFlight /\ PastThrottle' \subseteq PastThrottle
  BY <1>1 DEF Restart, InFlight, PastThrottle
<1> QED BY <1>2, <1>3, <1>4, SmallerLogBudget DEF TotpIInv

LEMMA VerificationTick ==
    ASSUME TotpIInv, NextStep
    PROVE  TotpIInv'
<1>1. /\ currentStep \in 0..MaxStep /\ currentStep' = currentStep + 1 /\ currentStep' \in 0..MaxStep
      /\ UNCHANGED <<enabled, lastStep, attempt, accepted>>
      /\ log' \subseteq log
  BY TotpAssumption DEF NextStep, TotpIInv, TotpTypeOK
<1>2. TotpTypeOK'
  BY <1>1 DEF TotpIInv, TotpTypeOK
<1>3. StepInv'
  BY <1>1 DEF TotpIInv, TotpTypeOK, StepInv, Attempt
<1>4. CodeNotReplayed'
  BY <1>1 DEF TotpIInv, CodeNotReplayed
<1>5. StepsLeft'
  BY <1>1 DEF TotpIInv, TotpTypeOK, StepsLeft, Never
<1>6. InFlight' \subseteq InFlight /\ PastThrottle' \subseteq PastThrottle
  BY <1>1 DEF InFlight, PastThrottle
<1> QED BY <1>1, <1>2, <1>3, <1>4, <1>5, <1>6, SmallerLogBudget DEF TotpIInv

LEMMA VerificationStutter ==
    ASSUME TotpIInv, UNCHANGED totpVars
    PROVE  TotpIInv'
<1>1. TotpTypeOK' /\ StepInv' /\ CodeNotReplayed' /\ StepsLeft'
  BY DEF totpVars, TotpIInv, TotpTypeOK, StepInv, CodeNotReplayed, StepsLeft
<1>2. log' = log /\ InFlight' = InFlight /\ PastThrottle' = PastThrottle
  BY DEF totpVars, InFlight, PastThrottle
<1> QED BY <1>1, <1>2 DEF TotpIInv, BudgetInv

LEMMA VerificationPreserves == TotpIInv /\ [TotpNext]_totpVars => TotpIInv'
<1> SUFFICES ASSUME TotpIInv, [TotpNext]_totpVars PROVE TotpIInv'
  OBVIOUS
<1> QED
  BY EnrolledStep, BeginStep, AdmitStep, MatchingStep, SpendingStep, VerificationEnd, CounterRestart,
     VerificationTick, VerificationStutter DEF TotpNext

-----------------------------------------------------------------------------
\* The inductive invariant of the verifications: IInv holds in every reachable state.
THEOREM VerificationInvariance == TotpSpec => []TotpIInv
<1>1. TotpInit => TotpIInv
  BY VerificationInit
<1>2. TotpIInv /\ [TotpNext]_totpVars => TotpIInv'
  BY VerificationPreserves
<1> QED BY <1>1, <1>2, PTL DEF TotpSpec

\* Every variable keeps its type, whatever VerifyTOTP and the counter do.
THEOREM VerificationTypeCorrect == TotpSpec => []TotpTypeOK
<1>1. TotpIInv => TotpTypeOK
  BY DEF TotpIInv
<1> QED BY <1>1, VerificationInvariance, PTL

\* The replay protection of VerifyTOTP: no code is accepted twice within its validity,
\* by any number of requests, even where two steps share their digits.
THEOREM CodeNotReplayedHolds == TotpSpec => []CodeNotReplayed
<1>1. TotpIInv => CodeNotReplayed
  BY DEF TotpIInv
<1> QED BY <1>1, VerificationInvariance, PTL

\* last_totp_step never runs ahead of the clock by more than the drift.
THEOREM StepsLeftHolds == TotpSpec => []StepsLeft
<1>1. TotpIInv => StepsLeft
  BY DEF TotpIInv
<1> QED BY <1>1, VerificationInvariance, PTL

\* ThrottledVerify counts before it verifies and logs after: the window sees at most one
\* failure more than the threshold allows for every verification in flight beyond one.
THEOREM FailureBudgetHolds == TotpSpec => []FailureBudget
<1>1. TotpIInv => FailureBudget
  <2> SUFFICES ASSUME TotpIInv PROVE FailureBudget
    OBVIOUS
  <2>1. IsFiniteSet(log) /\ IsFiniteSet(PastThrottle)
    BY FS_Subset DEF TotpIInv, BudgetInv, PastThrottle
  <2>2. Cardinality(log) \in Nat /\ Cardinality(PastThrottle) \in Nat
    BY <2>1, FS_CardinalityType
  <2> QED BY <2>2, TotpAssumption DEF TotpIInv, BudgetInv, FailureBudget
<1> QED BY <1>1, VerificationInvariance, PTL

=============================================================================
