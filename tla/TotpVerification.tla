--------------------------- MODULE TotpVerification ---------------------------
(***************************************************************************)
(* Verification of TOTP codes against one user's active factor, as the     *)
(* logins and POST /v1/me/mfa/verify do it: the throttle of the process,   *)
(* the match within the drift window and the conditional update that       *)
(* spends the step.  Time is counted in steps of 30 seconds.               *)
(*                                                                         *)
(* A code is the set of the steps at which the secret yields it: digits    *)
(* can repeat at another step, and a wrong code is the empty set.          *)
(*                                                                         *)
(* The theorems about the second factor extend this module and that of the *)
(* enrollment: the names both would have begin here with Totp.             *)
(***************************************************************************)
EXTENDS Integers, FiniteSets

CONSTANTS
    Attempts,     \* verifications, each made once
    Codes,
    Threshold,    \* mfa.ThrottleThreshold
    Window,       \* mfa.ThrottleWindow, in steps
    MaxInFlight,  \* bound on the verifications in flight at once
    MaxStep       \* bound on the clock

ASSUME TotpAssumption ==
    /\ Codes \subseteq SUBSET Nat
    /\ \A c, d \in Codes : c # d => c \cap d = {}
    /\ {Threshold, Window, MaxInFlight} \subseteq Nat \ {0}
    /\ MaxStep \in Nat

VARIABLES
    currentStep, \* the step of the clock
    enabled,     \* user_mfa.enabled_at is set
    lastStep,    \* user_mfa.last_totp_step, or Never
    log,         \* auth:fail:totp of the user: the failures in the window
    attempt,     \* the state of every verification
    accepted     \* history: the codes accepted, for which step and when they were matched

totpVars == <<currentStep, enabled, lastStep, log, attempt, accepted>>

-----------------------------------------------------------------------------
Never == -1

TotpStages == {"ready", "throttle", "match", "update", "fail", "reset", "done"}
Attempt == [stage: TotpStages, code: Codes \cup {{}}, at: 0..MaxStep, step: Nat]
Acceptance == [attempt: Attempts, code: Codes \cup {{}}, at: 0..MaxStep, step: Nat]

InStage(s) == [stage |-> s, code |-> {}, at |-> 0, step |-> 0]
InFlight == {a \in Attempts : attempt[a].stage \notin {"ready", "done"}}

TotpTypeOK ==
    /\ currentStep \in 0..MaxStep
    /\ enabled \in BOOLEAN
    /\ lastStep \in Nat \cup {Never}
    /\ log \subseteq Attempts \X (0..MaxStep)
    /\ attempt \in [Attempts -> Attempt]
    /\ accepted \subseteq Acceptance

TotpInit ==
    /\ currentStep = 0 /\ enabled = FALSE /\ lastStep = Never
    /\ log = {} /\ accepted = {}
    /\ attempt = [a \in Attempts |-> InStage("ready")]

-----------------------------------------------------------------------------
\* The steps a code may be of, one step of drift either way.
Drift(t) == {t - 1, t, t + 1}

\* Mutant: the first step that matches is recorded.
MatchFirst(code, t, s) == s \in code \cap Drift(t) /\ \A u \in code \cap Drift(t) : s <= u

\* MatchStep: the highest step that matches.
MatchStep(code, t, s) == s \in code \cap Drift(t) /\ \A u \in code \cap Drift(t) : u <= s

\* ConfirmEnrollment: the enrollment is confirmed by a code, and no step is spent.
Confirm(code) ==
    /\ ~enabled
    /\ \E s \in code : MatchStep(code, currentStep, s)
    /\ enabled' = TRUE
    /\ UNCHANGED <<currentStep, lastStep, log, attempt, accepted>>

\* A login past its password, or /v1/me/mfa/verify, has read an active factor.
Begin(a, code) ==
    /\ attempt[a].stage = "ready"
    /\ enabled
    /\ Cardinality(InFlight) < MaxInFlight
    /\ attempt' = [attempt EXCEPT ![a] = [InStage("throttle") EXCEPT !.code = code]]
    /\ UNCHANGED <<currentStep, enabled, lastStep, log, accepted>>

\* Mutant: the throttle is not asked.
AdmitAlways(a) ==
    /\ attempt[a].stage = "throttle"
    /\ attempt' = [attempt EXCEPT ![a].stage = "match"]
    /\ UNCHANGED <<currentStep, enabled, lastStep, log, accepted>>

\* ThrottledVerify counts the failures in the window.
Admit(a) ==
    /\ attempt[a].stage = "throttle"
    /\ Cardinality(log) < Threshold
    /\ attempt' = [attempt EXCEPT ![a].stage = "match"]
    /\ UNCHANGED <<currentStep, enabled, lastStep, log, accepted>>

Match(a) ==
    /\ attempt[a].stage = "match"
    /\ \/ \E s \in attempt[a].code :
            /\ MatchStep(attempt[a].code, currentStep, s)
            /\ attempt' = [attempt EXCEPT ![a] =
                              [stage |-> "update", code |-> @.code, at |-> currentStep, step |-> s]]
       \/ /\ attempt[a].code \cap Drift(currentStep) = {}
          /\ attempt' = [attempt EXCEPT ![a] = InStage("fail")]
    /\ UNCHANGED <<currentStep, enabled, lastStep, log, accepted>>

\* Mutant: a step that is not behind the last one passes.
FreshOrLast(s) == lastStep <= s

\* The WHERE clause of UpdateUserMFALastTOTPStep; NULL is Never.
Fresh(s) == lastStep < s

\* The conditional update: the row's step is compared and advanced in one statement.
SpendStep(a) ==
    LET s == attempt[a].step IN
    /\ attempt[a].stage = "update"
    /\ IF Fresh(s)
       THEN /\ lastStep' = s
            /\ accepted' = accepted \cup {[attempt |-> a, code |-> attempt[a].code,
                                           at |-> attempt[a].at, step |-> s]}
            /\ attempt' = [attempt EXCEPT ![a] = InStage("reset")]
       ELSE /\ attempt' = [attempt EXCEPT ![a] = InStage("fail")]
            /\ UNCHANGED <<lastStep, accepted>>
    /\ UNCHANGED <<currentStep, enabled, log>>

\* Mutant: a failure is logged with the end of its window.
RecordFailureUntil(a) ==
    /\ attempt[a].stage = "fail"
    /\ log' = log \cup {<<a, currentStep + Window>>}
    /\ attempt' = [attempt EXCEPT ![a] = InStage("done")]
    /\ UNCHANGED <<currentStep, enabled, lastStep, accepted>>

\* An invalid code and a replayed one count alike.
RecordFailure(a) ==
    /\ attempt[a].stage = "fail"
    /\ log' = log \cup {<<a, currentStep>>}
    /\ attempt' = [attempt EXCEPT ![a] = InStage("done")]
    /\ UNCHANGED <<currentStep, enabled, lastStep, accepted>>

ResetFailures(a) ==
    /\ attempt[a].stage = "reset"
    /\ log' = {}
    /\ attempt' = [attempt EXCEPT ![a] = InStage("done")]
    /\ UNCHANGED <<currentStep, enabled, lastStep, accepted>>

\* Throttled, a secret that does not decrypt, or an error of the database (before the
\* step is spent or after: the answer to the update may be lost).
Refuse(a) ==
    /\ attempt[a].stage \in {"throttle", "match", "update", "reset"}
    /\ attempt' = [attempt EXCEPT ![a] = InStage("done")]
    /\ UNCHANGED <<currentStep, enabled, lastStep, log, accepted>>

\* The process stops and starts with an empty counter.
Restart ==
    /\ log' = {}
    /\ attempt' = [a \in Attempts |-> IF a \in InFlight THEN InStage("done") ELSE attempt[a]]
    /\ UNCHANGED <<currentStep, enabled, lastStep, accepted>>

\* The code prunes the log when it reads it, the model when the clock moves.
NextStep ==
    /\ currentStep < MaxStep
    /\ currentStep' = currentStep + 1
    /\ log' = {x \in log : x[2] > currentStep' - Window}
    /\ UNCHANGED <<enabled, lastStep, attempt, accepted>>

-----------------------------------------------------------------------------
TotpNext ==
    \/ \E c \in Codes : Confirm(c)
    \/ \E a \in Attempts :
        \/ \E c \in Codes : Begin(a, c)
        \/ Admit(a) \/ Match(a) \/ SpendStep(a) \/ RecordFailure(a) \/ ResetFailures(a)
        \/ Refuse(a)
    \/ Restart \/ NextStep

TotpSpec == TotpInit /\ [][TotpNext]_totpVars

-----------------------------------------------------------------------------
\* No code is accepted twice within its validity, by however many requests at once and
\* across steps that share their digits: a second acceptance is for a step that was
\* out of reach when the first one was matched.
CodeNotReplayed ==
    \A x, y \in accepted :
        x # y =>
            /\ x.step # y.step
            /\ x.code = y.code /\ x.step < y.step => y.step \notin Drift(x.at)

\* A window sees at most one failure short of the threshold, and one more for every
\* verification that can be past the throttle at once.
FailureBudget == Cardinality(log) < Threshold + MaxInFlight

\* Spent steps never run ahead of the clock by more than the drift: the codes that the
\* user's authenticator shows from then on are still to be accepted.
StepsLeft == lastStep <= currentStep + 1

\* What makes CodeNotReplayed and StepsLeft inductive.
StepInv ==
    /\ \A x \in accepted : MatchStep(x.code, x.at, x.step) /\ x.step <= lastStep
    /\ \A a \in Attempts : attempt[a].stage = "update" =>
          attempt[a].at <= currentStep /\ MatchStep(attempt[a].code, attempt[a].at, attempt[a].step)

\* What makes FailureBudget inductive: a verification past the throttle may still fail.
PastThrottle == {a \in InFlight : attempt[a].stage # "throttle"}

BudgetInv ==
    /\ IsFiniteSet(InFlight) /\ IsFiniteSet(log)
    /\ Cardinality(InFlight) <= MaxInFlight
    /\ Cardinality(log) + Cardinality(PastThrottle) < Threshold + MaxInFlight

TotpIInv == TotpTypeOK /\ StepInv /\ CodeNotReplayed /\ StepsLeft /\ BudgetInv

=============================================================================
