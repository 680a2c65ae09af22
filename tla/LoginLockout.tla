----------------------------- MODULE LoginLockout -----------------------------
(***************************************************************************)
(* Progressive lockout: what Login and SuperadminLogin do to the failure   *)
(* counters of one serve process (lockout.Service over attempts.Counter).  *)
(*                                                                         *)
(* Every call of the counter holds its mutex, and every call is a step of  *)
(* its own: between the calls of one login, other logins make theirs.      *)
(***************************************************************************)
EXTENDS Integers, FiniteSets

CONSTANTS
    Attempts,      \* login requests, each made once
    Emails,        \* submitted addresses
    Accounts,      \* those that belong to an account
    IPs,
    Threshold,     \* lockout.Threshold
    Window,        \* lockout.Window, in ticks
    CaptchaAfter,  \* captchaAfterFailures
    LookupFails,   \* whether the lookup of the account may fail
    MaxInFlight,   \* bound on the requests in flight at once
    MaxTime        \* bound on the clock

ASSUME LockoutAssumption ==
    /\ Accounts \subseteq Emails /\ Emails # {} /\ IPs # {}
    /\ {Threshold, Window, CaptchaAfter, MaxInFlight} \subseteq Nat \ {0}
    /\ CaptchaAfter <= Threshold
    /\ LookupFails \in BOOLEAN
    /\ MaxTime \in Nat

VARIABLES
    now,         \* the clock
    emailLog,    \* auth:fail:email, by email: the failures, who and when
    ipLog,       \* auth:fail:ip, by IP
    emailCycle,  \* auth:lockcycle of the email's key
    ipCycle,     \* auth:lockcycle of the IP's key
    alertLog,    \* auth:lockout-alert, by email
    attempt,     \* the state of every request
    alerted      \* history: times at which an alert was dispatched, by email

logs == <<emailLog, ipLog, emailCycle, ipCycle, alertLog>>
vars == <<now, emailLog, ipLog, emailCycle, ipCycle, alertLog, attempt, alerted>>

-----------------------------------------------------------------------------
EscalationDecay == 4 * Window

Entries == Attempts \X (0..MaxTime)

Checking == {"lockEmail", "lockIp", "gateEmail", "gateIp", "captcha"}
Stages == {"ready", "done", "verify", "failEmail", "failIp"} \cup Checking

\* `exists` is RecordFailure's accountExists, `count` what Fail returned for the email,
\* `ungated` whether a login got to its credentials without a captcha (a history field).
Attempt == [stage: Stages, endpoint: {"login", "superadmin"}, email: Emails, ip: IPs,
            exists: BOOLEAN, count: Nat, ungated: BOOLEAN]

Ready == [stage |-> "ready", endpoint |-> "login", email |-> CHOOSE e \in Emails : TRUE,
          ip |-> CHOOSE i \in IPs : TRUE, exists |-> FALSE, count |-> 0, ungated |-> FALSE]

InFlight == {a \in Attempts : attempt[a].stage \notin {"ready", "done"}}

Done(a) == [Ready EXCEPT !.stage = "done", !.ungated = attempt[a].ungated]

TypeOK ==
    /\ now \in 0..MaxTime
    /\ emailLog \in [Emails -> SUBSET Entries] /\ ipLog \in [IPs -> SUBSET Entries]
    /\ emailCycle \in [Emails -> SUBSET Entries] /\ ipCycle \in [IPs -> SUBSET Entries]
    /\ alertLog \in [Emails -> SUBSET Entries]
    /\ attempt \in [Attempts -> Attempt]
    /\ alerted \in [Emails -> SUBSET (0..MaxTime)]

Init ==
    /\ now = 0
    /\ emailLog = [e \in Emails |-> {}] /\ ipLog = [i \in IPs |-> {}]
    /\ emailCycle = [e \in Emails |-> {}] /\ ipCycle = [i \in IPs |-> {}]
    /\ alertLog = [e \in Emails |-> {}]
    /\ attempt = [a \in Attempts |-> Ready]
    /\ alerted = [e \in Emails |-> {}]

-----------------------------------------------------------------------------
(* attempts.Counter.  A failure is in its log while it is younger than the window:  *)
(* the code prunes when it reads, the model when the clock moves.                   *)

\* Mutant: a failure is logged with the end of its window.
FailUntil(log, a) == log \cup {<<a, now + Window>>}

Fail(log, a) == log \cup {<<a, now>>}
Count(log) == Cardinality(log)
Prune(log, window, t) == {x \in log : x[2] > t - window}

Locked(log) == Count(log) >= Threshold

Goto(a, s) == attempt' = [attempt EXCEPT ![a].stage = s]

-----------------------------------------------------------------------------
Begin(a, endpoint, e, i) ==
    /\ attempt[a].stage = "ready"
    /\ Cardinality(InFlight) < MaxInFlight
    /\ attempt' = [attempt EXCEPT ![a] = [Ready EXCEPT !.stage = "lockEmail",
                       !.endpoint = endpoint, !.email = e, !.ip = i]]
    /\ UNCHANGED <<now, logs, alerted>>

\* IsLocked, which asks the email's counter and then the IP's.
CheckEmailLock(a) ==
    /\ attempt[a].stage = "lockEmail"
    /\ ~Locked(emailLog[attempt[a].email])
    /\ Goto(a, "lockIp")
    /\ UNCHANGED <<now, logs, alerted>>

\* Mutant: the IP's counter is not asked.
CheckIpLockNever(a) ==
    /\ attempt[a].stage = "lockIp"
    /\ Goto(a, IF attempt[a].endpoint = "login" THEN "gateEmail" ELSE "verify")
    /\ UNCHANGED <<now, logs, alerted>>

CheckIpLock(a) ==
    /\ attempt[a].stage = "lockIp"
    /\ ~Locked(ipLog[attempt[a].ip])
    /\ Goto(a, IF attempt[a].endpoint = "login" THEN "gateEmail" ELSE "verify")
    /\ UNCHANGED <<now, logs, alerted>>

\* FailureCount against captchaAfterFailures, only on Login.
GateEmail(a) ==
    /\ attempt[a].stage = "gateEmail"
    /\ Goto(a, IF Count(emailLog[attempt[a].email]) >= CaptchaAfter
               THEN "captcha" ELSE "gateIp")
    /\ UNCHANGED <<now, logs, alerted>>

\* Mutant: the captcha is asked for one failure late.
GateIpLate(a) ==
    /\ attempt[a].stage = "gateIp"
    /\ attempt' = IF Count(ipLog[attempt[a].ip]) > CaptchaAfter
                  THEN [attempt EXCEPT ![a].stage = "captcha"]
                  ELSE [attempt EXCEPT ![a].stage = "verify", ![a].ungated = TRUE]
    /\ UNCHANGED <<now, logs, alerted>>

GateIp(a) ==
    /\ attempt[a].stage = "gateIp"
    /\ attempt' = IF Count(ipLog[attempt[a].ip]) >= CaptchaAfter
                  THEN [attempt EXCEPT ![a].stage = "captcha"]
                  ELSE [attempt EXCEPT ![a].stage = "verify", ![a].ungated = TRUE]
    /\ UNCHANGED <<now, logs, alerted>>

CaptchaSolved(a) ==
    /\ attempt[a].stage = "captcha"
    /\ Goto(a, "verify")
    /\ UNCHANGED <<now, logs, alerted>>

\* Unknown address, wrong password, or the wrong endpoint for the account.  The
\* superadmin endpoint takes an error of the lookup for an unknown address.
CredentialsWrong(a, exists) ==
    /\ attempt[a].stage = "verify"
    /\ \/ exists = (attempt[a].email \in Accounts)
       \/ LookupFails /\ ~exists /\ attempt[a].endpoint = "superadmin"
    /\ attempt' = [attempt EXCEPT ![a].stage = "failEmail", ![a].exists = exists]
    /\ UNCHANGED <<now, logs, alerted>>

\* RecordSuccess, after the second factor.
RecordSuccess(a) ==
    /\ attempt[a].stage = "verify"
    /\ attempt[a].email \in Accounts
    /\ emailLog' = [emailLog EXCEPT ![attempt[a].email] = {}]
    /\ attempt' = [attempt EXCEPT ![a] = Done(a)]
    /\ UNCHANGED <<now, ipLog, emailCycle, ipCycle, alertLog, alerted>>

\* RecordFailure: the failure of the email, ...
FailEmail(a) ==
    LET e == attempt[a].email
        log == Fail(emailLog[e], a)
    IN
    /\ attempt[a].stage = "failEmail"
    /\ emailLog' = [emailLog EXCEPT ![e] = log]
    /\ attempt' = [attempt EXCEPT ![a].stage = "failIp", ![a].count = Cardinality(log)]
    /\ UNCHANGED <<now, ipLog, emailCycle, ipCycle, alertLog, alerted>>

\* Mutant: every failure while locked sends an alert.
AlertsAlways(e, log) == TRUE

\* maybeAlert sends when its own failure is the only one in the window.
Alerts(e, log) == Cardinality(log) = 1

\* ... and that of the IP, the cycles of the keys that reach the threshold with this
\* failure, and the alert: nothing else in the code reads these keys.  The duration
\* that escalate derives from a cycle is returned to callers that ignore it.
FailIp(a) ==
    LET e == attempt[a].email
        i == attempt[a].ip
        log == Fail(ipLog[i], a)
        emailLocks == attempt[a].count = Threshold
        ipLocks == Cardinality(log) = Threshold
        locked == attempt[a].count >= Threshold \/ Cardinality(log) >= Threshold
        alert == Fail(alertLog[e], a)
    IN
    /\ attempt[a].stage = "failIp"
    /\ ipLog' = [ipLog EXCEPT ![i] = log]
    /\ emailCycle' = IF emailLocks
                     THEN [emailCycle EXCEPT ![e] = Fail(@, a)]
                     ELSE emailCycle
    /\ ipCycle' = IF ipLocks
                  THEN [ipCycle EXCEPT ![i] = Fail(@, a)]
                  ELSE ipCycle
    /\ IF locked /\ attempt[a].exists
       THEN /\ alertLog' = [alertLog EXCEPT ![e] = alert]
            /\ alerted' = IF Alerts(e, alert)
                          THEN [alerted EXCEPT ![e] = @ \cup {now}]
                          ELSE alerted
       ELSE UNCHANGED <<alertLog, alerted>>
    /\ attempt' = [attempt EXCEPT ![a] = Done(a)]
    /\ UNCHANGED <<now, emailLog>>

\* The request ends without a call of the counter: locked, no valid captcha, second
\* factor refused, or an error.
Refuse(a) ==
    /\ attempt[a].stage \in Checking \cup {"verify"}
    /\ attempt' = [attempt EXCEPT ![a] = Done(a)]
    /\ UNCHANGED <<now, logs, alerted>>

\* The process stops and starts with empty counters.
Restart ==
    /\ emailLog' = [e \in Emails |-> {}] /\ ipLog' = [i \in IPs |-> {}]
    /\ emailCycle' = [e \in Emails |-> {}] /\ ipCycle' = [i \in IPs |-> {}]
    /\ alertLog' = [e \in Emails |-> {}]
    /\ attempt' = [a \in Attempts |-> IF a \in InFlight THEN Done(a) ELSE attempt[a]]
    /\ alerted' = [e \in Emails |-> {}]
    /\ UNCHANGED now

Tick ==
    /\ now < MaxTime
    /\ now' = now + 1
    /\ emailLog' = [e \in Emails |-> Prune(emailLog[e], Window, now')]
    /\ ipLog' = [i \in IPs |-> Prune(ipLog[i], Window, now')]
    /\ emailCycle' = [e \in Emails |-> Prune(emailCycle[e], EscalationDecay, now')]
    /\ ipCycle' = [i \in IPs |-> Prune(ipCycle[i], EscalationDecay, now')]
    /\ alertLog' = [e \in Emails |-> Prune(alertLog[e], Window, now')]
    /\ UNCHANGED <<attempt, alerted>>

-----------------------------------------------------------------------------
Next ==
    \/ \E a \in Attempts :
        \/ \E endpoint \in {"login", "superadmin"}, e \in Emails, i \in IPs :
            Begin(a, endpoint, e, i)
        \/ CheckEmailLock(a) \/ CheckIpLock(a) \/ GateEmail(a) \/ GateIp(a)
        \/ CaptchaSolved(a) \/ (\E exists \in BOOLEAN : CredentialsWrong(a, exists)) \/ RecordSuccess(a)
        \/ FailEmail(a) \/ FailIp(a) \/ Refuse(a)
    \/ Restart \/ Tick

Spec == Init /\ [][Next]_vars

-----------------------------------------------------------------------------
\* What the check of the lock and the failure it guards allow, being two steps: a
\* window sees at most one failure short of the threshold, and one more for every
\* request that can be past the check at once.  True of the email and of the IP.
FailureBudget ==
    /\ \A e \in Emails : Count(emailLog[e]) < Threshold + MaxInFlight
    /\ \A i \in IPs : Count(ipLog[i]) < Threshold + MaxInFlight

\* The same of the captcha gate and of the logins that got past it without a captcha.
Ungated(log) == {x \in log : attempt[x[1]].ungated}
UngatedBudget ==
    /\ \A e \in Emails : Count(Ungated(emailLog[e])) < CaptchaAfter + MaxInFlight
    /\ \A i \in IPs : Count(Ungated(ipLog[i])) < CaptchaAfter + MaxInFlight

\* A real account gets one alert per window at most, however many requests find it
\* locked.
AlertsApart ==
    \A e \in Emails : \A s, t \in alerted[e] : s = t \/ s >= t + Window \/ t >= s + Window

\* Documented, and not kept (README, known divergences): the owner of a locked account
\* has been alerted.
LockIsAlerted ==
    \A e \in Accounts :
        Locked(emailLog[e]) /\ (\A a \in InFlight : attempt[a].stage # "failIp") =>
            \E t \in alerted[e] : t > now - Window

=============================================================================
