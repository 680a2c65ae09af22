--------------------------- MODULE LoginLockoutProofs ---------------------------
(***************************************************************************)
(* The budgets of the lock and of the captcha gate, and the distance of     *)
(* alerts, for any number of logins, addresses and limits.                  *)
(*                                                                          *)
(* The four budgets have one shape: what a log holds and the requests that  *)
(* are past the check of that log, each counted as the failure it may       *)
(* become, stay below the limit and one more for every request in flight.   *)
(***************************************************************************)
EXTENDS LoginLockout, FiniteSetTheorems, TLAPS

PastEmail(e) ==
    {a \in Attempts : /\ attempt[a].email = e
                      /\ attempt[a].stage \in {"lockIp", "gateEmail", "gateIp", "captcha",
                                               "verify", "failEmail"}}
PastIp(i) ==
    {a \in Attempts : /\ attempt[a].ip = i
                      /\ attempt[a].stage \in {"gateEmail", "gateIp", "captcha", "verify",
                                               "failEmail", "failIp"}}

\* Logins the captcha gate has let through, or whose email it has found free of failures.
FreeEmail(e) ==
    {a \in Attempts : /\ attempt[a].email = e
                      /\ \/ attempt[a].stage = "gateIp"
                         \/ attempt[a].ungated /\ attempt[a].stage \in {"verify", "failEmail"}}
FreeIp(i) ==
    {a \in Attempts : /\ attempt[a].ip = i
                      /\ attempt[a].ungated
                      /\ attempt[a].stage \in {"verify", "failEmail", "failIp"}}

Within(log, past, limit) ==
    IsFiniteSet(log) /\ Cardinality(log) + Cardinality(past) < limit + MaxInFlight

FlightInv == IsFiniteSet(InFlight) /\ Cardinality(InFlight) <= MaxInFlight

\* A request has no entry in a log before the step that makes it.
EntryInv ==
    /\ \A e \in Emails : \A x \in emailLog[e] : attempt[x[1]].stage \in {"failIp", "done"}
    /\ \A i \in IPs : \A x \in ipLog[i] : attempt[x[1]].stage = "done"
    /\ \A e \in Emails : \A x \in alertLog[e] : attempt[x[1]].stage = "done"
    /\ \A a \in Attempts :
        attempt[a].ungated => attempt[a].stage \in {"verify", "failEmail", "failIp", "done"}

BudgetInv ==
    /\ \A e \in Emails : /\ Within(emailLog[e], PastEmail(e), Threshold)
                         /\ Within(Ungated(emailLog[e]), FreeEmail(e), CaptchaAfter)
    /\ \A i \in IPs : /\ Within(ipLog[i], PastIp(i), Threshold)
                      /\ Within(Ungated(ipLog[i]), FreeIp(i), CaptchaAfter)

\* An alert younger than the window has the entry of its failure in the alert's log.
AlertInv ==
    \A e \in Emails :
        /\ IsFiniteSet(alertLog[e])
        /\ \A t \in alerted[e] :
            t <= now /\ (t > now - Window => \E x \in alertLog[e] : x[2] = t)

IInv == TypeOK /\ FlightInv /\ EntryInv /\ BudgetInv /\ AlertInv /\ AlertsApart

-----------------------------------------------------------------------------
(* The shape of the budgets *)

LEMMA NothingWithin == ASSUME NEW limit \in Nat \ {0} PROVE Within({}, {}, limit)
BY FS_EmptySet, LockoutAssumption DEF Within

\* Neither the log nor the requests past the check have become more.
LEMMA ShrinkWithin ==
    ASSUME NEW log, NEW past, NEW log2 \in SUBSET log, NEW past2 \in SUBSET past,
           NEW limit \in Nat, IsFiniteSet(past), Within(log, past, limit)
    PROVE  Within(log2, past2, limit)
<1>1. IsFiniteSet(log2) /\ Cardinality(log2) <= Cardinality(log)
  BY FS_Subset DEF Within
<1>2. IsFiniteSet(past2) /\ Cardinality(past2) <= Cardinality(past)
  BY FS_Subset
<1>3. /\ Cardinality(log2) \in Nat /\ Cardinality(log) \in Nat
      /\ Cardinality(past2) \in Nat /\ Cardinality(past) \in Nat
  BY <1>1, <1>2, FS_CardinalityType DEF Within
<1> QED BY <1>1, <1>2, <1>3, LockoutAssumption DEF Within

\* A request passes the check, which has found the log below the limit.
LEMMA AdmitWithin ==
    ASSUME NEW log, IsFiniteSet(log), NEW limit \in Nat, Cardinality(log) < limit,
           NEW flight, NEW past \in SUBSET flight,
           IsFiniteSet(flight), Cardinality(flight) <= MaxInFlight
    PROVE  Within(log, past, limit)
<1>1. IsFiniteSet(past) /\ Cardinality(past) <= Cardinality(flight)
  BY FS_Subset
<1>2. Cardinality(past) \in Nat /\ Cardinality(flight) \in Nat /\ Cardinality(log) \in Nat
  BY <1>1, FS_CardinalityType
<1> QED BY <1>1, <1>2, LockoutAssumption DEF Within

\* A request past the check becomes an entry of the log.
LEMMA FailWithin ==
    ASSUME NEW log, NEW past, NEW a \in past, NEW x, NEW log2 \in SUBSET (log \cup {x}),
           NEW past2 \in SUBSET (past \ {a}),
           NEW limit \in Nat, IsFiniteSet(past), Within(log, past, limit)
    PROVE  Within(log2, past2, limit)
<1>1. IsFiniteSet(log \cup {x}) /\ Cardinality(log \cup {x}) <= Cardinality(log) + 1
  <2>1. IsFiniteSet(log) /\ Cardinality(log) \in Nat
    BY FS_CardinalityType DEF Within
  <2>2. /\ IsFiniteSet(log \cup {x})
        /\ Cardinality(log \cup {x}) = IF x \in log THEN Cardinality(log) ELSE Cardinality(log) + 1
    BY <2>1, FS_AddElement
  <2> HIDE DEF Within
  <2> QED BY <2>1, <2>2
<1>2. IsFiniteSet(past \ {a}) /\ Cardinality(past \ {a}) = Cardinality(past) - 1
  BY FS_RemoveElement
<1>3. IsFiniteSet(log2) /\ Cardinality(log2) <= Cardinality(log \cup {x})
  BY <1>1, FS_Subset
<1>4. IsFiniteSet(past2) /\ Cardinality(past2) <= Cardinality(past \ {a})
  BY <1>2, FS_Subset
<1>5. /\ Cardinality(log2) \in Nat /\ Cardinality(log) \in Nat
      /\ Cardinality(past2) \in Nat /\ Cardinality(past) \in Nat
      /\ Cardinality(log \cup {x}) \in Nat /\ Cardinality(past \ {a}) \in Nat
  BY <1>1, <1>2, <1>3, <1>4, FS_CardinalityType DEF Within
<1> QED BY <1>1, <1>2, <1>3, <1>4, <1>5, LockoutAssumption DEF Within

\* What is within a budget is below the limit and one more for every request.
LEMMA WithinBound ==
    ASSUME NEW log, NEW past, NEW limit \in Nat, IsFiniteSet(past), Within(log, past, limit)
    PROVE  Cardinality(log) < limit + MaxInFlight
<1>1. Cardinality(log) \in Nat /\ Cardinality(past) \in Nat
  BY FS_CardinalityType DEF Within
<1> QED BY <1>1, LockoutAssumption DEF Within

LEMMA PastInFlight ==
    ASSUME FlightInv
    PROVE  /\ \A e \in Emails :
                /\ PastEmail(e) \subseteq InFlight /\ FreeEmail(e) \subseteq InFlight
                /\ IsFiniteSet(PastEmail(e)) /\ IsFiniteSet(FreeEmail(e))
           /\ \A i \in IPs :
                /\ PastIp(i) \subseteq InFlight /\ FreeIp(i) \subseteq InFlight
                /\ IsFiniteSet(PastIp(i)) /\ IsFiniteSet(FreeIp(i))
<1>1. /\ \A e \in Emails : PastEmail(e) \subseteq InFlight /\ FreeEmail(e) \subseteq InFlight
      /\ \A i \in IPs : PastIp(i) \subseteq InFlight /\ FreeIp(i) \subseteq InFlight
  BY DEF PastEmail, FreeEmail, PastIp, FreeIp, InFlight
<1> QED BY <1>1, FS_Subset DEF FlightInv

\* Fewer requests in flight.
LEMMA FlightShrinks ==
    ASSUME FlightInv, InFlight' \subseteq InFlight
    PROVE  FlightInv'
<1>1. IsFiniteSet(InFlight') /\ Cardinality(InFlight') <= Cardinality(InFlight)
  BY FS_Subset DEF FlightInv
<1>2. Cardinality(InFlight') \in Nat /\ Cardinality(InFlight) \in Nat
  BY <1>1, FS_CardinalityType DEF FlightInv
<1> QED BY <1>1, <1>2, LockoutAssumption DEF FlightInv

-----------------------------------------------------------------------------
(* The initial states *)

LEMMA ReadyIsAttempt ==
    /\ Ready \in Attempt /\ Ready.stage = "ready" /\ ~Ready.ungated
    /\ \A a \in Attempts : attempt[a] \in Attempt =>
        Done(a) \in Attempt /\ Done(a).stage = "done" /\ Done(a).ungated = attempt[a].ungated
<1>1. Ready \in Attempt /\ Ready.stage = "ready" /\ ~Ready.ungated
  BY LockoutAssumption DEF Ready, Attempt, Stages, Checking
<1>2. ASSUME NEW a \in Attempts, attempt[a] \in Attempt
      PROVE  Done(a) \in Attempt /\ Done(a).stage = "done" /\ Done(a).ungated = attempt[a].ungated
  <2>1. attempt[a].ungated \in BOOLEAN
    BY <1>2 DEF Attempt
  <2> QED BY <1>1, <2>1 DEF Done, Attempt, Stages
<1> QED BY <1>1, <1>2

LEMMA InitEstablishes == Init => IInv
<1> SUFFICES ASSUME Init PROVE IInv
  OBVIOUS
<1>1. \A a \in Attempts : attempt[a] \in Attempt /\ attempt[a].stage = "ready" /\ ~attempt[a].ungated
  BY ReadyIsAttempt DEF Init
<1>2. TypeOK
  <2>1. now \in 0..MaxTime /\ attempt \in [Attempts -> Attempt]
    BY ReadyIsAttempt, LockoutAssumption DEF Init
  <2> QED BY <2>1 DEF Init, TypeOK
<1>3. InFlight = {}
  BY <1>1 DEF InFlight
<1>4. FlightInv
  BY <1>3, FS_EmptySet, LockoutAssumption DEF FlightInv
<1>5. EntryInv
  BY <1>1 DEF Init, EntryInv
<1>6. /\ \A e \in Emails : emailLog[e] = {} /\ Ungated(emailLog[e]) = {}
      /\ \A i \in IPs : ipLog[i] = {} /\ Ungated(ipLog[i]) = {}
  BY DEF Init, Ungated
<1>7. /\ \A e \in Emails : PastEmail(e) = {} /\ FreeEmail(e) = {}
      /\ \A i \in IPs : PastIp(i) = {} /\ FreeIp(i) = {}
  BY <1>3, <1>4, PastInFlight
<1>8. BudgetInv
  BY <1>6, <1>7, NothingWithin, LockoutAssumption DEF BudgetInv
<1>9. AlertInv /\ AlertsApart
  BY FS_EmptySet DEF Init, AlertInv, AlertsApart
<1> QED BY <1>2, <1>4, <1>5, <1>8, <1>9 DEF IInv

-----------------------------------------------------------------------------
(* Steps that touch no log: a request moves on, and is past a check only when the log   *)
(* it asked was below the limit.                                                        *)

LEMMA MoveKeeps ==
    ASSUME IInv, NEW a \in Attempts, NEW r \in Attempt,
           attempt' = [attempt EXCEPT ![a] = r], UNCHANGED <<now, logs, alerted>>,
           FlightInv', attempt[a].stage \notin {"failIp", "done"}, r.stage # "failIp",
           r.ungated => r.stage \in {"verify", "failEmail", "done"},
           \A e \in Emails :
            /\ a \in PastEmail(e)' => a \in PastEmail(e) \/ Count(emailLog[e]) < Threshold
            /\ a \in FreeEmail(e)' => a \in FreeEmail(e) \/ Count(emailLog[e]) < CaptchaAfter,
           \A i \in IPs :
            /\ a \in PastIp(i)' => a \in PastIp(i) \/ Count(ipLog[i]) < Threshold
            /\ a \in FreeIp(i)' => a \in FreeIp(i) \/ Count(ipLog[i]) < CaptchaAfter
    PROVE  IInv'
<1>1. UNCHANGED <<now, emailLog, ipLog, emailCycle, ipCycle, alertLog, alerted>>
  BY DEF logs
<1>2. \A b \in Attempts : attempt'[b] = IF b = a THEN r ELSE attempt[b]
  BY DEF IInv, TypeOK
<1>3. TypeOK'
  BY <1>1 DEF IInv, TypeOK
<1>4. EntryInv'
  <2>1. /\ \A e \in Emails : \A x \in emailLog[e] : x[1] \in Attempts /\ x[1] # a
        /\ \A i \in IPs : \A x \in ipLog[i] : x[1] \in Attempts /\ x[1] # a
        /\ \A e \in Emails : \A x \in alertLog[e] : x[1] \in Attempts /\ x[1] # a
    BY DEF IInv, TypeOK, EntryInv, Entries
  <2> QED BY <1>1, <1>2, <2>1 DEF IInv, EntryInv
<1>5. AlertInv' /\ AlertsApart'
  BY <1>1 DEF IInv, AlertInv, AlertsApart
<1>6. Threshold \in Nat /\ CaptchaAfter \in Nat
  BY LockoutAssumption
<1>7. ASSUME NEW e \in Emails
      PROVE  /\ Within(emailLog[e], PastEmail(e), Threshold)'
             /\ Within(Ungated(emailLog[e]), FreeEmail(e), CaptchaAfter)'
  <2>1. /\ PastEmail(e)' \subseteq PastEmail(e) \cup {a}
        /\ FreeEmail(e)' \subseteq FreeEmail(e) \cup {a}
    BY <1>2 DEF PastEmail, FreeEmail
  <2>2. PastEmail(e)' \subseteq InFlight' /\ FreeEmail(e)' \subseteq InFlight'
    BY <1>2 DEF PastEmail, FreeEmail, InFlight
  <2>3. Ungated(emailLog[e])' = Ungated(emailLog[e]) /\ Ungated(emailLog[e]) \subseteq emailLog[e]
    BY <1>1, <1>2 DEF IInv, TypeOK, Entries, EntryInv, Ungated
  <2>4. /\ Within(emailLog[e], PastEmail(e), Threshold)
        /\ Within(Ungated(emailLog[e]), FreeEmail(e), CaptchaAfter)
        /\ IsFiniteSet(PastEmail(e)) /\ IsFiniteSet(FreeEmail(e)) /\ IsFiniteSet(emailLog[e])
    BY PastInFlight DEF IInv, BudgetInv, Within
  <2>5. Within(emailLog[e], PastEmail(e)', Threshold)
    <3>1. CASE PastEmail(e)' \subseteq PastEmail(e)
      BY <1>6, <2>4, <3>1, ShrinkWithin
    <3>2. CASE Cardinality(emailLog[e]) < Threshold
      BY <1>6, <2>2, <2>4, <3>2, AdmitWithin DEF FlightInv
    <3> QED BY <2>1, <3>1, <3>2 DEF Count
  <2>6. Within(Ungated(emailLog[e]), FreeEmail(e)', CaptchaAfter)
    <3>1. CASE FreeEmail(e)' \subseteq FreeEmail(e)
      BY <1>6, <2>4, <3>1, ShrinkWithin
    <3>2. CASE Cardinality(emailLog[e]) < CaptchaAfter
      <4>1. IsFiniteSet(Ungated(emailLog[e])) /\ Cardinality(Ungated(emailLog[e])) < CaptchaAfter
        BY <1>6, <2>3, <2>4, <3>2, FS_Subset, FS_CardinalityType
      <4> QED BY <1>6, <2>2, <4>1, AdmitWithin DEF FlightInv
    <3> QED BY <2>1, <3>1, <3>2 DEF Count
  <2> QED BY <1>1, <2>3, <2>5, <2>6 DEF Within
<1>8. ASSUME NEW i \in IPs
      PROVE  /\ Within(ipLog[i], PastIp(i), Threshold)'
             /\ Within(Ungated(ipLog[i]), FreeIp(i), CaptchaAfter)'
  <2>1. PastIp(i)' \subseteq PastIp(i) \cup {a} /\ FreeIp(i)' \subseteq FreeIp(i) \cup {a}
    BY <1>2 DEF PastIp, FreeIp
  <2>2. PastIp(i)' \subseteq InFlight' /\ FreeIp(i)' \subseteq InFlight'
    BY <1>2 DEF PastIp, FreeIp, InFlight
  <2>3. Ungated(ipLog[i])' = Ungated(ipLog[i]) /\ Ungated(ipLog[i]) \subseteq ipLog[i]
    BY <1>1, <1>2 DEF IInv, TypeOK, Entries, EntryInv, Ungated
  <2>4. /\ Within(ipLog[i], PastIp(i), Threshold)
        /\ Within(Ungated(ipLog[i]), FreeIp(i), CaptchaAfter)
        /\ IsFiniteSet(PastIp(i)) /\ IsFiniteSet(FreeIp(i)) /\ IsFiniteSet(ipLog[i])
    BY PastInFlight DEF IInv, BudgetInv, Within
  <2>5. Within(ipLog[i], PastIp(i)', Threshold)
    <3>1. CASE PastIp(i)' \subseteq PastIp(i)
      BY <1>6, <2>4, <3>1, ShrinkWithin
    <3>2. CASE Cardinality(ipLog[i]) < Threshold
      BY <1>6, <2>2, <2>4, <3>2, AdmitWithin DEF FlightInv
    <3> QED BY <2>1, <3>1, <3>2 DEF Count
  <2>6. Within(Ungated(ipLog[i]), FreeIp(i)', CaptchaAfter)
    <3>1. CASE FreeIp(i)' \subseteq FreeIp(i)
      BY <1>6, <2>4, <3>1, ShrinkWithin
    <3>2. CASE Cardinality(ipLog[i]) < CaptchaAfter
      <4>1. IsFiniteSet(Ungated(ipLog[i])) /\ Cardinality(Ungated(ipLog[i])) < CaptchaAfter
        BY <1>6, <2>3, <2>4, <3>2, FS_Subset, FS_CardinalityType
      <4> QED BY <1>6, <2>2, <4>1, AdmitWithin DEF FlightInv
    <3> QED BY <2>1, <3>1, <3>2 DEF Count
  <2> QED BY <1>1, <2>3, <2>5, <2>6 DEF Within
<1>9. BudgetInv'
  BY <1>7, <1>8 DEF BudgetInv
<1> QED BY <1>3, <1>4, <1>5, <1>9 DEF IInv

LEMMA BeginKeeps ==
    ASSUME IInv, NEW a \in Attempts, NEW endpoint \in {"login", "superadmin"},
           NEW e \in Emails, NEW i \in IPs, Begin(a, endpoint, e, i)
    PROVE  IInv'
<1> DEFINE r == [Ready EXCEPT !.stage = "lockEmail", !.endpoint = endpoint, !.email = e, !.ip = i]
<1>1. r \in Attempt /\ r.stage = "lockEmail" /\ ~r.ungated
  BY ReadyIsAttempt DEF Attempt, Stages, Checking
<1>2. /\ attempt' = [attempt EXCEPT ![a] = r] /\ attempt[a].stage = "ready"
      /\ UNCHANGED <<now, logs, alerted>> /\ Cardinality(InFlight) < MaxInFlight
  BY DEF Begin
<1> HIDE DEF r
<1>3. \A b \in Attempts : attempt'[b] = IF b = a THEN r ELSE attempt[b]
  BY <1>2 DEF IInv, TypeOK
<1>4. FlightInv'
  <2>1. InFlight' = InFlight \cup {a} /\ a \notin InFlight
    BY <1>1, <1>2, <1>3 DEF InFlight
  <2>2. IsFiniteSet(InFlight') /\ Cardinality(InFlight') = Cardinality(InFlight) + 1
    BY <2>1, FS_AddElement DEF IInv, FlightInv
  <2>3. Cardinality(InFlight) \in Nat
    BY FS_CardinalityType DEF IInv, FlightInv
  <2> QED BY <1>2, <2>2, <2>3, LockoutAssumption DEF FlightInv
<1>5. /\ \A f \in Emails : a \notin PastEmail(f)' /\ a \notin FreeEmail(f)'
      /\ \A j \in IPs : a \notin PastIp(j)' /\ a \notin FreeIp(j)'
  BY <1>1, <1>3 DEF PastEmail, FreeEmail, PastIp, FreeIp
<1> QED BY <1>1, <1>2, <1>4, <1>5, MoveKeeps

\* A request in flight goes on to another stage.
LEMMA GoesOn ==
    ASSUME IInv, NEW a \in Attempts, NEW r \in Attempt,
           attempt' = [attempt EXCEPT ![a] = r], attempt[a].stage \notin {"ready", "done"}
    PROVE  /\ FlightInv'
           /\ \A b \in Attempts : attempt'[b] = IF b = a THEN r ELSE attempt[b]
<1>1. \A b \in Attempts : attempt'[b] = IF b = a THEN r ELSE attempt[b]
  BY DEF IInv, TypeOK
<1>2. InFlight' \subseteq InFlight
  BY <1>1 DEF InFlight
<1> QED BY <1>1, <1>2, FlightShrinks DEF IInv

\* The checks of the lock and of the captcha gate, which move one request each.
LEMMA CheckKeeps ==
    ASSUME IInv, NEW a \in Attempts,
           CheckEmailLock(a) \/ CheckIpLock(a) \/ GateEmail(a) \/ GateIp(a) \/ CaptchaSolved(a)
    PROVE  IInv'
<1>1. attempt[a] \in Attempt
  BY DEF IInv, TypeOK
<1>2. UNCHANGED <<now, logs, alerted>>
  BY DEF CheckEmailLock, CheckIpLock, GateEmail, GateIp, CaptchaSolved
<1>3. attempt[a].email \in Emails /\ attempt[a].ip \in IPs /\ attempt[a].ungated \in BOOLEAN
  BY <1>1 DEF Attempt
<1> DEFINE s(x) == [attempt[a] EXCEPT !.stage = x]
<1>4. \A x \in {"lockIp", "gateEmail", "gateIp", "captcha", "verify"} :
        /\ s(x) \in Attempt /\ s(x).stage = x /\ s(x).email = attempt[a].email
        /\ s(x).ip = attempt[a].ip /\ s(x).ungated = attempt[a].ungated
  BY <1>1 DEF Attempt, Stages, Checking
<1> HIDE DEF s
<1>5. CASE CheckEmailLock(a)
  <2>1. /\ attempt' = [attempt EXCEPT ![a] = s("lockIp")] /\ attempt[a].stage = "lockEmail"
        /\ ~(Count(emailLog[attempt[a].email]) >= Threshold)
    BY <1>5 DEF CheckEmailLock, Goto, Locked, s
  <2>2. FlightInv' /\ attempt'[a] = s("lockIp")
    BY <1>4, <2>1, GoesOn
  <2>3. Count(emailLog[attempt[a].email]) < Threshold
    BY <1>3, <2>1, FS_CardinalityType, LockoutAssumption DEF IInv, BudgetInv, Within, Count
  <2>4. attempt[a].ungated = FALSE
    BY <1>3, <2>1 DEF IInv, EntryInv
  <2>5. \A e \in Emails : /\ a \in PastEmail(e)' => e = attempt[a].email
                          /\ a \notin FreeEmail(e)'
    BY <1>4, <2>2 DEF PastEmail, FreeEmail
  <2>6. \A i \in IPs : a \notin PastIp(i)' /\ a \notin FreeIp(i)'
    BY <1>4, <2>2 DEF PastIp, FreeIp
  <2> QED BY <1>2, <1>4, <2>1, <2>2, <2>3, <2>4, <2>5, <2>6, MoveKeeps
<1>6. CASE CheckIpLock(a)
  <2>1. PICK x \in {"gateEmail", "verify"} : attempt' = [attempt EXCEPT ![a] = s(x)]
    BY <1>6 DEF CheckIpLock, Goto, s
  <2>2. attempt[a].stage = "lockIp" /\ ~(Count(ipLog[attempt[a].ip]) >= Threshold)
    BY <1>6 DEF CheckIpLock, Locked
  <2>3. FlightInv' /\ attempt'[a] = s(x)
    <3>1. s(x) \in Attempt
      BY <1>4
    <3> QED BY <2>1, <2>2, <3>1, GoesOn
  <2>4. Count(ipLog[attempt[a].ip]) < Threshold
    BY <1>3, <2>2, FS_CardinalityType, LockoutAssumption DEF IInv, BudgetInv, Within, Count
  <2>5. attempt[a].ungated = FALSE
    BY <1>3, <2>2 DEF IInv, EntryInv
  <2>6. \A e \in Emails : /\ a \in PastEmail(e)' => a \in PastEmail(e)
                          /\ a \notin FreeEmail(e)'
    BY <1>4, <2>2, <2>3, <2>5 DEF PastEmail, FreeEmail
  <2>7. \A i \in IPs : /\ a \in PastIp(i)' => i = attempt[a].ip
                       /\ a \notin FreeIp(i)'
    BY <1>4, <2>3, <2>5 DEF PastIp, FreeIp
  <2> QED BY <1>2, <1>4, <2>1, <2>2, <2>3, <2>4, <2>5, <2>6, <2>7, MoveKeeps
<1>7. CASE GateEmail(a)
  <2>1. attempt[a].stage = "gateEmail"
    BY <1>7 DEF GateEmail
  <2>2. attempt[a].ungated = FALSE
    BY <1>3, <2>1 DEF IInv, EntryInv
  <2>3. PICK x \in {"captcha", "gateIp"} :
          /\ attempt' = [attempt EXCEPT ![a] = s(x)]
          /\ x = "gateIp" => ~(Count(emailLog[attempt[a].email]) >= CaptchaAfter)
    BY <1>7 DEF GateEmail, Goto, s
  <2>4. FlightInv' /\ attempt'[a] = s(x)
    <3>1. s(x) \in Attempt
      BY <1>4
    <3> QED BY <2>1, <2>3, <3>1, GoesOn
  <2>5. x = "gateIp" => Count(emailLog[attempt[a].email]) < CaptchaAfter
    BY <1>3, <2>3, FS_CardinalityType, LockoutAssumption DEF IInv, BudgetInv, Within, Count
  <2>6. \A e \in Emails : /\ a \in PastEmail(e)' => a \in PastEmail(e)
                          /\ a \in FreeEmail(e)' => e = attempt[a].email /\ x = "gateIp"
    BY <1>4, <2>1, <2>2, <2>4 DEF PastEmail, FreeEmail
  <2>7. \A i \in IPs : /\ a \in PastIp(i)' => a \in PastIp(i)
                       /\ a \notin FreeIp(i)'
    BY <1>4, <2>1, <2>2, <2>4 DEF PastIp, FreeIp
  <2> QED BY <1>2, <1>4, <2>1, <2>2, <2>3, <2>4, <2>5, <2>6, <2>7, MoveKeeps
<1>8. CASE GateIp(a)
  <2>1. attempt[a].stage = "gateIp" /\ attempt[a].ungated = FALSE
    BY <1>3, <1>8 DEF GateIp, IInv, EntryInv
  <2> DEFINE r == [attempt[a] EXCEPT !.stage = "verify", !.ungated = TRUE]
  <2>2. /\ r \in Attempt /\ r.stage = "verify" /\ r.ungated
        /\ r.email = attempt[a].email /\ r.ip = attempt[a].ip
    BY <1>1 DEF Attempt, Stages, Checking
  <2> HIDE DEF r
  <2>3. CASE attempt' = [attempt EXCEPT ![a] = s("captcha")]
    <3>1. FlightInv' /\ attempt'[a] = s("captcha")
      BY <1>4, <2>1, <2>3, GoesOn
    <3>2. \A e \in Emails : /\ a \in PastEmail(e)' => a \in PastEmail(e)
                            /\ a \notin FreeEmail(e)'
      BY <1>4, <2>1, <3>1 DEF PastEmail, FreeEmail
    <3>3. \A i \in IPs : /\ a \in PastIp(i)' => a \in PastIp(i)
                         /\ a \notin FreeIp(i)'
      BY <1>4, <2>1, <3>1 DEF PastIp, FreeIp
    <3> QED BY <1>2, <1>4, <2>1, <2>3, <3>1, <3>2, <3>3, MoveKeeps
  <2>4. CASE /\ attempt' = [attempt EXCEPT ![a] = r]
             /\ ~(Count(ipLog[attempt[a].ip]) >= CaptchaAfter)
    <3>1. FlightInv' /\ attempt'[a] = r
      BY <2>1, <2>2, <2>4, GoesOn
    <3>2. Count(ipLog[attempt[a].ip]) < CaptchaAfter
      BY <1>3, <2>4, FS_CardinalityType, LockoutAssumption DEF IInv, BudgetInv, Within, Count
    <3>3. \A e \in Emails : /\ a \in PastEmail(e)' => a \in PastEmail(e)
                            /\ a \in FreeEmail(e)' => a \in FreeEmail(e)
      BY <2>1, <2>2, <3>1 DEF PastEmail, FreeEmail
    <3>4. \A i \in IPs : /\ a \in PastIp(i)' => a \in PastIp(i)
                         /\ a \in FreeIp(i)' => i = attempt[a].ip
      BY <2>1, <2>2, <3>1 DEF PastIp, FreeIp
    <3> QED BY <1>2, <2>1, <2>2, <2>4, <3>1, <3>2, <3>3, <3>4, MoveKeeps
  <2> QED BY <1>8, <2>3, <2>4 DEF GateIp, r, s
<1>9. CASE CaptchaSolved(a)
  <2>1. /\ attempt' = [attempt EXCEPT ![a] = s("verify")] /\ attempt[a].stage = "captcha"
        /\ attempt[a].ungated = FALSE
    BY <1>3, <1>9 DEF CaptchaSolved, Goto, s, IInv, EntryInv
  <2>2. FlightInv' /\ attempt'[a] = s("verify")
    BY <1>4, <2>1, GoesOn
  <2>3. \A e \in Emails : /\ a \in PastEmail(e)' => a \in PastEmail(e)
                          /\ a \notin FreeEmail(e)'
    BY <1>4, <2>1, <2>2 DEF PastEmail, FreeEmail
  <2>4. \A i \in IPs : /\ a \in PastIp(i)' => a \in PastIp(i)
                       /\ a \notin FreeIp(i)'
    BY <1>4, <2>1, <2>2 DEF PastIp, FreeIp
  <2> QED BY <1>2, <1>4, <2>1, <2>2, <2>3, <2>4, MoveKeeps
<1> QED BY <1>5, <1>6, <1>7, <1>8, <1>9

\* Wrong credentials, or the end of a request that is not told to the counters.
LEMMA OutcomeKeeps ==
    ASSUME IInv, NEW a \in Attempts, (\E exists \in BOOLEAN : CredentialsWrong(a, exists)) \/ Refuse(a)
    PROVE  IInv'
<1>1. attempt[a] \in Attempt
  BY DEF IInv, TypeOK
<1>2. UNCHANGED <<now, logs, alerted>>
  BY DEF CredentialsWrong, Refuse
<1>3. CASE \E exists \in BOOLEAN : CredentialsWrong(a, exists)
  <2>1. PICK exists \in BOOLEAN : CredentialsWrong(a, exists)
    BY <1>3
  <2> DEFINE r == [attempt[a] EXCEPT !.stage = "failEmail", !.exists = exists]
  <2>2. /\ r \in Attempt /\ r.stage = "failEmail" /\ r.email = attempt[a].email
        /\ r.ip = attempt[a].ip /\ r.ungated = attempt[a].ungated
    BY <1>1 DEF Attempt, Stages, Checking
  <2>3. attempt' = [attempt EXCEPT ![a] = r] /\ attempt[a].stage = "verify"
    BY <2>1 DEF CredentialsWrong
  <2> HIDE DEF r
  <2>4. FlightInv' /\ attempt'[a] = r
    BY <2>2, <2>3, GoesOn
  <2>5. \A e \in Emails : /\ a \in PastEmail(e)' => a \in PastEmail(e)
                          /\ a \in FreeEmail(e)' => a \in FreeEmail(e)
    BY <2>2, <2>3, <2>4 DEF PastEmail, FreeEmail
  <2>6. \A i \in IPs : /\ a \in PastIp(i)' => a \in PastIp(i)
                       /\ a \in FreeIp(i)' => a \in FreeIp(i)
    BY <2>2, <2>3, <2>4 DEF PastIp, FreeIp
  <2> QED BY <1>2, <2>2, <2>3, <2>4, <2>5, <2>6, MoveKeeps
<1>4. CASE Refuse(a)
  <2> DEFINE r == Done(a)
  <2>1. r \in Attempt /\ r.stage = "done" /\ r.ungated = attempt[a].ungated
    BY <1>1, ReadyIsAttempt
  <2>2. attempt' = [attempt EXCEPT ![a] = r] /\ attempt[a].stage \in Checking \cup {"verify"}
    BY <1>4 DEF Refuse
  <2> HIDE DEF r
  <2>3. FlightInv' /\ attempt'[a] = r /\ attempt[a].stage \notin {"ready", "done", "failIp"}
    <3>1. attempt[a].stage \notin {"ready", "done", "failIp"}
      BY <2>2 DEF Checking
    <3>2. attempt' = [attempt EXCEPT ![a] = r] /\ attempt[a].stage \notin {"ready", "done"}
      BY <2>2, <3>1
    <3>3. FlightInv' /\ \A b \in Attempts : attempt'[b] = IF b = a THEN r ELSE attempt[b]
      BY <2>1, <3>2, GoesOn
    <3> QED BY <3>1, <3>3
  <2>4. /\ \A e \in Emails : a \notin PastEmail(e)' /\ a \notin FreeEmail(e)'
        /\ \A i \in IPs : a \notin PastIp(i)' /\ a \notin FreeIp(i)'
    BY <2>1, <2>3 DEF PastEmail, FreeEmail, PastIp, FreeIp
  <2> QED BY <1>2, <2>1, <2>2, <2>3, <2>4, MoveKeeps
<1> QED BY <1>3, <1>4

-----------------------------------------------------------------------------
(* Steps that change the logs *)

\* The half of the budgets whose logs do not grow.
LEMMA EmailShrinks ==
    ASSUME FlightInv, NEW e \in Emails,
           Within(emailLog[e], PastEmail(e), Threshold),
           Within(Ungated(emailLog[e]), FreeEmail(e), CaptchaAfter),
           emailLog'[e] \subseteq emailLog[e], Ungated(emailLog[e])' \subseteq Ungated(emailLog[e]),
           PastEmail(e)' \subseteq PastEmail(e), FreeEmail(e)' \subseteq FreeEmail(e)
    PROVE  /\ Within(emailLog[e], PastEmail(e), Threshold)'
           /\ Within(Ungated(emailLog[e]), FreeEmail(e), CaptchaAfter)'
<1>1. IsFiniteSet(PastEmail(e)) /\ IsFiniteSet(FreeEmail(e))
  BY PastInFlight
<1>2. /\ Within(emailLog'[e], PastEmail(e)', Threshold)
      /\ Within(Ungated(emailLog[e])', FreeEmail(e)', CaptchaAfter)
  BY <1>1, ShrinkWithin, LockoutAssumption
<1> QED BY <1>2 DEF Within

LEMMA IpShrinks ==
    ASSUME FlightInv, NEW i \in IPs,
           Within(ipLog[i], PastIp(i), Threshold),
           Within(Ungated(ipLog[i]), FreeIp(i), CaptchaAfter),
           ipLog'[i] \subseteq ipLog[i], Ungated(ipLog[i])' \subseteq Ungated(ipLog[i]),
           PastIp(i)' \subseteq PastIp(i), FreeIp(i)' \subseteq FreeIp(i)
    PROVE  /\ Within(ipLog[i], PastIp(i), Threshold)'
           /\ Within(Ungated(ipLog[i]), FreeIp(i), CaptchaAfter)'
<1>1. IsFiniteSet(PastIp(i)) /\ IsFiniteSet(FreeIp(i))
  BY PastInFlight
<1>2. /\ Within(ipLog'[i], PastIp(i)', Threshold)
      /\ Within(Ungated(ipLog[i])', FreeIp(i)', CaptchaAfter)
  BY <1>1, ShrinkWithin, LockoutAssumption
<1> QED BY <1>2 DEF Within

\* A request that ends, or records its first failure, joins no check's set.
LEMMA Leaves ==
    ASSUME IInv, NEW a \in Attempts, NEW r \in Attempt,
           attempt' = [attempt EXCEPT ![a] = r], attempt[a].stage \notin {"ready", "done"},
           r.stage = "done" \/ (r.stage = "failIp" /\ attempt[a].stage = "failEmail"
                                /\ r.email = attempt[a].email /\ r.ip = attempt[a].ip),
           r.ungated = attempt[a].ungated
    PROVE  /\ FlightInv'
           /\ \A b \in Attempts : attempt'[b] = IF b = a THEN r ELSE attempt[b]
           /\ \A e \in Emails : /\ PastEmail(e)' \subseteq PastEmail(e) \ {a}
                                /\ FreeEmail(e)' \subseteq FreeEmail(e) \ {a}
           /\ \A i \in IPs : /\ PastIp(i)' \subseteq PastIp(i)
                             /\ FreeIp(i)' \subseteq FreeIp(i)
                             /\ r.stage = "done" => a \notin PastIp(i)' /\ a \notin FreeIp(i)'
           /\ \A b \in Attempts : attempt'[b].ungated = attempt[b].ungated
           /\ \A b \in Attempts : attempt[b].stage = "done" => attempt'[b].stage = "done"
           /\ \A b \in Attempts : attempt'[b].ungated =>
                attempt'[b].stage \in {"verify", "failEmail", "failIp", "done"}
<1>1. FlightInv' /\ \A b \in Attempts : attempt'[b] = IF b = a THEN r ELSE attempt[b]
  BY GoesOn
<1>2. \A b \in Attempts : attempt'[b].ungated = attempt[b].ungated
  BY <1>1
<1>3. \A e \in Emails : /\ PastEmail(e)' \subseteq PastEmail(e) \ {a}
                        /\ FreeEmail(e)' \subseteq FreeEmail(e) \ {a}
  BY <1>1 DEF PastEmail, FreeEmail
<1>4. \A i \in IPs : /\ PastIp(i)' \subseteq PastIp(i)
                     /\ FreeIp(i)' \subseteq FreeIp(i)
                     /\ r.stage = "done" => a \notin PastIp(i)' /\ a \notin FreeIp(i)'
  BY <1>1 DEF PastIp, FreeIp
<1> QED BY <1>1, <1>2, <1>3, <1>4 DEF IInv, EntryInv

LEMMA RecordSuccessKeeps == ASSUME IInv, NEW a \in Attempts, RecordSuccess(a) PROVE IInv'
<1> DEFINE r == Done(a)
           e == attempt[a].email
<1>1. attempt[a] \in Attempt /\ r \in Attempt /\ r.stage = "done" /\ r.ungated = attempt[a].ungated
  BY ReadyIsAttempt DEF IInv, TypeOK
<1>2. /\ attempt' = [attempt EXCEPT ![a] = r] /\ attempt[a].stage = "verify"
      /\ emailLog' = [emailLog EXCEPT ![e] = {}]
      /\ UNCHANGED <<now, ipLog, emailCycle, ipCycle, alertLog, alerted>>
  BY DEF RecordSuccess
<1> HIDE DEF r, e
<1>3. /\ FlightInv'
      /\ \A b \in Attempts : attempt'[b] = IF b = a THEN r ELSE attempt[b]
      /\ \A f \in Emails : /\ PastEmail(f)' \subseteq PastEmail(f)
                           /\ FreeEmail(f)' \subseteq FreeEmail(f)
      /\ \A i \in IPs : PastIp(i)' \subseteq PastIp(i) /\ FreeIp(i)' \subseteq FreeIp(i)
      /\ \A b \in Attempts : attempt'[b].ungated = attempt[b].ungated
      /\ \A b \in Attempts : attempt'[b].ungated =>
            attempt'[b].stage \in {"verify", "failEmail", "failIp", "done"}
  BY <1>1, <1>2, Leaves
<1>4. \A f \in Emails : emailLog'[f] \subseteq emailLog[f]
  BY <1>2 DEF IInv, TypeOK
<1>5. TypeOK'
  <2>1. attempt' \in [Attempts -> Attempt] /\ emailLog' \in [Emails -> SUBSET Entries]
    BY <1>1, <1>2 DEF IInv, TypeOK
  <2> QED BY <1>2, <2>1 DEF IInv, TypeOK
<1>6. EntryInv'
  BY <1>1, <1>2, <1>3, <1>4 DEF IInv, EntryInv, TypeOK, Entries
<1>7. /\ \A f \in Emails : Ungated(emailLog[f])' \subseteq Ungated(emailLog[f])
      /\ \A i \in IPs : Ungated(ipLog[i])' \subseteq Ungated(ipLog[i])
  BY <1>2, <1>3, <1>4 DEF IInv, TypeOK, Entries, Ungated
<1>8. BudgetInv'
  <2>1. \A f \in Emails : /\ Within(emailLog[f], PastEmail(f), Threshold)'
                          /\ Within(Ungated(emailLog[f]), FreeEmail(f), CaptchaAfter)'
    BY <1>3, <1>4, <1>7, EmailShrinks DEF IInv, BudgetInv
  <2>2. \A i \in IPs : /\ Within(ipLog[i], PastIp(i), Threshold)'
                       /\ Within(Ungated(ipLog[i]), FreeIp(i), CaptchaAfter)'
    BY <1>2, <1>3, <1>7, IpShrinks DEF IInv, BudgetInv
  <2> QED BY <2>1, <2>2 DEF BudgetInv
<1>9. AlertInv' /\ AlertsApart'
  BY <1>2 DEF IInv, AlertInv, AlertsApart
<1> QED BY <1>3, <1>5, <1>6, <1>8, <1>9 DEF IInv

LEMMA FailEmailKeeps == ASSUME IInv, NEW a \in Attempts, FailEmail(a) PROVE IInv'
<1> DEFINE e == attempt[a].email
           x == <<a, now>>
           log == emailLog[e] \cup {x}
           r == [attempt[a] EXCEPT !.stage = "failIp", !.count = Cardinality(log)]
<1>1. attempt[a] \in Attempt /\ e \in Emails /\ x \in Entries /\ x[1] = a
  BY DEF IInv, TypeOK, Attempt, Entries
<1>2. Cardinality(log) \in Nat
  BY <1>1, FS_AddElement, FS_CardinalityType DEF IInv, BudgetInv, Within
<1>3. /\ r \in Attempt /\ r.stage = "failIp" /\ r.ungated = attempt[a].ungated
      /\ r.email = attempt[a].email /\ r.ip = attempt[a].ip
  BY <1>1, <1>2 DEF Attempt, Stages
<1>4. /\ attempt' = [attempt EXCEPT ![a] = r] /\ attempt[a].stage = "failEmail"
      /\ emailLog' = [emailLog EXCEPT ![e] = log]
      /\ UNCHANGED <<now, ipLog, emailCycle, ipCycle, alertLog, alerted>>
  BY DEF FailEmail, Fail
<1>5. a \in PastEmail(e) /\ (attempt[a].ungated => a \in FreeEmail(e))
  BY <1>4 DEF PastEmail, FreeEmail
<1> HIDE DEF r
<1>6. /\ FlightInv'
      /\ \A b \in Attempts : attempt'[b] = IF b = a THEN r ELSE attempt[b]
      /\ \A f \in Emails : /\ PastEmail(f)' \subseteq PastEmail(f) \ {a}
                           /\ FreeEmail(f)' \subseteq FreeEmail(f) \ {a}
      /\ \A i \in IPs : PastIp(i)' \subseteq PastIp(i) /\ FreeIp(i)' \subseteq FreeIp(i)
      /\ \A b \in Attempts : attempt'[b].ungated = attempt[b].ungated
      /\ \A b \in Attempts : attempt[b].stage = "done" => attempt'[b].stage = "done"
      /\ \A b \in Attempts : attempt'[b].ungated =>
            attempt'[b].stage \in {"verify", "failEmail", "failIp", "done"}
  BY <1>3, <1>4, Leaves
<1>7. \A f \in Emails : emailLog'[f] = IF f = e THEN log ELSE emailLog[f]
  BY <1>4 DEF IInv, TypeOK
<1>8. TypeOK'
  <2>1. attempt' \in [Attempts -> Attempt]
    BY <1>3, <1>4 DEF IInv, TypeOK
  <2>2. emailLog' \in [Emails -> SUBSET Entries]
    BY <1>1, <1>4 DEF IInv, TypeOK
  <2> QED BY <1>4, <2>1, <2>2 DEF IInv, TypeOK
<1>9. EntryInv'
  <2>1. \A f \in Emails : \A y \in emailLog'[f] : attempt'[y[1]].stage \in {"failIp", "done"}
    BY <1>1, <1>3, <1>6, <1>7 DEF IInv, EntryInv, TypeOK, Entries
  <2>2. \A i \in IPs : \A y \in ipLog[i] : attempt'[y[1]].stage = "done"
    BY <1>6 DEF IInv, EntryInv, TypeOK, Entries
  <2>3. \A f \in Emails : \A y \in alertLog[f] : attempt'[y[1]].stage = "done"
    BY <1>6 DEF IInv, EntryInv, TypeOK, Entries
  <2> QED BY <1>4, <1>6, <2>1, <2>2, <2>3 DEF EntryInv
<1>10. \A i \in IPs : /\ Within(ipLog[i], PastIp(i), Threshold)'
                      /\ Within(Ungated(ipLog[i]), FreeIp(i), CaptchaAfter)'
  <2>1. \A i \in IPs : Ungated(ipLog[i])' \subseteq Ungated(ipLog[i])
    BY <1>4, <1>6 DEF IInv, TypeOK, Entries, Ungated
  <2> QED BY <1>4, <1>6, <2>1, IpShrinks DEF IInv, BudgetInv
<1>11. ASSUME NEW f \in Emails
       PROVE  /\ Within(emailLog[f], PastEmail(f), Threshold)'
              /\ Within(Ungated(emailLog[f]), FreeEmail(f), CaptchaAfter)'
  <2>1. CASE f # e
    <3>1. emailLog'[f] \subseteq emailLog[f] /\ Ungated(emailLog[f])' \subseteq Ungated(emailLog[f])
      BY <1>6, <1>7, <2>1 DEF IInv, TypeOK, Entries, Ungated
    <3> QED BY <1>6, <3>1, EmailShrinks DEF IInv, BudgetInv
  <2>2. CASE f = e
    <3>1. /\ Within(emailLog[f], PastEmail(f), Threshold) /\ IsFiniteSet(PastEmail(f))
          /\ Within(Ungated(emailLog[f]), FreeEmail(f), CaptchaAfter) /\ IsFiniteSet(FreeEmail(f))
          /\ Threshold \in Nat /\ CaptchaAfter \in Nat
      BY <1>1, PastInFlight, LockoutAssumption DEF IInv, BudgetInv
    <3>2. emailLog'[f] = emailLog[f] \cup {x}
      BY <1>1, <1>7, <2>2
    <3>3. /\ Ungated(emailLog[f])' \subseteq Ungated(emailLog[f]) \cup {x}
          /\ ~attempt[a].ungated => Ungated(emailLog[f])' \subseteq Ungated(emailLog[f])
      BY <1>1, <1>6, <2>2, <3>2 DEF IInv, TypeOK, Entries, Ungated
    <3>4. a \in PastEmail(f) /\ (attempt[a].ungated => a \in FreeEmail(f))
      BY <1>5, <2>2
    <3> HIDE DEF x, log, e
    <3>5. Within(emailLog'[f], PastEmail(f)', Threshold)
      BY <1>6, <3>1, <3>2, <3>4, FailWithin
    <3>6. Within(Ungated(emailLog[f])', FreeEmail(f)', CaptchaAfter)
      <4>1. CASE attempt[a].ungated
        BY <1>6, <3>1, <3>3, <3>4, <4>1, FailWithin
      <4>2. CASE ~attempt[a].ungated
        BY <1>6, <3>1, <3>3, <4>2, ShrinkWithin
      <4> QED BY <4>1, <4>2
    <3> QED BY <3>5, <3>6 DEF Within
  <2> QED BY <2>1, <2>2
<1>12. AlertInv' /\ AlertsApart'
  BY <1>4 DEF IInv, AlertInv, AlertsApart
<1> QED BY <1>6, <1>8, <1>9, <1>10, <1>11, <1>12 DEF IInv, BudgetInv

\* What a failure found locked adds to the log of alerts, and when it alerts.
LEMMA AlertStep ==
    ASSUME IInv, NEW a \in Attempts, NEW e \in Emails, attempt[a].stage # "done",
           UNCHANGED now, alertLog' = [alertLog EXCEPT ![e] = @ \cup {<<a, now>>}],
           alerted' = IF Alerts(e, alertLog[e] \cup {<<a, now>>})
                      THEN [alerted EXCEPT ![e] = @ \cup {now}] ELSE alerted
    PROVE  AlertInv' /\ AlertsApart'
<1> DEFINE log == alertLog[e] \cup {<<a, now>>}
<1>1. now \in Nat /\ \A f \in Emails : alerted[f] \subseteq Nat
  BY LockoutAssumption DEF IInv, TypeOK
<1>2. \A f \in Emails : alertLog'[f] = IF f = e THEN log ELSE alertLog[f]
  BY DEF IInv, TypeOK
<1>3. \A f \in Emails : /\ alertLog[f] \subseteq alertLog'[f]
                        /\ IsFiniteSet(alertLog'[f])
  <2>1. \A f \in Emails : IsFiniteSet(alertLog[f])
    BY DEF IInv, AlertInv
  <2>2. IsFiniteSet(log)
    BY <2>1, FS_AddElement
  <2> QED BY <1>2, <2>1, <2>2
<1>4. \A f \in Emails : \A t \in alerted[f] :
        t <= now /\ (t > now - Window => \E x \in alertLog'[f] : x[2] = t)
  BY <1>3 DEF IInv, AlertInv
<1>5. <<a, now>> \in alertLog'[e] /\ <<a, now>>[2] = now
  BY <1>2
<1>6. CASE ~Alerts(e, log)
  <2>1. UNCHANGED <<alerted, now>>
    BY <1>6
  <2>2. AlertInv'
    BY <1>3, <1>4, <2>1 DEF AlertInv
  <2> QED BY <2>1, <2>2 DEF IInv, AlertsApart
<1>7. CASE Alerts(e, log)
  <2>1. \A f \in Emails : alerted'[f] = IF f = e THEN alerted[f] \cup {now} ELSE alerted[f]
    BY <1>7 DEF IInv, TypeOK
  <2>2. AlertInv'
    <3>1. ASSUME NEW f \in Emails, NEW t \in alerted'[f]
          PROVE  t <= now /\ (t > now - Window => \E x \in alertLog'[f] : x[2] = t)
      <4>1. CASE t \in alerted[f]
        BY <1>4, <4>1
      <4>2. CASE t \notin alerted[f]
        BY <1>1, <1>5, <2>1, <4>2
      <4> QED BY <4>1, <4>2
    <3>2. now' = now
      OBVIOUS
    <3> QED BY <1>3, <3>1, <3>2 DEF AlertInv
  <2>3. \A x \in log : x = <<a, now>>
    <3>1. IsFiniteSet(log) /\ Cardinality(log) = 1
      BY <1>2, <1>3, <1>7 DEF Alerts
    <3>2. PICK y : log = {y}
      BY <3>1, FS_Singleton
    <3> QED BY <3>2
  <2>4. \A x \in alertLog[e] : x[1] # a
    BY DEF IInv, EntryInv
  <2>5. alertLog[e] = {}
    BY <2>3, <2>4
  <2>6. \A t \in alerted[e] : t + Window <= now
    BY <1>1, <2>5, LockoutAssumption DEF IInv, AlertInv
  <2>7. AlertsApart'
    <3> SUFFICES ASSUME NEW f \in Emails, NEW s \in alerted'[f], NEW t \in alerted'[f]
                 PROVE  s = t \/ s >= t + Window \/ t >= s + Window
      BY DEF AlertsApart
    <3>1. CASE s \in alerted[f] /\ t \in alerted[f]
      BY <3>1 DEF IInv, AlertsApart
    <3>2. CASE ~(s \in alerted[f] /\ t \in alerted[f])
      <4>1. f = e /\ (s = now \/ t = now)
        BY <2>1, <3>2
      <4>2. (s = now \/ s + Window <= now) /\ (t = now \/ t + Window <= now)
        BY <2>1, <2>6, <4>1
      <4> QED BY <1>1, <2>1, <4>1, <4>2, LockoutAssumption
    <3> QED BY <3>1, <3>2
  <2> QED BY <2>2, <2>7
<1> QED BY <1>6, <1>7

LEMMA FailIpKeeps == ASSUME IInv, NEW a \in Attempts, FailIp(a) PROVE IInv'
<1> DEFINE i == attempt[a].ip
           x == <<a, now>>
           log == ipLog[i] \cup {x}
           r == Done(a)
<1>1. /\ attempt[a] \in Attempt /\ i \in IPs /\ attempt[a].email \in Emails
      /\ x \in Entries /\ x[1] = a
  BY DEF IInv, TypeOK, Attempt, Entries
<1>2. r \in Attempt /\ r.stage = "done" /\ r.ungated = attempt[a].ungated
  BY <1>1, ReadyIsAttempt
<1>3. PICK e \in Emails : e = attempt[a].email
  BY <1>1
<1>4. /\ attempt' = [attempt EXCEPT ![a] = r] /\ attempt[a].stage = "failIp"
      /\ ipLog' = [ipLog EXCEPT ![i] = log]
      /\ UNCHANGED <<now, emailLog>>
      /\ \/ UNCHANGED <<alertLog, alerted>>
         \/ /\ alertLog' = [alertLog EXCEPT ![e] = alertLog[e] \cup {x}]
            /\ alerted' = IF Alerts(e, alertLog[e] \cup {x})
                          THEN [alerted EXCEPT ![e] = @ \cup {now}] ELSE alerted
      /\ emailCycle' = emailCycle \/ emailCycle' = [emailCycle EXCEPT ![e] = @ \cup {x}]
      /\ ipCycle' = ipCycle \/ ipCycle' = [ipCycle EXCEPT ![i] = @ \cup {x}]
  <2>1. /\ attempt' = [attempt EXCEPT ![a] = r] /\ attempt[a].stage = "failIp"
        /\ ipLog' = [ipLog EXCEPT ![i] = log] /\ UNCHANGED <<now, emailLog>>
    BY DEF FailIp, Fail
  <2>2. \/ UNCHANGED <<alertLog, alerted>>
        \/ /\ alertLog' = [alertLog EXCEPT ![e] = alertLog[e] \cup {x}]
           /\ alerted' = IF Alerts(e, alertLog[e] \cup {x})
                         THEN [alerted EXCEPT ![e] = @ \cup {now}] ELSE alerted
    BY <1>3, Zenon DEF FailIp, Fail
  <2>3. /\ emailCycle' = emailCycle \/ emailCycle' = [emailCycle EXCEPT ![e] = @ \cup {x}]
        /\ ipCycle' = ipCycle \/ ipCycle' = [ipCycle EXCEPT ![i] = @ \cup {x}]
    BY <1>3, Zenon DEF FailIp, Fail
  <2> QED BY <2>1, <2>2, <2>3
<1>5. a \in PastIp(i) /\ (attempt[a].ungated => a \in FreeIp(i))
  BY <1>4 DEF PastIp, FreeIp
<1> HIDE DEF r
<1>6. /\ FlightInv'
      /\ \A b \in Attempts : attempt'[b] = IF b = a THEN r ELSE attempt[b]
      /\ \A f \in Emails : /\ PastEmail(f)' \subseteq PastEmail(f)
                           /\ FreeEmail(f)' \subseteq FreeEmail(f)
      /\ \A j \in IPs : /\ PastIp(j)' \subseteq PastIp(j) \ {a}
                        /\ FreeIp(j)' \subseteq FreeIp(j) \ {a}
      /\ \A b \in Attempts : attempt'[b].ungated = attempt[b].ungated
      /\ \A b \in Attempts : attempt[b].stage = "done" => attempt'[b].stage = "done"
      /\ \A b \in Attempts : attempt'[b].ungated =>
            attempt'[b].stage \in {"verify", "failEmail", "failIp", "done"}
  <2>1. attempt' = [attempt EXCEPT ![a] = r] /\ attempt[a].stage \notin {"ready", "done"}
    BY <1>4
  <2>2. \A j \in IPs : /\ PastIp(j)' \subseteq PastIp(j) /\ FreeIp(j)' \subseteq FreeIp(j)
                       /\ a \notin PastIp(j)' /\ a \notin FreeIp(j)'
    BY <1>2, <2>1, Leaves
  <2>3. \A f \in Emails : /\ PastEmail(f)' \subseteq PastEmail(f)
                          /\ FreeEmail(f)' \subseteq FreeEmail(f)
    BY <1>2, <2>1, Leaves
  <2>4. /\ FlightInv'
        /\ \A b \in Attempts : attempt'[b] = IF b = a THEN r ELSE attempt[b]
        /\ \A b \in Attempts : attempt'[b].ungated = attempt[b].ungated
        /\ \A b \in Attempts : attempt[b].stage = "done" => attempt'[b].stage = "done"
        /\ \A b \in Attempts : attempt'[b].ungated =>
              attempt'[b].stage \in {"verify", "failEmail", "failIp", "done"}
    BY <1>2, <2>1, Leaves
  <2> QED BY <2>2, <2>3, <2>4
<1>7. \A j \in IPs : ipLog'[j] = IF j = i THEN log ELSE ipLog[j]
  BY <1>4 DEF IInv, TypeOK
<1>8. AlertInv' /\ AlertsApart'
  <2>1. CASE UNCHANGED <<alertLog, alerted>>
    BY <1>4, <2>1 DEF IInv, AlertInv, AlertsApart
  <2>2. CASE ~UNCHANGED <<alertLog, alerted>>
    BY <1>4, <2>2, AlertStep
  <2> QED BY <2>1, <2>2
<1>9. TypeOK'
  <2>1. attempt' \in [Attempts -> Attempt]
    BY <1>2, <1>4 DEF IInv, TypeOK
  <2>2. ipLog' \in [IPs -> SUBSET Entries]
    BY <1>1, <1>4 DEF IInv, TypeOK
  <2>3. emailCycle' \in [Emails -> SUBSET Entries]
    BY <1>1, <1>4 DEF IInv, TypeOK
  <2>4. ipCycle' \in [IPs -> SUBSET Entries]
    BY <1>1, <1>4 DEF IInv, TypeOK
  <2>5. alertLog' \in [Emails -> SUBSET Entries]
    BY <1>1, <1>4 DEF IInv, TypeOK
  <2>6. alerted' \in [Emails -> SUBSET (0..MaxTime)]
    BY <1>4 DEF IInv, TypeOK
  <2> QED BY <1>4, <2>1, <2>2, <2>3, <2>4, <2>5, <2>6 DEF IInv, TypeOK
<1>10. EntryInv'
  <2>1. \A f \in Emails : \A y \in emailLog[f] : attempt'[y[1]].stage \in {"failIp", "done"}
    BY <1>2, <1>6 DEF IInv, EntryInv, TypeOK, Entries
  <2>2. \A j \in IPs : \A y \in ipLog'[j] : attempt'[y[1]].stage = "done"
    BY <1>1, <1>2, <1>6, <1>7 DEF IInv, EntryInv, TypeOK, Entries
  <2>3. \A f \in Emails : alertLog'[f] \subseteq alertLog[f] \cup {x}
    BY <1>4 DEF IInv, TypeOK
  <2>4. \A f \in Emails : \A y \in alertLog'[f] : attempt'[y[1]].stage = "done"
    BY <1>1, <1>2, <1>6, <2>3 DEF IInv, EntryInv, TypeOK, Entries
  <2> QED BY <1>4, <1>6, <2>1, <2>2, <2>4 DEF EntryInv
<1>11. \A f \in Emails : /\ Within(emailLog[f], PastEmail(f), Threshold)'
                         /\ Within(Ungated(emailLog[f]), FreeEmail(f), CaptchaAfter)'
  <2>1. \A f \in Emails : Ungated(emailLog[f])' \subseteq Ungated(emailLog[f])
    BY <1>4, <1>6 DEF IInv, TypeOK, Entries, Ungated
  <2> QED BY <1>4, <1>6, <2>1, EmailShrinks DEF IInv, BudgetInv
<1>12. ASSUME NEW j \in IPs
       PROVE  /\ Within(ipLog[j], PastIp(j), Threshold)'
              /\ Within(Ungated(ipLog[j]), FreeIp(j), CaptchaAfter)'
  <2>1. CASE j # i
    <3>1. ipLog'[j] \subseteq ipLog[j] /\ Ungated(ipLog[j])' \subseteq Ungated(ipLog[j])
      BY <1>6, <1>7, <2>1 DEF IInv, TypeOK, Entries, Ungated
    <3> QED BY <1>6, <3>1, IpShrinks DEF IInv, BudgetInv
  <2>2. CASE j = i
    <3>1. /\ Within(ipLog[j], PastIp(j), Threshold) /\ IsFiniteSet(PastIp(j))
          /\ Within(Ungated(ipLog[j]), FreeIp(j), CaptchaAfter) /\ IsFiniteSet(FreeIp(j))
          /\ Threshold \in Nat /\ CaptchaAfter \in Nat
      BY PastInFlight, LockoutAssumption DEF IInv, BudgetInv
    <3>2. ipLog'[j] = ipLog[j] \cup {x}
      BY <1>7, <2>2
    <3>3. /\ Ungated(ipLog[j])' \subseteq Ungated(ipLog[j]) \cup {x}
          /\ ~attempt[a].ungated => Ungated(ipLog[j])' \subseteq Ungated(ipLog[j])
      BY <1>1, <1>6, <3>2 DEF IInv, TypeOK, Entries, Ungated
    <3>4. a \in PastIp(j) /\ (attempt[a].ungated => a \in FreeIp(j))
      BY <1>5, <2>2
    <3> HIDE DEF x, log, i
    <3>5. Within(ipLog'[j], PastIp(j)', Threshold)
      BY <1>6, <3>1, <3>2, <3>4, FailWithin
    <3>6. Within(Ungated(ipLog[j])', FreeIp(j)', CaptchaAfter)
      <4>1. CASE attempt[a].ungated
        BY <1>6, <3>1, <3>3, <3>4, <4>1, FailWithin
      <4>2. CASE ~attempt[a].ungated
        BY <1>6, <3>1, <3>3, <4>2, ShrinkWithin
      <4> QED BY <4>1, <4>2
    <3> QED BY <3>5, <3>6 DEF Within
  <2> QED BY <2>1, <2>2
<1> QED BY <1>6, <1>8, <1>9, <1>10, <1>11, <1>12 DEF IInv, BudgetInv

LEMMA RestartKeeps == ASSUME IInv, Restart PROVE IInv'
<1>1. /\ \A e \in Emails : emailLog'[e] = {} /\ alertLog'[e] = {} /\ alerted'[e] = {}
      /\ \A i \in IPs : ipLog'[i] = {}
      /\ now' = now
  BY DEF Restart
<1>2. \A a \in Attempts :
        /\ attempt'[a] = IF a \in InFlight THEN Done(a) ELSE attempt[a]
        /\ attempt'[a] \in Attempt /\ attempt'[a].stage \in {"ready", "done"}
        /\ attempt'[a].ungated => attempt'[a].stage = "done"
  <2> TAKE a \in Attempts
  <2>1. attempt[a] \in Attempt /\ (attempt[a].ungated => attempt[a].stage # "ready")
    BY DEF IInv, TypeOK, EntryInv
  <2>2. attempt'[a] = IF a \in InFlight THEN Done(a) ELSE attempt[a]
    BY DEF Restart
  <2>3. CASE a \in InFlight
    BY <2>1, <2>2, <2>3, ReadyIsAttempt
  <2>4. CASE a \notin InFlight
    BY <2>1, <2>2, <2>4 DEF InFlight
  <2> QED BY <2>2, <2>3, <2>4
<1>3. TypeOK'
  <2>1. attempt' \in [Attempts -> Attempt]
    BY <1>2 DEF Restart
  <2> QED BY <2>1 DEF Restart, IInv, TypeOK
<1>4. FlightInv'
  <2>1. InFlight' = {}
    BY <1>2 DEF InFlight
  <2> QED BY <2>1, FS_EmptySet, LockoutAssumption DEF FlightInv
<1>5. EntryInv'
  BY <1>1, <1>2 DEF EntryInv
<1>6. BudgetInv'
  <2>1. /\ \A e \in Emails : Ungated(emailLog[e])' = {} /\ PastEmail(e)' = {} /\ FreeEmail(e)' = {}
        /\ \A i \in IPs : Ungated(ipLog[i])' = {} /\ PastIp(i)' = {} /\ FreeIp(i)' = {}
    BY <1>1, <1>2 DEF Ungated, PastEmail, FreeEmail, PastIp, FreeIp
  <2>2. Within({}, {}, Threshold) /\ Within({}, {}, CaptchaAfter)
    BY NothingWithin, LockoutAssumption
  <2> QED BY <1>1, <2>1, <2>2 DEF BudgetInv, Within
<1>7. AlertInv' /\ AlertsApart'
  BY <1>1, FS_EmptySet DEF AlertInv, AlertsApart
<1> QED BY <1>3, <1>4, <1>5, <1>6, <1>7 DEF IInv

LEMMA TickKeeps == ASSUME IInv, Tick PROVE IInv'
<1>1. /\ now' = now + 1 /\ now < MaxTime /\ UNCHANGED <<attempt, alerted>>
      /\ \A e \in Emails : /\ emailLog'[e] \subseteq emailLog[e]
                           /\ emailCycle'[e] \subseteq emailCycle[e]
                           /\ alertLog'[e] = {x \in alertLog[e] : x[2] > now' - Window}
      /\ \A i \in IPs : ipLog'[i] \subseteq ipLog[i] /\ ipCycle'[i] \subseteq ipCycle[i]
  BY DEF Tick, Prune
<1>2. now \in Nat /\ MaxTime \in Nat /\ Window \in Nat /\ \A e \in Emails : alerted[e] \subseteq Nat
  BY LockoutAssumption DEF IInv, TypeOK
<1>3. TypeOK'
  <2>1. now' \in 0..MaxTime
    BY <1>1, <1>2
  <2>2. /\ emailLog' \in [Emails -> SUBSET Entries] /\ emailCycle' \in [Emails -> SUBSET Entries]
        /\ ipLog' \in [IPs -> SUBSET Entries] /\ ipCycle' \in [IPs -> SUBSET Entries]
        /\ alertLog' \in [Emails -> SUBSET Entries]
    <3> USE DEF IInv, TypeOK, Tick, Prune
    <3>1. emailLog' \in [Emails -> SUBSET Entries]
      BY <1>1
    <3>2. emailCycle' \in [Emails -> SUBSET Entries]
      BY <1>1
    <3>3. alertLog' \in [Emails -> SUBSET Entries]
      BY <1>1
    <3>4. ipLog' \in [IPs -> SUBSET Entries]
      BY <1>1
    <3>5. ipCycle' \in [IPs -> SUBSET Entries]
      BY <1>1
    <3> QED BY <3>1, <3>2, <3>3, <3>4, <3>5
  <2> QED BY <1>1, <2>1, <2>2 DEF IInv, TypeOK
<1>4. FlightInv' /\ EntryInv'
  BY <1>1 DEF IInv, FlightInv, InFlight, EntryInv
<1>5. BudgetInv'
  <2>1. /\ \A e \in Emails : /\ Ungated(emailLog[e])' \subseteq Ungated(emailLog[e])
                             /\ PastEmail(e)' = PastEmail(e) /\ FreeEmail(e)' = FreeEmail(e)
        /\ \A i \in IPs : /\ Ungated(ipLog[i])' \subseteq Ungated(ipLog[i])
                          /\ PastIp(i)' = PastIp(i) /\ FreeIp(i)' = FreeIp(i)
    BY <1>1 DEF Ungated, PastEmail, FreeEmail, PastIp, FreeIp
  <2>2. \A e \in Emails : /\ Within(emailLog[e], PastEmail(e), Threshold)'
                          /\ Within(Ungated(emailLog[e]), FreeEmail(e), CaptchaAfter)'
    BY <1>1, <2>1, EmailShrinks DEF IInv, BudgetInv
  <2>3. \A i \in IPs : /\ Within(ipLog[i], PastIp(i), Threshold)'
                       /\ Within(Ungated(ipLog[i]), FreeIp(i), CaptchaAfter)'
    BY <1>1, <2>1, IpShrinks DEF IInv, BudgetInv
  <2> QED BY <2>2, <2>3 DEF BudgetInv
<1>6. AlertInv'
  <2> SUFFICES ASSUME NEW e \in Emails
               PROVE  /\ IsFiniteSet(alertLog'[e])
                      /\ \A t \in alerted'[e] :
                            t <= now' /\ (t > now' - Window => \E x \in alertLog'[e] : x[2] = t)
    BY DEF AlertInv
  <2>1. IsFiniteSet(alertLog'[e])
    BY <1>1, FS_Subset DEF IInv, AlertInv
  <2>2. ASSUME NEW t \in alerted[e]
        PROVE  t <= now' /\ (t > now' - Window => \E x \in alertLog'[e] : x[2] = t)
    <3>1. t \in Nat /\ t <= now /\ (t > now - Window => \E x \in alertLog[e] : x[2] = t)
      BY <1>2 DEF IInv, AlertInv
    <3> QED BY <1>1, <1>2, <3>1
  <2> QED BY <1>1, <2>1, <2>2
<1>7. AlertsApart'
  BY <1>1 DEF IInv, AlertsApart
<1> QED BY <1>3, <1>4, <1>5, <1>6, <1>7 DEF IInv

LEMMA StutterKeeps == ASSUME IInv, UNCHANGED vars PROVE IInv'
<1>1. UNCHANGED <<now, emailLog, ipLog, emailCycle, ipCycle, alertLog, attempt, alerted>>
  BY DEF vars
<1>2. TypeOK' /\ FlightInv' /\ EntryInv' /\ AlertInv' /\ AlertsApart'
  BY <1>1 DEF IInv, TypeOK, FlightInv, InFlight, EntryInv, AlertInv, AlertsApart
<1>3. BudgetInv'
  BY <1>1 DEF IInv, BudgetInv, Within, Ungated, PastEmail, FreeEmail, PastIp, FreeIp
<1> QED BY <1>2, <1>3 DEF IInv

LEMMA NextKeeps == ASSUME IInv, [Next]_vars PROVE IInv'
<1>1. CASE \E a \in Attempts, endpoint \in {"login", "superadmin"}, e \in Emails, i \in IPs :
             Begin(a, endpoint, e, i)
  BY <1>1, BeginKeeps
<1>2. CASE \E a \in Attempts : CheckEmailLock(a) \/ CheckIpLock(a) \/ GateEmail(a) \/ GateIp(a)
                               \/ CaptchaSolved(a)
  BY <1>2, CheckKeeps
<1>3. CASE \E a \in Attempts :
             (\E exists \in BOOLEAN : CredentialsWrong(a, exists)) \/ Refuse(a)
  BY <1>3, OutcomeKeeps
<1>4. CASE \E a \in Attempts : RecordSuccess(a) \/ FailEmail(a) \/ FailIp(a)
  BY <1>4, RecordSuccessKeeps, FailEmailKeeps, FailIpKeeps
<1>5. CASE Restart \/ Tick \/ UNCHANGED vars
  BY <1>5, RestartKeeps, TickKeeps, StutterKeeps
<1> QED BY <1>1, <1>2, <1>3, <1>4, <1>5 DEF Next

-----------------------------------------------------------------------------
\* The invariant holds in every state the process reaches.
THEOREM Invariance == Spec => []IInv
BY InitEstablishes, NextKeeps, PTL DEF Spec

\* The counters and the requests stay within their types.
THEOREM TypeCorrect == Spec => []TypeOK
<1>1. IInv => TypeOK
  BY DEF IInv
<1> QED BY <1>1, Invariance, PTL

\* No window of an address or of an IP sees more failures than the threshold allows one
\* request, and one more for every request that may be past the check at once.
THEOREM LockHoldsItsBudget == Spec => []FailureBudget
<1>1. IInv => FailureBudget
  <2> SUFFICES ASSUME IInv PROVE FailureBudget
    OBVIOUS
  <2>1. ASSUME NEW e \in Emails PROVE Count(emailLog[e]) < Threshold + MaxInFlight
    BY PastInFlight, WithinBound, LockoutAssumption DEF IInv, BudgetInv, Count
  <2>2. ASSUME NEW i \in IPs PROVE Count(ipLog[i]) < Threshold + MaxInFlight
    BY PastInFlight, WithinBound, LockoutAssumption DEF IInv, BudgetInv, Count
  <2> QED BY <2>1, <2>2 DEF FailureBudget
<1> QED BY <1>1, Invariance, PTL

\* The same of the captcha gate and the failures of logins it asked for no captcha.
THEOREM CaptchaHoldsItsBudget == Spec => []UngatedBudget
<1>1. IInv => UngatedBudget
  <2> SUFFICES ASSUME IInv PROVE UngatedBudget
    OBVIOUS
  <2>1. ASSUME NEW e \in Emails PROVE Count(Ungated(emailLog[e])) < CaptchaAfter + MaxInFlight
    BY PastInFlight, WithinBound, LockoutAssumption DEF IInv, BudgetInv, Count
  <2>2. ASSUME NEW i \in IPs PROVE Count(Ungated(ipLog[i])) < CaptchaAfter + MaxInFlight
    BY PastInFlight, WithinBound, LockoutAssumption DEF IInv, BudgetInv, Count
  <2> QED BY <2>1, <2>2 DEF UngatedBudget
<1> QED BY <1>1, Invariance, PTL

\* Two alerts to one account are a window apart, whoever finds it locked in between.
THEOREM AlertsAreApart == Spec => []AlertsApart
<1>1. IInv => AlertsApart
  BY DEF IInv
<1> QED BY <1>1, Invariance, PTL

=============================================================================
