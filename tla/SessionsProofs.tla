---------------------------- MODULE SessionsProofs ----------------------------
(***************************************************************************)
(* What holds of the sessions table for every set of tokens, families and  *)
(* concurrent requests.  IInv is the inductive invariant: every action has *)
(* a lemma that says it preserves IInv.                                    *)
(***************************************************************************)
EXTENDS Sessions, TLAPS

LEMMA IdleIsRequest == Idle \in Request
  BY SessionsAssumption DEF Idle, Request, Stages, Resting, InTransaction, Results

LEMMA AbsentIsRow == Absent \in Row
  BY SessionsAssumption DEF Absent, Row

LEMMA LifetimeBounds ==
  ASSUME NEW f \in Families, NEW t \in 0..MaxTime
  PROVE  t + RefreshLifetime(f) \in 0..(MaxTime + LifetimeDefault + LifetimeSuperadmin)
  BY SessionsAssumption DEF RefreshLifetime

\* The record an ended request leaves in its slot.
LEMMA FinishRecord ==
  ASSUME IInv, NEW q \in Requests, NEW result \in Results
  PROVE  LET w == Finish(q, result)[q] IN
         /\ Finish(q, result) \in [Requests -> Request]
         /\ \A p \in Requests \ {q} : Finish(q, result)[p] = req[p]
         /\ w.stage = "done" /\ w.result = result /\ w.token = NoRow /\ w.new = NoRow
         /\ w.targets = {} /\ w.locks = {} /\ w.family = req[q].family
         /\ w.seen = req[q].seen /\ w.spent = req[q].spent
  <1> DEFINE w == [Idle EXCEPT !.stage = "done", !.result = result,
                               !.family = req[q].family, !.seen = req[q].seen,
                               !.spent = req[q].spent]
  <1>1. req[q] \in Request
    BY DEF IInv, TypeOK
  <1>2. w \in Request
    BY <1>1, IdleIsRequest DEF Request, Stages, Resting
  <1>3. Finish(q, result) = [req EXCEPT ![q] = w]
    BY DEF Finish
  <1>4. Idle.token = NoRow /\ Idle.new = NoRow /\ Idle.targets = {} /\ Idle.locks = {}
    BY DEF Idle
  <1>5. /\ w.stage = "done" /\ w.result = result /\ w.token = NoRow /\ w.new = NoRow
        /\ w.targets = {} /\ w.locks = {} /\ w.family = req[q].family
        /\ w.seen = req[q].seen /\ w.spent = req[q].spent
    BY <1>4 DEF Idle
  <1> HIDE DEF w
  <1>6. QED
    BY <1>2, <1>3, <1>5 DEF IInv, TypeOK

\* What a request knows survives a step of somebody else: rows are only added,
\* revocations are never undone, the clock never goes back, and a row that is
\* issued or that the request has inserted keeps its columns.
LEMMA Frame ==
  ASSUME IInv, TypeOK', NEW p \in Requests, req'[p] = req[p],
         issued \subseteq issued', revoked \subseteq revoked', now <= now',
         \A r \in issued : info'[r] = info[r],
         req[p].stage \in {"retire", "commit"} =>
            req[p].new \notin issued' /\ info'[req[p].new] = info[req[p].new]
  PROVE  RequestInv(p)'
  <1>1. RequestInv(p)
    BY DEF IInv
  <1>2. req[p] \in Request
    BY DEF IInv, TypeOK
  <1>3. req[p].seen \subseteq FamilyRows(req[p].family)'
    BY <1>1 DEF RequestInv, FamilyRows
  <1>4. req[p].stage = "read" /\ req[p].spent =>
          req[p].token \in revoked' \/ Expired(req[p].token, now)'
    <2> SUFFICES ASSUME req[p].stage = "read", req[p].spent, Expired(req[p].token, now)
                 PROVE  Expired(req[p].token, now)'
      BY <1>1 DEF RequestInv
    <2>1. req[p].token \in issued
      BY <1>1 DEF RequestInv
    <2>2. info[req[p].token] \in Row /\ now \in Nat /\ now' \in Nat
      BY <2>1, SessionsAssumption DEF IInv, TypeOK
    <2>3. info[req[p].token].expires \in Nat
      BY <2>2, SessionsAssumption DEF Row
    <2>4. QED
      BY <2>1, <2>2, <2>3 DEF Expired
  <1>5. req[p].token # NoRow => info'[req[p].token] = info[req[p].token]
    BY <1>1 DEF RequestInv
  <1>6. req[p].token # NoRow => req[p].token \in issued'
    BY <1>1 DEF RequestInv
  <1>7. req[p].stage \in {"retire", "commit"} => req[p].token # NoRow
    BY <1>1 DEF RequestInv, Rotating
  <1>8. \A r \in req[p].seen : info'[r] = info[r]
    BY <1>1 DEF RequestInv, FamilyRows
  <1>9. QED
    BY <1>1, <1>3, <1>4, <1>5, <1>6, <1>7, <1>8 DEF RequestInv

\* Rows already issued keep their lineage when rows are only added.
LEMMA LineageFrame ==
  ASSUME IInv, NEW r \in issued, revoked \subseteq revoked',
         \A s \in issued : info'[s] = info[s], info'[r].parent # NoRow
  PROVE  /\ info'[r].parent \in revoked'
         /\ info'[r].family = info'[info'[r].parent].family
         /\ info'[r].mfa = info'[info'[r].parent].mfa
  BY DEF IInv, TypeOK, SuccessorRetiresParent, SecondFactorInherited

-----------------------------------------------------------------------------
LEMMA InitIInv == Init => IInv
  <1> SUFFICES ASSUME Init PROVE IInv
    OBVIOUS
  <1>1. TypeOK
    BY IdleIsRequest, AbsentIsRow, SessionsAssumption DEF Init, TypeOK
  <1>2. \A q \in Requests : req[q] = Idle
    BY DEF Init
  <1>3. ASSUME NEW q \in Requests PROVE RequestInv(q)
    <2>1. /\ Idle.stage = "idle" /\ Idle.result = "none" /\ Idle.token = NoRow
          /\ Idle.new = NoRow /\ Idle.targets = {} /\ Idle.locks = {} /\ Idle.seen = {}
      BY DEF Idle
    <2>2. QED
      BY <1>2, <2>1 DEF RequestInv, Rotating
  <1>4. QED
    BY <1>1, <1>2, <1>3 DEF IInv, Idle, Init, SuccessorRetiresParent,
       SecondFactorInherited, SpentTokenNeverRotated, RetryNeverRotates, RevocationCoversWhatItSaw

-----------------------------------------------------------------------------
(* A step of request q: what is left to show about q and about new rows.   *)
LEMMA Compose ==
  ASSUME IInv, TypeOK', NEW q \in Requests,
         \A p \in Requests \ {q} : req'[p] = req[p],
         issued \subseteq issued', revoked \subseteq revoked',
         notified \subseteq notified', now <= now',
         \A r \in issued : info'[r] = info[r],
         \A p \in Requests \ {q} : req[p].stage \in {"retire", "commit"} =>
            req[p].new \notin issued' /\ info'[req[p].new] = info[req[p].new],
         \A r \in issued' \ issued : info'[r].parent # NoRow =>
            /\ info'[r].parent \in revoked'
            /\ info'[r].family = info'[info'[r].parent].family
            /\ info'[r].mfa = info'[info'[r].parent].mfa,
         RequestInv(q)',
         \A p \in Requests \ {q} : req'[q].new # NoRow => req'[q].new # req[p].new,
         req'[q].result = "rotated" => ~req'[q].spent,
         req'[q].result \in {"reused", "revoked"} => req'[q].seen \subseteq revoked',
         req'[q].result = "reused" => req'[q].family \in notified'
  PROVE  IInv'
  <1>1. \A r \in issued' : info'[r].parent # NoRow =>
            /\ info'[r].parent \in revoked'
            /\ info'[r].family = info'[info'[r].parent].family
            /\ info'[r].mfa = info'[info'[r].parent].mfa
    BY LineageFrame
  <1>2. SuccessorRetiresParent' /\ SecondFactorInherited'
    BY <1>1 DEF SuccessorRetiresParent, SecondFactorInherited
  <1>3. SpentTokenNeverRotated'
    BY DEF IInv, SpentTokenNeverRotated
  <1>4. RevocationCoversWhatItSaw'
    BY DEF IInv, RevocationCoversWhatItSaw
  <1>5. ASSUME NEW p \in Requests PROVE RequestInv(p)'
    <2>1. CASE p = q
      BY <2>1
    <2>2. CASE p # q
      BY <2>2, Frame
    <2>3. QED
      BY <2>1, <2>2
  <1>6. ASSUME NEW a \in Requests, NEW b \in Requests,
               req'[a].new = req'[b].new, req'[a].new # NoRow
        PROVE  a = b
    BY <1>6 DEF IInv
  <1>7. RetryNeverRotates'
    BY <1>5 DEF RetryNeverRotates, RequestInv
  <1>8. QED
    BY <1>2, <1>3, <1>4, <1>5, <1>6, <1>7 DEF IInv

LEMMA LoginStep ==
  ASSUME IInv, NEW f \in Families, NEW m \in BOOLEAN, Login(f, m)
  PROVE  IInv'
  <1>1. PICK r \in FreshRows :
          /\ info' = [info EXCEPT ![r] = [family |-> f, parent |-> NoRow, mfa |-> m,
                                          expires |-> now + RefreshLifetime(f)]]
          /\ issued' = issued \cup {r}
          /\ held' = held \cup {r}
    BY DEF Login, InsertSession
  <1>2. UNCHANGED <<now, revoked, notified, req, appending>>
    BY DEF Login, InsertSession
  <1>3. r \in Rows /\ r \notin issued /\ \A p \in Requests : req[p].new # r
    BY <1>1 DEF FreshRows
  <1>4. [family |-> f, parent |-> NoRow, mfa |-> m,
         expires |-> now + RefreshLifetime(f)] \in Row
    BY LifetimeBounds DEF Row, IInv, TypeOK
  <1>5. info' \in [Rows -> Row]
    BY <1>1, <1>3, <1>4 DEF IInv, TypeOK
  <1>6. TypeOK'
    BY <1>1, <1>2, <1>3, <1>5 DEF IInv, TypeOK
  <1>7. info'[r].parent = NoRow /\ \A s \in Rows \ {r} : info'[s] = info[s]
    BY <1>1, <1>3 DEF IInv, TypeOK
  <1>8. \A s \in issued : info'[s] = info[s]
    BY <1>3, <1>7 DEF IInv, TypeOK
  <1>9. SuccessorRetiresParent' /\ SecondFactorInherited'
    <2>1. \A s \in issued : info'[s].parent # NoRow =>
            /\ info'[s].parent \in revoked'
            /\ info'[s].family = info'[info'[s].parent].family
            /\ info'[s].mfa = info'[info'[s].parent].mfa
      BY <1>2, <1>8, LineageFrame
    <2>2. QED
      BY <1>1, <1>7, <2>1 DEF SuccessorRetiresParent, SecondFactorInherited
  <1>10. SpentTokenNeverRotated' /\ RevocationCoversWhatItSaw'
    BY <1>2 DEF IInv, SpentTokenNeverRotated, RevocationCoversWhatItSaw
  <1>11. ASSUME NEW p \in Requests PROVE RequestInv(p)'
    <2>1. req[p].stage \in {"retire", "commit"} =>
            req[p].new \notin issued' /\ info'[req[p].new] = info[req[p].new]
      BY <1>1, <1>3, <1>7 DEF IInv, RequestInv
    <2>2. now <= now'
      BY <1>2, SessionsAssumption DEF IInv, TypeOK
    <2>3. QED
      BY <1>1, <1>2, <1>6, <1>8, <2>1, <2>2, Frame
  <1>12. RetryNeverRotates'
    BY <1>11 DEF RetryNeverRotates, RequestInv
  <1>13. QED
    BY <1>2, <1>6, <1>9, <1>10, <1>11, <1>12 DEF IInv

LEMMA TickStep == ASSUME IInv, Tick PROVE IInv'
  <1>1. UNCHANGED <<issued, revoked, info, held, notified, req, appending>>
    BY DEF Tick
  <1>2. TypeOK' /\ now <= now'
    BY SessionsAssumption DEF IInv, TypeOK, Tick
  <1>3. ASSUME NEW p \in Requests PROVE RequestInv(p)'
    <2>1. req[p].stage \in {"retire", "commit"} => req[p].new \notin issued'
      BY <1>1 DEF IInv, RequestInv
    <2>2. QED
      BY <1>1, <1>2, <2>1, Frame
  <1>4. RetryNeverRotates'
    BY <1>3 DEF RetryNeverRotates, RequestInv
  <1>5. QED
    BY <1>1, <1>2, <1>3, <1>4 DEF IInv, SuccessorRetiresParent, SecondFactorInherited,
       SpentTokenNeverRotated, RevocationCoversWhatItSaw

\* A step that changes none of these leaves every conjunct of IInv as it is.
LEMMA AuditorStep ==
  ASSUME IInv, UNCHANGED <<now, issued, revoked, info, held, notified, req>>,
         appending' \subseteq Auditors
  PROVE  IInv'
  <1>1. TypeOK'
    BY DEF IInv, TypeOK
  <1>2. QED
    BY <1>1 DEF IInv, RequestInv, SuccessorRetiresParent, SecondFactorInherited,
       SpentTokenNeverRotated, RetryNeverRotates, RevocationCoversWhatItSaw, FamilyRows, Expired

\* The premises of Compose that hold of a step that leaves the table alone.
LEMMA TableUnchanged ==
  ASSUME IInv, UNCHANGED <<now, issued, revoked, info, held, notified, appending>>
  PROVE  /\ issued \subseteq issued' /\ revoked \subseteq revoked'
         /\ notified \subseteq notified' /\ now <= now'
         /\ \A r \in issued : info'[r] = info[r]
         /\ \A p \in Requests : req[p].stage \in {"retire", "commit"} =>
               req[p].new \notin issued' /\ info'[req[p].new] = info[req[p].new]
         /\ issued' \ issued = {}
         /\ req' \in [Requests -> Request] => TypeOK'
         /\ \A f \in Families : FamilyRows(f)' = FamilyRows(f)
  <1>1. now \in Nat
    BY SessionsAssumption DEF IInv, TypeOK
  <1>2. QED
    BY <1>1 DEF IInv, TypeOK, RequestInv, FamilyRows

\* A step that replaces one request by another leaves the others alone.
LEMMA OneRequestChanges ==
  ASSUME IInv, NEW q \in Requests, NEW w \in Request, req' = [req EXCEPT ![q] = w]
  PROVE  /\ req' \in [Requests -> Request] /\ req'[q] = w
         /\ \A p \in Requests \ {q} : req'[p] = req[p]
  BY DEF IInv, TypeOK

LEMMA RefreshStep ==
  ASSUME IInv, NEW q \in Requests, NEW r \in Rows, Refresh(q, r)
  PROVE  IInv'
  <1> DEFINE w == [Idle EXCEPT !.stage = "read", !.token = r, !.family = info[r].family,
                               !.seen = FamilyRows(info[r].family),
                               !.spent = r \in revoked \/ now >= info[r].expires]
  <1>1. r \in issued /\ info[r] \in Row
    BY DEF Refresh, IInv, TypeOK
  <1>2. w \in Request
    BY <1>1, IdleIsRequest DEF Request, Stages, InTransaction, FamilyRows, Row, IInv, TypeOK
  <1>3. /\ w.stage = "read" /\ w.token = r /\ w.family = info[r].family
        /\ w.seen = FamilyRows(info[r].family) /\ w.spent = (r \in revoked \/ now >= info[r].expires)
        /\ w.result = "none" /\ w.new = NoRow /\ w.targets = {} /\ w.locks = {}
    BY DEF Idle
  <1>4. req' = [req EXCEPT ![q] = w]
        /\ UNCHANGED <<now, issued, revoked, info, held, notified, appending>>
    BY DEF Refresh
  <1> HIDE DEF w
  <1>5. req' \in [Requests -> Request] /\ req'[q] = w
        /\ \A p \in Requests \ {q} : req'[p] = req[p]
    BY <1>2, <1>4 DEF IInv, TypeOK
  <1>6. RequestInv(q)'
    <2>1. r # NoRow /\ now \in Nat /\ info[r].expires \in Nat
      BY <1>1, SessionsAssumption DEF Row, IInv, TypeOK
    <2>2. (r \in revoked \/ now >= info[r].expires) = (r \in revoked \/ Expired(r, now))
      BY <2>1 DEF Expired
    <2>3. r \notin revoked => \A s \in FamilyRows(info[r].family) : info[s].parent # r
      BY <2>1 DEF IInv, SuccessorRetiresParent, FamilyRows
    <2>4. QED
      BY <1>1, <1>3, <1>4, <1>5, <2>1, <2>2, <2>3 DEF RequestInv, Rotating, FamilyRows, Expired
  <1>7. QED
    BY <1>3, <1>4, <1>5, <1>6, TableUnchanged, Compose

LEMMA RevocationRequestStep ==
  ASSUME IInv, NEW q \in Requests, NEW f \in Families,
         Logout(q, f) \/ RevokeMySession(q, f)
  PROVE  IInv'
  <1> DEFINE w == [Idle EXCEPT !.stage = "scan", !.family = f, !.seen = FamilyRows(f)]
  <1>1. w \in Request
    BY IdleIsRequest DEF Request, Stages, InTransaction, Revoking, FamilyRows, IInv, TypeOK
  <1>2. /\ w.stage = "scan" /\ w.token = NoRow /\ w.family = f /\ w.seen = FamilyRows(f)
        /\ w.result = "none" /\ w.new = NoRow /\ w.targets = {} /\ w.locks = {}
    BY DEF Idle
  <1>3. req' = [req EXCEPT ![q] = w]
        /\ UNCHANGED <<now, issued, revoked, info, held, notified, appending>>
    BY DEF Logout, RevokeMySession
  <1> HIDE DEF w
  <1>4. req' \in [Requests -> Request] /\ req'[q] = w
        /\ \A p \in Requests \ {q} : req'[p] = req[p]
    BY <1>1, <1>3 DEF IInv, TypeOK
  <1>5. RequestInv(q)'
    BY <1>2, <1>3, <1>4 DEF RequestInv, Rotating, FamilyRows
  <1>6. QED
    BY <1>2, <1>3, <1>4, <1>5, TableUnchanged, Compose

\* Ending a request with an outcome that promises nothing.
LEMMA EndStep ==
  ASSUME IInv, NEW q \in Requests, NEW result \in {"invalid", "failed"},
         req' = Finish(q, result),
         UNCHANGED <<now, issued, revoked, held, notified, appending>>,
         info' = [r \in Rows |-> IF r = req[q].new THEN Absent ELSE info[r]],
         req[q].new \notin issued
  PROVE  IInv'
  <1>1. /\ req' \in [Requests -> Request]
        /\ \A p \in Requests \ {q} : req'[p] = req[p]
        /\ req'[q].stage = "done" /\ req'[q].result = result /\ req'[q].token = NoRow
        /\ req'[q].new = NoRow /\ req'[q].targets = {} /\ req'[q].locks = {}
        /\ req'[q].family = req[q].family /\ req'[q].seen = req[q].seen
    BY FinishRecord DEF Results
  <1>2. TypeOK'
    BY <1>1, AbsentIsRow DEF IInv, TypeOK
  <1>3. \A r \in issued : info'[r] = info[r]
    BY DEF IInv, TypeOK
  <1>4. \A p \in Requests \ {q} : req[p].stage \in {"retire", "commit"} =>
            req[p].new \notin issued' /\ info'[req[p].new] = info[req[p].new]
    <2> SUFFICES ASSUME NEW p \in Requests \ {q}, req[p].stage \in {"retire", "commit"}
                 PROVE  req[p].new \notin issued' /\ info'[req[p].new] = info[req[p].new]
      OBVIOUS
    <2>1. req[p].new \in Rows \ issued
      BY DEF IInv, RequestInv
    <2>2. req[p].new # req[q].new
      BY <2>1, SessionsAssumption DEF IInv
    <2>3. QED
      BY <2>1, <2>2
  <1>5. (req[q].seen \subseteq FamilyRows(req[q].family))'
    <2>1. RequestInv(q)
      BY DEF IInv
    <2>2. issued' = issued
      OBVIOUS
    <2>3. QED
      BY <1>1, <1>3, <2>1, <2>2 DEF RequestInv, FamilyRows
  <1>6. RequestInv(q)'
    BY <1>1, <1>5 DEF RequestInv, Rotating
  <1>7. now <= now' /\ issued' \ issued = {}
    BY SessionsAssumption DEF IInv, TypeOK
  <1>8. QED
    BY <1>1, <1>2, <1>3, <1>4, <1>6, <1>7, Compose

LEMMA AbortStep ==
  ASSUME IInv, NEW q \in Requests, Abort(q)
  PROVE  IInv'
  <1>1. req[q].new \notin issued
    BY SessionsAssumption DEF Abort, InTransaction, Rotating, Revoking, IInv, RequestInv, TypeOK
  <1>2. QED
    BY <1>1, EndStep DEF Abort

LEMMA RotateReadStep ==
  ASSUME IInv, NEW q \in Requests, RotateRead(q)
  PROVE  IInv'
  <1>1. UNCHANGED <<now, issued, revoked, info, held, notified, appending>> /\ req[q].stage = "read"
    BY DEF RotateRead
  <1>2. req[q] \in Request /\ RequestInv(q)
    BY DEF IInv, TypeOK
  <1>3. CASE req[q].token \in revoked
    <2>1. req' = [req EXCEPT ![q].stage = "scan"]
      BY <1>3 DEF RotateRead
    <2>2. req' \in [Requests -> Request]
      <3>1. req' = [req EXCEPT ![q] = [req[q] EXCEPT !.stage = "scan"]]
        BY <2>1 DEF IInv, TypeOK
      <3>2. "scan" \in Stages
        BY <1>2, SessionsAssumption DEF Stages, InTransaction, Rotating, Revoking
      <3>3. [req[q] EXCEPT !.stage = "scan"] \in Request
        BY <1>2, <3>2 DEF Request
      <3>4. QED
        BY <3>1, <3>3, OneRequestChanges
    <2>3. RequestInv(q)'
      BY <1>1, <1>2, <2>1 DEF RequestInv, Rotating, FamilyRows, IInv, TypeOK
    <2>4. req'[q].result = "none" /\ req'[q].new = NoRow
          /\ \A p \in Requests \ {q} : req'[p] = req[p]
      BY <1>1, <1>2, <2>1 DEF RequestInv, IInv, TypeOK
    <2>5. QED
      BY <1>1, <2>2, <2>3, <2>4, TableUnchanged, Compose
  <1>4. CASE req[q].token \notin revoked /\ Expired(req[q].token, now)
    <2>1. req' = Finish(q, "invalid")
      BY <1>4 DEF RotateRead
    <2>2. req[q].new = NoRow
      BY <1>1, <1>2 DEF RequestInv
    <2>3. info' = [r \in Rows |-> IF r = req[q].new THEN Absent ELSE info[r]]
      BY <1>1, <2>2, SessionsAssumption DEF IInv, TypeOK
    <2>4. req[q].new \notin issued
      BY <2>2, SessionsAssumption DEF IInv, TypeOK
    <2>5. QED
      BY <1>1, <2>1, <2>3, <2>4, EndStep
  <1>5. CASE req[q].token \notin revoked /\ ~Expired(req[q].token, now)
    <2>1. req' = [req EXCEPT ![q].stage = "insert", ![q].at = now]
      BY <1>5 DEF RotateRead
    <2>2. req' \in [Requests -> Request]
      <3>1. req' = [req EXCEPT ![q] = [req[q] EXCEPT !.stage = "insert", !.at = now]]
        BY <2>1 DEF IInv, TypeOK
      <3>2. "insert" \in Stages /\ now \in 0..MaxTime
        BY <1>2 DEF Stages, InTransaction, Rotating, Revoking, IInv, TypeOK
      <3>3. [req[q] EXCEPT !.stage = "insert", !.at = now] \in Request
        BY <1>2, <3>2 DEF Request
      <3>4. QED
        BY <3>1, <3>3, OneRequestChanges
    <2>3. RequestInv(q)'
      BY <1>1, <1>2, <1>5, <2>1 DEF RequestInv, Rotating, FamilyRows, IInv, TypeOK
    <2>4. req'[q].result = "none" /\ req'[q].new = NoRow
          /\ \A p \in Requests \ {q} : req'[p] = req[p]
      BY <1>1, <1>2, <2>1 DEF RequestInv, IInv, TypeOK
    <2>5. QED
      BY <1>1, <2>2, <2>3, <2>4, TableUnchanged, Compose
  <1>6. QED
    BY <1>3, <1>4, <1>5

LEMMA RotateInsertStep ==
  ASSUME IInv, NEW q \in Requests, RotateInsert(q)
  PROVE  IInv'
  <1> DEFINE old == req[q].token
             row == [family |-> info[old].family, parent |-> old, mfa |-> info[old].mfa,
                     expires |-> req[q].at + RefreshLifetime(info[old].family)]
  <1>1. req[q].stage = "insert" /\ UNCHANGED <<now, issued, revoked, held, notified, appending>>
    BY DEF RotateInsert, InsertSession
  <1>2. PICK r \in FreshRows :
          info' = [info EXCEPT ![r] = row]
          /\ req' = [req EXCEPT ![q].stage = "retire", ![q].new = r]
    BY DEF RotateInsert, InsertSession
  <1>3. r \in Rows \ issued /\ \A p \in Requests : req[p].new # r
    BY <1>2 DEF FreshRows
  <1>4. req[q] \in Request /\ RequestInv(q)
    BY DEF IInv, TypeOK
  <1>5. old \in issued /\ info[old] \in Row /\ info[old].family = req[q].family
    BY <1>1, <1>4 DEF RequestInv, Rotating, IInv, TypeOK
  <1>6. row \in Row
    BY <1>4, <1>5, LifetimeBounds DEF Row, Request, IInv, TypeOK
  <1>7. row.family = info[old].family /\ row.parent = old /\ row.mfa = info[old].mfa
    OBVIOUS
  <1> HIDE DEF row, old
  <1>8. info' \in [Rows -> Row] /\ info'[r] = row /\ \A s \in Rows \ {r} : info'[s] = info[s]
    BY <1>2, <1>3, <1>6 DEF IInv, TypeOK
  <1>9. /\ req' \in [Requests -> Request]
        /\ \A p \in Requests \ {q} : req'[p] = req[p]
        /\ req'[q] = [req[q] EXCEPT !.stage = "retire", !.new = r]
    BY <1>2, <1>3, <1>4 DEF IInv, TypeOK, Request, Stages, InTransaction, Rotating
  <1>10. /\ req'[q].stage = "retire" /\ req'[q].new = r /\ req'[q].result = req[q].result
         /\ req'[q].token = req[q].token /\ req'[q].family = req[q].family
         /\ req'[q].targets = req[q].targets /\ req'[q].locks = req[q].locks
         /\ req'[q].seen = req[q].seen /\ req'[q].spent = req[q].spent
    BY <1>4, <1>9 DEF Request
  <1>11. TypeOK'
    BY <1>1, <1>8, <1>9 DEF IInv, TypeOK
  <1>12. \A s \in issued : info'[s] = info[s]
    BY <1>3, <1>8 DEF IInv, TypeOK
  <1>13. RequestInv(q)'
    BY <1>1, <1>3, <1>4, <1>5, <1>7, <1>8, <1>10, <1>12
    DEF RequestInv, Rotating, FamilyRows, old
  <1>14. \A p \in Requests \ {q} : req[p].stage \in {"retire", "commit"} =>
            req[p].new \notin issued' /\ info'[req[p].new] = info[req[p].new]
    BY <1>1, <1>3, <1>8 DEF IInv, RequestInv
  <1>15. now <= now' /\ issued' \ issued = {} /\ req'[q].result = "none"
    BY <1>1, <1>4, <1>10, SessionsAssumption DEF IInv, TypeOK, RequestInv
  <1>16. QED
    BY <1>1, <1>3, <1>9, <1>10, <1>11, <1>12, <1>13, <1>14, <1>15, Compose

LEMMA RotateRetireStep ==
  ASSUME IInv, NEW q \in Requests, RotateRetire(q)
  PROVE  IInv'
  <1>1. UNCHANGED <<now, issued, revoked, info, held, notified, appending>> /\ req[q].stage = "retire"
    BY DEF RotateRetire
  <1>2. req[q] \in Request /\ RequestInv(q)
    BY DEF IInv, TypeOK
  <1>3. req[q].token \in issued
    BY <1>1, <1>2 DEF RequestInv, Rotating
  <1>4. PICK locks \in SUBSET {req[q].token} :
          /\ req[q].token \in revoked \cup locks
          /\ req' = [req EXCEPT ![q].stage = "commit", ![q].locks = locks]
    BY DEF RotateRetire, RevokeSession
  <1>5. /\ req' \in [Requests -> Request] /\ \A p \in Requests \ {q} : req'[p] = req[p]
        /\ req'[q] = [req[q] EXCEPT !.stage = "commit", !.locks = locks]
    <2>1. req' = [req EXCEPT ![q] = [req[q] EXCEPT !.stage = "commit", !.locks = locks]]
      BY <1>4 DEF IInv, TypeOK
    <2>2. "commit" \in Stages /\ locks \in SUBSET Rows
      BY <1>3, <1>4 DEF Stages, InTransaction, Rotating, Revoking, IInv, TypeOK
    <2>3. [req[q] EXCEPT !.stage = "commit", !.locks = locks] \in Request
      BY <1>2, <2>2 DEF Request
    <2>4. QED
      BY <2>1, <2>3, OneRequestChanges
  <1>6. RequestInv(q)'
    BY <1>1, <1>2, <1>3, <1>4, <1>5 DEF RequestInv, Rotating, FamilyRows, Request
  <1>7. req'[q].result = "none" /\ req'[q].new = req[q].new /\ req[q].new # NoRow
    BY <1>1, <1>2, <1>5, SessionsAssumption DEF RequestInv, Request
  <1>8. \A p \in Requests \ {q} : req'[q].new # req[p].new
    BY <1>7 DEF IInv
  <1>9. QED
    BY <1>1, <1>5, <1>6, <1>7, <1>8, TableUnchanged, Compose

LEMMA RotateCommitStep ==
  ASSUME IInv, NEW q \in Requests, RotateCommit(q)
  PROVE  IInv'
  <1> DEFINE n == req[q].new
  <1>1. /\ req[q].stage = "commit" /\ UNCHANGED <<now, info, held, notified, appending>>
        /\ issued' = issued \cup {n} /\ revoked' = revoked \cup req[q].locks
        /\ req' = [req EXCEPT ![q].stage = "respond", ![q].locks = {}]
    BY DEF RotateCommit
  <1>2. req[q] \in Request /\ RequestInv(q)
    BY DEF IInv, TypeOK
  <1>3. /\ n \in Rows \ issued /\ req[q].token \in issued /\ req[q].locks \subseteq issued
        /\ req[q].token \in revoked' /\ info[n].parent = req[q].token
        /\ info[n].family = info[req[q].token].family
        /\ info[n].mfa = info[req[q].token].mfa /\ ~req[q].spent
    BY <1>1, <1>2 DEF RequestInv, Rotating
  <1>4. req' \in [Requests -> Request] /\ \A p \in Requests \ {q} : req'[p] = req[p]
    <2>1. req' = [req EXCEPT ![q] = [req[q] EXCEPT !.stage = "respond", !.locks = {}]]
      BY <1>1 DEF IInv, TypeOK
    <2>2. "respond" \in Stages /\ {} \in SUBSET Rows
      BY <1>2 DEF Stages, InTransaction, Rotating, Revoking
    <2>3. [req[q] EXCEPT !.stage = "respond", !.locks = {}] \in Request
      BY <1>2, <2>2 DEF Request
    <2>4. QED
      BY <2>1, <2>3, OneRequestChanges
  <1>5. TypeOK'
    BY <1>1, <1>3, <1>4 DEF IInv, TypeOK
  <1>6. RequestInv(q)'
    BY <1>1, <1>2, <1>3, <1>4 DEF RequestInv, Rotating, FamilyRows, IInv, TypeOK
  <1>7. \A p \in Requests \ {q} : req[p].new # n
    BY <1>3, SessionsAssumption DEF IInv
  <1>8. \A p \in Requests \ {q} : req[p].stage \in {"retire", "commit"} =>
            req[p].new \notin issued' /\ info'[req[p].new] = info[req[p].new]
    BY <1>1, <1>7 DEF IInv, RequestInv
  <1>9. req'[q].result = "none" /\ req'[q].new = n
    BY <1>1, <1>2 DEF RequestInv, IInv, TypeOK
  <1>10. now <= now' /\ issued' \ issued = {n}
    BY <1>1, <1>3, SessionsAssumption DEF IInv, TypeOK
  <1>11. \A r \in issued' \ issued : info'[r].parent # NoRow =>
            /\ info'[r].parent \in revoked'
            /\ info'[r].family = info'[info'[r].parent].family
            /\ info'[r].mfa = info'[info'[r].parent].mfa
    BY <1>1, <1>3, <1>10
  <1> HIDE DEF n
  <1>12. QED
    BY <1>1, <1>4, <1>5, <1>6, <1>7, <1>8, <1>9, <1>10, <1>11, Compose

LEMMA RespondStep ==
  ASSUME IInv, NEW q \in Requests, Respond(q)
  PROVE  IInv'
  <1>1. req[q].stage = "respond" /\ UNCHANGED <<now, issued, revoked, info, notified, appending>>
        /\ req' = Finish(q, "rotated") /\ held' \subseteq held \cup {req[q].new}
    BY DEF Respond
  <1>2. RequestInv(q)
    BY DEF IInv
  <1>3. /\ req' \in [Requests -> Request]
        /\ \A p \in Requests \ {q} : req'[p] = req[p]
        /\ req'[q].stage = "done" /\ req'[q].result = "rotated" /\ req'[q].token = NoRow
        /\ req'[q].new = NoRow /\ req'[q].targets = {} /\ req'[q].locks = {}
        /\ req'[q].family = req[q].family /\ req'[q].seen = req[q].seen
        /\ req'[q].spent = req[q].spent
    BY <1>1, FinishRecord DEF Results
  <1>4. req[q].new \in issued /\ ~req[q].spent
    BY <1>1, <1>2 DEF RequestInv
  <1>5. TypeOK'
    BY <1>1, <1>3, <1>4 DEF IInv, TypeOK
  <1>6. RequestInv(q)'
    BY <1>1, <1>2, <1>3 DEF RequestInv, Rotating, FamilyRows
  <1>7. \A p \in Requests : req[p].stage \in {"retire", "commit"} => req[p].new \notin issued'
    BY <1>1 DEF IInv, RequestInv
  <1>8. now <= now' /\ issued' \ issued = {}
    BY <1>1, SessionsAssumption DEF IInv, TypeOK
  <1>9. QED
    BY <1>1, <1>3, <1>4, <1>5, <1>6, <1>7, <1>8, Compose

\* Where the scan of a family-wide UPDATE goes next: a row that is left, or its end.
LEMMA ComesToRecord ==
  ASSUME NEW w \in Request, NEW left \in SUBSET Rows, NEW v \in ComesTo(w, left)
  PROVE  /\ v \in Request
         /\ v.stage \in {"lock", "audit", "revoke"}
         /\ v.stage = "lock" => v.next \in left
         /\ v.stage # "lock" => left = {}
         /\ v.result = w.result /\ v.token = w.token /\ v.family = w.family /\ v.new = w.new
         /\ v.targets = w.targets /\ v.locks = w.locks
         /\ v.seen = w.seen /\ v.spent = w.spent
  <1>1. {"lock", "audit", "revoke"} \subseteq Stages
    BY DEF Stages, InTransaction, Revoking
  <1>2. CASE left # {}
    <2>1. PICK r \in left : v = [w EXCEPT !.stage = "lock", !.next = r]
      BY <1>2 DEF ComesTo
    <2>2. QED
      BY <1>1, <2>1 DEF Request
  <1>3. CASE left = {}
    <2>1. PICK stage \in {"audit", "revoke"} : v = [w EXCEPT !.stage = stage, !.next = NoRow]
      BY <1>3 DEF ComesTo
    <2>2. QED
      BY <1>1, <1>3, <2>1 DEF Request
  <1>4. QED
    BY <1>2, <1>3

\* The two steps that move the scan on, from the record w with the rows `left` to come.
LEMMA ScanMoves ==
  ASSUME IInv, NEW q \in Requests, NEW w \in Request, NEW left \in SUBSET Rows,
         UNCHANGED <<now, issued, revoked, info, held, notified, appending>>,
         \E v \in ComesTo(w, left) : req' = [req EXCEPT ![q] = v],
         req[q].stage \in {"scan", "lock"},
         w.result = req[q].result, w.token = req[q].token, w.family = req[q].family,
         w.new = req[q].new, w.seen = req[q].seen, w.spent = req[q].spent,
         w.targets \subseteq issued, w.locks \subseteq w.targets,
         left = w.targets \ w.locks, w.seen \subseteq w.targets \cup revoked
  PROVE  IInv'
  <1>1. PICK v \in ComesTo(w, left) : req' = [req EXCEPT ![q] = v]
    OBVIOUS
  <1>2. /\ v \in Request
        /\ v.stage \in {"lock", "audit", "revoke"}
        /\ v.stage = "lock" => v.next \in left
        /\ v.stage # "lock" => left = {}
        /\ v.result = w.result /\ v.token = w.token /\ v.family = w.family /\ v.new = w.new
        /\ v.targets = w.targets /\ v.locks = w.locks
        /\ v.seen = w.seen /\ v.spent = w.spent
    BY ComesToRecord
  <1>3. /\ req' \in [Requests -> Request] /\ req'[q] = v
        /\ \A p \in Requests \ {q} : req'[p] = req[p]
    BY <1>1, <1>2, OneRequestChanges
  <1>4. RequestInv(q) /\ req[q] \in Request
    BY DEF IInv, TypeOK
  <1>5. /\ v.token # NoRow => v.token \in issued /\ info[v.token].family = v.family
        /\ v.new = NoRow /\ v.result = "none"
        /\ v.targets \cup v.locks \subseteq issued
        /\ v.stage = "lock" => v.next \in v.targets /\ v.locks \subseteq v.targets
        /\ v.stage \in {"audit", "revoke"} => v.locks = v.targets
        /\ v.seen \subseteq {r \in issued : info[r].family = v.family}
        /\ v.seen \subseteq v.targets \cup revoked
        /\ v.token # NoRow /\ ~v.spent => \A r \in v.seen : info[r].parent # v.token
    <2>1. req[q].new = NoRow /\ req[q].result = "none"
      BY <1>4 DEF RequestInv
    <2>2. v.token # NoRow => v.token \in issued /\ info[v.token].family = v.family
      BY <1>2, <1>4 DEF RequestInv
    <2>3. v.token # NoRow /\ ~v.spent => \A r \in v.seen : info[r].parent # v.token
      BY <1>2, <1>4 DEF RequestInv
    <2>4. v.seen \subseteq {r \in issued : info[r].family = v.family}
      BY <1>2, <1>4 DEF RequestInv, FamilyRows
    <2>5. v.stage = "lock" => v.next \in v.targets
      BY <1>2
    <2>6. left = {} => v.locks = v.targets
      BY <1>2
    <2>7. v.targets \cup v.locks \subseteq issued /\ v.seen \subseteq v.targets \cup revoked
      BY <1>2
    <2>8. QED
      BY <1>2, <2>1, <2>2, <2>3, <2>4, <2>5, <2>6, <2>7
  <1>6. issued' = issued /\ revoked' = revoked /\ info' = info /\ now' = now
    OBVIOUS
  <1>7. RequestInv(q)'
    BY <1>2, <1>3, <1>5, <1>6 DEF RequestInv, Rotating, FamilyRows
  <1>8. req'[q].result = "none" /\ req'[q].new = NoRow
    BY <1>3, <1>5
  <1>9. QED
    BY <1>3, <1>7, <1>8, TableUnchanged, Compose

LEMMA FamilyScanStep ==
  ASSUME IInv, NEW q \in Requests, FamilyScan(q)
  PROVE  IInv'
  <1> DEFINE live == LiveRows(req[q].family)
             w == [req[q] EXCEPT !.targets = live]
  <1>1. /\ UNCHANGED <<now, issued, revoked, info, held, notified, appending>>
        /\ req[q].stage = "scan"
        /\ \E v \in ComesTo(w, live) : req' = [req EXCEPT ![q] = v]
    BY DEF FamilyScan
  <1>2. req[q] \in Request /\ RequestInv(q)
    BY DEF IInv, TypeOK
  <1>3. live \subseteq issued /\ live \subseteq Rows /\ req[q].seen \subseteq live \cup revoked
    BY <1>2 DEF LiveRows, FamilyRows, RequestInv, IInv, TypeOK
  <1>4. /\ w \in Request /\ w.targets = live /\ w.locks = {} /\ w.seen = req[q].seen
        /\ w.result = req[q].result /\ w.token = req[q].token /\ w.family = req[q].family
        /\ w.new = req[q].new /\ w.spent = req[q].spent
    BY <1>1, <1>2, <1>3 DEF Request, RequestInv
  <1> HIDE DEF w, live
  <1>5. QED
    BY <1>1, <1>3, <1>4, ScanMoves

LEMMA FamilyLockStep ==
  ASSUME IInv, NEW q \in Requests, FamilyLock(q)
  PROVE  IInv'
  <1> DEFINE locks == req[q].locks \cup {req[q].next}
             w == [req[q] EXCEPT !.locks = locks]
  <1>1. /\ UNCHANGED <<now, issued, revoked, info, held, notified, appending>>
        /\ req[q].stage = "lock"
        /\ \E v \in ComesTo(w, req[q].targets \ locks) : req' = [req EXCEPT ![q] = v]
    BY DEF FamilyLock
  <1>2. req[q] \in Request /\ RequestInv(q)
    BY DEF IInv, TypeOK
  <1>3. /\ req[q].targets \subseteq issued /\ req[q].targets \subseteq Rows
        /\ locks \subseteq req[q].targets /\ req[q].seen \subseteq req[q].targets \cup revoked
    BY <1>1, <1>2 DEF RequestInv, Request
  <1>4. /\ w \in Request /\ w.targets = req[q].targets /\ w.locks = locks /\ w.seen = req[q].seen
        /\ w.result = req[q].result /\ w.token = req[q].token /\ w.family = req[q].family
        /\ w.new = req[q].new /\ w.spent = req[q].spent
    BY <1>2, <1>3 DEF Request
  <1> DEFINE left == req[q].targets \ locks
  <1>5. left \in SUBSET Rows /\ left = w.targets \ w.locks
        /\ \E v \in ComesTo(w, left) : req' = [req EXCEPT ![q] = v]
    BY <1>1, <1>3, <1>4
  <1> HIDE DEF w, locks, left
  <1>6. /\ w.targets \subseteq issued /\ w.locks \subseteq w.targets
        /\ w.seen \subseteq w.targets \cup revoked
    BY <1>3, <1>4
  <1>7. QED
    BY <1>1, <1>4, <1>5, <1>6, ScanMoves

LEMMA AppendReuseStep ==
  ASSUME IInv, NEW q \in Requests, AppendReuse(q)
  PROVE  IInv'
  <1>1. UNCHANGED <<now, issued, revoked, info, held, notified, appending>>
        /\ req[q].stage = "audit" /\ req' = [req EXCEPT ![q].stage = "revoke"]
    BY DEF AppendReuse
  <1>2. req[q] \in Request /\ RequestInv(q)
    BY DEF IInv, TypeOK
  <1>3. /\ req' \in [Requests -> Request] /\ \A p \in Requests \ {q} : req'[p] = req[p]
        /\ req'[q] = [req[q] EXCEPT !.stage = "revoke"]
    <2>1. req' = [req EXCEPT ![q] = [req[q] EXCEPT !.stage = "revoke"]]
      BY <1>1 DEF IInv, TypeOK
    <2>2. [req[q] EXCEPT !.stage = "revoke"] \in Request
      BY <1>2 DEF Request, Stages, InTransaction, Revoking
    <2>3. QED
      BY <2>1, <2>2, OneRequestChanges
  <1>4. RequestInv(q)'
    BY <1>1, <1>2, <1>3 DEF RequestInv, Rotating, FamilyRows, Request
  <1>5. req'[q].result = "none" /\ req'[q].new = NoRow
    BY <1>1, <1>2, <1>3 DEF RequestInv, Request
  <1>6. QED
    BY <1>1, <1>3, <1>4, <1>5, TableUnchanged, Compose

LEMMA FamilyCommitStep ==
  ASSUME IInv, NEW q \in Requests, FamilyCommit(q)
  PROVE  IInv'
  <1>1. /\ req[q].stage = "revoke" /\ UNCHANGED <<now, issued, info, held, appending>>
        /\ revoked' = revoked \cup req[q].locks
    BY DEF FamilyCommit
  <1>2. PICK result \in {"reused", "revoked"} :
          /\ req' = Finish(q, result)
          /\ notified' = IF result = "reused" THEN notified \cup {req[q].family} ELSE notified
    BY DEF FamilyCommit
  <1>3. req[q] \in Request /\ RequestInv(q)
    BY DEF IInv, TypeOK
  <1>4. /\ req' \in [Requests -> Request]
        /\ \A p \in Requests \ {q} : req'[p] = req[p]
        /\ req'[q].stage = "done" /\ req'[q].result = result /\ req'[q].token = NoRow
        /\ req'[q].new = NoRow /\ req'[q].targets = {} /\ req'[q].locks = {}
        /\ req'[q].family = req[q].family /\ req'[q].seen = req[q].seen
    BY <1>2, FinishRecord DEF Results
  <1>5. req[q].locks \subseteq issued /\ req[q].seen \subseteq revoked'
        /\ req[q].family \in Families
    BY <1>1, <1>3 DEF RequestInv, Request
  <1>6. TypeOK'
    BY <1>1, <1>2, <1>4, <1>5 DEF IInv, TypeOK
  <1>7. RequestInv(q)'
    BY <1>1, <1>3, <1>4 DEF RequestInv, Rotating, FamilyRows
  <1>8. \A p \in Requests : req[p].stage \in {"retire", "commit"} => req[p].new \notin issued'
    BY <1>1 DEF IInv, RequestInv
  <1>9. now <= now' /\ issued' \ issued = {}
    BY <1>1, SessionsAssumption DEF IInv, TypeOK
  <1>10. QED
    BY <1>1, <1>2, <1>4, <1>5, <1>6, <1>7, <1>8, <1>9, Compose

LEMMA NextIInv == IInv /\ [Next]_vars => IInv'
  <1> SUFFICES ASSUME IInv, [Next]_vars PROVE IInv'
    OBVIOUS
  <1>1. CASE UNCHANGED vars
    <2>1. appending' \subseteq Auditors
      BY <1>1 DEF vars, IInv, TypeOK
    <2>2. QED
      BY <1>1, <2>1, AuditorStep DEF vars
  <1>2. CASE Next
    <2>1. ASSUME NEW a \in Auditors, OtherAppends(a) \/ OtherEnds(a) PROVE IInv'
      <3>1. appending' \subseteq Auditors
        BY <2>1 DEF OtherAppends, OtherEnds
      <3>2. QED
        BY <2>1, <3>1, AuditorStep DEF OtherAppends, OtherEnds
    <2>2. QED
      BY <1>2, <2>1, LoginStep, TickStep, RefreshStep, RevocationRequestStep, AbortStep,
         RotateReadStep, RotateInsertStep, RotateRetireStep, RotateCommitStep, RespondStep,
         FamilyScanStep, FamilyLockStep, AppendReuseStep, FamilyCommitStep
      DEF Next, Step
  <1>3. QED
    BY <1>1, <1>2

THEOREM Invariance == Spec => []IInv
  <1>1. QED
    BY InitIInv, NextIInv, PTL DEF Spec

-----------------------------------------------------------------------------
\* Every variable keeps its type, for any number of tokens, families and requests.
THEOREM TypeCorrect == Spec => []TypeOK
  <1>1. IInv => TypeOK
    BY DEF IInv
  <1>2. QED
    BY Invariance, <1>1, PTL

\* Rotator.Rotate: a committed successor never stands beside a live predecessor,
\* whatever rotations, revocations and failures interleave with it.
THEOREM SuccessorRetiresParentHolds == Spec => []SuccessorRetiresParent
  <1>1. IInv => SuccessorRetiresParent
    BY DEF IInv
  <1>2. QED
    BY Invariance, <1>1, PTL

\* Rotator.Rotate carries mfa_at and family_id from row to row unchanged.
THEOREM SecondFactorInheritedHolds == Spec => []SecondFactorInherited
  <1>1. IInv => SecondFactorInherited
    BY DEF IInv
  <1>2. QED
    BY Invariance, <1>1, PTL

\* A token that is revoked or expired when its request arrives is not rotated.
THEOREM SpentTokenNeverRotatedHolds == Spec => []SpentTokenNeverRotated
  <1>1. IInv => SpentTokenNeverRotated
    BY DEF IInv
  <1>2. QED
    BY Invariance, <1>1, PTL

\* A request that rotates found no successor of its token when it arrived: a retry whose
\* first answer was lost is never a second rotation, whatever else overlaps.
THEOREM RetryNeverRotatesHolds == Spec => []RetryNeverRotates
  <1>1. IInv => RetryNeverRotates
    BY DEF IInv
  <1>2. QED
    BY Invariance, <1>1, PTL

\* Reuse, logout and DELETE /v1/me/sessions/{id} revoke every row they could see.
THEOREM RevocationCoversWhatItSawHolds == Spec => []RevocationCoversWhatItSaw
  <1>1. IInv => RevocationCoversWhatItSaw
    BY DEF IInv
  <1>2. QED
    BY Invariance, <1>1, PTL

-----------------------------------------------------------------------------
(* A quiet family stays quiet.                                             *)

\* A family-wide UPDATE and the audit entry of a reuse move on; nobody else does.
LEMMA RevocationMoves ==
  ASSUME IInv, NEW q \in Requests, FamilyScan(q) \/ FamilyLock(q) \/ AppendReuse(q)
  PROVE  /\ req'[q].stage \in {"lock", "audit", "revoke"}
         /\ req'[q].targets =
               IF req[q].stage = "scan" THEN LiveRows(req[q].family) ELSE req[q].targets
         /\ req'[q].token = req[q].token /\ req'[q].family = req[q].family
         /\ req'[q].result = req[q].result /\ req'[q].seen = req[q].seen
         /\ \A p \in Requests \ {q} : req'[p] = req[p]
  <1>1. req[q] \in Request /\ RequestInv(q)
    BY DEF IInv, TypeOK
  <1>2. CASE FamilyScan(q)
    <2> DEFINE live == LiveRows(req[q].family)
               w == [req[q] EXCEPT !.targets = live]
    <2>1. PICK v \in ComesTo(w, live) : req' = [req EXCEPT ![q] = v]
      BY <1>2 DEF FamilyScan
    <2>2. live \in SUBSET Rows /\ req[q].stage = "scan"
      BY <1>2 DEF FamilyScan, LiveRows, FamilyRows, IInv, TypeOK
    <2>3. w \in Request /\ w.targets = live /\ w.token = req[q].token
          /\ w.family = req[q].family /\ w.result = req[q].result /\ w.seen = req[q].seen
      BY <1>1, <2>2 DEF Request
    <2> HIDE DEF w, live
    <2>4. /\ v \in Request /\ v.stage \in {"lock", "audit", "revoke"} /\ v.targets = live
          /\ v.token = req[q].token /\ v.family = req[q].family
          /\ v.result = req[q].result /\ v.seen = req[q].seen
      BY <2>2, <2>3, ComesToRecord
    <2>5. req'[q] = v /\ \A p \in Requests \ {q} : req'[p] = req[p]
      BY <2>1, <2>4, OneRequestChanges
    <2>6. QED
      BY <2>2, <2>4, <2>5 DEF live
  <1>3. CASE FamilyLock(q)
    <2> DEFINE locks == req[q].locks \cup {req[q].next}
               w == [req[q] EXCEPT !.locks = locks]
    <2>1. PICK v \in ComesTo(w, req[q].targets \ locks) : req' = [req EXCEPT ![q] = v]
      BY <1>3 DEF FamilyLock
    <2>2. locks \in SUBSET Rows /\ req[q].stage = "lock" /\ req[q].targets \ locks \in SUBSET Rows
      BY <1>1, <1>3 DEF FamilyLock, RequestInv, Request
    <2>3. w \in Request /\ w.targets = req[q].targets /\ w.token = req[q].token
          /\ w.family = req[q].family /\ w.result = req[q].result /\ w.seen = req[q].seen
      BY <1>1, <2>2 DEF Request
    <2> HIDE DEF w, locks
    <2>4. /\ v \in Request /\ v.stage \in {"lock", "audit", "revoke"}
          /\ v.targets = req[q].targets
          /\ v.token = req[q].token /\ v.family = req[q].family
          /\ v.result = req[q].result /\ v.seen = req[q].seen
      BY <2>2, <2>3, ComesToRecord
    <2>5. req'[q] = v /\ \A p \in Requests \ {q} : req'[p] = req[p]
      BY <2>1, <2>4, OneRequestChanges
    <2>6. QED
      BY <2>2, <2>4, <2>5
  <1>4. CASE AppendReuse(q)
    BY <1>1, <1>4 DEF AppendReuse, IInv, TypeOK, Request
  <1>5. QED
    BY <1>2, <1>3, <1>4

LEMMA QuietStep ==
  ASSUME IInv, [Next]_vars, NEW f \in Families, Quiet(f)
  PROVE  Quiet(f)'
  <1>1. FamilyRows(f) # {} /\ FamilyRows(f) \subseteq revoked
        /\ \A q \in Requests : req[q].stage \in Rotating => req[q].family # f
    BY DEF Quiet, LiveRows
  <1> DEFINE Kept == /\ FamilyRows(f)' = FamilyRows(f)
                     /\ revoked \subseteq revoked'
                     /\ \A q \in Requests : req'[q].stage \in Rotating => req'[q].family # f
  <1> SUFFICES Kept
    BY <1>1 DEF Quiet, LiveRows
  <1>2. CASE UNCHANGED vars
    BY <1>1, <1>2 DEF vars, FamilyRows
  <1>3. ASSUME NEW g \in Families, NEW m \in BOOLEAN, Login(g, m) PROVE Kept
    <2>1. PICK r \in FreshRows :
            /\ info' = [info EXCEPT ![r] = [family |-> g, parent |-> NoRow, mfa |-> m,
                                            expires |-> now + RefreshLifetime(g)]]
            /\ issued' = issued \cup {r}
      BY <1>3 DEF Login, InsertSession
    <2>2. g # f /\ r \in Rows \ issued
      BY <1>1, <1>3, <2>1 DEF Login, InsertSession, FreshRows
    <2>3. info'[r].family = g /\ \A s \in issued : info'[s] = info[s]
      BY <2>1, <2>2 DEF IInv, TypeOK
    <2>4. QED
      BY <1>1, <1>3, <2>1, <2>2, <2>3 DEF Login, InsertSession, FamilyRows
  <1>4. CASE Tick
    BY <1>1, <1>4 DEF Tick, FamilyRows
  <1>5. ASSUME NEW q \in Requests, NEW r \in Rows, Refresh(q, r) PROVE Kept
    <2>1. req'[q].stage = "read" /\ \A p \in Requests \ {q} : req'[p] = req[p]
      BY <1>5 DEF Refresh, Idle, IInv, TypeOK
    <2>2. FamilyRows(f)' = FamilyRows(f) /\ revoked' = revoked
      BY <1>5 DEF Refresh, FamilyRows
    <2>3. QED
      BY <1>1, <2>1, <2>2 DEF Rotating
  <1>6. ASSUME NEW q \in Requests, NEW g \in Families, Logout(q, g) \/ RevokeMySession(q, g)
        PROVE  Kept
    <2>1. req'[q].stage = "scan" /\ \A p \in Requests \ {q} : req'[p] = req[p]
      BY <1>6 DEF Logout, RevokeMySession, Idle, IInv, TypeOK
    <2>2. FamilyRows(f)' = FamilyRows(f) /\ revoked' = revoked
      BY <1>6 DEF Logout, RevokeMySession, FamilyRows
    <2>3. QED
      BY <1>1, <2>1, <2>2 DEF Rotating
  <1>7. ASSUME NEW q \in Requests, RotateRead(q) PROVE Kept
    <2>1. RequestInv(q) /\ req[q].stage = "read"
      BY <1>7 DEF IInv, RotateRead
    <2>2. req[q].token \in issued /\ info[req[q].token].family = req[q].family
      BY <2>1 DEF RequestInv
    <2>3. req[q].token \notin revoked => req[q].family # f
      BY <1>1, <2>2 DEF FamilyRows
    <2>4. FamilyRows(f)' = FamilyRows(f) /\ revoked' = revoked
      BY <1>7 DEF RotateRead, FamilyRows
    <2>5. CASE req[q].token \in revoked
      BY <1>1, <1>7, <2>4, <2>5 DEF RotateRead, Rotating, IInv, TypeOK
    <2>6. CASE req[q].token \notin revoked /\ Expired(req[q].token, now)
      <3>1. req' = Finish(q, "invalid")
        BY <1>7, <2>6 DEF RotateRead
      <3>2. req'[q].stage = "done" /\ \A p \in Requests \ {q} : req'[p] = req[p]
        BY <3>1, FinishRecord DEF Results
      <3>3. QED
        BY <1>1, <2>4, <3>2 DEF Rotating
    <2>7. CASE req[q].token \notin revoked /\ ~Expired(req[q].token, now)
      BY <1>1, <1>7, <2>3, <2>4, <2>7 DEF RotateRead, Request, IInv, TypeOK
    <2>8. QED
      BY <2>5, <2>6, <2>7
  <1>8. ASSUME NEW q \in Requests, RotateInsert(q) PROVE Kept
    <2>1. PICK r \in FreshRows :
            /\ \A s \in Rows \ {r} : info'[s] = info[s]
            /\ req' = [req EXCEPT ![q].stage = "retire", ![q].new = r]
      BY <1>8 DEF RotateInsert, InsertSession, IInv, TypeOK
    <2>2. UNCHANGED <<issued, revoked>> /\ req[q].stage \in Rotating
      BY <1>8 DEF RotateInsert, InsertSession, Rotating
    <2>3. \A s \in issued : info'[s] = info[s]
      BY <2>1 DEF FreshRows, IInv, TypeOK
    <2>4. req[q] \in Request
      BY DEF IInv, TypeOK
    <2>5. QED
      BY <1>1, <2>1, <2>2, <2>3, <2>4 DEF FamilyRows, IInv, TypeOK, Request
  <1>9. ASSUME NEW q \in Requests, RotateRetire(q) PROVE Kept
    BY <1>1, <1>9 DEF RotateRetire, RevokeSession, Rotating, FamilyRows, IInv, TypeOK, Request
  <1>10. ASSUME NEW q \in Requests, RotateCommit(q) PROVE Kept
    <2>1. RequestInv(q) /\ req[q].stage = "commit" /\ req[q] \in Request
      BY <1>10 DEF IInv, TypeOK, RotateCommit
    <2>2. info[req[q].new].family # f
      BY <1>1, <2>1 DEF RequestInv, Rotating
    <2>3. info' = info /\ issued' = issued \cup {req[q].new} /\ revoked \subseteq revoked'
          /\ req' = [req EXCEPT ![q].stage = "respond", ![q].locks = {}]
      BY <1>10 DEF RotateCommit
    <2>4. FamilyRows(f)' = FamilyRows(f)
      BY <2>2, <2>3 DEF FamilyRows
    <2>5. QED
      BY <1>1, <2>3, <2>4 DEF Rotating, IInv, TypeOK
  <1>11. ASSUME NEW q \in Requests, Respond(q) PROVE Kept
    <2>1. req' = Finish(q, "rotated") /\ FamilyRows(f)' = FamilyRows(f) /\ revoked' = revoked
      BY <1>11 DEF Respond, FamilyRows
    <2>2. req'[q].stage = "done" /\ \A p \in Requests \ {q} : req'[p] = req[p]
      BY <2>1, FinishRecord DEF Results
    <2>3. QED
      BY <1>1, <2>1, <2>2 DEF Rotating
  <1>12. ASSUME NEW q \in Requests, FamilyScan(q) \/ FamilyLock(q) \/ AppendReuse(q) PROVE Kept
    <2>1. req'[q].stage \in {"lock", "audit", "revoke"} /\ \A p \in Requests \ {q} : req'[p] = req[p]
      BY <1>12, RevocationMoves
    <2>2. FamilyRows(f)' = FamilyRows(f) /\ revoked' = revoked
      BY <1>12 DEF FamilyScan, FamilyLock, AppendReuse, FamilyRows
    <2>3. QED
      BY <1>1, <2>1, <2>2 DEF Rotating
  <1>13. ASSUME NEW a \in Auditors, OtherAppends(a) \/ OtherEnds(a) PROVE Kept
    BY <1>1, <1>13 DEF OtherAppends, OtherEnds, FamilyRows
  <1>14. ASSUME NEW q \in Requests, FamilyCommit(q) PROVE Kept
    <2>1. PICK result \in Results : req' = Finish(q, result)
      BY <1>14 DEF FamilyCommit, Results
    <2>2. req'[q].stage = "done" /\ \A p \in Requests \ {q} : req'[p] = req[p]
      BY <2>1, FinishRecord
    <2>3. FamilyRows(f)' = FamilyRows(f) /\ revoked \subseteq revoked'
      BY <1>14 DEF FamilyCommit, FamilyRows
    <2>4. QED
      BY <1>1, <2>2, <2>3 DEF Rotating
  <1>15. ASSUME NEW q \in Requests, Abort(q) PROVE Kept
    <2>1. req[q].new \notin issued
      BY <1>15, SessionsAssumption
      DEF Abort, InTransaction, Rotating, Revoking, IInv, RequestInv, TypeOK
    <2>2. \A s \in issued : info'[s] = info[s]
      BY <1>15, <2>1 DEF Abort, IInv, TypeOK
    <2>3. req'[q].stage = "done" /\ \A p \in Requests \ {q} : req'[p] = req[p]
      <3>1. req' = Finish(q, "failed")
        BY <1>15 DEF Abort
      <3>2. QED
        BY <3>1, FinishRecord DEF Results
    <2>4. FamilyRows(f)' = FamilyRows(f) /\ revoked' = revoked
      BY <1>15, <2>2 DEF Abort, FamilyRows
    <2>5. QED
      BY <1>1, <2>3, <2>4 DEF Rotating
  <1>16. QED
    BY <1>2, <1>3, <1>4, <1>5, <1>6, <1>7, <1>8, <1>9, <1>10, <1>11, <1>12, <1>13, <1>14,
       <1>15 DEF Next, Step

\* Once every row of a family is revoked and no rotation of it is past its check, no
\* sequence of requests and failures makes a row of the family live again.
THEOREM QuietFamilyStaysQuietHolds == Spec => QuietFamilyStaysQuiet
  <1>1. IInv /\ [Next]_vars => [\A f \in Families : Quiet(f) => Quiet(f)']_vars
    BY QuietStep
  <1>2. QED
    BY Invariance, <1>1, PTL DEF Spec, QuietFamilyStaysQuiet

-----------------------------------------------------------------------------
(* The table implements TokenFamilies.  A login opens a family, the check  *)
(* of a rotation admits it, its commit rotates, the snapshot of a          *)
(* family-wide UPDATE singles out and its commit closes; an abort fails,   *)
(* and every other step shows that module nothing new.                     *)

\* A step that changes neither the rows nor what a request was admitted with or has
\* singled out.
LEMMA NothingShown ==
  ASSUME issued' = issued, revoked' = revoked,
         \A r \in issued : info'[r] = info[r],
         \A p \in Requests : AdmittedWith(p)' = AdmittedWith(p),
         \A p \in Requests : SingledOut(p)' = SingledOut(p)
  PROVE  UNCHANGED Promise!promiseVars
  <1>1. \A f \in Families : FamilyRows(f)' = FamilyRows(f) /\ LiveRows(f)' = LiveRows(f)
    BY DEF FamilyRows, LiveRows
  <1>2. QED
    BY <1>1 DEF Promise!promiseVars

\* What a request that does not act was admitted with and has singled out stays.
LEMMA OthersKeep ==
  ASSUME NEW p \in Requests, req'[p] = req[p]
  PROVE  AdmittedWith(p)' = AdmittedWith(p) /\ SingledOut(p)' = SingledOut(p)
  BY DEF AdmittedWith, SingledOut

\* A request between two operations was admitted with nothing and has nothing singled out.
LEMMA NeitherAtRest ==
  ASSUME NEW p \in Requests
  PROVE  /\ req[p].stage \in {"idle", "done", "read", "respond", "scan"} =>
               AdmittedWith(p) = NoRow /\ SingledOut(p) = {}
         /\ req'[p].stage \in {"idle", "done", "read", "respond", "scan"} =>
               AdmittedWith(p)' = NoRow /\ SingledOut(p)' = {}
  BY DEF AdmittedWith, SingledOut, Rotating

LEMMA InitPromise == Init => Promise!Init
  BY DEF Init, Promise!Init, FamilyRows, LiveRows, AdmittedWith, SingledOut, Idle, Rotating

LEMMA LoginOpens ==
  ASSUME IInv, NEW f \in Families, NEW m \in BOOLEAN, Login(f, m)
  PROVE  Promise!Open(f)
  <1>1. PICK r \in FreshRows :
          /\ info' = [info EXCEPT ![r] = [family |-> f, parent |-> NoRow, mfa |-> m,
                                          expires |-> now + RefreshLifetime(f)]]
          /\ issued' = issued \cup {r}
    BY DEF Login, InsertSession
  <1>2. /\ FamilyRows(f) = {} /\ revoked' = revoked /\ req' = req
        /\ r \in Rows \ issued /\ r \notin revoked
    BY DEF Login, FreshRows, IInv, TypeOK
  <1>3. info'[r].family = f /\ \A s \in issued : info'[s] = info[s]
    BY <1>1, <1>2 DEF IInv, TypeOK
  <1>4. FamilyRows(f)' = {r} /\ LiveRows(f)' = {r}
    BY <1>1, <1>2, <1>3 DEF FamilyRows, LiveRows
  <1>5. \A g \in Families \ {f} : FamilyRows(g)' = FamilyRows(g) /\ LiveRows(g)' = LiveRows(g)
    BY <1>1, <1>2, <1>3 DEF FamilyRows, LiveRows
  <1>6. r \in Promise!Unused
    BY <1>2 DEF Promise!Unused, FamilyRows
  <1>7. \A p \in Requests : AdmittedWith(p)' = AdmittedWith(p) /\ SingledOut(p)' = SingledOut(p)
    BY <1>2, OthersKeep
  <1>8. QED
    BY <1>2, <1>4, <1>5, <1>6, <1>7 DEF Promise!Open

LEMMA RotateReadAdmits ==
  ASSUME IInv, NEW q \in Requests, RotateRead(q)
  PROVE  (\E f \in Families : Promise!Admit(q, f)) \/ UNCHANGED Promise!promiseVars
  <1> DEFINE t == req[q].token
             f == req[q].family
  <1>1. /\ req[q].stage = "read" /\ RequestInv(q) /\ req[q] \in Request
        /\ UNCHANGED <<issued, revoked, info>>
    BY DEF RotateRead, IInv, TypeOK
  <1>2. t \in FamilyRows(f) /\ f \in Families
    BY <1>1 DEF RequestInv, FamilyRows, Request
  <1>3. AdmittedWith(q) = NoRow /\ SingledOut(q) = {}
    BY <1>1, NeitherAtRest
  <1>4. CASE t \in revoked \/ Expired(t, now)
    <2>1. /\ req'[q].stage \in {"scan", "done"}
          /\ \A p \in Requests \ {q} : req'[p] = req[p]
      <3>1. CASE t \in revoked
        BY <3>1 DEF RotateRead, IInv, TypeOK, Request
      <3>2. CASE t \notin revoked
        <4>1. req' = Finish(q, "invalid") /\ "invalid" \in Results
          BY <1>4, <3>2 DEF RotateRead, Results
        <4>2. QED
          BY <4>1, FinishRecord
      <3>3. QED
        BY <3>1, <3>2
    <2>2. AdmittedWith(q)' = NoRow /\ SingledOut(q)' = {}
      BY <2>1, NeitherAtRest
    <2>3. QED
      BY <1>1, <1>3, <2>1, <2>2, OthersKeep, NothingShown
  <1>5. CASE t \notin revoked /\ ~Expired(t, now)
    <2>1. req' = [req EXCEPT ![q].stage = "insert", ![q].at = now]
      BY <1>5 DEF RotateRead
    <2>2. /\ req'[q].stage = "insert" /\ req'[q].token = t
          /\ \A p \in Requests \ {q} : req'[p] = req[p]
      BY <1>1, <2>1 DEF IInv, TypeOK, Request
    <2>3. AdmittedWith(q)' = t /\ SingledOut(q)' = {}
      BY <2>2 DEF AdmittedWith, SingledOut, Rotating
    <2>4. \A p \in Requests \ {q} : AdmittedWith(p)' = AdmittedWith(p) /\ SingledOut(p)' = SingledOut(p)
      BY <2>2, OthersKeep
    <2>5. t \in LiveRows(f) /\ \A g \in Families : FamilyRows(g)' = FamilyRows(g) /\ LiveRows(g)' = LiveRows(g)
      BY <1>1, <1>2, <1>5 DEF LiveRows, FamilyRows
    <2> HIDE DEF t, f
    <2>6. [p \in Requests |-> AdmittedWith(p)]' = [[p \in Requests |-> AdmittedWith(p)] EXCEPT ![q] = t]
      BY <2>3, <2>4
    <2>7. [p \in Requests |-> SingledOut(p)]' = [p \in Requests |-> SingledOut(p)]
      BY <1>3, <2>3, <2>4
    <2>8. Promise!Admit(q, f)
      BY <1>2, <1>3, <2>5, <2>6, <2>7 DEF Promise!Admit
    <2>9. QED
      BY <1>2, <2>8
  <1>6. QED
    BY <1>4, <1>5

LEMMA RotateCommitRotates ==
  ASSUME IInv, NEW q \in Requests, RotateCommit(q)
  PROVE  \E f \in Families : Promise!Rotate(q, f)
  <1>0. req[q].stage = "commit" /\ RequestInv(q) /\ req[q] \in Request
    BY DEF RotateCommit, IInv, TypeOK
  <1> PICK f \in Families, n \in Rows, t \in Rows :
        f = req[q].family /\ n = req[q].new /\ t = req[q].token
    BY <1>0, SessionsAssumption DEF RequestInv, Request, Rotating
  <1>1. /\ req[q].stage = "commit" /\ RequestInv(q) /\ req[q] \in Request /\ info' = info
        /\ issued' = issued \cup {n} /\ revoked' = revoked \cup req[q].locks
        /\ req' = [req EXCEPT ![q].stage = "respond", ![q].locks = {}]
    BY DEF RotateCommit, IInv, TypeOK
  <1>2. /\ t \in issued /\ info[t].family = f /\ n \in Rows \ issued /\ info[n].family = f
        /\ req[q].locks \subseteq {t} /\ t \in revoked \cup req[q].locks
    BY <1>1 DEF RequestInv, Rotating, Request
  <1>3. /\ req'[q].stage = "respond" /\ \A p \in Requests \ {q} : req'[p] = req[p]
    BY <1>1 DEF IInv, TypeOK
  <1>4. AdmittedWith(q) = t /\ SingledOut(q) = {} /\ AdmittedWith(q)' = NoRow /\ SingledOut(q)' = {}
    BY <1>1, <1>3 DEF AdmittedWith, SingledOut, Rotating
  <1>5. \A p \in Requests \ {q} : AdmittedWith(p)' = AdmittedWith(p) /\ SingledOut(p)' = SingledOut(p)
    BY <1>3, OthersKeep
  <1>6. t \in FamilyRows(f) /\ n \notin revoked /\ revoked \subseteq issued
    BY <1>2 DEF FamilyRows, IInv, TypeOK
  <1>7. \A g \in Families : FamilyRows(g)' = IF g = f THEN FamilyRows(f) \cup {n} ELSE FamilyRows(g)
    BY <1>1, <1>2 DEF FamilyRows
  <1>8. LiveRows(f)' = (LiveRows(f) \ {t}) \cup {n}
    BY <1>1, <1>2, <1>6, <1>7 DEF LiveRows
  <1>9. \A g \in Families \ {f} : LiveRows(g)' = LiveRows(g)
    BY <1>1, <1>2, <1>7 DEF LiveRows, FamilyRows
  <1>10. n \in Promise!Unused
    BY <1>2 DEF Promise!Unused, FamilyRows
  <1>11. [p \in Requests |-> AdmittedWith(p)]' = [[p \in Requests |-> AdmittedWith(p)] EXCEPT ![q] = NoRow]
    BY <1>4, <1>5
  <1>12. [p \in Requests |-> SingledOut(p)]' = [p \in Requests |-> SingledOut(p)]
    BY <1>4, <1>5
  <1>13. Promise!Rotate(q, f)
    <2> DEFINE rows == [g \in Families |-> FamilyRows(g)]
               live == [g \in Families |-> LiveRows(g)]
               admitted == [p \in Requests |-> AdmittedWith(p)]
    <2>1. rows' = [rows EXCEPT ![f] = @ \cup {n}]
      BY <1>7
    <2>2. live' = [live EXCEPT ![f] = (@ \ {t}) \cup {n}]
      BY <1>8, <1>9
    <2>3. admitted[q] = t /\ t \in rows[f]
      BY <1>4, <1>6
    <2> HIDE DEF rows, live, admitted
    <2>4. /\ admitted[q] \in rows[f]
          /\ \E s \in Promise!Unused :
               /\ rows' = [rows EXCEPT ![f] = @ \cup {s}]
               /\ live' = [live EXCEPT ![f] = (@ \ {admitted[q]}) \cup {s}]
          /\ admitted' = [admitted EXCEPT ![q] = NoRow]
      BY <1>10, <1>11, <2>1, <2>2, <2>3 DEF admitted
    <2>5. QED
      BY <1>12, <2>4 DEF Promise!Rotate, rows, live, admitted
  <1>14. QED
    BY <1>13

LEMMA FamilyScanSinglesOut ==
  ASSUME IInv, NEW q \in Requests, FamilyScan(q)
  PROVE  \E f \in Families : Promise!SingleOut(q, f)
  <1> DEFINE f == req[q].family
  <1>1. req[q].stage = "scan" /\ req[q] \in Request /\ UNCHANGED <<issued, revoked, info>>
    BY DEF FamilyScan, IInv, TypeOK
  <1>2. /\ req'[q].stage \in {"lock", "audit", "revoke"} /\ req'[q].targets = LiveRows(f)
        /\ \A p \in Requests \ {q} : req'[p] = req[p]
    BY <1>1, RevocationMoves
  <1>3. AdmittedWith(q) = NoRow /\ SingledOut(q) = {}
    BY <1>1, NeitherAtRest
  <1>4. AdmittedWith(q)' = NoRow /\ SingledOut(q)' = LiveRows(f)
    BY <1>2 DEF AdmittedWith, SingledOut, Rotating
  <1>5. \A p \in Requests \ {q} : AdmittedWith(p)' = AdmittedWith(p) /\ SingledOut(p)' = SingledOut(p)
    BY <1>2, OthersKeep
  <1>6. \A g \in Families : FamilyRows(g)' = FamilyRows(g) /\ LiveRows(g)' = LiveRows(g)
    BY <1>1 DEF FamilyRows, LiveRows
  <1>7. f \in Families
    BY <1>1 DEF Request
  <1> HIDE DEF f
  <1>8. [p \in Requests |-> AdmittedWith(p)]' = [p \in Requests |-> AdmittedWith(p)]
    BY <1>3, <1>4, <1>5
  <1>9. [p \in Requests |-> SingledOut(p)]' = [[p \in Requests |-> SingledOut(p)] EXCEPT ![q] = LiveRows(f)]
    BY <1>4, <1>5
  <1>10. Promise!SingleOut(q, f)
    BY <1>3, <1>6, <1>7, <1>8, <1>9 DEF Promise!SingleOut
  <1>11. QED
    BY <1>7, <1>10

LEMMA FamilyCommitCloses ==
  ASSUME IInv, NEW q \in Requests, FamilyCommit(q)
  PROVE  Promise!Close(q)
  <1>1. /\ req[q].stage = "revoke" /\ RequestInv(q) /\ UNCHANGED <<issued, info>>
        /\ revoked' = revoked \cup req[q].locks
    BY DEF FamilyCommit, IInv
  <1>2. PICK result \in Results : req' = Finish(q, result)
    BY DEF FamilyCommit, Results
  <1>3. req'[q].stage = "done" /\ \A p \in Requests \ {q} : req'[p] = req[p]
    BY <1>2, FinishRecord
  <1>4. SingledOut(q) = req[q].locks /\ AdmittedWith(q) = NoRow
    BY <1>1 DEF SingledOut, AdmittedWith, Rotating, RequestInv
  <1>5. AdmittedWith(q)' = NoRow /\ SingledOut(q)' = {}
    BY <1>3, NeitherAtRest
  <1>6. \A p \in Requests \ {q} : AdmittedWith(p)' = AdmittedWith(p) /\ SingledOut(p)' = SingledOut(p)
    BY <1>3, OthersKeep
  <1>7. \A g \in Families : FamilyRows(g)' = FamilyRows(g) /\ LiveRows(g)' = LiveRows(g) \ SingledOut(q)
    BY <1>1, <1>4 DEF FamilyRows, LiveRows
  <1>8. [p \in Requests |-> AdmittedWith(p)]' = [p \in Requests |-> AdmittedWith(p)]
    BY <1>4, <1>5, <1>6
  <1>9. [p \in Requests |-> SingledOut(p)]' = [[p \in Requests |-> SingledOut(p)] EXCEPT ![q] = {}]
    BY <1>5, <1>6
  <1>10. QED
    BY <1>7, <1>8, <1>9 DEF Promise!Close

LEMMA AbortFails ==
  ASSUME IInv, NEW q \in Requests, Abort(q)
  PROVE  Promise!Fail(q)
  <1>1. req[q].new \notin issued
    BY SessionsAssumption DEF Abort, InTransaction, Rotating, Revoking, IInv, RequestInv, TypeOK
  <1>2. UNCHANGED <<issued, revoked>> /\ \A r \in issued : info'[r] = info[r]
    BY <1>1 DEF Abort, IInv, TypeOK
  <1>3. req' = Finish(q, "failed") /\ "failed" \in Results
    BY DEF Abort, Results
  <1>4. req'[q].stage = "done" /\ \A p \in Requests \ {q} : req'[p] = req[p]
    BY <1>3, FinishRecord
  <1>5. AdmittedWith(q)' = NoRow /\ SingledOut(q)' = {}
    BY <1>4, NeitherAtRest
  <1>6. \A p \in Requests \ {q} : AdmittedWith(p)' = AdmittedWith(p) /\ SingledOut(p)' = SingledOut(p)
    BY <1>4, OthersKeep
  <1>7. \A g \in Families : FamilyRows(g)' = FamilyRows(g) /\ LiveRows(g)' = LiveRows(g)
    BY <1>2 DEF FamilyRows, LiveRows
  <1>8. [p \in Requests |-> AdmittedWith(p)]' = [[p \in Requests |-> AdmittedWith(p)] EXCEPT ![q] = NoRow]
    BY <1>5, <1>6
  <1>9. [p \in Requests |-> SingledOut(p)]' = [[p \in Requests |-> SingledOut(p)] EXCEPT ![q] = {}]
    BY <1>5, <1>6
  <1>10. QED
    BY <1>7, <1>8, <1>9 DEF Promise!Fail

\* The steps of a request that take place between those moments.
LEMMA OtherStepsShowNothing ==
  ASSUME IInv, NEW q \in Requests,
         \/ \E r \in Rows : Refresh(q, r)
         \/ \E f \in Families : Logout(q, f) \/ RevokeMySession(q, f)
         \/ RotateInsert(q) \/ RotateRetire(q) \/ Respond(q)
         \/ FamilyLock(q) \/ AppendReuse(q)
  PROVE  UNCHANGED Promise!promiseVars
  <1>1. req[q] \in Request /\ RequestInv(q)
    BY DEF IInv, TypeOK
  <1>2. CASE \/ \E r \in Rows : Refresh(q, r)
             \/ \E f \in Families : Logout(q, f) \/ RevokeMySession(q, f)
    <2>1. /\ UNCHANGED <<issued, revoked, info>> /\ req[q].stage \in {"idle", "done"}
          /\ req'[q].stage \in {"read", "scan"}
          /\ \A p \in Requests \ {q} : req'[p] = req[p]
      BY <1>2 DEF Refresh, Logout, RevokeMySession, Resting, Idle, IInv, TypeOK
    <2>2. QED
      BY <2>1, NeitherAtRest, OthersKeep, NothingShown
  <1>3. CASE RotateInsert(q) \/ RotateRetire(q)
    <2>1. /\ UNCHANGED <<issued, revoked>> /\ req[q].stage \in Rotating
          /\ \A r \in issued : info'[r] = info[r]
      BY <1>3 DEF RotateInsert, InsertSession, RotateRetire, Rotating, FreshRows, IInv, TypeOK
    <2>2. /\ req'[q].stage \in Rotating /\ req'[q].token = req[q].token
          /\ \A p \in Requests \ {q} : req'[p] = req[p]
      BY <1>1, <1>3 DEF RotateInsert, RotateRetire, Rotating, IInv, TypeOK, Request
    <2>3. AdmittedWith(q)' = AdmittedWith(q) /\ SingledOut(q)' = SingledOut(q)
      BY <2>1, <2>2 DEF AdmittedWith, SingledOut, Rotating
    <2>4. QED
      BY <2>1, <2>2, <2>3, OthersKeep, NothingShown
  <1>4. CASE Respond(q)
    <2>1. UNCHANGED <<issued, revoked, info>> /\ req[q].stage = "respond"
          /\ req' = Finish(q, "rotated") /\ "rotated" \in Results
      BY <1>4 DEF Respond, Results
    <2>2. req'[q].stage = "done" /\ \A p \in Requests \ {q} : req'[p] = req[p]
      BY <2>1, FinishRecord
    <2>3. QED
      BY <2>1, <2>2, NeitherAtRest, OthersKeep, NothingShown
  <1>5. CASE FamilyLock(q) \/ AppendReuse(q)
    <2>1. UNCHANGED <<issued, revoked, info>> /\ req[q].stage \in {"lock", "audit"}
      BY <1>5 DEF FamilyLock, AppendReuse
    <2>2. /\ req'[q].stage \in {"lock", "audit", "revoke"} /\ req'[q].targets = req[q].targets
          /\ \A p \in Requests \ {q} : req'[p] = req[p]
      BY <1>5, <2>1, RevocationMoves
    <2>3. AdmittedWith(q)' = AdmittedWith(q) /\ SingledOut(q)' = SingledOut(q)
      BY <2>1, <2>2 DEF AdmittedWith, SingledOut, Rotating
    <2>4. QED
      BY <2>1, <2>2, <2>3, OthersKeep, NothingShown
  <1>6. QED
    BY <1>2, <1>3, <1>4, <1>5

LEMMA NextPromise ==
  ASSUME IInv, [Next]_vars
  PROVE  [Promise!Next]_(Promise!promiseVars)
  <1>1. CASE UNCHANGED vars \/ Tick \/ \E a \in Auditors : OtherAppends(a) \/ OtherEnds(a)
    <2>1. UNCHANGED <<issued, revoked, info, req>>
      BY <1>1 DEF vars, Tick, OtherAppends, OtherEnds
    <2>2. QED
      BY <2>1, OthersKeep, NothingShown
  <1>2. ASSUME NEW f \in Families, NEW m \in BOOLEAN, Login(f, m) PROVE Promise!Next
    BY <1>2, LoginOpens DEF Promise!Next
  <1>3. ASSUME NEW q \in Requests, RotateRead(q) PROVE [Promise!Next]_(Promise!promiseVars)
    BY <1>3, RotateReadAdmits DEF Promise!Next
  <1>4. ASSUME NEW q \in Requests, RotateCommit(q) PROVE Promise!Next
    BY <1>4, RotateCommitRotates DEF Promise!Next
  <1>5. ASSUME NEW q \in Requests, FamilyScan(q) PROVE Promise!Next
    BY <1>5, FamilyScanSinglesOut DEF Promise!Next
  <1>6. ASSUME NEW q \in Requests, FamilyCommit(q) PROVE Promise!Next
    BY <1>6, FamilyCommitCloses DEF Promise!Next
  <1>7. ASSUME NEW q \in Requests, Abort(q) PROVE Promise!Next
    BY <1>7, AbortFails DEF Promise!Next
  <1>8. QED
    BY <1>1, <1>2, <1>3, <1>4, <1>5, <1>6, <1>7, OtherStepsShowNothing DEF Next, Step

\* Whatever rotations, revocations, failures and retries overlap: a rotation is admitted
\* only with a usable token and retires it, a revocation closes exactly what its snapshot
\* singled out, no token is handed out twice and a dead family stays dead.
THEOREM KeepsPromiseHolds == Spec => KeepsPromise
  <1>1. QED
    BY Invariance, InitPromise, NextPromise, PTL DEF Spec, KeepsPromise, Promise!Spec

=============================================================================
