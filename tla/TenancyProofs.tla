------------------------------ MODULE TenancyProofs ------------------------------
(***************************************************************************)
(* The audit log verifies, tells what the rows are and records operations   *)
(* that are whole, for any number of requests, rows, keys and clock values. *)
(*                                                                          *)
(* Entries are committed in the order in which they are read: the one       *)
(* transaction that holds the chain's lock has an entry later than all of   *)
(* the log (OpenInv), so a commit extends the log at its end and changes    *)
(* nothing that precedes an entry of it (LogInv).  What a transaction has   *)
(* inserted is free and its own (KeyInv).  What an update is about to write *)
(* is a version of the row that was in the log when it read it (CopyInv).   *)
(***************************************************************************)
EXTENDS Tenancy, SequenceTheorems, FiniteSetTheorems, TLAPS

IsLast(p, S) == p \in S /\ \A s \in S \ {p} : Precedes(s, p)

\* An entry that carries the hash of the last one of S.
Follows(r, S) == IF S = {} THEN entry[r].prev = None ELSE IsLast(entry[r].prev, S)

LogInv ==
    /\ \A r, s \in logged : r # s => Precedes(r, s) \/ Precedes(s, r)
    /\ logged = {} \/ \E p \in logged : IsLast(p, logged)
    /\ \A r \in logged : Follows(r, ListAuditLogBefore(r))

RowInv ==
    \A x \in Rows :
        \/ About(x) = {} /\ row[x] = NewRow
        \/ \E p \in About(x) : IsLast(p, About(x)) /\ row[x] = req[p].copy

OpenInv ==
    /\ \A r \in Requests : entry[r].id <= lastV7
    /\ \A r \in logged : req[r].stage = "done"
    /\ \A r, s \in HoldChainLock : r = s
    /\ \A r \in HoldChainLock : Follows(r, logged) /\ \A s \in logged : Precedes(s, r)

Open == {r \in Requests : req[r].stage \in InTransaction}

KeyInv ==
    /\ \A r \in Open : \A k \in Inserted(r) : owner[k] = None
    /\ \A r, s \in Open : r # s => Inserted(r) \cap Inserted(s) = {}
    /\ \A r \in Requests : /\ req[r].stage \in {"write", "audit", "commit"} => req[r].left = <<>>
                           /\ req[r].stage = "write" => req[r].row \in Rows

IInv == TypeOK /\ LogInv /\ RowInv /\ OpenInv /\ KeyInv /\ AllOrNothing

-----------------------------------------------------------------------------
(* The order of the log                                                             *)

LEMMA OrderIsStrict ==
    ASSUME entry \in [Requests -> Entry], NEW r \in Requests, NEW s \in Requests
    PROVE  /\ ~(Precedes(r, s) /\ Precedes(s, r))
           /\ ~Precedes(r, r)
BY AuditAssumption DEF Entry, Times, Precedes

LEMMA OrderIsTransitive ==
    ASSUME entry \in [Requests -> Entry], NEW q \in Requests, NEW r \in Requests, NEW s \in Requests,
           Precedes(q, r), Precedes(r, s)
    PROVE  Precedes(q, s)
BY AuditAssumption DEF Entry, Times, Precedes

LEMMA LastIs ==
    ASSUME entry \in [Requests -> Entry], NEW S \in SUBSET Requests, NEW p \in S, IsLast(p, S)
    PROVE  LastOf(S) = p
<1>1. S # {}
  OBVIOUS
<1>2. PICK q : q = CHOOSE r \in S : \A s \in S \ {r} : Precedes(s, r)
  OBVIOUS
<1>3. q \in S /\ \A s \in S \ {q} : Precedes(s, q)
  BY <1>2 DEF IsLast
<1>4. q = p
  BY <1>3, OrderIsStrict DEF IsLast
<1> QED BY <1>1, <1>2, <1>4 DEF LastOf

LEMMA FollowsLast ==
    ASSUME entry \in [Requests -> Entry], NEW r \in Requests, NEW S \in SUBSET Requests, Follows(r, S)
    PROVE  entry[r].prev = LastOf(S)
<1>1. CASE S = {}
  BY <1>1 DEF Follows, LastOf
<1>2. CASE S # {}
  <2>1. IsLast(entry[r].prev, S) /\ entry[r].prev \in S
    BY <1>2 DEF Follows, IsLast
  <2> QED BY <2>1, LastIs
<1> QED BY <1>1, <1>2

LEMMA InitEstablishes == Init => IInv
<1> SUFFICES ASSUME Init PROVE IInv
  OBVIOUS
<1>1. NoEntry \in Entry
  BY AuditAssumption DEF NoEntry, Entry, Times
<1>2. NewRow \in Row
  BY DEF NewRow, Row
<1>3. NoRequest \in Request /\ NoRequest.stage = "ready"
  BY <1>2 DEF NoRequest, Request, Stages
<1>4. TypeOK
  <2>1. ChainTypeOK
    BY <1>1, AuditAssumption DEF Init, ChainInit, ChainTypeOK, Times
  <2> QED BY <1>2, <1>3, <2>1 DEF Init, TypeOK
<1>5. logged = {} /\ Open = {} /\ HoldChainLock = {}
  BY <1>3 DEF Init, ChainInit, Open, InTransaction, HoldChainLock
<1>6. LogInv
  BY <1>5 DEF LogInv
<1>7. RowInv
  BY <1>5 DEF RowInv, About, Init
<1>8. OpenInv
  BY <1>5 DEF OpenInv, Init, ChainInit, NoEntry
<1>9. KeyInv
  BY <1>3, <1>5 DEF KeyInv, Init
<1>10. AllOrNothing
  BY <1>5, AuditAssumption DEF AllOrNothing, Init
<1> QED BY <1>4, <1>6, <1>7, <1>8, <1>9, <1>10 DEF IInv

-----------------------------------------------------------------------------
(* Steps of a request that is not in the log                                        *)

LEMMA LogKeeps ==
    ASSUME LogInv, RowInv, logged \subseteq Requests, UNCHANGED <<logged, row>>,
           \A s \in logged : entry'[s] = entry[s] /\ req'[s] = req[s]
    PROVE  LogInv' /\ RowInv'
<1>1. \A s, t \in logged : Precedes(s, t)' <=> Precedes(s, t)
  BY DEF Precedes
<1>2. \A p : \A S \in SUBSET logged : IsLast(p, S)' <=> IsLast(p, S)
  BY <1>1 DEF IsLast
<1>3. \A s \in logged : ListAuditLogBefore(s)' = ListAuditLogBefore(s)
  BY <1>1 DEF ListAuditLogBefore
<1>4. \A s \in logged : Follows(s, ListAuditLogBefore(s))'
  <2> SUFFICES ASSUME NEW s \in logged PROVE Follows(s, ListAuditLogBefore(s))'
    OBVIOUS
  <2>1. Follows(s, ListAuditLogBefore(s)) /\ ListAuditLogBefore(s) \in SUBSET logged
    BY DEF LogInv, ListAuditLogBefore
  <2> QED BY <1>2, <1>3, <2>1 DEF Follows
<1>5. LogInv'
  <2>1. logged' = {} \/ \E p \in logged' : IsLast(p, logged)'
    BY <1>2 DEF LogInv
  <2> QED BY <1>1, <1>4, <2>1 DEF LogInv
<1>6. \A x \in Rows : About(x)' = About(x) /\ About(x) \in SUBSET logged
  BY DEF About
<1>7. RowInv'
  <2> SUFFICES ASSUME NEW x \in Rows
               PROVE  \/ About(x)' = {} /\ row'[x] = NewRow
                      \/ \E p \in About(x)' : IsLast(p, About(x))' /\ row'[x] = req'[p].copy
    BY DEF RowInv, NewRow
  <2>1. CASE About(x) = {} /\ row[x] = NewRow
    BY <1>6, <2>1
  <2>2. CASE \E p \in About(x) : IsLast(p, About(x)) /\ row[x] = req[p].copy
    <3>1. PICK p \in About(x) : IsLast(p, About(x)) /\ row[x] = req[p].copy
      BY <2>2
    <3>2. IsLast(p, About(x))'
      BY <1>2, <1>6, <3>1
    <3> QED BY <1>6, <3>1, <3>2
  <2> QED BY <2>1, <2>2 DEF RowInv
<1> QED BY <1>5, <1>7

LEMMA RequestMoves ==
    ASSUME IInv, NEW r \in Requests, NEW n \in Request, req[r].stage # "done",
           req' = [req EXCEPT ![r] = n], UNCHANGED <<clock, logged, row, owner>>,
           entry' \in [Requests -> Entry], \A s \in Requests \ {r} : entry'[s] = entry[s],
           lastV7' \in Nat, lastV7 <= lastV7', entry'[r].id <= lastV7',
           n.stage = "commit" => /\ HoldChainLock = {}
                                 /\ Follows(r, logged)' /\ \A s \in logged : Precedes(s, r)',
           n.stage \in InTransaction =>
               \A k \in n.asked \ ToSet(n.left) :
                   /\ owner[k] = None
                   /\ \A s \in Open \ {r} : k \notin Inserted(s),
           n.stage \in {"write", "audit", "commit"} => n.left = <<>>,
           n.stage = "write" => n.row \in Rows
    PROVE  IInv'
<1>1. \A s \in Requests : req'[s] = IF s = r THEN n ELSE req[s]
  BY DEF IInv, TypeOK
<1>2. r \notin logged /\ logged \subseteq Requests
  BY DEF IInv, OpenInv, TypeOK, ChainTypeOK
<1>3. TypeOK'
  BY DEF IInv, TypeOK, ChainTypeOK
<1>4. LogInv' /\ RowInv'
  BY <1>1, <1>2, LogKeeps DEF IInv
<1>5. OpenInv'
  <2>1. \A s \in Requests : entry'[s].id <= lastV7'
    <3> SUFFICES ASSUME NEW s \in Requests, s # r PROVE entry'[s].id <= lastV7'
      OBVIOUS
    <3>1. entry'[s] = entry[s] /\ entry[s].id <= lastV7 /\ entry[s].id \in Nat /\ lastV7 \in Nat
      BY DEF IInv, OpenInv, TypeOK, ChainTypeOK, Entry
    <3> QED BY <3>1
  <2>2. \A s \in logged' : req'[s].stage = "done"
    BY <1>1, <1>2 DEF IInv, OpenInv
  <2>3. \A s \in HoldChainLock' : (s = r /\ n.stage = "commit") \/ (s # r /\ s \in HoldChainLock)
    BY <1>1 DEF HoldChainLock
  <2>4. \A s, t \in HoldChainLock' : s = t
    BY <2>3 DEF IInv, OpenInv
  <2>5. ASSUME NEW s \in HoldChainLock' PROVE Follows(s, logged)' /\ \A t \in logged' : Precedes(t, s)'
    <3>1. CASE s = r /\ n.stage = "commit"
      BY <3>1
    <3>2. CASE s # r /\ s \in HoldChainLock
      <4>1. Follows(s, logged) /\ \A t \in logged : Precedes(t, s)
        BY <3>2 DEF IInv, OpenInv
      <4>2. entry'[s] = entry[s] /\ \A t \in logged : entry'[t] = entry[t]
        BY <1>2, <3>2 DEF HoldChainLock
      <4>3. \A t \in logged : Precedes(t, s)'
        BY <4>1, <4>2 DEF Precedes
      <4>4. Follows(s, logged)'
        BY <4>1, <4>2 DEF Follows, IsLast, Precedes
      <4> QED BY <4>3, <4>4
    <3> QED BY <2>3, <3>1, <3>2
  <2> QED BY <2>1, <2>2, <2>4, <2>5 DEF OpenInv
<1>6. KeyInv'
  <2>1. /\ \A s \in Requests : Inserted(s)' = IF s = r THEN n.asked \ ToSet(n.left) ELSE Inserted(s)
        /\ \A s \in Open' : IF s = r THEN n.stage \in InTransaction ELSE s \in Open
    BY <1>1 DEF Inserted, Open, InTransaction
  <2>2. Open' \subseteq Requests
    BY DEF Open
  <2>3. \A s \in Open' : \A k \in Inserted(s)' : owner'[k] = None
    BY <2>1, <2>2 DEF IInv, KeyInv
  <2>4. \A s, t \in Open' : s # t => Inserted(s)' \cap Inserted(t)' = {}
    BY <2>1, <2>2 DEF IInv, KeyInv
  <2>5. \A s \in Requests : /\ req'[s].stage \in {"write", "audit", "commit"} => req'[s].left = <<>>
                            /\ req'[s].stage = "write" => req'[s].row \in Rows
    BY <1>1 DEF IInv, KeyInv
  <2> QED BY <2>3, <2>4, <2>5 DEF KeyInv
<1>7. AllOrNothing'
  <2> SUFFICES ASSUME NEW s \in Requests
               PROVE  {k \in Keys : owner'[k] = s} = IF s \in logged' THEN req'[s].asked ELSE {}
    BY DEF AllOrNothing
  <2>1. {k \in Keys : owner[k] = s} = IF s \in logged THEN req[s].asked ELSE {}
    BY DEF IInv, AllOrNothing
  <2> QED BY <1>1, <1>2, <2>1
<1> QED BY <1>3, <1>4, <1>5, <1>6, <1>7 DEF IInv

\* The same, for the steps that leave the clock and the entries alone.
LEMMA RequestSteps ==
    ASSUME IInv, NEW r \in Requests, NEW n \in Request, req[r].stage # "done",
           req' = [req EXCEPT ![r] = n], UNCHANGED <<chainVars, row, owner>>,
           n.stage # "commit",
           n.stage \in InTransaction =>
               \A k \in n.asked \ ToSet(n.left) :
                   /\ owner[k] = None
                   /\ \A s \in Open \ {r} : k \notin Inserted(s),
           n.stage \in {"write", "audit"} => n.left = <<>>,
           n.stage = "write" => n.row \in Rows
    PROVE  IInv'
<1>1. UNCHANGED <<clock, lastV7, entry, logged, row, owner>>
  BY DEF chainVars
<1>2. /\ entry' \in [Requests -> Entry] /\ lastV7' \in Nat /\ lastV7 <= lastV7'
      /\ entry'[r].id <= lastV7'
  BY <1>1 DEF IInv, TypeOK, ChainTypeOK, OpenInv
<1> QED BY <1>1, <1>2, RequestMoves

LEMMA RequestIs ==
    ASSUME TypeOK, NEW r \in Requests
    PROVE  /\ req[r] \in Request
           /\ \A s \in Stages : LET n == [req[r] EXCEPT !.stage = s] IN
                  /\ n \in Request /\ n.stage = s /\ n.asked = req[r].asked /\ n.left = req[r].left
                  /\ n.row = req[r].row
<1>1. req[r] \in Request
  BY DEF TypeOK
<1> QED BY <1>1 DEF Request

LEMMA ReadyIsRequest ==
    /\ NewRow \in Row
    /\ NoRequest \in Request /\ NoRequest.asked = {} /\ NoRequest.left = <<>>
<1>1. NewRow \in Row
  BY DEF NewRow, Row
<1> QED BY <1>1 DEF NoRequest, Request, Stages

LEMMA ReadKeeps ==
    ASSUME IInv, NEW r \in Requests, NEW x \in Rows, NEW f \in Fields \cup {None}, Read(r, x, f)
    PROVE  IInv'
<1> DEFINE n == [NoRequest EXCEPT !.stage = "write", !.row = x, !.copy = row[x], !.field = f,
                               !.known = logged]
<1>1. /\ req[r].stage = "ready" /\ req' = [req EXCEPT ![r] = n]
      /\ UNCHANGED <<chainVars, row, owner>>
  BY DEF Read
<1>2. row[x] \in Row /\ logged \subseteq Requests
  BY DEF IInv, TypeOK, ChainTypeOK
<1>3. n \in Request /\ n.stage = "write" /\ n.asked = {} /\ n.left = <<>> /\ n.row = x
  BY <1>2, ReadyIsRequest DEF Request, Stages
<1> HIDE DEF n
<1> QED BY <1>1, <1>3, RequestSteps

LEMMA BeginInsertsKeeps ==
    ASSUME IInv, NEW r \in Requests, NEW s \in Seq(Keys), BeginInserts(r, s)
    PROVE  IInv'
<1> DEFINE n == [NoRequest EXCEPT !.stage = "insert", !.asked = ToSet(s), !.left = s]
<1>1. /\ req[r].stage = "ready" /\ req' = [req EXCEPT ![r] = n]
      /\ UNCHANGED <<chainVars, row, owner>>
  BY DEF BeginInserts
<1>2. ToSet(s) \subseteq Keys
  BY DEF ToSet
<1>3. n \in Request /\ n.stage = "insert" /\ n.asked = ToSet(s) /\ n.left = s
  BY <1>2, ReadyIsRequest DEF Request, Stages
<1> HIDE DEF n
<1> QED BY <1>1, <1>3, RequestSteps

LEMMA CreatesKeep ==
    ASSUME IInv, NEW r \in Requests,
           CreateUnit(r) \/ CreateCommunity(r) \/ CreateOffice(r) \/ AddOfficeMember(r) \/ ImportUnits(r)
    PROVE  IInv'
<1>1. PICK s \in Seq(Keys) : BeginInserts(r, s)
  <2>0. <<>> \in Seq(Keys)
    OBVIOUS
  <2>1. CASE CreateUnit(r)
    <3>1. PICK s \in {<<>>} \cup {<<k>> : k \in UnitKeys}, m \in {<<>>, <<r>>} :
            BeginInserts(r, s \o m)
      BY <2>1 DEF CreateUnit
    <3>2. s \in Seq(Keys)
      <4>1. CASE s = <<>>
        BY <2>0, <4>1
      <4>2. CASE \E k \in UnitKeys : s = <<k>>
        <5>1. PICK k \in Keys : s = <<k>>
          BY <4>2 DEF Keys
        <5> QED BY <5>1
      <4> QED BY <3>1, <4>1, <4>2
    <3>3. m \in Seq(Keys)
      <4>1. r \in Keys
        BY DEF Keys
      <4>2. <<r>> \in Seq(Keys)
        BY <4>1
      <4> QED BY <2>0, <4>2
    <3>4. s \o m \in Seq(Keys)
      BY <3>2, <3>3
    <3> QED BY <3>1, <3>4
  <2>3. CASE CreateCommunity(r)
    BY <2>0, <2>3 DEF CreateCommunity
  <2>4. CASE CreateOffice(r)
    <3>1. PICK n \in Cifs, e \in Emails : BeginInserts(r, <<n, e>>)
      BY <2>4 DEF CreateOffice
    <3>2. n \in Keys /\ e \in Keys
      BY DEF Keys
    <3>3. <<n, e>> \in Seq(Keys)
      BY <3>2
    <3> QED BY <3>1, <3>3
  <2>5. CASE AddOfficeMember(r)
    <3>1. PICK k \in StaffKeys : BeginInserts(r, <<k>>)
      BY <2>5 DEF AddOfficeMember
    <3>2. <<k>> \in Seq(Keys)
      BY DEF Keys
    <3> QED BY <3>1, <3>2
  <2>2. CASE ImportUnits(r)
    <3>1. PICK s \in UNION {[1..n -> UnitKeys] : n \in 1..Cardinality(UnitKeys)} : BeginInserts(r, s)
      BY <2>2 DEF ImportUnits, ParseImportRows
    <3>2. Cardinality(UnitKeys) \in Nat
      BY FS_CardinalityType, TenancyAssumption
    <3>3. PICK n \in Nat : s \in [1..n -> UnitKeys]
      BY <3>1, <3>2
    <3>4. s \in [1..n -> Keys]
      BY <3>3 DEF Keys
    <3>5. s \in Seq(Keys)
      BY <3>4, SeqDef
    <3> QED BY <3>1, <3>5
  <2> QED BY <2>1, <2>2, <2>3, <2>4, <2>5
<1> QED BY <1>1, BeginInsertsKeeps

\* A step that leaves the keys of the request as they are.
LEMMA KeysStay ==
    ASSUME IInv, NEW r \in Open, NEW n, n.asked = req[r].asked, n.left = req[r].left
    PROVE  \A k \in n.asked \ ToSet(n.left) :
               /\ owner[k] = None
               /\ \A s \in Open \ {r} : k \notin Inserted(s)
BY DEF IInv, KeyInv, Inserted

LEMMA WriteKeeps ==
    ASSUME IInv, NEW r \in Requests, Write(r)
    PROVE  IInv'
<1> DEFINE n == [req[r] EXCEPT !.stage = "audit", !.copy = Written(r)]
<1>1. /\ req[r].stage = "write" /\ req' = [req EXCEPT ![r] = n]
      /\ UNCHANGED <<chainVars, row, owner>>
  BY DEF Write, IInv, TypeOK
<1>2. req[r] \in Request /\ req[r].row \in Rows /\ row[req[r].row] \in Row /\ req[r].left = <<>>
  BY <1>1 DEF IInv, TypeOK, KeyInv
<1>3. Written(r) \in Row
  <2>1. CASE req[r].field = None
    BY <1>2, <2>1 DEF Written, Row
  <2>2. CASE req[r].field # None
    <3>1. req[r].copy \in Row /\ req[r].field \in Fields
      BY <1>2, <2>2 DEF Request
    <3> QED BY <2>2, <3>1 DEF Written, Row
  <2> QED BY <2>1, <2>2
<1>4. /\ n \in Request /\ n.stage = "audit" /\ n.asked = req[r].asked /\ n.left = req[r].left
  BY <1>2, <1>3 DEF Request, Stages
<1>5. r \in Open
  BY <1>1 DEF Open, InTransaction
<1> HIDE DEF n
<1>6. \A k \in n.asked \ ToSet(n.left) : /\ owner[k] = None
                                         /\ \A s \in Open \ {r} : k \notin Inserted(s)
  BY <1>4, <1>5, KeysStay
<1> QED BY <1>1, <1>2, <1>4, <1>6, RequestSteps

LEMMA TailLoses ==
    ASSUME NEW S, NEW s \in Seq(S), s # <<>>
    PROVE  ToSet(s) \subseteq {Head(s)} \cup ToSet(Tail(s))
<1> SUFFICES ASSUME NEW i \in DOMAIN s, s[i] # Head(s) PROVE s[i] \in ToSet(Tail(s))
  BY DEF ToSet
<1>1. i \in 2..Len(s) /\ i - 1 \in DOMAIN Tail(s) /\ Tail(s)[i - 1] = s[i]
  OBVIOUS
<1> QED BY <1>1 DEF ToSet

LEMMA InsertKeeps ==
    ASSUME IInv, NEW r \in Requests, Insert(r)
    PROVE  IInv'
<1> DEFINE n == [req[r] EXCEPT !.left = Tail(@)]
           k == Head(req[r].left)
<1>1. /\ req[r].stage = "insert" /\ req[r].left # <<>> /\ req' = [req EXCEPT ![r] = n]
      /\ ~KeyLocked(r, k) /\ owner[k] = None /\ UNCHANGED <<chainVars, row, owner>>
  BY DEF Insert, IInv, TypeOK
<1>2. req[r] \in Request /\ req[r].left \in Seq(Keys)
  BY DEF IInv, TypeOK, Request
<1>3. /\ n \in Request /\ n.stage = "insert" /\ n.asked = req[r].asked /\ n.left = Tail(req[r].left)
  <2> DEFINE t == Tail(req[r].left)
  <2>1. t \in Seq(Keys)
    BY <1>1, <1>2
  <2>2. n = [req[r] EXCEPT !.left = t]
    OBVIOUS
  <2> HIDE DEF t, n
  <2>3. n \in Request /\ n.stage = "insert" /\ n.asked = req[r].asked /\ n.left = t
    BY <1>1, <1>2, <2>1, <2>2 DEF Request
  <2> QED BY <2>3 DEF t
<1> HIDE DEF n
<1>4. n.asked \ ToSet(n.left) \subseteq Inserted(r) \cup {k}
  BY <1>1, <1>2, <1>3, TailLoses DEF Inserted
<1>5. \A s \in Open \ {r} : k \notin Inserted(s)
  BY <1>1 DEF KeyLocked, Open
<1>6. \A j \in Inserted(r) : owner[j] = None /\ \A s \in Open \ {r} : j \notin Inserted(s)
  BY <1>1 DEF IInv, KeyInv, Open, InTransaction
<1>7. \A j \in n.asked \ ToSet(n.left) : /\ owner[j] = None
                                         /\ \A s \in Open \ {r} : j \notin Inserted(s)
  BY <1>1, <1>4, <1>5, <1>6
<1> QED BY <1>1, <1>3, <1>7, RequestSteps

LEMMA InsertsDoneKeeps ==
    ASSUME IInv, NEW r \in Requests, InsertsDone(r)
    PROVE  IInv'
<1> DEFINE n == [req[r] EXCEPT !.stage = "audit"]
<1>1. /\ req[r].stage = "insert" /\ req[r].left = <<>> /\ req' = [req EXCEPT ![r] = n]
      /\ UNCHANGED <<chainVars, row, owner>>
  BY DEF InsertsDone, At, IInv, TypeOK
<1>2. /\ n \in Request /\ n.stage = "audit" /\ n.asked = req[r].asked /\ n.left = req[r].left
  BY RequestIs DEF IInv, Stages
<1>3. r \in Open
  BY <1>1 DEF Open, InTransaction
<1> HIDE DEF n
<1>4. \A k \in n.asked \ ToSet(n.left) : /\ owner[k] = None
                                         /\ \A s \in Open \ {r} : k \notin Inserted(s)
  BY <1>2, <1>3, KeysStay
<1> QED BY <1>1, <1>2, <1>4, RequestSteps

LEMMA RollbackKeeps ==
    ASSUME IInv, NEW r \in Requests, Rollback(r)
    PROVE  IInv'
<1> DEFINE n == [req[r] EXCEPT !.stage = "done"]
<1>1. /\ req[r].stage \in InTransaction /\ req' = [req EXCEPT ![r] = n]
      /\ entry' = [entry EXCEPT ![r] = NoEntry] /\ UNCHANGED <<clock, lastV7, logged, row, owner>>
  BY DEF Rollback, RollbackEntry, At, IInv, TypeOK
<1>2. n \in Request /\ n.stage = "done"
  BY RequestIs DEF IInv, Stages
<1>3. NoEntry \in Entry /\ NoEntry.id = 0
  BY AuditAssumption DEF NoEntry, Entry, Times
<1>4. /\ entry' \in [Requests -> Entry] /\ \A s \in Requests \ {r} : entry'[s] = entry[s]
      /\ lastV7' \in Nat /\ lastV7 <= lastV7' /\ entry'[r].id <= lastV7'
  BY <1>1, <1>3 DEF IInv, TypeOK, ChainTypeOK
<1>5. req[r].stage # "done" /\ n.stage \notin InTransaction
  BY <1>1, <1>2 DEF InTransaction
<1> HIDE DEF n
<1> QED BY <1>1, <1>2, <1>4, <1>5, RequestMoves DEF InTransaction

LEMMA MaxOfTwo ==
    ASSUME NEW a \in Nat, NEW b \in Nat
    PROVE  /\ Max({a, b}) \in {a, b} /\ Max({a, b}) >= a /\ Max({a, b}) >= b
<1>1. \E x \in {a, b} : \A y \in {a, b} : x >= y
  OBVIOUS
<1>2. Max({a, b}) \in {a, b} /\ \A y \in {a, b} : Max({a, b}) >= y
  BY <1>1 DEF Max
<1> QED BY <1>2

\* A transaction that gets the chain's lock finds the head of the log, and comes after it.
LEMMA HeadPrecedes ==
    ASSUME IInv
    PROVE  /\ GetAuditLogHead \in Requests \cup {None} /\ CreatedAt \in Times
           /\ logged = {} => GetAuditLogHead = None
           /\ logged # {} => IsLast(GetAuditLogHead, logged)
           /\ \A s \in logged : entry[s].created <= CreatedAt
<1>1. /\ entry \in [Requests -> Entry] /\ clock \in Times /\ Times \subseteq Nat
      /\ logged \subseteq Requests
  BY AuditAssumption DEF IInv, TypeOK, ChainTypeOK, Times
<1>2. CASE logged = {}
  <2>1. GetAuditLogHead = None
    BY <1>2 DEF GetAuditLogHead, LastOf
  <2> QED BY <1>1, <1>2, <2>1 DEF CreatedAt
<1>3. CASE logged # {}
  <2>1. PICK p \in logged : IsLast(p, logged)
    BY <1>3 DEF IInv, LogInv
  <2>2. GetAuditLogHead = p /\ p # None
    BY <1>1, <2>1, LastIs, AuditAssumption DEF GetAuditLogHead
  <2>3. entry[p].created \in Times
    BY <1>1, <2>1 DEF Entry
  <2>4. CreatedAt = Max({clock, entry[p].created})
    BY <2>2 DEF CreatedAt
  <2>5. CreatedAt \in Times /\ CreatedAt >= entry[p].created
    BY <1>1, <2>3, <2>4, MaxOfTwo
  <2>6. ASSUME NEW s \in logged PROVE entry[s].created <= CreatedAt
    <3>1. entry[s].created \in Times /\ (s = p \/ Precedes(s, p))
      BY <1>1, <2>1 DEF Entry, IsLast
    <3>2. entry[s].created \in Nat /\ entry[p].created \in Nat /\ CreatedAt \in Nat
      BY <1>1, <2>3, <2>5, <3>1
    <3>3. entry[s].created <= entry[p].created
      BY <3>1, <3>2 DEF Precedes
    <3> QED BY <2>5, <3>2, <3>3
  <2> QED BY <1>1, <1>3, <2>1, <2>2, <2>5, <2>6
<1> QED BY <1>2, <1>3

LEMMA AuditKeeps ==
    ASSUME IInv, NEW r \in Requests, Audit(r)
    PROVE  IInv'
<1> DEFINE n == [req[r] EXCEPT !.stage = "commit"]
           e == [prev |-> GetAuditLogHead, created |-> CreatedAt, id |-> NewV7]
<1>1. /\ req[r].stage = "audit" /\ HoldChainLock = {} /\ req' = [req EXCEPT ![r] = n]
      /\ entry' = [entry EXCEPT ![r] = e] /\ lastV7' = NewV7
      /\ UNCHANGED <<clock, logged, row, owner>>
  BY DEF Audit, AppendEntry, InsertAuditLog, At, IInv, TypeOK
<1>2. /\ entry \in [Requests -> Entry] /\ clock \in Times /\ lastV7 \in Nat
      /\ logged \subseteq Requests
  BY DEF IInv, TypeOK, ChainTypeOK
<1>3. r \notin logged /\ r \in Open /\ req[r].left = <<>>
  BY <1>1 DEF IInv, OpenInv, Open, InTransaction, KeyInv
<1>4. lastV7' \in Nat /\ lastV7 < lastV7' /\ NewV7 \in Nat
  BY <1>1, <1>2, AuditAssumption DEF NewV7, Times
<1>5. /\ e \in Entry /\ e.id = lastV7'
      /\ logged = {} => e.prev = None
      /\ logged # {} => IsLast(e.prev, logged)
      /\ \A s \in logged : entry[s].created <= e.created
  BY <1>1, <1>4, HeadPrecedes DEF Entry
<1>6. /\ n \in Request /\ n.stage = "commit" /\ n.asked = req[r].asked /\ n.left = req[r].left
  BY RequestIs DEF IInv, Stages
<1> HIDE DEF n, e
<1>7. /\ entry' \in [Requests -> Entry] /\ entry'[r] = e
      /\ \A s \in Requests \ {r} : entry'[s] = entry[s]
  BY <1>1, <1>2, <1>5
<1>8. \A s \in logged : Precedes(s, r)'
  <2> SUFFICES ASSUME NEW s \in logged PROVE Precedes(s, r)'
    OBVIOUS
  <2>1. entry'[s] = entry[s] /\ entry[s] \in Entry /\ entry[s].id <= lastV7
    BY <1>2, <1>3, <1>7 DEF IInv, OpenInv
  <2>2. entry[s].created <= e.created /\ entry[s].id < e.id
    BY <1>2, <1>4, <1>5, <2>1 DEF Entry
  <2> QED BY <1>5, <1>7, <2>1, <2>2, AuditAssumption DEF Precedes, Entry, Times
<1>9. Follows(r, logged)'
  <2>1. CASE logged = {}
    BY <1>1, <1>5, <1>7, <2>1 DEF Follows
  <2>2. CASE logged # {}
    <3>1. \A s, t \in logged : Precedes(s, t)' <=> Precedes(s, t)
      BY <1>2, <1>3, <1>7 DEF Precedes
    <3> QED BY <1>1, <1>5, <1>7, <2>2, <3>1 DEF Follows, IsLast
  <2> QED BY <2>1, <2>2
<1>10. \A k \in n.asked \ ToSet(n.left) : /\ owner[k] = None
                                          /\ \A s \in Open \ {r} : k \notin Inserted(s)
  BY <1>3, <1>6, KeysStay
<1>11. lastV7 <= lastV7' /\ entry'[r].id <= lastV7' /\ req[r].stage # "done"
  BY <1>1, <1>2, <1>4, <1>5, <1>7
<1> QED BY <1>1, <1>3, <1>4, <1>6, <1>7, <1>8, <1>9, <1>10, <1>11, RequestMoves

-----------------------------------------------------------------------------
(* A commit extends the log at its end                                              *)

LEMMA CommitKeeps ==
    ASSUME IInv, NEW r \in Requests, Commit(r)
    PROVE  IInv'
<1> DEFINE n == [req[r] EXCEPT !.stage = "done"]
<1>1. /\ req[r].stage = "commit" /\ req' = [req EXCEPT ![r] = n]
      /\ logged' = logged \cup {r} /\ UNCHANGED <<clock, lastV7, entry>>
      /\ row' = [x \in Rows |-> IF x = req[r].row THEN req[r].copy ELSE row[x]]
      /\ owner' = [k \in Keys |-> IF k \in req[r].asked THEN r ELSE owner[k]]
  BY DEF Commit, CommitEntry, At, IInv, TypeOK
<1>2. /\ entry \in [Requests -> Entry] /\ logged \subseteq Requests /\ req[r] \in Request
  BY DEF IInv, TypeOK, ChainTypeOK
<1>3. /\ r \in Open /\ r \in HoldChainLock /\ r \notin logged /\ req[r].left = <<>>
  BY <1>1 DEF IInv, OpenInv, KeyInv, Open, InTransaction, HoldChainLock
<1>4. /\ n \in Request /\ n.stage = "done" /\ n.asked = req[r].asked /\ n.left = req[r].left
      /\ n.row = req[r].row /\ n.copy = req[r].copy
  BY <1>2, RequestIs DEF IInv, Stages, Request
<1> HIDE DEF n
<1>5. \A s \in Requests : req'[s] = IF s = r THEN n ELSE req[s]
  BY <1>1 DEF IInv, TypeOK
<1>6. Follows(r, logged) /\ \A s \in logged : Precedes(s, r)
  BY <1>3 DEF IInv, OpenInv
<1>7. \A s, t \in Requests : Precedes(s, t)' <=> Precedes(s, t)
  BY <1>1 DEF Precedes
<1>8. TypeOK'
  <2>1. row' \in [Rows -> Row]
    BY <1>1, <1>2 DEF IInv, TypeOK, Request
  <2>2. owner' \in [Keys -> Requests \cup {None}]
    BY <1>1 DEF IInv, TypeOK
  <2>3. req' \in [Requests -> Request]
    BY <1>1, <1>4 DEF IInv, TypeOK
  <2>4. ChainTypeOK'
    BY <1>1 DEF IInv, TypeOK, ChainTypeOK
  <2> QED BY <2>1, <2>2, <2>3, <2>4 DEF TypeOK
<1>9. LogInv'
  <2>1. \A s, t \in logged' : s # t => (Precedes(s, t) \/ Precedes(t, s))'
    BY <1>1, <1>2, <1>6, <1>7 DEF IInv, LogInv
  <2>2. IsLast(r, logged)'
    BY <1>1, <1>2, <1>6, <1>7 DEF IsLast
  <2>3. ListAuditLogBefore(r)' = logged
    BY <1>1, <1>2, <1>6, <1>7, OrderIsStrict DEF ListAuditLogBefore
  <2>4. \A s \in logged : ListAuditLogBefore(s)' = ListAuditLogBefore(s)
    BY <1>1, <1>2, <1>6, <1>7, OrderIsStrict DEF ListAuditLogBefore
  <2>5. \A s \in Requests : \A S \in SUBSET logged : Follows(s, S)' <=> Follows(s, S)
    BY <1>1, <1>2, <1>7 DEF Follows, IsLast
  <2>6. \A s \in logged : Follows(s, ListAuditLogBefore(s))'
    BY <1>2, <2>4, <2>5 DEF IInv, LogInv, ListAuditLogBefore
  <2>7. Follows(r, ListAuditLogBefore(r))'
    BY <1>6, <2>3, <2>5
  <2> QED BY <1>1, <2>1, <2>2, <2>6, <2>7 DEF LogInv
<1>10. RowInv'
  <2> SUFFICES ASSUME NEW x \in Rows
               PROVE  \/ About(x)' = {} /\ row'[x] = NewRow
                      \/ \E p \in About(x)' : IsLast(p, About(x))' /\ row'[x] = req'[p].copy
    BY DEF RowInv, NewRow
  <2>1. CASE x = req[r].row
    <3>1. r \in About(x)' /\ About(x)' \subseteq logged \cup {r}
      BY <1>1, <1>4, <1>5, <2>1 DEF About
    <3>2. IsLast(r, About(x))'
      BY <1>2, <1>6, <1>7, <3>1 DEF IsLast
    <3>3. row'[x] = req'[r].copy
      BY <1>1, <1>4, <1>5, <2>1
    <3> QED BY <3>1, <3>2, <3>3
  <2>2. CASE x # req[r].row
    <3>1. About(x)' = About(x) /\ About(x) \subseteq logged
      BY <1>1, <1>2, <1>3, <1>4, <1>5, <2>2 DEF About
    <3>2. row'[x] = row[x] /\ \A p \in About(x) : req'[p] = req[p]
      BY <1>1, <1>2, <1>3, <1>5, <2>2, <3>1
    <3>3. \A p \in About(x) : IsLast(p, About(x))' <=> IsLast(p, About(x))
      BY <1>2, <1>7, <3>1 DEF IsLast
    <3> QED BY <3>1, <3>2, <3>3 DEF IInv, RowInv
  <2> QED BY <2>1, <2>2
<1>11. OpenInv'
  <2>1. HoldChainLock' = {}
    BY <1>3, <1>4, <1>5 DEF IInv, OpenInv, HoldChainLock
  <2>2. \A s \in logged' : req'[s].stage = "done"
    BY <1>1, <1>2, <1>4, <1>5 DEF IInv, OpenInv
  <2>3. \A s \in Requests : entry'[s].id <= lastV7'
    BY <1>1 DEF IInv, OpenInv
  <2> QED BY <2>1, <2>2, <2>3 DEF OpenInv
<1>12. Inserted(r) = req[r].asked
  BY <1>3 DEF Inserted, ToSet
<1>13. KeyInv'
  <2>1. \A s \in Open' : s \in Open \ {r} /\ Inserted(s)' = Inserted(s) /\ Inserted(s) \subseteq Keys
    BY <1>4, <1>5 DEF Open, InTransaction, Inserted, IInv, TypeOK, Request
  <2>2. \A s \in Open \ {r} : \A k \in Inserted(s) : owner[k] = None /\ k \notin req[r].asked
    BY <1>3, <1>12 DEF IInv, KeyInv
  <2>3. \A s \in Open' : \A k \in Inserted(s)' : owner'[k] = None
    BY <1>1, <2>1, <2>2
  <2>4. \A s, t \in Open' : s # t => Inserted(s)' \cap Inserted(t)' = {}
    BY <2>1 DEF IInv, KeyInv
  <2>5. \A s \in Requests : /\ req'[s].stage \in {"write", "audit", "commit"} => req'[s].left = <<>>
                            /\ req'[s].stage = "write" => req'[s].row \in Rows
    BY <1>4, <1>5 DEF IInv, KeyInv
  <2> QED BY <2>3, <2>4, <2>5 DEF KeyInv
<1>14. AllOrNothing'
  <2> SUFFICES ASSUME NEW s \in Requests
               PROVE  {k \in Keys : owner'[k] = s} = IF s \in logged' THEN req'[s].asked ELSE {}
    BY DEF AllOrNothing
  <2>1. /\ {k \in Keys : owner[k] = s} = IF s \in logged THEN req[s].asked ELSE {}
        /\ req[r].asked \subseteq Keys
    BY <1>2 DEF IInv, AllOrNothing, Request
  <2>2. \A k \in req[r].asked : owner[k] = None
    BY <1>3, <1>12 DEF IInv, KeyInv
  <2>3. CASE s = r
    BY <1>1, <1>3, <1>4, <1>5, <2>1, <2>3
  <2>4. CASE s # r
    BY <1>1, <1>5, <2>1, <2>2, <2>4, AuditAssumption
  <2> QED BY <2>3, <2>4
<1> QED BY <1>8, <1>9, <1>10, <1>11, <1>13, <1>14 DEF IInv

LEMMA StutterKeeps ==
    ASSUME IInv, (SetClock /\ UNCHANGED <<row, owner, req>>) \/ UNCHANGED vars
    PROVE  IInv'
<1>1. UNCHANGED <<lastV7, entry, logged, row, owner, req>> /\ clock' \in Times
  BY DEF SetClock, vars, chainVars, IInv, TypeOK, ChainTypeOK
<1>2. TypeOK'
  BY <1>1 DEF IInv, TypeOK, ChainTypeOK
<1>3. LogInv' /\ RowInv'
  BY <1>1, LogKeeps DEF IInv, TypeOK, ChainTypeOK
<1>4. OpenInv'
  BY <1>1 DEF IInv, OpenInv, HoldChainLock, Follows, IsLast, Precedes
<1>5. KeyInv' /\ AllOrNothing'
  BY <1>1 DEF IInv, KeyInv, Open, Inserted, AllOrNothing
<1> QED BY <1>2, <1>3, <1>4, <1>5 DEF IInv

LEMMA NextKeeps == ASSUME IInv, [Next]_vars PROVE IInv'
<1>1. ASSUME NEW r \in Requests, \/ \E m \in Members : UpdateUnitMember(r, m) \/ DeleteUnitMember(r, m)
                                 \/ \E c \in Communities : UpdateCommunity(r, c)
      PROVE  IInv'
  <2>1. PICK x \in Rows, f \in Fields \cup {None} : Read(r, x, f)
    BY <1>1 DEF UpdateUnitMember, DeleteUnitMember, UpdateCommunity, Rows
  <2> QED BY <2>1, ReadKeeps
<1>2. ASSUME NEW r \in Requests,
             \/ CreateUnit(r) \/ CreateCommunity(r) \/ CreateOffice(r) \/ AddOfficeMember(r)
             \/ ImportUnits(r)
      PROVE  IInv'
  BY <1>2, CreatesKeep
<1>3. ASSUME NEW r \in Requests,
             Write(r) \/ Insert(r) \/ InsertsDone(r) \/ Audit(r) \/ Commit(r) \/ Rollback(r)
      PROVE  IInv'
  BY <1>3, WriteKeeps, InsertKeeps, InsertsDoneKeeps, AuditKeeps, CommitKeeps, RollbackKeeps
<1>4. CASE (SetClock /\ UNCHANGED <<row, owner, req>>) \/ UNCHANGED vars
  BY <1>4, StutterKeeps
<1> QED BY <1>1, <1>2, <1>3, <1>4 DEF Next

-----------------------------------------------------------------------------
\* The invariant holds in every state the system reaches.
THEOREM Invariance == Spec => []IInv
BY InitEstablishes, NextKeeps, PTL DEF Spec

\* The log, the rows, the keys and the requests stay within their types.
THEOREM TypeCorrect == Spec => []TypeOK
<1>1. IInv => TypeOK
  BY DEF IInv
<1> QED BY <1>1, Invariance, PTL

\* Every entry has the hash of the one before it, however the clock is set and whoever
\* else is writing.
THEOREM LogVerifies == Spec => []ChainVerifies
<1>1. IInv => ChainVerifies
  <2> SUFFICES ASSUME IInv, NEW r \in logged PROVE entry[r].prev = LastOf(ListAuditLogBefore(r))
    BY DEF ChainVerifies, VerifyChain
  <2>1. entry \in [Requests -> Entry] /\ logged \subseteq Requests
    BY DEF IInv, TypeOK, ChainTypeOK
  <2>2. Follows(r, ListAuditLogBefore(r)) /\ ListAuditLogBefore(r) \in SUBSET Requests
    BY <2>1 DEF IInv, LogInv, ListAuditLogBefore
  <2> QED BY <2>1, <2>2, FollowsLast
<1> QED BY <1>1, Invariance, PTL

\* The last entry about a row says what the row is.
THEOREM LogTellsRows == Spec => []LastEntryIsRow
<1>1. IInv => LastEntryIsRow
  <2> SUFFICES ASSUME IInv, NEW x \in Rows
               PROVE  row[x] = IF About(x) = {} THEN NewRow ELSE req[LastOf(About(x))].copy
    BY DEF LastEntryIsRow
  <2>1. entry \in [Requests -> Entry] /\ About(x) \in SUBSET Requests
    BY DEF IInv, TypeOK, ChainTypeOK, About
  <2>2. CASE About(x) = {}
    BY <2>2 DEF IInv, RowInv
  <2>3. CASE About(x) # {}
    <3>1. PICK p \in About(x) : IsLast(p, About(x)) /\ row[x] = req[p].copy
      BY <2>3 DEF IInv, RowInv
    <3>2. LastOf(About(x)) = p
      BY <2>1, <3>1, LastIs
    <3> QED BY <2>3, <3>1, <3>2
  <2> QED BY <2>2, <2>3
<1> QED BY <1>1, Invariance, PTL

\* An operation in the log has inserted all of its rows, any other none.
THEOREM OperationsAreWhole == Spec => []AllOrNothing
<1>1. IInv => AllOrNothing
  BY DEF IInv
<1> QED BY <1>1, Invariance, PTL

-----------------------------------------------------------------------------
(* What an update undoes                                                            *)

\* The columns of c, but for g, are those that the last entry of S left.
Version(c, g, S) ==
    \/ S = {} /\ \A f \in Fields \ {g} : c.fields[f] = None
    \/ \E p \in S : IsLast(p, S) /\ \A f \in Fields \ {g} : c.fields[f] = req[p].copy.fields[f]

Updating(r) == req[r].stage \in {"write", "audit", "commit"} /\ req[r].row # None

\* An update has a version of the row that was in the log when it read it; a delete, which
\* holds the row's lock from its statement on, has the row as it is.
CopyOf(r) ==
    /\ req[r].stage = "insert" => req[r].row = None
    /\ Updating(r) /\ req[r].field # None =>
        /\ req[r].known \subseteq logged
        /\ Version(req[r].copy, req[r].field, About(req[r].row) \cap req[r].known)
    /\ Updating(r) /\ req[r].stage # "write" /\ req[r].field = None =>
        \A f \in Fields : req[r].copy.fields[f] = row[req[r].row].fields[f]

CopyInv ==
    /\ \A r \in Requests : CopyOf(r)
    /\ \A r, s \in Requests :
        r # s /\ Updating(r) /\ req[r].stage # "write" /\ Updating(s) /\ req[s].stage # "write"
            => req[r].row # req[s].row

\* OnlyOvertakenUndo, with the last entry about the row as a witness.
UndoInv ==
    \A r \in logged :
        req[r].row # None /\ (req[r].field = None \/ Before(r) \subseteq req[r].known)
            => Version(req[r].copy, req[r].field, Before(r))

LEMMA VersionStays ==
    ASSUME NEW c, NEW g, NEW S, \A s \in S : entry'[s] = entry[s] /\ req'[s] = req[s],
           Version(c, g, S)
    PROVE  Version(c, g, S)'
BY DEF Version, IsLast, Precedes

\* The row is what the last entry about it has left.
LEMMA RowIsVersion ==
    ASSUME IInv, NEW x \in Rows, NEW g
    PROVE  Version(row[x], g, About(x))
BY DEF IInv, RowInv, Version, NewRow

\* What is logged is not touched again.
LEMMA UndoFrame ==
    ASSUME UndoInv, logged' = logged, \A s \in logged : entry'[s] = entry[s] /\ req'[s] = req[s]
    PROVE  UndoInv'
<1> SUFFICES ASSUME NEW r \in logged, req[r].row # None,
                    req[r].field = None \/ Before(r)' \subseteq req[r].known
             PROVE  Version(req[r].copy, req[r].field, Before(r))'
  BY DEF UndoInv
<1>1. \A s, t \in logged : Precedes(s, t)' <=> Precedes(s, t)
  BY DEF Precedes
<1>2. Before(r)' = Before(r) /\ Before(r) \subseteq logged
  <2>1. About(req[r].row)' = About(req[r].row)
    BY DEF About
  <2>2. ListAuditLogBefore(r)' = ListAuditLogBefore(r)
    BY <1>1 DEF ListAuditLogBefore
  <2> QED BY <2>1, <2>2 DEF Before, ListAuditLogBefore
<1>3. PICK S, c, g : S = Before(r) /\ c = req[r].copy /\ g = req[r].field
  OBVIOUS
<1>4. Version(c, g, S)
  BY <1>2, <1>3 DEF UndoInv
<1>5. Version(c, g, S)'
  BY <1>2, <1>3, <1>4, VersionStays
<1>6. req'[r].copy = c /\ req'[r].field = g /\ Before(r)' = S
  BY <1>2, <1>3
<1> QED BY <1>5, <1>6 DEF Version, IsLast, Precedes

\* A request that does not act, when the log and its row stay as they are.
LEMMA CopyFrame ==
    ASSUME NEW s \in Requests, CopyOf(s), req'[s] = req[s], logged \subseteq logged',
           \A t \in logged : entry'[t] = entry[t] /\ req'[t] = req[t],
           Updating(s) /\ req[s].stage # "write" => row'[req[s].row] = row[req[s].row]
    PROVE  CopyOf(s)'
<1>1. CASE Updating(s) /\ req[s].field # None
  <2>1. PICK S, c, g : S = About(req[s].row) \cap req[s].known /\ c = req[s].copy /\ g = req[s].field
    OBVIOUS
  <2>2. req[s].known \subseteq logged /\ Version(c, g, S)
    BY <1>1, <2>1 DEF CopyOf
  <2>3. (About(req[s].row) \cap req[s].known)' = S
    <3>1. About(req[s].row)' = {t \in logged' : req'[t].row = req[s].row}
      BY DEF About
    <3>2. \A t \in req[s].known : t \in logged' /\ req'[t] = req[t]
      BY <2>2
    <3>3. S = {t \in logged : req[t].row = req[s].row} \cap req[s].known
      BY <2>1 DEF About
    <3>4. S = {t \in logged' : req'[t].row = req[s].row} \cap req[s].known
      BY <2>2, <3>2, <3>3
    <3> QED BY <3>1, <3>4
  <2>4. Version(c, g, S)'
    BY <2>1, <2>2, VersionStays
  <2> QED BY <1>1, <2>1, <2>2, <2>3, <2>4 DEF CopyOf, Updating
<1>2. CASE ~(Updating(s) /\ req[s].field # None)
  BY <1>2 DEF CopyOf, Updating
<1> QED BY <1>1, <1>2

\* A step of request r that commits nothing.
LEMMA StepUndo ==
    ASSUME IInv, CopyInv, UndoInv, NEW r \in Requests, NEW n, req[r].stage # "done",
           req' = [req EXCEPT ![r] = n], UNCHANGED <<logged, row>>,
           \A s \in Requests \ {r} : entry'[s] = entry[s],
           n.stage = "insert" => n.row = None,
           n.stage \in {"write", "audit", "commit"} /\ n.row # None =>
               /\ n.field # None => /\ n.known \subseteq logged
                                    /\ Version(n.copy, n.field, About(n.row) \cap n.known)
               /\ n.stage # "write" =>
                   /\ n.field = None => \A f \in Fields : n.copy.fields[f] = row[n.row].fields[f]
                   /\ \A s \in Requests \ {r} :
                          Updating(s) /\ req[s].stage # "write" => req[s].row # n.row
    PROVE  CopyInv' /\ UndoInv'
<1>1. \A s \in Requests : req'[s] = IF s = r THEN n ELSE req[s]
  BY DEF IInv, TypeOK
<1>2. r \notin logged /\ logged \subseteq Requests
  BY DEF IInv, OpenInv, TypeOK, ChainTypeOK
<1>3. \A s \in logged : entry'[s] = entry[s] /\ req'[s] = req[s]
  BY <1>1, <1>2
<1>4. UndoInv'
  BY <1>3, UndoFrame
<1>5. ASSUME NEW s \in Requests \ {r} PROVE CopyOf(s)'
  BY <1>1, <1>3, CopyFrame DEF CopyInv
<1>6. CopyOf(r)'
  <2>1. ASSUME n.stage \in {"write", "audit", "commit"}, n.row # None, n.field # None
        PROVE  /\ n.known \subseteq logged'
               /\ (About(req[r].row) \cap req[r].known)' \subseteq logged
               /\ Version(req[r].copy, req[r].field, About(req[r].row) \cap req[r].known)'
    <3>1. PICK S, c, g : S = About(n.row) \cap n.known /\ c = n.copy /\ g = n.field
      OBVIOUS
    <3>2. S \subseteq logged /\ Version(c, g, S)'
      BY <1>3, <2>1, <3>1, VersionStays
    <3>3. (About(req[r].row) \cap req[r].known)' = S
      BY <1>1, <1>3, <2>1, <3>1 DEF About
    <3> QED BY <1>1, <2>1, <3>1, <3>2, <3>3
  <2> QED BY <1>1, <2>1 DEF CopyOf, Updating
<1>7. ASSUME NEW s \in Requests, NEW t \in Requests, s # t,
             Updating(s)', req'[s].stage # "write", Updating(t)', req'[t].stage # "write"
      PROVE  req'[s].row # req'[t].row
  BY <1>1, <1>7 DEF CopyInv, Updating
<1> QED BY <1>4, <1>5, <1>6, <1>7 DEF CopyInv

LEMMA WriteUndo ==
    ASSUME IInv, CopyInv, UndoInv, NEW r \in Requests, Write(r)
    PROVE  CopyInv' /\ UndoInv'
<1> DEFINE n == [req[r] EXCEPT !.stage = "audit", !.copy = Written(r)]
<1>1. /\ req[r].stage = "write" /\ req' = [req EXCEPT ![r] = n] /\ ~RowLocked(r)
      /\ UNCHANGED <<entry, logged, row>>
  BY DEF Write, chainVars, IInv, TypeOK
<1>2. /\ req[r] \in Request /\ req[r].row \in Rows /\ req[r].row # None
      /\ row[req[r].row] \in Row /\ req[r].copy \in Row /\ CopyOf(r) /\ Updating(r)
  BY <1>1, TenancyAssumption DEF IInv, TypeOK, KeyInv, Request, CopyInv, Updating
<1>3. /\ n.stage = "audit" /\ n.copy = Written(r) /\ n.row = req[r].row
      /\ n.field = req[r].field /\ n.known = req[r].known
  BY <1>2 DEF Request
<1>4. ASSUME req[r].field # None
      PROVE  /\ req[r].known \subseteq logged
             /\ Version(Written(r), req[r].field, About(req[r].row) \cap req[r].known)
  <2>1. \A f \in Fields \ {req[r].field} : Written(r).fields[f] = req[r].copy.fields[f]
    BY <1>2, <1>4 DEF Written, Row
  <2>2. /\ req[r].known \subseteq logged
        /\ Version(req[r].copy, req[r].field, About(req[r].row) \cap req[r].known)
    BY <1>2, <1>4 DEF CopyOf
  <2> QED BY <2>1, <2>2 DEF Version
<1>5. req[r].field = None => \A f \in Fields : Written(r).fields[f] = row[req[r].row].fields[f]
  BY <1>2 DEF Written, Row
<1>6. \A s \in Requests \ {r} : Updating(s) /\ req[s].stage # "write" => req[s].row # req[r].row
  BY <1>1 DEF RowLocked, Updating
<1> HIDE DEF n
<1> QED BY <1>1, <1>3, <1>4, <1>5, <1>6, StepUndo

\* The steps that move a request on, or end it.
LEMMA MoveUndo ==
    ASSUME IInv, CopyInv, UndoInv, NEW r \in Requests,
           Insert(r) \/ InsertsDone(r) \/ Audit(r) \/ Rollback(r)
    PROVE  CopyInv' /\ UndoInv'
<1>1. req[r] \in Request /\ CopyOf(r)
  BY DEF IInv, TypeOK, CopyInv
<1>2. \A s : LET n == [req[r] EXCEPT !.stage = s] IN
          /\ n.stage = s /\ n.row = req[r].row /\ n.copy = req[r].copy
          /\ n.field = req[r].field /\ n.known = req[r].known
  BY <1>1 DEF Request
<1>3. CASE Insert(r)
  <2> DEFINE n == [req[r] EXCEPT !.left = Tail(req[r].left)]
  <2>1. /\ req[r].stage = "insert" /\ req' = [req EXCEPT ![r] = n]
        /\ UNCHANGED <<entry, logged, row>>
    BY <1>3 DEF Insert, chainVars, IInv, TypeOK
  <2>2. n.stage = "insert" /\ n.row = None
    BY <1>1, <2>1 DEF Request, CopyOf
  <2> HIDE DEF n
  <2> QED BY <2>1, <2>2, StepUndo
<1>4. CASE InsertsDone(r)
  <2> DEFINE n == [req[r] EXCEPT !.stage = "audit"]
  <2>1. /\ req[r].stage = "insert" /\ req' = [req EXCEPT ![r] = n]
        /\ UNCHANGED <<entry, logged, row>>
    BY <1>4 DEF InsertsDone, At, chainVars, IInv, TypeOK
  <2>2. n.stage = "audit" /\ n.row = None
    BY <1>1, <1>2, <2>1 DEF CopyOf
  <2> HIDE DEF n
  <2> QED BY <2>1, <2>2, StepUndo
<1>5. CASE Audit(r)
  <2> DEFINE n == [req[r] EXCEPT !.stage = "commit"]
  <2>1. /\ req[r].stage = "audit" /\ req' = [req EXCEPT ![r] = n]
        /\ UNCHANGED <<logged, row>> /\ \A s \in Requests \ {r} : entry'[s] = entry[s]
    BY <1>5 DEF Audit, AppendEntry, InsertAuditLog, At, IInv, TypeOK, ChainTypeOK
  <2>2. /\ n.stage = "commit" /\ n.row = req[r].row /\ n.copy = req[r].copy
        /\ n.field = req[r].field /\ n.known = req[r].known
    BY <1>2
  <2> HIDE DEF n
  <2>3. n.row # None =>
            /\ n.field # None => /\ n.known \subseteq logged
                                 /\ Version(n.copy, n.field, About(n.row) \cap n.known)
            /\ n.field = None => \A f \in Fields : n.copy.fields[f] = row[n.row].fields[f]
            /\ \A s \in Requests \ {r} :
                   Updating(s) /\ req[s].stage # "write" => req[s].row # n.row
    BY <1>1, <2>1, <2>2 DEF CopyInv, CopyOf, Updating
  <2> QED BY <2>1, <2>2, <2>3, StepUndo
<1>6. CASE Rollback(r)
  <2> DEFINE n == [req[r] EXCEPT !.stage = "done"]
  <2>1. /\ req[r].stage # "done" /\ req' = [req EXCEPT ![r] = n]
        /\ UNCHANGED <<logged, row>> /\ \A s \in Requests \ {r} : entry'[s] = entry[s]
    BY <1>6 DEF Rollback, RollbackEntry, InTransaction, At, IInv, TypeOK, ChainTypeOK
  <2>2. n.stage = "done"
    BY <1>2
  <2> HIDE DEF n
  <2> QED BY <2>1, <2>2, StepUndo
<1> QED BY <1>3, <1>4, <1>5, <1>6

\* The entry that a commit adds comes after all of the log.
LEMMA CommitUndo ==
    ASSUME IInv, CopyInv, UndoInv, NEW r \in Requests, Commit(r)
    PROVE  CopyInv' /\ UndoInv'
<1> DEFINE n == [req[r] EXCEPT !.stage = "done"]
<1>1. /\ req[r].stage = "commit" /\ req' = [req EXCEPT ![r] = n]
      /\ logged' = logged \cup {r} /\ entry' = entry
      /\ row' = [x \in Rows |-> IF x = req[r].row THEN req[r].copy ELSE row[x]]
  BY DEF Commit, CommitEntry, At, IInv, TypeOK
<1>2. /\ entry \in [Requests -> Entry] /\ logged \subseteq Requests /\ req[r] \in Request
      /\ r \notin logged /\ \A s \in logged : Precedes(s, r)
  BY <1>1 DEF IInv, TypeOK, ChainTypeOK, OpenInv, HoldChainLock
<1>3. /\ n.stage = "done" /\ n.row = req[r].row /\ n.copy = req[r].copy
      /\ n.field = req[r].field /\ n.known = req[r].known
  BY <1>2 DEF Request
<1> HIDE DEF n
<1>4. \A s \in Requests : req'[s] = IF s = r THEN n ELSE req[s]
  BY <1>1 DEF IInv, TypeOK
<1>5. \A s \in logged : entry'[s] = entry[s] /\ req'[s] = req[s]
  BY <1>1, <1>2, <1>4
<1>6. CopyInv'
  <2>1. ASSUME NEW s \in Requests PROVE CopyOf(s)'
    <3>1. CASE s = r
      BY <1>3, <1>4, <3>1 DEF CopyOf, Updating
    <3>2. CASE s # r
      <4>1. Updating(s) /\ req[s].stage # "write" => row'[req[s].row] = row[req[s].row]
        <5> SUFFICES ASSUME Updating(s), req[s].stage # "write"
                     PROVE  row'[req[s].row] = row[req[s].row]
          OBVIOUS
        <5>1. req[s].row \in Rows /\ req[s].row # None
          BY DEF Updating, IInv, TypeOK, Request
        <5>2. req[s].row # req[r].row
          BY <1>1, <3>2, <5>1 DEF CopyInv, Updating
        <5> QED BY <1>1, <5>1, <5>2
      <4> QED BY <1>1, <1>4, <1>5, <3>2, <4>1, CopyFrame DEF CopyInv
    <3> QED BY <3>1, <3>2
  <2>2. ASSUME NEW s \in Requests, NEW t \in Requests, s # t,
               Updating(s)', req'[s].stage # "write", Updating(t)', req'[t].stage # "write"
        PROVE  req'[s].row # req'[t].row
    BY <1>3, <1>4, <2>2 DEF CopyInv, Updating
  <2> QED BY <2>1, <2>2 DEF CopyInv
<1>7. \A s, t \in Requests : Precedes(s, t)' <=> Precedes(s, t)
  BY <1>1 DEF Precedes
<1>8. ASSUME NEW s \in logged, req'[s].row # None,
             req'[s].field = None \/ (Before(s) \subseteq req[s].known)'
      PROVE  Version(req[s].copy, req[s].field, Before(s))'
  <2>1. req'[s] = req[s] /\ \A t \in logged : req'[t] = req[t]
    BY <1>5
  <2>2. ListAuditLogBefore(s)' = ListAuditLogBefore(s)
    BY <1>1, <1>2, <1>7, OrderIsStrict DEF ListAuditLogBefore
  <2>3. Before(s)' = Before(s) /\ Before(s) \subseteq logged
    BY <1>1, <1>2, <2>1, <2>2 DEF Before, About, ListAuditLogBefore
  <2>4. PICK S, c, g : S = Before(s) /\ c = req[s].copy /\ g = req[s].field
    OBVIOUS
  <2>5. Version(c, g, S)
    BY <1>8, <2>1, <2>3, <2>4 DEF UndoInv
  <2>6. Version(c, g, S)'
    BY <1>5, <2>3, <2>4, <2>5, VersionStays
  <2> QED BY <2>1, <2>3, <2>4, <2>6
<1>9. ASSUME req'[r].row # None, req'[r].field = None \/ (Before(r) \subseteq req[r].known)'
      PROVE  Version(req[r].copy, req[r].field, Before(r))'
  <2>1. PICK x, c, g, S : /\ x \in Rows /\ x = req[r].row /\ S = About(x)
                          /\ c = req[r].copy /\ g = req[r].field
    BY <1>2, <1>3, <1>4, <1>9 DEF Request
  <2>2. Before(r)' = S /\ S \subseteq logged
    <3>1. ListAuditLogBefore(r)' = logged
      BY <1>1, <1>2, <1>7, OrderIsStrict DEF ListAuditLogBefore
    <3>2. req'[r].row = x /\ \A t \in logged : req'[t] = req[t]
      BY <1>3, <1>4, <1>5, <2>1
    <3> QED BY <1>1, <1>2, <2>1, <3>1, <3>2 DEF Before, About
  <2>3. Updating(r) /\ CopyOf(r)
    BY <1>1, <1>3, <1>4, <1>9 DEF Updating, CopyInv
  <2>4. Version(c, g, S)
    <3>1. CASE g = None
      <4>1. \A f \in Fields : c.fields[f] = row[x].fields[f]
        BY <1>1, <2>1, <2>3, <3>1 DEF CopyOf
      <4>2. Version(row[x], g, S)
        BY <2>1, RowIsVersion
      <4> QED BY <4>1, <4>2 DEF Version
    <3>2. CASE g # None
      <4>1. S \subseteq req[r].known
        BY <1>3, <1>4, <1>9, <2>1, <2>2, <3>2
      <4>2. About(req[r].row) \cap req[r].known = S
        BY <2>1, <4>1
      <4> QED BY <2>1, <2>3, <3>2, <4>2 DEF CopyOf
    <3> QED BY <3>1, <3>2
  <2>5. Version(c, g, S)'
    BY <1>5, <2>2, <2>4, VersionStays
  <2> QED BY <1>3, <1>4, <2>1, <2>2, <2>5
<1>10. UndoInv'
  BY <1>1, <1>8, <1>9 DEF UndoInv
<1> QED BY <1>6, <1>10

LEMMA NextUndo == ASSUME IInv, CopyInv, UndoInv, [Next]_vars PROVE CopyInv' /\ UndoInv'
<1>1. ASSUME UNCHANGED <<entry, logged, row, req>>
      PROVE  CopyInv' /\ UndoInv'
  BY <1>1, UndoFrame, CopyFrame DEF CopyInv, Updating
<1>2. CASE (SetClock /\ UNCHANGED <<row, owner, req>>) \/ UNCHANGED vars
  BY <1>1, <1>2 DEF SetClock, vars, chainVars
<1>3. ASSUME NEW r \in Requests, \/ \E m \in Members : UpdateUnitMember(r, m) \/ DeleteUnitMember(r, m)
                                 \/ \E c \in Communities : UpdateCommunity(r, c)
      PROVE  CopyInv' /\ UndoInv'
  <2>1. PICK x \in Rows, f \in Fields \cup {None} : Read(r, x, f)
    BY <1>3 DEF UpdateUnitMember, DeleteUnitMember, UpdateCommunity, Rows
  <2> DEFINE n == [NoRequest EXCEPT !.stage = "write", !.row = x, !.copy = row[x], !.field = f,
                                   !.known = logged]
  <2>2. /\ req[r].stage = "ready" /\ req' = [req EXCEPT ![r] = n]
        /\ UNCHANGED <<entry, logged, row>>
    BY <2>1 DEF Read, chainVars
  <2>3. n.stage = "write" /\ n.row = x /\ n.copy = row[x] /\ n.field = f /\ n.known = logged
    BY DEF NoRequest
  <2> HIDE DEF n
  <2>4. About(x) \cap n.known = About(x)
    BY <2>3 DEF About
  <2>5. n.known \subseteq logged /\ Version(n.copy, n.field, About(n.row) \cap n.known)
    BY <2>3, <2>4, RowIsVersion
  <2> QED BY <2>2, <2>3, <2>5, StepUndo
<1>4. ASSUME NEW r \in Requests,
             \/ CreateUnit(r) \/ CreateCommunity(r) \/ CreateOffice(r) \/ AddOfficeMember(r)
             \/ ImportUnits(r)
      PROVE  CopyInv' /\ UndoInv'
  <2>1. PICK s : BeginInserts(r, s)
    BY <1>4 DEF CreateUnit, CreateCommunity, CreateOffice, AddOfficeMember, ImportUnits
  <2> DEFINE n == [NoRequest EXCEPT !.stage = "insert", !.asked = ToSet(s), !.left = s]
  <2>2. /\ req[r].stage = "ready" /\ req' = [req EXCEPT ![r] = n]
        /\ UNCHANGED <<entry, logged, row>>
    BY <2>1 DEF BeginInserts, chainVars
  <2>3. n.stage = "insert" /\ n.row = None
    BY DEF NoRequest
  <2> HIDE DEF n
  <2> QED BY <2>2, <2>3, StepUndo
<1>5. ASSUME NEW r \in Requests,
             Write(r) \/ Insert(r) \/ InsertsDone(r) \/ Audit(r) \/ Commit(r) \/ Rollback(r)
      PROVE  CopyInv' /\ UndoInv'
  BY <1>5, WriteUndo, MoveUndo, CommitUndo
<1> QED BY <1>2, <1>3, <1>4, <1>5 DEF Next

LEMMA InitUndo == Init => CopyInv /\ UndoInv
<1> SUFFICES ASSUME Init PROVE CopyInv /\ UndoInv
  OBVIOUS
<1>1. logged = {} /\ \A r \in Requests : req[r].stage = "ready"
  BY DEF Init, ChainInit, NoRequest
<1> QED BY <1>1 DEF CopyInv, CopyOf, UndoInv, Updating

\* "A nil field leaves the current stored value unchanged" is true of every update whose
\* row nobody else logged a change of since it read it, and of every delete, whatever else
\* overlaps: the unlocked read is the only cause of the lost updates that the code allows.
THEOREM OnlyOvertakenUpdatesUndo == Spec => []OnlyOvertakenUndo
<1>1. Spec => [](CopyInv /\ UndoInv)
  BY Invariance, InitUndo, NextUndo, PTL DEF Spec
<1>2. IInv /\ UndoInv => OnlyOvertakenUndo
  <2> SUFFICES ASSUME IInv, NEW r \in logged, NEW f \in Fields \ {req[r].field},
                      Version(req[r].copy, req[r].field, Before(r))
               PROVE  req[r].copy.fields[f] =
                          IF Before(r) = {} THEN None
                          ELSE req[LastOf(Before(r))].copy.fields[f]
    BY DEF UndoInv, OnlyOvertakenUndo, KeepsOtherFields
  <2>1. entry \in [Requests -> Entry] /\ Before(r) \in SUBSET Requests
    BY DEF IInv, TypeOK, ChainTypeOK, Before, About
  <2>2. CASE Before(r) = {}
    BY <2>2 DEF Version
  <2>3. CASE Before(r) # {}
    <3>1. PICK p \in Before(r) :
            IsLast(p, Before(r)) /\ req[r].copy.fields[f] = req[p].copy.fields[f]
      BY <2>3 DEF Version
    <3>2. LastOf(Before(r)) = p
      BY <2>1, <3>1, LastIs
    <3> QED BY <2>3, <3>1, <3>2
  <2> QED BY <2>2, <2>3
<1> QED BY <1>1, <1>2, Invariance, PTL

=============================================================================
