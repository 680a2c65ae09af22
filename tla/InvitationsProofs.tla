---------------------------- MODULE InvitationsProofs ----------------------------
(***************************************************************************)
(* Invitations keep the promise of InvitationGrants, and an acceptance      *)
(* gives its seat to an account it has proved or created, for any number of *)
(* invitations, requests and administrators.                                *)
(*                                                                          *)
(* A transaction that holds the row of an invitation is alone with it       *)
(* (LockInv) and finds it as its UPDATE did (RowInv); what it has inserted  *)
(* nobody else inserts (AccountInv, MemberInv).                             *)
(***************************************************************************)
EXTENDS Invitations, TLAPS

LockInv ==
    /\ \A r, q \in Accepts :
        r # q /\ accept[r].stage \in Holding /\ accept[q].stage \in Holding =>
            accept[r].invite # accept[q].invite
    /\ \A r \in Accepts, a \in Admins :
        accept[r].stage \in Holding /\ admin[a].op # "idle" => accept[r].invite # admin[a].invite
    /\ \A a, b \in Admins :
        a # b /\ admin[a].op # "idle" /\ admin[b].op # "idle" => admin[a].invite # admin[b].invite

RowInv ==
    /\ \A r \in Accepts :
        /\ accept[r].stage \notin {"ready", "done"} \/ accept[r].granted =>
            row[accept[r].invite].status # "none"
        /\ accept[r].stage \in Holding =>
            /\ row[accept[r].invite].status = "pending"
            /\ row[accept[r].invite].expires > accept[r].since
    /\ \A a \in Admins :
        /\ admin[a].op # "idle" => row[admin[a].invite].status = "pending"
        /\ admin[a].op = "resend" => row[admin[a].invite].code < MaxResends

Inserted == {r \in Accepts : accept[r].create /\ accept[r].stage \in {"member", "commit"}}

AccountInv ==
    /\ \A e \in Emails : account[e] = "born" => e \in superadmin
    /\ \A r \in Inserted : account[EmailOf(r)] = "none"
    /\ \A r, q \in Inserted : r # q => EmailOf(r) # EmailOf(q)
    /\ \A r \in Accepts :
        /\ ~accept[r].create /\ accept[r].stage \in {"begin", "claim", "user", "member", "commit"} =>
            account[EmailOf(r)] \notin {"none", "born"}
        /\ accept[r].granted => /\ accept[r].stage \in {"session", "done"}
                                /\ account[EmailOf(r)] # "none"
        /\ accept[r].stage = "session" => accept[r].granted

MemberInv ==
    /\ \A r \in Accepts : accept[r].stage = "commit" => MembershipOf(r) \notin members
    /\ \A r, q \in Accepts :
        r # q /\ accept[r].stage = "commit" /\ accept[q].stage = "commit" =>
            MembershipOf(r) # MembershipOf(q)

IInv == TypeOK /\ LockInv /\ RowInv /\ AccountInv /\ MemberInv /\ OwnAccountOnly

-----------------------------------------------------------------------------
LEMMA ReadyIsAccept ==
    /\ Ready \in Accept /\ Ready.stage = "ready" /\ ~Ready.granted
    /\ (CHOOSE i \in Invites : TRUE) \in Invites
    /\ (CHOOSE e \in Emails : TRUE) \in Emails
    /\ (CHOOSE s \in Seats : TRUE) \in Seats
<1>1. /\ (CHOOSE i \in Invites : TRUE) \in Invites
      /\ (CHOOSE e \in Emails : TRUE) \in Emails
      /\ (CHOOSE s \in Seats : TRUE) \in Seats
  BY InvitationsAssumption
<1>2. Ready \in Accept /\ Ready.stage = "ready" /\ ~Ready.granted
  BY <1>1, InvitationsAssumption DEF Ready, Accept, Stages, Times
<1> QED BY <1>1, <1>2

LEMMA DoneIsAccept ==
    ASSUME NEW r \in Accepts, accept[r] \in Accept
    PROVE  /\ Done(r) \in Accept /\ Done(r).stage = "done"
           /\ Done(r).granted = accept[r].granted
           /\ accept[r].granted => /\ Done(r).invite = accept[r].invite
                                   /\ Done(r).create = accept[r].create
<1>1. CASE accept[r].granted
  <2>1. Done(r) = [accept[r] EXCEPT !.stage = "done"]
    BY <1>1 DEF Done
  <2> QED BY <1>1, <2>1 DEF Accept, Stages
<1>2. CASE ~accept[r].granted
  <2>1. Done(r) = [Ready EXCEPT !.stage = "done"]
    BY <1>2 DEF Done
  <2>2. accept[r].granted \in BOOLEAN
    BY DEF Accept
  <2> QED BY <1>2, <2>1, <2>2, ReadyIsAccept DEF Accept, Stages
<1> QED BY <1>1, <1>2

LEMMA InitEstablishes == Init => IInv
<1> SUFFICES ASSUME Init PROVE IInv
  OBVIOUS
<1>1. TypeOK
  <2>1. row \in [Invites -> Row]
    BY ReadyIsAccept, InvitationsAssumption DEF Init, Row, Statuses, Codes
  <2>2. account \in [Emails -> Origins] /\ superadmin \subseteq Emails
    BY InvitationsAssumption DEF Init, Origins
  <2>3. accept \in [Accepts -> Accept] /\ admin \in [Admins -> Admin]
    BY ReadyIsAccept DEF Init, Admin
  <2>4. /\ operator \in [Operators -> {"ready", "done"} \cup Emails]
        /\ members \subseteq Memberships /\ jobs \in [Invites -> SUBSET Codes]
    BY DEF Init
  <2>5. now \in Times
    BY InvitationsAssumption DEF Init, Times
  <2> QED BY <2>1, <2>2, <2>3, <2>4, <2>5, Zenon DEF TypeOK
<1>2. /\ \A r \in Accepts : accept[r] = Ready
      /\ \A a \in Admins : admin[a].op = "idle"
  BY DEF Init
<1>3. \A r \in Accepts : accept[r].stage = "ready" /\ ~accept[r].granted
  BY <1>2, ReadyIsAccept
<1>4. LockInv /\ RowInv
  BY <1>2, <1>3 DEF LockInv, RowInv, Holding
<1>5. AccountInv
  <2>1. Inserted = {}
    BY <1>3 DEF Inserted
  <2>2. \A e \in Emails : account[e] = "born" => e \in superadmin
    BY DEF Init
  <2> QED BY <1>3, <2>1, <2>2 DEF AccountInv
<1>6. MemberInv /\ OwnAccountOnly
  BY <1>3 DEF MemberInv, OwnAccountOnly
<1> QED BY <1>1, <1>4, <1>5, <1>6 DEF IInv

-----------------------------------------------------------------------------
(* Steps of a request to accept that write nothing others see                       *)

Untouched == UNCHANGED <<now, row, account, superadmin, operator, members, jobs, admin>>

LEMMA AcceptMoves ==
    ASSUME IInv, NEW r \in Accepts, NEW n \in Accept,
           accept' = [accept EXCEPT ![r] = n], Untouched,
           n.stage \in Holding =>
            /\ \/ accept[r].stage \in Holding /\ n.invite = accept[r].invite
               \/ Unlocked(n.invite)
            /\ row[n.invite].status = "pending" /\ row[n.invite].expires > n.since,
           n.stage \notin {"ready", "done"} \/ n.granted => row[n.invite].status # "none",
           n.create /\ n.stage \in {"member", "commit"} =>
            /\ account[row[n.invite].email] = "none"
            /\ \A q \in Inserted : q # r => EmailOf(q) # row[n.invite].email,
           ~n.create /\ n.stage \in {"begin", "claim", "user", "member", "commit"} =>
            account[row[n.invite].email] \notin {"none", "born"},
           n.granted => /\ n.stage \in {"session", "done"}
                        /\ n.create => account[row[n.invite].email] = r
                        /\ account[row[n.invite].email] \notin {"none", "born"},
           n.stage = "session" => n.granted,
           n.stage = "commit" =>
            /\ <<row[n.invite].email, row[n.invite].seat>> \notin members
            /\ \A q \in Accepts : q # r /\ accept[q].stage = "commit" =>
                    MembershipOf(q) # <<row[n.invite].email, row[n.invite].seat>>
    PROVE  IInv'
<1>1. UNCHANGED <<now, row, account, superadmin, operator, members, jobs, admin>>
  BY DEF Untouched
<1>2. \A q \in Accepts : accept'[q] = IF q = r THEN n ELSE accept[q]
  BY DEF IInv, TypeOK
<1>3. TypeOK'
  <2>1. accept' \in [Accepts -> Accept]
    BY DEF IInv, TypeOK
  <2> QED BY <1>1, <2>1 DEF IInv, TypeOK
<1>4. \A q \in Accepts : /\ EmailOf(q)' = IF q = r THEN row[n.invite].email ELSE EmailOf(q)
                         /\ MembershipOf(q)' = IF q = r THEN <<row[n.invite].email, row[n.invite].seat>>
                                               ELSE MembershipOf(q)
  BY <1>1, <1>2 DEF EmailOf, MembershipOf
<1>5. LockInv'
  <2>1. ASSUME n.stage \in Holding
        PROVE  /\ \A q \in Accepts : q # r /\ accept[q].stage \in Holding => accept[q].invite # n.invite
               /\ \A a \in Admins : admin[a].op # "idle" => admin[a].invite # n.invite
    <3>1. CASE accept[r].stage \in Holding /\ n.invite = accept[r].invite
      BY <3>1 DEF IInv, LockInv
    <3>2. CASE Unlocked(n.invite)
      BY <3>2 DEF Unlocked
    <3> QED BY <2>1, <3>1, <3>2
  <2> QED BY <1>1, <1>2, <2>1 DEF IInv, LockInv
<1>6. RowInv'
  BY <1>1, <1>2 DEF IInv, RowInv
<1>7. AccountInv'
  <2>1. /\ \A q \in Inserted' : q # r => q \in Inserted
        /\ r \in Inserted' => n.create /\ n.stage \in {"member", "commit"}
    BY <1>2 DEF Inserted
  <2>2. /\ \A q \in Inserted' : account[EmailOf(q)'] = "none"
        /\ \A p, q \in Inserted' : p # q => EmailOf(p)' # EmailOf(q)'
    BY <1>4, <2>1 DEF IInv, AccountInv, Inserted
  <2>3. \A q \in Accepts :
          /\ ~accept'[q].create /\ accept'[q].stage \in {"begin", "claim", "user", "member", "commit"} =>
              account[EmailOf(q)'] \notin {"none", "born"}
          /\ accept'[q].granted => /\ accept'[q].stage \in {"session", "done"}
                                   /\ account[EmailOf(q)'] # "none"
          /\ accept'[q].stage = "session" => accept'[q].granted
    BY <1>2, <1>4 DEF IInv, AccountInv
  <2> QED BY <1>1, <2>2, <2>3 DEF IInv, AccountInv
<1>8. MemberInv'
  BY <1>1, <1>2, <1>4 DEF IInv, MemberInv
<1>9. OwnAccountOnly'
  BY <1>1, <1>2, <1>4 DEF IInv, OwnAccountOnly
<1> QED BY <1>3, <1>5, <1>6, <1>7, <1>8, <1>9 DEF IInv

\* A request that ends.
LEMMA EndKeeps ==
    ASSUME IInv, NEW r \in Accepts, accept' = [accept EXCEPT ![r] = Done(r)], Untouched
    PROVE  IInv'
<1> DEFINE n == Done(r)
<1>1. /\ n \in Accept /\ n.stage = "done" /\ n.granted = accept[r].granted
      /\ n.granted => n.invite = accept[r].invite /\ n.create = accept[r].create
  BY DoneIsAccept DEF IInv, TypeOK
<1>2. accept' = [accept EXCEPT ![r] = n]
  OBVIOUS
<1> HIDE DEF n
<1>3. n.granted => /\ row[n.invite].status # "none"
                   /\ n.create => account[row[n.invite].email] = r
                   /\ account[row[n.invite].email] \notin {"none", "born"}
  BY <1>1 DEF IInv, RowInv, AccountInv, OwnAccountOnly, EmailOf
<1>4. n.stage \notin Holding
  BY <1>1 DEF Holding
<1> QED BY <1>1, <1>2, <1>3, <1>4, AcceptMoves

\* A request that goes on to its next stage with what it has read.
LEMMA StageIs ==
    ASSUME IInv, NEW r \in Accepts, NEW s \in Stages
    PROVE  LET n == [accept[r] EXCEPT !.stage = s] IN
           /\ n \in Accept /\ n.stage = s /\ n.invite = accept[r].invite
           /\ n.create = accept[r].create /\ n.granted = accept[r].granted
           /\ n.since = accept[r].since
BY DEF IInv, TypeOK, Accept

LEMMA ReadsKeep ==
    ASSUME IInv, NEW r \in Accepts,
           \/ \E i \in Invites, s \in Codes \cup {Token} : Resolve(r, i, s)
           \/ CheckUsable(r) \/ Preview(r) \/ ProveAccount(r) \/ BeginAccept(r)
    PROVE  IInv'
<1>1. Untouched
  BY DEF Resolve, CheckUsable, Preview, ProveAccount, BeginAccept, Untouched, users
<1>2. accept[r] \in Accept
  BY DEF IInv, TypeOK
<1>3. CASE \E i \in Invites, s \in Codes \cup {Token} : Resolve(r, i, s)
  <2>1. PICK i \in Invites, s \in Codes \cup {Token} : Resolve(r, i, s)
    BY <1>3
  <2> DEFINE n == [Ready EXCEPT !.stage = "count", !.invite = i, !.pending = row[i].status = "pending"]
  <2>2. accept' = [accept EXCEPT ![r] = n] /\ row[i].status # "none"
    BY <2>1 DEF Resolve, Finds, ByTokenHash, ByShortCodeHash
  <2>3. n \in Accept /\ n.stage = "count" /\ n.invite = i /\ ~n.granted
    BY ReadyIsAccept DEF Accept, Stages
  <2> HIDE DEF n
  <2> QED BY <1>1, <2>2, <2>3, AcceptMoves DEF Holding
<1>4. CASE CheckUsable(r)
  <2> DEFINE n == [accept[r] EXCEPT !.stage = "prove"]
  <2>1. /\ accept[r].stage = "count"
        /\ accept' = [accept EXCEPT ![r] = n] \/ accept' = [accept EXCEPT ![r] = Done(r)]
    BY <1>4 DEF CheckUsable, Goto
  <2>2. /\ n \in Accept /\ n.stage = "prove" /\ n.invite = accept[r].invite
        /\ n.granted = accept[r].granted
    BY StageIs DEF Stages
  <2>3. ~n.granted /\ row[n.invite].status # "none"
    BY <2>1, <2>2 DEF IInv, AccountInv, RowInv
  <2> HIDE DEF n
  <2>4. CASE accept' = [accept EXCEPT ![r] = n]
    BY <1>1, <2>2, <2>3, <2>4, AcceptMoves DEF Holding
  <2> QED BY <1>1, <2>1, <2>4, EndKeeps
<1>5. CASE Preview(r)
  BY <1>1, <1>5, EndKeeps DEF Preview, Goto
<1>6. CASE ProveAccount(r)
  <2> DEFINE n == [accept[r] EXCEPT !.stage = "begin", !.create = ~HasAccount(r)]
  <2>1. /\ accept[r].stage = "prove" /\ accept' = [accept EXCEPT ![r] = n]
        /\ EmailOf(r) \notin superadmin
    BY <1>6 DEF ProveAccount
  <2>2. /\ n \in Accept /\ n.stage = "begin" /\ n.invite = accept[r].invite
        /\ n.granted = accept[r].granted /\ n.create = ~HasAccount(r)
    BY <1>2 DEF Accept, Stages, HasAccount
  <2>3. ~n.granted /\ row[n.invite].status # "none"
    BY <2>1, <2>2 DEF IInv, AccountInv, RowInv
  <2>4. ~n.create => account[row[n.invite].email] \notin {"none", "born"}
    <3>1. EmailOf(r) \in Emails
      BY <1>2 DEF IInv, TypeOK, Accept, Row, EmailOf
    <3> QED BY <2>1, <2>2, <3>1 DEF IInv, AccountInv, HasAccount, EmailOf
  <2> HIDE DEF n
  <2> QED BY <1>1, <2>1, <2>2, <2>3, <2>4, AcceptMoves DEF Holding
<1>7. CASE BeginAccept(r)
  <2> DEFINE n == [accept[r] EXCEPT !.stage = "claim", !.since = now]
  <2>1. accept[r].stage = "begin" /\ accept' = [accept EXCEPT ![r] = n]
    BY <1>7 DEF BeginAccept
  <2>2. /\ n \in Accept /\ n.stage = "claim" /\ n.invite = accept[r].invite
        /\ n.granted = accept[r].granted /\ n.create = accept[r].create
    BY <1>2 DEF Accept, Stages, IInv, TypeOK
  <2>3. ~n.granted /\ row[n.invite].status # "none"
    BY <2>1, <2>2 DEF IInv, AccountInv, RowInv
  <2>4. ~n.create => account[row[n.invite].email] \notin {"none", "born"}
    BY <2>1, <2>2 DEF IInv, AccountInv, EmailOf
  <2> HIDE DEF n
  <2> QED BY <1>1, <2>1, <2>2, <2>3, <2>4, AcceptMoves DEF Holding
<1> QED BY <1>3, <1>4, <1>5, <1>6, <1>7

LEMMA TransactionKeeps ==
    ASSUME IInv, NEW r \in Accepts, Claim(r) \/ InsertUser(r) \/ InsertUnitMember(r)
    PROVE  IInv'
<1>1. Untouched
  BY DEF Claim, InsertUser, InsertUnitMember, Untouched, users
<1> DEFINE i == accept[r].invite
           n(s) == [accept[r] EXCEPT !.stage = s]
<1>2. \A s \in {"user", "member", "commit"} :
        /\ n(s) \in Accept /\ n(s).stage = s /\ n(s).invite = accept[r].invite
        /\ n(s).create = accept[r].create /\ n(s).granted = accept[r].granted
        /\ n(s).since = accept[r].since
  BY StageIs DEF Stages, Holding
<1>3. accept[r].stage \in {"claim", "user", "member"}
  BY DEF Claim, InsertUser, InsertUnitMember
<1>4. ~accept[r].granted /\ row[i].status # "none"
  BY <1>3 DEF IInv, AccountInv, RowInv
<1>5. ~accept[r].create => account[row[i].email] \notin {"none", "born"}
  BY <1>3 DEF IInv, AccountInv, EmailOf
<1> HIDE DEF n
<1>6. CASE accept' = [accept EXCEPT ![r] = Done(r)]
  BY <1>1, <1>6, EndKeeps
<1>7. CASE Claim(r) /\ accept' # [accept EXCEPT ![r] = Done(r)]
  <2>1. /\ accept' = [accept EXCEPT ![r] = n(IF accept[r].create THEN "user" ELSE "member")]
        /\ Unlocked(i) /\ row[i].status = "pending" /\ row[i].expires > accept[r].since
    BY <1>7 DEF Claim, Goto, n
  <2>2. CASE accept[r].create
    <3> DEFINE m == n("user")
    <3>1. accept' = [accept EXCEPT ![r] = m]
      BY <2>1, <2>2
    <3>2. /\ m \in Accept /\ m.stage = "user" /\ m.invite = i /\ m.create = accept[r].create
          /\ ~m.granted /\ m.since = accept[r].since
      BY <1>2, <1>4
    <3> HIDE DEF m
    <3> QED BY <1>1, <1>4, <2>1, <2>2, <3>1, <3>2, AcceptMoves
  <2>3. CASE ~accept[r].create
    <3> DEFINE m == n("member")
    <3>1. accept' = [accept EXCEPT ![r] = m]
      BY <2>1, <2>3
    <3>2. /\ m \in Accept /\ m.stage = "member" /\ m.invite = i /\ m.create = accept[r].create
          /\ ~m.granted /\ m.since = accept[r].since
      BY <1>2, <1>4
    <3> HIDE DEF m
    <3> QED BY <1>1, <1>4, <1>5, <2>1, <2>3, <3>1, <3>2, AcceptMoves
  <2> QED BY <2>2, <2>3
<1>8. CASE InsertUser(r) /\ accept' # [accept EXCEPT ![r] = Done(r)]
  <2>1. /\ accept' = [accept EXCEPT ![r] = n("member")] /\ accept[r].stage = "user"
        /\ account[row[i].email] = "none" /\ EmailFree(row[i].email, Accepts \ {r})
    BY <1>8 DEF InsertUser, Goto, HasAccount, EmailOf, n
  <2>2. \A q \in Inserted : q # r => EmailOf(q) # row[i].email
    BY <2>1 DEF EmailFree, Inserted
  <2>3. row[i].status = "pending" /\ row[i].expires > accept[r].since /\ accept[r].stage \in Holding
    BY <2>1 DEF IInv, RowInv, Holding
  <2> QED BY <1>1, <1>2, <1>4, <1>5, <2>1, <2>2, <2>3, AcceptMoves
<1>9. CASE InsertUnitMember(r) /\ accept' # [accept EXCEPT ![r] = Done(r)]
  <2>1. /\ accept' = [accept EXCEPT ![r] = n("commit")] /\ accept[r].stage = "member"
        /\ MembershipOf(r) \notin members
        /\ \A q \in Accepts \ {r} : accept[q].stage = "commit" => MembershipOf(q) # MembershipOf(r)
    BY <1>9 DEF InsertUnitMember, Goto, n
  <2>2. row[i].status = "pending" /\ row[i].expires > accept[r].since /\ accept[r].stage \in Holding
    BY <2>1 DEF IInv, RowInv, Holding
  <2>3. MembershipOf(r) = <<row[i].email, row[i].seat>>
    BY DEF MembershipOf, EmailOf
  <2>4. accept[r].create => /\ account[row[i].email] = "none"
                            /\ \A q \in Inserted : q # r => EmailOf(q) # row[i].email
    BY <2>1 DEF IInv, AccountInv, Inserted, EmailOf
  <2> DEFINE m == n("commit")
  <2>5. /\ m \in Accept /\ m.stage = "commit" /\ m.invite = i /\ m.create = accept[r].create
        /\ ~m.granted /\ m.since = accept[r].since /\ accept' = [accept EXCEPT ![r] = m]
    BY <1>2, <1>4, <2>1
  <2> HIDE DEF m
  <2>6. /\ <<row[m.invite].email, row[m.invite].seat>> \notin members
        /\ \A q \in Accepts : q # r /\ accept[q].stage = "commit" =>
                MembershipOf(q) # <<row[m.invite].email, row[m.invite].seat>>
    BY <2>1, <2>3, <2>5
  <2>7. /\ row[m.invite].status # "none" /\ row[m.invite].status = "pending"
        /\ row[m.invite].expires > m.since /\ m.invite = accept[r].invite
        /\ m.create => /\ account[row[m.invite].email] = "none"
                       /\ \A q \in Inserted : q # r => EmailOf(q) # row[m.invite].email
        /\ ~m.create => account[row[m.invite].email] \notin {"none", "born"}
    BY <1>4, <1>5, <2>2, <2>4, <2>5
  <2> HIDE DEF i
  <2> QED BY <1>1, <2>2, <2>5, <2>6, <2>7, AcceptMoves
<1> QED BY <1>6, <1>7, <1>8, <1>9

LEMMA EndsKeep == ASSUME IInv, NEW r \in Accepts, IssueSession(r) \/ Refuse(r) PROVE IInv'
<1>1. accept' = [accept EXCEPT ![r] = Done(r)] /\ Untouched
  BY DEF IssueSession, Refuse, Goto, Untouched, users
<1> QED BY <1>1, EndKeeps

-----------------------------------------------------------------------------
(* Steps on the rows of invitations, and of their administrators                    *)

\* A row that has been created keeps its offer, and no transaction finds its row changed.
LEMMA RowMoves ==
    ASSUME IInv, UNCHANGED <<account, superadmin, members, accept>>, TypeOK', LockInv',
           \A i \in Invites : row[i].status # "none" =>
            /\ row'[i].status # "none" /\ row'[i].email = row[i].email
            /\ row'[i].seat = row[i].seat /\ row'[i].expires = row[i].expires,
           \A r \in Accepts : accept[r].stage \in Holding => row'[accept[r].invite].status = "pending",
           \A a \in Admins :
            /\ admin'[a].op # "idle" => row'[admin'[a].invite].status = "pending"
            /\ admin'[a].op = "resend" => row'[admin'[a].invite].code < MaxResends
    PROVE  IInv'
<1>1. \A r \in Accepts : accept[r] \in Accept /\ accept[r].invite \in Invites
  BY DEF IInv, TypeOK, Accept
<1>2. \A r \in Accepts : accept[r].stage \notin {"ready", "done"} \/ accept[r].granted =>
        EmailOf(r)' = EmailOf(r) /\ MembershipOf(r)' = MembershipOf(r)
  BY <1>1 DEF IInv, RowInv, EmailOf, MembershipOf
<1>3. RowInv'
  BY <1>1 DEF IInv, RowInv, Holding
<1>4. AccountInv'
  <2>1. Inserted' = Inserted /\ \A r \in Inserted : EmailOf(r)' = EmailOf(r)
    BY <1>2 DEF Inserted
  <2>2. \A r \in Accepts : accept[r].stage \in {"begin", "claim", "user", "member", "commit"} =>
            EmailOf(r)' = EmailOf(r)
    BY <1>2
  <2>3. \A r \in Accepts : accept[r].granted => EmailOf(r)' = EmailOf(r)
    BY <1>2
  <2> QED BY <2>1, <2>2, <2>3 DEF IInv, AccountInv
<1>5. MemberInv'
  <2>1. \A r \in Accepts : accept[r].stage = "commit" => MembershipOf(r)' = MembershipOf(r)
    BY <1>2
  <2> QED BY <2>1 DEF IInv, MemberInv
<1>6. OwnAccountOnly'
  <2>1. \A r \in Accepts : accept[r].granted => EmailOf(r)' = EmailOf(r)
    BY <1>2
  <2> QED BY <2>1 DEF IInv, OwnAccountOnly
<1> QED BY <1>3, <1>4, <1>5, <1>6 DEF IInv

LEMMA CreateKeeps ==
    ASSUME IInv, NEW i \in Invites, NEW e \in Emails, NEW s \in Seats, CreateInvitation(i, e, s)
    PROVE  IInv'
<1> DEFINE n == [status |-> "pending", email |-> e, seat |-> s, code |-> 0, expires |-> now + Lifetime]
<1>1. /\ row[i].status = "none" /\ row' = [row EXCEPT ![i] = n]
      /\ jobs' = [jobs EXCEPT ![i] = @ \cup {0}]
      /\ UNCHANGED <<now, account, superadmin, operator, members, accept, admin>>
  BY DEF CreateInvitation, InsertInvitation, EnqueueInvitationEmail, users
<1>2. now + Lifetime \in 0..(MaxTime + Lifetime) /\ 0 \in Codes
  BY InvitationsAssumption DEF IInv, TypeOK, Times, Codes
<1>3. n \in Row
  BY <1>2 DEF Row, Statuses
<1> HIDE DEF n
<1>4. TypeOK'
  <2>1. row' \in [Invites -> Row]
    BY <1>1, <1>3 DEF IInv, TypeOK
  <2>2. jobs' \in [Invites -> SUBSET Codes]
    BY <1>1, <1>2 DEF IInv, TypeOK
  <2> QED BY <1>1, <2>1, <2>2 DEF IInv, TypeOK
<1>5. \A j \in Invites : row[j].status # "none" => row'[j] = row[j]
  BY <1>1 DEF IInv, TypeOK
<1>6. LockInv'
  BY <1>1 DEF IInv, LockInv
<1>7. /\ \A r \in Accepts : accept[r].stage \in Holding => row'[accept[r].invite].status = "pending"
      /\ \A a \in Admins :
            /\ admin[a].op # "idle" => row'[admin[a].invite].status = "pending"
            /\ admin[a].op = "resend" => row'[admin[a].invite].code < MaxResends
  BY <1>5 DEF IInv, RowInv, TypeOK, Accept, Admin
<1> QED BY <1>1, <1>4, <1>5, <1>6, <1>7, RowMoves

\* A statement of an administrator's transaction, or its rollback.
LEMMA AdminMoves ==
    ASSUME IInv, NEW a \in Admins, UNCHANGED <<now, row, users, members, jobs, accept>>,
           \/ \E i \in Invites : RotateShortCode(a, i) \/ RevokePending(a, i)
           \/ AbortAdmin(a)
    PROVE  IInv'
<1>1. UNCHANGED <<now, row, account, superadmin, operator, members, jobs, accept>>
  BY DEF users
<1>2. PICK n \in Admin :
        /\ admin' = [admin EXCEPT ![a] = n]
        /\ n.op # "idle" => Unlocked(n.invite) /\ row[n.invite].status = "pending"
        /\ n.op = "resend" => row[n.invite].code < MaxResends
  <2>1. CASE \E i \in Invites : RotateShortCode(a, i)
    <3>1. PICK i \in Invites : RotateShortCode(a, i)
      BY <2>1
    <3> DEFINE n == [op |-> "resend", invite |-> i]
    <3>2. n \in Admin /\ n.op = "resend" /\ n.invite = i
      BY DEF Admin
    <3>3. admin' = [admin EXCEPT ![a] = n]
      BY <3>1 DEF RotateShortCode
    <3> HIDE DEF n
    <3> QED BY <3>1, <3>2, <3>3 DEF RotateShortCode
  <2>2. CASE \E i \in Invites : RevokePending(a, i)
    <3>1. PICK i \in Invites : RevokePending(a, i)
      BY <2>2
    <3> DEFINE n == [op |-> "revoke", invite |-> i]
    <3>2. n \in Admin /\ n.op = "revoke" /\ n.invite = i
      BY DEF Admin
    <3>3. admin' = [admin EXCEPT ![a] = n]
      BY <3>1 DEF RevokePending
    <3> HIDE DEF n
    <3> QED BY <3>1, <3>2, <3>3 DEF RevokePending
  <2>3. CASE AbortAdmin(a)
    <3> DEFINE n == [admin[a] EXCEPT !.op = "idle"]
    <3>1. n \in Admin /\ n.op = "idle"
      BY DEF IInv, TypeOK, Admin
    <3>2. admin' = [admin EXCEPT ![a] = n]
      BY <2>3 DEF AbortAdmin
    <3> HIDE DEF n
    <3> QED BY <3>1, <3>2
  <2> QED BY <2>1, <2>2, <2>3
<1>3. \A b \in Admins : admin'[b] = IF b = a THEN n ELSE admin[b]
  BY <1>2 DEF IInv, TypeOK
<1>4. TypeOK'
  <2>1. admin' \in [Admins -> Admin]
    BY <1>2 DEF IInv, TypeOK
  <2> QED BY <1>1, <2>1 DEF IInv, TypeOK
<1>5. LockInv'
  BY <1>1, <1>2, <1>3 DEF IInv, LockInv, Unlocked
<1>6. \A b \in Admins :
        /\ admin'[b].op # "idle" => row'[admin'[b].invite].status = "pending"
        /\ admin'[b].op = "resend" => row'[admin'[b].invite].code < MaxResends
  BY <1>1, <1>2, <1>3 DEF IInv, RowInv
<1>7. \A r \in Accepts : accept[r].stage \in Holding => row'[accept[r].invite].status = "pending"
  BY <1>1 DEF IInv, RowInv
<1> QED BY <1>1, <1>4, <1>5, <1>6, <1>7, RowMoves

LEMMA AdminCommits ==
    ASSUME IInv, NEW a \in Admins, CommitResend(a) \/ CommitRevoke(a)
    PROVE  IInv'
<1>1. PICK i \in Invites : i = admin[a].invite /\ row[i] \in Row /\ admin[a] \in Admin
  BY DEF IInv, TypeOK, Admin
<1> DEFINE m == [admin[a] EXCEPT !.op = "idle"]
<1>2. m \in Admin /\ m.op = "idle"
  BY <1>1 DEF Admin
<1>3. /\ admin' = [admin EXCEPT ![a] = m] /\ admin[a].op # "idle"
      /\ UNCHANGED <<now, account, superadmin, operator, members, accept>>
  BY DEF CommitResend, CommitRevoke, users
<1> HIDE DEF m
<1>4. PICK n \in Row :
        /\ row' = [row EXCEPT ![i] = n] /\ n.status # "none"
        /\ n.email = row[i].email /\ n.seat = row[i].seat /\ n.expires = row[i].expires
  <2>1. CASE CommitResend(a)
    <3> DEFINE n == [row[i] EXCEPT !.code = @ + 1]
    <3>1. row[i].status = "pending" /\ row[i].code + 1 \in Codes
      BY <1>1, <2>1, InvitationsAssumption DEF CommitResend, IInv, RowInv, Row, Codes
    <3>2. /\ n \in Row /\ n.status = "pending" /\ n.email = row[i].email /\ n.seat = row[i].seat
          /\ n.expires = row[i].expires
      BY <1>1, <3>1 DEF Row
    <3>3. row' = [row EXCEPT ![i] = n]
      BY <1>1, <2>1 DEF CommitResend, RotateInvitationShortCode
    <3> HIDE DEF n
    <3> QED BY <3>2, <3>3
  <2>2. CASE CommitRevoke(a)
    <3> DEFINE n == [row[i] EXCEPT !.status = "revoked"]
    <3>1. /\ n \in Row /\ n.status = "revoked" /\ n.email = row[i].email /\ n.seat = row[i].seat
          /\ n.expires = row[i].expires
      BY <1>1 DEF Row, Statuses
    <3>2. row' = [row EXCEPT ![i] = n]
      BY <1>1, <2>2 DEF CommitRevoke, RevokeInvitation
    <3> HIDE DEF n
    <3> QED BY <3>1, <3>2
  <2> QED BY <2>1, <2>2
<1>5. /\ \A j \in Invites : row'[j] = IF j = i THEN n ELSE row[j]
      /\ \A b \in Admins : admin'[b] = IF b = a THEN m ELSE admin[b]
  BY <1>3, <1>4 DEF IInv, TypeOK
<1>6. TypeOK'
  <2>1. row' \in [Invites -> Row] /\ admin' \in [Admins -> Admin]
    BY <1>2, <1>3, <1>4 DEF IInv, TypeOK
  <2>2. jobs' \in [Invites -> SUBSET Codes]
    <3>1. CASE CommitResend(a)
      <4>1. row[i].code + 1 \in Codes
        BY <1>1, <3>1, InvitationsAssumption DEF CommitResend, IInv, RowInv, Row, Codes
      <4>2. jobs' = [jobs EXCEPT ![i] = @ \cup {row[i].code + 1}]
        BY <1>1, <3>1 DEF CommitResend, EnqueueInvitationEmail
      <4> QED BY <4>1, <4>2 DEF IInv, TypeOK
    <3>2. CASE CommitRevoke(a)
      BY <3>2 DEF CommitRevoke, IInv, TypeOK
    <3> QED BY <3>1, <3>2
  <2> QED BY <1>3, <2>1, <2>2 DEF IInv, TypeOK
<1>7. LockInv'
  BY <1>2, <1>3, <1>5 DEF IInv, LockInv
<1>8. \A r \in Accepts : accept[r].stage \in Holding => row'[accept[r].invite].status = "pending"
  BY <1>1, <1>3, <1>5 DEF IInv, RowInv, LockInv, TypeOK, Accept
<1>9. \A b \in Admins :
        /\ admin'[b].op # "idle" => row'[admin'[b].invite].status = "pending"
        /\ admin'[b].op = "resend" => row'[admin'[b].invite].code < MaxResends
  BY <1>1, <1>2, <1>3, <1>5 DEF IInv, RowInv, LockInv, TypeOK, Admin
<1>10. \A j \in Invites : row[j].status # "none" =>
            /\ row'[j].status # "none" /\ row'[j].email = row[j].email
            /\ row'[j].seat = row[j].seat /\ row'[j].expires = row[j].expires
  BY <1>4, <1>5
<1> QED BY <1>3, <1>6, <1>7, <1>8, <1>9, <1>10, RowMoves

LEMMA SweepKeeps == ASSUME IInv, Sweep PROVE IInv'
<1> DEFINE expired == {i \in Invites : row[i].status = "pending" /\ row[i].expires <= now}
           n(i) == [row[i] EXCEPT !.status = "blocked"]
<1>1. /\ \A i \in expired : Unlocked(i)
      /\ row' = [i \in Invites |-> IF i \in expired THEN n(i) ELSE row[i]]
      /\ UNCHANGED <<now, account, superadmin, operator, members, jobs, accept, admin>>
  BY DEF Sweep, SweepExpired, users
<1>2. \A i \in Invites : /\ n(i) \in Row /\ n(i).status = "blocked" /\ n(i).email = row[i].email
                         /\ n(i).seat = row[i].seat /\ n(i).expires = row[i].expires
  BY DEF IInv, TypeOK, Row, Statuses
<1> HIDE DEF expired, n
<1>3. \A i \in Invites : row'[i] = IF i \in expired THEN n(i) ELSE row[i]
  BY <1>1
<1>4. TypeOK'
  <2>1. row' \in [Invites -> Row]
    BY <1>1, <1>2 DEF IInv, TypeOK
  <2> QED BY <1>1, <2>1 DEF IInv, TypeOK
<1>5. LockInv'
  BY <1>1 DEF IInv, LockInv
<1>6. \A r \in Accepts : accept[r].stage \in Holding => row'[accept[r].invite].status = "pending"
  BY <1>1, <1>3 DEF IInv, RowInv, Unlocked, TypeOK, Accept
<1>7. \A a \in Admins :
        /\ admin[a].op # "idle" => row'[admin[a].invite].status = "pending"
        /\ admin[a].op = "resend" => row'[admin[a].invite].code < MaxResends
  <2> TAKE a \in Admins
  <2>1. admin[a].op # "idle" => admin[a].invite \in Invites /\ admin[a].invite \notin expired
    BY <1>1 DEF Unlocked, IInv, TypeOK, Admin
  <2> QED BY <1>3, <2>1 DEF IInv, RowInv
<1>8. \A i \in Invites : row[i].status # "none" =>
            /\ row'[i].status # "none" /\ row'[i].email = row[i].email
            /\ row'[i].seat = row[i].seat /\ row'[i].expires = row[i].expires
  BY <1>2, <1>3
<1> QED BY <1>1, <1>4, <1>5, <1>6, <1>7, <1>8, RowMoves

-----------------------------------------------------------------------------
(* The commit of an acceptance, the other ways to an account, and the clock         *)

LEMMA CommitAcceptKeeps == ASSUME IInv, NEW r \in Accepts, CommitAccept(r) PROVE IInv'
<1>1. accept[r] \in Accept /\ accept[r].stage = "commit"
  BY DEF CommitAccept, IInv, TypeOK
<1>2. PICK i \in Invites : i = accept[r].invite /\ row[i] \in Row /\ row[i].status = "pending"
  BY <1>1 DEF IInv, TypeOK, RowInv, Accept, Holding
<1> DEFINE n == [accept[r] EXCEPT !.stage = "session", !.granted = TRUE]
           m == [row[i] EXCEPT !.status = "accepted"]
<1>3. /\ n \in Accept /\ n.stage = "session" /\ n.granted /\ n.invite = i
      /\ n.create = accept[r].create
  BY <1>1, <1>2 DEF Accept, Stages
<1>4. /\ m \in Row /\ m.status = "accepted" /\ m.email = row[i].email /\ m.seat = row[i].seat
      /\ m.expires = row[i].expires
  BY <1>2 DEF Row, Statuses
<1>5. /\ accept' = [accept EXCEPT ![r] = n] /\ row' = [row EXCEPT ![i] = m]
      /\ account' = NewAccount(r) /\ members' = members \cup {MembershipOf(r)}
      /\ UNCHANGED <<now, superadmin, operator, jobs, admin>>
  BY <1>2 DEF CommitAccept, AcceptInvitation
<1> HIDE DEF n, m
<1>6. /\ \A q \in Accepts : accept'[q] = IF q = r THEN n ELSE accept[q]
      /\ \A j \in Invites : row'[j] = IF j = i THEN m ELSE row[j]
  BY <1>5 DEF IInv, TypeOK
<1>7. /\ EmailOf(r) = row[i].email /\ row[i].email \in Emails
      /\ MembershipOf(r) = <<row[i].email, row[i].seat>> /\ row[i].seat \in Seats
  BY <1>2 DEF EmailOf, MembershipOf, Row
<1>8. \A q \in Accepts : EmailOf(q)' = EmailOf(q) /\ MembershipOf(q)' = MembershipOf(q)
  <2> TAKE q \in Accepts
  <2>1. accept'[q].invite = accept[q].invite /\ accept[q].invite \in Invites
    BY <1>2, <1>3, <1>6 DEF IInv, TypeOK, Accept
  <2> QED BY <1>4, <1>6, <2>1 DEF EmailOf, MembershipOf
\* The account of the address: new, or as it was and no superadmin's from the first.
<1>9. /\ accept[r].create => account[EmailOf(r)] = "none"
      /\ ~accept[r].create => account[EmailOf(r)] \notin {"none", "born"}
  BY <1>1 DEF IInv, AccountInv, Inserted
<1>10. \A e \in Emails : account'[e] = IF accept[r].create /\ e = EmailOf(r) THEN r ELSE account[e]
  BY <1>5, <1>7, <1>9 DEF NewAccount, HasAccount, IInv, TypeOK
<1>11. r # "none" /\ r # "born"
  BY InvitationsAssumption
<1>12. \A q \in Accepts : EmailOf(q) \in Emails
  BY DEF IInv, TypeOK, Accept, Row, EmailOf
<1>13. TypeOK'
  <2>1. accept' \in [Accepts -> Accept] /\ row' \in [Invites -> Row]
    BY <1>3, <1>4, <1>5 DEF IInv, TypeOK
  <2>2. account' \in [Emails -> Origins]
    <3>1. account' = account \/ account' = [account EXCEPT ![EmailOf(r)] = r]
      BY <1>5 DEF NewAccount
    <3> QED BY <3>1 DEF IInv, TypeOK, Origins
  <2>3. members' \subseteq Memberships
    BY <1>5, <1>7 DEF IInv, TypeOK, Memberships
  <2> QED BY <1>5, <2>1, <2>2, <2>3 DEF IInv, TypeOK
<1>14. LockInv'
  BY <1>3, <1>5, <1>6 DEF IInv, LockInv, Holding
<1>15. RowInv'
  <2>1. \A q \in Accepts : q # r /\ accept[q].stage \in Holding => accept[q].invite # i
    BY <1>1, <1>2 DEF IInv, LockInv, Holding
  <2>2. \A a \in Admins : admin[a].op # "idle" => admin[a].invite # i
    BY <1>1, <1>2 DEF IInv, LockInv, Holding
  <2>3. ASSUME NEW q \in Accepts
        PROVE  /\ accept'[q].stage \notin {"ready", "done"} \/ accept'[q].granted =>
                    row'[accept'[q].invite].status # "none"
               /\ accept'[q].stage \in Holding =>
                    /\ row'[accept'[q].invite].status = "pending"
                    /\ row'[accept'[q].invite].expires > accept'[q].since
    <3>1. CASE q = r
      BY <1>3, <1>4, <1>6, <3>1 DEF Holding
    <3>2. CASE q # r
      <4>1. accept'[q] = accept[q] /\ accept[q].invite \in Invites
        BY <1>6, <3>2 DEF IInv, TypeOK, Accept
      <4> QED BY <1>4, <1>6, <2>1, <3>2, <4>1 DEF IInv, RowInv
    <3> QED BY <3>1, <3>2
  <2>4. ASSUME NEW a \in Admins
        PROVE  /\ admin'[a].op # "idle" => row'[admin'[a].invite].status = "pending"
               /\ admin'[a].op = "resend" => row'[admin'[a].invite].code < MaxResends
    <3>1. admin'[a] = admin[a] /\ admin[a].invite \in Invites
      BY <1>5 DEF IInv, TypeOK, Admin
    <3> QED BY <1>6, <2>2, <3>1 DEF IInv, RowInv
  <2> QED BY <2>3, <2>4 DEF RowInv
<1>16. AccountInv'
  <2>1. Inserted' = Inserted \ {r}
    BY <1>3, <1>6 DEF Inserted
  <2>2. \A q \in Inserted : q # r => EmailOf(q) # EmailOf(r) \/ ~accept[r].create
    BY <1>1 DEF IInv, AccountInv, Inserted
  <2>3. \A q \in Inserted' : account'[EmailOf(q)'] = "none"
    BY <1>8, <1>10, <1>12, <2>1, <2>2 DEF IInv, AccountInv, Inserted
  <2>4. \A p, q \in Inserted' : p # q => EmailOf(p)' # EmailOf(q)'
    BY <1>8, <2>1 DEF IInv, AccountInv, Inserted
  <2>5. \A e \in Emails : account'[e] = "born" => e \in superadmin'
    BY <1>5, <1>10, <1>11 DEF IInv, AccountInv
  <2>6. \A q \in Accepts :
          ~accept'[q].create /\ accept'[q].stage \in {"begin", "claim", "user", "member", "commit"} =>
              account'[EmailOf(q)'] \notin {"none", "born"}
    BY <1>3, <1>6, <1>8, <1>10, <1>11, <1>12 DEF IInv, AccountInv
  <2>7. \A q \in Accepts : /\ accept'[q].granted => /\ accept'[q].stage \in {"session", "done"}
                                                    /\ account'[EmailOf(q)'] # "none"
                           /\ accept'[q].stage = "session" => accept'[q].granted
    BY <1>3, <1>6, <1>8, <1>9, <1>10, <1>11, <1>12 DEF IInv, AccountInv
  <2> QED BY <2>3, <2>4, <2>5, <2>6, <2>7 DEF AccountInv
<1>17. MemberInv'
  <2>1. \A q \in Accepts : accept'[q].stage = "commit" => q # r /\ accept[q].stage = "commit"
    BY <1>3, <1>6
  <2>2. \A q \in Accepts : q # r /\ accept[q].stage = "commit" => MembershipOf(q) # MembershipOf(r)
    BY <1>1 DEF IInv, MemberInv
  <2>3. \A q \in Accepts : accept'[q].stage = "commit" => MembershipOf(q)' \notin members'
    BY <1>5, <1>8, <2>1, <2>2 DEF IInv, MemberInv
  <2>4. \A p, q \in Accepts : p # q /\ accept'[p].stage = "commit" /\ accept'[q].stage = "commit" =>
            MembershipOf(p)' # MembershipOf(q)'
    BY <1>8, <2>1 DEF IInv, MemberInv
  <2> QED BY <2>3, <2>4 DEF MemberInv
<1>18. OwnAccountOnly'
  <2> SUFFICES ASSUME NEW q \in Accepts, accept'[q].granted
               PROVE  /\ accept'[q].create => account'[EmailOf(q)'] = q
                      /\ account'[EmailOf(q)'] # "born"
    BY DEF OwnAccountOnly
  <2>1. CASE q = r
    BY <1>3, <1>6, <1>7, <1>8, <1>9, <1>10, <1>11, <2>1
  <2>2. CASE q # r
    <3>1. /\ accept[q].granted /\ accept'[q].create = accept[q].create
          /\ accept[q].create => account[EmailOf(q)] = q
          /\ account[EmailOf(q)] # "born"
      BY <1>6, <2>2 DEF IInv, OwnAccountOnly
    <3>2. accept[q].create => ~(accept[r].create /\ EmailOf(q) = EmailOf(r))
      BY <1>9, <3>1, InvitationsAssumption
    <3> QED BY <1>8, <1>10, <1>11, <1>12, <3>1, <3>2
  <2> QED BY <2>1, <2>2
<1> QED BY <1>13, <1>14, <1>15, <1>16, <1>17, <1>18 DEF IInv

\* An account, or the superadmin's mark, that comes from elsewhere.
LEMMA UsersMove ==
    ASSUME IInv, UNCHANGED <<now, row, members, jobs, accept, admin>>,
           operator' \in [Operators -> {"ready", "done"} \cup Emails],
           account' \in [Emails -> Origins], superadmin \subseteq superadmin', superadmin' \subseteq Emails,
           \A e \in Emails :
            account'[e] # account[e] =>
                /\ account[e] = "none" /\ account'[e] \in {"plain", "born"} /\ EmailFree(e, Accepts)
                /\ account'[e] = "born" => e \in superadmin'
    PROVE  IInv'
<1>1. TypeOK'
  BY DEF IInv, TypeOK
<1>2. \A r \in Accepts : /\ EmailOf(r)' = EmailOf(r) /\ MembershipOf(r)' = MembershipOf(r)
                         /\ EmailOf(r) \in Emails
  BY DEF IInv, TypeOK, Accept, Row, EmailOf, MembershipOf
<1>3. LockInv' /\ RowInv'
  BY DEF IInv, LockInv, RowInv
<1>4. MemberInv'
  BY <1>2 DEF IInv, MemberInv
<1>5. AccountInv'
  <2>1. Inserted' = Inserted
    BY DEF Inserted
  <2>2. \A r \in Inserted : account'[EmailOf(r)] = "none"
    BY <1>2 DEF IInv, AccountInv, Inserted, EmailFree
  <2>3. \A e \in Emails : account'[e] = "born" => e \in superadmin'
    BY DEF IInv, AccountInv
  <2>4. \A r \in Accepts :
          ~accept[r].create /\ accept[r].stage \in {"begin", "claim", "user", "member", "commit"} =>
              account'[EmailOf(r)] \notin {"none", "born"}
    BY <1>2 DEF IInv, AccountInv
  <2>5. /\ \A r \in Inserted' : account'[EmailOf(r)'] = "none"
        /\ \A r, q \in Inserted' : r # q => EmailOf(r)' # EmailOf(q)'
    BY <1>2, <2>1, <2>2 DEF IInv, AccountInv, Inserted
  <2> QED BY <1>2, <2>3, <2>4, <2>5 DEF IInv, AccountInv
<1>6. OwnAccountOnly'
  <2> SUFFICES ASSUME NEW r \in Accepts, accept[r].granted
               PROVE  /\ accept[r].create => account'[EmailOf(r)] = r
                      /\ account'[EmailOf(r)] # "born"
    BY <1>2 DEF OwnAccountOnly
  <2>1. /\ accept[r].create => account[EmailOf(r)] = r
        /\ account[EmailOf(r)] \notin {"born"}
    BY DEF IInv, OwnAccountOnly
  <2>2. account[EmailOf(r)] # "none"
    BY DEF IInv, AccountInv
  <2> QED BY <1>2, <2>1, <2>2
<1> QED BY <1>1, <1>3, <1>4, <1>5, <1>6 DEF IInv

LEMMA InsertUserKeeps ==
    ASSUME IInv, NEW e \in Emails, NEW super \in BOOLEAN, InsertUserIgnoreConflict(e, super),
           operator' \in [Operators -> {"ready", "done"} \cup Emails],
           UNCHANGED <<now, row, members, jobs, accept, admin>>
    PROVE  IInv'
<1>1. CASE account[e] = "none"
  <2> DEFINE o == IF super THEN "born" ELSE "plain"
  <2>1. /\ account' = [account EXCEPT ![e] = o]
        /\ superadmin' = IF super THEN superadmin \cup {e} ELSE superadmin
        /\ EmailFree(e, Accepts)
    BY <1>1 DEF InsertUserIgnoreConflict
  <2>2. o \in Origins /\ o \in {"plain", "born"} /\ (o = "born" => super)
    BY DEF Origins
  <2> HIDE DEF o
  <2>3. /\ account' \in [Emails -> Origins]
        /\ \A f \in Emails : account'[f] = IF f = e THEN o ELSE account[f]
    BY <2>1, <2>2 DEF IInv, TypeOK
  <2>4. superadmin \subseteq superadmin' /\ superadmin' \subseteq Emails /\ (super => e \in superadmin')
    BY <2>1 DEF IInv, TypeOK
  <2> QED BY <1>1, <2>1, <2>2, <2>3, <2>4, UsersMove
<1>2. CASE account[e] # "none"
  <2>1. UNCHANGED <<account, superadmin>>
    BY <1>2 DEF InsertUserIgnoreConflict
  <2>2. account' \in [Emails -> Origins] /\ superadmin' \subseteq Emails
    BY <2>1 DEF IInv, TypeOK
  <2> QED BY <2>1, <2>2, UsersMove
<1> QED BY <1>1, <1>2

LEMMA OperatorsKeep ==
    ASSUME IInv,
           \/ \E o \in Operators : EnsureSuperadmin(o) \/ \E e \in Emails : BootstrapSuperadmin(o, e)
           \/ \E e \in Fixtures : SeedUser(e)
    PROVE  IInv'
<1>1. CASE \E o \in Operators, e \in Emails : BootstrapSuperadmin(o, e)
  <2>1. PICK o \in Operators, e \in Emails : BootstrapSuperadmin(o, e)
    BY <1>1
  <2>2. operator' \in [Operators -> {"ready", "done"} \cup Emails]
    BY <2>1 DEF BootstrapSuperadmin, IInv, TypeOK
  <2>3. InsertUserIgnoreConflict(e, TRUE) /\ UNCHANGED <<now, row, members, jobs, accept, admin>>
    BY <2>1 DEF BootstrapSuperadmin
  <2> QED BY <2>2, <2>3, InsertUserKeeps
<1>2. CASE \E o \in Operators : EnsureSuperadmin(o)
  <2>1. PICK o \in Operators : EnsureSuperadmin(o)
    BY <1>2
  <2>2. /\ operator' \in [Operators -> {"ready", "done"} \cup Emails]
        /\ superadmin \subseteq superadmin' /\ superadmin' \subseteq Emails
        /\ UNCHANGED <<now, row, account, members, jobs, accept, admin>>
    BY <2>1 DEF EnsureSuperadmin, IInv, TypeOK
  <2>3. account' \in [Emails -> Origins]
    BY <2>2 DEF IInv, TypeOK
  <2> QED BY <2>2, <2>3, UsersMove
<1>3. CASE \E e \in Fixtures : SeedUser(e)
  <2>1. PICK e \in Fixtures : SeedUser(e)
    BY <1>3
  <2> DEFINE super == e \in SuperFixtures
  <2>2. /\ InsertUserIgnoreConflict(e, super) /\ e \in Emails /\ super \in BOOLEAN
        /\ UNCHANGED <<now, operator, row, members, jobs, accept, admin>>
    BY <2>1, InvitationsAssumption DEF SeedUser
  <2>3. operator' \in [Operators -> {"ready", "done"} \cup Emails]
    BY <2>2 DEF IInv, TypeOK
  <2> HIDE DEF super
  <2> QED BY <2>2, <2>3, InsertUserKeeps
<1> QED BY <1>1, <1>2, <1>3

LEMMA TickKeeps == ASSUME IInv, Tick PROVE IInv'
<1>1. UNCHANGED <<row, account, superadmin, operator, members, jobs, accept, admin>> /\ now' \in Times
  BY InvitationsAssumption DEF Tick, IInv, TypeOK, Times, users
<1>2. TypeOK'
  BY <1>1 DEF IInv, TypeOK
<1>3. \A r \in Accepts : EmailOf(r)' = EmailOf(r) /\ MembershipOf(r)' = MembershipOf(r)
  BY <1>1 DEF EmailOf, MembershipOf
<1>4. LockInv' /\ RowInv' /\ MemberInv' /\ OwnAccountOnly'
  BY <1>1, <1>3 DEF IInv, LockInv, RowInv, MemberInv, OwnAccountOnly
<1>5. AccountInv'
  BY <1>1, <1>3 DEF IInv, AccountInv, Inserted
<1> QED BY <1>2, <1>4, <1>5 DEF IInv

LEMMA StutterKeeps == ASSUME IInv, UNCHANGED vars PROVE IInv'
<1>1. UNCHANGED <<now, row, account, superadmin, operator, members, jobs, accept, admin>>
  BY DEF vars, users
<1>2. TypeOK'
  BY <1>1 DEF IInv, TypeOK
<1>3. \A r \in Accepts : EmailOf(r)' = EmailOf(r) /\ MembershipOf(r)' = MembershipOf(r)
  BY <1>1 DEF EmailOf, MembershipOf
<1>4. LockInv' /\ RowInv' /\ MemberInv' /\ OwnAccountOnly'
  BY <1>1, <1>3 DEF IInv, LockInv, RowInv, MemberInv, OwnAccountOnly
<1>5. AccountInv'
  BY <1>1, <1>3 DEF IInv, AccountInv, Inserted
<1> QED BY <1>2, <1>4, <1>5 DEF IInv

LEMMA NextKeeps == ASSUME IInv, [Next]_vars PROVE IInv'
<1>1. CASE \E r \in Accepts : AcceptStep(r)
  BY <1>1, ReadsKeep, TransactionKeeps, EndsKeep, CommitAcceptKeeps DEF AcceptStep
<1>2. CASE \E a \in Admins : AdminStep(a)
  <2>1. PICK a \in Admins : AdminStep(a)
    BY <1>2
  <2>2. CASE CommitResend(a) \/ CommitRevoke(a)
    BY <2>2, AdminCommits
  <2>3. CASE AbortAdmin(a) \/ \E i \in Invites : RotateShortCode(a, i) \/ RevokePending(a, i)
    <3>1. UNCHANGED <<now, row, users, members, jobs, accept>>
      BY <2>3 DEF AbortAdmin, RotateShortCode, RevokePending
    <3> QED BY <2>3, <3>1, AdminMoves
  <2> QED BY <2>1, <2>2, <2>3 DEF AdminStep
<1>3. CASE \E i \in Invites, e \in Emails, s \in Seats : CreateInvitation(i, e, s)
  BY <1>3, CreateKeeps
<1>4. CASE \/ \E o \in Operators : EnsureSuperadmin(o) \/ \E e \in Emails : BootstrapSuperadmin(o, e)
           \/ \E e \in Fixtures : SeedUser(e)
  BY <1>4, OperatorsKeep
<1>5. CASE Sweep \/ Tick \/ UNCHANGED vars
  BY <1>5, SweepKeeps, TickKeeps, StutterKeeps
<1> QED BY <1>1, <1>2, <1>3, <1>4, <1>5 DEF Next

-----------------------------------------------------------------------------
\* The invariant holds in every state the system reaches.
THEOREM Invariance == Spec => []IInv
BY InitEstablishes, NextKeeps, PTL DEF Spec

\* The tables and the requests stay within their types.
THEOREM TypeCorrect == Spec => []TypeOK
<1>1. IInv => TypeOK
  BY DEF IInv
<1> QED BY <1>1, Invariance, PTL

\* An acceptance gives its seat to an account it has proved or created itself, and never to
\* one that was a superadmin's from the first.
THEOREM OwnAccount == Spec => []OwnAccountOnly
<1>1. IInv => OwnAccountOnly
  BY DEF IInv
<1> QED BY <1>1, Invariance, PTL

-----------------------------------------------------------------------------
(* The refinement: every step grants one open invitation, offers one, closes some or    *)
(* changes nothing of what InvitationGrants sees.                                       *)

LEMMA OutcomeIs ==
    ASSUME IInv, NEW i \in Invites
    PROVE  /\ row[i].status = "none" => Outcome(i) = "unborn"
           /\ row[i].status = "accepted" => Outcome(i) = "granted"
           /\ row[i].status = "pending" /\ Claimable(i) => Outcome(i) = "open"
           /\ row[i].status = "pending" /\ ~Claimable(i) => Outcome(i) = "closed"
           /\ row[i].status \in {"revoked", "blocked"} => Outcome(i) = "closed"
           /\ row[i].status \in Statuses
<1>1. row[i].status \in Statuses
  BY DEF IInv, TypeOK, Row
<1> QED BY <1>1 DEF Outcome, Statuses

LEMMA OutcomeIsNext ==
    ASSUME IInv', NEW i \in Invites
    PROVE  /\ row'[i].status = "none" => Outcome(i)' = "unborn"
           /\ row'[i].status = "accepted" => Outcome(i)' = "granted"
           /\ row'[i].status = "pending" /\ Claimable(i)' => Outcome(i)' = "open"
           /\ row'[i].status = "pending" /\ ~Claimable(i)' => Outcome(i)' = "closed"
           /\ row'[i].status \in {"revoked", "blocked"} => Outcome(i)' = "closed"
<1>1. row'[i].status \in Statuses
  BY DEF IInv, TypeOK, Row
<1> QED BY <1>1 DEF Outcome, Statuses

GrantsVars == <<[i \in Invites |-> Outcome(i)],
                [i \in Invites |-> <<row[i].email, row[i].seat>>], members>>

\* A step in which some open invitations, or none, are closed.
LEMMA ClosesSome ==
    ASSUME UNCHANGED members,
           \A i \in Invites : row'[i].email = row[i].email /\ row'[i].seat = row[i].seat,
           \A i \in Invites : \/ Outcome(i)' = Outcome(i)
                              \/ Outcome(i) = "open" /\ Outcome(i)' = "closed"
    PROVE  Grants!Next \/ UNCHANGED GrantsVars
<1> DEFINE S == {i \in Invites : Outcome(i)' # Outcome(i)}
<1>1. [i \in Invites |-> <<row[i].email, row[i].seat>>]' = [i \in Invites |-> <<row[i].email, row[i].seat>>]
  OBVIOUS
<1>2. CASE S = {}
  <2>1. [i \in Invites |-> Outcome(i)]' = [i \in Invites |-> Outcome(i)]
    BY <1>2
  <2> QED BY <1>1, <2>1 DEF GrantsVars
<1>3. CASE S # {}
  <2>1. \A i \in S : [j \in Invites |-> Outcome(j)][i] = "open"
    OBVIOUS
  <2>2. [i \in Invites |-> Outcome(i)]' =
            [i \in Invites |-> IF i \in S THEN "closed" ELSE [j \in Invites |-> Outcome(j)][i]]
    OBVIOUS
  <2>3. Grants!Close(S)
    BY <1>1, <1>3, <2>1, <2>2 DEF Grants!Close
  <2>4. S \in SUBSET Invites
    OBVIOUS
  <2> QED BY <2>3, <2>4 DEF Grants!Next
<1> QED BY <1>2, <1>3

\* A step that settles pending invitations, or lets the time of some run out.
LEMMA LosesSome ==
    ASSUME IInv, IInv', UNCHANGED members,
           \A i \in Invites : /\ row'[i].email = row[i].email /\ row'[i].seat = row[i].seat
                              /\ \/ row'[i].status = row[i].status
                                 \/ row[i].status = "pending" /\ row'[i].status \in {"revoked", "blocked"}
                              /\ Claimable(i)' => Claimable(i)
    PROVE  Grants!Next \/ UNCHANGED GrantsVars
<1>1. ASSUME NEW i \in Invites
      PROVE  \/ Outcome(i)' = Outcome(i)
             \/ Outcome(i) = "open" /\ Outcome(i)' = "closed"
  <2>1. CASE row[i].status = "pending"
    BY <2>1, OutcomeIs, OutcomeIsNext
  <2>2. CASE row[i].status # "pending"
    BY <2>2, OutcomeIs, OutcomeIsNext DEF Statuses
  <2> QED BY <2>1, <2>2
<1> QED BY <1>1, ClosesSome

\* Nothing becomes claimable when nothing is created: a transaction begins in its present.
LEMMA ClaimableIsLost ==
    ASSUME IInv, IInv', now' >= now,
           \A i \in Invites : row'[i].expires = row[i].expires,
           \A r \in Accepts : accept'[r].stage \in Holding \cup {"claim"} =>
               /\ accept'[r].invite = accept[r].invite
               /\ \/ accept[r].stage \in Holding \cup {"claim"} /\ accept'[r].since = accept[r].since
                  \/ accept'[r].since = now
    PROVE  \A i \in Invites : Claimable(i)' => Claimable(i)
<1> SUFFICES ASSUME NEW i \in Invites, Claimable(i)' PROVE Claimable(i)
  OBVIOUS
<1>1. now \in Int /\ now' \in Int /\ row[i].expires \in Int
  <2>1. row[i].expires \in 0..(MaxTime + Lifetime) /\ now \in Times /\ now' \in Times
    BY DEF IInv, TypeOK, Row
  <2> QED BY <2>1, InvitationsAssumption DEF Times
<1>2. CASE row'[i].expires > now'
  BY <1>1, <1>2 DEF Claimable
<1>3. CASE \E r \in Accepts : /\ accept'[r].stage \in Holding \cup {"claim"}
                              /\ accept'[r].invite = i /\ row'[i].expires > accept'[r].since
  <2>1. PICK r \in Accepts : /\ accept'[r].stage \in Holding \cup {"claim"}
                             /\ accept'[r].invite = i /\ row'[i].expires > accept'[r].since
    BY <1>3
  <2>2. CASE accept'[r].since = now
    BY <2>1, <2>2 DEF Claimable
  <2>3. CASE accept[r].stage \in Holding \cup {"claim"} /\ accept'[r].since = accept[r].since
    BY <2>1, <2>3 DEF Claimable
  <2> QED BY <2>1, <2>2, <2>3
<1> QED BY <1>2, <1>3 DEF Claimable

LEMMA AcceptRefines ==
    ASSUME IInv, IInv', NEW r \in Accepts, AcceptStep(r), ~CommitAccept(r)
    PROVE  Grants!Next \/ UNCHANGED GrantsVars
<1>1. UNCHANGED <<now, row, members>>
  BY DEF AcceptStep, Resolve, CheckUsable, Preview, ProveAccount, BeginAccept, Claim, InsertUser,
         InsertUnitMember, IssueSession, Refuse
<1>2. accept[r] \in Accept /\ \A q \in Accepts \ {r} : accept'[q] = accept[q]
  BY DEF IInv, TypeOK, AcceptStep, Resolve, CheckUsable, Preview, ProveAccount, BeginAccept, Claim,
         InsertUser, InsertUnitMember, IssueSession, Refuse, Goto
<1>3. ASSUME accept'[r].stage \in Holding \cup {"claim"}
      PROVE  /\ accept'[r].invite = accept[r].invite
             /\ \/ accept[r].stage \in Holding \cup {"claim"} /\ accept'[r].since = accept[r].since
                \/ accept'[r].since = now
  <2>1. accept \in [Accepts -> Accept]
    BY DEF IInv, TypeOK
  <2>2. Done(r).stage \notin Holding \cup {"claim"}
    BY <1>2, DoneIsAccept DEF Holding
  <2>3. CASE \E i \in Invites, s \in Codes \cup {Token} : Resolve(r, i, s)
    <3>1. accept'[r].stage = "count"
      BY <2>1, <2>3, ReadyIsAccept DEF Resolve, Accept
    <3> QED BY <1>3, <3>1 DEF Holding
  <2>4. CASE \/ CheckUsable(r) \/ Preview(r) \/ IssueSession(r) \/ Refuse(r)
    <3>1. accept'[r] = Done(r) \/ accept'[r].stage = "prove"
      BY <1>2, <2>1, <2>4 DEF CheckUsable, Preview, IssueSession, Refuse, Goto, Accept
    <3> QED BY <1>3, <2>2, <3>1 DEF Holding
  <2>5. CASE ProveAccount(r)
    <3>1. accept'[r].stage = "begin"
      BY <1>2, <2>1, <2>5 DEF ProveAccount, Accept
    <3> QED BY <1>3, <3>1 DEF Holding
  <2>6. CASE BeginAccept(r)
    BY <1>2, <2>1, <2>6 DEF BeginAccept, Accept
  <2>7. CASE Claim(r) \/ InsertUser(r) \/ InsertUnitMember(r)
    <3>1. /\ accept[r].stage \in Holding \cup {"claim"}
          /\ accept'[r] = Done(r) \/ \E s \in Stages : accept'[r] = [accept[r] EXCEPT !.stage = s]
      BY <1>2, <2>1, <2>7 DEF Claim, InsertUser, InsertUnitMember, Goto, Holding, Stages
    <3> QED BY <1>2, <1>3, <2>2, <3>1 DEF Accept
  <2> QED BY <2>3, <2>4, <2>5, <2>6, <2>7 DEF AcceptStep
<1>4. \A q \in Accepts : accept'[q].stage \in Holding \cup {"claim"} =>
          /\ accept'[q].invite = accept[q].invite
          /\ \/ accept[q].stage \in Holding \cup {"claim"} /\ accept'[q].since = accept[q].since
             \/ accept'[q].since = now
  BY <1>2, <1>3
<1>5. now' >= now
  BY <1>1, InvitationsAssumption DEF IInv, TypeOK, Times
<1>6. \A i \in Invites : Claimable(i)' => Claimable(i)
  BY <1>1, <1>4, <1>5, ClaimableIsLost
<1> QED BY <1>1, <1>6, LosesSome

\* Steps that leave the requests to accept alone and create no invitation.
LEMMA OthersRefine ==
    ASSUME IInv, IInv', UNCHANGED <<members, accept>>, now' = now \/ now' = now + 1,
           \A i \in Invites : /\ row'[i].email = row[i].email /\ row'[i].seat = row[i].seat
                              /\ row'[i].expires = row[i].expires
                              /\ \/ row'[i].status = row[i].status
                                 \/ row[i].status = "pending" /\ row'[i].status \in {"revoked", "blocked"}
    PROVE  Grants!Next \/ UNCHANGED GrantsVars
<1>1. now' >= now
  BY InvitationsAssumption DEF IInv, TypeOK, Times
<1>2. \A i \in Invites : Claimable(i)' => Claimable(i)
  BY <1>1, ClaimableIsLost
<1> QED BY <1>2, LosesSome

LEMMA AdminRefines ==
    ASSUME IInv, IInv', NEW a \in Admins, AdminStep(a)
    PROVE  Grants!Next \/ UNCHANGED GrantsVars
<1>1. UNCHANGED <<now, members, accept>>
  BY DEF AdminStep, RotateShortCode, RevokePending, CommitResend, CommitRevoke, AbortAdmin, users
<1>2. /\ row \in [Invites -> Row] /\ admin[a].invite \in Invites
      /\ admin[a].op # "idle" => row[admin[a].invite].status = "pending"
  BY DEF IInv, TypeOK, RowInv, Admin
<1>3. ASSUME NEW i \in Invites
      PROVE  /\ row'[i].email = row[i].email /\ row'[i].seat = row[i].seat
             /\ row'[i].expires = row[i].expires
             /\ \/ row'[i].status = row[i].status
                \/ row[i].status = "pending" /\ row'[i].status \in {"revoked", "blocked"}
  <2>1. CASE CommitResend(a)
    BY <1>2, <2>1 DEF CommitResend, RotateInvitationShortCode, Row
  <2>2. CASE CommitRevoke(a)
    BY <1>2, <2>2 DEF CommitRevoke, RevokeInvitation, Row
  <2>3. CASE AbortAdmin(a) \/ \E j \in Invites : RotateShortCode(a, j) \/ RevokePending(a, j)
    BY <2>3 DEF AbortAdmin, RotateShortCode, RevokePending
  <2> QED BY <2>1, <2>2, <2>3 DEF AdminStep
<1> QED BY <1>1, <1>3, OthersRefine

LEMMA SweepRefines ==
    ASSUME IInv, IInv', Sweep
    PROVE  Grants!Next \/ UNCHANGED GrantsVars
<1> DEFINE expired == {i \in Invites : row[i].status = "pending" /\ row[i].expires <= now}
<1>1. UNCHANGED <<now, members, accept>> /\ row' = SweepExpired(expired) /\ row \in [Invites -> Row]
  BY DEF Sweep, users, IInv, TypeOK
<1>2. ASSUME NEW i \in Invites
      PROVE  /\ row'[i].email = row[i].email /\ row'[i].seat = row[i].seat
             /\ row'[i].expires = row[i].expires
             /\ \/ row'[i].status = row[i].status
                \/ row[i].status = "pending" /\ row'[i].status \in {"revoked", "blocked"}
  <2>1. row'[i] = IF i \in expired THEN [row[i] EXCEPT !.status = "blocked"] ELSE row[i]
    BY <1>1 DEF SweepExpired
  <2>2. i \in expired => row[i].status = "pending"
    OBVIOUS
  <2> HIDE DEF expired
  <2> QED BY <1>1, <2>1, <2>2 DEF Row
<1> QED BY <1>1, <1>2, OthersRefine

LEMMA CreateRefines ==
    ASSUME IInv, IInv', NEW i \in Invites, NEW e \in Emails, NEW s \in Seats, CreateInvitation(i, e, s)
    PROVE  Grants!Next
<1> DEFINE n == [status |-> "pending", email |-> e, seat |-> s, code |-> 0, expires |-> now + Lifetime]
<1>1. /\ row[i].status = "none" /\ row' = [row EXCEPT ![i] = n]
      /\ UNCHANGED <<now, members, accept>> /\ row \in [Invites -> Row]
  BY DEF CreateInvitation, InsertInvitation, IInv, TypeOK, users
<1>2. n.status = "pending" /\ n.email = e /\ n.seat = s /\ n.expires > now
  BY InvitationsAssumption DEF IInv, TypeOK, Times
<1> HIDE DEF n
<1>3. row'[i] = n /\ \A j \in Invites : j # i => row'[j] = row[j]
  BY <1>1
<1>4. Outcome(i) = "unborn" /\ Outcome(i)' = "open"
  <2>1. Claimable(i)'
    BY <1>1, <1>2, <1>3 DEF Claimable
  <2> QED BY <1>1, <1>2, <1>3, <2>1, OutcomeIs, OutcomeIsNext
<1>5. \A j \in Invites : j # i => Outcome(j)' = Outcome(j)
  BY <1>1, <1>3 DEF Outcome, Claimable
<1>6. [j \in Invites |-> Outcome(j)]' = [[j \in Invites |-> Outcome(j)] EXCEPT ![i] = "open"]
  BY <1>4, <1>5
<1>7. [j \in Invites |-> <<row[j].email, row[j].seat>>]' =
          [[j \in Invites |-> <<row[j].email, row[j].seat>>] EXCEPT ![i] = <<e, s>>]
  BY <1>2, <1>3
<1>8. Grants!Offer(i, <<e, s>>)
  BY <1>1, <1>4, <1>6, <1>7 DEF Grants!Offer
<1> QED BY <1>8 DEF Grants!Next, Grants!Memberships

LEMMA CommitAcceptRefines ==
    ASSUME IInv, IInv', NEW r \in Accepts, CommitAccept(r)
    PROVE  Grants!Next
<1>0. PICK i \in Invites : i = accept[r].invite
  BY DEF IInv, TypeOK, Accept
<1>1. /\ accept[r].stage = "commit" /\ row' = [row EXCEPT ![i].status = "accepted"]
      /\ members' = members \cup {MembershipOf(r)}
      /\ now' = now /\ accept' = [accept EXCEPT ![r].stage = "session", ![r].granted = TRUE]
  BY <1>0 DEF CommitAccept, AcceptInvitation
<1>2. i \in Invites /\ row \in [Invites -> Row] /\ accept \in [Accepts -> Accept]
  BY DEF IInv, TypeOK, Accept
<1>3. row[i].status = "pending" /\ row[i].expires > accept[r].since
  BY <1>0, <1>1 DEF IInv, RowInv, Holding
<1>4. /\ row'[i].status = "accepted" /\ row'[i].email = row[i].email /\ row'[i].seat = row[i].seat
      /\ \A j \in Invites : j # i => row'[j] = row[j]
  BY <1>1, <1>2 DEF Row
<1>5. Outcome(i) = "open" /\ Outcome(i)' = "granted"
  <2>1. Claimable(i)
    BY <1>0, <1>1, <1>3 DEF Claimable, Holding
  <2> QED BY <1>2, <1>3, <1>4, <2>1, OutcomeIs, OutcomeIsNext
<1>6. ASSUME NEW j \in Invites, j # i PROVE Outcome(j)' = Outcome(j)
  <2>1. \A q \in Accepts : q # r => accept'[q] = accept[q]
    BY <1>1, <1>2
  <2>2. accept'[r].invite = i
    BY <1>0, <1>1, <1>2 DEF Accept
  <2>3. \A q \in Accepts :
          /\ accept'[q].invite = j <=> accept[q].invite = j
          /\ accept[q].invite = j => accept'[q] = accept[q]
    BY <1>0, <1>6, <2>1, <2>2
  <2>4. row'[j] = row[j] /\ now' = now
    BY <1>1, <1>4, <1>6
  <2>5. Claimable(j)' <=> Claimable(j)
    <3>1. ASSUME NEW q \in Accepts
          PROVE  /\ accept'[q].stage \in Holding \cup {"claim"}
                 /\ accept'[q].invite = j /\ row'[j].expires > accept'[q].since
                 <=>
                 /\ accept[q].stage \in Holding \cup {"claim"}
                 /\ accept[q].invite = j /\ row[j].expires > accept[q].since
      BY <2>3, <2>4
    <3> QED BY <2>4, <3>1 DEF Claimable
  <2> QED BY <2>4, <2>5 DEF Outcome
<1>7. [j \in Invites |-> Outcome(j)]' = [[j \in Invites |-> Outcome(j)] EXCEPT ![i] = "granted"]
  BY <1>5, <1>6
<1>8. [j \in Invites |-> <<row[j].email, row[j].seat>>]' = [j \in Invites |-> <<row[j].email, row[j].seat>>]
  BY <1>4
<1>9. /\ [j \in Invites |-> <<row[j].email, row[j].seat>>][i] = MembershipOf(r)
      /\ MembershipOf(r) \notin members
  BY <1>0, <1>1, <1>2 DEF MembershipOf, EmailOf, IInv, MemberInv
<1>10. Grants!Grant(i)
  BY <1>1, <1>2, <1>5, <1>7, <1>8, <1>9 DEF Grants!Grant
<1> QED BY <1>2, <1>10 DEF Grants!Next

LEMMA NextRefines == ASSUME IInv, IInv', [Next]_vars PROVE Grants!Next \/ UNCHANGED GrantsVars
<1>1. CASE \E r \in Accepts : AcceptStep(r)
  BY <1>1, AcceptRefines, CommitAcceptRefines
<1>2. CASE \E a \in Admins : AdminStep(a)
  BY <1>2, AdminRefines
<1>3. CASE \E i \in Invites, e \in Emails, s \in Seats : CreateInvitation(i, e, s)
  BY <1>3, CreateRefines
<1>4. CASE \/ \E o \in Operators : EnsureSuperadmin(o) \/ \E e \in Emails : BootstrapSuperadmin(o, e)
           \/ \E e \in Fixtures : SeedUser(e)
           \/ Tick \/ UNCHANGED vars
  <2>1. UNCHANGED <<row, members, accept>> /\ (now' = now \/ now' = now + 1)
    BY <1>4 DEF EnsureSuperadmin, BootstrapSuperadmin, SeedUser, Tick, vars
  <2> QED BY <2>1, OthersRefine
<1>5. CASE Sweep
  BY <1>5, SweepRefines
<1> QED BY <1>1, <1>2, <1>3, <1>4, <1>5 DEF Next

LEMMA InitRefines == Init => Grants!Init
<1> SUFFICES ASSUME Init PROVE Grants!Init
  OBVIOUS
<1>1. \A i \in Invites : /\ row[i].status = "none" /\ row[i].email \in Emails /\ row[i].seat \in Seats
  BY ReadyIsAccept DEF Init
<1>2. \A i \in Invites : Outcome(i) = "unborn"
  BY <1>1 DEF Outcome
<1> QED BY <1>1, <1>2 DEF Init, Grants!Init, Grants!Memberships

\* Invitations implement InvitationGrants: an invitation gives its seat to its address at
\* most once, and never once it was revoked, swept or expired.
THEOREM PromiseKept == Spec => KeepsPromise
<1>1. Init => Grants!Init
  BY InitRefines
<1>2. IInv /\ IInv' /\ [Next]_vars =>
          [Grants!Next]_<<[i \in Invites |-> Outcome(i)],
                          [i \in Invites |-> <<row[i].email, row[i].seat>>], members>>
  BY NextRefines DEF GrantsVars
<1> QED BY <1>1, <1>2, Invariance, PTL DEF Spec, KeepsPromise, Grants!Spec

=============================================================================
