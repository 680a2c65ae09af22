------------------------ MODULE RevocationCacheProofs ------------------------
(***************************************************************************)
(* IInv is an invariant of RevocationCache for any number of replicas,      *)
(* families, slots and tokens and any TTL, and with it the three safety     *)
(* properties the runs check.                                               *)
(***************************************************************************)
EXTENDS RevocationCache, TLAPS

\* A free slot is a slot.
LEMMA FreeIsSlot ==
  ASSUME NEW f \in Families
  PROVE  Free \in Slot /\ Free.stage = "free"
  BY DEF Free, Slot

\* A token after MarkRevoked: the one before it, told perhaps to one replica more.
LEMMA MarkedTokens ==
  ASSUME IInv, NEW r \in Replicas, NEW f \in Families, MarkRevoked(r, f)
  PROVE  /\ tokens' \subseteq Token
         /\ \A u \in tokens' : \E t \in tokens :
               /\ u.family = t.family /\ u.life = t.life /\ u.owed = t.owed
               /\ u.told = IF t.family = f THEN t.told \cup {r} ELSE t.told
  <1>1. tokens' = {IF t.family = f THEN [t EXCEPT !.told = @ \cup {r}] ELSE t : t \in tokens}
    BY DEF MarkRevoked
  <1>2. ASSUME NEW t \in tokens
        PROVE  LET u == IF t.family = f THEN [t EXCEPT !.told = @ \cup {r}] ELSE t
               IN  /\ u \in Token
                   /\ u.family = t.family /\ u.life = t.life /\ u.owed = t.owed
                   /\ u.told = IF t.family = f THEN t.told \cup {r} ELSE t.told
    <2>1. t \in Token
      BY DEF IInv, TypeOK
    <2>2. CASE t.family = f
      BY <2>1, <2>2 DEF Token
    <2>3. CASE t.family # f
      BY <2>1, <2>3
    <2>4. QED
      BY <2>2, <2>3
  <1>3. QED
    BY <1>1, <1>2

\* MarkRevoked preserves what IInv says of tokens, as long as the step leaves the
\* rest alone but for one entry of an inbox or of unmarked.
LEMMA MarkStep ==
  ASSUME IInv, NEW r \in Replicas, NEW f \in Families, MarkRevoked(r, f), f \in closed,
         UNCHANGED <<live, spent, slot, age, down, conn, closed, published>>,
         \/ inbox' = inbox /\ unmarked' = [unmarked EXCEPT ![r] = @ \ {f}]
         \/ unmarked' = unmarked /\ inbox' = [inbox EXCEPT ![r] = @ \ {f}]
  PROVE  IInv'
  <1>1. TTL \in Nat \ {0}
    BY CacheAssumption
  <1>2. /\ tokens' \subseteq Token
        /\ \A u \in tokens' : \E t \in tokens :
              /\ u.family = t.family /\ u.life = t.life /\ u.owed = t.owed
              /\ u.told = IF t.family = f THEN t.told \cup {r} ELSE t.told
    BY MarkedTokens
  <1>3. /\ marks' \in [Replicas -> [Families -> Absent..TTL]] /\ marks'[r][f] = TTL
        /\ \A p \in Replicas, g \in Families :
              p # r \/ g # f => marks'[p][g] = marks[p][g]
    BY <1>1 DEF MarkRevoked, IInv, TypeOK, Absent
  <1>4. /\ inbox' \in [Replicas -> SUBSET Families]
        /\ unmarked' \in [Replicas -> SUBSET Families]
        /\ \A p \in Replicas : inbox'[p] \subseteq inbox[p] /\ unmarked'[p] \subseteq unmarked[p]
        /\ \A p \in Replicas, g \in Families :
              p # r \/ g # f => (g \in inbox[p] => g \in inbox'[p])
    BY DEF IInv, TypeOK
  <1>5. TypeOK'
    BY <1>2, <1>3, <1>4 DEF IInv, TypeOK
  <1>6. ClosedInv'
    <2>1. \A t \in tokens' : t.family \in live' \cup closed'
      BY <1>2 DEF IInv, ClosedInv
    <2>2. \A p \in Replicas : unmarked'[p] \cup inbox'[p] \subseteq closed'
      BY <1>4 DEF IInv, ClosedInv
    <2>3. ASSUME NEW p \in Replicas, NEW g \in Families, marks'[p][g] # Absent
          PROVE  g \in closed'
      BY <1>3, <2>3 DEF IInv, ClosedInv
    <2>4. QED
      BY <2>1, <2>2, <2>3 DEF IInv, ClosedInv
  <1>7. ASSUME NEW u \in tokens'
        PROVE  /\ \A p \in u.told : marks'[p][u.family] >= u.life \/ age[p] + u.life <= TTL
               /\ \A p \in u.owed : u.family \in inbox'[p] \/ p \in u.told
    <2>1. PICK t \in tokens :
              /\ u.family = t.family /\ u.life = t.life /\ u.owed = t.owed
              /\ u.told = IF t.family = f THEN t.told \cup {r} ELSE t.told
      BY <1>2
    <2>2. t \in Token /\ t.life \in 1..TTL /\ t.family \in Families
          /\ t.told \subseteq Replicas /\ t.owed \subseteq Replicas
      BY DEF IInv, TypeOK, Token
    <2>3. /\ \A p \in t.told : marks[p][t.family] >= t.life \/ age[p] + t.life <= TTL
          /\ \A p \in t.owed : t.family \in inbox[p] \/ p \in t.told
      BY DEF IInv, TokenInv
    <2>4. ASSUME NEW p \in u.told
          PROVE  marks'[p][u.family] >= u.life \/ age[p] + u.life <= TTL
      <3>1. CASE p = r /\ t.family = f
        BY <1>1, <1>3, <2>1, <2>2, <3>1
      <3>2. CASE p # r \/ t.family # f
        <4>1. p \in t.told /\ p \in Replicas
          BY <2>1, <2>2, <2>4, <3>2
        <4>2. marks'[p][t.family] = marks[p][t.family]
          BY <1>3, <2>2, <3>2, <4>1
        <4>3. QED
          BY <2>1, <2>3, <4>1, <4>2
      <3>3. QED
        BY <3>1, <3>2
    <2>5. ASSUME NEW p \in u.owed
          PROVE  u.family \in inbox'[p] \/ p \in u.told
      BY <1>4, <2>1, <2>2, <2>3, <2>5
    <2>6. QED
      BY <2>4, <2>5
  <1>8. QED
    BY <1>5, <1>6, <1>7 DEF IInv, TokenInv

-----------------------------------------------------------------------------
\* What TokenInv and ClosedInv say of tokens depends on these variables only, and
\* survives a family that becomes live.
LEMMA CacheUntouched ==
  ASSUME IInv, UNCHANGED <<tokens, marks, age, inbox>>
  PROVE  TokenInv'
  BY DEF IInv, TokenInv

LEMMA LoginStep ==
  ASSUME IInv, NEW s \in Slots, NEW f \in Families, Login(s, f)
  PROVE  IInv'
  <1>1. [stage |-> "sign", family |-> f] \in Slot
    BY DEF Slot
  <1>2. /\ slot' \in [Slots -> Slot] /\ slot'[s].family = f
        /\ \A p \in Slots \ {s} : slot'[p] = slot[p]
    BY <1>1 DEF Login, IInv, TypeOK
  <1>3. TypeOK'
    BY <1>2 DEF Login, process, listening, history, IInv, TypeOK
  <1>4. ClosedInv'
    BY <1>2 DEF Login, process, listening, history, IInv, ClosedInv
  <1>5. TokenInv'
    BY CacheUntouched DEF Login, process, listening
  <1>6. QED
    BY <1>3, <1>4, <1>5 DEF IInv

LEMMA RotateBeginStep ==
  ASSUME IInv, NEW s \in Slots, NEW f \in Families, RotateBegin(s, f)
  PROVE  IInv'
  <1>1. [stage |-> "rotating", family |-> f] \in Slot
    BY DEF Slot
  <1>2. /\ slot' \in [Slots -> Slot] /\ slot'[s].family = f
        /\ \A p \in Slots \ {s} : slot'[p] = slot[p]
    BY <1>1 DEF RotateBegin, IInv, TypeOK
  <1>3. TypeOK'
    BY <1>2 DEF RotateBegin, process, listening, history, IInv, TypeOK
  <1>4. ClosedInv'
    BY <1>2 DEF RotateBegin, process, listening, history, IInv, ClosedInv
  <1>5. TokenInv'
    BY CacheUntouched DEF RotateBegin, process, listening
  <1>6. QED
    BY <1>3, <1>4, <1>5 DEF IInv

LEMMA RotateCommitStep ==
  ASSUME IInv, NEW s \in Slots, RotateCommit(s)
  PROVE  IInv'
  <1>1. slot[s] \in Slot /\ slot[s].family \in Families
    BY DEF IInv, TypeOK, Slot
  <1>2. [slot[s] EXCEPT !.stage = "sign"] \in Slot
        /\ [slot[s] EXCEPT !.stage = "sign"].family = slot[s].family
    BY <1>1 DEF Slot
  <1>3. slot' = [slot EXCEPT ![s] = [slot[s] EXCEPT !.stage = "sign"]]
    BY DEF RotateCommit
  <1>4. /\ slot' \in [Slots -> Slot] /\ slot'[s].family = slot[s].family
        /\ \A p \in Slots \ {s} : slot'[p] = slot[p]
    BY <1>2, <1>3 DEF IInv, TypeOK
  <1>5. TypeOK'
    BY <1>1, <1>4 DEF RotateCommit, process, listening, history, IInv, TypeOK
  <1>6. ClosedInv'
    BY <1>4 DEF RotateCommit, process, listening, history, IInv, ClosedInv
  <1>7. TokenInv'
    BY CacheUntouched DEF RotateCommit, process, listening
  <1>8. QED
    BY <1>5, <1>6, <1>7 DEF IInv

LEMMA FailStep ==
  ASSUME IInv, NEW s \in Slots, Fail(s)
  PROVE  IInv'
  <1>1. Free \in Slot /\ Free.stage = "free"
    <2>1. slot[s].family \in Families
      BY DEF IInv, TypeOK, Slot
    <2>2. QED
      BY <2>1, FreeIsSlot
  <1>2. /\ slot' \in [Slots -> Slot] /\ slot'[s].stage = "free"
        /\ \A p \in Slots \ {s} : slot'[p] = slot[p]
    BY <1>1 DEF Fail, IInv, TypeOK
  <1>3. TypeOK'
    BY <1>2 DEF Fail, process, listening, history, IInv, TypeOK
  <1>4. ClosedInv'
    BY <1>2 DEF Fail, process, listening, history, IInv, ClosedInv
  <1>5. TokenInv'
    BY CacheUntouched DEF Fail, process, listening
  <1>6. QED
    BY <1>3, <1>4, <1>5 DEF IInv

LEMMA SignStep ==
  ASSUME IInv, NEW s \in Slots, Sign(s)
  PROVE  IInv'
  <1> DEFINE u == [family |-> slot[s].family, life |-> TTL, told |-> {}, owed |-> {}]
  <1>1. slot[s].family \in Families /\ slot[s].family \in live \cup closed
    BY DEF Sign, IInv, TypeOK, ClosedInv, Slot
  <1>2. u \in Token /\ u.told = {} /\ u.owed = {} /\ u.family = slot[s].family
    BY <1>1, CacheAssumption DEF Token
  <1>3. tokens' = tokens \cup {u} /\ slot' = [slot EXCEPT ![s] = Free]
        /\ UNCHANGED <<live, spent, process, listening, history>>
    BY DEF Sign
  <1> HIDE DEF u
  <1>4. Free \in Slot /\ Free.stage = "free"
    BY <1>1, FreeIsSlot
  <1>5. /\ slot' \in [Slots -> Slot] /\ slot'[s].stage = "free"
        /\ \A p \in Slots \ {s} : slot'[p] = slot[p]
    BY <1>3, <1>4 DEF IInv, TypeOK
  <1>6. TypeOK'
    BY <1>2, <1>3, <1>5 DEF process, listening, history, IInv, TypeOK
  <1>7. ClosedInv'
    BY <1>1, <1>2, <1>3, <1>5 DEF process, listening, history, IInv, ClosedInv
  <1>8. TokenInv'
    BY <1>2, <1>3 DEF process, listening, IInv, TokenInv
  <1>9. QED
    BY <1>6, <1>7, <1>8 DEF IInv

LEMMA RevokeStep ==
  ASSUME IInv, NEW r \in Replicas, NEW f \in Families, f \in live \cup closed, Revoke(r, f)
  PROVE  IInv'
  <1>1. /\ unmarked' \in [Replicas -> SUBSET Families]
        /\ \A p \in Replicas : unmarked'[p] \subseteq unmarked[p] \cup {f}
    BY DEF Revoke, IInv, TypeOK
  <1>2. closed' = closed \cup {f} /\ live' \cup closed' = live \cup closed
    BY DEF Revoke
  <1>3. TypeOK'
    BY <1>1 DEF Revoke, listening, IInv, TypeOK
  <1>4. ClosedInv'
    BY <1>1, <1>2 DEF Revoke, listening, IInv, ClosedInv
  <1>5. TokenInv'
    BY CacheUntouched DEF Revoke, listening
  <1>6. QED
    BY <1>3, <1>4, <1>5 DEF IInv

\* Logout's family is live or was revoked: the replica accepts a token of it.
LEMMA LogoutStep ==
  ASSUME IInv, NEW r \in Replicas, NEW f \in Families, Logout(r, f) \/ RevokeMySession(r, f)
  PROVE  IInv'
  <1>1. f \in live \cup closed /\ Revoke(r, f)
    BY DEF Logout, RevokeMySession, IInv, ClosedInv
  <1>2. QED
    BY <1>1, RevokeStep

LEMMA ReuseStep ==
  ASSUME IInv, NEW r \in Replicas, NEW f \in Families, Reuse(r, f)
  PROVE  IInv'
  <1> DEFINE L == {p \in Replicas : conn[p] = "listening"}
  <1>1. /\ f \in spent /\ live' = live \ {f}
        /\ closed' = closed \cup {f} /\ published' = published \cup {f}
        /\ unmarked' = [unmarked EXCEPT ![r] = @ \cup {f}]
        /\ inbox' = [p \in Replicas |-> IF p \in L THEN inbox[p] \cup {f} ELSE inbox[p]]
        /\ tokens' = {IF t.family = f THEN [t EXCEPT !.owed = L] ELSE t : t \in tokens}
        /\ UNCHANGED <<spent, slot, marks, age, down, conn>>
    BY DEF Reuse
  <1>2. L \subseteq Replicas /\ \A p \in L : conn[p] = "listening"
    OBVIOUS
  <1>3. ASSUME NEW t \in tokens
        PROVE  LET u == IF t.family = f THEN [t EXCEPT !.owed = L] ELSE t
               IN  /\ u \in Token
                   /\ u.family = t.family /\ u.life = t.life /\ u.told = t.told
                   /\ u.owed = IF t.family = f THEN L ELSE t.owed
    <2>1. t \in Token
      BY DEF IInv, TypeOK
    <2>2. CASE t.family = f
      BY <1>2, <2>1, <2>2 DEF Token
    <2>3. CASE t.family # f
      BY <2>1, <2>3
    <2>4. QED
      BY <2>2, <2>3
  <1>4. /\ tokens' \subseteq Token
        /\ \A u \in tokens' : \E t \in tokens :
              /\ u.family = t.family /\ u.life = t.life /\ u.told = t.told
              /\ u.owed = IF t.family = f THEN L ELSE t.owed
    BY <1>1, <1>3
  <1>5. /\ inbox' \in [Replicas -> SUBSET Families]
        /\ \A p \in Replicas : inbox[p] \subseteq inbox'[p] /\ inbox'[p] \subseteq inbox[p] \cup {f}
        /\ \A p \in L : f \in inbox'[p]
        /\ \A p \in Replicas : conn[p] # "listening" => inbox'[p] = {}
        /\ unmarked' \in [Replicas -> SUBSET Families]
        /\ \A p \in Replicas : unmarked'[p] \subseteq unmarked[p] \cup {f}
    BY <1>1, <1>2 DEF IInv, TypeOK
  <1> HIDE DEF L
  <1>6. TypeOK'
    BY <1>1, <1>4, <1>5 DEF IInv, TypeOK
  <1>7. ClosedInv'
    BY <1>1, <1>4, <1>5 DEF IInv, ClosedInv
  <1>8. ASSUME NEW u \in tokens'
        PROVE  /\ \A p \in u.told : marks[p][u.family] >= u.life \/ age[p] + u.life <= TTL
               /\ \A p \in u.owed : u.family \in inbox'[p] \/ p \in u.told
    <2>1. PICK t \in tokens :
              /\ u.family = t.family /\ u.life = t.life /\ u.told = t.told
              /\ u.owed = IF t.family = f THEN L ELSE t.owed
      BY <1>4
    <2>2. t.owed \subseteq Replicas
      BY DEF IInv, TypeOK, Token
    <2>3. QED
      BY <1>5, <2>1, <2>2 DEF IInv, TokenInv
  <1>9. QED
    BY <1>1, <1>6, <1>7, <1>8 DEF IInv, TokenInv

LEMMA BreakStep ==
  ASSUME IInv, NEW r \in Replicas, Break(r)
  PROVE  IInv'
  <1>1. ASSUME NEW t \in tokens
        PROVE  LET u == [t EXCEPT !.owed = @ \ {r}]
               IN  /\ u \in Token /\ u.family = t.family /\ u.life = t.life
                   /\ u.owed = t.owed \ {r} /\ u.told = t.told
    BY DEF IInv, TypeOK, Token
  <1>2. /\ tokens' \subseteq Token
        /\ \A u \in tokens' : \E t \in tokens :
              /\ u.family = t.family /\ u.life = t.life
              /\ u.owed = t.owed \ {r} /\ u.told = t.told
    BY <1>1 DEF Break
  <1>3. /\ inbox' \in [Replicas -> SUBSET Families] /\ inbox'[r] = {}
        /\ conn' \in [Replicas -> Conns]
        /\ \A p \in Replicas \ {r} : inbox'[p] = inbox[p] /\ conn'[p] = conn[p]
    BY DEF Break, Conns, IInv, TypeOK
  <1>4. UNCHANGED <<live, spent, slot, unmarked, marks, age, down, closed, published>>
    BY DEF Break, tables, process, history
  <1>5. TypeOK'
    BY <1>2, <1>3, <1>4 DEF IInv, TypeOK
  <1>6. ClosedInv'
    BY <1>2, <1>3, <1>4 DEF IInv, ClosedInv
  <1>7. ASSUME NEW u \in tokens'
        PROVE  /\ \A p \in u.told : marks[p][u.family] >= u.life \/ age[p] + u.life <= TTL
               /\ \A p \in u.owed : u.family \in inbox'[p] \/ p \in u.told
    <2>1. PICK t \in tokens :
              /\ u.family = t.family /\ u.life = t.life
              /\ u.owed = t.owed \ {r} /\ u.told = t.told
      BY <1>2
    <2>2. t.owed \subseteq Replicas
      BY DEF IInv, TypeOK, Token
    <2>3. QED
      BY <1>3, <2>1, <2>2 DEF IInv, TokenInv
  <1>8. QED
    BY <1>4, <1>5, <1>6, <1>7 DEF IInv, TokenInv

LEMMA ListenStep ==
  ASSUME IInv, NEW r \in Replicas, ListenFails(r) \/ ListenSucceeds(r)
  PROVE  IInv'
  <1>1. 0 \in Healthy..(TTL + 1) /\ Healthy \in Healthy..(TTL + 1)
    BY CacheAssumption DEF Healthy
  <1>2. /\ conn' \in [Replicas -> Conns] /\ down' \in [Replicas -> Healthy..(TTL + 1)]
        /\ \A p \in Replicas \ {r} : conn'[p] = conn[p]
    BY <1>1 DEF ListenFails, ListenSucceeds, Conns, IInv, TypeOK
  <1>3. /\ UNCHANGED <<live, spent, slot, tokens, unmarked, marks, age, inbox, closed, published>>
        /\ conn[r] # "listening"
    BY DEF ListenFails, ListenSucceeds, tables, history
  <1>4. TypeOK'
    BY <1>2, <1>3 DEF IInv, TypeOK
  <1>5. TokenInv' /\ ClosedInv'
    BY <1>3 DEF IInv, TokenInv, ClosedInv
  <1>6. QED
    BY <1>4, <1>5 DEF IInv

LEMMA RestartStep ==
  ASSUME IInv, NEW r \in Replicas, Restart(r)
  PROVE  IInv'
  <1> DEFINE told(t) == IF t.family \in live THEN t.told ELSE t.told \cup {r}
             after(t) == [t EXCEPT !.owed = @ \ {r}, !.told = told(t)]
  <1>1. ASSUME NEW t \in tokens
        PROVE  /\ after(t) \in Token /\ after(t).family = t.family /\ after(t).life = t.life
               /\ after(t).owed = t.owed \ {r}
               /\ t.told \subseteq after(t).told /\ after(t).told \subseteq t.told \cup {r}
    <2>1. t \in Token
      BY DEF IInv, TypeOK
    <2>2. told(t) \in SUBSET Replicas /\ t.told \subseteq told(t)
          /\ told(t) \subseteq t.told \cup {r}
      BY <2>1 DEF Token
    <2> HIDE DEF told
    <2>3. QED
      BY <2>1, <2>2 DEF Token
  <1>2. /\ tokens' \subseteq Token
        /\ \A u \in tokens' : \E t \in tokens :
              /\ u.family = t.family /\ u.life = t.life /\ u.owed = t.owed \ {r}
              /\ t.told \subseteq u.told /\ u.told \subseteq t.told \cup {r}
    <2>1. tokens' = {after(t) : t \in tokens}
      BY DEF Restart
    <2> HIDE DEF after, told
    <2>2. QED
      BY <1>1, <2>1
  <1> HIDE DEF after, told
  <1>3. /\ inbox' \in [Replicas -> SUBSET Families] /\ inbox'[r] = {}
        /\ unmarked' \in [Replicas -> SUBSET Families] /\ unmarked'[r] = {}
        /\ conn' \in [Replicas -> Conns]
        /\ \A p \in Replicas \ {r} :
              inbox'[p] = inbox[p] /\ conn'[p] = conn[p] /\ unmarked'[p] = unmarked[p]
    BY DEF Restart, Conns, IInv, TypeOK
  <1>4. /\ marks' \in [Replicas -> [Families -> Absent..TTL]]
        /\ age' \in [Replicas -> 0..TTL] /\ down' \in [Replicas -> Healthy..(TTL + 1)]
        /\ age'[r] = 0 /\ \A f \in Families : marks'[r][f] = Absent
        /\ \A p \in Replicas \ {r} : marks'[p] = marks[p] /\ age'[p] = age[p]
    <2>1. 0 \in 0..TTL /\ Healthy \in Healthy..(TTL + 1) /\ Absent \in Absent..TTL
      BY CacheAssumption DEF Healthy, Absent
    <2>2. [f \in Families |-> Absent] \in [Families -> Absent..TTL]
      BY <2>1
    <2>3. /\ marks' = [marks EXCEPT ![r] = [f \in Families |-> Absent]]
          /\ age' = [age EXCEPT ![r] = 0] /\ down' = [down EXCEPT ![r] = Healthy]
      BY DEF Restart
    <2>4. QED
      BY <2>1, <2>2, <2>3 DEF IInv, TypeOK
  <1>5. UNCHANGED <<live, spent, slot, closed, published>>
    BY DEF Restart, tables, history
  <1>6. TypeOK'
    <2>1. \A p \in Replicas : conn'[p] # "listening" => inbox'[p] = {}
      BY <1>3 DEF IInv, TypeOK
    <2>2. live' \subseteq Families /\ spent' \subseteq Families /\ slot' \in [Slots -> Slot]
          /\ closed' \subseteq spent' /\ published' \subseteq closed'
      BY <1>5 DEF IInv, TypeOK
    <2>3. QED
      BY <1>2, <1>3, <1>4, <2>1, <2>2 DEF TypeOK
  <1>7. ClosedInv'
    <2>1. \A t \in tokens' : t.family \in live' \cup closed'
      BY <1>2, <1>5 DEF IInv, ClosedInv
    <2>2. \A p \in Replicas : unmarked'[p] \cup inbox'[p] \subseteq closed'
      BY <1>3, <1>5 DEF IInv, ClosedInv
    <2>3. \A p \in Replicas, f \in Families : marks'[p][f] # Absent => f \in closed'
      BY <1>4, <1>5 DEF IInv, ClosedInv
    <2>4. QED
      BY <1>5, <2>1, <2>2, <2>3 DEF IInv, ClosedInv
  <1>8. ASSUME NEW u \in tokens'
        PROVE  /\ \A p \in u.told : marks'[p][u.family] >= u.life \/ age'[p] + u.life <= TTL
               /\ \A p \in u.owed : u.family \in inbox'[p] \/ p \in u.told
    <2>1. PICK t \in tokens :
              /\ u.family = t.family /\ u.life = t.life /\ u.owed = t.owed \ {r}
              /\ t.told \subseteq u.told /\ u.told \subseteq t.told \cup {r}
      BY <1>2
    <2>2. t.owed \subseteq Replicas /\ t.told \subseteq Replicas /\ t.life \in 1..TTL
      BY DEF IInv, TypeOK, Token
    <2>3. ASSUME NEW p \in u.told
          PROVE  marks'[p][u.family] >= u.life \/ age'[p] + u.life <= TTL
      <3>1. CASE p = r
        BY <1>4, <2>1, <2>2, <3>1, CacheAssumption
      <3>2. CASE p # r
        BY <1>4, <2>1, <2>2, <2>3, <3>2 DEF IInv, TokenInv
      <3>3. QED
        BY <3>1, <3>2
    <2>4. ASSUME NEW p \in u.owed
          PROVE  u.family \in inbox'[p] \/ p \in u.told
      BY <1>3, <2>1, <2>2, <2>4 DEF IInv, TokenInv
    <2>5. QED
      BY <2>3, <2>4
  <1>9. QED
    BY <1>6, <1>7, <1>8 DEF IInv, TokenInv

\* Time takes as much from a token as from the mark that covers it, and gives as much
\* to the age of the process.
LEMMA TickStep ==
  ASSUME IInv, Tick
  PROVE  IInv'
  <1>1. TTL \in Nat \ {0}
    BY CacheAssumption
  <1>2. ASSUME NEW t \in tokens, t.life > 1
        PROVE  LET u == [t EXCEPT !.life = @ - 1]
               IN  /\ u \in Token /\ u.family = t.family /\ u.life = t.life - 1
                   /\ u.owed = t.owed /\ u.told = t.told
    <2>1. t \in Token
      BY DEF IInv, TypeOK
    <2>2. t.life \in 1..TTL
      BY <2>1 DEF Token
    <2>3. t.life - 1 \in 1..TTL
      BY <1>1, <1>2, <2>2
    <2>4. QED
      BY <2>1, <2>3 DEF Token
  <1>3. /\ tokens' \subseteq Token
        /\ \A u \in tokens' : \E t \in tokens :
              /\ u.family = t.family /\ u.life = t.life - 1
              /\ u.owed = t.owed /\ u.told = t.told
    BY <1>2 DEF Tick
  <1>4. marks \in [Replicas -> [Families -> Absent..TTL]] /\ age \in [Replicas -> 0..TTL]
        /\ down \in [Replicas -> Healthy..(TTL + 1)]
    BY DEF IInv, TypeOK
  <1>5. /\ marks' \in [Replicas -> [Families -> Absent..TTL]]
        /\ \A p \in Replicas, f \in Families :
              /\ marks'[p][f] >= marks[p][f] - 1
              /\ marks'[p][f] # Absent => marks[p][f] # Absent
    BY <1>1, <1>4 DEF Tick, Absent
  <1>6. /\ age' \in [Replicas -> 0..TTL]
        /\ \A p \in Replicas : age'[p] <= age[p] + 1
    <2>1. ASSUME NEW p \in Replicas
          PROVE  LET a == IF age[p] = TTL THEN TTL ELSE age[p] + 1
                 IN  a \in 0..TTL /\ a <= age[p] + 1
      <3>1. age[p] \in 0..TTL
        BY <1>4
      <3>2. QED
        BY <1>1, <3>1
    <2>2. age' = [p \in Replicas |-> IF age[p] = TTL THEN TTL ELSE age[p] + 1]
      BY DEF Tick
    <2>3. QED
      BY <2>1, <2>2
  <1>7. down' \in [Replicas -> Healthy..(TTL + 1)]
    <2>1. ASSUME NEW p \in Replicas
          PROVE  (IF down[p] \in {Healthy, TTL + 1} THEN down[p] ELSE down[p] + 1)
                    \in Healthy..(TTL + 1)
      <3>1. down[p] \in Healthy..(TTL + 1)
        BY <1>4
      <3>2. QED
        BY <1>1, <3>1 DEF Healthy
    <2>2. down' = [p \in Replicas |->
                     IF down[p] \in {Healthy, TTL + 1} THEN down[p] ELSE down[p] + 1]
      BY DEF Tick
    <2>3. QED
      BY <2>1, <2>2
  <1>8. UNCHANGED <<live, spent, slot, unmarked, conn, inbox, closed, published>>
    BY DEF Tick, tables, listening, history
  <1>9. TypeOK'
    BY <1>3, <1>5, <1>6, <1>7, <1>8 DEF IInv, TypeOK
  <1>10. ClosedInv'
    BY <1>3, <1>5, <1>8 DEF IInv, ClosedInv
  <1>11. ASSUME NEW u \in tokens'
         PROVE  /\ \A p \in u.told : marks'[p][u.family] >= u.life \/ age'[p] + u.life <= TTL
                /\ \A p \in u.owed : u.family \in inbox[p] \/ p \in u.told
    <2>1. PICK t \in tokens :
              /\ u.family = t.family /\ u.life = t.life - 1
              /\ u.owed = t.owed /\ u.told = t.told
      BY <1>3
    <2>2. t.told \subseteq Replicas /\ t.life \in 1..TTL /\ t.family \in Families
      BY DEF IInv, TypeOK, Token
    <2>3. ASSUME NEW p \in u.told
          PROVE  marks'[p][u.family] >= u.life \/ age'[p] + u.life <= TTL
      <3>1. /\ p \in Replicas /\ marks[p][t.family] \in Absent..TTL /\ age[p] \in 0..TTL
            /\ marks'[p][t.family] \in Absent..TTL /\ age'[p] \in 0..TTL
        BY <1>4, <1>5, <1>6, <2>1, <2>2, <2>3
      <3>2. marks[p][t.family] >= t.life \/ age[p] + t.life <= TTL
        BY <2>1, <2>3 DEF IInv, TokenInv
      <3>3. marks'[p][t.family] >= marks[p][t.family] - 1 /\ age'[p] <= age[p] + 1
        BY <1>5, <1>6, <2>2, <3>1
      <3>4. QED
        BY <1>1, <2>1, <2>2, <3>1, <3>2, <3>3 DEF Absent
    <2>4. QED
      BY <2>1, <2>3 DEF IInv, TokenInv
  <1>12. QED
    BY <1>8, <1>9, <1>10, <1>11 DEF IInv, TokenInv

-----------------------------------------------------------------------------
LEMMA InitIInv == Init => IInv
  <1> SUFFICES ASSUME Init PROVE IInv
    OBVIOUS
  <1>1. TypeOK
    <2>1. Absent \in Absent..TTL /\ 0 \in 0..TTL /\ Healthy \in Healthy..(TTL + 1)
      BY CacheAssumption DEF Absent, Healthy
    <2>2. slot \in [Slots -> Slot]
      BY CacheAssumption, FreeIsSlot DEF Init
    <2>3. QED
      BY <2>1, <2>2 DEF Init, TypeOK, Conns
  <1>2. Free.stage = "free"
    BY DEF Free
  <1>3. TokenInv /\ ClosedInv
    BY <1>2 DEF Init, TokenInv, ClosedInv
  <1>4. QED
    BY <1>1, <1>3 DEF IInv

LEMMA NextStep == IInv /\ [Next]_vars => IInv'
  <1> SUFFICES ASSUME IInv, [Next]_vars PROVE IInv'
    OBVIOUS
  <1>1. CASE UNCHANGED vars
    BY <1>1 DEF vars, IInv, TypeOK, TokenInv, ClosedInv
  <1>2. ASSUME NEW s \in Slots, NEW f \in Families, Login(s, f) \/ RotateBegin(s, f)
        PROVE  IInv'
    BY <1>2, LoginStep, RotateBeginStep
  <1>3. ASSUME NEW s \in Slots, RotateCommit(s) \/ Sign(s) \/ Fail(s)
        PROVE  IInv'
    BY <1>3, RotateCommitStep, SignStep, FailStep
  <1>4. ASSUME NEW r \in Replicas, NEW f \in Families,
               Logout(r, f) \/ RevokeMySession(r, f) \/ Reuse(r, f)
        PROVE  IInv'
    BY <1>4, LogoutStep, ReuseStep
  <1>5. ASSUME NEW r \in Replicas, NEW f \in Families, MarkOwn(r, f) \/ Receive(r, f)
        PROVE  IInv'
    <2>1. f \in closed
      BY <1>5 DEF MarkOwn, Receive, IInv, ClosedInv
    <2>2. CASE MarkOwn(r, f)
      BY <2>1, <2>2, MarkStep DEF MarkOwn, tables, listening, history
    <2>3. CASE Receive(r, f)
      BY <2>1, <2>3, MarkStep DEF Receive, tables, history
    <2>4. QED
      BY <1>5, <2>2, <2>3
  <1>6. ASSUME NEW r \in Replicas,
               Break(r) \/ ListenFails(r) \/ ListenSucceeds(r) \/ Restart(r)
        PROVE  IInv'
    BY <1>6, BreakStep, ListenStep, RestartStep
  <1>7. CASE Tick
    BY <1>7, TickStep
  <1>8. QED
    BY <1>1, <1>2, <1>3, <1>4, <1>5, <1>6, <1>7 DEF Next

\* The caches' inductive invariant: marks outlast the tokens they are about, young
\* processes fall back until those of before have expired, and only revoked families
\* are marked.
THEOREM Invariance == Spec => []IInv
  BY InitIInv, NextStep, PTL DEF Spec

\* Type correctness of the caches, connections, tokens and table.
THEOREM TypeCorrect == Spec => []TypeOK
  <1>1. IInv => TypeOK
    BY DEF IInv
  <1>2. QED
    BY <1>1, Invariance, PTL

LEMMA ToldRejects == IInv => ToldReplicaRejects
  <1> SUFFICES ASSUME IInv, NEW t \in tokens, t.family \notin live, NEW r \in t.told
               PROVE  IsRevoked(r, t.family)
    BY DEF ToldReplicaRejects, Accepts
  <1>1. t \in Token /\ t.life \in 1..TTL /\ t.family \in Families /\ r \in Replicas
    BY DEF IInv, TypeOK, Token
  <1>2. marks[r][t.family] >= t.life \/ age[r] + t.life <= TTL
    BY DEF IInv, TokenInv
  <1>3. marks[r][t.family] \in Absent..TTL /\ age[r] \in 0..TTL
    BY <1>1 DEF IInv, TypeOK
  <1>4. marks[r][t.family] # Absent \/ age[r] < TTL
    BY <1>1, <1>2, <1>3, CacheAssumption DEF Absent
  <1>5. QED
    BY <1>4 DEF IsRevoked, Fallback

\* A replica that was told of a revocation refuses the family's tokens until they
\* expire, across outages, restarts and the end of the mark (MarkRevoked, IsRevoked).
THEOREM ToldReplicaRejectsHolds == Spec => []ToldReplicaRejects
  BY Invariance, ToldRejects, PTL

LEMMA ListenersRefuse == IInv => PublishedReachesListeners
  <1> SUFFICES ASSUME IInv, NEW t \in tokens, t.family \notin live, NEW r \in t.owed,
                      t.family \notin inbox[r]
               PROVE  ~Accepts(r, t)
    BY DEF PublishedReachesListeners
  <1>1. r \in t.told
    BY DEF IInv, TokenInv
  <1>2. QED
    BY <1>1, ToldRejects DEF ToldReplicaRejects

\* A reuse published while a replica listens is in force there once it is received.
THEOREM PublishedReachesListenersHolds == Spec => []PublishedReachesListeners
  BY Invariance, ListenersRefuse, PTL

LEMMA OthersAccepted == IInv => UnrevokedAccepted
  <1> SUFFICES ASSUME IInv, NEW t \in tokens, t.family \notin closed, NEW r \in Replicas
               PROVE  ~IsRevoked(r, t.family)
    BY DEF UnrevokedAccepted, Accepts
  <1>1. t.family \in Families
    BY DEF IInv, TypeOK, Token
  <1>2. t.family \in live /\ marks[r][t.family] = Absent
    BY <1>1 DEF IInv, ClosedInv
  <1>3. QED
    BY <1>2 DEF IsRevoked

\* The caches refuse no token of a family that no request has revoked.
THEOREM UnrevokedAcceptedHolds == Spec => []UnrevokedAccepted
  BY Invariance, OthersAccepted, PTL
=============================================================================
