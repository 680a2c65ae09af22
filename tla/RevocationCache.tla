--------------------------- MODULE RevocationCache ---------------------------
(***************************************************************************)
(* The revocation caches of the serve replicas: what stops a revoked        *)
(* family's access token, which stays valid on its own for TTL after it was *)
(* signed.  A family is here what the sessions table says of it: it has a   *)
(* live row or it has none.                                                 *)
(*                                                                         *)
(* Times are kept relative to now, so that the clock needs no bound: what a  *)
(* token has left to live, what a mark has left, how long a process has been *)
(* up (TTL stands for TTL or more) and how long its LISTEN has been down     *)
(* (TTL + 1 stands for more than TTL).                                       *)
(***************************************************************************)
EXTENDS Integers, FiniteSets

CONSTANTS
    Replicas,  \* serve processes
    Families,  \* family_id values, the sid of access tokens
    Slots,     \* logins and refreshes in flight at once
    TTL,       \* token.AccessTTL, in ticks
    MaxTokens  \* bound on the access tokens alive at once

ASSUME CacheAssumption ==
    /\ Families # {}
    /\ TTL \in Nat \ {0}
    /\ MaxTokens \in Nat

VARIABLES
    live,       \* families with a row whose revoked_at is null
    spent,      \* families with a revoked row, so with a token whose use is a reuse
    slot,       \* the login or refresh of every slot
    tokens,     \* signed access tokens that have not expired
    unmarked,   \* families a handler of a replica has revoked and is about to mark
    marks,      \* RevocationCache.revoked: what every mark has left, or Absent
    age,        \* time since startedAt
    down,       \* time since listenDownSince, or Healthy
    conn,       \* the replica's LISTEN connection
    inbox,      \* notifications sent on it and not yet received
    closed,     \* history: families some request has revoked as a whole
    published   \* history: those whose last revocation was notified

tables == <<live, spent, slot>>
process == <<unmarked, marks, age, down>>
listening == <<conn, inbox>>
history == <<closed, published>>
vars == <<live, spent, slot, tokens, unmarked, marks, age, down, conn, inbox,
          closed, published>>

-----------------------------------------------------------------------------
Absent == -1    \* no mark for the family
Healthy == -1   \* listenDownSince is the zero time

Conns == {"connecting", "listening", "broken"}

\* Besides the sid and the time it has left, an access token carries two history
\* fields no step reads: `told`, the replicas that have marked its family or have
\* started since its family died, after it was signed; and `owed`, the replicas
\* that were listening when its family's revocation was published, and still are.
Token == [family: Families, life: 1..TTL, told: SUBSET Replicas, owed: SUBSET Replicas]

Slot == [stage: {"free", "rotating", "sign"}, family: Families]

TypeOK ==
    /\ live \subseteq Families
    /\ spent \subseteq Families
    /\ slot \in [Slots -> Slot]
    /\ tokens \subseteq Token
    /\ unmarked \in [Replicas -> SUBSET Families]
    /\ marks \in [Replicas -> [Families -> Absent..TTL]]
    /\ age \in [Replicas -> 0..TTL]
    /\ down \in [Replicas -> Healthy..(TTL + 1)]
    /\ conn \in [Replicas -> Conns]
    /\ inbox \in [Replicas -> SUBSET Families]
    /\ \A r \in Replicas : conn[r] # "listening" => inbox[r] = {}
    /\ closed \subseteq spent
    /\ published \subseteq closed

Free == [stage |-> "free", family |-> CHOOSE f \in Families : TRUE]

Init ==
    /\ live = {} /\ spent = {} /\ tokens = {}
    /\ slot = [s \in Slots |-> Free]
    /\ unmarked = [r \in Replicas |-> {}]
    /\ marks = [r \in Replicas |-> [f \in Families |-> Absent]]
    /\ age = [r \in Replicas |-> 0]
    /\ down = [r \in Replicas |-> Healthy]
    /\ conn = [r \in Replicas |-> "connecting"]
    /\ inbox = [r \in Replicas |-> {}]
    /\ closed = {} /\ published = {}

-----------------------------------------------------------------------------
(* IsRevoked, and the bearer check that asks it.                           *)

\* Mutant: the map is trusted from the first request on.
FallbackAfterOutageOnly(r) == down[r] > TTL

\* The map is not trusted in the first TTL of a process nor when its LISTEN has
\* been down for longer than TTL: the sessions table is asked instead.
Fallback(r) == age[r] < TTL \/ down[r] > TTL

IsRevoked(r, f) == IF Fallback(r) THEN f \notin live ELSE marks[r][f] # Absent

\* Deps.authenticate: a token that has not expired and whose family is not revoked.
Accepts(r, t) == t \in tokens /\ ~IsRevoked(r, t.family)

-----------------------------------------------------------------------------
(* The sessions table and the tokens signed from it.                       *)

\* A login has committed the first row of a fresh family; its access token is
\* signed afterwards.
Login(s, f) ==
    /\ slot[s].stage = "free"
    /\ f \notin live \cup spent
    /\ live' = live \cup {f}
    /\ slot' = [slot EXCEPT ![s] = [stage |-> "sign", family |-> f]]
    /\ UNCHANGED <<spent, tokens, process, listening, history>>

\* Rotate has read a live row and passed its revoked_at and expiry checks.
RotateBegin(s, f) ==
    /\ slot[s].stage = "free"
    /\ f \in live
    /\ slot' = [slot EXCEPT ![s] = [stage |-> "rotating", family |-> f]]
    /\ UNCHANGED <<live, spent, tokens, process, listening, history>>

\* Mutant: the old row is revoked, its successor is not inserted.
RotateCommitRetireOnly(s) ==
    /\ slot[s].stage = "rotating"
    /\ live' = live \ {slot[s].family}
    /\ spent' = spent \cup {slot[s].family}
    /\ slot' = [slot EXCEPT ![s].stage = "sign"]
    /\ UNCHANGED <<tokens, process, listening, history>>

\* Its commit leaves the family with a live row, also when the family has been
\* revoked meanwhile.
RotateCommit(s) ==
    /\ slot[s].stage = "rotating"
    /\ live' = live \cup {slot[s].family}
    /\ spent' = spent \cup {slot[s].family}
    /\ slot' = [slot EXCEPT ![s].stage = "sign"]
    /\ UNCHANGED <<tokens, process, listening, history>>

\* IssueAccess, after the commit: the family may be revoked by now.  MaxTokens
\* bounds the model.
Sign(s) ==
    /\ slot[s].stage = "sign"
    /\ Cardinality(tokens) < MaxTokens
    /\ tokens' = tokens \cup
           {[family |-> slot[s].family, life |-> TTL, told |-> {}, owed |-> {}]}
    /\ slot' = [slot EXCEPT ![s] = Free]
    /\ UNCHANGED <<live, spent, process, listening, history>>

\* The rotation is rolled back, or the process stops before it has signed.
Fail(s) ==
    /\ slot[s].stage # "free"
    /\ slot' = [slot EXCEPT ![s] = Free]
    /\ UNCHANGED <<live, spent, tokens, process, listening, history>>

\* RevokeSessionFamily as a statement of its own, in a handler of replica r that
\* marks the family next.  It sends no notification.
Revoke(r, f) ==
    /\ live' = live \ {f}
    /\ spent' = IF f \in live THEN spent \cup {f} ELSE spent
    /\ closed' = IF f \in live THEN closed \cup {f} ELSE closed
    /\ published' = IF f \in live THEN published \ {f} ELSE published
    /\ unmarked' = [unmarked EXCEPT ![r] = @ \cup {f}]
    /\ UNCHANGED <<slot, tokens, marks, age, down, listening>>

\* POST /v1/auth/logout with an access token the replica accepts.
Logout(r, f) ==
    /\ \E t \in tokens : t.family = f /\ Accepts(r, t)
    /\ Revoke(r, f)

\* DELETE /v1/me/sessions/{id}: any accepted token of the user, a live family.
RevokeMySession(r, f) ==
    /\ \E t \in tokens : Accepts(r, t)
    /\ f \in live
    /\ Revoke(r, f)

\* A revoked refresh token is presented: the family's rows are revoked and
\* session_revoked is notified in one transaction, so every connection that
\* listens at the commit gets it, this replica's own too.
Reuse(r, f) ==
    LET listeners == {p \in Replicas : conn[p] = "listening"} IN
    /\ f \in spent
    /\ live' = live \ {f}
    /\ closed' = closed \cup {f}
    /\ published' = published \cup {f}
    /\ unmarked' = [unmarked EXCEPT ![r] = @ \cup {f}]
    /\ inbox' = [p \in Replicas |-> IF p \in listeners THEN inbox[p] \cup {f} ELSE inbox[p]]
    /\ tokens' = {IF t.family = f THEN [t EXCEPT !.owed = listeners] ELSE t : t \in tokens}
    /\ UNCHANGED <<spent, slot, marks, age, down, conn>>

-----------------------------------------------------------------------------
(* The caches.                                                             *)

\* Mutant: a second mark of a family extends the first.
MarkRevokedExtends(r, f) ==
    /\ marks' = [marks EXCEPT ![r][f] = IF @ = Absent THEN TTL ELSE @ + TTL]
    /\ tokens' = {IF t.family = f THEN [t EXCEPT !.told = @ \cup {r}] ELSE t : t \in tokens}

\* MarkRevoked on replica r.
MarkRevoked(r, f) ==
    /\ marks' = [marks EXCEPT ![r][f] = TTL]
    /\ tokens' = {IF t.family = f THEN [t EXCEPT !.told = @ \cup {r}] ELSE t : t \in tokens}

\* The handler that revoked the family marks it before it answers.
MarkOwn(r, f) ==
    /\ f \in unmarked[r]
    /\ MarkRevoked(r, f)
    /\ unmarked' = [unmarked EXCEPT ![r] = @ \ {f}]
    /\ UNCHANGED <<tables, age, down, listening, history>>

\* Mutant: a notification whose payload the loop does not recognise is skipped.
ReceiveUnparsed(r, f) ==
    /\ f \in inbox[r]
    /\ inbox' = [inbox EXCEPT ![r] = @ \ {f}]
    /\ UNCHANGED <<tables, tokens, process, conn, history>>

\* The LISTEN loop receives a notification.
Receive(r, f) ==
    /\ f \in inbox[r]
    /\ MarkRevoked(r, f)
    /\ inbox' = [inbox EXCEPT ![r] = @ \ {f}]
    /\ UNCHANGED <<tables, unmarked, age, down, conn, history>>

\* The connection is lost and with it what was sent and not received; the process
\* has not noticed yet.
Break(r) ==
    /\ conn[r] = "listening"
    /\ conn' = [conn EXCEPT ![r] = "broken"]
    /\ inbox' = [inbox EXCEPT ![r] = {}]
    /\ tokens' = {[t EXCEPT !.owed = @ \ {r}] : t \in tokens}
    /\ UNCHANGED <<tables, process, history>>

\* listenOnce returns an error, from a lost connection or from a failed attempt to
\* connect: MarkListenDown starts the outage unless one is running.
ListenFails(r) ==
    /\ conn[r] # "listening"
    /\ conn' = [conn EXCEPT ![r] = "connecting"]
    /\ down' = [down EXCEPT ![r] = IF @ = Healthy THEN 0 ELSE @]
    /\ UNCHANGED <<tables, tokens, unmarked, marks, age, inbox, history>>

\* LISTEN succeeds: MarkListenHealthy ends the outage.
ListenSucceeds(r) ==
    /\ conn[r] = "connecting"
    /\ conn' = [conn EXCEPT ![r] = "listening"]
    /\ down' = [down EXCEPT ![r] = Healthy]
    /\ UNCHANGED <<tables, tokens, unmarked, marks, age, inbox, history>>

\* The process stops and starts again with an empty map.
Restart(r) ==
    /\ marks' = [marks EXCEPT ![r] = [f \in Families |-> Absent]]
    /\ age' = [age EXCEPT ![r] = 0]
    /\ down' = [down EXCEPT ![r] = Healthy]
    /\ unmarked' = [unmarked EXCEPT ![r] = {}]
    /\ conn' = [conn EXCEPT ![r] = "connecting"]
    /\ inbox' = [inbox EXCEPT ![r] = {}]
    /\ tokens' = {[t EXCEPT !.owed = @ \ {r},
                            !.told = IF t.family \in live THEN @ ELSE @ \cup {r}] :
                  t \in tokens}
    /\ UNCHANGED <<tables, history>>

\* A tick passes: a token ends when nothing is left of it (exp is not after now),
\* a mark one tick later (prune keeps it while now is not after its expiry).
Tick ==
    /\ tokens' = {[t EXCEPT !.life = @ - 1] : t \in {u \in tokens : u.life > 1}}
    /\ marks' = [r \in Replicas |-> [f \in Families |->
                    IF marks[r][f] = Absent THEN Absent ELSE marks[r][f] - 1]]
    /\ age' = [r \in Replicas |-> IF age[r] = TTL THEN TTL ELSE age[r] + 1]
    /\ down' = [r \in Replicas |->
                    IF down[r] \in {Healthy, TTL + 1} THEN down[r] ELSE down[r] + 1]
    /\ UNCHANGED <<tables, unmarked, listening, history>>

-----------------------------------------------------------------------------
Next ==
    \/ \E s \in Slots :
        \/ \E f \in Families : Login(s, f) \/ RotateBegin(s, f)
        \/ RotateCommit(s) \/ Sign(s) \/ Fail(s)
    \/ \E r \in Replicas :
        \/ \E f \in Families :
            \/ Logout(r, f) \/ RevokeMySession(r, f) \/ Reuse(r, f)
            \/ MarkOwn(r, f) \/ Receive(r, f)
        \/ Break(r) \/ ListenFails(r) \/ ListenSucceeds(r) \/ Restart(r)
    \/ Tick

Spec == Init /\ [][Next]_vars

-----------------------------------------------------------------------------
\* A replica that has marked a family, on its own or on a notification, or that
\* has started since the family died, accepts no token of it signed before that as
\* long as the family has no live row: not when the mark ends, not through outages,
\* and not when a restart empties the map.
ToldReplicaRejects ==
    \A t \in tokens : t.family \notin live => \A r \in t.told : ~Accepts(r, t)

\* A notification received is a revocation in force: a replica that was listening
\* when a reuse was published, and whose connection has held since, accepts no token
\* of the family signed before, once it has received what was sent to it.
PublishedReachesListeners ==
    \A t \in tokens : t.family \notin live =>
        \A r \in t.owed : t.family \notin inbox[r] => ~Accepts(r, t)

\* The cache refuses nobody else: every replica accepts the tokens of a family no
\* request has revoked, through rotations, restarts and outages.
UnrevokedAccepted ==
    \A t \in tokens : t.family \notin closed => \A r \in Replicas : Accepts(r, t)

\* What makes the three inductive.  A replica told of a token's family holds a mark
\* that outlasts the token, or is so young that it falls back to the table until the
\* token has expired; one that is owed a notification was told or has it in its inbox.
TokenInv ==
    \A t \in tokens :
        /\ \A r \in t.told : marks[r][t.family] >= t.life \/ age[r] + t.life <= TTL
        /\ \A r \in t.owed : t.family \in inbox[r] \/ r \in t.told

\* A family with a token, or about to get one, is live or was revoked; only families
\* that were revoked are marked, about to be marked or notified.
ClosedInv ==
    /\ \A t \in tokens : t.family \in live \cup closed
    /\ \A s \in Slots : slot[s].stage # "free" => slot[s].family \in live \cup closed
    /\ \A r \in Replicas : unmarked[r] \cup inbox[r] \subseteq closed
    /\ \A r \in Replicas, f \in Families : marks[r][f] # Absent => f \in closed

IInv == TypeOK /\ TokenInv /\ ClosedInv

\* Documented, and not kept (README, known divergences): "exactly when", a replica that listens and does not fall back has in
\* its map every published revocation that still matters, or is about to receive it.
TrustedMapIsComplete ==
    \A t \in tokens, r \in Replicas :
        t.family \in published \ live /\ conn[r] = "listening" /\ ~Fallback(r) =>
            \/ marks[r][t.family] # Absent
            \/ t.family \in inbox[r] \cup unmarked[r]

=============================================================================
