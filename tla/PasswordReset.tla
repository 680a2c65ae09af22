------------------------------ MODULE PasswordReset ------------------------------
(***************************************************************************)
(* Forgotten passwords: a request answers at once and leaves a goroutine   *)
(* behind that stores a token and mails its link; whoever holds the link   *)
(* sets a new password.  Neither half is a transaction: every statement is *)
(* committed on its own, and a request that fails leaves what it has done. *)
(* A login writes the same column: it renews a hash of earlier parameters. *)
(***************************************************************************)
EXTENDS Mailer

CONSTANTS
    Forgots,    \* requests for a link; the link, its token and its row have their name
    Users,      \* accounts
    Resets,     \* requests to set a password, and the passwords they set
    Logins,     \* logins with the right password of an account whose hash is of old parameters
    None,       \* no link; the first password of an account
    Lifetime,   \* resetTokenLifetime, in ticks
    MaxTime     \* bound on the clock

ASSUME PasswordResetAssumption ==
    /\ Messages = Forgots
    /\ Users # {} /\ None \notin Forgots \cup Resets
    /\ Lifetime \in Nat \ {0} /\ MaxTime \in Nat

VARIABLES
    now,       \* the clock
    token,     \* `password_reset_tokens`
    password,  \* `users.password_hash`: which password, and by which parameters
    forgot,    \* the goroutine and the request that left it
    reset,     \* the state of every request to set a password
    login,     \* the state of every login
    answered   \* history: links that were answered "accepted"

vars == <<mailVars, now, token, password, forgot, reset, login, answered>>

Times == 0..MaxTime

TokenRow == [stored: BOOLEAN, user: Users, used: BOOLEAN, expires: 0..(MaxTime + Lifetime)]
Forgot == [stage: {"ready", "store", "mail", "done"}, cancelled: BOOLEAN]

\* `late`: its link had been answered, or had expired, before it was looked up (history).
Reset == [stage: {"ready", "hash", "consume", "answer", "done"}, link: Forgots \cup {None},
          late: BOOLEAN, changed: BOOLEAN]

Login == [stage: {"ready", "rehash", "done"}, user: Users, password: Resets \cup {None}]

TypeOK ==
    /\ MailTypeOK
    /\ now \in Times
    /\ token \in [Forgots -> TokenRow]
    /\ password \in [Users -> [of: Resets \cup {None}, old: BOOLEAN]]
    /\ login \in [Logins -> Login]
    /\ forgot \in [Forgots -> Forgot]
    /\ reset \in [Resets -> Reset]
    /\ answered \subseteq Forgots

Init ==
    /\ MailInit
    /\ now = 0
    /\ token = [f \in Forgots |-> [stored |-> FALSE, user |-> CHOOSE u \in Users : TRUE,
                                   used |-> FALSE, expires |-> 0]]
    /\ password = [u \in Users |-> [of |-> None, old |-> TRUE]]
    /\ login = [l \in Logins |-> [stage |-> "ready", user |-> CHOOSE u \in Users : TRUE,
                                  password |-> None]]
    /\ forgot = [f \in Forgots |-> [stage |-> "ready", cancelled |-> FALSE]]
    /\ reset = [r \in Resets |-> [stage |-> "ready", link |-> None, late |-> FALSE,
                                  changed |-> FALSE]]
    /\ answered = {}

-----------------------------------------------------------------------------
(* The statements *)

\* Mutant: the lifetime counts from the end of another one.
InsertPasswordResetTokenLate(f) ==
    [token EXCEPT ![f].stored = TRUE, ![f].expires = now + 2 * Lifetime]

InsertPasswordResetToken(f) ==
    [token EXCEPT ![f].stored = TRUE, ![f].expires = now + Lifetime]

GetPasswordResetTokenByHash(f) == token[f].stored

Live(f) == ~token[f].used /\ token[f].expires > now

\* The hash of a password, with the parameters of today.
Hash(p) == [of |-> p, old |-> FALSE]

UpdateUserPassword(u, p) == [password EXCEPT ![u] = Hash(p)]

\* The password is right, and its hash is of other parameters than those of today.
VerifyNeedsRehash(u, p) == password[u].of = p /\ password[u].old

\* Its WHERE finds a used token unused no more; how many rows it found is not asked.
ConsumePasswordResetToken(f) == [token EXCEPT ![f].used = TRUE]

-----------------------------------------------------------------------------
(* Asking for a link *)

\* The work goes to a goroutine, with the context of the request.
Dispatch(f) == forgot' = [forgot EXCEPT ![f].stage = "store"]

\* An address without an account gets the same answer and changes nothing.
ForgotPassword(f, u) ==
    /\ phase = "up"
    /\ forgot[f].stage = "ready"
    /\ Dispatch(f)
    /\ token' = [token EXCEPT ![f].user = u]
    /\ UNCHANGED <<mailVars, now, password, reset, login, answered>>

\* The answer ends the request, and with it the context the goroutine was given.
AnswerForgot(f) ==
    /\ forgot[f].stage \in {"store", "mail"} /\ ~forgot[f].cancelled
    /\ forgot' = [forgot EXCEPT ![f].cancelled = TRUE]
    /\ UNCHANGED <<mailVars, now, token, password, reset, login, answered>>

\* Mutant: the mail goes first, the row follows.
MailThenStore(f) ==
    /\ Running /\ forgot[f].stage = "store"
    /\ SendRaw(f)
    /\ forgot' = [forgot EXCEPT ![f].stage = "mail"]
    /\ UNCHANGED <<now, token, password, reset, login, answered>>

\* A context that is cancelled meanwhile makes the INSERT fail, though it may have been done.
StoreToken(f) ==
    /\ Running /\ forgot[f].stage = "store"
    /\ \/ /\ ~forgot[f].cancelled
          /\ token' = InsertPasswordResetToken(f)
          /\ \E s \in {"mail", "done"} : forgot' = [forgot EXCEPT ![f].stage = s]
       \/ /\ forgot' = [forgot EXCEPT ![f].stage = "done"]
          /\ UNCHANGED token
    /\ UNCHANGED <<mailVars, now, password, reset, login, answered>>

\* Nobody waits for the goroutine: the mailer may be closing.
MailToken(f) ==
    /\ forgot[f].stage = "mail"
    /\ SendRaw(f) \/ SendRawPanics
    /\ forgot' = [forgot EXCEPT ![f].stage = "done"]
    /\ UNCHANGED <<now, token, password, reset, login, answered>>

-----------------------------------------------------------------------------
(* Setting a password *)

\* Any other token is refused here.
ReadToken(r, f) ==
    /\ reset[r].stage = "ready" /\ f \in inbox
    /\ GetPasswordResetTokenByHash(f) /\ Live(f)
    /\ reset' = [reset EXCEPT ![r] = [stage |-> "hash", link |-> f, changed |-> FALSE,
                                      late |-> f \in answered \/ token[f].expires <= now]]
    /\ UNCHANGED <<mailVars, now, token, password, forgot, login, answered>>

UpdatePassword(r) ==
    /\ reset[r].stage = "hash"
    /\ password' = UpdateUserPassword(token[reset[r].link].user, r)
    /\ reset' = [reset EXCEPT ![r].stage = "consume", ![r].changed = TRUE]
    /\ UNCHANGED <<mailVars, now, token, forgot, login, answered>>

\* Mutant: the answer does not wait for the token to be used up.
ConsumeNothing(r) ==
    /\ reset[r].stage = "consume"
    /\ reset' = [reset EXCEPT ![r].stage = "answer"]
    /\ UNCHANGED <<mailVars, now, token, password, forgot, login, answered>>

Consume(r) ==
    /\ reset[r].stage = "consume"
    /\ token' = ConsumePasswordResetToken(reset[r].link)
    /\ reset' = [reset EXCEPT ![r].stage = "answer"]
    /\ UNCHANGED <<mailVars, now, password, forgot, login, answered>>

AnswerReset(r) ==
    /\ reset[r].stage = "answer"
    /\ answered' = answered \cup {reset[r].link}
    /\ reset' = [reset EXCEPT ![r].stage = "done"]
    /\ UNCHANGED <<mailVars, now, token, password, forgot, login>>

\* The policy refuses, a statement fails, or the process dies: nothing is undone.
FailReset(r) ==
    /\ reset[r].stage \in {"hash", "consume", "answer"}
    /\ reset' = [reset EXCEPT ![r].stage = "done"]
    /\ UNCHANGED <<mailVars, now, token, password, forgot, login, answered>>

-----------------------------------------------------------------------------
(* Logging in: other logins than these change no password *)

BeginLogin(l, u) ==
    /\ login[l].stage = "ready"
    /\ \E p \in Resets \cup {None} :
        /\ VerifyNeedsRehash(u, p)
        /\ login' = [login EXCEPT ![l] = [stage |-> "rehash", user |-> u, password |-> p]]
    /\ UNCHANGED <<mailVars, now, token, password, forgot, reset, answered>>

\* A statement of its own: what it found the hash to be is not asked again.
Rehash(l) ==
    /\ login[l].stage = "rehash"
    /\ password' = UpdateUserPassword(login[l].user, login[l].password)
    /\ login' = [login EXCEPT ![l].stage = "done"]
    /\ UNCHANGED <<mailVars, now, token, forgot, reset, answered>>

\* The second factor is refused, or the statement fails, which no login minds.
SkipRehash(l) ==
    /\ login[l].stage = "rehash"
    /\ login' = [login EXCEPT ![l].stage = "done"]
    /\ UNCHANGED <<mailVars, now, token, password, forgot, reset, answered>>

-----------------------------------------------------------------------------
Worker(w) ==
    /\ Take(w) \/ SendNow(w)
    /\ UNCHANGED <<now, token, password, forgot, reset, login, answered>>

Shutdown ==
    /\ Close \/ Drained \/ Exit
    /\ UNCHANGED <<now, token, password, forgot, reset, login, answered>>

\* Another process has none of the goroutines of the one before.
Restart ==
    /\ New
    /\ forgot' = [f \in Forgots |-> IF forgot[f].stage = "ready" THEN forgot[f]
                                    ELSE [stage |-> "done", cancelled |-> TRUE]]
    /\ UNCHANGED <<now, token, password, reset, login, answered>>

Tick ==
    /\ now < MaxTime
    /\ now' = now + 1
    /\ UNCHANGED <<mailVars, token, password, forgot, reset, login, answered>>

ResetStep(r) ==
    \/ \E f \in Forgots : ReadToken(r, f)
    \/ UpdatePassword(r) \/ Consume(r) \/ AnswerReset(r) \/ FailReset(r)

Next ==
    \/ \E f \in Forgots :
          \/ \E u \in Users : ForgotPassword(f, u)
          \/ AnswerForgot(f) \/ StoreToken(f) \/ MailToken(f)
    \/ \E r \in Resets : ResetStep(r)
    \/ \E l \in Logins :
          \/ \E u \in Users : BeginLogin(l, u)
          \/ Rehash(l) \/ SkipRehash(l)
    \/ \E w \in Workers : Worker(w)
    \/ Shutdown \/ Restart \/ Tick

\* A worker that finds a message takes it, and ends its sending at the time limit.
Spec == Init /\ [][Next]_vars /\ \A w \in Workers : WF_vars(Worker(w))

-----------------------------------------------------------------------------
\* No link is mailed that was not stored before, for the account it was asked for: the
\* goroutine may lose the mail, its reader never holds a link that could not work.
LinksAreStored ==
    \A f \in Forgots : f \in accepted \cup inbox => token[f].stored

\* A password that a request has set becomes an account's password once, with that
\* request's own UPDATE: it never comes back when another has replaced it, though logins
\* write hashes too.  And once somebody was told that a link has set a password, nobody who
\* comes later sets another with it; a link that has expired sets none.  (Requests that
\* overlap may, and so may one that comes after a failure between the two statements.)
AnsweredIsFinal ==
    [][\A u \in Users :
        LET p == password'[u].of IN
        p \notin {password[u].of, None} => reset[p].stage = "hash" /\ ~reset[p].late]_vars

\* Documented, and not kept (README, known divergences): the first password of an account
\* does not come back either.  A login that has verified it writes it back after a request
\* has replaced it.
ReplacedForGood == [][\A u \in Users : password[u].of # None => password'[u].of # None]_vars

\* A drain that reports success has lost nothing: every message this process took was tried.
DrainedMeansTried == phase = "drained" => accepted \subseteq tried

\* A message the mailer has taken is tried, unless its process ends first: no server can hold
\* a worker for ever.
MailIsTried == \A f \in Forgots :
    f \in accepted ~> f \in tried \/ phase = "gone"
=============================================================================
