-------------------------- MODULE PasswordResetProofs --------------------------
(***************************************************************************)
(* No link is mailed before it is stored, a drain loses nothing, and no     *)
(* password comes back or is set with a link that was answered, for any     *)
(* number of requests, workers and logins and any length of the queue.      *)
(*                                                                          *)
(* The mail half: a message the process took is in the queue, with a        *)
(* worker, or tried.  The token half: what was answered is used, and a      *)
(* login only ever writes back the first password.                          *)
(***************************************************************************)
EXTENDS PasswordReset, SequenceTheorems, TLAPS

In(q, f) == \E i \in 1..Len(q) : q[i] = f
Held(f) == In(queue, f) \/ \E w \in Workers : sending[w] = f

StoredInv ==
    \A f \in Forgots :
        f \in accepted \cup inbox \/ Held(f) \/ forgot[f].stage = "mail" => token[f].stored

DrainInv ==
    /\ phase \in {"up", "closing"} => \A f \in accepted : f \in tried \/ Held(f)
    /\ DrainedMeansTried

LinkInv ==
    /\ \A f \in answered : token[f].used
    /\ \A r \in Resets :
        /\ ~reset[r].late
        /\ reset[r].stage \in {"hash", "consume", "answer"} => reset[r].link \in Forgots
        /\ reset[r].stage = "answer" => token[reset[r].link].used

\* Hashes of earlier parameters are of first passwords, and logins hold no others.
HashInv ==
    /\ \A u \in Users : password[u].old => password[u].of = None
    /\ \A l \in Logins : login[l].stage = "rehash" => login[l].password = None

IInv == TypeOK /\ StoredInv /\ DrainInv /\ LinkInv /\ HashInv

-----------------------------------------------------------------------------
(* The queue: what it holds after an Append and after its head is taken.            *)

LEMMA AppendHolds ==
    ASSUME NEW S, NEW q \in Seq(S), NEW m \in S, NEW f
    PROVE  /\ Append(q, m) \in Seq(S) /\ Len(Append(q, m)) = Len(q) + 1
           /\ In(Append(q, m), f) <=> In(q, f) \/ f = m
<1>1. /\ Append(q, m) \in Seq(S) /\ Len(Append(q, m)) = Len(q) + 1 /\ Len(q) \in Nat
      /\ Append(q, m)[Len(q) + 1] = m
      /\ \A i \in 1..Len(q) : Append(q, m)[i] = q[i]
  BY AppendProperties
<1>2. In(q, f) => In(Append(q, m), f)
  BY <1>1 DEF In
<1>3. f = m => In(Append(q, m), f)
  BY <1>1 DEF In
<1>4. ASSUME NEW i \in 1..(Len(q) + 1), Append(q, m)[i] = f
      PROVE  In(q, f) \/ f = m
  BY <1>1, <1>4 DEF In
<1> QED BY <1>1, <1>2, <1>3, <1>4 DEF In

LEMMA TailHolds ==
    ASSUME NEW S, NEW q \in Seq(S), q # <<>>, NEW f
    PROVE  /\ Tail(q) \in Seq(S) /\ Len(Tail(q)) = Len(q) - 1 /\ Head(q) \in S
           /\ In(q, f) <=> In(Tail(q), f) \/ f = Head(q)
<1>1. /\ Tail(q) \in Seq(S) /\ Len(Tail(q)) = Len(q) - 1 /\ Len(q) \in Nat /\ Len(q) > 0
      /\ Head(q) \in S /\ Head(q) = q[1]
      /\ \A i \in 1..Len(Tail(q)) : Tail(q)[i] = q[i + 1]
  BY HeadTailProperties, EmptySeq
<1>2. In(Tail(q), f) => In(q, f)
  BY <1>1 DEF In
<1>3. f = Head(q) => In(q, f)
  BY <1>1 DEF In
<1>4. ASSUME NEW i \in 1..Len(q), q[i] = f
      PROVE  In(Tail(q), f) \/ f = Head(q)
  <2>1. CASE i = 1
    BY <1>1, <1>4, <2>1
  <2>2. CASE i # 1
    <3>1. i - 1 \in 1..Len(Tail(q)) /\ (i - 1) + 1 = i
      BY <1>1, <2>2
    <3>2. Tail(q)[i - 1] = f
      BY <1>1, <1>4, <3>1
    <3> QED BY <3>1, <3>2 DEF In
  <2> QED BY <2>1, <2>2
<1> QED BY <1>1, <1>2, <1>3, <1>4 DEF In

LEMMA InitEstablishes == Init => IInv
<1> SUFFICES ASSUME Init PROVE IInv
  OBVIOUS
<1> USE PasswordResetAssumption, MailerAssumption
<1>1. (CHOOSE u \in Users : TRUE) \in Users
  OBVIOUS
<1>2. MailTypeOK
  BY DEF Init, MailInit, MailTypeOK, Phases
<1>3. token \in [Forgots -> TokenRow] /\ password \in [Users -> [of: Resets \cup {None}, old: BOOLEAN]]
  BY <1>1 DEF Init, TokenRow
<1>4. login \in [Logins -> Login] /\ forgot \in [Forgots -> Forgot] /\ reset \in [Resets -> Reset]
  BY <1>1 DEF Init, Login, Forgot, Reset
<1>5. TypeOK
  <2>1. now \in Times /\ answered \subseteq Forgots
    BY DEF Init, Times
  <2> QED BY <1>2, <1>3, <1>4, <2>1, Zenon DEF TypeOK
<1>6. \A f \in Forgots : ~Held(f)
  BY DEF Init, MailInit, Held, In
<1>7. StoredInv /\ DrainInv
  BY <1>6 DEF Init, MailInit, StoredInv, DrainInv, DrainedMeansTried
<1>8. LinkInv /\ HashInv
  BY DEF Init, LinkInv, HashInv
<1> QED BY <1>5, <1>7, <1>8 DEF IInv

-----------------------------------------------------------------------------
(* The mailer: what its steps do to the types, to what is held and to what is tried. *)

LEMMA SendRawKeeps ==
    ASSUME IInv, NEW m \in Forgots, SendRaw(m)
    PROVE  /\ MailTypeOK' /\ DrainInv'
           /\ \A f \in Forgots : Held(f)' \/ f \in (accepted \cup inbox)' =>
                Held(f) \/ f \in accepted \cup inbox \/ f = m
<1> USE PasswordResetAssumption, MailerAssumption
<1> DEFINE q == Append(queue, m)
<1>1. queue \in Seq(Forgots) /\ Len(queue) \in Nat
  BY DEF IInv, TypeOK, MailTypeOK
<1>2. q \in Seq(Forgots) /\ Len(q) = Len(queue) + 1
  BY <1>1, AppendHolds
<1>3. \A f : In(q, f) <=> In(queue, f) \/ f = m
  BY <1>1, AppendHolds
<1> HIDE DEF q
<1>4. CASE Len(queue) < QueueSize
  <2>1. /\ queue' = q /\ accepted' = accepted \cup {m} /\ phase = "up"
        /\ UNCHANGED <<phase, sending, tried, inbox>>
    BY <1>4 DEF SendRaw, q
  <2>2. Len(q) <= QueueSize
    BY <1>1, <1>2, <1>4
  <2>3. MailTypeOK'
    BY <1>2, <2>1, <2>2 DEF IInv, TypeOK, MailTypeOK
  <2>4. \A f \in Forgots : Held(f)' <=> Held(f) \/ f = m
    BY <1>3, <2>1 DEF Held
  <2>5. DrainInv'
    BY <2>1, <2>4 DEF IInv, TypeOK, MailTypeOK, DrainInv, DrainedMeansTried
  <2> QED BY <2>1, <2>3, <2>4, <2>5
<1>5. CASE ~(Len(queue) < QueueSize)
  <2>1. UNCHANGED mailVars
    BY <1>5 DEF SendRaw, mailVars
  <2>2. \A f \in Forgots : Held(f)' <=> Held(f)
    BY <2>1 DEF Held, mailVars
  <2> QED BY <2>1, <2>2 DEF IInv, TypeOK, MailTypeOK, DrainInv, DrainedMeansTried, mailVars
<1> QED BY <1>4, <1>5

LEMMA TakeKeeps ==
    ASSUME IInv, NEW w \in Workers, Take(w)
    PROVE  /\ MailTypeOK' /\ DrainInv'
           /\ \A f \in Forgots : Held(f)' \/ f \in (accepted \cup inbox)' =>
                Held(f) \/ f \in accepted \cup inbox
<1> USE PasswordResetAssumption, MailerAssumption
<1> DEFINE q == Tail(queue)
           h == Head(queue)
<1>1. /\ queue \in Seq(Forgots) /\ queue # <<>> /\ Len(queue) \in Nat
      /\ Len(queue) <= QueueSize /\ sending \in [Workers -> Forgots \cup {Idle}]
  BY DEF IInv, TypeOK, MailTypeOK, Take
<1>2. q \in Seq(Forgots) /\ Len(q) = Len(queue) - 1 /\ h \in Forgots
  BY <1>1, TailHolds
<1>3. \A f : In(queue, f) <=> In(q, f) \/ f = h
  BY <1>1, TailHolds
<1>4. /\ queue' = q /\ sending' = [sending EXCEPT ![w] = h] /\ sending[w] = Idle
      /\ phase \in {"up", "closing"} /\ UNCHANGED <<phase, accepted, tried, inbox>>
  BY DEF Take, Running
<1> HIDE DEF q, h
<1>5. MailTypeOK'
  BY <1>1, <1>2, <1>4 DEF IInv, TypeOK, MailTypeOK
<1>6. \A f \in Forgots : Held(f)' <=> Held(f)
  BY <1>1, <1>2, <1>3, <1>4 DEF Held
<1>7. DrainInv'
  BY <1>4, <1>6 DEF IInv, TypeOK, MailTypeOK, DrainInv, DrainedMeansTried
<1> QED BY <1>4, <1>5, <1>6, <1>7

LEMMA SendNowKeeps ==
    ASSUME IInv, NEW w \in Workers, SendNow(w)
    PROVE  /\ MailTypeOK' /\ DrainInv'
           /\ \A f \in Forgots : Held(f)' \/ f \in (accepted \cup inbox)' =>
                Held(f) \/ f \in accepted \cup inbox
<1> USE PasswordResetAssumption, MailerAssumption
<1>1. /\ sending \in [Workers -> Forgots \cup {Idle}] /\ sending[w] \in Forgots
      /\ sending' = [sending EXCEPT ![w] = Idle] /\ tried' = tried \cup {sending[w]}
      /\ inbox' \subseteq inbox \cup {sending[w]} /\ phase \in {"up", "closing"}
      /\ UNCHANGED <<phase, queue, accepted>>
  BY DEF IInv, TypeOK, MailTypeOK, SendNow, Running
<1>2. MailTypeOK'
  BY <1>1 DEF IInv, TypeOK, MailTypeOK
<1>3. \A f \in Forgots : /\ Held(f)' => Held(f)
                         /\ Held(f) => Held(f)' \/ f = sending[w]
  BY <1>1 DEF Held
<1>4. DrainInv'
  BY <1>1, <1>3 DEF IInv, TypeOK, MailTypeOK, DrainInv, DrainedMeansTried
<1>5. Held(sending[w])
  BY <1>1 DEF Held
<1> QED BY <1>1, <1>2, <1>3, <1>4, <1>5

\* The process stops serving, has drained, ends, or is another one.
LEMMA PhaseKeeps ==
    ASSUME IInv, SendRawPanics \/ Close \/ Drained \/ Exit \/ New
    PROVE  /\ MailTypeOK' /\ DrainInv'
           /\ \A f \in Forgots : Held(f)' \/ f \in (accepted \cup inbox)' =>
                Held(f) \/ f \in accepted \cup inbox
<1> USE PasswordResetAssumption, MailerAssumption
<1>1. CASE SendRawPanics \/ Close \/ Exit
  <2>1. /\ UNCHANGED <<queue, sending, accepted, tried, inbox>>
        /\ phase' = "gone" \/ (phase = "up" /\ phase' = "closing")
    BY <1>1 DEF SendRawPanics, Close, Exit
  <2>2. \A f \in Forgots : Held(f)' <=> Held(f)
    BY <2>1 DEF Held
  <2>3. MailTypeOK'
    BY <2>1 DEF IInv, TypeOK, MailTypeOK, Phases
  <2> QED BY <2>1, <2>2, <2>3 DEF IInv, TypeOK, MailTypeOK, DrainInv, DrainedMeansTried
<1>2. CASE Drained
  <2>1. /\ UNCHANGED <<queue, sending, accepted, tried, inbox>>
        /\ phase = "closing" /\ phase' = "drained"
        /\ queue = <<>> /\ \A w \in Workers : sending[w] = Idle
    BY <1>2 DEF Drained
  <2>2. \A f \in Forgots : ~Held(f) /\ ~Held(f)'
    BY <2>1 DEF Held, In
  <2>3. MailTypeOK'
    BY <2>1 DEF IInv, TypeOK, MailTypeOK, Phases
  <2> QED BY <2>1, <2>2, <2>3 DEF IInv, TypeOK, MailTypeOK, DrainInv, DrainedMeansTried
<1>3. CASE New
  <2>1. /\ UNCHANGED <<tried, inbox>> /\ accepted' = {} /\ phase' = "up"
        /\ queue' = <<>> /\ sending' = [w \in Workers |-> Idle]
    BY <1>3 DEF New
  <2>2. \A f \in Forgots : ~Held(f)'
    BY <2>1 DEF Held, In
  <2>3. MailTypeOK'
    BY <2>1 DEF IInv, TypeOK, MailTypeOK, Phases
  <2> QED BY <2>1, <2>2, <2>3 DEF DrainInv, DrainedMeansTried
<1> QED BY <1>1, <1>2, <1>3

-----------------------------------------------------------------------------
(* The steps of Next *)

\* A step of the mailer, which may end goroutines that mail.
LEMMA MailPartKeeps ==
    ASSUME IInv, MailTypeOK', DrainInv', forgot' \in [Forgots -> Forgot],
           \A f \in Forgots : forgot'[f].stage = "mail" => forgot[f].stage = "mail",
           \A f \in Forgots : Held(f)' \/ f \in (accepted \cup inbox)' =>
                Held(f) \/ f \in accepted \cup inbox \/ forgot[f].stage = "mail",
           UNCHANGED <<now, token, password, reset, login, answered>>
    PROVE  IInv'
<1>1. TypeOK'
  BY DEF IInv, TypeOK, Times
<1>2. StoredInv'
  <2> SUFFICES ASSUME NEW f \in Forgots,
                      (f \in accepted \cup inbox)' \/ Held(f)' \/ forgot'[f].stage = "mail"
               PROVE  token'[f].stored
    BY DEF StoredInv
  <2> QED BY DEF IInv, StoredInv
<1>3. LinkInv' /\ HashInv'
  BY DEF IInv, LinkInv, HashInv
<1> QED BY <1>1, <1>2, <1>3 DEF IInv

LEMMA MailTokenKeeps == ASSUME IInv, NEW f \in Forgots, MailToken(f) PROVE IInv'
<1> DEFINE r == [forgot[f] EXCEPT !.stage = "done"]
<1>1. r \in Forgot /\ r.stage = "done"
  BY DEF IInv, TypeOK, Forgot
<1>2. forgot' = [forgot EXCEPT ![f] = r] /\ UNCHANGED <<now, token, password, reset, login, answered>>
  BY DEF MailToken
<1> HIDE DEF r
<1>3. /\ forgot' \in [Forgots -> Forgot]
      /\ \A g \in Forgots : forgot'[g].stage = "mail" => forgot[g].stage = "mail"
  BY <1>1, <1>2 DEF IInv, TypeOK
<1>4. forgot[f].stage = "mail" /\ (SendRaw(f) \/ SendRawPanics)
  BY DEF MailToken
<1>5. /\ MailTypeOK' /\ DrainInv'
      /\ \A g \in Forgots : Held(g)' \/ g \in (accepted \cup inbox)' =>
            Held(g) \/ g \in accepted \cup inbox \/ g = f
  BY <1>4, SendRawKeeps, PhaseKeeps
<1> QED BY <1>2, <1>3, <1>4, <1>5, MailPartKeeps

LEMMA WorkerKeeps == ASSUME IInv, NEW w \in Workers, Worker(w) PROVE IInv'
<1>1. UNCHANGED <<now, token, password, forgot, reset, login, answered>> /\ (Take(w) \/ SendNow(w))
  BY DEF Worker
<1>2. /\ MailTypeOK' /\ DrainInv'
      /\ \A g \in Forgots : Held(g)' \/ g \in (accepted \cup inbox)' =>
            Held(g) \/ g \in accepted \cup inbox
  BY <1>1, TakeKeeps, SendNowKeeps
<1>3. forgot' \in [Forgots -> Forgot]
  BY <1>1 DEF IInv, TypeOK
<1> QED BY <1>1, <1>2, <1>3, MailPartKeeps

LEMMA ProcessKeeps == ASSUME IInv, Shutdown \/ Restart PROVE IInv'
<1>1. /\ UNCHANGED <<now, token, password, reset, login, answered>>
      /\ SendRawPanics \/ Close \/ Drained \/ Exit \/ New
  BY DEF Shutdown, Restart
<1>2. /\ forgot' \in [Forgots -> Forgot]
      /\ \A f \in Forgots : forgot'[f].stage = "mail" => forgot[f].stage = "mail"
  <2>1. CASE Shutdown
    BY <2>1 DEF Shutdown, IInv, TypeOK
  <2>2. CASE Restart
    <3>1. [stage |-> "done", cancelled |-> TRUE] \in Forgot
      BY DEF Forgot
    <3> QED BY <2>2, <3>1 DEF Restart, IInv, TypeOK
  <2> QED BY <2>1, <2>2
<1>3. /\ MailTypeOK' /\ DrainInv'
      /\ \A g \in Forgots : Held(g)' \/ g \in (accepted \cup inbox)' =>
            Held(g) \/ g \in accepted \cup inbox
  BY <1>1, PhaseKeeps
<1> QED BY <1>1, <1>2, <1>3, MailPartKeeps

\* A step that leaves the mailer alone.
LEMMA MailerUntouched ==
    ASSUME IInv, UNCHANGED mailVars
    PROVE  /\ MailTypeOK' /\ DrainInv'
           /\ \A f \in Forgots : Held(f)' <=> Held(f)
           /\ UNCHANGED <<accepted, inbox>>
<1>1. \A f \in Forgots : Held(f)' <=> Held(f)
  BY DEF Held, mailVars
<1>2. UNCHANGED <<phase, queue, sending, accepted, tried, inbox>>
  BY DEF mailVars
<1>3. MailTypeOK'
  BY <1>2 DEF IInv, TypeOK, MailTypeOK
<1>4. accepted \subseteq Forgots
  BY PasswordResetAssumption DEF IInv, TypeOK, MailTypeOK
<1>5. DrainInv'
  BY <1>1, <1>2, <1>4 DEF IInv, DrainInv, DrainedMeansTried
<1> QED BY <1>1, <1>2, <1>3, <1>5

\* The request for a link, its answer, and the statement that stores the token.
LEMMA ForgotKeeps ==
    ASSUME IInv, NEW f \in Forgots,
           (\E u \in Users : ForgotPassword(f, u)) \/ AnswerForgot(f) \/ StoreToken(f)
    PROVE  IInv'
<1> USE PasswordResetAssumption
<1>1. UNCHANGED <<mailVars, now, password, reset, login, answered>>
  BY DEF ForgotPassword, AnswerForgot, StoreToken
<1>2. forgot[f] \in Forgot /\ token[f] \in TokenRow /\ now \in 0..MaxTime
  BY DEF IInv, TypeOK, Times
<1>3. \E r \in Forgot, t \in TokenRow :
        /\ forgot' = [forgot EXCEPT ![f] = r] /\ token' = [token EXCEPT ![f] = t]
        /\ t.used = token[f].used /\ (token[f].stored => t.stored)
        /\ r.stage = "mail" => forgot[f].stage = "mail" \/ t.stored
  <2>1. CASE \E u \in Users : ForgotPassword(f, u)
    <3> PICK u \in Users : ForgotPassword(f, u)
      BY <2>1
    <3> DEFINE r == [forgot[f] EXCEPT !.stage = "store"]
               t == [token[f] EXCEPT !.user = u]
    <3>1. r \in Forgot /\ r.stage # "mail" /\ t \in TokenRow /\ t.used = token[f].used /\ t.stored = token[f].stored
      BY <1>2 DEF Forgot, TokenRow
    <3>2. forgot' = [forgot EXCEPT ![f] = r] /\ token' = [token EXCEPT ![f] = t]
      BY DEF ForgotPassword, Dispatch
    <3> QED BY <3>1, <3>2
  <2>2. CASE AnswerForgot(f)
    <3> DEFINE r == [forgot[f] EXCEPT !.cancelled = TRUE]
    <3>1. r \in Forgot /\ r.stage = forgot[f].stage
      BY <1>2 DEF Forgot
    <3>2. forgot' = [forgot EXCEPT ![f] = r] /\ token' = [token EXCEPT ![f] = token[f]]
      BY <2>2 DEF AnswerForgot, IInv, TypeOK
    <3> QED BY <1>2, <3>1, <3>2
  <2>3. CASE StoreToken(f)
    <3> DEFINE r(s) == [forgot[f] EXCEPT !.stage = s]
               t == [token[f] EXCEPT !.stored = TRUE, !.expires = now + Lifetime]
    <3>1. /\ r("mail") \in Forgot /\ r("done") \in Forgot
          /\ r("mail").stage = "mail" /\ r("done").stage = "done"
          /\ t \in TokenRow /\ t.used = token[f].used /\ t.stored
      <4>1. now + Lifetime \in 0..(MaxTime + Lifetime)
        BY <1>2
      <4>2. t \in TokenRow /\ t.used = token[f].used /\ t.stored
        BY <1>2, <4>1 DEF TokenRow
      <4>3. \A s \in {"mail", "done"} : r(s) \in Forgot /\ r(s).stage = s
        BY <1>2 DEF Forgot
      <4> QED BY <4>2, <4>3
    <3>2. CASE forgot' = [forgot EXCEPT ![f].stage = "done"] /\ UNCHANGED token
      <4>1. forgot' = [forgot EXCEPT ![f] = r("done")] /\ token' = [token EXCEPT ![f] = token[f]]
        BY <3>2 DEF IInv, TypeOK
      <4> QED BY <1>2, <3>1, <4>1
    <3>3. CASE /\ token' = InsertPasswordResetToken(f)
               /\ \E s \in {"mail", "done"} : forgot' = [forgot EXCEPT ![f].stage = s]
      <4>1. token' = [token EXCEPT ![f] = t]
        BY <3>3 DEF InsertPasswordResetToken
      <4>2. PICK s \in {"mail", "done"} : forgot' = [forgot EXCEPT ![f] = r(s)]
        BY <3>3
      <4>3. r(s) \in Forgot
        BY <3>1
      <4> HIDE DEF r, t
      <4> QED BY <3>1, <4>1, <4>2, <4>3
    <3> QED BY <2>3, <3>2, <3>3 DEF StoreToken
  <2> QED BY <2>1, <2>2, <2>3
<1>4. PICK r \in Forgot, t \in TokenRow :
        /\ forgot' = [forgot EXCEPT ![f] = r] /\ token' = [token EXCEPT ![f] = t]
        /\ t.used = token[f].used /\ (token[f].stored => t.stored)
        /\ r.stage = "mail" => forgot[f].stage = "mail" \/ t.stored
  BY <1>3
<1>5. /\ forgot' \in [Forgots -> Forgot] /\ token' \in [Forgots -> TokenRow]
      /\ \A g \in Forgots : /\ token'[g].used = token[g].used
                            /\ token[g].stored => token'[g].stored
                            /\ forgot'[g].stage = "mail" => forgot[g].stage = "mail" \/ token'[g].stored
  BY <1>4 DEF IInv, TypeOK
<1>6. /\ MailTypeOK' /\ DrainInv' /\ (\A g \in Forgots : Held(g)' <=> Held(g))
      /\ UNCHANGED <<accepted, inbox>>
  BY <1>1, MailerUntouched
<1>7. TypeOK'
  BY <1>1, <1>5, <1>6 DEF IInv, TypeOK, Times
<1>8. StoredInv'
  BY <1>5, <1>6 DEF IInv, StoredInv
<1>9. HashInv'
  BY <1>1 DEF IInv, HashInv
<1>10. LinkInv'
  BY <1>1, <1>5 DEF IInv, LinkInv, TypeOK
<1> QED BY <1>6, <1>7, <1>8, <1>9, <1>10 DEF IInv

\* A step that leaves the mailer and the goroutines alone, and un-stores no token.
LEMMA RequestPartKeeps ==
    ASSUME IInv, UNCHANGED <<mailVars, forgot>>, now' \in Times,
           token' \in [Forgots -> TokenRow], reset' \in [Resets -> Reset],
           password' \in [Users -> [of: Resets \cup {None}, old: BOOLEAN]],
           login' \in [Logins -> Login], answered' \subseteq Forgots,
           \A f \in Forgots : token[f].stored => token'[f].stored,
           LinkInv', HashInv'
    PROVE  IInv'
<1>1. /\ MailTypeOK' /\ DrainInv' /\ (\A g \in Forgots : Held(g)' <=> Held(g))
      /\ UNCHANGED <<accepted, inbox>>
  BY MailerUntouched
<1>2. TypeOK'
  BY <1>1 DEF IInv, TypeOK
<1>3. StoredInv'
  BY <1>1 DEF IInv, StoredInv
<1> QED BY <1>1, <1>2, <1>3 DEF IInv

LEMMA ReadTokenKeeps ==
    ASSUME IInv, NEW r \in Resets, NEW f \in Forgots, ReadToken(r, f)
    PROVE  IInv'
<1> DEFINE n == [stage |-> "hash", link |-> f, changed |-> FALSE,
                 late |-> f \in answered \/ token[f].expires <= now]
<1>1. /\ reset' = [reset EXCEPT ![r] = n]
      /\ UNCHANGED <<mailVars, now, token, password, forgot, login, answered>>
      /\ ~token[f].used /\ token[f].expires > now
  BY DEF ReadToken, Live
<1>2. token[f].expires \in Nat /\ now \in Nat
  BY PasswordResetAssumption DEF IInv, TypeOK, Times, TokenRow
<1>3. f \notin answered /\ ~(token[f].expires <= now)
  BY <1>1, <1>2 DEF IInv, LinkInv
<1>4. n.late = FALSE /\ n.stage = "hash" /\ n.link = f
  BY <1>3
<1>5. n \in Reset
  BY <1>4 DEF Reset
<1> HIDE DEF n
<1>6. reset' \in [Resets -> Reset]
  BY <1>1, <1>5 DEF IInv, TypeOK
<1>7. LinkInv'
  <2>1. ASSUME NEW s \in Resets PROVE reset'[s] = IF s = r THEN n ELSE reset[s]
    BY <1>1 DEF IInv, TypeOK
  <2> QED BY <1>1, <1>4, <2>1 DEF IInv, LinkInv
<1>8. HashInv'
  BY <1>1 DEF IInv, HashInv
<1> QED BY <1>1, <1>6, <1>7, <1>8, RequestPartKeeps DEF IInv, TypeOK

LEMMA UpdatePasswordKeeps == ASSUME IInv, NEW r \in Resets, UpdatePassword(r) PROVE IInv'
<1> DEFINE n == [reset[r] EXCEPT !.stage = "consume", !.changed = TRUE]
           u == token[reset[r].link].user
           p == Hash(r)
<1>1. /\ reset' = [reset EXCEPT ![r] = n] /\ password' = [password EXCEPT ![u] = p]
      /\ UNCHANGED <<mailVars, now, token, forgot, login, answered>>
      /\ reset[r].stage = "hash"
  BY DEF UpdatePassword, UpdateUserPassword
<1>2. n \in Reset /\ n.stage = "consume" /\ n.link = reset[r].link /\ n.late = reset[r].late
  BY DEF IInv, TypeOK, Reset
<1>3. p \in [of: Resets \cup {None}, old: BOOLEAN] /\ p.old = FALSE
  BY DEF Hash
<1> HIDE DEF n, u, p
<1>4. /\ reset' \in [Resets -> Reset]
      /\ password' \in [Users -> [of: Resets \cup {None}, old: BOOLEAN]]
  BY <1>1, <1>2, <1>3 DEF IInv, TypeOK
<1>5. LinkInv'
  <2>1. ASSUME NEW s \in Resets PROVE reset'[s] = IF s = r THEN n ELSE reset[s]
    BY <1>1 DEF IInv, TypeOK
  <2> QED BY <1>1, <1>2, <2>1 DEF IInv, LinkInv
<1>6. HashInv'
  <2>1. ASSUME NEW v \in Users PROVE password'[v] = password[v] \/ password'[v] = p
    BY <1>1 DEF IInv, TypeOK
  <2> QED BY <1>1, <1>3, <2>1 DEF IInv, HashInv
<1> QED BY <1>1, <1>4, <1>5, <1>6, RequestPartKeeps DEF IInv, TypeOK

LEMMA ConsumeKeeps == ASSUME IInv, NEW r \in Resets, Consume(r) PROVE IInv'
<1> DEFINE n == [reset[r] EXCEPT !.stage = "answer"]
           f == reset[r].link
           t == [token[f] EXCEPT !.used = TRUE]
<1>1. /\ reset' = [reset EXCEPT ![r] = n] /\ token' = [token EXCEPT ![f] = t]
      /\ UNCHANGED <<mailVars, now, password, forgot, login, answered>>
      /\ reset[r].stage = "consume"
  BY DEF Consume, ConsumePasswordResetToken
<1>2. n \in Reset /\ n.stage = "answer" /\ n.link = f /\ n.late = reset[r].late
  BY DEF IInv, TypeOK, Reset
<1>3. f \in Forgots
  BY <1>1 DEF IInv, LinkInv
<1>4. t \in TokenRow /\ t.used /\ t.stored = token[f].stored
  BY <1>3 DEF IInv, TypeOK, TokenRow
<1> HIDE DEF n, f, t
<1>5. ASSUME NEW g \in Forgots PROVE token'[g] = IF g = f THEN t ELSE token[g]
  BY <1>1 DEF IInv, TypeOK
<1>6. reset' \in [Resets -> Reset] /\ token' \in [Forgots -> TokenRow]
  BY <1>1, <1>2, <1>4 DEF IInv, TypeOK
<1>7. LinkInv'
  <2>1. ASSUME NEW s \in Resets PROVE reset'[s] = IF s = r THEN n ELSE reset[s]
    BY <1>1 DEF IInv, TypeOK
  <2>2. \A g \in answered' : token'[g].used
    BY <1>1, <1>4, <1>5 DEF IInv, LinkInv, TypeOK
  <2>3. ASSUME NEW s \in Resets
        PROVE  /\ ~reset'[s].late
               /\ reset'[s].stage \in {"hash", "consume", "answer"} => reset'[s].link \in Forgots
               /\ reset'[s].stage = "answer" => token'[reset'[s].link].used
    <3>1. CASE s = r
      BY <1>2, <1>3, <1>4, <1>5, <2>1, <3>1 DEF IInv, LinkInv
    <3>2. CASE s # r
      BY <1>4, <1>5, <2>1, <3>2 DEF IInv, LinkInv
    <3> QED BY <3>1, <3>2
  <2> QED BY <2>2, <2>3 DEF LinkInv
<1>8. HashInv'
  BY <1>1 DEF IInv, HashInv
<1>9. \A g \in Forgots : token[g].stored => token'[g].stored
  BY <1>4, <1>5
<1> QED BY <1>1, <1>6, <1>7, <1>8, <1>9, RequestPartKeeps DEF IInv, TypeOK

LEMMA EndResetKeeps ==
    ASSUME IInv, NEW r \in Resets, AnswerReset(r) \/ FailReset(r)
    PROVE  IInv'
<1> DEFINE n == [reset[r] EXCEPT !.stage = "done"]
<1>1. /\ reset' = [reset EXCEPT ![r] = n]
      /\ UNCHANGED <<mailVars, now, token, password, forgot, login>>
      /\ answered' = answered \/ (reset[r].stage = "answer" /\ answered' = answered \cup {reset[r].link})
  BY DEF AnswerReset, FailReset
<1>2. n \in Reset /\ n.stage = "done" /\ n.late = reset[r].late
  BY DEF IInv, TypeOK, Reset
<1> HIDE DEF n
<1>3. reset' \in [Resets -> Reset]
  BY <1>1, <1>2 DEF IInv, TypeOK
<1>4. answered' \subseteq Forgots /\ \A g \in answered' : token[g].used
  BY <1>1 DEF IInv, TypeOK, LinkInv
<1>5. LinkInv'
  <2>1. ASSUME NEW s \in Resets PROVE reset'[s] = IF s = r THEN n ELSE reset[s]
    BY <1>1 DEF IInv, TypeOK
  <2> QED BY <1>1, <1>2, <1>4, <2>1 DEF IInv, LinkInv
<1>6. HashInv'
  BY <1>1 DEF IInv, HashInv
<1> QED BY <1>1, <1>3, <1>4, <1>5, <1>6, RequestPartKeeps DEF IInv, TypeOK

LEMMA LoginKeeps ==
    ASSUME IInv, NEW l \in Logins,
           (\E u \in Users : BeginLogin(l, u)) \/ Rehash(l) \/ SkipRehash(l)
    PROVE  IInv'
<1>1. UNCHANGED <<mailVars, now, token, forgot, reset, answered>>
  BY DEF BeginLogin, Rehash, SkipRehash
<1>2. LinkInv'
  BY <1>1 DEF IInv, LinkInv
<1>3. /\ login' \in [Logins -> Login] /\ HashInv'
      /\ password' \in [Users -> [of: Resets \cup {None}, old: BOOLEAN]]
  <2>1. CASE \E u \in Users : BeginLogin(l, u)
    <3>1. PICK u \in Users, p \in Resets \cup {None} :
            /\ password[u].of = p /\ password[u].old /\ UNCHANGED password
            /\ login' = [login EXCEPT ![l] = [stage |-> "rehash", user |-> u, password |-> p]]
      BY <2>1 DEF BeginLogin, VerifyNeedsRehash
    <3> DEFINE n == [stage |-> "rehash", user |-> u, password |-> p]
    <3>2. n \in Login /\ n.password = None
      BY <3>1 DEF Login, IInv, HashInv
    <3> HIDE DEF n
    <3>3. login' \in [Logins -> Login] /\ \A m \in Logins : login'[m] = login[m] \/ login'[m] = n
      BY <3>1, <3>2 DEF IInv, TypeOK, n
    <3> QED BY <3>1, <3>2, <3>3 DEF IInv, TypeOK, HashInv
  <2>2. CASE Rehash(l) \/ SkipRehash(l)
    <3> DEFINE n == [login[l] EXCEPT !.stage = "done"]
               p == Hash(login[l].password)
    <3>1. /\ login' = [login EXCEPT ![l] = n]
          /\ UNCHANGED password \/ password' = [password EXCEPT ![login[l].user] = p]
      BY <2>2 DEF Rehash, SkipRehash, UpdateUserPassword
    <3>2. n \in Login /\ n.stage = "done"
      BY DEF IInv, TypeOK, Login
    <3>3. p \in [of: Resets \cup {None}, old: BOOLEAN] /\ p.old = FALSE
      BY DEF IInv, TypeOK, Login, Hash
    <3> HIDE DEF n, p
    <3>4. login' \in [Logins -> Login] /\ \A m \in Logins : login'[m] = login[m] \/ login'[m] = n
      BY <3>1, <3>2 DEF IInv, TypeOK
    <3>5. /\ password' \in [Users -> [of: Resets \cup {None}, old: BOOLEAN]]
          /\ \A v \in Users : password'[v] = password[v] \/ password'[v] = p
      BY <3>1, <3>3 DEF IInv, TypeOK
    <3> QED BY <3>2, <3>3, <3>4, <3>5 DEF IInv, HashInv
  <2> QED BY <2>1, <2>2
<1> QED BY <1>1, <1>2, <1>3, RequestPartKeeps DEF IInv, TypeOK

LEMMA TickKeeps == ASSUME IInv, Tick PROVE IInv'
<1>1. UNCHANGED <<mailVars, token, password, forgot, reset, login, answered>>
  BY DEF Tick
<1>2. now' \in Times
  BY PasswordResetAssumption DEF Tick, IInv, TypeOK, Times
<1>3. LinkInv' /\ HashInv'
  BY <1>1 DEF IInv, LinkInv, HashInv
<1> QED BY <1>1, <1>2, <1>3, RequestPartKeeps DEF IInv, TypeOK

LEMMA StutterKeeps == ASSUME IInv, UNCHANGED vars PROVE IInv'
<1>1. UNCHANGED <<mailVars, now, token, password, forgot, reset, login, answered>>
  BY DEF vars
<1>2. LinkInv' /\ HashInv'
  BY <1>1 DEF IInv, LinkInv, HashInv
<1> QED BY <1>1, <1>2, RequestPartKeeps DEF IInv, TypeOK

LEMMA NextKeeps == ASSUME IInv, [Next]_vars PROVE IInv'
<1>1. CASE \E f \in Forgots :
             (\E u \in Users : ForgotPassword(f, u)) \/ AnswerForgot(f) \/ StoreToken(f)
  BY <1>1, ForgotKeeps
<1>2. CASE \E f \in Forgots : MailToken(f)
  BY <1>2, MailTokenKeeps
<1>3. CASE \E r \in Resets : ResetStep(r)
  BY <1>3, ReadTokenKeeps, UpdatePasswordKeeps, ConsumeKeeps, EndResetKeeps DEF ResetStep
<1>4. CASE \E l \in Logins : (\E u \in Users : BeginLogin(l, u)) \/ Rehash(l) \/ SkipRehash(l)
  BY <1>4, LoginKeeps
<1>5. CASE (\E w \in Workers : Worker(w)) \/ Shutdown \/ Restart
  BY <1>5, WorkerKeeps, ProcessKeeps
<1>6. CASE Tick \/ UNCHANGED vars
  BY <1>6, TickKeeps, StutterKeeps
<1> QED BY <1>1, <1>2, <1>3, <1>4, <1>5, <1>6 DEF Next

-----------------------------------------------------------------------------
\* The invariant holds in every state the program reaches.
THEOREM Invariance == Spec => []IInv
BY InitEstablishes, NextKeeps, PTL DEF Spec

\* The tables, the goroutines, the requests and the mailer stay within their types.
THEOREM TypeCorrect == Spec => []TypeOK
<1>1. IInv => TypeOK
  BY DEF IInv
<1> QED BY <1>1, Invariance, PTL

\* No link is mailed, and none reaches its addressee, before its token is stored.
THEOREM LinksStored == Spec => []LinksAreStored
<1>1. IInv => LinksAreStored
  BY DEF IInv, StoredInv, LinksAreStored
<1> QED BY <1>1, Invariance, PTL

\* A drain that reports success has tried every message the process took.
THEOREM DrainLosesNothing == Spec => []DrainedMeansTried
<1>1. IInv => DrainedMeansTried
  BY DEF IInv, DrainInv
<1> QED BY <1>1, Invariance, PTL

\* The password of a request is set by that request alone, with a link that nobody had been
\* told was used when it was looked up: neither another request nor a login brings it back.
THEOREM AnsweredFinal == Spec => AnsweredIsFinal
<1>1. ASSUME IInv, [Next]_vars, NEW u \in Users,
             password'[u].of \notin {password[u].of, None}
      PROVE  reset[password'[u].of].stage = "hash" /\ ~reset[password'[u].of].late
  <2>1. password' # password
    BY <1>1
  <2>2. CASE \E r \in Resets : UpdatePassword(r)
    <3>1. PICK r \in Resets : UpdatePassword(r)
      BY <2>2
    <3>2. password'[u] = password[u] \/ password'[u] = Hash(r)
      BY <1>1, <3>1 DEF UpdatePassword, UpdateUserPassword, IInv, TypeOK
    <3>3. password'[u].of = r
      BY <1>1, <3>2 DEF Hash
    <3> QED BY <1>1, <3>1, <3>3 DEF UpdatePassword, IInv, LinkInv
  <2>3. CASE \E l \in Logins : Rehash(l)
    <3>1. PICK l \in Logins : Rehash(l)
      BY <2>3
    <3>2. login[l].password = None
      BY <1>1, <3>1 DEF Rehash, IInv, HashInv
    <3>3. password'[u] = password[u] \/ password'[u] = Hash(None)
      BY <1>1, <3>1, <3>2 DEF Rehash, UpdateUserPassword, IInv, TypeOK
    <3> QED BY <1>1, <3>3 DEF Hash
  <2>4. UNCHANGED password \/ (\E r \in Resets : UpdatePassword(r)) \/ \E l \in Logins : Rehash(l)
    BY <1>1 DEF Next, ForgotPassword, AnswerForgot, StoreToken, MailToken, ResetStep, ReadToken,
                Consume, AnswerReset, FailReset, BeginLogin, SkipRehash, Worker, Shutdown,
                Restart, Tick, vars
  <2> QED BY <2>1, <2>2, <2>3, <2>4
<1>2. IInv /\ [Next]_vars =>
        [\A u \in Users :
            LET p == password'[u].of IN
            p \notin {password[u].of, None} => reset[p].stage = "hash" /\ ~reset[p].late]_vars
  BY <1>1
<1> QED BY <1>2, Invariance, PTL DEF Spec, AnsweredIsFinal

=============================================================================
