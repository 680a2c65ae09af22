--------------------------------- MODULE Mailer ---------------------------------
(***************************************************************************)
(* The asynchronous mailer of one serve process: a bounded queue, a pool   *)
(* of workers, and the drain on shutdown.  A sender is never made to wait; *)
(* what it is told is whether its message was taken, not whether it went.  *)
(***************************************************************************)
EXTENDS Naturals, Sequences

CONSTANTS
    Messages,
    Workers,    \* the pool
    Idle,       \* what a worker without a message is sending
    QueueSize   \* the capacity of the channel

ASSUME MailerAssumption == QueueSize \in Nat \ {0} /\ Idle \notin Messages

VARIABLES
    phase,      \* of the process: serving, draining, drained, or gone
    queue,      \* the channel
    sending,    \* the message each worker is sending
    accepted,   \* history: messages this process has taken
    tried,      \* history: messages whose sending has ended, well or not
    inbox       \* the messages that have reached their addressee

mailVars == <<phase, queue, sending, accepted, tried, inbox>>

Phases == {"up", "closing", "drained", "gone"}

MailTypeOK ==
    /\ phase \in Phases
    /\ queue \in Seq(Messages) /\ Len(queue) <= QueueSize
    /\ sending \in [Workers -> Messages \cup {Idle}]
    /\ accepted \subseteq Messages /\ tried \subseteq Messages /\ inbox \subseteq Messages

MailInit ==
    /\ phase = "up"
    /\ queue = <<>>
    /\ sending = [w \in Workers |-> Idle]
    /\ accepted = {} /\ tried = {} /\ inbox = {}

Running == phase \in {"up", "closing"}

-----------------------------------------------------------------------------
\* A full queue drops the message.
SendRaw(m) ==
    /\ phase = "up"
    /\ IF Len(queue) < QueueSize
       THEN queue' = Append(queue, m) /\ accepted' = accepted \cup {m}
       ELSE UNCHANGED <<queue, accepted>>
    /\ UNCHANGED <<phase, sending, tried, inbox>>

\* Close closes the channel, and to send on a closed channel panics: the process dies.
SendRawPanics ==
    /\ phase = "closing"
    /\ phase' = "gone"
    /\ UNCHANGED <<queue, sending, accepted, tried, inbox>>

\* The workers range over the channel until it is closed and empty.
Take(w) ==
    /\ Running /\ sending[w] = Idle /\ queue # <<>>
    /\ sending' = [sending EXCEPT ![w] = Head(queue)]
    /\ queue' = Tail(queue)
    /\ UNCHANGED <<phase, accepted, tried, inbox>>

\* Mutant: without a time limit, a server that never answers keeps the worker.
SendNowForever(w) ==
    /\ Running /\ sending[w] \notin {Idle, CHOOSE m \in Messages : TRUE}
    /\ sending' = [sending EXCEPT ![w] = Idle]
    /\ tried' = tried \cup {sending[w]}
    /\ inbox' \in {inbox, inbox \cup {sending[w]}}
    /\ UNCHANGED <<phase, queue, accepted>>

\* Every sending ends, after the time limit at the latest; a failure is logged.
SendNow(w) ==
    /\ Running /\ sending[w] # Idle
    /\ sending' = [sending EXCEPT ![w] = Idle]
    /\ tried' = tried \cup {sending[w]}
    /\ inbox' \in {inbox, inbox \cup {sending[w]}}
    /\ UNCHANGED <<phase, queue, accepted>>

-----------------------------------------------------------------------------
(* Shutdown: the listener first, then the mailer, with a limit on its drain *)

Close ==
    /\ phase = "up"
    /\ phase' = "closing"
    /\ UNCHANGED <<queue, sending, accepted, tried, inbox>>

\* Mutant: Close waits for the queue and not for the workers.
DrainedQueue ==
    /\ phase = "closing" /\ queue = <<>>
    /\ phase' = "drained"
    /\ UNCHANGED <<queue, sending, accepted, tried, inbox>>

\* Close returns nil: every worker has found the channel closed and empty.
Drained ==
    /\ phase = "closing" /\ queue = <<>> /\ \A w \in Workers : sending[w] = Idle
    /\ phase' = "drained"
    /\ UNCHANGED <<queue, sending, accepted, tried, inbox>>

\* The drain takes too long, the listener does not stop in time, or the process dies.
Exit ==
    /\ Running
    /\ phase' = "gone"
    /\ UNCHANGED <<queue, sending, accepted, tried, inbox>>

New ==
    /\ phase \in {"drained", "gone"}
    /\ phase' = "up"
    /\ queue' = <<>> /\ sending' = [w \in Workers |-> Idle] /\ accepted' = {}
    /\ UNCHANGED <<tried, inbox>>
=============================================================================
