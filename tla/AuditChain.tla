------------------------------ MODULE AuditChain ------------------------------
(***************************************************************************)
(* The hash chain of `audit_log`.  Every audited operation appends one     *)
(* entry in its own transaction, under a lock that is held to the commit.  *)
(* A hash is the identity of its entry: it covers all of it.               *)
(***************************************************************************)
EXTENDS Naturals, FiniteSetsExt

CONSTANTS
    Requests,   \* audited operations; an entry has the name of the one that appends it
    None,       \* the hash before the first entry, and no value
    MaxTime     \* bound on the clock

ASSUME AuditAssumption == None \notin Requests /\ MaxTime \in Nat

VARIABLES
    clock,      \* of the serve process; it may be set back
    lastV7,     \* the last UUIDv7 of the process
    entry,      \* the entries, also those of transactions under way
    logged      \* those of them that are committed

chainVars == <<clock, lastV7, entry, logged>>

Times == 0..MaxTime
Entry == [prev: Requests \cup {None}, created: Times, id: Nat]
NoEntry == [prev |-> None, created |-> 0, id |-> 0]

ChainTypeOK ==
    /\ clock \in Times /\ lastV7 \in Nat
    /\ entry \in [Requests -> Entry]
    /\ logged \subseteq Requests

ChainInit ==
    /\ clock = 0 /\ lastV7 = 0
    /\ entry = [r \in Requests |-> NoEntry]
    /\ logged = {}

-----------------------------------------------------------------------------
\* ORDER BY created_at, id
Precedes(r, s) ==
    \/ entry[r].created < entry[s].created
    \/ entry[r].created = entry[s].created /\ entry[r].id < entry[s].id

\* The last one of a set of entries in that order.
LastOf(S) == IF S = {} THEN None ELSE CHOOSE r \in S : \A s \in S \ {r} : Precedes(s, r)

GetAuditLogHead == LastOf(logged)

\* NewV7 counts on when the clock stands still or goes back.
NewV7 == IF clock > lastV7 THEN clock ELSE lastV7 + 1

\* Mutant: the clock as it is.
UnclampedCreatedAt == clock

\* Mutant: strictly after the head.
CreatedAfterHead == IF GetAuditLogHead = None THEN clock ELSE entry[GetAuditLogHead].created + 1

\* Never before the head.
CreatedAt == IF GetAuditLogHead = None THEN clock
             ELSE Max({clock, entry[GetAuditLogHead].created})

InsertAuditLog(r) ==
    entry' = [entry EXCEPT ![r] = [prev |-> GetAuditLogHead, created |-> CreatedAt, id |-> NewV7]]

\* `others`: the transactions that hold the chain's lock.
AppendEntry(r, others) ==
    /\ others = {}
    /\ InsertAuditLog(r)
    /\ lastV7' = NewV7
    /\ UNCHANGED <<clock, logged>>

CommitEntry(r) ==
    /\ logged' = logged \cup {r}
    /\ UNCHANGED <<clock, lastV7, entry>>

RollbackEntry(r) ==
    /\ entry' = [entry EXCEPT ![r] = NoEntry]
    /\ UNCHANGED <<clock, lastV7, logged>>

SetClock ==
    /\ clock' \in Times \ {clock}
    /\ UNCHANGED <<lastV7, entry, logged>>

-----------------------------------------------------------------------------
ListAuditLogBefore(r) == {s \in logged : Precedes(s, r)}

\* VerifyChain over the whole log.
VerifyChain == \A r \in logged : entry[r].prev = LastOf(ListAuditLogBefore(r))
=============================================================================
