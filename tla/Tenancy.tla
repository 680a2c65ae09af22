-------------------------------- MODULE Tenancy --------------------------------
(***************************************************************************)
(* What the office's users write: offices, communities, units and their    *)
(* members.  Every operation is one transaction at READ COMMITTED that     *)
(* ends by appending its entry to the audit log.  A PATCH reads the row,   *)
(* replaces the fields it was given and writes all of them back; a create  *)
(* or an import inserts rows whose unique keys may be taken.               *)
(***************************************************************************)
EXTENDS AuditChain, FiniteSets, Sequences, SequencesExt

CONSTANTS
    Members,      \* rows of `unit_members`
    Communities,  \* rows of `communities`
    Fields,       \* the columns of a row; a value has the name of the request that wrote it
    UnitKeys,     \* (block, floor, door) of a unit, complete
    StaffKeys,    \* (office, user)
    Cifs,         \* of an office
    Emails        \* of the administrator created with it

Rows == Members \cup Communities

\* The members of a new unit hang on an id that only the request creating it knows: its
\* name stands for all of them.
Keys == UnitKeys \cup StaffKeys \cup Cifs \cup Emails \cup Requests

ASSUME TenancyAssumption == None \notin Rows \cup Keys /\ IsFiniteSet(UnitKeys)

VARIABLES
    row,     \* the rows that are updated or deleted, as committed
    owner,   \* whose transaction inserted a unique key, as committed
    req      \* the state of every request

vars == <<chainVars, row, owner, req>>

Row == [fields: [Fields -> Requests \cup {None}], live: BOOLEAN]
Stages == {"ready", "write", "insert", "audit", "commit", "done"}

\* `copy`: its row as it has read it and then as it has written it; `field`: the column
\* it was given, or None to delete; `asked`: the keys of the rows it is to insert.  No
\* step reads `known`, the log at the time it read its row.
Request == [stage: Stages, row: Rows \cup {None}, copy: Row, field: Fields \cup {None},
            asked: SUBSET Keys, left: Seq(Keys), known: SUBSET Requests]

NewRow == [fields |-> [f \in Fields |-> None], live |-> TRUE]
NoRequest == [stage |-> "ready", row |-> None, copy |-> NewRow, field |-> None,
              asked |-> {}, left |-> <<>>, known |-> {}]

TypeOK ==
    /\ ChainTypeOK
    /\ row \in [Rows -> Row]
    /\ owner \in [Keys -> Requests \cup {None}]
    /\ req \in [Requests -> Request]

Init ==
    /\ ChainInit
    /\ row = [x \in Rows |-> NewRow]
    /\ owner = [k \in Keys |-> None]
    /\ req = [r \in Requests |-> NoRequest]

InTransaction == {"write", "insert", "audit", "commit"}
At(r, s) == req' = [req EXCEPT ![r].stage = s]

\* Rows and keys that another transaction has written and not yet committed.
RowLocked(r) == \E s \in Requests \ {r} :
    req[s].row = req[r].row /\ req[s].stage \in {"audit", "commit"}
Inserted(r) == req[r].asked \ ToSet(req[r].left)
KeyLocked(r, k) == \E s \in Requests \ {r} : req[s].stage \in InTransaction /\ k \in Inserted(s)
HoldChainLock == {r \in Requests : req[r].stage = "commit"}

-----------------------------------------------------------------------------
(* Updates and deletes: the row is read without a lock *)

GetUnitMemberByID(m) == row[m].live

Read(r, x, f) ==
    /\ req[r].stage = "ready"
    /\ req' = [req EXCEPT ![r] = [NoRequest EXCEPT !.stage = "write", !.row = x,
                                                   !.copy = row[x], !.field = f,
                                                   !.known = logged]]
    /\ UNCHANGED <<chainVars, row, owner>>

UpdateUnitMember(r, m) == GetUnitMemberByID(m) /\ \E f \in Fields : Read(r, m, f)
DeleteUnitMember(r, m) == GetUnitMemberByID(m) /\ Read(r, m, None)

\* Nothing deletes a community.
UpdateCommunity(r, c) == \E f \in Fields : Read(r, c, f)

\* Mutant: the columns the request was not given are set to the default.
WrittenUnread(r) ==
    IF req[r].field = None THEN [row[req[r].row] EXCEPT !.live = FALSE]
    ELSE [NewRow EXCEPT !.fields[req[r].field] = r]

\* Every column is set: those the request was not given to what it has read.
Written(r) ==
    IF req[r].field = None THEN [row[req[r].row] EXCEPT !.live = FALSE]
    ELSE [req[r].copy EXCEPT !.fields[req[r].field] = r]

\* Mutant: the UPDATE goes to the pool, not to the transaction.
WriteOutsideTransaction(r) ==
    /\ req[r].stage = "write" /\ ~RowLocked(r)
    /\ row[req[r].row].live
    /\ row' = [row EXCEPT ![req[r].row] = Written(r)]
    /\ req' = [req EXCEPT ![r].stage = "audit", ![r].copy = Written(r)]
    /\ UNCHANGED <<chainVars, owner>>

\* The UPDATE waits for the row's lock; a row that is deleted by then is not found.
Write(r) ==
    /\ req[r].stage = "write" /\ ~RowLocked(r)
    /\ row[req[r].row].live
    /\ req' = [req EXCEPT ![r].stage = "audit", ![r].copy = Written(r)]
    /\ UNCHANGED <<chainVars, row, owner>>

-----------------------------------------------------------------------------
(* Creates and the import *)

BeginInserts(r, s) ==
    /\ req[r].stage = "ready"
    /\ req' = [req EXCEPT ![r] = [NoRequest EXCEPT !.stage = "insert", !.asked = ToSet(s),
                                                   !.left = s]]
    /\ UNCHANGED <<chainVars, row, owner>>

\* A unit with an empty block, floor or door never collides: NULLs are distinct.  Its
\* members, if any, are inserted after it.
CreateUnit(r) ==
    \E s \in {<<>>} \cup {<<k>> : k \in UnitKeys}, m \in {<<>>, <<r>>} : BeginInserts(r, s \o m)
CreateCommunity(r) == BeginInserts(r, <<>>)
CreateOffice(r) == \E n \in Cifs, e \in Emails : BeginInserts(r, <<n, e>>)
AddOfficeMember(r) == \E k \in StaffKeys : BeginInserts(r, <<k>>)

ListUnitsByCommunityID == {k \in UnitKeys : owner[k] # None}

\* A file in which a unit occurs twice, or that is there already, is refused.
ParseImportRows == {s \in UNION {[1..n -> UnitKeys] : n \in 1..Cardinality(UnitKeys)} :
                        IsInjective(s) /\ ToSet(s) \cap ListUnitsByCommunityID = {}}

\* The list of units is read before the transaction begins.
ImportUnits(r) == \E s \in ParseImportRows : BeginInserts(r, s)

\* Mutant: the rows go to the pool one by one.
InsertOutsideTransaction(r) ==
    /\ req[r].stage = "insert" /\ req[r].left # <<>>
    /\ LET k == Head(req[r].left) IN
        /\ ~KeyLocked(r, k) /\ owner[k] = None
        /\ owner' = [owner EXCEPT ![k] = r]
    /\ req' = [req EXCEPT ![r].left = Tail(@)]
    /\ UNCHANGED <<chainVars, row>>

\* An INSERT waits for a transaction that has inserted the same key.
Insert(r) ==
    /\ req[r].stage = "insert" /\ req[r].left # <<>>
    /\ ~KeyLocked(r, Head(req[r].left)) /\ owner[Head(req[r].left)] = None
    /\ req' = [req EXCEPT ![r].left = Tail(@)]
    /\ UNCHANGED <<chainVars, row, owner>>

InsertsDone(r) ==
    /\ req[r].stage = "insert" /\ req[r].left = <<>>
    /\ At(r, "audit")
    /\ UNCHANGED <<chainVars, row, owner>>

-----------------------------------------------------------------------------
(* The end of every transaction *)

Audit(r) ==
    /\ req[r].stage = "audit"
    /\ AppendEntry(r, HoldChainLock)
    /\ At(r, "commit")
    /\ UNCHANGED <<row, owner>>

Commit(r) ==
    /\ req[r].stage = "commit"
    /\ CommitEntry(r)
    /\ row' = [x \in Rows |-> IF x = req[r].row THEN req[r].copy ELSE row[x]]
    /\ owner' = [k \in Keys |-> IF k \in req[r].asked THEN r ELSE owner[k]]
    /\ At(r, "done")

\* A key or a row is not to be had, a statement fails, PostgreSQL breaks a deadlock of
\* two imports, or the process dies.
Rollback(r) ==
    /\ req[r].stage \in InTransaction
    /\ RollbackEntry(r)
    /\ At(r, "done")
    /\ UNCHANGED <<row, owner>>

-----------------------------------------------------------------------------
Next ==
    \/ \E r \in Requests :
        \/ \E m \in Members : UpdateUnitMember(r, m) \/ DeleteUnitMember(r, m)
        \/ \E c \in Communities : UpdateCommunity(r, c)
        \/ CreateUnit(r) \/ CreateCommunity(r) \/ CreateOffice(r) \/ AddOfficeMember(r)
        \/ ImportUnits(r)
        \/ Write(r) \/ Insert(r) \/ InsertsDone(r)
        \/ Audit(r) \/ Commit(r) \/ Rollback(r)
    \/ SetClock /\ UNCHANGED <<row, owner, req>>

Spec == Init /\ [][Next]_vars

-----------------------------------------------------------------------------
\* The chain verifies at every moment, whatever the transactions do and however the
\* clock of the one process jumps: every entry has the hash of the one that
\* precedes it in the order in which the log is read.
ChainVerifies == VerifyChain

About(x) == {r \in logged : req[r].row = x}

\* The audit log tells the truth: the last entry about a row says what the row is, in
\* whatever order overlapping operations read, write, wait and commit.
LastEntryIsRow ==
    \A x \in Rows : row[x] = IF About(x) = {} THEN NewRow ELSE req[LastOf(About(x))].copy

\* An operation that is in the log has inserted every row it was asked for, and any
\* other none: no import is ever half done, also one that loses a key to another
\* request between its check and its inserts.
AllOrNothing ==
    \A r \in Requests : {k \in Keys : owner[k] = r} = IF r \in logged THEN req[r].asked ELSE {}

\* What request r did not ask for is as the entry before its own left it.
Before(r) == About(req[r].row) \cap ListAuditLogBefore(r)
KeepsOtherFields(r) ==
    \A f \in Fields \ {req[r].field} :
        req[r].copy.fields[f] =
            IF Before(r) = {} THEN None ELSE req[LastOf(Before(r))].copy.fields[f]

\* The claim that a field which is not given keeps its stored value: of two entries
\* about a row that follow one another the second changes one field.
PartialUpdateKept == \A r \in logged : req[r].row # None => KeepsOtherFields(r)

\* What is true of it: an update undoes another one only if that one's entry was logged
\* after the first had read the row.  Deletes never do.
OnlyOvertakenUndo ==
    \A r \in logged :
        req[r].row # None /\ (req[r].field = None \/ Before(r) \subseteq req[r].known)
            => KeepsOtherFields(r)
=============================================================================
