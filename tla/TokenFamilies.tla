---------------------------- MODULE TokenFamilies ----------------------------
(***************************************************************************)
(* What refresh rotation promises, with no statements, transactions, locks *)
(* or clock: every operation has a moment at which it takes effect.        *)
(*   - A login opens a family with one usable token.                       *)
(*   - A rotation is admitted with a token that is usable then.  When it    *)
(*     takes effect, that token is usable no more and one never seen        *)
(*     before is, in the same family.                                      *)
(*   - A revocation singles out the usable tokens of a family; when it      *)
(*     takes effect, all of them and no others are usable no more.         *)
(* Neither moment looks at what happened since the first: two rotations     *)
(* may be admitted with one token, and a rotation admitted before a         *)
(* revocation may take effect after it.  A family without a usable token    *)
(* and without an admitted rotation is dead for good.                       *)
(***************************************************************************)
CONSTANTS
    Tokens,
    FamilyIds,
    Actors,     \* what rotates and revokes, one operation at a time
    NoToken

VARIABLES
    handedOut,  \* the tokens ever handed out in every family
    usable,     \* those that can still be exchanged
    admitted,   \* the token every actor's rotation was admitted with
    closing     \* the tokens every actor's revocation has singled out

promiseVars == <<handedOut, usable, admitted, closing>>

Init ==
    /\ handedOut = [f \in FamilyIds |-> {}]
    /\ usable = [f \in FamilyIds |-> {}]
    /\ admitted = [a \in Actors |-> NoToken]
    /\ closing = [a \in Actors |-> {}]

Unused == Tokens \ UNION {handedOut[f] : f \in FamilyIds}

\* An opened family is never opened again, even once it is dead.
Open(f) ==
    /\ handedOut[f] = {}
    /\ \E t \in Unused :
        /\ handedOut' = [handedOut EXCEPT ![f] = {t}]
        /\ usable' = [usable EXCEPT ![f] = {t}]
    /\ UNCHANGED <<admitted, closing>>

Admit(a, f) ==
    /\ admitted[a] = NoToken
    /\ \E t \in usable[f] : admitted' = [admitted EXCEPT ![a] = t]
    /\ UNCHANGED <<handedOut, usable, closing>>

Rotate(a, f) ==
    /\ admitted[a] \in handedOut[f]
    /\ \E t \in Unused :
        /\ handedOut' = [handedOut EXCEPT ![f] = @ \cup {t}]
        /\ usable' = [usable EXCEPT ![f] = (@ \ {admitted[a]}) \cup {t}]
    /\ admitted' = [admitted EXCEPT ![a] = NoToken]
    /\ UNCHANGED closing

SingleOut(a, f) ==
    /\ closing[a] = {}
    /\ closing' = [closing EXCEPT ![a] = usable[f]]
    /\ UNCHANGED <<handedOut, usable, admitted>>

Close(a) ==
    /\ usable' = [f \in FamilyIds |-> usable[f] \ closing[a]]
    /\ closing' = [closing EXCEPT ![a] = {}]
    /\ UNCHANGED <<handedOut, admitted>>

\* An operation that fails has no effect.
Fail(a) ==
    /\ admitted' = [admitted EXCEPT ![a] = NoToken]
    /\ closing' = [closing EXCEPT ![a] = {}]
    /\ UNCHANGED <<handedOut, usable>>

Next ==
    \/ \E f \in FamilyIds : Open(f) \/ \E a \in Actors : Admit(a, f) \/ Rotate(a, f) \/ SingleOut(a, f)
    \/ \E a \in Actors : Close(a) \/ Fail(a)

Spec == Init /\ [][Next]_promiseVars

=============================================================================
