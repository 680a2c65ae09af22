---------------------------- MODULE InvitationGrants ----------------------------
(***************************************************************************)
(* What an invitation promises, without requests, transactions or codes:   *)
(* an offer of one seat to one address, taken up at most once, while it is *)
(* open.                                                                    *)
(***************************************************************************)
CONSTANTS Invites, Emails, Seats

VARIABLES
    state,    \* "unborn", "open", "granted" or "closed", by invitation
    offer,    \* to whom each invitation offers what
    members   \* who sits where

Memberships == Emails \X Seats

Init ==
    /\ state = [i \in Invites |-> "unborn"]
    /\ offer \in [Invites -> Memberships]
    /\ members = {}

Offer(i, m) ==
    /\ state[i] = "unborn"
    /\ state' = [state EXCEPT ![i] = "open"]
    /\ offer' = [offer EXCEPT ![i] = m]
    /\ UNCHANGED members

\* The seat is new to its holder: nobody is granted what he has.
Grant(i) ==
    /\ state[i] = "open"
    /\ offer[i] \notin members
    /\ state' = [state EXCEPT ![i] = "granted"]
    /\ members' = members \cup {offer[i]}
    /\ UNCHANGED offer

Close(S) ==
    /\ S # {}
    /\ \A i \in S : state[i] = "open"
    /\ state' = [i \in Invites |-> IF i \in S THEN "closed" ELSE state[i]]
    /\ UNCHANGED <<offer, members>>

Next ==
    \/ \E i \in Invites : Grant(i) \/ \E m \in Memberships : Offer(i, m)
    \/ \E S \in SUBSET Invites : Close(S)

Spec == Init /\ [][Next]_<<state, offer, members>>
=============================================================================
